# A TLA+ development of the Sofabaton X1S hub library

The repository talks to an infrared hub (X1, X1S, X2) over one TCP session that
the *hub* opens. Home Assistant and the official app both want that session, and
the hub serves one request at a time: a frame that reaches it while it streams
the rows of an answer is dropped without a word. Most of the control logic of
the library exists to live with that, and with a cache that is edited on three
sides. This directory models that logic, checks it with TLC on small instances,
and proves what matters most with TLAPS for every value of the constants.

Paths are relative to `src/custom_components/sofabaton_x1s/`.

## The system

### Threads

| thread | what it runs |
|---|---|
| bridge thread | `_bridge_forever`: reads both sockets, calls the frame handlers, then the idle callbacks (`BurstScheduler.tick`) |
| executor threads | the blocking helpers of the library (sync, backup, restore, delete), called from Home Assistant through `async_add_executor_job` or from `lib/aio.py` |
| the event loop | websocket handlers, entities; non-blocking calls such as `request_devices` |
| listener, demuxer, CALL_ME, app-session threads | accept the hub, answer discovery, connect to the app |

They share the fields of one `X1Proxy` object per hub. Some are under locks
(`_exchange_lock`, `_ack_queue_lock`, `_hub_lock`, `_app_lock`); the scheduler is
not.

### Components

| component | state | operations | interacts through | what makes it correct |
|---|---|---|---|---|
| burst scheduler (`lib/state_helpers.py`) | `active`, `kind`, `last_ts`, `queue`, listeners | `start`, `queue_or_send`, `tick`, `finish`, `_drain` | called from every thread; sends through the bridge; burst-end callbacks | nothing lost, doubled or overtaken; always drained; never on a busy wire |
| wire exchange (`lib/proxy_exchange.py`) | RLock, `_exchange_depth` | `exchange`, `wait_for_read_burst_quiesce`, `execute_exchange`, `run_exchange_steps` | holds the scheduler with a pseudo-burst | exclusive, starts on a quiet wire, always released |
| ack waiters (`lib/proxy_ack_waiters.py`) | `_ack_queue`, event, inputs/macro/IR waiters | `notify_ack`, `wait_for_ack_any`, `clear_ack_queue` | bridge thread to executor threads | the answer belongs to the request |
| request front ends (`lib/x1_proxy.py`) | `_pending_*_requests`, retry flag | `request_*`, `enqueue_cmd`, `_send_cmd_frame`, burst-end listeners | scheduler, catalogs | a pending mark means something is pending |
| catalogs (`lib/proxy_catalog.py`) | request in flight, pending rows, expected count | `_begin_*`, `ingest_*_row`, `note_catalog_status_ack`, commit, retry | handlers, scheduler | a snapshot is one answer, whole |
| frame decoding (`lib/deframer.py`, `lib/proxy_frame_decode.py`, `lib/opcode_handlers.py`) | partial frame, assemblers per table | `feed`, handlers per opcode | bridge thread | a table is one answer, whole |
| transport bridge (`lib/transport_bridge.py`) | hub and app socket, OTA deadline, buffers | install, pause, stop, app session, bridge loop | listener, demuxer, state callbacks | one hub session, one owner; state events match it |
| listener, demuxer (`lib/hub_listener.py`, `lib/notify_demuxer.py`) | registrations per hub | register, unregister, accept, answer | bridge | a hub reaches its own proxy, and only while registered |
| activity operations (`lib/proxy_activity_ops.py`) | cached tables | add and delete a device, favorites, buttons, sorting, erase | exchange | the cache follows the hub, no edit destroys another's |
| activity and device sync (`lib/activity_sync.py`, `lib/proxy_activity_sync.py`, `lib/proxy_ir_blob.py`) | plan, baseline | plan, preflight, execute | exchange | a sync that reports success did what the user edited and nothing else |
| Wi-Fi device (`lib/proxy_wifi_device.py`, `lib/wifi_inplace_plan.py`, `hub.py`) | record, device on the hub | deploy, create, edit in place | store, exchange | a hash on the hub is earned |
| restore, backup, creation (`lib/proxy_restore.py`, `lib/proxy_backup*.py`, `lib/device_create.py`, `lib/bundle_validation.py`) | id maps | create, write, roll back | exchange | no orphan after a failure; ids remapped consistently |
| codecs (`lib/commands.py`, `lib/macros.py`, `lib/inputs.py`, `lib/blob_decoders.py`, ...) | none | parse, build | handlers, writers | inverse of each other |
| asyncio facade (`lib/aio.py`) | waiters per burst kind | `_read`, dispatch, resolve | executor, event loop | a read gets its own answer, a wait ends |
| coordinator (`hub.py`), websocket API (`__init__.py`) | sync lock, operation registry, caches | sync, backup, restore, cache refresh | executor, bridge busy gate | one long operation per hub |
| command store (`command_config.py`), Roku listener (`roku_listener.py`) | slots, registrations | allocate, reconcile, enable | coordinator | a press fires the event it was made for |
| entities, config flow, front end, bench scripts | presentation | | | the editor's working copy only; the rest keeps no state other parts depend on |

`PROJECT.json` lists the same components with their status and, under
`hazards`, the places in the code that are hardest to test.

### What is hard

* the scheduler's check-then-act on `active` from several threads;
* the pseudo-burst that an exchange puts on the scheduler, which the idle tick
  may not end and which must not outlive the exchange;
* one status byte, 0x07, that may answer a write, a table read inside an
  exchange or a catalog read; acks that name no request;
* answers that come after the window or the timeout that waits for them;
* the app taking the session, the hub dropping it, an OTA pause, a switch, in the
  middle of any of this;
* check before `await`, act after it, in the coordinator;
* plans made from a cached baseline; ids chosen from a cached list; records
  written whole from cached bytes;
* runs of many writes that fail half way and are retried.

## The modules

| module | of the code | checked by | proved in |
|---|---|---|---|
| `WireScheduler` | scheduler, front ends, exchange guard | `wire_serial`, `wire_live` | `WireSchedulerProofs` |
| `HubLink` | listener, the hub's socket | `hub_link` | `WireSchedulerProofs` |
| `CatalogSnapshot` | the two catalogs | `catalog` | `CatalogSnapshotProofs` |
| `AckSteps` | ack waiters, steps of an operation | `ack_steps` | `AckStepsProofs` |
| `AppSession` | the app's way in | `app_session` | `AppSessionProofs` |
| `OperationGuard` | registry, deploy lock, busy gate | `guard` | `OperationGuardProofs` |
| `Bundle`, `BundleCopy`, `Restore` | restore of a backup | `restore` | `RestoreProofs` |
| `ActivitySync` | editor, planner and executor of an activity's sync | `sync` | `DeviceSyncProofs` |
| `DeviceSync` | the same for a device | `sync` | `DeviceSyncProofs` |
| `WifiEvents` | Wi-Fi Events: store, deploy, guard | `events` | `OperationGuardProofs` |
| `Reads` | those who wait for a table | `reads` | `CatalogSnapshotProofs` |
| `EntityTables`, `HubWrites` | tables of an entity; direct edits | `hub_data` | `HubDataProofs` |
| `Subsequences` | list comprehensions: the elements of a list that are in a set, sets in order; used by `ActivitySync` and `HubWrites` | with them | with them |

### WireScheduler

One module for the scheduler, the front ends, the exchange guard and the hub,
because every property of interest relates two of them.

| code | model |
|---|---|
| `active`, `kind`, `queue` | the variables of the same names |
| `last_ts`, `idle_s`, `response_grace` | `lull`: the window of the current burst has run out (`WindowOver`) |
| `_pending_button_requests` and siblings | `pending`, a set of tables |
| `_activity_request_inflight`, `_activity_pending_rows` | `inflight`, per catalog: no, asked, rows |
| `_exchange_lock`, `_exchange_depth` | `holder`, `depth` |
| attempts of `execute_exchange` | `tries`, `want`, `answered` |
| local variables of a running method | `pc`, `hand`, `ending` |
| `can_issue_commands` | `CanIssue`, from `link` |
| the hub | `hub` (the table it streams), `begun`, `owes` (an ack) |
| — (history) | `requested`, `sent`, `dropped`, `lost`, `disturbed` |

`queue_or_send` is `Ask`, then `AppendRequest`, or `BeginBurst` and `SendNow`:
the code can be interrupted between reading `active`, writing `active`/`kind`
and sending. `_drain` is `EndBurst`, `NotifyBurstEnd`, and the loop `Loop`,
`Pop`, `Item`, `DrainSend`. `exchange` is `EnterExchange`, `QuiesceDone` or
`QuiesceTimeout`, `MarkWire`, the body (`SendStep`, `StepAnswered`,
`StepTimeout`, `NestExchange`, `UnnestExchange`) and `LeaveExchange`, which may
run after any number of steps, as after an exception. The bridge thread runs
`Tick`, the row frames (`RowFrame`, `LastRowFrame`), the bare 0x07 that answers
an empty table (`EmptyFrame`) and the ack of a write (`AckFrame`), and may
itself enqueue a read (the ready handler does).

Requests are numbered in the order they are made. Every write of a burst kind in
Python is one store of a reference, so the finest interleaving the model needs
is between accesses of different fields.

Two specifications share the actions:

* `Spec` interleaves the threads freely: the program as it is.
* `SerialSpec` lets a method of the scheduler finish before another thread
  enters one (`Alone`). It shows what the algorithm guarantees when its methods
  do not race, and it is also what really happens whenever the threads do not
  meet inside a method. The hub, the app, time and the *bodies* of exchanges
  still interleave with everything.

`disturbed` is an honest premise, not a fix: it records that an answer outlasted
the 5 s window or the step timeout that waits for it, that the app read a
table, or that rows arrived for a table an exchange reads itself (or for a read
whose quiesce timed out). `QuietWire` and `ExchangeKeepsWire` speak about a wire
on which this has not happened; the other properties hold regardless.

### HubLink

The TCP sessions below the scheduler: the shared listener, one bridge per hub
and the hubs, which dial and vanish as they like.

| code | model |
|---|---|
| `HubListener._by_ip`, `_thr` alive, `_bouncing` | `registered`, `listening`, `bouncing` |
| connections the kernel queues for `accept` | `backlog` |
| the accept thread, with its locals `client` and `existing` | `apc`, `client`, `existing` |
| `_stop` and the progress of `stop` | `life` |
| `_hub_sock`, the argument of the last `_notify_hub_state` | `sock`, `told` |
| the bridge thread and its local `hub` | `bpc`, `sampled` |
| `_ota_pause_until` in the future; `pause_for_ota` and its local | `paused`; `ppc`, `taken` |
| socket objects | `Conns`: the hub that dialled and a slot; `open` at this end |
| the hub's side | `session`, the connection it believes to have |

`_hub_lock` makes each access of `_hub_sock` atomic and nothing more, so each
access is an action of its own. `_install_hub_socket` is `CheckPause`, `Swap`,
`CloseExisting`, `TellConnected`; a round of `_bridge_forever` is `Sample`, and
after an end of file or a failed send `Eof`, `Clear`, `TellLost`, where a later
flush to the same socket may clear once more; `pause_for_ota` is `Pause`,
`TakeSocket`, `CloseTaken`; `stop` is `StopUnregister`, then `StopClose` with
its notification under the lock, as in the code.

What is assumed of the surroundings:

* a hub dials when it has no session (`Redial`) or is called (`CallMe`), and the
  connection it opens for one call is taken up before the next call, 2 s later;
* a socket object nobody refers to is closed at some time (`Collect`); slots are
  used again after that;
* `_stop_thread_locked` waits 1 s for the accept thread. The model lets it wait
  for a running `on_socket`, which blocks on nothing but short locks;
* a bridge object is started once, and each hub has one proxy.

### CatalogSnapshot

How the activities and devices catalogs get their contents. Here the methods of
the scheduler are atomic (their interleaving is the subject of `WireScheduler`)
and the hub is modelled closely: it answers requests one after the other from
the table as it is when it takes the request up, drops what reaches it while it
streams, may not answer, and may break off.

| code | model |
|---|---|
| `active`, `kind`, `queue` of the scheduler | `burst` (`Idle` when not active), `queue` |
| `_*_request_serial`, `_*_request_inflight`, `_*_pending_generation`, `_*_pending_expected_rows`, `_*_pending_rows` | `pend`, a record per catalog |
| `_activity_retry_count`, `_due_at`, `_send_pending` | `retry` |
| `state.activities`, `state.devices` and their ready flags | `committed`, `ready` |
| a call between `request_activities` and `enqueue_cmd` | `hand`, per thread |
| an open exchange | `xchg` |
| `can_issue_commands` | `CanIssue`, from `link` |
| the hub: versions of its tables, requests it has, the answer it streams | `hist`, `asked`, `answer` |
| — (history) | `since`, `basis`, `overlap`, `asks`, `retries` |

A row is the version of the table it comes from, so that a snapshot made of two
answers shows. A frame handler is one step with everything it calls:
`RowFrame` ingests a row, claims the burst, and when the snapshot is complete
drains the scheduler, which commits and sends the next request (`Drain`,
`Send`). `StatusFrame` is `note_catalog_status_ack`. Only activities are retried,
and only on the X2, which the model is of; without `Retry` it is the other hubs.
The retry flag is a field that one thread sets and another may send under, so
`Retry` and `Ask` stop between setting it and `Enqueue`.

Abstracted: a commit and a clear write the table and its ready flag in one step
(a commit writes the flag last); the metadata that a commit carries over for a
device; one entity stands for all, and the last row of its answer for the rows.

### AckSteps

Whose answer a caller takes for its own. An operation is a sequence of steps
(`Programs`: a write, a bind tried twice, a page of a create, a create and the
`takeid` after it, a paged macro save, the reads of order, key sort and inputs,
and `reset_ack_queues`, which empties all waiting places from outside of the
exchange); each step takes the exchange, sends a frame, waits, and leaves with a
verdict.

| code | model |
|---|---|
| the running operation, the step, its attempts | `todo`, `pc`, `tries` |
| `_exchange_lock` | `holder` |
| frames to the hub and answers from it, in order | `inbox`, `line` |
| `_ack_queue`, less what `not_before` filters out | `acks` |
| `_device_key_sort_pending`, `_activity_inputs_*`, `_pending_assigned_device_id` | `sorting`, `buffer`, `assigned` |
| `AckOutcome` | `verdict` |
| — (history) | `ticket`, `mine`, `got`, `seen`, `meddled`, `late`, `ops` |

Every frame bears a ticket and its answer the same one: the code has no such
thing, which is the point. `late` counts waits that ended before their answer
came, `meddled` are threads whose answers another thread threw away. A key sort that got
no table disarms the assembly after its exchange is over (`Disarms`), when another
thread may have armed it.
`Programs` are checked by assumption to be operations the code has: an id is
asked for only after a create, pages of a save follow one another.

### AppSession

How a hub is offered to the Sofabaton app while no app holds it, and how a
session of the app begins and ends: the demuxer's registration and its CALL_ME,
the threads that dial the app (one per CALL_ME), the bridge thread that finds
the socket at its end, and the executor threads that switch the proxy, announce
the identity, apply new settings (a new bridge) and stop. Registering is check,
call, set without a lock, so a thread is the list of the steps it has yet to
make (`todo`) and every step is an action.

| code | model |
|---|---|
| fields of `TransportBridge` and `X1Proxy` | `bridge`, a record per bridge (`NewBridge` names them) |
| the demuxer's entry for the hub | `listed` |
| `SofabatonHub.proxy_enabled` | `setting` |
| threads in the middle of a method | `todo`, `of` |
| sockets at their end | `gone` |
| — (history) | `late`, `cut`, `crossed` |

The ghosts are the exceptions under which the code does go wrong: a session that
ends before the thread that dialled it has announced it (`late`), a switch while
the app is being dialled (`cut`), two threads inside a registration (`crossed`).

### OperationGuard

Who may work on a hub. A job (backup, restore, sync, cache refresh) is
registered and runs as a task that awaits worker threads; a worker talks to the
loop through its FIFO of callbacks; deletes and reorders ask and then work
unregistered; most services ask about the deploy lock only; a deploy asks its
lock only.

| code | model |
|---|---|
| `_BackupOperationRegistry` | `ops`: kind, status and cleanup timer |
| a job's task, cut at its awaits | `stage` |
| service calls that run a job, those cancelled | `called`, `cancelled` |
| callbacks posted to the loop | `posted` |
| who writes to the hub | `wire`; the deploy lock is `lock` |
| cards subscribed to an operation | `viewers` |
| `cache_generation` and the cache, as compared with a snapshot | `exports`, `gutted` |

### Bundle, BundleCopy, Restore

`Bundle` is the backup as a restore reads it, with the sort of its activities
(`PlaceOne`, `SortPass`, `RestoreOrder`, written as recursive functions).
`BundleCopy` is what a restore promises: entities are copied one after the
other, each after those it refers to, to ids nothing else has, and the verdict is
"success" just when all are. `Restore` is how: `Refreshed` and `Allocated` ids,
`CreateDevice` or `ImportDevice` (X1), `FillDevice` with `Rollback`,
`CreateActivity`, `WireActivity` with references mapped (`Mapped`), favorites
into the keys that are left (`NextFreeSlot`, `NextFavorite`), while steps fail,
or are done and not answered, and the app comes, edits and goes.

### ActivitySync, DeviceSync

From the editor to the hub. `ActivitySync`: favorites and macros share one set
of key ids; the hub keeps an id for life, the editor renumbers at every move,
and the plan finds out by content which is which. Steps: `RequestSync`,
`Preflight`, `Step`, `Write`, `Map`, `Done`, `Fail`, `Rebase`, and the edits of
the front end. `DeviceSync`: commands with payloads and names, their display
order, the head record, key table; the sync and the service `persist_ir_blob`
both add commands (`Save`, `Register`, per writer). `before` is the hub as it
was last read, with what others did since; a command on its way has no place
in it (`AsFound`). `MCEditorSync` extends `DeviceSync` and takes `ActivitySync`
as an instance; `turn` says of which of the two a behaviour is.

`kept` are the favorites a sync found on the hub and was to keep: neither those
whose id the baseline has for something else nor those that others touched since.

Exceptions that the properties name, each of which the code does get wrong:
`deaf` (an unanswered read), `foreign`, `promoted`, `twice`, `unsorted`,
`reworked`, `unread` for activities; `deaf`, `cut` (a dump that broke off),
`blind` (list not heard), `twin` (two claims of one id), `unheard` (label lost)
for devices.

Left out: member devices, inputs, names and idle behaviour of an activity, long
presses, power macros, the commits, the `remote_sync` step; of a device the idle
mode, inputs, brand and head of a Wi-Fi device.

Simplified: the order that a new macro's id is chosen from (`Allocated`) is always
heard, while the code takes an unanswered read for an empty order
(`lib/proxy_activity_sync.py:336-338`); and the ids a step accepts (`Known`) are
those read at the start of the run, while the code drops its cached favorites
at each favorite it writes, so that a later delete of one that the order does not
list fails there. The model lets such a delete succeed; one that fails is met as
any failed step.

### WifiEvents

Named callbacks: an event is a slot of one store record, the record is deployed
as a device with a command per slot, and favorites, bindings and macro steps
refer to the slot's number. Handlers of the event loop interleave at their
awaits; the deploy is cut at each write to the hub. `refs` are references on the
hub with the event that was *meant*; `Fires` is what pressing one does. `unsure`
are devices whose labels the brand does not speak for: others wrote to them,
their creation was cut, or a deploy left them standing beside its own (`Beside`).

### Reads

How a caller waits for a table: `AsyncX1Proxy._read` (a future resolved by a
callback posted to the loop, or a timeout), `_fetch_and_wait` of the export (an
event armed before the kick), the coordinator's fetch of an activity (a future
without a timeout for the buttons, polls for the rest) and its priming of
buttons. `company` is who is at work together.

### EntityTables, HubWrites

`EntityTables`: how the pages of a table become a cached table; a page stands
for its rows and says from which version of the hub's table it is. Assemblers
(`buffer`), the burst and its queue, completeness flags, import and restart.
`HubWrites`: edits made straight on the hub (`add_device_to_activity`,
`command_to_favorite`, `reorder_favorites`, `delete_favorite`,
`command_to_button`, `delete_device`, the two sorts, `erase_configuration`), each
a sequence of exchanges of its own worker thread, interleaved between them, and
what each leaves in the cache. Members, macros and buttons have a flag that says
whether they are to be read (`Flagged`, `has`); favorites and their order have none
(`get_favorites` and `ensure_commands_for_activity` serve what the list holds), so
they are shown as they stand, and `unread` are those shown empty: dropped by an
edit and not read since. `torn` are cached tables an edit is known to leave behind,
`misread` jobs whose reads were not answered in full or were overtaken.
Assemblers of buttons and commands keep a frame under its number (`Filed`), that
of the macros appends it (`Joined`).

## The runs

`CHECK_DEADLOCK FALSE` is set everywhere because the systems may come to rest:
once the requests, edits or tasks of the bound are done nothing needs to happen.
Every action of every module fires in one of the runs.

| run | instance | checks | shows |
|---|---|---|---|
| `wire_serial` | `SerialSpec`, 2 requests, 1 attempt, depth 1, 1 change of the link | `SentInOrder`, `QuietWire`, `ExchangeKeepsWire`, `EachRequestInOnePlace`, `MarkHasHolder` | the scheduler and its exchanges are right when its methods do not overlap |
| `wire_live` | `FairSerialSpec`, 2 requests, 2 attempts, depth 2 | `DeferredLeaves` | a deferred request always leaves, though the hub may never answer |
| `hub_link` | `FairSpec`, 2 hubs, 2 sockets each, 1 upset, 1 bounce | `PortFollowsHubs`, `CurrentIsOpen`, `SelfHeals` | no thread closes the socket in use, and a hub always comes back |
| `catalog` | tables of 0 or 2 rows, 1 change, 3 requests, 1 flap | `SnapshotIsWhole`, `Fresh` | a catalog is never half an answer, and is current unless a read was talked over |
| `ack_steps` | 2 threads, 3 operations, 1 late answer | `AckIsOwn`, `TimeoutMeansSilence`, `CreatedIsOwn` | a step takes its own answer, and times out only on silence |
| `app_session` | 2 bridges, 1 executor thread, 2 CALL_MEs, 3 tasks | `FoundAgain`, `HiddenWhenOff`, `ToldIsTrue`, `SessionsOutliveTheSwitch` | once all threads rest the app finds a hub that is free and on, and none that is off |
| `guard` | `FairSpec`, 2 operations of 3 kinds, a card, a script | `BusyMeansJob`, `JobsAreAlone`, `AcceptedIsCurrent`, `OpsEnd` | the registry tells the truth, jobs do not meet, a stale snapshot is refused |
| `restore` | 6 bundles, 4 + 3 ids, 2 edits by the app | `ReferencesKept`, `OneStrayAtMost`, `CopiesBundle` | references name the right copies, at most one copy is unlisted, and `Restore` implements `BundleCopy` |
| `sync` | 2 edits, 2 syncs, 1 trouble; an activity of two keys or a device of two commands | `SyncedAsEdited`, `NothingElseLost`, `DeviceAsEdited`, `BrowseKept`, `PayloadsSurvive` | what a sync that succeeds did, and what a failed one may not have destroyed |
| `events` | 2 slots, 2 names, 2 events, 1 reference, 1 trouble | `RefsFireTheirEvent`, `BrandIsEarned`, `EventsDieByDeletion` | a press fires the event it was made for; a device claimed in sync has the commands |
| `reads` | `FairSpec`, 7 companies of one or two tasks | `ReadIsWhole`, `TimeoutIsHonest`, `FetchReturns` | a read returns a whole table or times out on silence; a fetch returns |
| `hub_data` | 1 activity, 2 devices, 2 edits, 1 trouble; 2 entities, 3 reads, 1 break | `TableIsWhole`, `CacheFollowsWrites`, `MembersKept`, `ShownIsKept` | tables are put together right; cache and hub stay in step; one edit does not undo another |

Bounds.

* `WireScheduler`: one caller (besides the bridge thread, which also enqueues),
  one writer, the two catalogs and one table. Two requests are what an
  overtaking, a doubled send and a race need. One exchange at a time exists
  anyway, because of the lock, so one writer that may open exchange after
  exchange stands for several. One attempt per exchange suffices for safety,
  because consecutive exchanges repeat it; the liveness run has two attempts and
  two levels. `MaxFlaps` 1 lets the app attach and detach, or the hub drop and
  return, once.
* `HubLink`: two hubs are what the shared listener needs to differ from a
  private one. Two sockets per hub are an old and a new session; `MaxUpsets` 1 is
  one departure or one pause, and the stop and the bounce come on top.
* `CatalogSnapshot`: a table of two rows is the smallest with a part that is not
  the whole, one of none brings the 0x07. One change gives two versions to mix.
  Three requests are one that is late, one in flight when the late answer comes,
  and one queued behind.
* `AckSteps`: two threads with three operations let an operation meet the
  leftovers of another thread's and of its own former one. One late answer is
  the exception that `AckIsOwn` names.
* `AppSession`: two bridges are one that replaces another; two CALL_MEs are two
  sessions or one that replaces another; three tasks are a switch off, a switch
  on and a stop.
* `OperationGuard`: two operations are what a meeting needs.
* `Restore`: the six bundles have a missing source id, a reference to a later
  activity, a circular one, one id for two activities, favorites behind macros,
  devices that cannot be written; four device ids leave two strangers.
* `sync`: one outsider per behaviour, the service once or somebody else's edit
  before the first sync; three command ids, so the third is the new one. Four
  ids, three edits and two troubles are for the theorems about `DeviceSync`,
  which bound none of them.
* `events`: two events for two slots let a slot be given out twice.
* `reads`: a pair suffices because a task's own future or event is touched by
  the others only through the cache, the burst and the request sets, each of
  which a single other task can put in any state.
* `hub_data`: two edits by two threads; two favorites, so that one can vanish
  below another. Two entities, so that a page can fall to the other one's read.

Fairness.

* `FairSerialSpec`: weak fairness of each thread's own progress (a runnable
  thread runs; `StepTimeout` and `QuiesceTimeout` because every wait in the code
  has a deadline; `LeaveExchange` because a `with` block ends; `Tick`, which the
  bridge loop calls every 0.5 s at the latest) and of `WindowOver` (time passes).
  Nothing is assumed of the hub, of the app or of new requests.
* `HubLink`: the accept thread and the bridge threads run, a bounce and a pause
  end, `stop` gets to its end, and a hub that is called for ever answers
  (`CallMe`). Nothing obliges a hub to redial by itself.
* `OperationGuard`: the loop runs its callbacks and a job proceeds. Nothing
  obliges a user to start or dismiss anything or a timer to fire.
* `Reads`: the end of a burst comes (the idle tick), the loop runs what is
  posted, and a fetch or a prime takes its next step when it can. Nothing obliges
  the hub to answer; a read may time out but does not have to.

### The premises of the properties

A property of a program that has races holds under premises; each is named in
the module and is as small as TLC lets it be.

* `Fresh`: no frame left while the hub still owed an answer or a catalog read
  was in flight (`overlap`). `SnapshotIsWhole` has no premise.
* `AckIsOwn`, `CreatedIsOwn`: no wait ended before its answer had come.
  `TimeoutMeansSilence`, `CreatedIsOwn`: no other thread emptied or took what one waits for.
* `FoundAgain`, `HiddenWhenOff`, `ToldIsTrue`: see `late`, `cut`, `crossed`.
* `BusyMeansJob`: but for a job whose service call was cancelled.
  `AcceptedIsCurrent`: but for a generation that moved under the projection.
* `ReferencesKept`: unless the app has deleted the copy.
* `SyncedAsEdited`, `DeviceAsEdited`: the exceptions listed with the modules, two
  shortcuts of the same content, an id that the sort table lists twice, a button
  whose macro is gone from the baseline, and a new macro whose proposed id another
  row of the plan names. `NothingElseLost`: a read of the favorites that failed unnoticed.
* `CacheFollowsWrites`: `torn`, which an edit that stopped half way or a read that
  broke off fills, and so do edits that succeed: the members of an activity that got
  a device and the button of one it lost, the order after a favorite was added or a
  device deleted (`clear_entity_cache` leaves it), and what was read after a
  delete had searched the cache. `unread`: favorites and orders dropped, by an edit
  that succeeded too, are shown as none until they are read again, not as the hub's.
* `MembersKept`, `ShownIsKept`: `misread`, and on an X1S the favorites above the
  new one's id.
* `TableIsWhole`: an answer that broke off or paused (`cut`), a page that came
  late (`strayed`).

## What is proved

Each theorem is about the specification without fairness and for all values of
the constants, from the named assumptions of the module (names are distinct,
bounds are naturals, programs are operations the code has, bundles are lists).
None bounds how many threads, requests, hubs, entities or failures there are.
The inductive invariants were first checked by TLC on the instances of the runs.

**`WireSchedulerProofs`** (assumptions: thread names and kinds are distinct)

| theorem | statement | argument |
|---|---|---|
| `TypeCorrect` | `Spec => []TypeOK` | needs `CarryOK`: a thread inside `queue_or_send` or `_drain` carries a request that was made, and the depth follows the position of the holder |
| `MarkHeld` | `Spec => []MarkHasHolder` | `LockInv`: a pseudo-kind is only ever set by the holder in `MarkWire`, the holder is inside its scope, and it cannot return the lock from the body while the burst is active |
| `NoneLostNorDoubled` | `Spec => []EachRequestInOnePlace` | itself inductive once typing is known; the lemmas `Places`, `TakeUp`, `HandOn` move one ticket between two places |
| `IdleIsDrained` | `SerialSpec => []IdleMeansDrained` | `SerialInv`: at most one thread is inside a method (`OneInside`), and a method that leaves the scheduler idle has seen an empty queue (`Emptied`, `Knows`) |
| `WireIsKept` | `SerialSpec => ExchangeKeepsWire` | each action that may end a pseudo-burst is either its holder's or a row frame, which disturbs |
| `InOrder` | `SerialSpec => []SentInOrder` | `OrderInv`: sent, then the carried ticket, then the queue are increasing, and a ticket sent directly meets an empty queue |
| `WireIsQuiet` | `SerialSpec => []QuietWire` | `QuietInv`: on an undisturbed wire a streaming hub is covered by an active read burst or by the exchange step that waits for it |

`SerialIsNext` shows that every serialized step is a step of `Next`, so that the
invariants of `Spec` carry over. The first three theorems hold under *every*
interleaving of the unlocked methods, which no run enumerates.

**`WireSchedulerProofs`, about `HubLink`** (assumption: `NoConn` is no connection;
`MCHubLink` takes `HubLink` as the instance `Link`)

| theorem | statement | argument |
|---|---|---|
| `LinkTypeCorrect` | `Link!Spec => []TypeOK` | needs `PauseInTime`: `pause_for_ota` returns before the deadline it arms |
| `PortIsRight` | `Link!Spec => []PortFollowsHubs` | inductive once typing is known |
| `CurrentStaysOpen` | `Link!Spec => []CurrentIsOpen` | `SocketInv`: a socket refers to its own hub's bridge only (`OwnOnly`); a connection not yet installed is open and referred to by nobody else (`FreshOK`); what a thread took out to close is no longer the current socket (`AwayOK`) |
| `PauseIsKept` | `Link!Spec => []PauseRefuses` | `RefusedOK`: a connection taken up in a pause does not get past the check, and it is fresh there |

**`CatalogSnapshotProofs`**

| theorem | statement | argument |
|---|---|---|
| `CatalogIsWhole` | `Spec => []SnapshotIsWhole` | `SnapshotInv`: a pending snapshot that has row 1 has rows of one version only and expects as many as that version has (`Pure`), and the rest of the answer under way is of that version, too (`InStep`) |
| `CatalogIsFresh` | `Spec => []Fresh` | `FreshInv`: until a frame has left over another, the hub owes at most one answer (`OneOwed`), to the request that is in flight, and what is pending comes from it (`OnOwnAnswer`), so from a version no older than when it left (`SinceOK`) |

`SnapshotIsWhole` says nothing of the rows that are still pending, so it is not
inductive. The argument shows what the code relies on: every answer begins with
row 1, which empties the snapshot, and a new request empties it as well. It does
not use the test of the generation in `ingest_activity_row` ("before row #1"),
which never refuses a row because a new request arms the generation itself.
Freshness rests on the exchange's wait for a quiet wire, not on any check of the
rows.

The module also proves, of those who wait for a table (`Reads`; assumption
`TasksAreApart`: tasks are of one kind each, and reads of the facade do not run beside
fetches of Home Assistant, since no program of the repository uses both on one
hub):

| theorem | statement | argument |
|---|---|---|
| `ReadsInvariant` | `Rd!Spec => []ReadsInv` | the invariant below |
| `ReadsAreWhole` | `Rd!Spec => []ReadIsWhole` | what is marked complete, or a reader was woken for, is in the cache and whole, or the answer that filled it broke off, or a clear came after it (`ProxyStands`, `WokenStand`) |
| `TimeoutsAreHonest` | `Rd!Spec => TimeoutIsHonest` | `Announced`: a task that waits for a table that is there still has its notice in the loop's queue, or registered after it was given |

**`OperationGuardProofs`** (assumption: kinds are the code's)

| theorem | statement | argument |
|---|---|---|
| `GuardInvariant`, `GuardTypeCorrect` | `Spec => []IInv`, `Spec => []TypeOK` | the invariant below |
| `RegistryTellsTheTruth` | `Spec => []BusyMeansJob` | `JobsInv`: records agree with stages, a job at work has a live record, what is on the wire has a job |
| `JobsWorkAlone` | `Spec => JobsAreAlone` | who asks sees a live record for any job on the wire (`JobsInv`) |
| `SnapshotsAreCurrent` | `Spec => AcceptedIsCurrent` | `QueueInv` and `BumpIsOwed`: when the cache has moved, the callback that bumps the generation is in the loop's queue ahead of the answer to any snapshot, or the job that owes it is still running |

The registry's truth is not inductive by itself because a worker's last progress
report may reach the loop after the terminal update: the invariant says which
callbacks may still be queued for which record (`OutcomesAwaited`, `OneEach`).

The module also proves, of the Wi-Fi events (`WifiEvents`; assumption
`SlotsAreNumbered`: slots are finitely many positive numbers, device ids are
positive, no name reads like a placeholder):

| theorem | statement | argument |
|---|---|---|
| `EventsInvariant` | `We!Spec => []EInv` | the invariant below |
| `ReferencesFireTheirs` | `We!Spec => []RefsFireTheirEvent` | `HeldOK`: the slot of a held reference is held by the last deploy's names, and empty or still its event's |
| `BrandsAreEarned` | `We!Spec => []BrandIsEarned` | `BrandOK`: a label differs from a device's brand only in a slot whose last deployed name the record has given up (`Mix`); the record still wants what the running deploy set out to write (`StillWanted`); what that deploy has passed is as wanted, what is ahead of it as deployed last (`DoneAsWanted`) |
| `OnlyDeletedEventsDie` | `We!Spec => EventsDieByDeletion` | `DeathsOK`: whoever is about to drop the record, or to fill a slot from an editor's list, saw all its events condemned, or they are younger |

`BrandIsEarned` in its first form held on the run and is false for larger
bounds: when an undo fails and leaves two devices of one record, the plan may
edit one of them in place, and a deploy of the other then lifts the guard that
would have repaired the first. Devices left standing beside a deploy's own now
count as unsure.

**`AckStepsProofs`** (assumptions: bounds; programs are operations of the code)

| theorem | statement | argument |
|---|---|---|
| `AckInvariant`, `AckTypeCorrect` | `Spec => []IInv`, `Spec => []TypeOK` | the invariant below |
| `AnswersAreOwn` | `Spec => []AckIsOwn` | `Owned`: while no wait ended early, each answer on its way or waiting belongs to the step that holds the exchange or is older than its send |
| `TimeoutsAreSilent` | `Spec => []TimeoutMeansSilence` | `Heard`: what has come for the step is still in the place it listens to, unless somebody meddled |
| `IdsAreOwn` | `Spec => []CreatedIsOwn` | `IdIsOwn`: the assigned id is that of the thread's own create until another create or a reset, which counts as meddling |

`Ground` (types, the program, whose exchange it is: `Scoped`) and `Flight`
(tickets are issued once and differ between frames, answers and places) carry
them.

**`RestoreProofs`** (assumptions: id ranges, bundles are finite lists)

| theorem | statement | argument |
|---|---|---|
| `SortIsRight` | for every bundle the order places an activity after all it refers to, none twice, and all of them just when nothing is circular | induction over the passes and over the activities of a pass. The library's induction theorems cannot be instantiated here (see below), so `InductUpTo` is proved once as a first-order statement about subsets of `0..N` and used for each; a pass that adds nothing is a fixed point, and as many passes as activities reach it |
| `RestoreInvariant` | `Spec => []IInv` | the invariant below |
| `ReferencesNameCopies` | `Spec => []ReferencesKept` | `MapNamesCopies`: both id maps name copies that stand, or ids the app has deleted; the rows of a copy in hand are mapped through them |
| `StraysAreOne` | `Spec => []OneStrayAtMost` | `Strays`: what was made and is in no list is `new`, the entity in hand |
| `RestoreKeepsPromise` | `Spec => CopiesBundle` | refinement: initial states map to initial states, each step to a copy of one entity in an order `SortIsRight` allows, to the end, or to a stutter |
| `OthersAreUntouched` | `Spec => OthersUntouched` | `CopiesStand` with `Bare`: a rollback deletes `new`, an id the hub gave after `before` was taken |

**`AppSessionProofs`** (assumptions: bridges are numbered, threads are distinct)

| theorem | statement | argument |
|---|---|---|
| `SessionInvariant` | `Spec => []SessionInv` | the invariant below |
| `ToldWhatIsSo` | `Spec => []ToldIsTrue` | `TellingInv`: whoever made the listeners' last word untrue still has the step that corrects it |
| `OffIsHidden` | `Spec => []HiddenWhenOff` | `Orderly`: one thread at a time is inside a registration (`Exclusive`), what is true at each of its steps (`Agree`), and who is about to withdraw a hub that is offered and off (`Offered`) |
| `FreeIsOffered` | `Spec => []FoundAgain` | `Promise`: a hub that is free, on and not offered has a thread that will register it |
| `SwitchCutsNoSession` | `Spec => SessionsOutliveTheSwitch` | which steps write the app's socket, and where they stand in a thread's list (`Ways`) |

Each step of a thread is first summarised (where it leads, what it writes, what
it found); the conjuncts of the invariant are then proved one lemma each from
the summaries, for every step at once.

**`HubDataProofs`** (assumptions: `"none"` names no entity; `WritesBounds`: the hub
is an X1 or an X1S, devices and favorites are finitely many, ids of favorites are
positive numbers)

| theorem | statement | argument |
|---|---|---|
| `WritesInvariant` | `Spec => []WritesInv` (`HubWrites`) | `StaleIsSetAside`: a table shown that is not the hub's is owed by an edit under way, which drops or marks it however it ends, or is marked (`torn`), or is one without a flag that was dropped and is shown empty (`unread`) |
| `CacheIsRight` | `Spec => []CacheFollowsWrites` | while nobody touches an activity nobody owes it anything |
| `EditsHold` | `Spec => []KeepInv` | what an edit has read, and will write back, is what the hub has, unless it is marked as misread |
| `MembersStay` | `Spec => MembersKept` | a macro is written from rows of this macro and of these members |
| `ShownStays` | `Spec => ShownIsKept` | the order that is sent lists all that is in the order on the hub, but for the three cases named |
| `TablesInvariant` | `Tab!Spec => []TabInv` (`EntityTables`) | the invariant below |
| `TableStaysWhole` | `Tab!Spec => []TableIsWhole` | `WholeOnce`: what counts as read is whole, for an entity that is undisturbed (`Clean`) |

`MembersKept` and `ShownIsKept` compare a state to the next one, so `KeepInv` says
what each edit has in hand before it writes: from the map on, an assignment's
members are all of the activity's but the new one, and what it is about to save is
what the macro has (`MembersHeld`); an edit of favorites holds the order that the
hub has, less the favorite to be removed (`OrderHeld`). Another thread's step either
leaves the activity alone or marks the edit as misread (`StillHolds`), so both facts
are shown for the step of the thread itself only. Then `StepGoes` goes through the
steps that change the hub: a list less one element or less those that are not in a
set has exactly the others (`ThoseAre`, `ButIs`, over `AscendingIs`), and a new
favorite's id is a positive number, because among one more numbers than there are
favorites one is free (`FreeIdIs`).

That a table is whole says nothing about pages on their way, so it takes three
things that do. `Linked`: the pages of an undisturbed entity are the last on the
wire, in order, not late, and the read that holds the scheduler is the one they
answer. `Assembled`: if its second page comes next, its first one is alone in
the buffer (in the table, for members), and the macro assembler, which never
starts over, holds nothing of it otherwise. `ReadOnce`: members are read once
and into an empty list, because they are added to what is there. The link's part
is shown once for a page that was taken (`LinkedOn`), a burst that ended
(`LinkedDrained`), a read that leaves (`LinkedAnew`) and steps that leave it
alone (`LinkedKept`); the handlers of pages differ only in what they take for
the page's entity and for the burst it ends (`TakenKeeps`).

**`DeviceSyncProofs`** (assumption `DeviceBounds`: there is a command id; the places
of the starting orders are numbers)

| theorem | statement | argument |
|---|---|---|
| `SyncInvariant` | `Spec => []DInv` | the invariant below |
| `SyncedDeviceAsEdited` | `Spec => []DeviceAsEdited` | `Course` with an empty plan |
| `OrderIsKept` | `Spec => []BrowseKept` | part of `Places` |
| `UserAloneChangesPayloads` | `Spec => PayloadsSurvive` | what is written over an old record is the payload read back from it (`BlobOK`), or the id was free (`ClaimsOK`) |

`DInv` is `Shape`, `Places` and `Course`. `Shape`: types; the working copy
differs from the baseline by what the editor offers; and the plan consists of
the steps these differences call for, each once (`PlanLists`, from the lemmas
about sequences; no fold is involved here). `Places` is about the two writers
that add commands: the lists in the cache name only what is on the hub and,
unless others interfered, all of it (`ListsOK`); a claimed id is still free and
claimed once (`ClaimsOK`); and the cache knows the place of each command that had
one, which is why the table that is sent again for a new command keeps the others
in order (`PlacesOK`). `Course` says what the hub is in the middle of a sync: as
it was read, with the steps made that are no longer pending (`CmdsOK`,
`FieldsOK`), and unchanged where no step is called for (`Rest`, which carries a
failed sync over to its retry).

`BrowseKept` in its first form held on the run and is false for larger bounds:
a command saved by one writer gets a place from the other writer's table before
its own registration moves it to the end. That is not a disturbed order, so
`before` now gives commands on their way no place, and it is taken when the
sync has read the hub, not when it was asked for.

The module also proves, of activities (`ActivitySync`, the instance `Act` of
`MCEditorSync`; assumption `ActivityBounds`: buttons are finitely many, the empty
step list is one, bounds are naturals, the starting activities are activities):

| theorem | statement | argument |
|---|---|---|
| `ActivityInvariant` | `Act!Spec => []AInv` | the invariant below |
| `KeptFavoritesStay` | `Act!Spec => []NothingElseLost` | `KeptOK` |

That a favorite is still there says nothing of the step that is about to delete
one. `AInv` adds what is planned: every step names what it was planned for by the
ids of the baseline (`StepOK`, from `PlanIs`, whatever pairs the folds found), and
the steps that add and reorder come after all that delete or overwrite (`Late`).
Then `KeepsIn`: as long as steps of the second sort are left, the place where a
favorite to keep is first found is not, in the baseline, the place of something
else (`Fit`), so no id of the baseline names it by mistake; it is the place that
was read, so a target that is looked up by content is another one and a newly
allocated id avoids it; and the write that is next does not strike it
(`Strikes`). Once only adds and the order are left, places may only be gained.

`NothingElseLost` in its first form held on the run and is false for larger
bounds: with two troubles, a favorite of the app may take the id that a step was
planned for, or an unread preflight may let a plan with such ids through. Those
favorites are not the sync's to know, and no longer count; with that, a promoted
baseline needs no exception any more.

### What is only model-checked

* Liveness under fairness, which the prover cannot reach: `DeferredLeaves`,
  `SelfHeals`, `OpsEnd`, `FetchReturns`.
* `SyncedAsEdited` of `sync` (`ActivitySync`): that the plan is right, and not only
  that it destroys nothing, depends on what the planner's folds pair.
  Its first form held on the run; simulation with three commands, two buttons, six
  ids and up to six edits refuted it three ways (an id reused by an added shortcut,
  an id listed twice, a dangling button), now named; the present form has stood
  some 69 million states of such simulation, which is evidence and no proof.
* What a recursive definition computes can be proved only where it is a recursive
  function and the induction is done by hand, as for the sort: the provers
  cannot instantiate the library's induction theorems. The folds of the
  community modules (in `ActivitySync`) stay with TLC.

## Seen while modelling

Places where a comment, a docstring or the evident intent and the code part.
They have no run of their own; where a property is named it is defined in the
module although no run lists it, and TLC refutes it there.

Wire and catalogs
* `SoleTerminator`: an exchange that reads a table itself loses its pseudo-burst
  when the rows arrive, because the row handlers call `burst.start` for the table
  whatever holds the scheduler (`lib/opcode_handlers.py:206`); the docstring
  (`lib/proxy_exchange.py:84-86`) calls the `finally` the sole terminator.
* `PendingIsAwaited`: `request_buttons_for_entity` marks the entity before it
  enqueues (`lib/x1_proxy.py:1065`); a refused or dropped request leaves the mark
  and later requests are ignored.
* `QuietWire` under `Spec`: `queue_or_send` is called from several threads
  without a lock (`lib/state_helpers.py:666`).
* `EmptyIsGenuine`: a 0x07 names no request; a late one of the activities read is
  claimed by the devices read that left meanwhile and commits an empty catalog.
* The retry of an incomplete catalog: `request_activities` in one thread clears
  the flag of a retry that another is about to send, so a request may be retried
  twice (`tests/test_x1_proxy.py:545` expects once).

Hub and app sessions
* `ReplacementStays`: the bridge thread sets `_hub_sock` to `None` at the end of
  the socket it read at its loop head, also when that is no longer the current
  one (`lib/transport_bridge.py:638`). `CALL_ME` repairs it (`SelfHeals`).
* `StateIsTold`: notifications are made after the lock is released (`:533`).
* A session that ends before its connect thread calls `_notify_client_state(True)`
  leaves the hub unregistered and the client flag set (`:560`, `:868-883`); one
  installed while the end of the former is still being told leaves it cleared. A
  failed connect registers although discovery is off or the bridge stopped
  (`:566`). The end of a replaced socket clears the newer session (`:672`). Bytes
  queued for a hub that went away may reach the next session (`:804`).

Coordinator
* `ExportNamesItsGeneration`: the generation is read after the projection was
  awaited (`__init__.py:4570`). A cancelled service call leaves its operation
  running for ever (`__init__.py:2549`). The restore and backup services ask the
  deploy lock only.
* `AsyncX1Proxy._read`: a table completed between the first look and the
  registration makes the read time out beside it (`lib/aio.py:695-712`). The
  wait for buttons has no timeout (`hub.py:2571`) and a second fetch throws its
  future away (`hub.py:2659`). The end of a silent or cleared burst marks macros
  and the map complete (`lib/x1_proxy.py:1715`, `:1729`).

Edits
* Activities: `RenumberingStaysInside` and `DeleteIsByContent`
  of `ActivitySync`. A live read that times out is an empty table, contrary to
  the comment at `lib/proxy_activity_sync.py:329-330`. Of two favorites with the
  same content, deleting one plans no delete. Added shortcuts may end up swapped:
  `deleteBundleActivityQuickAccess` leaves the deleted id in the display order
  (`www/src/tabs/backup-state.ts:1655-1681`), `nextQuickAccessButtonId` gives it
  to the next one (`:1688-1697`), which so shows at the old place; the planner
  takes additions to be "appended in edited order" (`lib/activity_sync.py:1152-1153`)
  and plans no order step, but the adds are planned, and the hub appends, in the
  order of ids (`:1103-1116`). It takes one delete and two adds (`unsorted`).
* Devices: `_fetch_command_library_data` ignores whether the dump is complete, so
  a rename may write a truncated payload; an id is allocated from a cleared
  cache; `async_persist_ir_blob` after a refresh that timed out overwrites a
  command; a display order built from a cleared cache drops the others from the
  screen; an added command whose sync failed is refused at the retry until the
  editor reloads; `persist_ir_blob` marks commands complete that were never read.
* `FailureIsTold`: a device that raises leaves `restore_hub_bundle` with an
  exception, and what was restored before is in no result
  (`lib/proxy_restore.py:1672-1680`).
* A refused page of `run_create_sequence` that is not the last is never looked at
  (`lib/device_create.py:315-345`), though its docstring says it fails fast.
* `add_device_to_activity` writes the power macros from a map whose silence
  counts as complete, and the hub then removes the other members; two concurrent
  adds drop each other's device. `command_to_favorite` takes a refusal for
  success and may add twice after a lost ack; on an X1S it hides the favorites
  above the new id. After each edit of favorites that succeeds the cached list is
  dropped and the buttons are kept (`lib/proxy_activity_ops.py:976-980`,
  `:1073-1077`, `:1212-1215`); the refresh asked for reads the members only, so
  `get_favorites` (`hub.py:2252-2278`) shows no favorites, though the hub has
  some, until the buttons are dropped and read again. `delete_device` that fails after the delete clears nothing
  (`lib/proxy_activity_ops.py:233-237` says otherwise).
* A fallback of `DeviceButtonSingleHandler` (`lib/opcode_handlers.py:1381-1404`)
  may keep a wrong favorite label. `proxy_activity_ops.py:283` polls for the
  start of a burst and misses a short one.

Wi-Fi devices
* `NothingIsInherited`: an event created between a delete's reset save and its
  deploy may reuse the slot, and the cascade deletes the new event's command. An
  event created during the last delete's deploy is lost with the record
  (`__init__.py:1386-1391`). A failed create leaves a device with the full brand
  hash, which reconcile claims as in sync (`lib/proxy_wifi_device.py:720-733`).
  An event named "Command N" escapes the guard.
* The plan in place does not filter deleted activities, as the replace path does
  (`hub.py`, around 4005); references an interrupted run added and the next
  configuration does not have are never removed; a retried `favorite_add` is not
  idempotent though the comment of `run_wifi_inplace_plan` says every step is.

## Not modelled

* Wi-Fi devices other than Wi-Fi Events: favorites, bindings, power and inputs in
  the plan of `lib/wifi_inplace_plan.py` and the replace path of `hub.py`.
* Codecs and text encodings (`lib/commands.py`, `lib/macros.py`, `lib/inputs.py`,
  `lib/blob_decoders.py`, `lib/devices.py`, the deframer): stateless functions over
  bytes. Export and validation of a bundle: one pass over one payload.
* Roku listener, entities, config flow, diagnostics, the cards of the front end
  but for the editor's working copy: presentation and input/output.
* The command line, logging, mDNS, `scripts/hub-bench` (the largest directory of
  Python in the repository, scripts against a laboratory hub): outside the
  running program.

Hazards seen beyond those that `PROJECT.json` lists with a property: the poll for
a burst's start (`lib/proxy_activity_ops.py:283`), stale bytes for a new session
(`lib/transport_bridge.py:804`), the busy gate asked before the session thread
starts (`:399`), quiesce giving up after 8 s (`lib/proxy_exchange.py:98`), the
pages of a macro save that must stay together (`lib/x1_proxy.py:1391`,
`AttemptsTogether`), favorites written below the macros
(`lib/proxy_restore.py:2120`, `SuccessIsWhole`).

## What is left to prove

`SyncedAsEdited` (`ActivitySync`), which says what the planner's folds compute and
so needs induction over data.
