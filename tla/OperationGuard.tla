--------------------------- MODULE OperationGuard ---------------------------
(* Who may work on a hub, and when: the operation registry of the           *)
(* integration (__init__.py), the lock of the Wi-Fi deploys (hub.py) and    *)
(* the busy gate of the transport, for the config entry of one hub.         *)
(*                                                                          *)
(* A backup, restore, sync or cache refresh is registered and runs as a     *)
(* task on the event loop that awaits worker threads.  A worker talks to    *)
(* the loop through its FIFO of callbacks.  Deletes and reorders ask        *)
(* whether the hub is busy and then work unregistered, most services ask    *)
(* about the deploy lock alone, a deploy asks about nothing but its lock,   *)
(* and the app is let in when the gate says the hub is free.                *)
(*                                                                          *)
(* A snapshot is projected from the proxy's cache in a worker and handed    *)
(* out with the generation of the cache; a script may sync from it later.   *)
(*                                                                          *)
(* Time is left out: a cleanup timer may fire whenever it is armed.         *)
EXTENDS Naturals, Sequences, FiniteSets, Functions

CONSTANTS
  Ops,       \* operation ids, in the order they are handed out: 1..n
  Kinds,     \* kinds of operations that run as a job
  Viewers,   \* cards subscribed to an operation
  Clients,   \* scripts that export snapshots and sync from them
  MaxPosted, \* bound on the loop's queue when progress is reported
  MaxWire    \* bound on who works on the hub when an unregistered one joins

AllKinds == {"backup_export", "backup_restore", "activity_sync", "cache_refresh"}

ASSUME KindsAssumption == Kinds \subseteq AllKinds

VARIABLES
  ops,       \* registry: kind, status and cleanup timer of each operation
  stage,     \* how far the job of an operation is
  called,    \* operations whose job runs inside a service call
  cancelled, \* those of them whose call was cancelled
  posted,    \* callbacks queued on the event loop
  wire,      \* who works on the hub
  lock,      \* _command_sync_lock is held
  viewers,   \* which operation a card watches and the last status it was sent
  gutted,    \* the cached structure was cleared and not yet read again
  exports    \* snapshot of each client

vars == <<ops, stage, called, cancelled, posted, wire, lock, viewers, gutted, exports>>
taskVars == <<called, cancelled>>
registryVars == <<ops, stage, taskVars, viewers>>
cacheVars == <<gutted, exports>>

Live == {"pending", "running"}
Ended == {"success", "failed"}
Running == {"queued", "wire", "warm", "warming", "back"}

NoOp == 0

\* The cache and cache_generation are only ever compared with what a snapshot
\* took of them, so a snapshot keeps the comparison.  state: "read", projected
\* and on its way; "held", with the present generation; "stale", with an older
\* one.  image: the "present" cache, an "old" one or a "gutted" one.  moved: the
\* generation moved between the projection and the answer.
NoSnapshot == [state |-> "none", image |-> "old", moved |-> FALSE]
Unborn == [kind |-> "none", status |-> "unborn", timer |-> FALSE]

Init ==
  /\ ops = [o \in Ops |-> Unborn]
  /\ stage = [o \in Ops |-> "none"]
  /\ called = {} /\ cancelled = {}
  /\ posted = <<>>
  /\ wire = {}
  /\ lock = FALSE
  /\ viewers = [v \in Viewers |-> [op |-> NoOp, status |-> "none"]]
  /\ gutted = FALSE
  /\ exports = [c \in Clients |-> NoSnapshot]

-----------------------------------------------------------------------------
(* The registry. *)

BusyOnceRunning == \E o \in Ops : ops[o].status = "running"

\* has_running_for_entry
Busy == \E o \in Ops : ops[o].status \in Live

\* _raise_if_hub_operation_locked, is_long_running_task_active
Locked == lock \/ Busy

Exists(o) == ops[o].status \notin {"unborn", "gone"}
DroppedKeepsTimer(op) == [op EXCEPT !.status = "dismissed"]
Dropped(op) == [op EXCEPT !.status = "gone", !.timer = FALSE]

\* create: completed operations of the kind make room for the new one.
IsNext(o) == /\ ops[o].status = "unborn"
             /\ \A p \in Ops : p < o => ops[p].status # "unborn"
Created(o, kind, status) ==
  [p \in Ops |->
     CASE p = o -> [kind |-> kind, status |-> status, timer |-> FALSE]
       [] p # o /\ Exists(p) /\ ops[p].kind = kind /\ ops[p].status \notin Live ->
            Dropped(ops[p])
       [] OTHER -> ops[p]]

\* update: a late progress never demotes a terminal operation; a terminal
\* status arms the cleanup timer.
Ignored(o, status) ==
  \/ ~Exists(o)
  \/ ops[o].status \in Ended /\ status \in Live
Update(o, status) ==
  IF Ignored(o, status) THEN UNCHANGED <<ops, viewers>>
  ELSE /\ ops' = [ops EXCEPT ![o].status = status, ![o].timer = status \in Ended]
       /\ viewers' = [v \in Viewers |->
            IF viewers[v].op = o THEN [op |-> o, status |-> status] ELSE viewers[v]]

DismissSilently(o) ==
  /\ ops' = [ops EXCEPT ![o] = Dropped(@)]
  /\ UNCHANGED viewers

\* update(status="failed", transient=True), then dismiss_operation
FailAndDismiss(o) ==
  /\ ops' = [ops EXCEPT ![o] = Dropped(@)]
  /\ viewers' = [v \in Viewers |->
       IF viewers[v].op = o THEN [op |-> o, status |-> "failed"] ELSE viewers[v]]

Entered(who, o) == wire \cup {[who |-> who, op |-> o]}
Left(who, o) == wire \ {[who |-> who, op |-> o]}
On(who) == \E w \in wire : w.who = who

Post(msgs) == posted' = posted \o msgs
Message(what, o) == [what |-> what, id |-> o]

-----------------------------------------------------------------------------
(* Requests of the front end and of services, each one step of the loop. *)

Register(o, kind) ==
  /\ ~Busy /\ ~lock
  /\ IsNext(o)
  /\ ops' = Created(o, kind, "pending")
  /\ stage' = [stage EXCEPT ![o] = "queued"]
  /\ wire' = Entered("job", o)

\* _ws_backup_export, _ws_backup_restore, _ws_activity_sync, _ws_refresh_all_cache
StartJob(o, kind) ==
  /\ Register(o, kind)
  /\ UNCHANGED <<taskVars, posted, lock, viewers, cacheVars>>

\* sync_from_snapshot with expected_generation: the snapshot must be of the
\* present generation of the cache.
IsAny(c) == exports[c].state \in {"held", "stale"}
IsCurrent(c) == exports[c].state = "held"
SyncFromSnapshot(c, o) ==
  /\ IsCurrent(c)
  /\ Register(o, "activity_sync")
  /\ exports' = [exports EXCEPT ![c] = NoSnapshot]
  /\ called' = called \cup {o}
  /\ UNCHANGED <<cancelled, posted, lock, viewers, gutted>>

\* _ws_backup_stash_edited: an edited bundle is parked as a finished operation.
Stash(o) ==
  /\ IsNext(o)
  /\ ops' = [Created(o, "backup_edited", "success") EXCEPT ![o].timer = TRUE]
  /\ UNCHANGED <<stage, taskVars, posted, wire, lock, viewers, cacheVars>>

\* _ws_backup_clear_result
ClearResult(o) ==
  /\ Exists(o) /\ ops[o].status \notin Live
  /\ ops' = [ops EXCEPT ![o] = Dropped(@)]
  /\ UNCHANGED <<stage, taskVars, posted, wire, lock, viewers, cacheVars>>

\* _schedule_cleanup's timer, 300 s after the end
CleanupFires(o) ==
  /\ ops[o].timer
  /\ ops' = [ops EXCEPT ![o] = Dropped(@)]
  /\ UNCHANGED <<stage, taskVars, posted, wire, lock, viewers, cacheVars>>

\* _ws_backup_progress_subscribe, and the card that goes away
Subscribe(v, o) ==
  /\ viewers[v].op = NoOp
  /\ Exists(o)
  /\ viewers' = [viewers EXCEPT ![v] = [op |-> o, status |-> ops[o].status]]
  /\ UNCHANGED <<ops, stage, taskVars, posted, wire, lock, cacheVars>>

Unsubscribe(v) ==
  /\ viewers[v].op # NoOp
  /\ viewers' = [viewers EXCEPT ![v] = [op |-> NoOp, status |-> "none"]]
  /\ UNCHANGED <<ops, stage, taskVars, posted, wire, lock, cacheVars>>

\* async_sync_command_config: asks for its own lock only.
DeployStarts ==
  /\ Cardinality(wire) < MaxWire
  /\ ~lock
  /\ lock' = TRUE
  /\ wire' = Entered("deploy", NoOp)
  /\ UNCHANGED <<registryVars, posted, cacheVars>>
DeployEnds ==
  /\ lock
  /\ lock' = FALSE
  /\ wire' = Left("deploy", NoOp)
  /\ UNCHANGED <<registryVars, posted, cacheVars>>

\* "asks": deletes and reorders of the front end, which ask for both and are
\* not registered, and the app, whose CALL_ME asks the busy gate, the same two;
\* "service": services that write (restore_backup, delete_device,
\* command_to_favorite, ...), which ask for the lock.
MayStart(who) == CASE who = "asks" -> ~Locked
                   [] who = "service" -> ~lock
Unregistered == {"asks", "service"}

Starts(who) ==
  /\ ~On(who) /\ Cardinality(wire) < MaxWire
  /\ MayStart(who)
  /\ wire' = Entered(who, NoOp)
  /\ UNCHANGED <<registryVars, posted, lock, cacheVars>>
Ends(who) ==
  /\ On(who)
  /\ wire' = Left(who, NoOp)
  /\ UNCHANGED <<registryVars, posted, lock, cacheVars>>

-----------------------------------------------------------------------------
(* The job of an operation: its task on the loop and its worker thread. *)

Over(o) == stage' = [stage EXCEPT ![o] = "over"] /\ wire' = Left("job", o)

\* A restore whose bundle is malformed, or a sync that plans nothing the hub
\* accepts: nothing was written, the record is not kept.
Reject(o) ==
  /\ stage[o] = "queued"
  /\ ops[o].kind \in {"backup_restore", "activity_sync"}
  /\ FailAndDismiss(o)
  /\ Over(o)
  /\ UNCHANGED <<taskVars, posted, lock, cacheVars>>

GoToWorker(o) ==
  /\ stage[o] = "queued"
  /\ stage' = [stage EXCEPT ![o] = IF ops[o].kind = "cache_refresh" THEN "warm" ELSE "wire"]
  /\ UNCHANGED <<ops, taskVars, posted, wire, lock, viewers, cacheVars>>

\* update_from_thread; the cache reads after a restore or sync report nothing.
Progress(o) ==
  /\ \/ stage[o] = "wire"
     \/ stage[o] \in {"warm", "warming"} /\ ops[o].kind = "cache_refresh"
  /\ Len(posted) < MaxPosted
  /\ Message("progress", o) \notin Range(posted)
  /\ Post(<<Message("progress", o)>>)
  /\ UNCHANGED <<registryVars, wire, lock, cacheVars>>

\* A backup, the preflight of a sync, an erase and a restore clear what the cache
\* holds of an entity; most of it is read again, each burst bumping the generation.
WorkerClears(o) ==
  /\ stage[o] = "wire"
  /\ ~gutted
  /\ gutted' = TRUE
  /\ UNCHANGED <<registryVars, posted, wire, lock, exports>>

ReadAgain ==
  /\ gutted' = FALSE
  /\ exports' = [c \in Clients |->
       [exports[c] EXCEPT !.image = IF @ = "present" THEN "old" ELSE @]]

\* "lost": the result names the step that failed, or an exception was raised
\* after progress was; "refused": a sync that failed before any write
Outcomes(kind) == CASE kind = "backup_export" -> {"won", "lost"}
                    [] kind = "backup_restore" -> {"won", "lost"}
                    [] kind = "activity_sync" -> {"won", "lost", "refused"}
                    [] kind = "cache_refresh" -> {}
WorkerReturns(o) ==
  /\ stage[o] = "wire"
  /\ stage' = [stage EXCEPT ![o] = "back"]
  /\ \E what \in Outcomes(ops[o].kind) :
       \/ /\ ~(gutted /\ what = "won" /\ ops[o].kind = "backup_export")
          /\ Post(<<Message(what, o)>>)
          /\ UNCHANGED cacheVars
       \/ /\ gutted
          /\ ReadAgain
          /\ Post(<<Message("bump", o), Message(what, o)>>)
  /\ UNCHANGED <<ops, taskVars, wire, lock, viewers>>

\* The structure is cleared before it is read again.
WarmClears(o) ==
  /\ stage[o] = "warm"
  /\ stage' = [stage EXCEPT ![o] = "warming"]
  /\ gutted' = TRUE
  /\ UNCHANGED <<ops, taskVars, posted, wire, lock, viewers, exports>>

\* The last burst's listener bumps the generation, then the worker returns.
WarmReads(o) ==
  /\ stage[o] = "warming"
  /\ stage' = [stage EXCEPT ![o] = "back"]
  /\ ReadAgain
  /\ Post(<<Message("bump", o), Message("warmed", o)>>)
  /\ UNCHANGED <<ops, taskVars, wire, lock, viewers>>

WarmFails(o) ==
  /\ stage[o] = "warming"
  /\ stage' = [stage EXCEPT ![o] = "back"]
  /\ Post(<<Message("unwarmed", o)>>)
  /\ UNCHANGED <<ops, taskVars, wire, lock, viewers, cacheVars>>

\* sync_from_snapshot awaits the job in the service call: when the script that
\* called is stopped, the task ends where it awaits and the worker goes on.
Cancel(o) ==
  /\ o \in called \ cancelled
  /\ stage[o] \in Running
  /\ cancelled' = cancelled \cup {o}
  /\ IF stage[o] \in {"queued", "warm"} THEN Over(o) ELSE UNCHANGED <<stage, wire>>
  /\ UNCHANGED <<ops, called, posted, lock, viewers, cacheVars>>

-----------------------------------------------------------------------------
(* Snapshots. *)

\* assemble_hub_bundle_from_state, in a worker: what the cache
\* holds then, cleared or not.
Export(c) ==
  /\ exports[c].state # "read"
  /\ exports' = [exports EXCEPT ![c] =
       [state |-> "read", image |-> IF gutted THEN "gutted" ELSE "present", moved |-> FALSE]]
  /\ Post(<<Message("read", c)>>)
  /\ UNCHANGED <<registryVars, wire, lock, gutted>>

-----------------------------------------------------------------------------
(* The event loop runs what was posted first. *)

\* The future is set, its task runs after what is already queued.
SnapshotFuture(m, rest) ==
  /\ m.what = "read"
  /\ posted' = Append(rest, Message("answer", m.id))
  /\ UNCHANGED <<registryVars, wire, lock, cacheVars>>

\* export_snapshot returns the bundle with the generation of now.
SnapshotAnswer(m, rest) ==
  /\ m.what = "answer"
  /\ posted' = rest
  /\ exports' = [exports EXCEPT ![m.id].state = "held"]
  /\ UNCHANGED <<registryVars, wire, lock, gutted>>

ReportProgress(m, rest) ==
  /\ m.what = "progress"
  /\ posted' = rest
  /\ Update(m.id, "running")
  /\ UNCHANGED <<stage, taskVars, wire, lock, cacheVars>>

\* _bump_cache_generation
Bump ==
  exports' = [c \in Clients |->
    CASE exports[c].state = "read" -> [exports[c] EXCEPT !.moved = TRUE]
      [] exports[c].state = "held" -> [exports[c] EXCEPT !.state = "stale"]
      [] OTHER -> exports[c]]

BumpGeneration(m, rest) ==
  /\ m.what = "bump"
  /\ posted' = rest
  /\ Bump
  /\ UNCHANGED <<registryVars, wire, lock, gutted>>

\* A task that was cancelled is not there to take the outcome.
Unheard(m, rest) ==
  /\ m.what \in {"won", "lost", "refused", "warmed", "unwarmed"}
  /\ m.id \in cancelled
  /\ posted' = rest
  /\ Over(m.id)
  /\ UNCHANGED <<ops, taskVars, lock, viewers, cacheVars>>

WonPublishesFirst(o) ==
  /\ Update(o, "success")
  /\ IF ops[o].kind = "backup_export" THEN Over(o)
     ELSE stage' = [stage EXCEPT ![o] = "warm"] /\ UNCHANGED wire

\* A restore or sync refreshes the cache before it reports success.
Won(o) ==
  IF ops[o].kind = "backup_export"
  THEN Update(o, "success") /\ Over(o)
  ELSE /\ Update(o, "running")
       /\ stage' = [stage EXCEPT ![o] = "warm"]
       /\ UNCHANGED wire

Lost(o) == Update(o, "failed") /\ Over(o)
Refused(o) == FailAndDismiss(o) /\ Over(o)
Warmed(o) == Update(o, "success") /\ Over(o)

UnwarmedUntold(o) == UNCHANGED <<ops, viewers>> /\ Over(o)

\* The refresh after a restore or sync is best effort.
Unwarmed(o) ==
  /\ Update(o, IF ops[o].kind = "cache_refresh" THEN "failed" ELSE "success")
  /\ Over(o)

TaskResumes(m, rest) ==
  /\ m.what \in {"won", "lost", "refused", "warmed", "unwarmed"}
  /\ m.id \notin cancelled
  /\ posted' = rest
  /\ CASE m.what = "won" -> Won(m.id)
       [] m.what = "lost" -> Lost(m.id)
       [] m.what = "refused" -> Refused(m.id)
       [] m.what = "warmed" -> Warmed(m.id)
       [] m.what = "unwarmed" -> Unwarmed(m.id)
  /\ IF m.what = "warmed" THEN Bump ELSE UNCHANGED exports
  /\ UNCHANGED <<taskVars, lock, gutted>>

LoopRuns ==
  /\ posted # <<>>
  /\ LET m == Head(posted) rest == Tail(posted) IN
       \/ SnapshotFuture(m, rest)
       \/ SnapshotAnswer(m, rest)
       \/ ReportProgress(m, rest)
       \/ BumpGeneration(m, rest)
       \/ Unheard(m, rest)
       \/ TaskResumes(m, rest)

JobProceeds(o) ==
  \/ Reject(o) \/ GoToWorker(o) \/ WorkerReturns(o)
  \/ WarmClears(o) \/ WarmReads(o) \/ WarmFails(o)

Next ==
  \/ \E o \in Ops :
       \/ \E kind \in Kinds : StartJob(o, kind)
       \/ \E c \in Clients : SyncFromSnapshot(c, o)
       \/ Stash(o) \/ ClearResult(o) \/ CleanupFires(o)
       \/ \E v \in Viewers : Subscribe(v, o)
       \/ JobProceeds(o) \/ Progress(o) \/ WorkerClears(o) \/ Cancel(o)
  \/ \E v \in Viewers : Unsubscribe(v)
  \/ \E who \in Unregistered : Starts(who) \/ Ends(who)
  \/ DeployStarts \/ DeployEnds
  \/ \E c \in Clients : Export(c)
  \/ LoopRuns

Spec == Init /\ [][Next]_vars

\* The loop runs what is posted, a task that is due runs, and a worker returns:
\* every wait of the library has a timeout.  Nothing is assumed of people.
FairSpec ==
  /\ Spec
  /\ WF_vars(LoopRuns)
  /\ \A o \in Ops : WF_vars(JobProceeds(o))

-----------------------------------------------------------------------------
(* Properties. *)

Statuses == {"unborn", "pending", "running", "success", "failed", "gone"}
Messages == [what : {"progress", "bump", "won", "lost", "refused", "warmed", "unwarmed"},
             id : Ops]
            \cup [what : {"read", "answer"}, id : Clients]
TypeOK ==
  /\ ops \in [Ops -> [kind : AllKinds \cup {"backup_edited", "none"},
                      status : Statuses, timer : BOOLEAN]]
  /\ stage \in [Ops -> Running \cup {"none", "over"}]
  /\ cancelled \subseteq called /\ called \subseteq Ops
  /\ posted \in Seq(Messages)
  /\ wire \subseteq [who : Unregistered \cup {"deploy", "job"}, op : Ops \cup {NoOp}]
  /\ lock \in BOOLEAN /\ gutted \in BOOLEAN
  /\ viewers \in [Viewers -> [op : Ops \cup {NoOp}, status : Statuses \cup {"none"}]]
  /\ exports \in [Clients -> [state : {"none", "read", "held", "stale"},
                              image : {"present", "old", "gutted"}, moved : BOOLEAN]]

\* The registry tells whether a job is at work: an operation is pending or
\* running exactly as long as its task lives, whatever becomes of progress
\* reports, timers, dismissals and new operations.  Otherwise the hub is busy
\* for ever, or open while a job writes.  The one exception is a job whose
\* service call was cancelled: nobody ends its operation.
BusyMeansJob ==
  \A o \in Ops \ cancelled : ops[o].status \in Live <=> stage[o] \in Running

\* Nothing that asks before it starts joins a registered job or a deploy at work:
\* only a deploy, and a service call, which do not ask the registry, begin while
\* a job writes, and nothing begins during a deploy.
MayJoin(new, old) ==
  CASE old.who = "deploy" -> FALSE
    [] old.who = "job" -> new.who \in {"deploy", "service"}
    [] OTHER -> TRUE
JobsAreAlone ==
  [][\A new \in wire' \ wire, old \in wire : MayJoin(new, old)]_vars

\* A card that watches an operation has been sent its present status, and when
\* the operation has left the registry the card has seen it end.
ViewersKnow ==
  \A v \in Viewers : viewers[v].op # NoOp =>
    IF Exists(viewers[v].op) THEN viewers[v].status = ops[viewers[v].op].status
    ELSE viewers[v].status \in Ended

\* sync_from_snapshot "refuses loudly if the hub cache has moved since the
\* export": a snapshot that is accepted is what the cache held then, unless the
\* generation moved while it was being projected, or a refresh had failed half
\* way and left the structure cleared under an unchanged generation.
Accepts(c) == exports[c].state # "read" /\ called' # called /\ exports'[c] # exports[c]
Overtaken(c) == exports[c].moved
IsCache(c) == gutted \/ exports[c].image = "present"
AcceptedIsCurrent ==
  [][\A c \in Clients : Accepts(c) => Overtaken(c) \/ IsCache(c)]_vars

\* The same without the first exception: export_snapshot reads the generation
\* after it has awaited the projection.
ExportNamesItsGeneration == [][\A c \in Clients : Accepts(c) => IsCache(c)]_vars

\* "Those have to terminate naturally first": every operation ends, so the hub
\* is not busy for ever, unless the call that ran it was cancelled.
OpsEnd ==
  \A o \in Ops : ops[o].status \in Live ~> ops[o].status \notin Live \/ o \in cancelled

\* is_long_running_task_active: "True while a backup, restore, or command-config
\* sync is running" - and only then.
BusyOnlyWhileRunning == Busy => \E o \in Ops : stage[o] \in Running

=============================================================================
