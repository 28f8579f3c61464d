----------------------------- MODULE DeviceSync -----------------------------
(***************************************************************************)
(* One device on its way from the editor to the hub: build_device_sync_plan *)
(* (activity_sync.py) compares the editor's copy with its baseline,        *)
(* sync_device (proxy_activity_sync.py) reads the device again and runs    *)
(* the steps, and proxy_ir_blob.py writes the records of the commands.     *)
(*                                                                         *)
(* A record is written whole, under an id the writer has to know to be     *)
(* free or its own; a name travels with the payload, which is first read   *)
(* back; the display order is one table, sent again for each new command;  *)
(* the head of the device is rebuilt from its cached bytes.  Each of these *)
(* can carry off what the user never touched.  The service persist_ir_blob *)
(* adds commands of its own at any time.                                   *)
(*                                                                         *)
(* Macros and bindings are one value here, "keys": ActivitySync.tla has    *)
(* their planning.  Left out: the idle mode, one more write of its own, and *)
(* a change of inputs, which plans a step that writes nothing.             *)
(***************************************************************************)
EXTENDS Integers, Sequences, FiniteSets, SequencesExt

CONSTANTS
  MaxId,       \* bound: command ids are 1..MaxId (255 in the code)
  Starts,      \* display orders of the hub at first: id |-> position, 0 for none
  MaxEdits,    \* bound: edits of the user
  MaxSyncs,    \* bound: syncs begun
  MaxTrouble   \* bound: unanswered reads, refused writes

Ids        == 1..MaxId
HeadFields == {"name", "ip"}                \* kept in the record of the device
Fields     == HeadFields \cup {"keys"}

\* What is assumed of the constants.
Bounded ==
  /\ MaxId \in Nat \ {0}
  /\ \A p \in Starts : DOMAIN p \subseteq Ids /\ p \in [DOMAIN p -> Nat]

ASSUME DeviceBounds == Bounded

\* A payload: who made it, and for which command.
Payload(by, i) == [by |-> by, of |-> i]
Record(n, d)   == [name |-> n, data |-> d]

VARIABLES
  events,      \* whether it is the Wifi Events device: commands go, none come
  hub,         \* [cmds: id |-> record, place: id |-> position, fields]
  cache,       \* [listed, names: id |-> name, place: id |-> position, head]
  baseline,    \* [names, fields] as the editor loaded them
  edited,      \* [cmds: id |-> [name, is], fields]: the working copy
  status,      \* "editing", "clearing", "reading", "running", "success", "failed"
  plan,        \* steps left of the sync
  blob,        \* the payload read back for a rename: <<>> or <<payload>>
  adding,      \* writer |-> [at, id, loose]: a command on its way to the hub;
               \* loose: the list it was claimed from is no longer the cache's
  edits, syncs, trouble,   \* counters of the bounds
  \* history
  before,      \* the hub as it was last read, with what others did meanwhile
  odd          \* what went wrong since the baseline was loaded

cells == <<events, hub, cache, baseline, edited, status, plan, blob, adding>>
vars  == <<cells, edits, syncs, trouble, before, odd>>

Writers == {"sync", "service"}
Idle    == [at |-> "idle", id |-> 0, loose |-> FALSE]
\* Bound: of the service and the others, one interferes, once.
Undisturbed == adding["service"] = Idle /\ "foreign" \notin odd

Ended(w) == IF w = "sync" THEN Idle ELSE [Idle EXCEPT !.at = "done"]

(***************************************************************************)
(* Devices, and what a read makes of them.                                 *)
(***************************************************************************)
Upd(f, x, y)    == [z \in DOMAIN f \cup {x} |-> IF z = x THEN y ELSE f[z]]
Without(f, x)   == Restrict(f, DOMAIN f \ {x})
NamesOf(h)      == [i \in DOMAIN h.cmds |-> h.cmds[i].name]
Place(f, i)     == IF i \in DOMAIN f THEN f[i] ELSE 0
HeadOf(h)        == [f \in HeadFields |-> h.fields[f]]
LowestFree(S)   == CHOOSE i \in Ids \ S : \A j \in Ids \ S : i <= j
Listed(h, head) == [listed |-> TRUE, names |-> NamesOf(h),
                    place |-> [i \in DOMAIN h.cmds |-> Place(h.place, i)], head |-> head]
Cleared(c)      == [c EXCEPT !.listed = FALSE, !.names = << >>, !.place = << >>]
\* A command on its way has no place of its own yet.
AsFound(h) ==
  [h EXCEPT !.place = Restrict(@, {i \in DOMAIN @ : \A w \in Writers : adding[w].id # i})]
Copy(h)         == [cmds   |-> [i \in DOMAIN h.cmds |-> [name |-> h.cmds[i].name, is |-> "same"]],
                    fields |-> h.fields]
Loaded(h)       == [names |-> NamesOf(h), fields |-> h.fields]

Init ==
  /\ events \in BOOLEAN
  /\ \E p \in Starts :
       hub = [cmds   |-> [i \in DOMAIN p |-> Record(0, Payload("hub", i))],
              place  |-> [i \in {j \in DOMAIN p : p[j] > 0} |-> p[i]],
              fields |-> [f \in Fields |-> 0]]
  /\ cache = Listed(hub, HeadOf(hub))
  /\ baseline = Loaded(hub) /\ edited = Copy(hub)
  /\ status = "editing" /\ plan = << >> /\ blob = << >>
  /\ adding = [w \in Writers |-> Idle]
  /\ edits = 0 /\ syncs = 0 /\ trouble = 0
  /\ before = hub /\ odd = {}

\* One more trouble, of the kind k.
Trouble(k) == trouble < MaxTrouble /\ trouble' = trouble + 1 /\ odd' = odd \cup {k}
Calm       == UNCHANGED <<trouble, odd>>
Syncing    == status \in {"clearing", "reading", "running"}

(***************************************************************************)
(* The editor (backup-state.ts, edit-detail-view.ts).  An ordinary device  *)
(* may get commands, the events device may lose them.                      *)
(***************************************************************************)
Edits(e) ==
  {[e EXCEPT !.cmds[i].name = 1] : i \in DOMAIN e.cmds}
  \cup {[e EXCEPT !.cmds[i].is = "mine"] : i \in {j \in DOMAIN e.cmds : e.cmds[j].is = "same"}}
  \cup {[e EXCEPT !.fields[f] = 1] : f \in Fields}
  \cup {[e EXCEPT !.cmds = Without(@, i)] : i \in {j \in DOMAIN e.cmds : events}}
  \cup {[e EXCEPT !.cmds = Upd(@, i, [name |-> 1, is |-> "new"])] :
           i \in {j \in Ids \ DOMAIN e.cmds : ~events /\ j = LowestFree(DOMAIN e.cmds)}}

Edit ==
  /\ ~Syncing /\ status # "success" /\ edits < MaxEdits
  /\ \E e \in Edits(edited) : e # edited /\ edited' = e
  /\ edits' = edits + 1 /\ status' = "editing"
  /\ UNCHANGED <<events, hub, cache, baseline, plan, blob, adding, syncs, trouble, before, odd>>

(***************************************************************************)
(* The plan.  Commands first, and among them the new ones; a command with  *)
(* a new payload takes its name along; what is deleted goes last.          *)
(***************************************************************************)
Does(k, S) == LET rank(i) == Cardinality({j \in S : j <= i})
              IN [n \in 1..Cardinality(S) |-> [do |-> k, at |-> CHOOSE i \in S : rank(i) = n]]
Plan(b, e) ==
  LET old     == DOMAIN e.cmds \cap DOMAIN b.names
      payload == {i \in old : e.cmds[i].is = "mine"}
      rename  == {i \in old \ payload : e.cmds[i].name # b.names[i]}
      field(f) == IF b.fields[f] = e.fields[f] THEN << >> ELSE <<[do |-> "field", at |-> f]>>
  IN Does("add", DOMAIN e.cmds \ DOMAIN b.names)
     \o Does("payload", payload) \o Does("fetch", rename)
     \o field("keys") \o field("name") \o field("ip")
     \o Does("delete", DOMAIN b.names \ DOMAIN e.cmds)

\* sync_device up to the preflight; an empty plan succeeds at once.
RequestSync ==
  /\ status \in {"editing", "failed"} /\ edits > 0 /\ syncs < MaxSyncs
  /\ syncs' = syncs + 1
  /\ plan' = Plan(baseline, edited)
  /\ status' = IF plan' = << >> THEN "success" ELSE "clearing"
  /\ blob' = << >>
  /\ UNCHANGED <<events, hub, cache, baseline, edited, adding, edits, trouble, before, odd>>

(***************************************************************************)
(* The preflight reads the device again (backup_device): its row among the *)
(* devices, which may stay the old one unnoticed, then, all cleared, its   *)
(* tables.  A list that does not come makes the read incomplete, and an    *)
(* incomplete read is no reason to stop.                                   *)
(***************************************************************************)
LooseAdds == [w \in Writers |-> [adding[w] EXCEPT !.loose = adding[w].at = "claimed"]]

ClearForSync ==
  /\ status = "clearing" /\ status' = "reading"
  /\ \/ cache' = [Cleared(cache) EXCEPT !.head = HeadOf(hub)] /\ Calm
     \/ cache' = Cleared(cache) /\ cache.head # HeadOf(hub) /\ Trouble("deaf")
  /\ adding' = LooseAdds
  /\ UNCHANGED <<events, hub, baseline, edited, plan, blob, edits, syncs, before>>

\* _device_block_signature: of all that can be edited, the macros and bindings.
Stale == hub.fields["keys"] # baseline.fields["keys"]

ReadForSync ==
  /\ status = "reading"
  /\ \/ /\ cache' = Listed(hub, cache.head) /\ Calm
        /\ status' = IF Stale THEN "failed" ELSE "running"
        /\ before' = AsFound(hub)
     \/ /\ UNCHANGED <<cache, before>> /\ Trouble("deaf") /\ status' = "running"
  /\ plan' = IF status' = "failed" THEN << >> ELSE plan
  /\ UNCHANGED <<events, hub, baseline, edited, blob, adding, edits, syncs>>

(***************************************************************************)
(* The steps.  A write that is refused, or whose answer is lost, ends the  *)
(* run; the second kind has happened all the same.                         *)
(***************************************************************************)
Turn(s) == status = "running" /\ plan # << >> /\ Head(plan).do = s /\ adding["sync"] = Idle
Goes     == plan' = Tail(plan) /\ UNCHANGED status /\ Calm
Stops    == plan' = << >> /\ status' = "failed"

\* The hub becomes h and, when the proxy hears of it, the cache c.
Write(h, c) ==
  /\ hub' = h
  /\ \/ Goes /\ cache' = c
     \/ Trouble("unacked") /\ Stops /\ UNCHANGED cache

\* Mutant: the record as the editor loaded it is sent, with one field replaced.
HeadForgotten(f) == [HeadOf(baseline) EXCEPT ![f] = edited.fields[f]]
\* _sync_step_device_rename, _sync_step_device_ip: the cached record with one
\* field replaced, and cached again; the other fields are writes of their own.
HeadWith(f) == [cache.head EXCEPT ![f] = edited.fields[f]]

WriteField ==
  /\ Turn("field")
  /\ \E f \in {Head(plan).at} :
       IF f \in HeadFields
       THEN Write([hub EXCEPT !.fields = [g \in Fields |-> IF g \in HeadFields THEN HeadWith(f)[g] ELSE @[g]]],
                  [cache EXCEPT !.head = HeadWith(f)])
       ELSE Write([hub EXCEPT !.fields[f] = edited.fields[f]], cache)
  /\ UNCHANGED <<events, baseline, edited, blob, adding, edits, syncs, before>>

\* Mutant: the dump's first command is taken, whatever its id.
ReadBackAny(i) == hub.cmds[CHOOSE j \in DOMAIN hub.cmds : \A k \in DOMAIN hub.cmds : j <= k].data
\* _fetch_command_library_data takes the command asked for out of the dump.
ReadBack(i) == hub.cmds[i].data

\* A dump that breaks off is handed over as it is (_build_ir_dump_result).
BrokenOff(i) == Payload("cut", i)

\* The payload is read back first; whether it is complete is not looked at.
FetchPayload ==
  /\ Turn("fetch") /\ blob = << >>
  /\ \E i \in {Head(plan).at} :
       \/ /\ i \in DOMAIN cache.place /\ i \in DOMAIN hub.cmds
          /\ blob' = <<ReadBack(i)>> /\ Calm /\ UNCHANGED <<status, plan>>
       \/ /\ i \in DOMAIN cache.place /\ i \in DOMAIN hub.cmds
          /\ blob' = <<BrokenOff(i)>> /\ Trouble("cut") /\ UNCHANGED <<status, plan>>
       \/ /\ i \notin DOMAIN cache.place \/ i \notin DOMAIN hub.cmds
          /\ Stops /\ Calm /\ UNCHANGED blob
  /\ UNCHANGED <<events, hub, cache, baseline, edited, adding, edits, syncs, before>>

\* overwrite_command_payload: only a command that the cached list holds.
Overwrite(i, d) ==
  IF i \in DOMAIN cache.names /\ i \in DOMAIN cache.place
  THEN Write([hub EXCEPT !.cmds = Upd(@, i, Record(edited.cmds[i].name, d))],
             [cache EXCEPT !.names[i] = edited.cmds[i].name])
  ELSE Stops /\ Calm /\ UNCHANGED <<hub, cache>>

RenameCommand ==
  /\ Turn("fetch") /\ blob # << >>
  /\ Overwrite(Head(plan).at, blob[1]) /\ blob' = << >>
  /\ UNCHANGED <<events, baseline, edited, adding, edits, syncs, before>>

WritePayload ==
  /\ Turn("payload")
  /\ Overwrite(Head(plan).at, Payload("user", Head(plan).at))
  /\ UNCHANGED <<events, baseline, edited, blob, adding, edits, syncs, before>>

\* The hub takes the command out of everything that names it.
DeleteCommand ==
  /\ Turn("delete")
  /\ \E i \in {Head(plan).at} :
       Write([hub EXCEPT !.cmds = Without(@, i), !.place = Without(@, i)], cache)
  /\ UNCHANGED <<events, baseline, edited, blob, adding, edits, syncs, before>>

Refused ==
  /\ status = "running" /\ plan # << >> /\ adding["sync"] = Idle
  /\ Trouble("refused") /\ Stops /\ blob' = << >>
  /\ UNCHANGED <<events, hub, cache, baseline, edited, adding, edits, syncs, before>>

(***************************************************************************)
(* A new command: persist_ir_blob, persist_command_record.  The id is      *)
(* checked against the cached list, the record is written and cached, and  *)
(* the display order is sent with the command at its end.                  *)
(***************************************************************************)
\* What the claim of the id i by w may run into: the list was not heard, or
\* the other writer has claimed the same.
Risks(w, i, heard) ==
  {k \in {"blind"} : ~heard}
  \cup {k \in {"twin"} : \E v \in Writers \ {w} : adding[v].at = "claimed" /\ adding[v].id = i}

\* _allocate_command_id
Taken(i) == i \in DOMAIN cache.names

ClaimForSync ==
  /\ Turn("add")
  /\ \E i \in {Head(plan).at} :
       IF Taken(i) THEN Stops /\ Calm /\ UNCHANGED adding
                   ELSE /\ adding' = [adding EXCEPT !["sync"] =
                                         [at |-> "claimed", id |-> i, loose |-> ~cache.listed]]
                        /\ odd' = odd \cup Risks("sync", i, cache.listed)
                        /\ UNCHANGED <<plan, status, trouble>>
  /\ UNCHANGED <<events, hub, cache, baseline, edited, blob, edits, syncs, before>>

Made(w, i) == IF w = "sync" THEN Record(edited.cmds[i].name, Payload("user", i))
                            ELSE Record(1, Payload("service", i))

\* `before` follows what the service does.
Meanwhile(w, i) ==
  IF w = "sync" THEN before
  ELSE [before EXCEPT !.cmds = Upd(@, i, Made(w, i)), !.place = Without(@, i)]

\* The label goes into the dictionary that was there at the claim: when that
\* has been cleared since, or was missing, it is lost.
Save(w) ==
  /\ adding[w].at = "claimed"
  /\ \E i \in {adding[w].id} :
       \/ /\ hub' = [hub EXCEPT !.cmds = Upd(@, i, Made(w, i))] /\ before' = Meanwhile(w, i)
          /\ adding' = [adding EXCEPT ![w].at = "saved"]
          /\ cache' = IF adding[w].loose THEN cache ELSE [cache EXCEPT !.names = Upd(@, i, 1)]
          /\ odd' = odd \cup {k \in {"unheard"} : adding[w].loose}
          /\ UNCHANGED <<status, plan, trouble>>
       \/ /\ \/ hub' = [hub EXCEPT !.cmds = Upd(@, i, Made(w, i))] /\ before' = Meanwhile(w, i)
             \/ UNCHANGED <<hub, before>>
          /\ adding' = [adding EXCEPT ![w] = Ended(w)] /\ Trouble("unheard") /\ UNCHANGED cache
          /\ IF w = "sync" THEN Stops ELSE UNCHANGED <<status, plan>>
  /\ UNCHANGED <<events, baseline, edited, blob, edits, syncs>>

\* Mutant: the table is made from the ids alone.
TableById(known, place, i) ==
  [j \in known \cup {i} |-> Cardinality({k \in known \cup {i} : k <= j})]

\* _register_command_in_device_sort: those with a position keep it, those
\* without follow by id, and the new one comes last.
Table(known, place, i) ==
  LET placed == {j \in known \ {i} : Place(place, j) > 0}
      others == known \ (placed \cup {i})
      last   == Max({0} \cup {place[j] : j \in placed})
  IN [j \in known \cup {i} |->
        IF j \in placed THEN place[j]
        ELSE IF j = i THEN last + Cardinality(others) + 1
        ELSE last + Cardinality({k \in others : k <= j})]

\* Only the position of the new command is cached.  Failure is not fatal.
Register(w) ==
  /\ adding[w].at = "saved"
  /\ \E i \in {adding[w].id} :
     \E t \in {Table(DOMAIN cache.names \cup DOMAIN cache.place, cache.place, i)} :
       \/ /\ hub' = [hub EXCEPT !.place = t]
          /\ cache' = [cache EXCEPT !.place = Upd(@, i, t[i])]
          /\ UNCHANGED trouble
       \/ /\ hub' \in {hub, [hub EXCEPT !.place = t]} /\ UNCHANGED cache
          /\ trouble < MaxTrouble /\ trouble' = trouble + 1
  /\ odd' = odd \cup {k \in {"blind"} : ~cache.listed}
  /\ adding' = [adding EXCEPT ![w] = Ended(w)]
  /\ plan' = IF w = "sync" THEN Tail(plan) ELSE plan
  /\ UNCHANGED <<events, baseline, edited, status, blob, edits, syncs, before>>

(***************************************************************************)
(* The service, of IR devices alone, refreshes the list before it adds;    *)
(* when no answer comes, the wait ends and it adds all the same (hub.py).  *)
(* It does not ask whether a sync runs.                                    *)
(***************************************************************************)
ServiceClears ==
  /\ ~events /\ Undisturbed
  /\ cache' = Cleared(cache)
  /\ adding' = [LooseAdds EXCEPT !["service"].at = "reading"]
  /\ UNCHANGED <<events, hub, baseline, edited, status, plan, blob, edits, syncs, trouble, before, odd>>

\* _next_available_command_id
NextFree(c) == LowestFree(DOMAIN c.names)

ServiceClaims ==
  /\ adding["service"].at = "reading"
  /\ \E heard \in BOOLEAN :
     \E c \in {IF heard THEN Listed(hub, cache.head) ELSE cache} :
       /\ cache' = c
       /\ heard \/ trouble < MaxTrouble
       /\ trouble' = IF heard THEN trouble ELSE trouble + 1
       /\ IF DOMAIN c.names = Ids
          THEN adding' = [adding EXCEPT !["service"] = Ended("service")] /\ UNCHANGED odd
          ELSE /\ adding' = [adding EXCEPT !["service"] =
                               [at |-> "claimed", id |-> NextFree(c), loose |-> ~c.listed]]
               /\ odd' = odd \cup Risks("service", NextFree(c), heard)
  /\ UNCHANGED <<events, hub, baseline, edited, status, plan, blob, edits, syncs, before>>

(***************************************************************************)
(* Others at the hub, and the end of a sync.                               *)
(***************************************************************************)
Others(h) ==
  {[h EXCEPT !.cmds = Upd(@, i, Record(2, Payload("other", i)))] : i \in {1, MaxId}}
  \cup {[h EXCEPT !.fields[f] = 2] : f \in {"ip", "keys"}}

\* Somebody edits the device on the hub while the editor is open; bound: before
\* the first sync, one command, new or old, the address or the keys.
Foreign ==
  /\ ~Syncing /\ status # "success" /\ hub' \in Others(hub) /\ before' = hub'
  /\ Undisturbed /\ syncs = 0 /\ odd' = odd \cup {"foreign"}
  /\ UNCHANGED <<events, cache, baseline, edited, status, plan, blob, adding, edits, syncs, trouble>>

\* The device is read once more, as after every sync that came to its end.
Done ==
  /\ status = "running" /\ plan = << >> /\ status' = "success"
  /\ \/ cache' = Listed(hub, HeadOf(hub)) /\ Calm
     \/ cache' = Cleared(cache) /\ Trouble("deaf")
  /\ adding' = LooseAdds
  /\ UNCHANGED <<events, hub, baseline, edited, plan, blob, edits, syncs, before>>

\* The user reloads: the editor starts from what is read.
Rebase ==
  /\ status \in {"success", "failed"} /\ status' = "editing"
  /\ cache' = Listed(hub, HeadOf(hub)) /\ adding' = LooseAdds
  /\ baseline' = Loaded(hub) /\ edited' = Copy(hub)
  /\ before' = AsFound(hub) /\ odd' = odd \ {"deaf", "cut"}
  /\ UNCHANGED <<events, hub, plan, blob, edits, syncs, trouble>>

Next ==
  \/ Edit \/ Foreign \/ RequestSync \/ ClearForSync \/ ReadForSync
  \/ WriteField \/ FetchPayload \/ RenameCommand \/ WritePayload \/ DeleteCommand
  \/ ClaimForSync \/ Refused
  \/ \E w \in Writers : Save(w)
  \/ \E w \in Writers : Register(w)
  \/ ServiceClears \/ ServiceClaims \/ Done \/ Rebase

Spec == Init /\ [][Next]_vars

(***************************************************************************)
(* Properties.                                                             *)
(***************************************************************************)
\* What the device should be like once the plan has run.
Wanted ==
  LET old  == DOMAIN before.cmds \cap DOMAIN baseline.names
      gone == DOMAIN baseline.names \ DOMAIN edited.cmds
      new  == DOMAIN edited.cmds \ DOMAIN baseline.names
      mine(i) == i \in DOMAIN edited.cmds /\ edited.cmds[i].is # "same"
      renamed(i) == i \in old \ gone /\ edited.cmds[i].name # baseline.names[i]
  IN [cmds |-> [i \in (DOMAIN before.cmds \ gone) \cup new |->
                  [name |-> IF mine(i) \/ renamed(i) THEN edited.cmds[i].name ELSE before.cmds[i].name,
                   data |-> IF mine(i) THEN Payload("user", i) ELSE before.cmds[i].data]],
      fields |-> [f \in Fields |-> IF edited.fields[f] # baseline.fields[f]
                                   THEN edited.fields[f] ELSE before.fields[f]]]

\* A sync that reports success has made every change of the user and none
\* other: what somebody else changed meanwhile is still there.  It takes a
\* read that did not come, a dump that broke off, or a command that was added
\* past the list it was checked against, to break this.
DeviceAsEdited ==
  status = "success" /\ odd \cap {"deaf", "cut", "blind", "twin", "unheard"} = {}
    => [cmds |-> hub.cmds, fields |-> hub.fields] = Wanted

\* What a command sends changes only when the user has given it a new payload
\* or somebody else edits the device: no rename, no new command and no service
\* call ever overwrites it, but for a dump that broke off and the unlucky adds.
PayloadsSurvive ==
  [][\A i \in DOMAIN hub.cmds :
       \/ i \in DOMAIN hub'.cmds /\ hub'.cmds[i].data = hub.cmds[i].data
       \/ events /\ i \notin DOMAIN edited.cmds
       \/ i \in DOMAIN edited.cmds \cap DOMAIN baseline.names /\ edited.cmds[i].is = "mine"
       \/ "foreign" \in odd' \ odd
       \/ odd' \cap {"cut", "blind", "twin", "unheard"} # {}]_vars

\* On the remote's screen the commands that had a place when the sync began
\* keep one, and their order, whatever is added after them.
BrowseKept ==
  odd \cap {"blind", "unheard"} = {} =>
    \A i, j \in DOMAIN before.place \cap DOMAIN hub.cmds :
      /\ i \in DOMAIN hub.place
      /\ j \in DOMAIN hub.place /\ before.place[i] < before.place[j] => hub.place[i] < hub.place[j]
=============================================================================
