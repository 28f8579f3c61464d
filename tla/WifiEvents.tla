----------------------------- MODULE WifiEvents -----------------------------
(* Wi-Fi Events: named callbacks that activities of the hub point at.  An   *)
(* event is a slot of one store record (command_config.py).  The record is  *)
(* deployed to the hub as one device with a command per slot (hub.py), and  *)
(* favorites, bindings and macro steps refer to an event by the device and  *)
(* the number of its slot alone.  Pressing one fires whatever event the     *)
(* store has at that slot, so a slot may only be given to a new event when  *)
(* the hub has forgotten the old one.                                       *)
(*                                                                          *)
(* The brand field of the device carries the hash of what was deployed; a   *)
(* record needs a sync while its own hash differs from its deployed hash.   *)
(*                                                                          *)
(* Handlers of the event loop interleave at their awaits: the deploy is cut *)
(* at each write to the hub, the store changes in one step.  Only deploys   *)
(* and the deletes that follow them take the lock.  Left out: long presses, *)
(* actions, the listener, ports, power and activities of other devices.     *)
EXTENDS Naturals, FiniteSets, Functions

CONSTANTS
  Slots,      \* slots of the record, 1..n
  Names,      \* names a user gives; none reads "Command N"
  DevIds,     \* ids the hub may give the device, 1..m
  MaxEvents,  \* bound on the events ever created
  MaxRefs,    \* bound on the references on the hub: no step depends on them
  MaxTrouble  \* bound on failed writes (not of a swap), restarts, edits made elsewhere

None == 0
Gone == "gone"                \* no command record on the hub
Placeholder == "Command N"    \* label of a free slot
Foreign == "foreign"          \* label given in the app

\* What an instance assumes of its constants.
Numbered ==
  /\ Slots \subseteq Nat \ {0} /\ IsFiniteSet(Slots) /\ DevIds \subseteq Nat \ {0}
  /\ Names \cap {Gone, Placeholder, Foreign} = {}

VARIABLES
  record,    \* the store's record: slots, deployed id, hash and names
  hub,       \* device of each id: its brand and the label of each command
  refs,      \* references of activities: device, slot, the event meant, and a
             \* mark: "held" by the guard of its slot, made too "early" for it,
             \* or "left" behind by a deploy that was not the delete's own
  deploy,    \* async_sync_command_config, under the lock
  resets,    \* slots reset by a delete that has yet to deploy
  edit,      \* the device editor, between its write and the store
  dropping,  \* the Hub tab, between deleting the device and its record
  born,      \* number of events created
  condemned, \* events somebody asked to delete
  unsure,    \* devices whose creation was cut, that others wrote to, or that a
             \* deploy left standing beside its own
  trouble    \* how often any of these happened

vars == <<record, hub, refs, deploy, resets, edit, dropping, born, condemned,
          unsure, trouble>>
ghosts == <<condemned, unsure>>
editors == <<edit, dropping>>

NoHash == <<>>
NoNames == <<>>
NoDevice == [brand |-> "none"]
Free == [event |-> None, name |-> Placeholder]
NoRecord == [there |-> FALSE, slots |-> [i \in Slots |-> Free],
             id |-> None, hash |-> NoHash, names |-> NoNames]
Idle == [at |-> "idle", for |-> None, names |-> [i \in Slots |-> Placeholder], id |-> None,
         hash |-> NoHash, dev |-> None, old |-> {}, todo |-> {}, since |-> 0]
NoEdit == [dev |-> None, slot |-> None, name |-> Placeholder, since |-> 0]

Live == {d \in DevIds : hub[d] # NoDevice}
Leave(lost) ==
  refs' = {IF r \in lost /\ r.mark = "held" THEN [r EXCEPT !.mark = "left"] ELSE r : r \in refs}
RefsTo(d) == {r \in refs : r.dev = d}
Events(rec) == {rec.slots[i].event : i \in Slots} \ {None}

Labels(slots) == [i \in Slots |-> slots[i].name]

\* compute_commands_hash sorts its rows: a bag.  A free slot's row holds its
\* number and is marked as a favorite, so no event's row equals it.  A hash is
\* kept as the names that were hashed and compared as a bag.
Row(names, i) == IF names[i] = Placeholder THEN <<"free", i>> ELSE <<"event", names[i]>>
Bag(names) ==
  [row \in {Row(names, i) : i \in Slots} |-> Cardinality({i \in Slots : Row(names, i) = row})]
SameHash(a, b) == a = b \/ (a # NoHash /\ b # NoHash /\ Bag(a) = Bag(b))

NeedsSync == ~SameHash(record.hash, Labels(record.slots))
Configured(names) == {i \in Slots : names[i] # Placeholder}

Init ==
  /\ record = NoRecord
  /\ hub = [d \in DevIds |-> NoDevice]
  /\ refs = {} /\ resets = {} /\ born = 0 /\ trouble = 0
  /\ deploy = Idle /\ edit = NoEdit /\ dropping = NoEdit
  /\ condemned = {} /\ unsure = {}

(***************************************************************************)
(* Create, delete and sync: the websocket handlers                         *)
(***************************************************************************)
\* A free slot is passed over while the last deployed name is an event's.
Held(i) == record.names # NoNames /\ record.names[i] # Placeholder

AllocatableNoGuard == {i \in Slots : record.slots[i] = Free}
Allocatable == {i \in Slots : record.slots[i] = Free /\ ~Held(i)}

Create(name) ==
  /\ born < MaxEvents
  /\ \A i \in Slots : record.slots[i].name # name
  /\ Allocatable # {}
  /\ LET i == CHOOSE j \in Allocatable : \A k \in Allocatable : j <= k
     IN record' = [record EXCEPT !.there = TRUE,
                                 !.slots[i] = [event |-> born + 1, name |-> name]]
  /\ born' = born + 1
  /\ UNCHANGED <<hub, refs, deploy, resets, editors, ghosts, trouble>>

\* Deleting never compacts the list: callbacks carry the number of the slot.
ResetFrom(slots, i) == [j \in Slots |-> IF j < i THEN slots[j] ELSE Free]
Reset(slots, i) == [slots EXCEPT ![i] = Free]

\* wifi_event/delete resets the slot in place and saves before it deploys.
Delete(i) ==
  /\ record.slots[i] # Free
  /\ record' = [record EXCEPT !.slots = Reset(@, i)]
  /\ condemned' = condemned \cup {record.slots[i].event}
  /\ resets' = resets \cup {i}
  /\ UNCHANGED <<hub, refs, deploy, editors, born, unsure, trouble>>

StartDeploy(slot) ==
  deploy' = [Idle EXCEPT !.at = "match", !.for = slot, !.names = Labels(record.slots),
                         !.id = record.id, !.hash = record.hash,
                         !.since = IF Configured(Labels(record.slots)) = {} THEN born ELSE 0]

\* "sync_in_progress" and a record dropped meanwhile leave the reset staged.
DeleteDeploys(i) ==
  /\ i \in resets
  /\ resets' = resets \ {i}
  /\ IF deploy = Idle /\ record.there THEN StartDeploy(i) ELSE UNCHANGED deploy
  /\ UNCHANGED <<record, hub, refs, editors, born, ghosts, trouble>>

\* wifi_event/sync.  The activity editor calls it, when the record is out of
\* step or has no device, before it writes references.
Sync ==
  /\ deploy = Idle /\ record.there
  /\ NeedsSync \/ record.id = None
  /\ StartDeploy(None)
  /\ UNCHANGED <<record, hub, refs, resets, editors, born, ghosts, trouble>>

\* The activity editor writes a reference once the record is in sync.
AddRef(i) ==
  /\ record.slots[i] # Free /\ ~NeedsSync /\ record.id \in Live
  /\ Cardinality(refs) < MaxRefs
  /\ refs' = refs \cup {[dev |-> record.id, slot |-> i, event |-> record.slots[i].event,
                         mark |-> IF Held(i) THEN "held" ELSE "early"]}
  /\ UNCHANGED <<record, hub, deploy, resets, editors, born, ghosts, trouble>>

(***************************************************************************)
(* The deploy                                                              *)
(***************************************************************************)
deployOnly == <<resets, editors, born, condemned>>

Branded(hash) == {d \in Live : SameHash(hub[d].brand, hash)}

\* _match_managed_wifi_devices: a known id decides alone.
Managed ==
  IF deploy.id # None THEN Live \cap {deploy.id}
  ELSE IF deploy.hash # NoHash /\ Branded(deploy.hash) # {} THEN Branded(deploy.hash)
  ELSE IF Branded(deploy.names) # {} THEN Branded(deploy.names)
  ELSE Live

Match ==
  /\ deploy.at = "match"
  /\ deploy' =
       IF Cardinality(Managed) > 1 THEN Idle
       ELSE [deploy EXCEPT
               !.old = Managed, !.id = None, !.hash = NoHash,
               !.at = IF Configured(deploy.names) = {} THEN "drop"
                      ELSE IF Managed = {} THEN "create" ELSE "read"]
  /\ UNCHANGED <<record, hub, refs, deployOnly, unsure, trouble>>

\* build_wifi_inplace_plan: the commands that differ on the hub now.
ToWrite(labels, wanted) == {i \in Slots : labels[i] # wanted[i]}

\* Edit in place, unless there is no snapshot of this device or a label is
\* neither the deployed nor the wanted one.
Read ==
  /\ deploy.at = "read"
  /\ \E d \in deploy.old :
       LET live == IF d \in Live THEN hub[d].labels ELSE [i \in Slots |-> Gone]
           wanted == deploy.names
           drifted == \E i \in Slots :
             live[i] \notin {Gone, wanted[i], record.names[i]}
           inPlace == d \in Live /\ record.id = d /\ record.names # NoNames /\ ~drifted
       IN deploy' =
            IF inPlace
            THEN [deploy EXCEPT !.at = "edit", !.dev = d,
                                !.todo = ToWrite(live, wanted)]
            ELSE [deploy EXCEPT !.at = "create"]
  /\ UNCHANGED <<record, hub, refs, deployOnly, unsure, trouble>>

\* The head of a new device, which carries the whole hash, is written first.
CreateHead ==
  /\ deploy.at = "create"
  /\ \E d \in DevIds \ Live :
       /\ hub' = [hub EXCEPT ![d] = [brand |-> deploy.names,
                                     labels |-> [i \in Slots |-> Gone]]]
       /\ deploy' = [deploy EXCEPT !.at = "fill", !.dev = d, !.todo = Slots]
  /\ UNCHANGED <<record, refs, deployOnly, unsure, trouble>>

\* Commands are added, then renamed, in the order of their numbers.
WriteCommand ==
  /\ deploy.at \in {"edit", "fill"} /\ deploy.dev \in Live
  /\ deploy.todo # {}
  /\ LET adds == {i \in deploy.todo : hub[deploy.dev].labels[i] = Gone}
         turn == IF adds = {} THEN deploy.todo ELSE adds
         i == CHOOSE j \in turn : \A k \in turn : j <= k
     IN /\ hub' = [hub EXCEPT ![deploy.dev].labels[i] = deploy.names[i]]
        /\ deploy' = [deploy EXCEPT !.todo = @ \ {i}]
  /\ UNCHANGED <<record, refs, deployOnly, unsure, trouble>>

\* The brand is the last step of an edit in place: it marks the commit.
CommittableEarly == deploy.at = "edit" /\ deploy.dev \in Live
Committable == deploy.at = "edit" /\ deploy.dev \in Live /\ deploy.todo = {}

WriteBrand ==
  /\ Committable
  /\ hub' = [hub EXCEPT ![deploy.dev].brand = deploy.names]
  /\ deploy' = [deploy EXCEPT !.at = "save"]
  /\ UNCHANGED <<record, refs, deployOnly, unsure, trouble>>

DeleteDevice(d) ==
  /\ hub' = [hub EXCEPT ![d] = NoDevice]
  /\ refs' = refs \ RefsTo(d)
  /\ unsure' = unsure \ {d}

Filled == deploy.at = "fill" /\ deploy.todo = {}

\* The old device goes only when the new one is there.
Swap ==
  /\ Filled
  /\ deploy' = [deploy EXCEPT !.at = "save"]
  /\ IF deploy.old \cap Live = {} THEN UNCHANGED <<hub, refs, unsure>>
     ELSE \E d \in deploy.old : DeleteDevice(d)
  /\ UNCHANGED <<record, deployOnly, trouble>>

\* The hub does not confirm, whether it deleted or not: the new one goes too.
\* A swap comes of trouble already: its failures are not counted again.
SwapFails ==
  /\ Filled /\ deploy.old # {} /\ UNCHANGED trouble
  /\ deploy' = [deploy EXCEPT !.at = "undo"]
  /\ \/ \E d \in deploy.old : DeleteDevice(d)
     \/ UNCHANGED <<hub, refs, unsure>>
  /\ UNCHANGED <<record, deployOnly>>

Undo ==
  /\ deploy.at = "undo"
  /\ DeleteDevice(deploy.dev)
  /\ deploy' = Idle
  /\ UNCHANGED <<record, deployOnly, trouble>>

\* There may be such a device when an old one could not be deleted.
Beside == Live \ {deploy.dev}

\* async_save_deployed_wifi_commands: the guard of the free slots is lifted.
\* A sync takes nothing off the hub, the deploy of a delete goes on to it.
Save ==
  /\ deploy.at = "save" /\ record.there
  /\ record' = [record EXCEPT !.id = deploy.dev, !.hash = deploy.names,
                              !.names = deploy.names]
  /\ deploy' = IF deploy.for = None THEN Idle ELSE [deploy EXCEPT !.at = "cascade"]
  /\ Leave({r \in refs : deploy.names[r.slot] = Placeholder
                         /\ (r.dev # deploy.dev \/ r.slot # deploy.for)})
  /\ unsure' = unsure \cup Beside
  /\ UNCHANGED <<hub, deployOnly, trouble>>

\* async_delete_wifi_event_records: the hub drops what refers to the command.
Cascaded == {r \in refs : r.dev = deploy.dev /\ r.slot = deploy.for}

Cascade ==
  /\ deploy.at = "cascade" /\ deploy.dev \in Live
  /\ hub' = [hub EXCEPT ![deploy.dev].labels[deploy.for] = Gone]
  /\ refs' = refs \ Cascaded
  /\ unsure' = IF deploy.names[deploy.for] = Placeholder THEN unsure ELSE unsure \cup {deploy.dev}
  /\ deploy' = Idle
  /\ UNCHANGED <<record, deployOnly, trouble>>

\* No event is left: the device goes, then the snapshot, then the record.
Drop ==
  /\ deploy.at = "drop"
  /\ deploy' = [deploy EXCEPT !.at = "forget"]
  /\ IF deploy.old \cap Live = {} THEN UNCHANGED <<hub, refs, unsure>>
     ELSE \E d \in deploy.old : DeleteDevice(d)
  /\ UNCHANGED <<record, deployOnly, trouble>>

DropFails ==
  /\ deploy.at = "drop" /\ deploy.old # {} /\ trouble < MaxTrouble
  /\ trouble' = trouble + 1
  /\ deploy' = Idle
  /\ \/ \E d \in deploy.old : DeleteDevice(d)
     \/ UNCHANGED <<hub, refs, unsure>>
  /\ UNCHANGED <<record, deployOnly>>

Forget ==
  /\ deploy.at = "forget" /\ record.there
  /\ record' = [record EXCEPT !.id = None, !.hash = NoHash, !.names = NoNames]
  /\ deploy' = IF deploy.for = None THEN Idle ELSE [deploy EXCEPT !.at = "erase"]
  /\ Leave(refs)
  /\ unsure' = unsure \cup Beside
  /\ UNCHANGED <<hub, deployOnly, trouble>>

\* _ws_delete_wifi_event drops the record it found empty when it deployed.
Erase ==
  /\ deploy.at = "erase"
  /\ record' = NoRecord
  /\ deploy' = Idle
  /\ Leave(refs) /\ unsure' = Live
  /\ UNCHANGED <<hub, deployOnly, trouble>>

Unfinished == IF deploy.at = "fill" /\ deploy.todo # {} THEN {deploy.dev} \cap Live ELSE {}

\* A write is refused or times out, or the device or the record is no more.
\* Nothing is undone: the reset stays staged, what was written stays written.
Fail ==
  /\ deploy.at \notin {"idle", "undo", "drop", "erase"} /\ ~Filled
  /\ IF \/ deploy.at \in {"edit", "cascade"} /\ deploy.dev \notin Live
        \/ deploy.at \in {"save", "forget"} /\ ~record.there
     THEN UNCHANGED trouble
     ELSE trouble < MaxTrouble /\ trouble' = trouble + 1
  /\ Leave(IF deploy.at = "cascade" THEN Cascaded ELSE {})
  /\ unsure' = unsure \cup Unfinished
  /\ deploy' = Idle
  /\ UNCHANGED <<record, hub, deployOnly>>

UndoFails ==
  /\ deploy.at = "undo"
  /\ deploy' = Idle
  /\ UNCHANGED <<record, hub, refs, deployOnly, unsure, trouble>>

(***************************************************************************)
(* The Hub tab: its device editor and its delete                           *)
(***************************************************************************)
\* A device sync renames or removes a command on the hub first.  It does not
\* begin under the lock but a deploy may begin while it runs.
EditDevice(d, i, name) ==
  /\ trouble < MaxTrouble
  /\ trouble' = trouble + 1
  /\ deploy = Idle /\ edit = NoEdit /\ dropping = NoEdit
  /\ d \in Live
  /\ hub[d].labels[i] \notin {Gone, name}
  /\ edit' = [dev |-> d, slot |-> i, name |-> name, since |-> born]
  /\ unsure' = unsure \cup {d}
  /\ IF name = Placeholder
     THEN LET cascaded == {r \in refs : r.dev = d /\ r.slot = i} IN
          /\ hub' = [hub EXCEPT ![d].labels[i] = Gone]
          /\ refs' = refs \ cascaded
          /\ condemned' = condemned \cup ({record.slots[i].event} \ {None})
     ELSE /\ hub' = [hub EXCEPT ![d].labels[i] = name]
          /\ UNCHANGED <<refs, condemned>>
  /\ UNCHANGED <<record, deploy, resets, dropping, born>>

\* async_reconcile_wifi_events_command_renames and _removals: the slot, the
\* snapshot and the deployed hash follow the hub, whatever else is staged.
Followed ==
  LET i == edit.slot
      named == record.names # NoNames /\ record.names[i] # edit.name
      slots == IF edit.name = Placeholder THEN Reset(record.slots, i)
               ELSE [record.slots EXCEPT ![i].name = edit.name]
      ignored == edit.name # Placeholder /\ record.slots[i] = Free
  IN IF ~record.there \/ ignored \/ (slots = record.slots /\ ~named) THEN record
     ELSE [record EXCEPT
             !.slots = slots,
             !.names = IF named THEN [@ EXCEPT ![i] = edit.name] ELSE @,
             !.hash = IF @ = NoHash THEN NoHash ELSE Labels(slots)]

EditFollows ==
  /\ edit # NoEdit
  /\ record' = Followed
  /\ edit' = NoEdit
  /\ Leave(IF edit.name = Placeholder THEN {r \in refs : r.slot = edit.slot} ELSE {})
  /\ unsure' = Live
  /\ UNCHANGED <<hub, deploy, resets, dropping, born, condemned, trouble>>

TabDelete(d) ==
  /\ trouble < MaxTrouble
  /\ trouble' = trouble + 1
  /\ deploy = Idle /\ edit = NoEdit /\ dropping = NoEdit
  /\ d \in Live
  /\ DeleteDevice(d)
  /\ dropping' = [NoEdit EXCEPT !.dev = d, !.since = born]
  /\ condemned' = condemned \cup Events(record)
  /\ UNCHANGED <<record, deploy, resets, edit, born>>

\* The record goes with the device, if it still is the record's device.
TabDrops ==
  /\ dropping # NoEdit
  /\ dropping' = NoEdit
  /\ IF record.id = dropping.dev
     THEN record' = NoRecord /\ Leave(refs) /\ unsure' = Live
     ELSE UNCHANGED <<record, refs, unsure>>
  /\ UNCHANGED <<hub, deploy, resets, edit, born, condemned, trouble>>

(***************************************************************************)
(* The hub's list of devices, the app, a restart of Home Assistant         *)
(***************************************************************************)
\* Every list of devices read from the hub repairs the record's claim: the
\* device's brand is taken for the deployed hash.
Reconcile ==
  /\ record.there
  /\ \/ /\ Live = {}
        /\ record' = [record EXCEPT !.id = None, !.hash = NoHash, !.names = NoNames]
     \/ \E d \in Live : record' = [record EXCEPT !.id = d, !.hash = hub[d].brand]
  /\ UNCHANGED <<hub, refs, deploy, resets, editors, born, ghosts, trouble>>

AppRenames(d, i) ==
  /\ trouble < MaxTrouble
  /\ trouble' = trouble + 1
  /\ d \in Live /\ hub[d].labels[i] \notin {Gone, Foreign}
  /\ hub' = [hub EXCEPT ![d].labels[i] = Foreign]
  /\ unsure' = unsure \cup {d}
  /\ UNCHANGED <<record, refs, deploy, resets, editors, born, condemned>>

\* What is under way is forgotten; the store and the hub keep what they have.
Restart ==
  /\ trouble < MaxTrouble
  /\ trouble' = trouble + 1
  /\ deploy' = Idle /\ resets' = {} /\ edit' = NoEdit /\ dropping' = NoEdit
  /\ Leave(IF deploy.at = "cascade" THEN Cascaded ELSE {})
  /\ unsure' = unsure \cup Unfinished
  /\ UNCHANGED <<record, hub, born, condemned>>

Handlers ==
  \/ \E name \in Names : Create(name)
  \/ \E i \in Slots : Delete(i) \/ DeleteDeploys(i) \/ AddRef(i)
  \/ Sync

Deploy ==
  \/ Match \/ Read
  \/ CreateHead \/ WriteCommand \/ WriteBrand
  \/ Swap \/ SwapFails \/ Undo \/ UndoFails
  \/ Save \/ Cascade
  \/ Drop \/ DropFails \/ Forget \/ Erase
  \/ Fail

HubTab ==
  \/ \E d \in DevIds, i \in Slots, name \in Names \cup {Placeholder} : EditDevice(d, i, name)
  \/ EditFollows
  \/ \E d \in DevIds : TabDelete(d)
  \/ TabDrops

Outside ==
  \/ Reconcile
  \/ \E d \in DevIds, i \in Slots : AppRenames(d, i)
  \/ Restart

Next == Handlers \/ Deploy \/ HubTab \/ Outside

Spec == Init /\ [][Next]_vars

-----------------------------------------------------------------------------
(* Properties *)

\* What pressing a reference fires: the callback names the device and the slot.
Fires(r) ==
  IF record.id = r.dev /\ record.names # NoNames THEN record.slots[r.slot].event ELSE None

\* A favorite, binding or macro step fires the event it was made for, or
\* nothing: a slot is not given to another event while the hub still refers to
\* it.  Not so for what a deploy that was not the delete's own left behind,
\* and while the delete is taking its references off the hub.
RefsFireTheirEvent ==
  \A r \in refs : r.mark = "held" =>
    \/ Fires(r) \in {None, r.event}
    \/ deploy.at = "cascade" /\ r \in Cascaded

\* The claim of the guard in async_allocate_wifi_event: no new event inherits
\* the references of one deleted before.
NothingIsInherited ==
  deploy = Idle /\ resets = {} =>
    \A r \in refs : r.mark # "early" => Fires(r) \in {None, r.event}

\* An event disappears only when somebody asked for it, or when it was created
\* while the delete that took its slot or the whole record was under way.
DiedByDeletion(e) ==
  \/ e \in condemned
  \/ deploy.at = "erase" /\ e > deploy.since
  \/ edit # NoEdit /\ e > edit.since
  \/ dropping # NoEdit /\ e > dropping.since

EventsDieByDeletion ==
  [][\A e \in Events(record) \ Events(record)' : DiedByDeletion(e) \/ e \in condemned']_vars

\* A device whose brand is the hash of the record has a command for every event
\* of the record, unless its creation was cut short, a delete took the command
\* of an event created meanwhile, the app or the device editor wrote to it, or a
\* later deploy was of another device: a sync that stopped half way reads out of
\* step, so it is offered again.  The brand stands for the labels in the order
\* of their slots; the code sorts the rows before it hashes them, so of two
\* slots that changed places this says nothing.
BrandIsEarned ==
  \A d \in Live \ (unsure \cup Unfinished) :
    (record.there /\ hub[d].brand = Labels(record.slots)) =>
      \A i \in Configured(Labels(record.slots)) : hub[d].labels[i] = record.slots[i].name
=============================================================================
