------------------------------ MODULE Restore ------------------------------
(***************************************************************************)
(* Restoring a hub bundle (lib/proxy_restore.py, with run_create_sequence  *)
(* and delete_device that it calls): devices first, each created, filled   *)
(* and on failure deleted again, then the activities in the order of what  *)
(* they refer to, with every reference mapped from the id in the bundle to *)
(* the id the hub gave the copy, then their favorites into the keys that   *)
(* are left.  The app may connect at any point, which refuses the calls    *)
(* that ask first, and may edit the hub; any step may fail, or be done and *)
(* not be answered.                                                        *)
(***************************************************************************)
EXTENDS Bundle

CONSTANTS
  DeviceIds, ActivityIds,  \* ids the hub can give, 1 .. 254 in the code
  Bundles,    \* the bundles tried
  Hubs,       \* ids on the hub before, and ids the proxy has in its state
  MaxEdits    \* bound: additions and deletions by the app

ASSUME RestoreIds ==
  /\ DeviceIds \subseteq Nat \ {0} /\ ActivityIds \subseteq Nat \ {0}
  /\ \A d \in DeviceIds, a \in ActivityIds : d < a
  /\ \A h \in Hubs : h.on \cup h.known \subseteq DeviceIds \cup ActivityIds
  /\ MaxEdits \in Nat

(* A bundle is two lists, and an activity has finitely many rows: they come *)
(* out of a JSON file.                                                      *)
ASSUME BundlesAreLists ==
  \A b \in Bundles :
    /\ Len(b.devices) \in Nat /\ DOMAIN b.devices = 1 .. Len(b.devices)
    /\ Len(b.activities) \in Nat /\ DOMAIN b.activities = 1 .. Len(b.activities)
    /\ \A i \in Activities(b) : IsFiniteSet(DOMAIN b.activities[i].rows)

VARIABLES
  bundle,
  x1,       \* hub_version is X1: the import flow
  hub,      \* entities on the hub: of what they are a copy, and their rows
  known,    \* ids in state.devices and state.activities
  app,      \* an app is connected: not can_issue_commands
  phase, pos, target, new,
  fav, slot, skipped,  \* favorites done, next_slot, skipped_favorites
  idOf,     \* device_id_map and activity_id_map: kind and source id -> id
  copies,   \* restored_devices and restored_activities: entity -> its id
  verdict,
  \* history
  before,   \* ids on the hub when the restore began
  lost,     \* ids the app has deleted
  edits

call   == << phase, pos, target, new, fav, slot, skipped >>
world  == << app, lost, edits >>
fixed  == << bundle, x1, before >>
made   == << idOf, copies >>
vars   == << fixed, hub, known, call, made, verdict, world >>

Ids    == DeviceIds \cup ActivityIds
Other  == << "other", 0 >>

(* On the X1S and X2 the restore looks at the hub and targets an id; on the X1 *)
(* the hub chooses one.                                                        *)
Init ==
  /\ bundle \in Bundles /\ x1 \in BOOLEAN
  /\ \E h \in Hubs : before = h.on /\ known = h.known
  /\ hub = [id \in before |-> [of |-> Other, rows |-> << >>]]
  /\ phase = "idle" /\ pos = 1 /\ target = 0 /\ new = 0
  /\ fav = 0 /\ slot = 0 /\ skipped = 0
  /\ idOf = << >> /\ copies = << >> /\ verdict = "running"
  /\ app \in BOOLEAN /\ lost = {} /\ edits = 0

(***************************************************************************)
(* The hub (external).                                                     *)
(***************************************************************************)
Taken == DOMAIN hub

Create(id, e) == hub' = Put(hub, id, [of |-> e, rows |-> << >>])

(* Deleting an entity takes it out of every activity that refers to it. *)
Without(rows, id) == Restrict(rows, { k \in DOMAIN rows : rows[k] # id })

Deleted(id) == [x \in Taken \ {id} |-> [hub[x] EXCEPT !.rows = Without(@, id)]]

(***************************************************************************)
(* restore_hub_bundle                                                      *)
(***************************************************************************)
(* How a call ends; the bundle ends with it. *)
End(v) == phase' = "done" /\ verdict' = v /\ UNCHANGED << pos, target, new, fav, slot, skipped >>

Go(p) == phase' = p /\ UNCHANGED << pos, fav, slot, skipped, verdict >>

(* A cycle between activities is found before anything is written. *)
Begin ==
  /\ phase = "idle"
  /\ \/ app /\ End("failed")
     \/ ~app /\ Circular(bundle) /\ End("raised")
     \/ ~app /\ ~Circular(bundle) /\ Go("device") /\ UNCHANGED << target, new >>
  /\ UNCHANGED << fixed, hub, known, made, world >>

Device   == bundle.devices[pos]
Place    == RestoreOrder(bundle)[pos]
Activity == bundle.activities[Place]

(* The loop's next turn, after copy new of entity e; source id 0 is not mapped. *)
Restored(e) ==
  /\ copies' = Put(copies, e, new)
  /\ idOf' = IF Source(bundle, e) = 0 THEN idOf ELSE Put(idOf, << e[1], Source(bundle, e) >>, new)
  /\ pos' = pos + 1 /\ fav' = 0 /\ slot' = 0 /\ target' = 0 /\ new' = 0
  /\ known' = known \cup {new}

SkipDevice ==
  /\ phase = "device" /\ pos <= Len(bundle.devices) /\ Device.src = 0
  /\ pos' = pos + 1
  /\ UNCHANGED << fixed, hub, known, phase, target, new, fav, slot, skipped, made, verdict, world >>

DevicesDone ==
  /\ phase = "device" /\ pos > Len(bundle.devices)
  /\ phase' = "activity" /\ pos' = 1
  /\ UNCHANGED << fixed, hub, known, target, new, fav, slot, skipped, made, verdict, world >>

ActivitiesDone ==
  /\ phase = "activity" /\ pos > Len(RestoreOrder(bundle))
  /\ End("success")
  /\ UNCHANGED << fixed, hub, known, made, world >>

(***************************************************************************)
(* restore_device                                                          *)
(***************************************************************************)
(* _refresh_destination_catalog: each of the two lists is read, or not within *)
(* its time; nothing is asked when an app has connected.                      *)
Refreshed ==
  { (IF d THEN Taken \cap DeviceIds ELSE known \cap DeviceIds)
      \cup (IF a THEN Taken \cap ActivityIds ELSE known \cap ActivityIds) : d, a \in BOOLEAN }

(* _allocate_restore_device_id: the id of the backup if free, else the lowest. *)
Allocated(preferred, used) ==
  IF preferred \in DeviceIds \ used THEN preferred ELSE Min(DeviceIds \ used)

BeginDevice ==
  /\ phase = "device" /\ pos <= Len(bundle.devices) /\ Device.src # 0
  /\ \/ /\ app /\ End("failed") /\ UNCHANGED known
     \/ /\ ~app /\ Device.flaw = "class" /\ End("raised") /\ UNCHANGED known
     \/ /\ ~app /\ Device.flaw # "class" /\ x1
        /\ Go("create") /\ UNCHANGED << known, target, new >>
     \/ /\ ~app /\ Device.flaw # "class" /\ ~x1
        /\ known' \in Refreshed
        /\ IF DeviceIds \subseteq known' THEN End("raised")
           ELSE Go("create") /\ target' = Allocated(Device.src, known') /\ UNCHANGED new
  /\ UNCHANGED << fixed, hub, made, world >>

CreatedAgain(ids) ==
  /\ phase = "create"
  /\ \/ UNCHANGED hub /\ End("failed")
     \/ \E id \in ids :
          /\ Create(id, << "device", pos >>)
          /\ \/ Go("create") /\ UNCHANGED << target, new >>
             \/ Go("fill") /\ new' = id /\ UNCHANGED target
  /\ UNCHANGED << fixed, known, made, world >>

(* The create step, which is not repeated, with the ids the hub may give.  The *)
(* commands are built after it, so one that cannot be built raises when the   *)
(* device is there.                                                           *)
Created(ids) ==
  /\ phase = "create"
  /\ \/ UNCHANGED hub /\ End("failed")                       \* refused, or the frame is lost
     \/ \E id \in ids :
          /\ Create(id, << "device", pos >>)
          /\ \/ End("failed")                                \* the ack is lost
             \/ /\ Device.flaw = "command" /\ phase' = "done" /\ verdict' = "raised" /\ new' = id
                /\ UNCHANGED << pos, target, fav, slot, skipped >>
             \/ /\ Device.flaw = "none" /\ Go("fill") /\ new' = id /\ UNCHANGED target
  /\ UNCHANGED << fixed, known, made, world >>

(* On the X1S and X2 the hub gives the target if it is free. *)
CreateDevice ==
  ~x1 /\ Created(IF target \in Taken THEN DeviceIds \ Taken ELSE {target})

ImportDevice == x1 /\ Created(DeviceIds \ Taken)

FilledOrSkipped ==
  /\ phase = "fill"
  /\ \/ Restored(<< "device", pos >>) /\ phase' = "device" /\ UNCHANGED << skipped, verdict >>
     \/ /\ pos' = pos + 1 /\ phase' = "device"
        /\ UNCHANGED << target, new, fav, slot, skipped, verdict, known, made >>
  /\ UNCHANGED << fixed, hub, world >>

(* All of the device's content goes out in one sequence; what fails stops it. *)
Filled ==
  /\ phase = "fill"
  /\ \/ Restored(<< "device", pos >>) /\ phase' = "device" /\ UNCHANGED << skipped, verdict >>
     \/ Go("rollback") /\ UNCHANGED << target, new, known, made >>
  /\ UNCHANGED << fixed, hub, world >>

(* Idle mode, commands, sort, inputs, macros, bindings. *)
FillDevice == ~x1 /\ Filled

(* Commands, bindings, idle mode, macros, inputs, and the device record again. *)
FinishImport == x1 /\ Filled

RollbackTarget ==
  /\ phase = "rollback" /\ End("failed")
  /\ \/ UNCHANGED << hub, known >>
     \/ ~app /\ hub' = Deleted(target) /\ UNCHANGED known
  /\ UNCHANGED << fixed, made, world >>

(* _rollback_restored_device, delete_device: refused when an app has         *)
(* connected; else the delete is refused or lost, done without the call      *)
(* knowing (a confirmation or its catalog is missing), or done.              *)
Rollback ==
  /\ phase = "rollback" /\ End("failed")
  /\ \/ UNCHANGED << hub, known >>
     \/ /\ ~app /\ hub' = Deleted(new)
        /\ \/ UNCHANGED known
           \/ known' = known \ {new}
  /\ UNCHANGED << fixed, made, world >>

(***************************************************************************)
(* restore_activity                                                        *)
(***************************************************************************)
KeyOf(s) == << IF s < Min(ActivityIds) THEN "device" ELSE "activity", s >>

MappedByDevice(s) ==
  CASE s = 0 -> 0
    [] OTHER -> IF << "device", s >> \in DOMAIN idOf THEN idOf[<< "device", s >>] ELSE s

(* _map_device_id: the own id is the new one, the others by their range; 0 *)
(* stands for None.                                                        *)
Mapped(s) ==
  CASE s = 0 -> 0
    [] s = Activity.src /\ s # 0 -> new
    [] OTHER -> IF KeyOf(s) \in DOMAIN idOf THEN idOf[KeyOf(s)] ELSE 0

(* An exception is caught here, so what is not mapped ends like a failure. *)
BeginActivity ==
  /\ phase = "activity" /\ pos <= Len(RestoreOrder(bundle))
  /\ IF app \/ \E s \in Refers(Activity) : KeyOf(s) \notin DOMAIN idOf
     THEN End("failed")
     ELSE Go("make") /\ UNCHANGED << target, new >>
  /\ UNCHANGED << fixed, hub, known, made, world >>

CreateActivity ==
  /\ phase = "make"
  /\ \/ UNCHANGED hub /\ End("failed")
     \/ \E id \in ActivityIds \ Taken :
          /\ Create(id, << "activity", Place >>)
          /\ \/ End("failed")
             \/ Go("wire") /\ new' = id /\ UNCHANGED target
  /\ UNCHANGED << fixed, known, made, world >>

WriteAll(ks) ==
  hub' = IF new \in Taken
         THEN [hub EXCEPT ![new].rows = Over([k \in ks |-> Mapped(Activity.rows[k])], @)]
         ELSE hub

(* What the rows say on the hub, those of keys ks; a binding to nothing is   *)
(* left out.                                                                 *)
Write(ks) ==
  hub' = IF new \in Taken
         THEN [hub EXCEPT ![new].rows =
                 Over([k \in { j \in ks : Mapped(Activity.rows[j]) # 0 } |-> Mapped(Activity.rows[k])], @)]
         ELSE hub

(* Bindings, macros and the remote sync in one sequence.  A failure is not *)
(* rolled back.                                                            *)
WireActivity ==
  /\ phase = "wire"
  /\ \/ Write(DOMAIN Activity.rows) /\ Go("favorites") /\ UNCHANGED << target, new >>
     \/ \E ks \in SUBSET DOMAIN Activity.rows : Write(ks) /\ End("failed")
  /\ UNCHANGED << fixed, known, made, world >>

NextSlot == slot + 1

(* _next_free_slot: the keys of the activity's own rows are left out. *)
NextFreeSlot == Min({ k \in (slot + 1) .. (slot + 1 + Cardinality(DOMAIN Activity.rows)) :
                        k \notin DOMAIN Activity.rows })

(* command_to_favorite: refused when an app has connected; else written, or *)
(* failed with the row there or not.                                        *)
NextFavorite ==
  /\ phase = "favorites" /\ fav < Len(Activity.favs)
  /\ fav' = fav + 1 /\ slot' = NextFreeSlot
  /\ LET d    == Mapped(Activity.favs[fav + 1])
         row  == hub' = IF new \in Taken THEN [hub EXCEPT ![new].rows = Put(@, NextFreeSlot, d)] ELSE hub
         skip == skipped' = skipped + 1
     IN \/ UNCHANGED hub /\ skip
        \/ ~app /\ d # 0 /\ row /\ (skip \/ UNCHANGED skipped)
  /\ UNCHANGED << fixed, known, phase, pos, target, new, made, verdict, world >>

FavoritesDone ==
  /\ phase = "favorites" /\ fav = Len(Activity.favs)
  /\ Restored(<< "activity", Place >>) /\ phase' = "activity"
  /\ UNCHANGED << fixed, hub, skipped, verdict, world >>

(***************************************************************************)
(* The app                                                                 *)
(***************************************************************************)
AppComesOrGoes ==
  /\ phase # "done" /\ app' = ~app
  /\ UNCHANGED << fixed, hub, known, call, made, verdict, lost, edits >>

AppAdds(id) ==
  /\ phase # "done" /\ app /\ edits < MaxEdits /\ id \notin Taken
  /\ Create(id, Other) /\ edits' = edits + 1
  /\ UNCHANGED << fixed, known, call, made, verdict, app, lost >>

AppDeletes(id) ==
  /\ phase # "done" /\ app /\ edits < MaxEdits /\ id \in Taken
  /\ hub' = Deleted(id) /\ lost' = lost \cup {id} /\ edits' = edits + 1
  /\ UNCHANGED << fixed, known, call, made, verdict, app >>

App == AppComesOrGoes \/ \E id \in Ids : AppAdds(id) \/ AppDeletes(id)

Next ==
  \/ Begin \/ SkipDevice \/ BeginDevice \/ DevicesDone
  \/ CreateDevice \/ ImportDevice \/ FillDevice \/ FinishImport \/ Rollback
  \/ BeginActivity \/ CreateActivity \/ WireActivity \/ NextFavorite \/ FavoritesDone
  \/ ActivitiesDone
  \/ App

Spec == Init /\ [][Next]_vars

(***************************************************************************)
(* Properties                                                              *)
(***************************************************************************)
TypeOK ==
  /\ bundle \in Bundles /\ x1 \in BOOLEAN /\ before \subseteq Ids
  /\ Taken \subseteq Ids /\ known \subseteq Ids /\ app \in BOOLEAN
  /\ \A id \in Taken : hub[id].of \in Entities(bundle) \cup {Other} /\ Range(hub[id].rows) \subseteq Ids
  /\ phase \in {"idle", "device", "create", "fill", "rollback",
                "activity", "make", "wire", "favorites", "done"}
  /\ pos \in Nat /\ target \in DeviceIds \cup {0} /\ new \in Ids \cup {0}
  /\ fav \in Nat /\ slot \in Nat /\ skipped \in Nat
  /\ DOMAIN copies \subseteq Entities(bundle) /\ Range(copies) \subseteq Ids
  /\ Range(idOf) \subseteq Ids
  /\ verdict \in {"running", "success", "failed", "raised"}
  /\ lost \subseteq Ids /\ edits \in 0 .. MaxEdits

(* The copies on the hub, reported or not. *)
Made == { id \in Taken : hub[id].of # Other }

(* Which source id key k of activity a stands for: that of its row, or of the *)
(* favorite whose turn the key is.                                            *)
Meant(a, k) ==
  IF k \in DOMAIN a.rows THEN a.rows[k]
  ELSE a.favs[Cardinality({ j \in 1 .. k : j \notin DOMAIN a.rows })]

(* Every reference of a copied activity on the hub names the copy of the     *)
(* entity that the original named, whatever ids the hub gave, whoever else   *)
(* uses the hub, and however the restore ends; unless the app has deleted    *)
(* that copy (its id may by then be another entity's).  About the id maps of *)
(* restore_hub_bundle and _run_activity_create.                              *)
ReferencesKept ==
  \A id \in Made : hub[id].of[1] = "activity" =>
    LET a == bundle.activities[hub[id].of[2]] IN
    \A k \in DOMAIN hub[id].rows :
      LET d == hub[id].rows[k] IN
      d \in lost \/ (d \in Made /\ Source(bundle, hub[d].of) = Meant(a, k))

(* There is at most one copy that the result does not list, that of the      *)
(* entity under way or at which the restore ended; none after a success.     *)
(* About the create before the fill, the rollback, and the lists.            *)
OneStrayAtMost ==
  LET stray == Made \ Range(copies) IN
  /\ Cardinality(stray) <= 1
  /\ verdict = "success" => stray = {}

(* After a success the whole bundle is on the hub: each entity once, each    *)
(* activity with all rows that name something, and as many favorites as were *)
(* not counted as skipped; unless the app deleted something meanwhile.       *)
SuccessIsWhole ==
  verdict = "success" /\ lost = {} =>
    /\ DOMAIN copies = Entities(bundle)
    /\ \A e \in Entities(bundle) : hub[copies[e]].of = e
    /\ \A i \in Activities(bundle) :
         { k \in DOMAIN bundle.activities[i].rows : bundle.activities[i].rows[k] # 0 }
           \subseteq DOMAIN hub[copies[<< "activity", i >>]].rows
    /\ skipped = 0 => \A i \in Activities(bundle) :
         Cardinality(DOMAIN hub[copies[<< "activity", i >>]].rows)
           = Cardinality({ k \in DOMAIN bundle.activities[i].rows : bundle.activities[i].rows[k] # 0 })
               + Len(bundle.activities[i].favs)

(* The restore never changes or deletes what was on the hub before, nor what *)
(* the app adds, also when it picks an id from an old list or rolls back;    *)
(* unless the app has deleted the copy that the rollback is about.           *)
OthersUntouched ==
  [][ \A id \in Taken :
        hub[id].of = Other /\ edits' = edits /\ id \notin lost =>
          id \in DOMAIN hub' /\ hub'[id] = hub[id] ]_vars

(* A restore is a series of copies as BundleCopy describes it: one at a time, *)
(* in order, to ids of their own, and with an honest verdict.                 *)
Promise == INSTANCE BundleCopy WITH taken <- before, freed <- lost
CopiesBundle == Promise!Spec

(* "On mid-bundle failure ... previously restored devices stay on the hub ... *)
(* The caller surfaces the partial state to the user": a restore that has     *)
(* copied something ends with a result that lists it.                         *)
FailureIsTold == verdict = "raised" => copies = << >>
=============================================================================
