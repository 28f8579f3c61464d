------------------------------- MODULE Bundle -------------------------------
(***************************************************************************)
(* The hub bundle of a backup (lib/proxy_restore.py), as a restore reads   *)
(* it.  A bundle is a record of two sequences: devices, with their source  *)
(* id (0 when it is missing) and what is wrong with them; activities, with *)
(* their source id, their rows (key -> source id of the entity the macro   *)
(* step or binding names) and the source ids of their favorites.           *)
(* Commands keep their ids (command_id_map is the identity), so a row is   *)
(* its key and the entity it names.                                        *)
(***************************************************************************)
EXTENDS Integers, Sequences, SequencesExt, FiniteSetsExt, Functions

(* Python's {**g, **f}, and g[x] = v. *)
Over(f, g)   == [x \in DOMAIN f \cup DOMAIN g |-> IF x \in DOMAIN f THEN f[x] ELSE g[x]]
Put(g, x, v) == Over([y \in {x} |-> v], g)

(* An entity of the bundle is its kind and its place; a device without a   *)
(* source id is skipped.                                                   *)
Devices(b)    == { i \in DOMAIN b.devices : b.devices[i].src # 0 }
Activities(b) == DOMAIN b.activities
Entities(b)   == ({"device"} \X Devices(b)) \cup ({"activity"} \X Activities(b))

Source(b, e) == IF e[1] = "device" THEN b.devices[e[2]].src ELSE b.activities[e[2]].src

(* _collect_referenced_entity_ids: the targets of rows and favorites, but  *)
(* not the activity's own id and not 0.                                    *)
Refers(a) == (Range(a.rows) \cup Range(a.favs)) \ {0, a.src}

Needs(b, e) == IF e[1] = "device" THEN {} ELSE Refers(b.activities[e[2]])

(* index_by_id: of activities with the same id the last counts. *)
IndexOf(b, src) == Max({ i \in Activities(b) : b.activities[i].src = src })

(* The places of the activities in the bundle that activity i refers to. *)
DependsOn(b, i) ==
  { IndexOf(b, s) : s \in { r \in Refers(b.activities[i]) :
                              \E j \in Activities(b) : b.activities[j].src = r } }

(* Activity i is placed unless it is already, or waits for one that is not. *)
PlaceOne(b, order, i) ==
  IF i \notin Range(order) /\ DependsOn(b, i) \subseteq Range(order)
  THEN Append(order, i) ELSE order

(* One pass of the sort over all activities. *)
SortPass(b, order) ==
  LET upTo[i \in 0 .. Len(b.activities)] ==
        IF i = 0 THEN order ELSE PlaceOne(b, upTo[i - 1], i)
  IN upTo[Len(b.activities)]

(* _sort_bundle_activities_for_restore: as many passes as there are          *)
(* activities are enough; what is then not placed is on or behind a cycle.   *)
RestoreOrder(b) ==
  LET passes[n \in 0 .. Len(b.activities)] ==
        IF n = 0 THEN << >> ELSE SortPass(b, passes[n - 1])
  IN passes[Len(b.activities)]

Circular(b) == Len(RestoreOrder(b)) < Len(b.activities)
=============================================================================
