----------------------------- MODULE BundleCopy -----------------------------
(***************************************************************************)
(* What a bundle restore promises, without how it is done: the entities of *)
(* the bundle are copied to the hub one after the other, devices first,    *)
(* each to an id that nothing else has, an activity only once everything   *)
(* it refers to has a copy; the verdict is "success" just when all of them *)
(* are copied.  Restore implements this specification.                     *)
(***************************************************************************)
EXTENDS Bundle

CONSTANTS
  Bundles,  \* the bundles tried
  Ids       \* entity ids of the hub

VARIABLES
  bundle,   \* the bundle that is restored
  copies,   \* entity of the bundle -> id of its copy
  taken,    \* ids in use when the restore began
  freed,    \* ids whose entity somebody else has deleted since
  verdict

vars == << bundle, copies, taken, freed, verdict >>

(* What must be there before entity e. *)
Before(b, e) ==
  IF e[1] = "device" THEN { "device" } \X { i \in Devices(b) : i < e[2] }
                     ELSE { "device" } \X Devices(b)

Init ==
  /\ bundle \in Bundles /\ copies = << >> /\ freed = {}
  /\ taken \in SUBSET Ids /\ verdict = "running"

Copy(e, id) ==
  /\ verdict = "running"
  /\ e \in Entities(bundle) \ DOMAIN copies /\ Before(bundle, e) \subseteq DOMAIN copies
  /\ Needs(bundle, e) \subseteq { Source(bundle, f) : f \in DOMAIN copies }
  /\ id \in Ids /\ (id \in taken \cup Range(copies) => id \in freed)
  /\ copies' = [f \in DOMAIN copies \cup {e} |-> IF f = e THEN id ELSE copies[f]]
  /\ UNCHANGED << bundle, taken, freed, verdict >>

Finish ==
  /\ verdict = "running" /\ verdict' \in {"success", "failed", "raised"}
  /\ verdict' = "success" => DOMAIN copies = Entities(bundle)
  /\ UNCHANGED << bundle, copies, taken, freed >>

(* Somebody else deletes an entity. *)
Delete ==
  /\ freed' \in SUBSET Ids /\ freed \subseteq freed'
  /\ UNCHANGED << bundle, copies, taken, verdict >>

Next == (\E e \in Entities(bundle), id \in Ids : Copy(e, id)) \/ Finish \/ Delete

Spec == Init /\ [][Next]_vars
=============================================================================
