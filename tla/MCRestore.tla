----------------------------- MODULE MCRestore -----------------------------
(* The bundles that MCRestore.cfg restores, and the hubs it restores them to. *)
EXTENDS Restore

Dev(s)        == [src |-> s, flaw |-> "none"]
Bad(s, f)     == [src |-> s, flaw |-> f]
Act(s, r, fs) == [src |-> s, rows |-> r, favs |-> fs]

MCBundles == {
  \* two devices, a macro and a binding, favorites around the macro's key
  [devices |-> << Dev(2), Dev(1) >>,
   activities |-> << Act(11, (2 :> 2) @@ (3 :> 11), << 1, 2 >>) >>],
  \* the first activity refers to the second; a binding to nothing
  [devices |-> << Dev(1) >>,
   activities |-> << Act(11, (1 :> 12) @@ (2 :> 0), << 1 >>), Act(12, 1 :> 1, << 0 >>) >>],
  \* a cycle
  [devices |-> << Dev(1) >>,
   activities |-> << Act(11, 1 :> 12, << >>), Act(12, 1 :> 11, << >>) >>],
  \* a device without id, one that cannot be built, a reference to neither
  [devices |-> << Dev(0), Dev(3), Bad(1, "command") >>, activities |-> << >>],
  [devices |-> << Dev(2), Bad(1, "class") >>, activities |-> << >>],
  [devices |-> << Dev(2) >>, activities |-> << Act(12, 1 :> 1, << >>) >>] }

(* A hub the proxy has not read, one it has read before a change, *)
(* and one with a single device id left.                                      *)
MCHubs == { [on |-> {1, 11}, known |-> {}],
            [on |-> {2}, known |-> {1, 3}], [on |-> {1, 2, 3}, known |-> {1, 2, 3}] }
=============================================================================
