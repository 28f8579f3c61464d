---------------------------- MODULE MCAppSession ----------------------------
(* AppSession for TLC: threads of one kind are interchangeable. *)
EXTENDS AppSession, TLC

Symmetry == Permutations(Calls) \cup Permutations(Admins)
=============================================================================
