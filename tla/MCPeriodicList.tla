--------------------------- MODULE MCPeriodicList ---------------------------
(***************************************************************************)
(* Model-checking instance of PeriodicList: queue heads are alike.         *)
(***************************************************************************)
EXTENDS PeriodicList, TLC

QhSymmetry == Permutations(Qh)
=============================================================================
