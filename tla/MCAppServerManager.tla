------------------------- MODULE MCAppServerManager -------------------------
(* Instances of AppServerManager for TLC.                                   *)
EXTENDS AppServerManager, TLC

CONSTANTS o1, o2

TwoOps == {o1, o2}
AllKinds == OpKinds
OpSymmetry == Permutations(TwoOps)
=============================================================================
