----------------------------- MODULE MCKeepAwake -----------------------------
(* Instances of KeepAwake for TLC.                                          *)
EXTENDS KeepAwake

CONSTANTS o1, o2

OneOp == {o1}
TwoOps == {o1, o2}
DesktopKinds == {"Start", "Stop", "ReleaseThread"}
StartKinds == {"Start"}
=============================================================================
