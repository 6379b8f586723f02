----------------------------- MODULE MCTunnel -----------------------------
(* Instances of Tunnel for TLC.                                             *)
EXTENDS Tunnel

CONSTANTS o1, o2, out, err

OneOp == {o1}
TwoOps == {o1, o2}
OneStream == {err}
TwoStreams == {out, err}
RestartKinds == {"Toggle", "Restart"}
StartKinds == {"Start"}
=============================================================================
