---------------------------- MODULE MCRpcClient ----------------------------
(* Instances of RpcClient for TLC.                                          *)
EXTENDS RpcClient

CONSTANTS c1, p1, p2

CallKinds == {"answer", "note", "bad"}
RpcKinds == {"answer", "approval", "resolved", "clock", "bad"}
OneCall == {c1}
TwoUsers == {p1, p2}
=============================================================================
