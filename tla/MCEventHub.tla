------------------------------ MODULE MCEventHub ------------------------------
(* Instances of EventHub for TLC.                                           *)
EXTENDS EventHub

CONSTANTS s1, s2

TwoSessions == {s1, s2}
=============================================================================
