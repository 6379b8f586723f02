----------------------------- MODULE MCDaemon -----------------------------
(* Instances of Daemon for TLC.                                             *)
EXTENDS Daemon

CONSTANTS r1, r2, s1, s2

OneRestarter == {r1}
TwoRestarters == {r1, r2}
OneStopper == {s1}
TwoStoppers == {s1, s2}
=============================================================================
