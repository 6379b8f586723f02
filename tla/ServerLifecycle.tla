---------------------------- MODULE ServerLifecycle ----------------------------
(***************************************************************************)
(* What the manager of the codex process promises to those who look at its *)
(* State (internal/appserver/manager.go, type State): a server goes round  *)
(* stopped, starting, running, stopping, stopped.  A start may fail and a  *)
(* running server may crash; nothing else skips a phase, and the two       *)
(* phases in which nobody can use the manager come to an end.              *)
(***************************************************************************)
VARIABLE mode

Modes == {"stopped", "starting", "running", "stopping"}

Init == mode = "stopped"

Start   == mode = "stopped"  /\ mode' = "starting"
Up      == mode = "starting" /\ mode' = "running"
Fail    == mode = "starting" /\ mode' = "stopped"
Stop    == mode = "running"  /\ mode' = "stopping"
Crash   == mode = "running"  /\ mode' = "stopped"
Stopped == mode = "stopping" /\ mode' = "stopped"

Next == Start \/ Up \/ Fail \/ Stop \/ Crash \/ Stopped

Safety == Init /\ [][Next]_mode
Spec == Safety /\ WF_mode(Up \/ Fail) /\ WF_mode(Stopped)

=============================================================================
