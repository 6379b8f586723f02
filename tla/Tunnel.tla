--------------------------------- MODULE Tunnel ---------------------------------
(***************************************************************************)
(* The supervisor of the cloudflared process (internal/tunnel/manager.go). *)
(* Start, Stop and Toggle hold operationMu from beginning to end; beside   *)
(* them run, for each process, one findURL per output stream, the          *)
(* goroutine in command.Wait, and, once the tunnel is up, monitor.         *)
(* A restart is the daemon's RestartTunnel: a Stop, then a Start.          *)
(*                                                                         *)
(* The i-th process started is the number i, and so is the address it      *)
(* publishes; 0 is nil and the empty address.  An output stream is a pipe  *)
(* that holds a bounded number of lines: the process waits when it is full.*)
(***************************************************************************)
EXTENDS Naturals, Sequences

CONSTANTS
    Ops,        \* the goroutines that call the manager's operations
    Kinds,      \* the operations they call in an instance
    Streams,    \* cloudflared's output streams
    PipeCap,    \* how much a pipe holds, in lines
    MaxStarts   \* bound: processes started

None == "none"
OpKinds == {"Start", "Stop", "Toggle", "Restart"}

ASSUME KindsAssumption == Kinds \subseteq OpKinds
ASSUME BoundsAssumption == MaxStarts \in Nat /\ PipeCap \in Nat \ {0}
ASSUME NoneAssumption == None \notin Ops

VARIABLES
    operationMu,            \* the operation that holds it, or None
    opPc, opKind, opProc, opErr, \* an operation's control, kind, process, error
    command, state, url,    \* m.command (with m.cancel), m.state, m.state.URL
    started, alive, told, reaped, \* processes: started, living, cancelled, waited for
    pipe, reader, urlFound, \* per process: its pipes, findURL, the channel's URL
    monitor                 \* per process: its monitor goroutine

opVars == <<operationMu, opPc, opKind, opProc, opErr>>
stateVars == <<command, state, url>>
procVars == <<started, alive, told, reaped>>
pipeVars == <<pipe, reader, urlFound>>
vars == <<opVars, stateVars, procVars, pipeVars, monitor>>

Procs == 1..MaxStarts
Phases == {"stopped", "starting", "running", "stopping"}
OpPcs == {"idle", "lock", "guard", "spawn", "select", "abort",
          "halt", "cancel", "kill", "clear", "unlock"}

TypeOK ==
    /\ operationMu \in Ops \cup {None}
    /\ opPc \in [Ops -> OpPcs] /\ opKind \in [Ops -> OpKinds]
    /\ opProc \in [Ops -> 0..started] /\ opErr \in [Ops -> BOOLEAN]
    /\ command \in 0..started /\ state \in Phases /\ url \in 0..started
    /\ started \in 0..MaxStarts
    /\ alive \subseteq 1..started /\ told \subseteq 1..started
    /\ reaped \subseteq 1..started \ alive
    /\ pipe \in [Procs -> [Streams -> Seq({"log", "url"})]]
    /\ \A i \in Procs, s \in Streams : Len(pipe[i][s]) <= PipeCap
    /\ reader \in [Procs -> [Streams -> {"scanning", "returned"}]]
    /\ urlFound \subseteq 1..started
    /\ monitor \in [Procs -> {"none", "waiting", "exited"}]

Init ==
    /\ operationMu = None
    /\ opPc = [o \in Ops |-> "idle"] /\ opKind = [o \in Ops |-> "Stop"]
    /\ opProc = [o \in Ops |-> 0] /\ opErr = [o \in Ops |-> FALSE]
    /\ command = 0 /\ state = "stopped" /\ url = 0
    /\ started = 0 /\ alive = {} /\ told = {} /\ reaped = {}
    /\ pipe = [i \in Procs |-> [s \in Streams |-> <<>>]]
    /\ reader = [i \in Procs |-> [s \in Streams |-> "scanning"]]
    /\ urlFound = {}
    /\ monitor = [i \in Procs |-> "none"]

At(o, pc) == opPc[o] = pc
GoTo(o, pc) == opPc' = [opPc EXCEPT ![o] = pc]
Fails(o) == opErr' = [opErr EXCEPT ![o] = TRUE]

-----------------------------------------------------------------------------
(* Plausible bugs: each stands in for the operator named in its comment when a *)
(* property's sensitivity is checked, and is used nowhere else.                *)

\* StartGuard without line 57.
StartUnguarded(o) ==
    /\ At(o, "guard")
    /\ state' = "starting" /\ url' = 0
    /\ GoTo(o, "spawn")
    /\ UNCHANGED <<operationMu, opKind, opProc, opErr, command, procVars, pipeVars, monitor>>

\* Abort without cancel().
AbortLeavesProcess(o) ==
    /\ At(o, "abort")
    /\ state' = "stopped" /\ url' = 0 /\ Fails(o)
    /\ GoTo(o, "unlock")
    /\ UNCHANGED <<operationMu, opKind, opProc, command, procVars, pipeVars, monitor>>

\* Publish that does not start monitor.
PublishUnmonitored(o) ==
    /\ At(o, "select") /\ opProc[o] \in urlFound
    /\ command' = opProc[o] /\ url' = opProc[o] /\ state' = "running"
    /\ GoTo(o, "unlock")
    /\ UNCHANGED <<operationMu, opKind, opProc, opErr, procVars, pipeVars, monitor>>

\* Unlock missing on the way out of an operation.
UnlockForgotten(o) ==
    /\ At(o, "unlock")
    /\ GoTo(o, "idle")
    /\ UNCHANGED <<operationMu, opKind, opProc, opErr, stateVars, procVars, pipeVars, monitor>>

-----------------------------------------------------------------------------
(* Entering and leaving an operation *)

Begin(o, kind) ==
    /\ At(o, "idle")
    /\ opKind' = [opKind EXCEPT ![o] = kind]
    /\ GoTo(o, "lock")
    /\ UNCHANGED <<operationMu, opProc, opErr, stateVars, procVars, pipeVars, monitor>>

\* Toggle gives up when cloudflared is not installed.
Enter(o) ==
    /\ At(o, "lock") /\ operationMu = None
    /\ operationMu' = o
    /\ \/ opKind[o] = "Start" /\ GoTo(o, "guard")
       \/ opKind[o] \in {"Stop", "Restart"} /\ GoTo(o, "halt")
       \/ opKind[o] = "Toggle" /\ state = "running" /\ GoTo(o, "halt")
       \/ opKind[o] = "Toggle" /\ state # "running" /\ (GoTo(o, "guard") \/ GoTo(o, "unlock"))
    /\ UNCHANGED <<opKind, opProc, opErr, stateVars, procVars, pipeVars, monitor>>

\* The return. RestartTunnel goes on to Start unless Stop has returned an error.
Unlock(o) ==
    /\ At(o, "unlock")
    /\ operationMu' = None
    /\ opProc' = [opProc EXCEPT ![o] = 0]
    /\ IF opKind[o] = "Restart" /\ ~opErr[o]
       THEN opKind' = [opKind EXCEPT ![o] = "Start"] /\ GoTo(o, "lock")
       ELSE opKind' = [opKind EXCEPT ![o] = "Stop"] /\ GoTo(o, "idle")
    /\ opErr' = [opErr EXCEPT ![o] = FALSE]
    /\ UNCHANGED <<stateVars, procVars, pipeVars, monitor>>

-----------------------------------------------------------------------------
(* startLocked *)

StartFrame == UNCHANGED <<operationMu, opKind, pipeVars>>

\* Lines 57-63: nothing to do; no origin to publish; or State{Starting}.
StartGuard(o) ==
    /\ At(o, "guard")
    /\ \/ state # "stopped" /\ GoTo(o, "unlock") /\ UNCHANGED <<state, url, opErr>>
       \/ state = "stopped" /\ url' = 0 /\ UNCHANGED state /\ Fails(o) /\ GoTo(o, "unlock")
       \/ state = "stopped" /\ url' = 0 /\ state' = "starting" /\ GoTo(o, "spawn") /\ UNCHANGED opErr
    /\ UNCHANGED <<opProc, command, procVars, monitor>> /\ StartFrame

\* command.Start, the two findURL goroutines and the one in command.Wait.
Spawn(o) ==
    /\ At(o, "spawn") /\ started < MaxStarts
    /\ started' = started + 1
    /\ alive' = alive \cup {started + 1}
    /\ opProc' = [opProc EXCEPT ![o] = started + 1]
    /\ GoTo(o, "select")
    /\ UNCHANGED <<opErr, stateVars, told, reaped, monitor>> /\ StartFrame

SpawnFails(o) ==
    /\ At(o, "spawn")
    /\ state' = "stopped" /\ Fails(o)
    /\ GoTo(o, "unlock")
    /\ UNCHANGED <<opProc, command, url, procVars, monitor>> /\ StartFrame

\* The select: an address, lines 91-97.
Publish(o) ==
    /\ At(o, "select") /\ opProc[o] \in urlFound
    /\ command' = opProc[o] /\ url' = opProc[o] /\ state' = "running"
    /\ monitor' = [monitor EXCEPT ![opProc[o]] = "waiting"]
    /\ GoTo(o, "unlock")
    /\ UNCHANGED <<opProc, opErr, procVars>> /\ StartFrame

\* The select: the process has ended, or twenty seconds or the caller's context.
GiveUp(o) ==
    /\ At(o, "select")
    /\ GoTo(o, "abort")
    /\ UNCHANGED <<opProc, opErr, stateVars, procVars, monitor>> /\ StartFrame

\* cancel and fail.
Abort(o) ==
    /\ At(o, "abort")
    /\ told' = told \cup {opProc[o]}
    /\ state' = "stopped" /\ url' = 0 /\ Fails(o)
    /\ GoTo(o, "unlock")
    /\ UNCHANGED <<opProc, command, started, alive, reaped, monitor>> /\ StartFrame

StartStep(o) ==
    StartGuard(o) \/ Spawn(o) \/ SpawnFails(o) \/ Publish(o) \/ GiveUp(o) \/ Abort(o)

-----------------------------------------------------------------------------
(* stopLocked *)

StopFrame == UNCHANGED <<operationMu, opKind, pipeVars, monitor>>

Halt(o) ==
    /\ At(o, "halt")
    /\ opProc' = [opProc EXCEPT ![o] = command]
    /\ command' = 0 /\ url' = 0
    /\ state' = IF command # 0 THEN "stopping" ELSE "stopped"
    /\ GoTo(o, IF command # 0 THEN "cancel" ELSE "clear")
    /\ UNCHANGED <<opErr, procVars>> /\ StopFrame

\* cancel(): os/exec kills the process.
CancelProcess(o) ==
    /\ At(o, "cancel")
    /\ told' = told \cup {opProc[o]}
    /\ GoTo(o, "kill")
    /\ UNCHANGED <<opProc, opErr, stateVars, started, alive, reaped>> /\ StopFrame

\* Process.Kill: an error (os.ErrProcessDone) once Wait has returned.
Kill(o) ==
    /\ At(o, "kill")
    /\ IF opProc[o] \in reaped THEN Fails(o) ELSE UNCHANGED opErr
    /\ GoTo(o, "clear")
    /\ UNCHANGED <<opProc, stateVars, procVars>> /\ StopFrame

ClearState(o) ==
    /\ At(o, "clear")
    /\ state' = "stopped" /\ url' = 0
    /\ GoTo(o, "unlock")
    /\ UNCHANGED <<opProc, opErr, command, procVars>> /\ StopFrame

StopStep(o) == Halt(o) \/ CancelProcess(o) \/ Kill(o) \/ ClearState(o)

-----------------------------------------------------------------------------
(* cloudflared, its pipes, findURL and monitor *)

\* The process writes a line, and waits as long as the pipe is full.
WriteLine(i, s, line) ==
    /\ i \in alive /\ Len(pipe[i][s]) < PipeCap
    /\ pipe' = [pipe EXCEPT ![i][s] = Append(@, line)]
    /\ UNCHANGED <<opVars, stateVars, procVars, reader, urlFound, monitor>>

Die(i) ==
    /\ i \in alive
    /\ alive' = alive \ {i}
    /\ UNCHANGED <<opVars, stateVars, started, told, reaped, pipeVars, monitor>>

\* command.Wait returns.
Reap(i) ==
    /\ i \in 1..started /\ i \notin alive \cup reaped
    /\ reaped' = reaped \cup {i}
    /\ UNCHANGED <<opVars, stateVars, started, alive, told, pipeVars, monitor>>

\* One turn of findURL's loop: it returns with the first address it finds.
FindURL(i, s) ==
    /\ reader[i][s] = "scanning" /\ pipe[i][s] # <<>>
    /\ pipe' = [pipe EXCEPT ![i][s] = Tail(@)]
    /\ IF Head(pipe[i][s]) = "url"
       THEN urlFound' = urlFound \cup {i} /\ reader' = [reader EXCEPT ![i][s] = "returned"]
       ELSE UNCHANGED <<urlFound, reader>>
    /\ UNCHANGED <<opVars, stateVars, procVars, monitor>>

\* The end of the output: Wait closes the pipes, read to the end or not.
FindURLReturns(i, s) ==
    /\ reader[i][s] = "scanning" /\ i \in 1..started \ alive
    /\ pipe[i][s] = <<>> \/ i \in reaped
    /\ reader' = [reader EXCEPT ![i][s] = "returned"]
    /\ pipe' = [pipe EXCEPT ![i][s] = <<>>]
    /\ UNCHANGED <<opVars, stateVars, procVars, urlFound, monitor>>

\* monitor: the address stays in m.state.
MonitorEnds(i) ==
    /\ monitor[i] = "waiting" /\ i \in reaped
    /\ monitor' = [monitor EXCEPT ![i] = "exited"]
    /\ IF command = i
       THEN command' = 0 /\ state' = "stopped"
       ELSE UNCHANGED <<command, state>>
    /\ UNCHANGED <<opVars, url, procVars, pipeVars>>

-----------------------------------------------------------------------------
OpStep(o) == StartStep(o) \/ StopStep(o) \/ Unlock(o)

Next ==
    \/ \E o \in Ops, kind \in Kinds : Begin(o, kind)
    \/ \E o \in Ops : Enter(o) \/ OpStep(o)
    \/ \E i \in Procs, s \in Streams, line \in {"log", "url"} : WriteLine(i, s, line)
    \/ \E i \in Procs : Die(i) \/ Reap(i) \/ MonitorEnds(i)
    \/ \E i \in Procs, s \in Streams : FindURL(i, s) \/ FindURLReturns(i, s)

\* Goroutines that can move do; sync.Mutex starves nobody; a cancelled process
\* is killed; the twenty seconds pass. Nothing is assumed of what is written.
Fairness ==
    /\ \A o \in Ops : SF_vars(Enter(o)) /\ WF_vars(OpStep(o))
    /\ \A i \in Procs :
          WF_vars(Die(i) /\ i \in told) /\ WF_vars(Reap(i)) /\ WF_vars(MonitorEnds(i))
    /\ \A i \in Procs, s \in Streams : WF_vars(FindURL(i, s) \/ FindURLReturns(i, s))

Spec == Init /\ [][Next]_vars
FairSpec == Spec /\ Fairness

-----------------------------------------------------------------------------
(* Properties *)

\* m.command and m.state tell one story at every instant, the address shown for
\* a running tunnel is that of the process in use, and that process has its
\* monitor goroutine before it. A start, a stop, a crash and the monitor of an
\* earlier process may all meet.
StateMatchesCommand ==
    /\ state = "running" <=> command # 0
    /\ state \in {"starting", "stopping"} => operationMu # None
    /\ command # 0 => url = command /\ monitor[command] = "waiting"

\* No cloudflared is lost: one that has not been cancelled is in use, or in the
\* hands of an operation that will use or cancel it. So at most one publishes
\* the control API at a time, and none after a Stop.
NoOrphanTunnel ==
    \A i \in alive \ told :
        command = i \/ \E o \in Ops : opProc[o] = i /\ opPc[o] \in {"select", "abort", "cancel"}

\* A tunnel whose process lives is only taken down by an operation that stops it.
LiveTunnelKept ==
    [][command # 0 /\ command' # command =>
          \/ command' = 0 /\ command \in reaped
          \/ \E o \in Ops : operationMu = o /\ opPc[o] = "halt"]_vars

\* The manager never hangs on cloudflared.  The end of the process in use is
\* noticed; and every operation ends, a start that never sees an address included.
TunnelResponds ==
    /\ \A i \in Procs : (command = i /\ i \notin alive) ~> command # i
    /\ \A o \in Ops : opPc[o] = "lock" ~> opPc[o] = "idle"

\* Every findURL goroutine ends with its process, address or not.
ReadersEnd ==
    \A i \in Procs, s \in Streams : i \in told ~> reader[i][s] = "returned"

\* The tunnel goes round the same life cycle as the codex process.
Lifecycle == INSTANCE ServerLifecycle WITH mode <- state

ImplementsLifecycle == Lifecycle!Spec

\* README.md:131 and cmd/codeoff-cli/main.go:393, "Restart a service": a restart
\* is not given up between the Stop and the Start.
RestartNotGivenUp ==
    \A o \in Ops : opPc[o] = "unlock" /\ opKind[o] = "Restart" => ~opErr[o]

\* README.md:62, "Cloudflare Tunnel publishes the control API origin": while the
\* tunnel is shown as running, its process is not stuck in a write that nobody
\* will ever make room for.
TunnelNotStuck ==
    \A s \in Streams :
        state = "running" /\ command \in alive =>
            Len(pipe[command][s]) < PipeCap \/ reader[command][s] = "scanning"

=============================================================================
