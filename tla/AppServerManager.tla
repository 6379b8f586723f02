--------------------------- MODULE AppServerManager ---------------------------
(***************************************************************************)
(* The supervisor of the codex process (internal/appserver/manager.go).    *)
(* Every operation (Start, Stop, Toggle, Call, ReleaseThread) holds        *)
(* operationMu from beginning to end; m.mu guards only the single reads    *)
(* and writes of m.client, m.cancel and m.state, each of which is one step *)
(* here.  Beside the operations there is one watch goroutine per client    *)
(* installed, which ends that client's reign when its session is over.     *)
(*                                                                         *)
(* The i-th client started is the number i; 0 is nil.  m.client and        *)
(* m.cancel are always written together and are one variable.  Of a client *)
(* (module RpcClient) only three things are kept: whether its process      *)
(* lives, whether it has been told to go (its context cancelled, Close     *)
(* called), and whether its session has ended (`done` and `events`         *)
(* closed).  A process may outlive its session: readLoop ends it on a line *)
(* it cannot decode or that is longer than maxMessageSize.                 *)
(***************************************************************************)
EXTENDS Naturals

CONSTANTS
    Ops,        \* the goroutines that call the manager's operations
    Kinds,      \* the operations they call in an instance
    MaxStarts   \* bound: processes started

None == "none"

OpKinds == {"Start", "Stop", "Toggle", "Call", "ReleaseThread"}

ASSUME KindsAssumption == Kinds \subseteq OpKinds
ASSUME StartsAssumption == MaxStarts \in Nat
ASSUME NoneAssumption == None \notin Ops

Clients == 1..MaxStarts

VARIABLES
    operationMu,  \* the operation that holds it, or None
    opPc, opKind, \* the control of each operation and which one it is
    opClient,     \* its local `client`
    client,       \* m.client, with m.cancel
    state,        \* m.state: Running, Starting, Stopping
    started,      \* how many processes have been started
    alive, told, ended, \* the processes that live, the clients told to go,
                        \* the clients whose session has ended
    watch         \* the control of each client's watch goroutine

opVars == <<operationMu, opPc, opKind, opClient>>
stateVars == <<client, state>>
procVars == <<started, alive, told, ended>>
vars == <<opVars, stateVars, procVars, watch>>

-----------------------------------------------------------------------------
OpPcs == {"idle", "lock", "guard", "spawn", "initialize", "abort", "install",
          "halt", "close", "clear", "stopped", "failed", "rpc", "unlock"}
States == [running : BOOLEAN, starting : BOOLEAN, stopping : BOOLEAN]

TypeOK ==
    /\ operationMu \in Ops \cup {None}
    /\ opPc \in [Ops -> OpPcs]
    /\ opKind \in [Ops -> OpKinds]
    /\ opClient \in [Ops -> 0..MaxStarts]
    /\ client \in 0..started
    /\ state \in States
    /\ started \in 0..MaxStarts
    /\ alive \subseteq 1..started
    /\ told \subseteq 1..started
    /\ ended \subseteq 1..started
    /\ watch \in [Clients -> {"none", "drain", "notify", "exited"}]

Idle     == [running |-> FALSE, starting |-> FALSE, stopping |-> FALSE]
Starting == [running |-> FALSE, starting |-> TRUE,  stopping |-> FALSE]
Running  == [running |-> TRUE,  starting |-> FALSE, stopping |-> FALSE]
Stopping == [running |-> FALSE, starting |-> FALSE, stopping |-> TRUE]

Init ==
    /\ operationMu = None
    /\ opPc = [o \in Ops |-> "idle"]
    /\ opKind = [o \in Ops |-> "Stop"]
    /\ opClient = [o \in Ops |-> 0]
    /\ client = 0
    /\ state = Idle
    /\ started = 0
    /\ alive = {} /\ told = {} /\ ended = {}
    /\ watch = [i \in Clients |-> "none"]

GoTo(o, pc) == opPc' = [opPc EXCEPT ![o] = pc]
At(o, pc) == opPc[o] = pc

-----------------------------------------------------------------------------
(* Plausible bugs: each stands in for the operator named in its comment when a *)
(* property's sensitivity is checked, and is used nowhere else.                *)

\* StartGuard without line 81.
StartUnguarded(o) ==
    /\ At(o, "guard")
    /\ state' = Starting
    /\ GoTo(o, "spawn")
    /\ UNCHANGED <<operationMu, opKind, opClient, client, procVars, watch>>

\* Abort without cancel() and Close().
AbortLeavesProcess(o) ==
    /\ At(o, "abort")
    /\ state' = Idle
    /\ GoTo(o, "failed")
    /\ UNCHANGED <<operationMu, opKind, opClient, client, procVars, watch>>

\* Halt that forgets to take the client out.
HaltKeepsClient(o) ==
    /\ At(o, "halt")
    /\ opClient' = [opClient EXCEPT ![o] = client]
    /\ state' = IF client # 0 THEN Stopping ELSE Idle
    /\ GoTo(o, IF client # 0 THEN "close" ELSE "clear")
    /\ UNCHANGED <<operationMu, opKind, client, procVars, watch>>

\* WatchEnds without the test of line 397.
WatchEndsAny(i) ==
    /\ watch[i] = "drain"
    /\ i \in ended
    /\ client' = 0
    /\ state' = [state EXCEPT !.running = FALSE]
    /\ watch' = [watch EXCEPT ![i] = "notify"]
    /\ UNCHANGED <<opVars, procVars>>

\* Unlock missing on the way out of an operation.
UnlockForgotten(o) ==
    /\ At(o, "unlock")
    /\ opClient' = [opClient EXCEPT ![o] = 0]
    /\ GoTo(o, "idle")
    /\ UNCHANGED <<operationMu, opKind, stateVars, procVars, watch>>

-----------------------------------------------------------------------------
(* Entering an operation *)

Begin(o, kind) ==
    /\ At(o, "idle")
    /\ opKind' = [opKind EXCEPT ![o] = kind]
    /\ GoTo(o, "lock")
    /\ UNCHANGED <<operationMu, opClient, stateVars, procVars, watch>>

\* The first thing each operation does with operationMu; Call and ReleaseThread
\* read m.client and give up if it is nil.  An executable that is not installed
\* makes Toggle return, like a start that finds a server: both are `unlock`.
Enter(o) ==
    /\ At(o, "lock")
    /\ operationMu = None
    /\ operationMu' = o
    /\ \/ opKind[o] = "Start" /\ GoTo(o, "guard")
       \/ opKind[o] = "Stop" /\ GoTo(o, "halt")
       \/ opKind[o] = "Toggle" /\ state.running /\ GoTo(o, "halt")
       \/ opKind[o] = "Toggle" /\ ~state.running /\ GoTo(o, "guard")
       \/ opKind[o] = "Toggle" /\ ~state.running /\ GoTo(o, "unlock")
       \/ opKind[o] \in {"Call", "ReleaseThread"} /\ client # 0 /\ GoTo(o, "rpc")
       \/ opKind[o] \in {"Call", "ReleaseThread"} /\ client = 0 /\ GoTo(o, "unlock")
    /\ opClient' = [opClient EXCEPT ![o] = client]
    /\ UNCHANGED <<opKind, stateVars, procVars, watch>>

\* The return, where the operation's locals go out of scope.
Unlock(o) ==
    /\ At(o, "unlock")
    /\ operationMu' = None
    /\ opClient' = [opClient EXCEPT ![o] = 0]
    /\ GoTo(o, "idle")
    /\ UNCHANGED <<opKind, stateVars, procVars, watch>>

-----------------------------------------------------------------------------
(* startLocked *)

\* Lines 81-84: nothing to do, or State{Starting}.  While operationMu is held
\* nobody can leave the idle state, so the read and the write are one step.
StartGuard(o) ==
    /\ At(o, "guard")
    /\ IF state # Idle
       THEN GoTo(o, "unlock") /\ UNCHANGED state
       ELSE state' = Starting /\ GoTo(o, "spawn")
    /\ UNCHANGED <<operationMu, opKind, opClient, client, procVars, watch>>

Spawn(o) ==
    /\ At(o, "spawn")
    /\ started < MaxStarts
    /\ started' = started + 1
    /\ alive' = alive \cup {started + 1}
    /\ opClient' = [opClient EXCEPT ![o] = started + 1]
    /\ GoTo(o, "initialize")
    /\ UNCHANGED <<operationMu, opKind, stateVars, told, ended, watch>>

\* m.start fails: fail(err) clears the state and calls onStopped.
SpawnFails(o) ==
    /\ At(o, "spawn")
    /\ state' = Idle
    /\ GoTo(o, "failed")
    /\ UNCHANGED <<operationMu, opKind, opClient, client, procVars, watch>>

Initialized(o) ==
    /\ At(o, "initialize")
    /\ opClient[o] \in alive \ ended
    /\ GoTo(o, "install")
    /\ UNCHANGED <<operationMu, opKind, opClient, stateVars, procVars, watch>>

\* An error answer, the end of the session, ten seconds, or the caller's ctx.
InitializeFails(o) ==
    /\ At(o, "initialize")
    /\ GoTo(o, "abort")
    /\ UNCHANGED <<operationMu, opKind, opClient, stateVars, procVars, watch>>

\* Lines 100-102: cancel, Close, fail.
Abort(o) ==
    /\ At(o, "abort")
    /\ told' = told \cup {opClient[o]}
    /\ state' = Idle
    /\ GoTo(o, "failed")
    /\ UNCHANGED <<operationMu, opKind, opClient, client, started, alive, ended, watch>>

\* Lines 105-118, with the start of the watch goroutine.
Install(o) ==
    /\ At(o, "install")
    /\ client' = opClient[o]
    /\ state' = Running
    /\ watch' = [watch EXCEPT ![opClient[o]] = "drain"]
    /\ GoTo(o, "unlock")
    /\ UNCHANGED <<operationMu, opKind, opClient, procVars>>

-----------------------------------------------------------------------------
(* stopLocked *)

\* Lines 135-139: the client is taken out before it is closed.
Halt(o) ==
    /\ At(o, "halt")
    /\ opClient' = [opClient EXCEPT ![o] = client]
    /\ client' = 0
    /\ state' = IF client # 0 THEN Stopping ELSE Idle
    /\ GoTo(o, IF client # 0 THEN "close" ELSE "clear")
    /\ UNCHANGED <<operationMu, opKind, procVars, watch>>

\* cancel() and client.Close(), whatever Close returns.
CloseClient(o) ==
    /\ At(o, "close")
    /\ told' = told \cup {opClient[o]}
    /\ GoTo(o, "clear")
    /\ UNCHANGED <<operationMu, opKind, opClient, stateVars, started, alive, ended, watch>>

\* setState(State{}), before it calls onStopped.
ClearState(o) ==
    /\ At(o, "clear")
    /\ state' = Idle
    /\ GoTo(o, "stopped")
    /\ UNCHANGED <<operationMu, opKind, opClient, client, procVars, watch>>

-----------------------------------------------------------------------------
(* onStopped: called by setState at the end of a stop and of a failed start,  *)
(* and by watch.  What the callback does is up to the owner of the manager    *)
(* (module KeepAwake); here it is the wait in pc "stopped" or "failed".       *)

\* ReleaseThread goes on to start the server again, the others are finished.
StopNotified(o) ==
    /\ At(o, "stopped")
    /\ GoTo(o, IF opKind[o] = "ReleaseThread" THEN "guard" ELSE "unlock")
    /\ UNCHANGED <<operationMu, opKind, opClient, stateVars, procVars, watch>>

FailNotified(o) ==
    /\ At(o, "failed")
    /\ GoTo(o, "unlock")
    /\ UNCHANGED <<operationMu, opKind, opClient, stateVars, procVars, watch>>

-----------------------------------------------------------------------------
(* The calls to codex of Call and ReleaseThread, made under operationMu       *)

\* Codex has answered.  ReleaseThread has unsubscribed and asked for the
\* threads: it stops the server unless one of them is active.
RpcAnswered(o) ==
    /\ At(o, "rpc")
    /\ opClient[o] \in alive \ ended
    /\ \/ GoTo(o, "unlock")
       \/ opKind[o] = "ReleaseThread" /\ GoTo(o, "halt")
    /\ UNCHANGED <<operationMu, opKind, opClient, stateVars, procVars, watch>>

\* The client has been shut down under the call: `done` is closed, or send fails.
RpcEnded(o) ==
    /\ At(o, "rpc")
    /\ opClient[o] \in ended
    /\ GoTo(o, "unlock")
    /\ UNCHANGED <<operationMu, opKind, opClient, stateVars, procVars, watch>>

\* The caller's context ends: the phone has left, or a timeout.
RpcCancelled(o) ==
    /\ At(o, "rpc")
    /\ GoTo(o, "unlock")
    /\ UNCHANGED <<operationMu, opKind, opClient, stateVars, procVars, watch>>

-----------------------------------------------------------------------------
(* The processes, their sessions and the watch goroutines                     *)

Die(i) ==
    /\ i \in alive
    /\ alive' = alive \ {i}
    /\ UNCHANGED <<opVars, stateVars, started, told, ended, watch>>

\* The client's shutdown: always after the process has gone or Close, and after
\* a line it could not read, when the process lives on.
MustEnd(i) == i \notin alive \/ i \in told

EndSession(i) ==
    /\ i \in (1..started) \ ended
    /\ ended' = ended \cup {i}
    /\ UNCHANGED <<opVars, stateVars, started, alive, told, watch>>

\* Lines 396-407, once `events` is closed.  A client that has been replaced or
\* stopped meanwhile is none of this goroutine's business any more.
WatchEnds(i) ==
    /\ watch[i] = "drain"
    /\ i \in ended
    /\ IF client = i
       THEN /\ client' = 0
            /\ state' = [state EXCEPT !.running = FALSE]
            /\ watch' = [watch EXCEPT ![i] = "notify"]
       ELSE /\ watch' = [watch EXCEPT ![i] = "exited"]
            /\ UNCHANGED stateVars
    /\ UNCHANGED <<opVars, procVars>>

WatchNotified(i) ==
    /\ watch[i] = "notify"
    /\ watch' = [watch EXCEPT ![i] = "exited"]
    /\ UNCHANGED <<opVars, stateVars, procVars>>

-----------------------------------------------------------------------------
StartStep(o) ==
    \/ StartGuard(o) \/ Spawn(o) \/ SpawnFails(o) \/ Initialized(o)
    \/ InitializeFails(o) \/ Abort(o) \/ Install(o) \/ FailNotified(o)

StopStep(o) ==
    Halt(o) \/ CloseClient(o) \/ ClearState(o) \/ StopNotified(o)

RpcStep(o) == RpcAnswered(o) \/ RpcEnded(o) \/ RpcCancelled(o)

OpStep(o) == StartStep(o) \/ StopStep(o) \/ RpcStep(o) \/ Unlock(o)

Next ==
    \/ \E o \in Ops, kind \in Kinds : Begin(o, kind)
    \/ \E o \in Ops : Enter(o) \/ OpStep(o)
    \/ \E i \in Clients : Die(i) \/ EndSession(i) \/ WatchEnds(i) \/ WatchNotified(i)

\* What an operation does by itself.  Whether and when codex answers a call, or the
\* caller leaves, is not in it: a call of a phone has no deadline, and Encode waits
\* for a full stdin whatever becomes of the context.  Only the death of the process
\* surely ends a call: the pipe breaks, and `done` is closed.
OwnStep(o) ==
    \/ StartStep(o) \/ StopStep(o) \/ Unlock(o)
    \/ RpcEnded(o) /\ opClient[o] \notin alive

\* Goroutines that can move do; sync.Mutex starves nobody; a process that has
\* been told to go goes, and its client then ends the session (RpcClient's
\* SessionEndsForAll).  initialize has ten seconds, and the first lines of a fresh
\* process fit into its empty stdin.  Codex need not answer any other call.
Fairness ==
    /\ \A o \in Ops : SF_vars(Enter(o)) /\ WF_vars(OwnStep(o))
    /\ \A i \in Clients :
          /\ WF_vars(Die(i) /\ i \in told)
          /\ WF_vars(EndSession(i) /\ MustEnd(i))
          /\ WF_vars(WatchEnds(i) \/ WatchNotified(i))

Spec == Init /\ [][Next]_vars
FairSpec == Spec /\ Fairness

-----------------------------------------------------------------------------
(* Properties *)

\* m.client and m.state tell one story at every instant another goroutine can
\* look: a client exactly while Running, at most one flag, and Starting and
\* Stopping only under an operation in progress.  A start, a stop, a crash and
\* the watch of an earlier client may all meet.
StateMatchesClient ==
    /\ state \in {Idle, Starting, Running, Stopping}
    /\ state = Running <=> client # 0
    /\ state \in {Starting, Stopping} => operationMu # None

\* The client in use has its watch goroutine before it, so that the end of its
\* session, whenever it comes, is noticed.
ClientIsWatched == client # 0 => watch[client] = "drain"

\* The processes that nothing will ever stop: alive, not told to go, and
\* neither in use nor in the hands of an operation that is to close it or
\* install it.
Orphans ==
    {i \in alive \ told :
        /\ client # i
        /\ \A o \in Ops : opClient[o] = i =>
              opPc[o] \notin {"initialize", "abort", "install", "close"}}

\* README.md:17, "owns the ... Codex app-server process": a process the manager
\* no longer uses has been told to go, or an operation is about to tell it.
OwnsItsProcess == Orphans = {}

\* The manager loses none whose session it can still read, whatever starts, stops
\* and watch goroutines meet (one whose session has ended on a line that could
\* not be read is told nothing, manager.go:401).
NoOrphanProcess == Orphans \subseteq ended

\* Nor does it talk to two at a time: every start is preceded by the end of the
\* former client.
OneProcess == \A i, j \in alive \ (told \cup ended) : i = j

\* So, after any number of starts, stops, crashes and failures, the one process
\* whose session lives can be reached by a Stop.
ProcessUnderControl == NoOrphanProcess /\ OneProcess

\* A client whose session lives is only taken out of use by an operation that
\* stops the server: no watch goroutine of an earlier client, however late, and
\* no start can displace it.
LiveClientKept ==
    [][client # 0 /\ client' # client =>
          \/ client' = 0 /\ client \in ended
          \/ \E o \in Ops : operationMu = o /\ opPc[o] = "halt"]_vars

\* No operation stays in a call to a codex that lives: codex answers each call, or
\* dies, or the caller leaves.
CodexAnswers == \A o \in Ops : []<>(opPc[o] = "rpc" => opClient[o] \notin alive)

\* The end of the session of the client in use is noticed, whatever operations hang.
\* And as long as codex leaves no call without an end, every operation ends, in
\* whatever order the others come and whenever codex crashes, so that a stop
\* requested is a stop performed.  The condition is the code's: Call keeps
\* operationMu while codex thinks, without a deadline of its own, and Stop waits.
ManagerResponds ==
    /\ \A i \in Clients : (client = i /\ i \in ended) ~> client # i
    /\ CodexAnswers => \A o \in Ops : opPc[o] = "lock" ~> opPc[o] = "idle"

\* The manager implements the life cycle its State promises: State never shows
\* a phase skipped, and Starting and Stopping never last for ever.
Mode ==
    CASE state.starting -> "starting"
      [] state.stopping -> "stopping"
      [] state.running  -> "running"
      [] OTHER          -> "stopped"

Lifecycle == INSTANCE ServerLifecycle WITH mode <- Mode

ImplementsLifecycle == Lifecycle!Spec

=============================================================================
