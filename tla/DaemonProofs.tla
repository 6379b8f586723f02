---------------------------- MODULE DaemonProofs ----------------------------
(***************************************************************************)
(* The command-line daemon and the tunnel it keeps, for every number of    *)
(* goroutines, of processes started, of output streams and of lines in a   *)
(* pipe.  First Tunnel, then Daemon: two specifications with nothing in    *)
(* common but what the daemon relies on, the life cycle that the tunnel's  *)
(* manager is shown to implement.                                          *)
(***************************************************************************)
EXTENDS Tunnel, Daemon, TLAPS

-----------------------------------------------------------------------------
(* The tunnel: type correctness *)

\* A pipe holds lines, and no more than it has room for.
PipesOK(p) ==
    /\ p \in [Procs -> [Streams -> Seq({"log", "url"})]]
    /\ \A i \in Procs, s \in Streams : Len(p[i][s]) <= PipeCap

\* An operation that is about to use or to end a process has one.
\* Nothing has been read of a process that was not started.
HandInv ==
    /\ \A o \in Ops : opPc[o] \in {"select", "abort", "cancel", "kill"} => opProc[o] # 0
    /\ \A i \in Procs \ 1..started, s \in Streams : pipe[i][s] = <<>>

LEMMA TunnelInitType == Init => TypeOK /\ HandInv
<1> SUFFICES ASSUME Init PROVE TypeOK /\ HandInv
  OBVIOUS
<1>1. \A i \in Procs, s \in Streams : pipe[i][s] = <<>>
  BY DEF Init
<1>2. PipesOK(pipe)
  BY <1>1, BoundsAssumption DEF Init, PipesOK
<1> QED
  BY <1>2, BoundsAssumption DEF Init, TypeOK, HandInv, PipesOK, OpPcs, OpKinds, Phases

LEMMA OpType ==
    ASSUME TypeOK, HandInv, NEW o \in Ops,
           Enter(o) \/ OpStep(o) \/ (\E kind \in Kinds : Begin(o, kind))
    PROVE  TypeOK' /\ HandInv'
<1> USE NoneAssumption, KindsAssumption, BoundsAssumption
    DEF TypeOK, HandInv, OpPcs, OpKinds, Phases, At, GoTo, Fails, opVars, stateVars, procVars, pipeVars,
        StartFrame, StopFrame
<1>1. CASE \E kind \in Kinds : Begin(o, kind)
  BY <1>1 DEF Begin
<1>2. CASE Enter(o)
  BY <1>2 DEF Enter
<1>3. CASE Unlock(o)
  <2>1. opProc' \in [Ops -> 0..started] /\ opErr' \in [Ops -> BOOLEAN]
    BY <1>3 DEF Unlock
  <2>2. opKind' \in [Ops -> OpKinds] /\ opPc' \in [Ops -> OpPcs]
    BY <1>3 DEF Unlock
  <2>3. HandInv'
    BY <1>3, <2>2 DEF Unlock
  <2> QED
    BY <1>3, <2>1, <2>2, <2>3 DEF Unlock
<1>4. CASE StartGuard(o)
  <2>1. /\ opErr' \in [Ops -> BOOLEAN] /\ opPc' \in [Ops -> OpPcs]
        /\ state' \in Phases /\ url' \in 0..started
    <3>1. opErr' \in [Ops -> BOOLEAN]
      BY <1>4 DEF StartGuard
    <3>2. opPc' \in [Ops -> OpPcs]
      BY <1>4 DEF StartGuard
    <3>3. state' \in Phases
      BY <1>4 DEF StartGuard
    <3>4. url' \in 0..started
      BY <1>4 DEF StartGuard
    <3> QED
      BY <3>1, <3>2, <3>3, <3>4
  <2>2. HandInv'
    <3>1. opPc' = [opPc EXCEPT ![o] = opPc'[o]] /\ opPc'[o] \in {"unlock", "spawn"}
      BY <1>4 DEF StartGuard
    <3>2. UNCHANGED <<opProc, started, pipe>>
      BY <1>4 DEF StartGuard
    <3> QED
      BY <3>1, <3>2
  <2>3. UNCHANGED <<operationMu, opKind, opProc, command, procVars, pipeVars, monitor>>
    BY <1>4 DEF StartGuard
  <2> QED
    BY <2>1, <2>2, <2>3
<1>5. CASE Spawn(o)
  BY <1>5 DEF Spawn
<1>6. CASE SpawnFails(o)
  BY <1>6 DEF SpawnFails
<1>7. CASE Publish(o)
  BY <1>7 DEF Publish
<1>8. CASE GiveUp(o)
  BY <1>8 DEF GiveUp
<1>9. CASE Abort(o)
  <2>1. opProc[o] \in 1..started
    BY <1>9 DEF Abort
  <2>2. told' \subseteq 1..started
    BY <1>9, <2>1 DEF Abort
  <2>3. opPc' \in [Ops -> OpPcs] /\ opErr' \in [Ops -> BOOLEAN] /\ HandInv'
    BY <1>9 DEF Abort
  <2> QED
    BY <1>9, <2>2, <2>3 DEF Abort
<1>10. CASE Halt(o)
  BY <1>10 DEF Halt
<1>11. CASE CancelProcess(o)
  <2>1. opProc[o] \in 1..started
    BY <1>11 DEF CancelProcess
  <2>2. told' \subseteq 1..started
    BY <1>11, <2>1 DEF CancelProcess
  <2>3. opPc' \in [Ops -> OpPcs] /\ opErr' \in [Ops -> BOOLEAN] /\ HandInv'
    BY <1>11 DEF CancelProcess
  <2> QED
    BY <1>11, <2>2, <2>3 DEF CancelProcess
<1>12. CASE Kill(o)
  BY <1>12 DEF Kill
<1>13. CASE ClearState(o)
  BY <1>13 DEF ClearState
<1> QED
  BY <1>1, <1>2, <1>3, <1>4, <1>5, <1>6, <1>7, <1>8, <1>9, <1>10, <1>11, <1>12, <1>13
  DEF OpStep, StartStep, StopStep

LEMMA ProcessTunnelType ==
    ASSUME TypeOK, HandInv, NEW i \in Procs,
           \/ Die(i) \/ Reap(i) \/ MonitorEnds(i)
           \/ \E s \in Streams : FindURL(i, s) \/ FindURLReturns(i, s)
           \/ \E s \in Streams, line \in {"log", "url"} : WriteLine(i, s, line)
    PROVE  TypeOK' /\ HandInv'
<1> USE BoundsAssumption DEF TypeOK, HandInv, Phases, opVars, stateVars, procVars, pipeVars
<1>1. CASE Die(i)
  BY <1>1 DEF Die
<1>2. CASE Reap(i)
  BY <1>2 DEF Reap
<1>3. CASE MonitorEnds(i)
  BY <1>3 DEF MonitorEnds
<1>4. ASSUME NEW s \in Streams, FindURL(i, s) PROVE TypeOK' /\ HandInv'
  <2>1. pipe[i][s] \in Seq({"log", "url"}) /\ pipe[i][s] # <<>>
    BY <1>4 DEF FindURL
  <2>2. /\ Tail(pipe[i][s]) \in Seq({"log", "url"})
        /\ Len(Tail(pipe[i][s])) <= PipeCap
    BY <2>1
  <2>3. PipesOK(pipe')
    BY <1>4, <2>2 DEF FindURL, PipesOK
  <2>4. i \in 1..started
    BY <1>4 DEF FindURL
  <2>5. /\ reader' \in [Procs -> [Streams -> {"scanning", "returned"}]]
        /\ urlFound' \subseteq 1..started
    <3>1. urlFound' \subseteq urlFound \cup {i}
      BY <1>4 DEF FindURL
    <3>2. \/ reader' = reader
          \/ reader' = [reader EXCEPT ![i][s] = "returned"]
      BY <1>4 DEF FindURL
    <3>3. reader' \in [Procs -> [Streams -> {"scanning", "returned"}]]
      <4>1. reader \in [Procs -> [Streams -> {"scanning", "returned"}]]
        BY DEF TypeOK
      <4> HIDE DEF TypeOK, HandInv
      <4> QED
        BY <3>2, <4>1
    <3>4. urlFound' \subseteq 1..started
      BY <2>4, <3>1
    <3> QED
      BY <3>3, <3>4
  <2>6. HandInv'
    BY <1>4, <2>4 DEF FindURL
  <2>7. UNCHANGED <<opVars, stateVars, procVars, monitor>>
    BY <1>4 DEF FindURL
  <2> QED
    BY <2>3, <2>5, <2>6, <2>7 DEF PipesOK
<1>5. ASSUME NEW s \in Streams, FindURLReturns(i, s) PROVE TypeOK' /\ HandInv'
  <2>1. PipesOK(pipe')
    BY <1>5 DEF FindURLReturns, PipesOK
  <2> QED
    BY <1>5, <2>1 DEF FindURLReturns, PipesOK
<1>6. ASSUME NEW s \in Streams, NEW line \in {"log", "url"}, WriteLine(i, s, line)
      PROVE  TypeOK' /\ HandInv'
  <2>1. pipe[i][s] \in Seq({"log", "url"}) /\ Len(pipe[i][s]) < PipeCap
    BY <1>6 DEF WriteLine
  <2>2. /\ Append(pipe[i][s], line) \in Seq({"log", "url"})
        /\ Len(Append(pipe[i][s], line)) <= PipeCap
    BY <2>1
  <2>3. PipesOK(pipe')
    BY <1>6, <2>2 DEF WriteLine, PipesOK
  <2> QED
    BY <1>6, <2>3 DEF WriteLine, PipesOK
<1> QED
  BY <1>1, <1>2, <1>3, <1>4, <1>5, <1>6

LEMMA TunnelNextType == TypeOK /\ HandInv /\ [Next]_vars => TypeOK' /\ HandInv'
<1> SUFFICES ASSUME TypeOK, HandInv, [Next]_vars PROVE TypeOK' /\ HandInv'
  OBVIOUS
<1>1. CASE UNCHANGED vars
  BY <1>1 DEF vars, opVars, stateVars, procVars, pipeVars, TypeOK, HandInv
<1> QED
  BY <1>1, OpType, ProcessTunnelType DEF Next

\* Every reachable state of the tunnel's manager has its types: a pipe never
\* holds more than it has room for, no process is waited for while it lives.
THEOREM TunnelTypeCorrect == Spec => []TypeOK
  BY TunnelInitType, TunnelNextType, PTL DEF Spec

-----------------------------------------------------------------------------
(* The tunnel: its inductive invariant *)

Holding == OpPcs \ {"idle", "lock"}

\* An operation inside its critical part, and no other, holds operationMu.
MutexInv == \A o \in Ops : opPc[o] \in Holding <=> operationMu = o

\* What the state is at each point of an operation, and when there is none.
Settled == state = IF command = 0 THEN "stopped" ELSE "running"

PhaseInv ==
    /\ operationMu = None => Settled
    /\ \A o \in Ops :
          /\ opPc[o] \in {"guard", "halt", "unlock"} => Settled
          /\ opPc[o] \in {"spawn", "select", "abort"} => state = "starting" /\ command = 0
          /\ opPc[o] \in {"cancel", "kill"} => state = "stopping" /\ command = 0
          /\ opPc[o] = "clear" => state \in {"stopping", "stopped"} /\ command = 0

\* The process in use has its monitor, and its address is shown.
UseInv == command # 0 => url = command /\ monitor[command] = "waiting"

TunnelInv == TypeOK /\ HandInv /\ MutexInv /\ PhaseInv /\ UseInv

LEMMA TunnelInitInv == Init => TunnelInv
<1> SUFFICES ASSUME Init PROVE MutexInv /\ PhaseInv /\ UseInv
  BY TunnelInitType DEF TunnelInv
<1> QED
  BY NoneAssumption DEF Init, MutexInv, PhaseInv, UseInv, Settled, Holding

LEMMA OpInv ==
    ASSUME TunnelInv, NEW o \in Ops,
           Enter(o) \/ OpStep(o) \/ (\E kind \in Kinds : Begin(o, kind))
    PROVE  MutexInv' /\ PhaseInv' /\ UseInv'
<1>0. /\ opPc \in [Ops -> OpPcs] /\ opProc \in [Ops -> 0..started]
      /\ monitor \in [Procs -> {"none", "waiting", "exited"}]
      /\ command \in 0..started /\ started \in 0..MaxStarts
  BY DEF TunnelInv, TypeOK
<1> USE <1>0, NoneAssumption, BoundsAssumption
    DEF TunnelInv, MutexInv, PhaseInv, UseInv, Settled, Holding, HandInv, OpPcs, Procs, At, GoTo,
        opVars, stateVars, procVars, pipeVars, StartFrame, StopFrame
<1>1. CASE \E kind \in Kinds : Begin(o, kind)
  BY <1>1 DEF Begin
<1>2. CASE Enter(o)
  BY <1>2 DEF Enter
<1>3. CASE Unlock(o)
  BY <1>3 DEF Unlock
<1>4. CASE StartGuard(o)
  BY <1>4 DEF StartGuard
<1>5. CASE Spawn(o)
  BY <1>5 DEF Spawn
<1>6. CASE SpawnFails(o)
  BY <1>6 DEF SpawnFails
<1>7. CASE Publish(o)
  BY <1>7 DEF Publish
<1>8. CASE GiveUp(o)
  BY <1>8 DEF GiveUp
<1>9. CASE Abort(o)
  BY <1>9 DEF Abort
<1>10. CASE Halt(o)
  BY <1>10 DEF Halt
<1>11. CASE CancelProcess(o)
  BY <1>11 DEF CancelProcess
<1>12. CASE Kill(o)
  BY <1>12 DEF Kill
<1>13. CASE ClearState(o)
  BY <1>13 DEF ClearState
<1> QED
  BY <1>1, <1>2, <1>3, <1>4, <1>5, <1>6, <1>7, <1>8, <1>9, <1>10, <1>11, <1>12, <1>13
  DEF OpStep, StartStep, StopStep

LEMMA TunnelNextInv == TunnelInv /\ [Next]_vars => TunnelInv'
<1> SUFFICES ASSUME TunnelInv, [Next]_vars PROVE MutexInv' /\ PhaseInv' /\ UseInv'
  BY TunnelNextType DEF TunnelInv
<1>0. ASSUME UNCHANGED <<opVars, stateVars, monitor>>
      PROVE  MutexInv' /\ PhaseInv' /\ UseInv'
  BY <1>0 DEF TunnelInv, MutexInv, PhaseInv, UseInv, Settled, opVars, stateVars
<1>1. ASSUME NEW o \in Ops, Enter(o) \/ OpStep(o) \/ (\E kind \in Kinds : Begin(o, kind))
      PROVE  MutexInv' /\ PhaseInv' /\ UseInv'
  BY <1>1, OpInv
<1>2. ASSUME NEW i \in Procs, Die(i) \/ Reap(i) PROVE MutexInv' /\ PhaseInv' /\ UseInv'
  BY <1>0, <1>2 DEF Die, Reap
<1>3. ASSUME NEW i \in Procs, MonitorEnds(i) PROVE MutexInv' /\ PhaseInv' /\ UseInv'
  BY <1>3, BoundsAssumption
  DEF MonitorEnds, TunnelInv, TypeOK, MutexInv, PhaseInv, UseInv, Settled, opVars, Procs
<1>4. ASSUME NEW i \in Procs, NEW s \in Streams,
             FindURL(i, s) \/ FindURLReturns(i, s) \/ \E line \in {"log", "url"} : WriteLine(i, s, line)
      PROVE  MutexInv' /\ PhaseInv' /\ UseInv'
  BY <1>0, <1>4 DEF FindURL, FindURLReturns, WriteLine
<1>5. CASE UNCHANGED vars
  BY <1>0, <1>5 DEF vars
<1> QED
  BY <1>1, <1>2, <1>3, <1>4, <1>5 DEF Next

LEMMA TunnelInvariance == Spec => []TunnelInv
  BY TunnelInitInv, TunnelNextInv, PTL DEF Spec

\* m.command and m.state tell one story at every instant, and the process in use
\* is watched, for any number of operations and of processes.
THEOREM TunnelStateAndCommandAgree == Spec => []StateMatchesCommand
<1>1. TunnelInv => StateMatchesCommand
  <2> SUFFICES ASSUME TunnelInv PROVE StateMatchesCommand
    OBVIOUS
  <2>1. CASE operationMu = None
    BY <2>1 DEF TunnelInv, PhaseInv, Settled, UseInv, StateMatchesCommand
  <2>2. CASE operationMu # None
    <3>1. PICK o \in Ops : operationMu = o
      BY <2>2 DEF TunnelInv, TypeOK
    <3>2. opPc[o] \in Holding
      BY <3>1 DEF TunnelInv, MutexInv
    <3> QED
      BY <2>2, <3>2
      DEF Holding, OpPcs, TunnelInv, PhaseInv, Settled, UseInv, StateMatchesCommand
  <2> QED
    BY <2>1, <2>2
<1> QED
  BY TunnelInvariance, <1>1, PTL

-----------------------------------------------------------------------------
(* The tunnel: no process is lost *)

Held(i) == command = i \/ \E o \in Ops : opProc[o] = i /\ opPc[o] \in {"select", "abort", "cancel"}

LEMMA OrphanNext ==
    ASSUME TunnelInv, NoOrphanTunnel, [Next]_vars
    PROVE  NoOrphanTunnel'
<1> SUFFICES ASSUME NEW i \in alive' \ told' PROVE Held(i)'
  BY DEF NoOrphanTunnel, Held
<1>0. /\ opPc \in [Ops -> OpPcs] /\ opProc \in [Ops -> 0..started]
      /\ reaped \cap alive = {} /\ alive \subseteq 1..started
      /\ started \in 0..MaxStarts /\ MaxStarts \in Nat
  BY BoundsAssumption DEF TunnelInv, TypeOK
<1>1. CASE i \in alive \ told
  <2>1. Held(i)
    BY <1>1 DEF NoOrphanTunnel, Held
  <2>2. ASSUME UNCHANGED <<opVars, command>> PROVE Held(i)'
    BY <2>1, <2>2 DEF Held, opVars
  <2>3. ASSUME NEW o \in Ops, \E kind \in Kinds : Begin(o, kind) PROVE Held(i)'
    BY <1>0, <2>1, <2>3 DEF Begin, At, GoTo, Held, stateVars
  <2>4. ASSUME NEW o \in Ops, Enter(o) PROVE Held(i)'
    BY <1>0, <2>1, <2>4 DEF Enter, At, GoTo, Held, stateVars
  <2>5. ASSUME NEW o \in Ops, Unlock(o) PROVE Held(i)'
    BY <1>0, <2>1, <2>5 DEF Unlock, At, GoTo, Held, stateVars
  <2>6. ASSUME NEW o \in Ops, StartStep(o) PROVE Held(i)'
    <3>1. CASE StartGuard(o)
      BY <1>0, <2>1, <3>1 DEF StartGuard, At, GoTo, Held
    <3>2. CASE Spawn(o)
      BY <1>0, <2>1, <3>2 DEF Spawn, At, GoTo, Held, stateVars
    <3>3. CASE SpawnFails(o)
      BY <1>0, <2>1, <3>3 DEF SpawnFails, At, GoTo, Held
    <3>4. CASE Publish(o)
      <4>1. command = 0
        BY <3>4 DEF Publish, At, TunnelInv, PhaseInv
      <4>2. PICK p \in Ops : opProc[p] = i /\ opPc[p] \in {"select", "abort", "cancel"}
        BY <1>0, <1>1, <2>1, <4>1 DEF Held
      <4>3. command' = opProc[o] /\ opProc' = opProc /\ opPc' = [opPc EXCEPT ![o] = "unlock"]
        BY <3>4 DEF Publish, GoTo
      <4> QED
        BY <1>0, <4>2, <4>3 DEF Held
    <3>5. CASE GiveUp(o)
      BY <1>0, <2>1, <3>5 DEF GiveUp, At, GoTo, Held, stateVars
    <3>6. CASE Abort(o)
      BY <1>0, <2>1, <3>6 DEF Abort, At, GoTo, Held
    <3> QED
      BY <2>6, <3>1, <3>2, <3>3, <3>4, <3>5, <3>6 DEF StartStep
  <2>7. ASSUME NEW o \in Ops, StopStep(o) PROVE Held(i)'
    <3>1. CASE Halt(o)
      BY <1>0, <2>1, <3>1 DEF Halt, At, GoTo, Held
    <3>2. CASE CancelProcess(o)
      BY <1>0, <2>1, <3>2 DEF CancelProcess, At, GoTo, Held, stateVars
    <3>3. CASE Kill(o)
      BY <1>0, <2>1, <3>3 DEF Kill, At, GoTo, Held, stateVars
    <3>4. CASE ClearState(o)
      BY <1>0, <2>1, <3>4 DEF ClearState, At, GoTo, Held
    <3> QED
      BY <2>7, <3>1, <3>2, <3>3, <3>4 DEF StopStep
  <2>8. ASSUME NEW j \in Procs, MonitorEnds(j) PROVE Held(i)'
    BY <1>0, <1>1, <2>1, <2>8 DEF MonitorEnds, Held, opVars
  <2>9. ASSUME NEW j \in Procs, Die(j) \/ Reap(j) PROVE Held(i)'
    BY <2>2, <2>9 DEF Die, Reap, stateVars
  <2>10. ASSUME NEW j \in Procs, NEW s \in Streams,
                FindURL(j, s) \/ FindURLReturns(j, s) \/ \E line \in {"log", "url"} : WriteLine(j, s, line)
         PROVE  Held(i)'
    BY <2>2, <2>10 DEF FindURL, FindURLReturns, WriteLine, stateVars
  <2>11. CASE UNCHANGED vars
    BY <2>2, <2>11 DEF vars, stateVars
  <2> QED
    BY <2>3, <2>4, <2>5, <2>6, <2>7, <2>8, <2>9, <2>10, <2>11 DEF Next, OpStep
<1>2. CASE i \notin alive \ told
  <2>1. PICK o \in Ops : Spawn(o) /\ i = started + 1
    <3>1. alive' # alive \/ told' # told
      BY <1>2
    <3>2. ASSUME NEW o \in Ops, CancelProcess(o) \/ Abort(o) PROVE FALSE
      BY <1>2, <3>2 DEF CancelProcess, Abort
    <3>3. ASSUME NEW j \in Procs, Die(j) PROVE FALSE
      BY <1>2, <3>3 DEF Die, procVars
    <3>4. \A o \in Ops : Spawn(o) => i = started + 1
      BY <1>2 DEF Spawn
    <3> QED
      BY <3>1, <3>2, <3>3, <3>4
      DEF Next, OpStep, StartStep, StopStep, Begin, Enter, Unlock, StartGuard, SpawnFails, Publish,
          GiveUp, Halt, Kill, ClearState, Reap, MonitorEnds, FindURL, FindURLReturns, WriteLine,
          vars, procVars
  <2> QED
    BY <1>0, <2>1 DEF Spawn, GoTo, Held
<1> QED
  BY <1>1, <1>2

\* A cloudflared that has not been told to go is in use, or an operation is about
\* to use or to cancel it, for any number of operations and of processes.
THEOREM NoTunnelIsLost == Spec => []NoOrphanTunnel
<1>1. Init => NoOrphanTunnel
  BY DEF Init, NoOrphanTunnel
<1> QED
  BY <1>1, TunnelInvariance, OrphanNext, PTL DEF Spec

-----------------------------------------------------------------------------
(* The tunnel: how its state and its process change *)

\* The process in use is only given up because it has ended, or by an operation
\* that stops it; no start, and no monitor of an earlier process, displaces it.
THEOREM LiveTunnelsAreKept == Spec => LiveTunnelKept
<1>1. ASSUME TunnelInv, [Next]_vars, command # 0, command' # command
      PROVE  \/ command' = 0 /\ command \in reaped
             \/ \E o \in Ops : operationMu = o /\ opPc[o] = "halt"
  <2>1. ASSUME NEW o \in Ops, Halt(o) PROVE operationMu = o /\ opPc[o] = "halt"
    <3>1. opPc[o] = "halt"
      BY <2>1 DEF Halt, At
    <3> QED
      BY <1>1, <3>1 DEF TunnelInv, MutexInv, Holding, OpPcs
  <2>2. ASSUME NEW o \in Ops, Publish(o) PROVE FALSE
    BY <1>1, <2>2 DEF Publish, At, TunnelInv, PhaseInv
  <2>3. ASSUME NEW i \in Procs, MonitorEnds(i) PROVE command' = 0 /\ command \in reaped
    BY <1>1, <2>3 DEF MonitorEnds
  <2> QED
    BY <1>1, <2>1, <2>2, <2>3
    DEF Next, OpStep, StartStep, StopStep, Begin, Enter, Unlock, StartGuard, Spawn, SpawnFails,
        GiveUp, Abort, CancelProcess, Kill, ClearState, Die, Reap, FindURL, FindURLReturns,
        WriteLine, vars, stateVars
<1> QED
  BY TunnelInvariance, <1>1, PTL DEF Spec, LiveTunnelKept

LEMMA TunnelStateSteps ==
    ASSUME TunnelInv, [Next]_vars, state' # state
    PROVE  \/ state = "stopped" /\ state' = "starting"
           \/ state = "starting" /\ state' \in {"running", "stopped"}
           \/ state = "running" /\ state' \in {"stopping", "stopped"}
           \/ state = "stopping" /\ state' = "stopped"
<1> DEFINE Goal == \/ state = "stopped" /\ state' = "starting"
                   \/ state = "starting" /\ state' \in {"running", "stopped"}
                   \/ state = "running" /\ state' \in {"stopping", "stopped"}
                   \/ state = "stopping" /\ state' = "stopped"
<1>1. ASSUME NEW o \in Ops, StartStep(o) PROVE Goal
  <2>1. StartGuard(o) \/ SpawnFails(o) \/ Publish(o) \/ Abort(o)
    BY <1>1 DEF StartStep, Spawn, GiveUp, stateVars
  <2> QED
    BY <2>1 DEF StartGuard, SpawnFails, Publish, Abort, At, TunnelInv, PhaseInv
<1>2. ASSUME NEW o \in Ops, StopStep(o) PROVE Goal
  <2>1. Halt(o) \/ ClearState(o)
    BY <1>2 DEF StopStep, CancelProcess, Kill, stateVars
  <2> QED
    BY <2>1 DEF Halt, ClearState, At, TunnelInv, PhaseInv, Settled
<1>3. ASSUME NEW i \in Procs, MonitorEnds(i) PROVE Goal
  <2>1. command # 0 /\ state' = "stopped"
    BY <1>3, BoundsAssumption DEF MonitorEnds, Procs
  <2>2. state = "running"
    <3>1. operationMu = None \/ \E o \in Ops : operationMu = o
      BY DEF TunnelInv, TypeOK
    <3> QED
      BY <2>1, <3>1 DEF TunnelInv, PhaseInv, MutexInv, Holding, OpPcs, Settled
  <2> QED
    BY <2>1, <2>2
<1>4. \/ \E o \in Ops : StartStep(o) \/ StopStep(o)
      \/ \E i \in Procs : MonitorEnds(i)
  BY DEF Next, OpStep, Begin, Enter, Unlock, Die, Reap, FindURL, FindURLReturns, WriteLine,
     vars, stateVars
<1> QED
  BY <1>1, <1>2, <1>3, <1>4

\* The tunnel never shows a phase of its life skipped: the safety half of what
\* ServerLifecycle promises, as for the manager of codex.
THEOREM TunnelRefinesLifecycle == Spec => Lifecycle!Safety
<1>1. Init => Lifecycle!Init
  BY DEF Init, Lifecycle!Init
<1>2. TunnelInv /\ [Next]_vars => [Lifecycle!Next]_state
  <2> SUFFICES ASSUME TunnelInv, [Next]_vars, state' # state PROVE Lifecycle!Next
    OBVIOUS
  <2> QED
    BY TunnelStateSteps
    DEF Lifecycle!Next, Lifecycle!Start, Lifecycle!Up, Lifecycle!Fail, Lifecycle!Stop,
        Lifecycle!Crash, Lifecycle!Stopped
<1> QED
  BY TunnelInvariance, <1>1, <1>2, PTL DEF Spec, Lifecycle!Safety

-----------------------------------------------------------------------------
(* The daemon: what a goroutine has still to do *)

\* What is left of a shutdown, of a start and of a restart at each of their points.
Leaving     == <<Step("leave")>>
AppStops    == <<ManagerStep("stopping", "app"), Step("leave")>>
StopApp     == <<ManagerStep("stop", "app"), Step("leave")>>
TunnelStops == <<ManagerStep("stopping", "tunnel"), ManagerStep("stop", "app"), Step("leave")>>
StopTunnel  == <<ManagerStep("stop", "tunnel"), ManagerStep("stop", "app"), Step("leave")>>
Removing    == <<Step("remove"), ManagerStep("stop", "tunnel"), ManagerStep("stop", "app"), Step("leave")>>
Draining    == <<Step("drain"), Step("remove"), ManagerStep("stop", "tunnel"),
                 ManagerStep("stop", "app"), Step("leave")>>
Closing     == <<Step("close"), Step("drain"), Step("remove"), ManagerStep("stop", "tunnel"),
                 ManagerStep("stop", "app"), Step("leave")>>

Awaiting       == <<Step("await")>>
GivingUp       == <<Step("giveup")>>
StartTunnel(do) == <<ManagerStep(do, "tunnel"), Step("await")>>
StartApp(do)    == <<ManagerStep(do, "app"), ManagerStep("start", "tunnel"), Step("await")>>
Writing        == <<Step("write"), ManagerStep("start", "app"), ManagerStep("start", "tunnel"), Step("await")>>
Publishing     == <<Step("publish"), Step("write"), ManagerStep("start", "app"),
                    ManagerStep("start", "tunnel"), Step("await")>>

StopAgain(k)      == <<ManagerStep("stopping", k), ManagerStep("start", k)>>
StartAgain(do, k) == <<ManagerStep(do, k)>>

\* Run before the state file is whole.
EarlyTodos == {RunSteps, Publishing, Writing}
Starts == {"start", "starting", "belated"}
RunTodos == EarlyTodos \cup {StartApp(do) : do \in Starts} \cup {StartTunnel(do) : do \in Starts}
                       \cup {Awaiting}

\* A shutdown that holds closeMu; one that has told the clients of the server; one
\* that has removed the file; one that has stopped the tunnel.
TunnelDone == {StopApp, AppStops, Leaving}
FileGone   == {StopTunnel, TunnelStops} \cup TunnelDone
Drained    == {Removing} \cup FileGone
Locked     == {Closing, Draining} \cup Drained

RestartTodos == {<<>>} \cup {RestartSteps(k) : k \in Managers} \cup {StopAgain(k) : k \in Managers}
                \cup {StartAgain(do, k) : do \in {"start", "starting"}, k \in Managers}

TodoInv ==
    /\ todo \in [Goroutines -> RunTodos \cup {ShutdownSteps, GivingUp} \cup Locked \cup RestartTodos]
    /\ todo[Main] \in RunTodos \cup {ShutdownSteps, <<>>, GivingUp} \cup Locked
    /\ \A h \in Restarters : todo[h] \in RestartTodos
    /\ \A g \in Stoppers : todo[g] \in {ShutdownSteps, <<>>} \cup Locked

\* What a goroutine with these steps left does at the manager k, and whether it is an
\* operation under way.
Does(t, do, k) == t # <<>> /\ Head(t).do = do /\ Head(t).on = k
Busy(t, k) == \E do \in {"starting", "belated", "stopping"} : Does(t, do, k)

\* closeMu and what its holder has done.
CloseInv ==
    /\ \A g \in Goroutines : closeMu = g <=> todo[g] \in Locked
    /\ closed \/ closeMu # Nobody => ctxDone
    /\ closed => server = "closed" /\ (file = "none" \/ "refused" \in mishaps)
    /\ \A g \in Goroutines :
          /\ todo[g] \in {Draining} \cup Drained => server = "closed"
          /\ todo[g] \in FileGone => file = "none" \/ "refused" \in mishaps

\* As long as the state file is not whole there is nothing but Main.
EarlyInv ==
    /\ todo[Main] \in EarlyTodos \/ (todo[Main] = GivingUp /\ "spoilt" \notin mishaps) =>
          /\ \A g \in Goroutines \ {Main} : todo[g] = <<>>
          /\ \A k \in Managers : mode[k] = "stopped"
          /\ ~closed /\ file # "own"
    /\ todo[Main] \in EarlyTodos => server = IF todo[Main] = RunSteps THEN "none" ELSE "open"
    /\ server = "open" => todo[Main] \in {Publishing, Writing, GivingUp} \/ file = "own"

\* An operation under way at a manager, and no other, holds its mutex; a phase that
\* passes is that of such an operation.
MuInv ==
    \A k \in Managers, g \in Goroutines : mu[k] = g <=> Busy(todo[g], k)

ModeInv == \A k \in Managers : mode[k] \in {"starting", "stopping"} => mu[k] \in Goroutines

\* The end of Run.
ExitInv ==
    todo[Main] = <<>> =>
        server # "open" /\ (file # "own" \/ "refused" \in mishaps \/ "spoilt" \in mishaps)

\* Nothing has happened that would leave a process behind.
Tidy == mishaps \cap {"outlasted", "lucky", "spoilt"} = {}

\* Once a shutdown has seen the last restart end, and has stopped a manager, nothing
\* will start its process again.
Over(k) ==
    /\ mode[k] # "running"
    /\ \A g \in Goroutines : ~Does(todo[g], "starting", k)

OverInv ==
    Tidy =>
       /\ \A g \in Goroutines : todo[g] \in Drained \/ closed => \A h \in Restarters : todo[h] = <<>>
       /\ \A g \in Goroutines : todo[g] \in TunnelDone \/ closed => Over("tunnel")
       /\ \A g \in Goroutines : todo[g] = Leaving \/ closed => Over("app")
       /\ todo[Main] = <<>> => \A k \in Managers : mode[k] = "stopped"

KilledInv == (\A g \in Goroutines : todo[g] = <<>>) /\ server = "none" /\ closeMu = Nobody

DaemonTypes ==
    /\ mode \in [Managers -> {"stopped", "starting", "running", "stopping"}]
    /\ mu \in [Managers -> Goroutines \cup {Nobody, Phone}] /\ mu["tunnel"] # Phone
    /\ server \in {"none", "open", "closed"}
    /\ file \in {"none", "own", "old", "cut"} /\ killed \in BOOLEAN /\ ctxDone \in BOOLEAN
    /\ closed \in BOOLEAN /\ condemned \subseteq Managers /\ mishaps \subseteq Mishaps
    /\ closeMu \in Goroutines \cup {Nobody}

LiveInv == CloseInv /\ EarlyInv /\ ModeInv /\ ExitInv /\ OverInv

DaemonInv == DaemonTypes /\ TodoInv /\ MuInv /\ IF killed THEN KilledInv ELSE LiveInv
Live == DaemonInv /\ ~killed


\* The step at the head of each, and what is left without it.
LEMMA ShutdownShapes ==
    /\ ShutdownSteps # <<>> /\ Head(ShutdownSteps).do = "lock" /\ Tail(ShutdownSteps) = Closing
    /\ Closing # <<>> /\ Head(Closing).do = "close" /\ Tail(Closing) = Draining
    /\ Draining # <<>> /\ Head(Draining).do = "drain" /\ Tail(Draining) = Removing
    /\ Removing # <<>> /\ Head(Removing).do = "remove" /\ Tail(Removing) = StopTunnel
    /\ StopTunnel # <<>> /\ Head(StopTunnel).do = "stop" /\ Head(StopTunnel).on = "tunnel"
    /\ [StopTunnel EXCEPT ![1] = ManagerStep("stopping", "tunnel")] = TunnelStops
    /\ TunnelStops # <<>> /\ Head(TunnelStops).do = "stopping" /\ Head(TunnelStops).on = "tunnel"
    /\ Tail(TunnelStops) = StopApp
    /\ StopApp # <<>> /\ Head(StopApp).do = "stop" /\ Head(StopApp).on = "app"
    /\ [StopApp EXCEPT ![1] = ManagerStep("stopping", "app")] = AppStops
    /\ AppStops # <<>> /\ Head(AppStops).do = "stopping" /\ Head(AppStops).on = "app"
    /\ Tail(AppStops) = Leaving
    /\ Leaving # <<>> /\ Head(Leaving).do = "leave" /\ Tail(Leaving) = <<>>
<1> USE DEF Step, ManagerStep, ShutdownSteps, Closing, Draining, Removing, StopTunnel, TunnelStops,
        StopApp, AppStops, Leaving
<1>1. /\ ShutdownSteps # <<>> /\ Head(ShutdownSteps).do = "lock" /\ Tail(ShutdownSteps) = Closing
      /\ Closing # <<>> /\ Head(Closing).do = "close" /\ Tail(Closing) = Draining
  OBVIOUS
<1>2. /\ Draining # <<>> /\ Head(Draining).do = "drain" /\ Tail(Draining) = Removing
      /\ Removing # <<>> /\ Head(Removing).do = "remove" /\ Tail(Removing) = StopTunnel
  OBVIOUS
<1>3. /\ StopTunnel # <<>> /\ Head(StopTunnel).do = "stop" /\ Head(StopTunnel).on = "tunnel"
      /\ [StopTunnel EXCEPT ![1] = ManagerStep("stopping", "tunnel")] = TunnelStops
  OBVIOUS
<1>4. /\ TunnelStops # <<>> /\ Head(TunnelStops).do = "stopping" /\ Head(TunnelStops).on = "tunnel"
      /\ Tail(TunnelStops) = StopApp
  OBVIOUS
<1>5. /\ StopApp # <<>> /\ Head(StopApp).do = "stop" /\ Head(StopApp).on = "app"
      /\ [StopApp EXCEPT ![1] = ManagerStep("stopping", "app")] = AppStops
  OBVIOUS
<1>6. /\ AppStops # <<>> /\ Head(AppStops).do = "stopping" /\ Head(AppStops).on = "app"
      /\ Tail(AppStops) = Leaving
      /\ Leaving # <<>> /\ Head(Leaving).do = "leave" /\ Tail(Leaving) = <<>>
  OBVIOUS
<1> QED
  BY <1>1, <1>2, <1>3, <1>4, <1>5, <1>6

LEMMA RunShapes ==
    /\ RunSteps # <<>> /\ Head(RunSteps).do = "listen" /\ Tail(RunSteps) = Publishing
    /\ Publishing # <<>> /\ Head(Publishing).do = "publish" /\ Tail(Publishing) = Writing
    /\ Writing # <<>> /\ Head(Writing).do = "write" /\ Tail(Writing) = StartApp("start")
    /\ Awaiting # <<>> /\ Head(Awaiting).do = "await"
    /\ GivingUp # <<>> /\ Head(GivingUp).do = "giveup" /\ Tail(GivingUp) = <<>>
    /\ \A do \in Starts :
          /\ StartApp(do) # <<>> /\ Head(StartApp(do)).do = do /\ Head(StartApp(do)).on = "app"
          /\ Tail(StartApp(do)) = StartTunnel("start")
          /\ [StartApp("start") EXCEPT ![1] = ManagerStep(do, "app")] = StartApp(do)
          /\ StartTunnel(do) # <<>> /\ Head(StartTunnel(do)).do = do /\ Head(StartTunnel(do)).on = "tunnel"
          /\ Tail(StartTunnel(do)) = Awaiting
          /\ [StartTunnel("start") EXCEPT ![1] = ManagerStep(do, "tunnel")] = StartTunnel(do)
<1> USE DEF Step, ManagerStep, RunSteps, Publishing, Writing, StartApp, StartTunnel, Awaiting,
        GivingUp
<1>1. /\ RunSteps # <<>> /\ Head(RunSteps).do = "listen" /\ Tail(RunSteps) = Publishing
      /\ Publishing # <<>> /\ Head(Publishing).do = "publish" /\ Tail(Publishing) = Writing
  OBVIOUS
<1>2. /\ Writing # <<>> /\ Head(Writing).do = "write" /\ Tail(Writing) = StartApp("start")
      /\ Awaiting # <<>> /\ Head(Awaiting).do = "await"
      /\ GivingUp # <<>> /\ Head(GivingUp).do = "giveup" /\ Tail(GivingUp) = <<>>
  OBVIOUS
<1>3. ASSUME NEW do \in Starts
      PROVE  /\ StartApp(do) # <<>> /\ Head(StartApp(do)).do = do /\ Head(StartApp(do)).on = "app"
             /\ Tail(StartApp(do)) = StartTunnel("start")
             /\ [StartApp("start") EXCEPT ![1] = ManagerStep(do, "app")] = StartApp(do)
  OBVIOUS
<1>4. ASSUME NEW do \in Starts
      PROVE  /\ StartTunnel(do) # <<>> /\ Head(StartTunnel(do)).do = do
             /\ Head(StartTunnel(do)).on = "tunnel"
             /\ Tail(StartTunnel(do)) = Awaiting
             /\ [StartTunnel("start") EXCEPT ![1] = ManagerStep(do, "tunnel")] = StartTunnel(do)
  OBVIOUS
<1> QED
  BY <1>1, <1>2, <1>3, <1>4

LEMMA RestartShapes ==
    ASSUME NEW k \in Managers
    PROVE  /\ RestartSteps(k) # <<>> /\ Head(RestartSteps(k)).do = "stop" /\ Head(RestartSteps(k)).on = k
           /\ [RestartSteps(k) EXCEPT ![1] = ManagerStep("stopping", k)] = StopAgain(k)
           /\ StopAgain(k) # <<>> /\ Head(StopAgain(k)).do = "stopping" /\ Head(StopAgain(k)).on = k
           /\ Tail(StopAgain(k)) = StartAgain("start", k)
           /\ \A do \in Starts :
                 /\ StartAgain(do, k) # <<>> /\ Head(StartAgain(do, k)).do = do
                 /\ Head(StartAgain(do, k)).on = k /\ Tail(StartAgain(do, k)) = <<>>
                 /\ [StartAgain("start", k) EXCEPT ![1] = ManagerStep(do, k)] = StartAgain(do, k)
  BY DEF ManagerStep, RestartSteps, StopAgain, StartAgain

\* A shutdown ends with its return, a start with the wait for runCtx, a restart with
\* a start, and giving up is a step of its own: none is taken for another.
LEMMA ShapesDisjoint ==
    /\ RunTodos \cap ({ShutdownSteps, <<>>} \cup Locked) = {}
    /\ RestartTodos \cap ({ShutdownSteps} \cup Locked) = {}
    /\ GivingUp \notin RunTodos \cup {ShutdownSteps, <<>>} \cup Locked \cup RestartTodos
<1>1. \A t \in {ShutdownSteps} \cup Locked : t # <<>> /\ t[Len(t)].do = "leave"
  <2>1. /\ Leaving[Len(Leaving)].do = "leave" /\ AppStops[Len(AppStops)].do = "leave"
        /\ StopApp[Len(StopApp)].do = "leave" /\ TunnelStops[Len(TunnelStops)].do = "leave"
    BY DEF Step, TunnelStops, StopApp, AppStops, Leaving
  <2>2. /\ StopTunnel[Len(StopTunnel)].do = "leave" /\ Removing[Len(Removing)].do = "leave"
        /\ Draining[Len(Draining)].do = "leave" /\ Closing[Len(Closing)].do = "leave"
        /\ ShutdownSteps[Len(ShutdownSteps)].do = "leave"
    BY DEF Step, ShutdownSteps, Closing, Draining, Removing, StopTunnel
  <2> QED
    BY <2>1, <2>2, ShutdownShapes DEF Locked, Drained, FileGone, TunnelDone
<1>2. \A t \in RunTodos : t # <<>> /\ t[Len(t)].do = "await"
  <2>1. /\ RunSteps[Len(RunSteps)].do = "await" /\ Publishing[Len(Publishing)].do = "await"
        /\ Writing[Len(Writing)].do = "await" /\ Awaiting[Len(Awaiting)].do = "await"
    BY DEF Step, RunSteps, Publishing, Writing, Awaiting
  <2>2. \A do \in Starts : /\ StartApp(do)[Len(StartApp(do))].do = "await"
                           /\ StartTunnel(do)[Len(StartTunnel(do))].do = "await"
    BY DEF Step, StartApp, StartTunnel
  <2> QED
    BY <2>1, <2>2, RunShapes DEF RunTodos, EarlyTodos
<1>3. \A t \in RestartTodos : t # <<>> => t[Len(t)].do # "leave"
  BY DEF RestartTodos, ManagerStep, RestartSteps, StopAgain, StartAgain
<1>4. GivingUp # <<>> /\ GivingUp[Len(GivingUp)].do = "giveup" /\ Head(GivingUp).do = "giveup"
  BY DEF GivingUp, Step
<1>5. \A t \in RestartTodos : t # <<>> => Head(t).do # "giveup"
  BY RestartShapes DEF RestartTodos, Starts
<1> QED
  BY <1>1, <1>2, <1>3, <1>4, <1>5


\* How the shapes lie in the sets above.
LEMMA Classes ==
    /\ TunnelDone \subseteq FileGone /\ FileGone \subseteq Drained /\ Drained \subseteq Locked
    /\ EarlyTodos \subseteq RunTodos
    /\ Leaving \in TunnelDone /\ StopApp \in TunnelDone \ {Leaving} /\ AppStops \in TunnelDone \ {Leaving}
    /\ StopTunnel \in FileGone \ TunnelDone /\ TunnelStops \in FileGone \ TunnelDone
    /\ Removing \in Drained \ FileGone
    /\ Draining \in Locked \ Drained /\ Closing \in Locked \ Drained /\ Closing # Draining
    /\ ShutdownSteps \notin Locked /\ <<>> \notin Locked \cup RunTodos
    /\ RunSteps \in EarlyTodos /\ Publishing \in EarlyTodos /\ Writing \in EarlyTodos
    /\ RunSteps \notin {Publishing, Writing} /\ Publishing # Writing
    /\ Awaiting \in RunTodos \ EarlyTodos
    /\ \A do \in Starts : StartApp(do) \in RunTodos \ EarlyTodos /\ StartTunnel(do) \in RunTodos \ EarlyTodos
    /\ <<>> \in RestartTodos
    /\ \A k \in Managers : RestartSteps(k) \in RestartTodos /\ StopAgain(k) \in RestartTodos
    /\ \A do \in {"start", "starting"}, k \in Managers : StartAgain(do, k) \in RestartTodos
<1>1. /\ TunnelDone \subseteq FileGone /\ FileGone \subseteq Drained /\ Drained \subseteq Locked
      /\ EarlyTodos \subseteq RunTodos
      /\ Leaving \in TunnelDone /\ StopApp \in TunnelDone /\ AppStops \in TunnelDone
      /\ StopTunnel \in FileGone /\ TunnelStops \in FileGone /\ Removing \in Drained
      /\ Draining \in Locked /\ Closing \in Locked
  BY DEF TunnelDone, FileGone, Drained, Locked, RunTodos
<1>2. /\ RunSteps \in EarlyTodos /\ Publishing \in EarlyTodos /\ Writing \in EarlyTodos
      /\ Awaiting \in RunTodos
      /\ \A do \in Starts : StartApp(do) \in RunTodos /\ StartTunnel(do) \in RunTodos
      /\ <<>> \in RestartTodos
      /\ \A k \in Managers : RestartSteps(k) \in RestartTodos /\ StopAgain(k) \in RestartTodos
      /\ \A do \in {"start", "starting"}, k \in Managers : StartAgain(do, k) \in RestartTodos
  BY DEF EarlyTodos, RunTodos, RestartTodos
<1>3. /\ StopApp # Leaving /\ AppStops # Leaving
      /\ StopTunnel \notin TunnelDone /\ TunnelStops \notin TunnelDone
  BY ShutdownShapes DEF TunnelDone
<1>4. Removing \notin FileGone
  BY ShutdownShapes DEF FileGone, TunnelDone
<1>5. /\ Draining \notin Drained /\ Closing \notin Drained /\ Closing # Draining
      /\ ShutdownSteps \notin Locked
  BY ShutdownShapes DEF Locked, Drained, FileGone, TunnelDone
<1>6. <<>> \notin Locked \cup RunTodos
  <2>1. <<>> \notin Locked
    BY ShutdownShapes DEF Locked, Drained, FileGone, TunnelDone
  <2> QED
    BY <2>1, ShapesDisjoint
<1>7. /\ RunSteps \notin {Publishing, Writing} /\ Publishing # Writing /\ Awaiting \notin EarlyTodos
      /\ \A do \in Starts : StartApp(do) \notin EarlyTodos /\ StartTunnel(do) \notin EarlyTodos
  BY RunShapes DEF EarlyTodos, Starts
<1> QED
  BY <1>1, <1>2, <1>3, <1>4, <1>5, <1>6, <1>7

\* Where a goroutine is, from the step at its head.
LEMMA Places ==
    ASSUME TodoInv, NEW g \in Goroutines, todo[g] # <<>>,
           NEW do, do = Head(todo[g]).do, NEW k, k = Head(todo[g]).on
    PROVE  /\ do = "listen" => g = Main /\ todo[g] = RunSteps
           /\ do = "publish" => g = Main /\ todo[g] = Publishing
           /\ do = "write" => g = Main /\ todo[g] = Writing
           /\ do = "await" => g = Main /\ todo[g] = Awaiting
           /\ do = "giveup" => g = Main /\ todo[g] = GivingUp
           /\ do = "lock" => g \notin Restarters /\ todo[g] = ShutdownSteps
           /\ do = "close" => g \notin Restarters /\ todo[g] = Closing
           /\ do = "drain" => g \notin Restarters /\ todo[g] = Draining
           /\ do = "remove" => g \notin Restarters /\ todo[g] = Removing
           /\ do = "leave" => g \notin Restarters /\ todo[g] = Leaving
           /\ do \in Starts \cup {"stop", "stopping"} => k \in Managers
           /\ do \in Starts => \/ g = Main /\ k = "app" /\ todo[g] = StartApp(do)
                               \/ g = Main /\ k = "tunnel" /\ todo[g] = StartTunnel(do)
                               \/ g \in Restarters /\ do # "belated" /\ todo[g] = StartAgain(do, k)
           /\ do = "stop" => \/ g \notin Restarters /\ k = "app" /\ todo[g] = StopApp
                             \/ g \notin Restarters /\ k = "tunnel" /\ todo[g] = StopTunnel
                             \/ g \in Restarters /\ todo[g] = RestartSteps(k)
           /\ do = "stopping" => \/ g \notin Restarters /\ k = "app" /\ todo[g] = AppStops
                                 \/ g \notin Restarters /\ k = "tunnel" /\ todo[g] = TunnelStops
                                 \/ g \in Restarters /\ todo[g] = StopAgain(k)
<1>0. "app" \in Managers /\ "tunnel" \in Managers
  BY DEF Managers
<1>1. CASE g \in Restarters
  <2>1. todo[g] \in RestartTodos
    BY <1>1 DEF TodoInv
  <2>2. PICK m \in Managers : \/ todo[g] = RestartSteps(m) \/ todo[g] = StopAgain(m)
                              \/ \E d \in {"start", "starting"} : todo[g] = StartAgain(d, m)
    BY <2>1 DEF RestartTodos
  <2> QED
    BY <1>1, <2>2, RestartShapes DEF Starts
<1>2. CASE g \notin Restarters /\ todo[g] \in {ShutdownSteps} \cup Locked
  <2>0. todo[g] \in {ShutdownSteps, Closing, Draining, Removing, StopTunnel, TunnelStops, StopApp,
                    AppStops, Leaving}
    BY <1>2 DEF Locked, Drained, FileGone, TunnelDone
  <2>1. CASE todo[g] = ShutdownSteps
    BY <1>0, <1>2, <2>1, ShutdownShapes DEF Starts
  <2>2. CASE todo[g] = Closing
    BY <1>0, <1>2, <2>2, ShutdownShapes DEF Starts
  <2>3. CASE todo[g] = Draining
    BY <1>0, <1>2, <2>3, ShutdownShapes DEF Starts
  <2>4. CASE todo[g] = Removing
    BY <1>0, <1>2, <2>4, ShutdownShapes DEF Starts
  <2>5. CASE todo[g] = StopTunnel
    BY <1>0, <1>2, <2>5, ShutdownShapes DEF Starts
  <2>6. CASE todo[g] = TunnelStops
    BY <1>0, <1>2, <2>6, ShutdownShapes DEF Starts
  <2>7. CASE todo[g] = StopApp
    BY <1>0, <1>2, <2>7, ShutdownShapes DEF Starts
  <2>8. CASE todo[g] = AppStops
    BY <1>0, <1>2, <2>8, ShutdownShapes DEF Starts
  <2>9. CASE todo[g] = Leaving
    BY <1>0, <1>2, <2>9, ShutdownShapes DEF Starts
  <2> QED
    BY <2>0, <2>1, <2>2, <2>3, <2>4, <2>5, <2>6, <2>7, <2>8, <2>9
<1>3. CASE g = Main /\ todo[g] \in RunTodos
  <2>0. \/ todo[g] \in {RunSteps, Publishing, Writing, Awaiting}
        \/ \E d \in Starts : todo[g] = StartApp(d)
        \/ \E d \in Starts : todo[g] = StartTunnel(d)
    BY <1>3 DEF RunTodos, EarlyTodos
  <2>1. CASE todo[g] \in {RunSteps, Publishing, Writing, Awaiting}
    BY <1>3, <2>1, RunShapes DEF Starts
  <2>2. CASE \E d \in Starts : todo[g] = StartApp(d)
    BY <1>0, <1>3, <2>2, RunShapes DEF Starts
  <2>3. CASE \E d \in Starts : todo[g] = StartTunnel(d)
    BY <1>0, <1>3, <2>3, RunShapes DEF Starts
  <2> QED
    BY <2>0, <2>1, <2>2, <2>3
<1>4. CASE g = Main /\ todo[g] = GivingUp
  BY <1>4, RunShapes DEF Starts
<1> QED
  BY <1>1, <1>2, <1>3, <1>4, GoroutinesAssumption DEF TodoInv, Goroutines


\* Which of them are operations under way.
LEMMA Operations ==
    ASSUME NEW k \in Managers
    PROVE  /\ \A t \in {<<>>, ShutdownSteps, Closing, Draining, Removing, StopTunnel, StopApp, Leaving} :
                 ~Busy(t, k) /\ ~Does(t, "starting", k)
           /\ \A t \in {RunSteps, Publishing, Writing, Awaiting, GivingUp, StartApp("start"), StartTunnel("start")} :
                 ~Busy(t, k) /\ ~Does(t, "starting", k)
           /\ \A do \in Starts \ {"start"} :
                 /\ Busy(StartApp(do), k) <=> k = "app"
                 /\ Busy(StartTunnel(do), k) <=> k = "tunnel"
                 /\ Does(StartApp(do), "starting", k) <=> do = "starting" /\ k = "app"
                 /\ Does(StartTunnel(do), "starting", k) <=> do = "starting" /\ k = "tunnel"
           /\ Busy(TunnelStops, k) <=> k = "tunnel"
           /\ Busy(AppStops, k) <=> k = "app"
           /\ ~Does(TunnelStops, "starting", k) /\ ~Does(AppStops, "starting", k)
           /\ \A m \in Managers :
                 /\ ~Busy(RestartSteps(m), k) /\ ~Does(RestartSteps(m), "starting", k)
                 /\ Busy(StopAgain(m), k) <=> k = m
                 /\ ~Does(StopAgain(m), "starting", k)
                 /\ ~Busy(StartAgain("start", m), k) /\ ~Does(StartAgain("start", m), "starting", k)
                 /\ \A do \in Starts \ {"start"} :
                       /\ Busy(StartAgain(do, m), k) <=> k = m
                       /\ Does(StartAgain(do, m), "starting", k) <=> do = "starting" /\ k = m
<1>1. \A t \in {<<>>, ShutdownSteps, Closing, Draining, Removing, StopTunnel, StopApp, Leaving} :
          ~Busy(t, k) /\ ~Does(t, "starting", k)
  BY ShutdownShapes DEF Busy, Does
<1>2. \A t \in {RunSteps, Publishing, Writing, Awaiting, GivingUp, StartApp("start"), StartTunnel("start")} :
          ~Busy(t, k) /\ ~Does(t, "starting", k)
  BY RunShapes DEF Busy, Does, Starts
<1>3. \A do \in Starts \ {"start"} :
          /\ Busy(StartApp(do), k) <=> k = "app"
          /\ Busy(StartTunnel(do), k) <=> k = "tunnel"
          /\ Does(StartApp(do), "starting", k) <=> do = "starting" /\ k = "app"
          /\ Does(StartTunnel(do), "starting", k) <=> do = "starting" /\ k = "tunnel"
  BY RunShapes DEF Busy, Does, Starts
<1>4. /\ Busy(TunnelStops, k) <=> k = "tunnel"
      /\ Busy(AppStops, k) <=> k = "app"
      /\ ~Does(TunnelStops, "starting", k) /\ ~Does(AppStops, "starting", k)
  BY ShutdownShapes DEF Busy, Does
<1>5. ASSUME NEW m \in Managers
      PROVE  /\ ~Busy(RestartSteps(m), k) /\ ~Does(RestartSteps(m), "starting", k)
             /\ Busy(StopAgain(m), k) <=> k = m
             /\ ~Does(StopAgain(m), "starting", k)
             /\ ~Busy(StartAgain("start", m), k) /\ ~Does(StartAgain("start", m), "starting", k)
             /\ \A do \in Starts \ {"start"} :
                   /\ Busy(StartAgain(do, m), k) <=> k = m
                   /\ Does(StartAgain(do, m), "starting", k) <=> do = "starting" /\ k = m
  BY RestartShapes DEF Busy, Does, Starts
<1> QED
  BY <1>1, <1>2, <1>3, <1>4, <1>5

LEMMA Somebody ==
    /\ Nobody \notin Goroutines /\ Phone \notin Goroutines /\ Phone # Nobody
    /\ Main \in Goroutines /\ Main \notin Restarters \cup Stoppers
  BY GoroutinesAssumption DEF Goroutines, Main, Nobody, Phone

\* A goroutine moves on, and takes a mutex, gives it back or does neither.
LEMMA MutexKept ==
    ASSUME DaemonTypes, TodoInv, MuInv, NEW g \in Goroutines, NEW t,
           todo' = [todo EXCEPT ![g] = t],
           \/ /\ mu' = mu /\ \A k \in Managers : ~Busy(todo[g], k) /\ ~Busy(t, k)
           \/ \E k \in Managers :
                 /\ mu[k] = Nobody /\ mu' = [mu EXCEPT ![k] = g]
                 /\ \A m \in Managers : ~Busy(todo[g], m) /\ (Busy(t, m) <=> m = k)
           \/ \E k \in Managers :
                 /\ Busy(todo[g], k) /\ mu' = [mu EXCEPT ![k] = Nobody]
                 /\ \A m \in Managers : ~Busy(t, m)
    PROVE  MuInv'
<1> SUFFICES ASSUME NEW m \in Managers, NEW h \in Goroutines
             PROVE  mu'[m] = h <=> Busy(todo'[h], m)
  BY DEF MuInv, Busy, Does
<1>2. todo'[h] = IF h = g THEN t ELSE todo[h]
  BY DEF TodoInv
<1>3. CASE /\ mu' = mu /\ \A k \in Managers : ~Busy(todo[g], k) /\ ~Busy(t, k)
  BY <1>2, <1>3 DEF MuInv
<1>4. ASSUME NEW k \in Managers, mu[k] = Nobody, mu' = [mu EXCEPT ![k] = g],
             \A n \in Managers : ~Busy(todo[g], n) /\ (Busy(t, n) <=> n = k)
      PROVE  mu'[m] = h <=> Busy(todo'[h], m)
  <2>1. mu'[m] = IF m = k THEN g ELSE mu[m]
    BY <1>4 DEF DaemonTypes
  <2> QED
    BY Somebody, <1>2, <1>4, <2>1 DEF MuInv
<1>5. ASSUME NEW k \in Managers, Busy(todo[g], k), mu' = [mu EXCEPT ![k] = Nobody],
             \A n \in Managers : ~Busy(t, n)
      PROVE  mu'[m] = h <=> Busy(todo'[h], m)
  <2>1. mu'[m] = IF m = k THEN Nobody ELSE mu[m]
    BY <1>5 DEF DaemonTypes
  <2>2. mu[k] = g /\ (m # k => ~Busy(todo[g], m))
    BY <1>5 DEF MuInv, Busy, Does
  <2> QED
    BY Somebody, <1>2, <1>5, <2>1, <2>2 DEF MuInv
<1> QED
  BY <1>3, <1>4, <1>5

-----------------------------------------------------------------------------
(* The daemon: Shutdown *)

\* What the step of a goroutine says of its place.
LEMMA InShutdown ==
    ASSUME TodoInv, NEW g \in Goroutines, NEW do \in {"lock", "close", "drain", "remove", "leave"}, Doing(g, do)
    PROVE  /\ g \notin Restarters /\ todo[Main] # <<>> /\ todo[g] \notin RunTodos \cup {<<>>, GivingUp}
           /\ do = "lock" => todo[g] = ShutdownSteps
           /\ do = "close" => todo[g] = Closing
           /\ do = "drain" => todo[g] = Draining
           /\ do = "remove" => todo[g] = Removing
           /\ do = "leave" => todo[g] = Leaving
<1>1. todo[g] # <<>> /\ todo[Main] # <<>> /\ Head(todo[g]).do = do
  BY DEF Doing, Exited
<1>2. /\ g \notin Restarters
      /\ do = "lock" => todo[g] = ShutdownSteps
      /\ do = "close" => todo[g] = Closing
      /\ do = "drain" => todo[g] = Draining
      /\ do = "remove" => todo[g] = Removing
      /\ do = "leave" => todo[g] = Leaving
  BY <1>1, Places
<1>3. todo[g] \in {ShutdownSteps} \cup Locked
  BY <1>2, Classes
<1> QED
  BY <1>1, <1>2, <1>3, ShapesDisjoint

LEMMA ManagersAre == "app" \in Managers /\ "tunnel" \in Managers /\ "app" # "tunnel"
  BY DEF Managers

LEMMA EnterShutdownLive ==
    ASSUME Live, NEW g \in Goroutines, EnterShutdown(g) PROVE Live'
<1> DEFINE t == IF closed THEN Leaving ELSE Closing
<1>1. /\ g \notin Restarters /\ todo[g] = ShutdownSteps
      /\ todo[g] \notin RunTodos \cup {<<>>, GivingUp} /\ todo[Main] # <<>>
  BY InShutdown DEF Live, DaemonInv, EnterShutdown
<1>2. todo' = [todo EXCEPT ![g] = t] /\ \A h \in Goroutines : todo'[h] = IF h = g THEN t ELSE todo[h]
  BY <1>1, ShutdownShapes DEF EnterShutdown, Becomes, Leaving, Live, DaemonInv, TodoInv
<1>3. t \in Locked /\ (t \in Drained => closed) /\ t # Draining /\ t \notin RunTodos \cup {<<>>, GivingUp}
  BY Classes, ShapesDisjoint
<1> HIDE DEF t
<1>4. DaemonTypes'
  BY DEF EnterShutdown, Live, DaemonInv, DaemonTypes
<1>5. TodoInv'
  BY <1>1, <1>2, <1>3, GoroutinesAssumption DEF Live, DaemonInv, TodoInv, Goroutines
<1>6. MuInv'
  <2>1. \A k \in Managers : ~Busy(todo[g], k) /\ ~Busy(t, k)
    BY <1>1, Operations DEF t
  <2> QED
    BY <1>2, <2>1, MutexKept DEF EnterShutdown, Live, DaemonInv
<1>7. CloseInv'
  BY <1>1, <1>2, <1>3, Classes, Somebody DEF EnterShutdown, Live, DaemonInv, LiveInv, CloseInv
<1>8. EarlyInv'
  BY <1>1, <1>2, <1>3, Classes, Somebody
  DEF EnterShutdown, Live, DaemonInv, LiveInv, EarlyInv
<1>9. ExitInv' /\ ModeInv'
  BY <1>1, <1>2, <1>3, Somebody
  DEF EnterShutdown, Live, DaemonInv, LiveInv, ExitInv, ModeInv
<1>10. OverInv'
  <2>1. \A k \in Managers : Over(k) => Over(k)'
    BY <1>2, Operations DEF EnterShutdown, Over, t
  <2> QED
    BY <1>1, <1>2, <1>3, <2>1, ManagersAre, Classes, Somebody
    DEF EnterShutdown, Live, DaemonInv, LiveInv, OverInv, Tidy
<1> QED
  BY <1>4, <1>5, <1>6, <1>7, <1>8, <1>9, <1>10 DEF Live, DaemonInv, LiveInv, EnterShutdown

LEMMA CloseServerLive ==
    ASSUME Live, NEW g \in Goroutines, CloseServer(g) PROVE Live'
<1>1. /\ g \notin Restarters /\ todo[g] = Closing
      /\ todo[g] \notin RunTodos \cup {<<>>, GivingUp} /\ todo[Main] # <<>>
  BY InShutdown DEF Live, DaemonInv, CloseServer
<1>2. todo' = [todo EXCEPT ![g] = Draining] /\ \A h \in Goroutines : todo'[h] = IF h = g THEN Draining ELSE todo[h]
  BY <1>1, ShutdownShapes DEF CloseServer, Done, Becomes, Live, DaemonInv, TodoInv
<1>3. Draining \in Locked \ Drained /\ Closing \in Locked /\ Draining \notin RunTodos \cup {<<>>, GivingUp}
  BY Classes, ShapesDisjoint
<1>4. DaemonTypes'
  BY DEF CloseServer, Live, DaemonInv, DaemonTypes
<1>5. TodoInv'
  BY <1>1, <1>2, <1>3, GoroutinesAssumption DEF Live, DaemonInv, TodoInv, Goroutines
<1>6. MuInv'
  <2>1. \A k \in Managers : ~Busy(todo[g], k) /\ ~Busy(Draining, k)
    BY <1>1, Operations
  <2> QED
    BY <1>2, <2>1, MutexKept DEF CloseServer, Live, DaemonInv
<1>7. CloseInv'
  BY <1>1, <1>2, <1>3, Classes, Somebody DEF CloseServer, Live, DaemonInv, LiveInv, CloseInv
<1>8. EarlyInv'
  BY <1>1, <1>2, <1>3, Classes, Somebody
  DEF CloseServer, Live, DaemonInv, LiveInv, CloseInv, EarlyInv
<1>9. ExitInv' /\ ModeInv'
  BY <1>1, <1>2, <1>3, Classes, Somebody
  DEF CloseServer, Live, DaemonInv, LiveInv, CloseInv, ExitInv, ModeInv
<1>10. OverInv'
  <2>1. \A k \in Managers : Over(k) => Over(k)'
    BY <1>2, Operations DEF CloseServer, Over
  <2> QED
    BY <1>1, <1>2, <1>3, <2>1, ManagersAre, Classes, Somebody
    DEF CloseServer, Live, DaemonInv, LiveInv, OverInv, Tidy
<1> QED
  BY <1>4, <1>5, <1>6, <1>7, <1>8, <1>9, <1>10 DEF Live, DaemonInv, LiveInv, CloseServer

LEMMA DrainLive ==
    ASSUME Live, NEW g \in Goroutines, Drain(g) PROVE Live'
<1>1. /\ g \notin Restarters /\ todo[g] = Draining
      /\ todo[g] \notin RunTodos \cup {<<>>, GivingUp} /\ todo[Main] # <<>>
  BY InShutdown DEF Live, DaemonInv, Drain
<1>2. todo' = [todo EXCEPT ![g] = Removing] /\ \A h \in Goroutines : todo'[h] = IF h = g THEN Removing ELSE todo[h]
  BY <1>1, ShutdownShapes DEF Drain, Done, Becomes, Live, DaemonInv, TodoInv
<1>3. Removing \in Drained \ FileGone /\ Draining \in Locked /\ Removing \in Locked /\ Removing \notin RunTodos \cup {<<>>, GivingUp}
  BY Classes, ShapesDisjoint
<1>4. DaemonTypes'
  BY DEF Drain, Live, DaemonInv, DaemonTypes, Mishaps
<1>5. TodoInv'
  BY <1>1, <1>2, <1>3, GoroutinesAssumption DEF Live, DaemonInv, TodoInv, Goroutines
<1>6. MuInv'
  <2>1. \A k \in Managers : ~Busy(todo[g], k) /\ ~Busy(Removing, k)
    BY <1>1, Operations
  <2> QED
    BY <1>2, <2>1, MutexKept DEF Drain, Live, DaemonInv
<1>7. CloseInv'
  BY <1>1, <1>2, <1>3, Classes, Somebody DEF Drain, Live, DaemonInv, LiveInv, CloseInv
<1>8. EarlyInv'
  BY <1>1, <1>2, <1>3, Classes, Somebody
  DEF Drain, Live, DaemonInv, LiveInv, CloseInv, EarlyInv
<1>9. ExitInv' /\ ModeInv'
  BY <1>1, <1>2, <1>3, Classes, Somebody
  DEF Drain, Live, DaemonInv, LiveInv, CloseInv, ExitInv, ModeInv
<1>10. OverInv'
  <2>1. \A k \in Managers : Over(k) => Over(k)'
    BY <1>2, Operations DEF Drain, Over
  <2>2. Tidy' => Tidy /\ \A h \in Restarters : todo[h] = <<>>
    BY DEF Drain, Tidy
  <2>3. Tidy' => \A h \in Restarters : todo'[h] = <<>>
    BY <1>1, <1>2, <2>2 DEF Goroutines
  <2> QED
    BY <1>1, <1>2, <1>3, <2>1, <2>2, <2>3, ManagersAre, Classes, Somebody
    DEF Drain, Live, DaemonInv, LiveInv, OverInv, Tidy
<1> QED
  BY <1>4, <1>5, <1>6, <1>7, <1>8, <1>9, <1>10 DEF Live, DaemonInv, LiveInv, Drain

LEMMA RemoveFileLive ==
    ASSUME Live, NEW g \in Goroutines, RemoveFile(g) PROVE Live'
<1>1. /\ g \notin Restarters /\ todo[g] = Removing
      /\ todo[g] \notin RunTodos \cup {<<>>, GivingUp} /\ todo[Main] # <<>>
  BY InShutdown DEF Live, DaemonInv, RemoveFile
<1>2. todo' = [todo EXCEPT ![g] = StopTunnel] /\ \A h \in Goroutines : todo'[h] = IF h = g THEN StopTunnel ELSE todo[h]
  BY <1>1, ShutdownShapes DEF RemoveFile, Done, Becomes, Live, DaemonInv, TodoInv
<1>3. StopTunnel \in FileGone \ TunnelDone /\ Removing \in Drained /\ Removing \in Locked /\ StopTunnel \in Drained /\ StopTunnel \in Locked /\ StopTunnel \notin RunTodos \cup {<<>>, GivingUp}
  BY Classes, ShapesDisjoint
<1>4. DaemonTypes'
  BY DEF RemoveFile, Live, DaemonInv, DaemonTypes, Mishaps
<1>5. TodoInv'
  BY <1>1, <1>2, <1>3, GoroutinesAssumption DEF Live, DaemonInv, TodoInv, Goroutines
<1>6. MuInv'
  <2>1. \A k \in Managers : ~Busy(todo[g], k) /\ ~Busy(StopTunnel, k)
    BY <1>1, Operations
  <2> QED
    BY <1>2, <2>1, MutexKept DEF RemoveFile, Live, DaemonInv
<1>7. CloseInv'
  BY <1>1, <1>2, <1>3, Classes, Somebody DEF RemoveFile, Live, DaemonInv, LiveInv, CloseInv
<1>8. EarlyInv'
  BY <1>1, <1>2, <1>3, Classes, Somebody
  DEF RemoveFile, Live, DaemonInv, LiveInv, CloseInv, EarlyInv
<1>9. ExitInv' /\ ModeInv'
  BY <1>1, <1>2, <1>3, Classes, Somebody
  DEF RemoveFile, Live, DaemonInv, LiveInv, CloseInv, ExitInv, ModeInv
<1>10. OverInv'
  <2>1. \A k \in Managers : Over(k) => Over(k)'
    BY <1>2, Operations DEF RemoveFile, Over
  <2>2. Tidy' <=> Tidy
    BY DEF RemoveFile, Tidy
  <2> QED
    BY <1>1, <1>2, <1>3, <2>1, <2>2, ManagersAre, Classes, Somebody
    DEF RemoveFile, Live, DaemonInv, LiveInv, OverInv
<1> QED
  BY <1>4, <1>5, <1>6, <1>7, <1>8, <1>9, <1>10 DEF Live, DaemonInv, LiveInv, RemoveFile

LEMMA LeaveShutdownLive ==
    ASSUME Live, NEW g \in Goroutines, LeaveShutdown(g) PROVE Live'
<1>1. /\ g \notin Restarters /\ todo[g] = Leaving
      /\ todo[g] \notin RunTodos \cup {<<>>, GivingUp} /\ todo[Main] # <<>>
  BY InShutdown DEF Live, DaemonInv, LeaveShutdown
<1>2. todo' = [todo EXCEPT ![g] = <<>>] /\ \A h \in Goroutines : todo'[h] = IF h = g THEN <<>> ELSE todo[h]
  <2>1. Tail(todo[g]) = <<>>
    BY <1>1, ShutdownShapes
  <2> QED
    BY <2>1 DEF LeaveShutdown, Done, Becomes, Live, DaemonInv, TodoInv
<1>3. Leaving \in TunnelDone /\ Leaving \in FileGone /\ Leaving \in Drained /\ Leaving \in Locked /\ <<>> \notin Locked \cup RunTodos
  BY Classes, ShapesDisjoint
<1>4. DaemonTypes'
  BY DEF LeaveShutdown, Live, DaemonInv, DaemonTypes
<1>5. TodoInv'
  BY <1>1, <1>2, Classes, GoroutinesAssumption DEF Live, DaemonInv, TodoInv, Goroutines
<1>6. MuInv'
  <2>1. \A k \in Managers : ~Busy(todo[g], k) /\ ~Busy(<<>>, k)
    BY <1>1, Operations
  <2> QED
    BY <1>2, <2>1, MutexKept DEF LeaveShutdown, Live, DaemonInv
<1>7. CloseInv'
  BY <1>1, <1>2, <1>3, Classes, Somebody DEF LeaveShutdown, Live, DaemonInv, LiveInv, CloseInv
<1>8. EarlyInv'
  BY <1>1, <1>2, <1>3, Classes, ShapesDisjoint, Somebody
  DEF LeaveShutdown, Live, DaemonInv, LiveInv, CloseInv, EarlyInv
<1>9. ExitInv' /\ ModeInv'
  BY <1>1, <1>2, <1>3, Classes, Somebody
  DEF LeaveShutdown, Live, DaemonInv, LiveInv, CloseInv, ExitInv, ModeInv
<1>10. OverInv'
  <2>1. \A k \in Managers : Over(k) => Over(k)'
    BY <1>2, Operations DEF LeaveShutdown, Over
  <2>2. Tidy => (\A h \in Restarters : todo[h] = <<>>) /\ Over("tunnel") /\ Over("app")
    BY <1>1, <1>3 DEF Live, DaemonInv, LiveInv, OverInv, Tidy
  <2>3. ASSUME Tidy, g = Main, NEW k \in Managers PROVE mode[k] = "stopped"
    <3>1. \A h \in Goroutines : ~Busy(todo[h], k)
      <4>1. \A h \in Goroutines \ {Main} : todo[h] \notin Locked
        BY <1>1, <1>3, <2>3 DEF Live, DaemonInv, LiveInv, CloseInv
      <4>2. \A h \in Restarters : todo[h] = <<>>
        BY <2>2, <2>3
      <4>3. \A h \in Goroutines : todo[h] \in {<<>>, ShutdownSteps, Leaving}
        BY <1>1, <2>3, <4>1, <4>2 DEF Goroutines, Live, DaemonInv, TodoInv
      <4> QED
        BY <4>3, Operations
    <3>2. mu[k] \notin Goroutines
      BY <3>1 DEF Live, DaemonInv, DaemonTypes, MuInv
    <3>3. Over(k)
      BY <2>2, <2>3 DEF Managers
    <3> QED
      BY <3>2, <3>3 DEF Over, Live, DaemonInv, LiveInv, ModeInv, DaemonTypes
  <2>4. Tidy => \A h \in Restarters : todo'[h] = <<>>
    BY <1>1, <1>2, <2>2 DEF Goroutines
  <2>5. Tidy /\ todo'[Main] = <<>> => \A k \in Managers : mode'[k] = "stopped"
    BY <1>1, <1>2, <2>3, Somebody DEF LeaveShutdown
  <2>6. Tidy => Over("tunnel")' /\ Over("app")'
    BY <2>1, <2>2, ManagersAre
  <2> QED
    BY <2>4, <2>5, <2>6 DEF LeaveShutdown, OverInv, Tidy
<1> QED
  BY <1>4, <1>5, <1>6, <1>7, <1>8, <1>9, <1>10 DEF Live, DaemonInv, LiveInv, LeaveShutdown

-----------------------------------------------------------------------------
(* The daemon: Start and Stop of a manager *)

\* A goroutine that has got past the state file, that serves a restart or that has
\* removed the file again moves on.
LEMMA MovesOn ==
    ASSUME Live, NEW g \in Goroutines, NEW t, todo' = [todo EXCEPT ![g] = t], todo[Main] # <<>>,
           \/ /\ g = Main /\ todo[g] \in RunTodos \ EarlyTodos
              /\ t \in (RunTodos \ EarlyTodos) \cup {ShutdownSteps}
           \/ /\ g \in Restarters /\ todo[g] # <<>> /\ t \in RestartTodos
           \/ /\ g \notin Restarters /\ todo[g] \in FileGone /\ t \in FileGone
              /\ Tidy' /\ t \in TunnelDone => Over("tunnel")'
              /\ Tidy' /\ t = Leaving => Over("app")',
           UNCHANGED <<server, file, killed, ctxDone, closeMu, closed>>,
           mishaps' \in {mishaps, mishaps \cup {"lucky"}},
           DaemonTypes', MuInv', ModeInv',
           Tidy' /\ (closed \/ \E h \in Goroutines : todo[h] \in Drained)
              => \A k \in Managers : Over(k) => Over(k)'
    PROVE  Live'
<1>1. \A h \in Goroutines : todo'[h] = IF h = g THEN t ELSE todo[h]
  BY DEF Live, DaemonInv, TodoInv
<1>2. /\ t \notin EarlyTodos /\ (t \in Locked <=> todo[g] \in Locked) /\ todo[g] \notin EarlyTodos \cup {<<>>}
      /\ t \in Locked => todo[g] \in FileGone /\ t \in FileGone
      /\ t # Draining
      /\ g = Main => t # <<>>
  <2>1. CASE g = Main /\ todo[g] \in RunTodos \ EarlyTodos
    BY <2>1, Classes, ShapesDisjoint, ShutdownShapes, Somebody
  <2>2. CASE g \in Restarters /\ todo[g] # <<>> /\ t \in RestartTodos
    <3>1. todo[Main] \notin EarlyTodos
      BY <2>2, Somebody DEF Live, DaemonInv, LiveInv, EarlyInv
    <3>2. todo[g] \in RestartTodos /\ g # Main
      BY <2>2, Somebody DEF Live, DaemonInv, TodoInv
    <3>3. \A u \in RestartTodos : u \notin EarlyTodos
      <4>1. \A u \in RestartTodos : u = <<>> \/ Head(u).do \in Starts \cup {"stop", "stopping"}
        BY RestartShapes DEF RestartTodos, Starts
      <4> QED
        BY <4>1, RunShapes DEF EarlyTodos, Starts
    <3> QED
      BY <2>2, <3>2, <3>3, ShapesDisjoint, Classes
  <2>3. CASE g \notin Restarters /\ todo[g] \in FileGone /\ t \in FileGone
    BY <2>3, Classes, ShapesDisjoint
  <2> QED
    BY <2>1, <2>2, <2>3
<1>3. todo[Main] \notin EarlyTodos
  BY <1>2, Somebody DEF Live, DaemonInv, LiveInv, EarlyInv
<1>4. TodoInv'
  BY <1>1, <1>2, Classes, GoroutinesAssumption, Somebody DEF Live, DaemonInv, TodoInv, Goroutines
<1>5. CloseInv'
  BY <1>1, <1>2, Classes, Somebody DEF Live, DaemonInv, LiveInv, CloseInv
<1>6. EarlyInv' /\ ExitInv'
  BY <1>1, <1>2, <1>3, Classes, ShapesDisjoint, Somebody DEF Live, DaemonInv, LiveInv, EarlyInv, ExitInv
<1>7. OverInv'
  <2>0. SUFFICES ASSUME Tidy, Tidy' PROVE OverInv'
    BY DEF OverInv, Tidy
  <2>1. todo'[Main] # <<>>
    BY <1>1, <1>2, Somebody
  <2>2. \A h \in Goroutines : todo'[h] \in Drained => todo[h] \in Drained
    BY <1>1, <1>2, Classes
  <2>3. ASSUME closed \/ \E h \in Goroutines : todo[h] \in Drained
        PROVE  g \notin Restarters /\ \A h \in Restarters : todo'[h] = <<>>
    <3>1. \A h \in Restarters : todo[h] = <<>>
      BY <2>0, <2>3 DEF Live, DaemonInv, LiveInv, OverInv, Tidy
    <3>2. g \notin Restarters
      BY <1>2, <3>1
    <3> QED
      BY <1>1, <3>1, <3>2 DEF Goroutines
  <2>4. (\E h \in Goroutines : todo'[h] \in TunnelDone) \/ closed => Over("tunnel")'
    <3>1. CASE t \in TunnelDone /\ t \notin RestartTodos
      BY <2>0, <3>1, Classes, ShapesDisjoint
    <3>2. CASE (\E h \in Goroutines \ {g} : todo[h] \in TunnelDone) \/ closed
      BY <2>0, <3>2, Classes, ManagersAre DEF Live, DaemonInv, LiveInv, OverInv, Tidy
    <3> QED
      BY <1>1, <3>1, <3>2, Classes, ShapesDisjoint
  <2>5. (\E h \in Goroutines : todo'[h] = Leaving) \/ closed => Over("app")'
    <3>1. CASE t = Leaving
      BY <2>0, <3>1, Classes, ShapesDisjoint
    <3>2. CASE (\E h \in Goroutines \ {g} : todo[h] = Leaving) \/ closed
      BY <2>0, <3>2, Classes, ManagersAre DEF Live, DaemonInv, LiveInv, OverInv, Tidy
    <3> QED
      BY <1>1, <3>1, <3>2
  <2> QED
    BY <2>1, <2>2, <2>3, <2>4, <2>5 DEF OverInv, Tidy
<1> QED
  BY <1>4, <1>5, <1>6, <1>7 DEF Live, DaemonInv, LiveInv

LEMMA StartPlace ==
    ASSUME TodoInv, NEW g \in Goroutines, NEW do \in Starts, Doing(g, do)
    PROVE  /\ On(g) \in Managers /\ todo[Main] # <<>> /\ todo[g] # <<>>
           /\ \/ g = Main /\ On(g) = "app" /\ todo[g] = StartApp(do)
              \/ g = Main /\ On(g) = "tunnel" /\ todo[g] = StartTunnel(do)
              \/ g \in Restarters /\ do # "belated" /\ todo[g] = StartAgain(do, On(g))
<1>1. todo[g] # <<>> /\ todo[Main] # <<>> /\ Head(todo[g]).do = do
  BY DEF Doing, Exited
<1> QED
  BY <1>1, Places DEF On

\* A start that begins, in a daemon whose shutdown may have stopped the manager.
LEMMA StartBeginsLive ==
    ASSUME Live, NEW g \in Goroutines, StartBegins(g) PROVE Live'
<1> DEFINE k == On(g)
<1>0. Doing(g, "start") /\ "start" \in Starts /\ "starting" \in Starts /\ "belated" \in Starts
  BY DEF StartBegins, Starts
<1>1. /\ k \in Managers /\ todo[Main] # <<>> /\ todo[g] # <<>>
      /\ \/ g = Main /\ k = "app" /\ todo[g] = StartApp("start")
         \/ g = Main /\ k = "tunnel" /\ todo[g] = StartTunnel("start")
         \/ g \in Restarters /\ todo[g] = StartAgain("start", k)
  BY <1>0, StartPlace DEF Live, DaemonInv
<1> HIDE DEF k
<1>2. CASE /\ mu[k] = Nobody /\ mode[k] # "running"
           /\ mode' = [mode EXCEPT ![k] = "starting"]
           /\ mu' = [mu EXCEPT ![k] = g]
           /\ Now(g, IF g = Main /\ ctxDone THEN "belated" ELSE "starting")
  <2> DEFINE do == IF g = Main /\ ctxDone THEN "belated" ELSE "starting"
             t == IF g \in Restarters THEN StartAgain(do, k)
                  ELSE IF k = "app" THEN StartApp(do) ELSE StartTunnel(do)
  <2>0. do \in Starts \ {"start"} /\ (g \in Restarters => do = "starting")
    BY Somebody DEF Starts
  <2> HIDE DEF do
  <2>1. todo' = [todo EXCEPT ![g] = t]
    <3>1. [todo[g] EXCEPT ![1] = ManagerStep(do, k)] = t
      <4>a. CASE g = Main /\ k = "app" /\ todo[g] = StartApp("start")
        <5>1. [StartApp("start") EXCEPT ![1] = ManagerStep(do, "app")] = StartApp(do)
          BY <2>0, RunShapes
        <5> QED
          BY <4>a, <5>1, Somebody
      <4>b. CASE g = Main /\ k = "tunnel" /\ todo[g] = StartTunnel("start")
        <5>1. [StartTunnel("start") EXCEPT ![1] = ManagerStep(do, "tunnel")] = StartTunnel(do)
          BY <2>0, RunShapes
        <5> QED
          BY <4>b, <5>1, Somebody
      <4>c. CASE g \in Restarters /\ todo[g] = StartAgain("start", k)
        BY <4>c, <1>1, <2>0, RunShapes, RestartShapes, ManagersAre, Somebody
      <4> QED
        BY <1>1, <4>a, <4>b, <4>c
    <3> QED
      BY <1>2, <3>1 DEF Now, Becomes, do, k
  <2>2. \A m \in Managers : /\ mode'[m] = IF m = k THEN "starting" ELSE mode[m]
                            /\ mu'[m] = IF m = k THEN g ELSE mu[m]
    BY <1>2 DEF Live, DaemonInv, DaemonTypes
  <2>3. DaemonTypes'
    BY <1>1, <1>2, Somebody DEF StartBegins, Live, DaemonInv, DaemonTypes
  <2>4. \A m \in Managers : ~Busy(todo[g], m) /\ (Busy(t, m) <=> m = k)
    <3>a. CASE g = Main /\ k = "app" /\ todo[g] = StartApp("start")
      BY <3>a, <1>1, <2>0, Operations, ManagersAre, Somebody
    <3>b. CASE g = Main /\ k = "tunnel" /\ todo[g] = StartTunnel("start")
      BY <3>b, <1>1, <2>0, Operations, ManagersAre, Somebody
    <3>c. CASE g \in Restarters /\ todo[g] = StartAgain("start", k)
      BY <3>c, <1>1, <2>0, Operations, ManagersAre, Somebody
    <3> QED
      BY <1>1, <3>a, <3>b, <3>c
  <2>5. MuInv'
    <3> HIDE DEF t
    <3>1. \E n \in Managers :
             /\ mu[n] = Nobody /\ mu' = [mu EXCEPT ![n] = g]
             /\ \A m \in Managers : ~Busy(todo[g], m) /\ (Busy(t, m) <=> m = n)
      BY <1>1, <1>2, <2>4
    <3> QED
      BY <2>1, <3>1, MutexKept DEF Live, DaemonInv
  <2>6. ModeInv'
    <3>1. ModeInv
      BY DEF Live, DaemonInv, LiveInv
    <3> QED
      BY <2>2, <3>1, Somebody DEF ModeInv
  <2>7. ASSUME Tidy, closed \/ \E h \in Goroutines : todo[h] \in Drained, NEW m \in Managers, Over(m)
        PROVE  Over(m)'
    <3>1. g = Main /\ ctxDone
      <4>1. closeMu # Nobody \/ closed
        BY <2>7, Classes, Somebody DEF Live, DaemonInv, LiveInv, CloseInv
      <4>2. \A h \in Restarters : todo[h] = <<>>
        BY <2>7 DEF Live, DaemonInv, LiveInv, OverInv, Tidy
      <4> QED
        BY <1>1, <4>1, <4>2 DEF Live, DaemonInv, LiveInv, CloseInv
    <3>2. ~Does(t, "starting", m)
      BY <1>1, <2>0, <3>1, Operations, Somebody DEF do
    <3> HIDE DEF t
    <3>3. \A h \in Goroutines : todo'[h] = IF h = g THEN t ELSE todo[h]
      BY <2>1 DEF Live, DaemonInv, TodoInv
    <3> QED
      BY <2>2, <2>7, <3>2, <3>3 DEF Over
  <2>8. \/ g = Main /\ todo[g] \in RunTodos \ EarlyTodos /\ t \in RunTodos \ EarlyTodos
        \/ g \in Restarters /\ t \in RestartTodos
    BY <1>0, <1>1, <2>0, Classes, Somebody
  <2>9. UNCHANGED <<server, file, killed, ctxDone, closeMu, closed, mishaps>> /\ (Tidy' <=> Tidy)
    BY DEF StartBegins, Tidy
  <2> HIDE DEF t
  <2> QED
    BY <1>1, <2>1, <2>3, <2>5, <2>6, <2>7, <2>8, <2>9, MovesOn
<1>3. CASE Done(g) /\ UNCHANGED <<mode, mu>>
  <2> DEFINE t == IF g \in Restarters THEN <<>>
                  ELSE IF k = "app" THEN StartTunnel("start") ELSE Awaiting
  <2>1. todo' = [todo EXCEPT ![g] = t]
    <3>1. Tail(todo[g]) = t
      <4>a. CASE g = Main /\ k = "app" /\ todo[g] = StartApp("start")
        BY <4>a, <1>0, <1>1, RunShapes, RestartShapes, ManagersAre, Somebody
      <4>b. CASE g = Main /\ k = "tunnel" /\ todo[g] = StartTunnel("start")
        BY <4>b, <1>0, <1>1, RunShapes, RestartShapes, ManagersAre, Somebody
      <4>c. CASE g \in Restarters /\ todo[g] = StartAgain("start", k)
        BY <4>c, <1>0, <1>1, RunShapes, RestartShapes, ManagersAre, Somebody
      <4> QED
        BY <1>1, <4>a, <4>b, <4>c
    <3> QED
      BY <1>3, <3>1 DEF Done, Becomes
  <2>2. DaemonTypes' /\ ModeInv'
    BY <1>3 DEF StartBegins, Live, DaemonInv, DaemonTypes, LiveInv, ModeInv
  <2>3. \A m \in Managers : ~Busy(todo[g], m) /\ ~Busy(t, m) /\ ~Does(t, "starting", m)
    BY <1>1, Operations, Somebody
  <2>4. MuInv'
    BY <1>3, <2>1, <2>3, MutexKept DEF Live, DaemonInv
  <2>5. \/ g = Main /\ todo[g] \in RunTodos \ EarlyTodos /\ t \in RunTodos \ EarlyTodos
        \/ g \in Restarters /\ t \in RestartTodos
    BY <1>0, <1>1, Classes, Somebody
  <2> HIDE DEF t
  <2>6. \A m \in Managers : Over(m) => Over(m)'
    BY <1>3, <2>1, <2>3 DEF Over, Live, DaemonInv, TodoInv
  <2>7. UNCHANGED <<server, file, killed, ctxDone, closeMu, closed, mishaps>>
    BY DEF StartBegins
  <2> QED
    BY <1>1, <2>1, <2>2, <2>4, <2>5, <2>6, <2>7, MovesOn
<1> QED
  BY <1>2, <1>3 DEF StartBegins, k

\* An operation gives its manager's mutex back, the process running or stopped.
LEMMA OperationEnds ==
    ASSUME Live, NEW g \in Goroutines, NEW t, NEW k \in Managers, NEW phase \in {"running", "stopped"},
           Busy(todo[g], k), phase = "running" => Does(todo[g], "starting", k) \/ ~Tidy',
           \A m \in Managers : ~Busy(t, m) /\ ~Does(t, "starting", m),
           todo' = [todo EXCEPT ![g] = t], mode' = [mode EXCEPT ![k] = phase], mu' = [mu EXCEPT ![k] = Nobody],
           condemned' \subseteq Managers, mishaps' \in {mishaps, mishaps \cup {"lucky"}},
           UNCHANGED <<server, file, killed, ctxDone, closeMu, closed>>
    PROVE  /\ DaemonTypes' /\ MuInv' /\ ModeInv'
           /\ Tidy' => \A m \in Managers : Over(m) => Over(m)'
           /\ phase = "stopped" => Over(k)'
<1>1. /\ \A m \in Managers : /\ mode'[m] = IF m = k THEN phase ELSE mode[m]
                             /\ mu'[m] = IF m = k THEN Nobody ELSE mu[m]
      /\ \A h \in Goroutines : todo'[h] = IF h = g THEN t ELSE todo[h]
  BY DEF Live, DaemonInv, DaemonTypes, TodoInv
<1>2. DaemonTypes'
  BY Somebody, ManagersAre DEF Live, DaemonInv, DaemonTypes, Mishaps
<1>3. MuInv'
  BY MutexKept DEF Live, DaemonInv
<1>4. ModeInv'
  BY <1>1 DEF Live, DaemonInv, LiveInv, ModeInv
<1>5. Tidy' => \A m \in Managers : Over(m) => Over(m)'
  BY <1>1 DEF Over
<1>6. ASSUME phase = "stopped" PROVE Over(k)'
  <2>1. \A h \in Goroutines \ {g} : ~Busy(todo[h], k)
    BY DEF Live, DaemonInv, MuInv
  <2>2. \A h \in Goroutines \ {g} : ~Does(todo[h], "starting", k)
    BY <2>1 DEF Busy
  <2> QED
    BY <1>1, <1>6, <2>2 DEF Over
<1> QED
  BY <1>2, <1>3, <1>4, <1>5, <1>6

LEMMA StartSucceedsLive ==
    ASSUME Live, NEW g \in Goroutines, StartSucceeds(g) PROVE Live'
<1> DEFINE k == On(g)
           t == IF g \in Restarters THEN <<>> ELSE IF k = "app" THEN StartTunnel("start") ELSE Awaiting
<1>0. PICK do \in {"starting", "belated"} : Doing(g, do)
  BY DEF StartSucceeds
<1>1. /\ do \in Starts \ {"start"} /\ "start" \in Starts
      /\ k \in Managers /\ todo[Main] # <<>> /\ todo[g] # <<>>
      /\ \/ g = Main /\ k = "app" /\ todo[g] = StartApp(do)
         \/ g = Main /\ k = "tunnel" /\ todo[g] = StartTunnel(do)
         \/ g \in Restarters /\ todo[g] = StartAgain(do, k)
  BY <1>0, StartPlace DEF Live, DaemonInv, Starts
<1>2. /\ mode' = [mode EXCEPT ![k] = "running"] /\ mu' = [mu EXCEPT ![k] = Nobody] /\ Done(g)
      /\ UNCHANGED <<server, file, killed, ctxDone, closeMu, closed>> /\ condemned' = condemned
      /\ mishaps' \in {mishaps, mishaps \cup {"lucky"}}
      /\ do = "belated" => ~Tidy'
  BY <1>0 DEF StartSucceeds, Tidy
<1> HIDE DEF k
<1>3. /\ Tail(todo[g]) = t /\ Busy(todo[g], k) /\ (do = "starting" => Does(todo[g], "starting", k))
      /\ \A m \in Managers : ~Busy(t, m) /\ ~Does(t, "starting", m)
      /\ \/ g = Main /\ todo[g] \in RunTodos \ EarlyTodos /\ t \in RunTodos \ EarlyTodos
         \/ g \in Restarters /\ t \in RestartTodos
  <2>1. CASE g = Main /\ k = "app" /\ todo[g] = StartApp(do)
    BY <1>1, <2>1, RunShapes, Operations, Classes, Somebody
  <2>2. CASE g = Main /\ k = "tunnel" /\ todo[g] = StartTunnel(do)
    BY <1>1, <2>2, RunShapes, Operations, Classes, Somebody, ManagersAre
  <2>3. CASE g \in Restarters /\ todo[g] = StartAgain(do, k)
    BY <1>1, <2>3, RestartShapes, Operations, Classes
  <2> QED
    BY <1>1, <2>1, <2>2, <2>3
<1> HIDE DEF t
<1>4. todo' = [todo EXCEPT ![g] = t]
  BY <1>2, <1>3 DEF Done, Becomes
<1>5. condemned' \subseteq Managers
  BY <1>2 DEF Live, DaemonInv, DaemonTypes
<1>6. DaemonTypes' /\ MuInv' /\ ModeInv' /\ (Tidy' => \A m \in Managers : Over(m) => Over(m)')
  BY <1>0, <1>1, <1>2, <1>3, <1>4, <1>5, OperationEnds
<1> QED
  BY <1>1, <1>2, <1>3, <1>4, <1>6, MovesOn

LEMMA StartFailsLive ==
    ASSUME Live, NEW g \in Goroutines, StartFails(g) PROVE Live'
<1> DEFINE k == On(g)
           t == IF g = Main THEN ShutdownSteps ELSE <<>>
<1>0. PICK do \in Starts \ {"start"} : Doing(g, do)
  BY DEF StartFails, Starts
<1>1. /\ k \in Managers /\ todo[Main] # <<>> /\ todo[g] # <<>>
      /\ \/ g = Main /\ k = "app" /\ todo[g] = StartApp(do)
         \/ g = Main /\ k = "tunnel" /\ todo[g] = StartTunnel(do)
         \/ g \in Restarters /\ todo[g] = StartAgain(do, k)
  BY <1>0, StartPlace DEF Live, DaemonInv
<1>2. /\ mode' = [mode EXCEPT ![k] = "stopped"] /\ mu' = [mu EXCEPT ![k] = Nobody]
      /\ todo' = [todo EXCEPT ![g] = t]
      /\ UNCHANGED <<server, file, killed, ctxDone, closeMu, closed, mishaps>>
      /\ condemned' \subseteq Managers
  BY <1>1 DEF StartFails, Fail, Becomes, Live, DaemonInv, DaemonTypes
<1> HIDE DEF k
<1>3. /\ Busy(todo[g], k)
      /\ \A m \in Managers : ~Busy(t, m) /\ ~Does(t, "starting", m)
      /\ \/ g = Main /\ todo[g] \in RunTodos \ EarlyTodos /\ t = ShutdownSteps
         \/ g \in Restarters /\ t \in RestartTodos
  <2>1. CASE g = Main /\ k = "app" /\ todo[g] = StartApp(do)
    BY <1>0, <1>1, <2>1, Operations, Classes, Somebody
  <2>2. CASE g = Main /\ k = "tunnel" /\ todo[g] = StartTunnel(do)
    BY <1>0, <1>1, <2>2, Operations, Classes, Somebody
  <2>3. CASE g \in Restarters /\ todo[g] = StartAgain(do, k)
    BY <1>0, <1>1, <2>3, Operations, Classes, Somebody
  <2> QED
    BY <1>1, <2>1, <2>2, <2>3
<1> HIDE DEF t
<1>4. DaemonTypes' /\ MuInv' /\ ModeInv' /\ (Tidy' => \A m \in Managers : Over(m) => Over(m)')
  BY <1>1, <1>2, <1>3, OperationEnds
<1> QED
  BY <1>1, <1>2, <1>3, <1>4, MovesOn

LEMMA StopPlace ==
    ASSUME TodoInv, NEW g \in Goroutines, NEW do \in {"stop", "stopping"}, Doing(g, do)
    PROVE  /\ On(g) \in Managers /\ todo[Main] # <<>> /\ todo[g] # <<>>
           /\ do = "stop" => \/ g \notin Restarters /\ On(g) = "app" /\ todo[g] = StopApp
                             \/ g \notin Restarters /\ On(g) = "tunnel" /\ todo[g] = StopTunnel
                             \/ g \in Restarters /\ todo[g] = RestartSteps(On(g))
           /\ do = "stopping" => \/ g \notin Restarters /\ On(g) = "app" /\ todo[g] = AppStops
                                 \/ g \notin Restarters /\ On(g) = "tunnel" /\ todo[g] = TunnelStops
                                 \/ g \in Restarters /\ todo[g] = StopAgain(On(g))
<1>1. todo[g] # <<>> /\ todo[Main] # <<>> /\ Head(todo[g]).do = do
  BY DEF Doing, Exited
<1> QED
  BY <1>1, Places DEF On

LEMMA StopBeginsLive ==
    ASSUME Live, NEW g \in Goroutines, StopBegins(g) PROVE Live'
<1> DEFINE k == On(g)
           t == IF g \in Restarters THEN StopAgain(k) ELSE IF k = "app" THEN AppStops ELSE TunnelStops
<1>0. Doing(g, "stop")
  BY DEF StopBegins
<1>1. /\ k \in Managers /\ todo[Main] # <<>> /\ todo[g] # <<>>
      /\ \/ g \notin Restarters /\ k = "app" /\ todo[g] = StopApp
         \/ g \notin Restarters /\ k = "tunnel" /\ todo[g] = StopTunnel
         \/ g \in Restarters /\ todo[g] = RestartSteps(k)
  BY <1>0, StopPlace DEF Live, DaemonInv
<1>2. /\ mode' = [mode EXCEPT ![k] = IF @ = "running" THEN "stopping" ELSE @]
      /\ mu[k] = Nobody /\ mu' = [mu EXCEPT ![k] = g]
      /\ Becomes(g, [todo[g] EXCEPT ![1] = ManagerStep("stopping", k)])
      /\ UNCHANGED <<server, file, killed, ctxDone, closeMu, closed, condemned, mishaps>>
  BY DEF StopBegins, Now
<1> HIDE DEF k
<1>3. /\ [todo[g] EXCEPT ![1] = ManagerStep("stopping", k)] = t
      /\ \A m \in Managers : ~Busy(todo[g], m) /\ (Busy(t, m) <=> m = k) /\ ~Does(t, "starting", m)
      /\ \/ g \in Restarters /\ t \in RestartTodos
         \/ /\ g \notin Restarters /\ todo[g] \in FileGone /\ t \in FileGone
            /\ t \in TunnelDone => todo[g] \in TunnelDone
            /\ t # Leaving
  <2>1. CASE g \notin Restarters /\ k = "app" /\ todo[g] = StopApp
    <3>1. [StopApp EXCEPT ![1] = ManagerStep("stopping", "app")] = AppStops
      BY ShutdownShapes
    <3>2. t = AppStops
      BY <2>1
    <3> QED
      BY <2>1, <3>1, <3>2, Operations, Classes
  <2>2. CASE g \notin Restarters /\ k = "tunnel" /\ todo[g] = StopTunnel
    <3>1. [StopTunnel EXCEPT ![1] = ManagerStep("stopping", "tunnel")] = TunnelStops
      BY ShutdownShapes
    <3>2. t = TunnelStops
      BY <2>2, ManagersAre
    <3> QED
      BY <2>2, <3>1, <3>2, Operations, Classes
  <2>3. CASE g \in Restarters /\ todo[g] = RestartSteps(k)
    BY <1>1, <2>3, RestartShapes, Operations, Classes
  <2> QED
    BY <1>1, <2>1, <2>2, <2>3
<1> HIDE DEF t
<1>4. todo' = [todo EXCEPT ![g] = t]
  BY <1>2, <1>3 DEF Becomes
<1>5. /\ \A m \in Managers : /\ mode'[m] = IF m = k /\ mode[k] = "running" THEN "stopping" ELSE mode[m]
                             /\ mu'[m] = IF m = k THEN g ELSE mu[m]
      /\ \A h \in Goroutines : todo'[h] = IF h = g THEN t ELSE todo[h]
  BY <1>1, <1>2, <1>4 DEF Live, DaemonInv, DaemonTypes, TodoInv
<1>6. DaemonTypes'
  BY <1>1, <1>2, Somebody DEF Live, DaemonInv, DaemonTypes
<1>7. MuInv'
  <2>1. \E n \in Managers :
             /\ mu[n] = Nobody /\ mu' = [mu EXCEPT ![n] = g]
             /\ \A m \in Managers : ~Busy(todo[g], m) /\ (Busy(t, m) <=> m = n)
    BY <1>1, <1>2, <1>3
  <2> QED
    BY <1>4, <2>1, MutexKept DEF Live, DaemonInv
<1>8. ModeInv'
  <2>1. ModeInv
    BY DEF Live, DaemonInv, LiveInv
  <2> QED
    BY <1>5, <2>1, Somebody DEF ModeInv
<1>9. \A m \in Managers : Over(m) => Over(m)'
  BY <1>3, <1>5 DEF Over
<1>10. Tidy' /\ todo[g] \in TunnelDone => Over("tunnel")'
  BY <1>2, <1>9, ManagersAre DEF Live, DaemonInv, LiveInv, OverInv, Tidy
<1> QED
  BY <1>1, <1>2, <1>3, <1>4, <1>6, <1>7, <1>8, <1>9, <1>10, MovesOn

LEMMA StopEndsLive ==
    ASSUME Live, NEW g \in Goroutines, StopEnds(g) PROVE Live'
<1>0. Doing(g, "stopping")
  BY DEF StopEnds
<1>1. PICK k \in Managers :
      /\ k = On(g) /\ todo[Main] # <<>> /\ todo[g] # <<>>
      /\ \/ g \notin Restarters /\ k = "app" /\ todo[g] = AppStops
         \/ g \notin Restarters /\ k = "tunnel" /\ todo[g] = TunnelStops
         \/ g \in Restarters /\ todo[g] = StopAgain(k)
  BY <1>0, StopPlace DEF Live, DaemonInv
<1>2. /\ mode' = [mode EXCEPT ![k] = "stopped"] /\ mu' = [mu EXCEPT ![k] = Nobody]
      /\ Done(g) \/ (g \in Restarters /\ Fail(g))
      /\ UNCHANGED <<server, file, killed, ctxDone, closeMu, closed, mishaps>>
      /\ condemned' \subseteq Managers
  BY <1>1 DEF StopEnds, Live, DaemonInv, DaemonTypes
<1>3. PICK t : /\ todo' = [todo EXCEPT ![g] = t]
               /\ \/ g \notin Restarters /\ k = "app" /\ todo[g] = AppStops /\ t = Leaving
                  \/ g \notin Restarters /\ k = "tunnel" /\ todo[g] = TunnelStops /\ t = StopApp
                  \/ g \in Restarters /\ todo[g] = StopAgain(k) /\ t \in {<<>>, StartAgain("start", k)}
  <2>1. CASE Done(g)
    <3> DEFINE left == Tail(todo[g])
    <3>1. /\ todo[g] = AppStops => left = Leaving
          /\ todo[g] = TunnelStops => left = StopApp
          /\ todo[g] = StopAgain(k) => left = StartAgain("start", k)
      <4>1. /\ todo[g] = AppStops => left = Leaving
            /\ todo[g] = TunnelStops => left = StopApp
        BY ShutdownShapes
      <4>2. todo[g] = StopAgain(k) => left = StartAgain("start", k)
        BY RestartShapes
      <4> QED
        BY <4>1, <4>2
    <3>2. todo' = [todo EXCEPT ![g] = left]
      BY <2>1 DEF Done, Becomes
    <3> HIDE DEF left
    <3>3. \/ g \notin Restarters /\ k = "app" /\ todo[g] = AppStops /\ left = Leaving
          \/ g \notin Restarters /\ k = "tunnel" /\ todo[g] = TunnelStops /\ left = StopApp
          \/ g \in Restarters /\ todo[g] = StopAgain(k) /\ left \in {<<>>, StartAgain("start", k)}
      BY <1>1, <3>1
    <3> QED
      BY <3>2, <3>3
  <2>2. CASE g \in Restarters /\ Fail(g)
    BY <1>1, <2>2, Somebody DEF Fail, Becomes
  <2> QED
    BY <1>2, <2>1, <2>2
<1>4. /\ Busy(todo[g], k)
      /\ \A m \in Managers : ~Busy(t, m) /\ ~Does(t, "starting", m)
      /\ \/ g \in Restarters /\ t \in RestartTodos
         \/ /\ g \notin Restarters /\ todo[g] \in FileGone /\ t \in FileGone
            /\ k = "app" => todo[g] \in TunnelDone
            /\ t = Leaving => k = "app"
  BY <1>1, <1>3, Operations, Classes, ManagersAre DEF Starts
<1>5. /\ DaemonTypes' /\ MuInv' /\ ModeInv' /\ Over(k)'
      /\ Tidy' => \A m \in Managers : Over(m) => Over(m)'
  BY <1>1, <1>2, <1>3, <1>4, OperationEnds
<1>6. Tidy' /\ g \notin Restarters => Over("tunnel")'
  <2>1. CASE k = "tunnel"
    BY <1>5, <2>1
  <2>2. CASE k = "app"
    BY <1>2, <1>4, <1>5, <2>2, ManagersAre DEF Live, DaemonInv, LiveInv, OverInv, Tidy
  <2> QED
    BY <1>1, <2>1, <2>2 DEF Managers
<1>7. t = Leaving /\ g \notin Restarters => Over("app")'
  BY <1>4, <1>5
<1> QED
  BY <1>1, <1>2, <1>3, <1>4, <1>5, <1>6, <1>7, MovesOn

-----------------------------------------------------------------------------
(* The daemon: Run, the process and the requests *)

LEMMA CrashLive ==
    ASSUME Live, NEW k \in Managers, Crash(k) PROVE Live'
<1>1. \A m \in Managers : mode'[m] = IF m = k THEN "stopped" ELSE mode[m]
  BY DEF Crash, Live, DaemonInv, DaemonTypes
<1>2. todo[Main] # <<>> /\ UNCHANGED <<todo, mu, server, file, killed, ctxDone, closeMu, closed, condemned, mishaps>>
  BY DEF Crash, Exited
<1>3. DaemonTypes'
  BY DEF Crash, Live, DaemonInv, DaemonTypes
<1>4. TodoInv' /\ MuInv' /\ CloseInv' /\ ExitInv'
  BY <1>2 DEF Live, DaemonInv, LiveInv, TodoInv, MuInv, CloseInv, ExitInv
<1>5. EarlyInv' /\ ModeInv'
  BY <1>1, <1>2 DEF Live, DaemonInv, LiveInv, EarlyInv, ModeInv
<1>6. OverInv'
  <2>1. \A m \in Managers : Over(m) => Over(m)'
    BY <1>1, <1>2 DEF Over
  <2> QED
    BY <1>2, <2>1, ManagersAre DEF Live, DaemonInv, LiveInv, OverInv, Tidy
<1> QED
  BY <1>2, <1>3, <1>4, <1>5, <1>6 DEF Live, DaemonInv, LiveInv

LEMMA SignalLive == ASSUME Live, Signal PROVE Live'
<1>1. todo[Main] # <<>> /\ UNCHANGED <<todo, mode, mu, server, file, killed, closeMu, closed, condemned, mishaps>>
  BY DEF Signal, Exited
<1>2. DaemonTypes' /\ CloseInv'
  BY DEF Signal, Live, DaemonInv, LiveInv, DaemonTypes, CloseInv
<1>3. TodoInv' /\ MuInv' /\ ExitInv' /\ EarlyInv' /\ ModeInv'
  BY <1>1 DEF Live, DaemonInv, LiveInv, TodoInv, MuInv, ExitInv, EarlyInv, ModeInv
<1>4. OverInv'
  BY <1>1 DEF Live, DaemonInv, LiveInv, OverInv, Tidy, Over
<1> QED
  BY <1>1, <1>2, <1>3, <1>4 DEF Live, DaemonInv, LiveInv

LEMMA AwaitLive == ASSUME Live, Await PROVE Live'
<1>1. todo[Main] = Awaiting /\ todo[Main] # <<>>
  BY Places, Somebody DEF Live, DaemonInv, Await, Doing, Exited
<1>2. /\ todo' = [todo EXCEPT ![Main] = ShutdownSteps]
      /\ UNCHANGED <<mode, mu, server, file, killed, ctxDone, closeMu, closed, condemned, mishaps>>
  BY DEF Await, Becomes
<1>3. DaemonTypes' /\ ModeInv'
  BY <1>2 DEF Live, DaemonInv, LiveInv, DaemonTypes, ModeInv
<1>4. \A k \in Managers : /\ ~Busy(todo[Main], k) /\ ~Busy(ShutdownSteps, k)
                          /\ ~Does(ShutdownSteps, "starting", k)
  BY <1>1, Operations
<1>5. MuInv'
  BY <1>2, <1>4, MutexKept, Somebody DEF Live, DaemonInv
<1>6. \A k \in Managers : Over(k) => Over(k)'
  BY <1>2, <1>4 DEF Over, Live, DaemonInv, TodoInv
<1> QED
  BY <1>1, <1>2, <1>3, <1>5, <1>6, MovesOn, Classes, Somebody

\* Run before the state file is whole: it goes on, gives up or returns.
LEMMA EarlyMoves ==
    ASSUME Live, NEW t, todo[Main] \in EarlyTodos, todo' = [todo EXCEPT ![Main] = t],
           t \in EarlyTodos \cup {<<>>, GivingUp, StartApp("start")},
           t = <<>> => server' # "open" /\ file' = file,
           t = GivingUp => file' = file \/ "spoilt" \in mishaps',
           t \in EarlyTodos => /\ t \in {Publishing, Writing} /\ file' # "own"
                               /\ server' = "open",
           t = StartApp("start") => file' = "own",
           server' \in {"none", "open", "closed"}, file' \in {"none", "own", "old", "cut"},
           mishaps' \in {mishaps, mishaps \cup {"spoilt"}},
           UNCHANGED <<mode, mu, killed, ctxDone, closeMu, closed, condemned>>
    PROVE  Live'
<1>1. \A h \in Goroutines : todo'[h] = IF h = Main THEN t ELSE <<>>
  BY Somebody DEF Live, DaemonInv, LiveInv, TodoInv, EarlyInv
<1>2. /\ ~closed /\ file # "own" /\ todo[Main] \notin Locked /\ t \notin Locked
      /\ \A k \in Managers : mode[k] = "stopped"
  BY Classes, ShapesDisjoint, RunShapes DEF Live, DaemonInv, LiveInv, EarlyInv, Starts
<1>3. \A k \in Managers : ~Busy(todo[Main], k) /\ ~Busy(t, k) /\ ~Does(t, "starting", k)
  BY Operations DEF EarlyTodos
<1>4. DaemonTypes'
  BY DEF Live, DaemonInv, DaemonTypes, Mishaps
<1>5. TodoInv'
  <2>1. t \in RunTodos \cup {<<>>, GivingUp} /\ t \in RunTodos \cup {ShutdownSteps, GivingUp} \cup Locked \cup RestartTodos
    BY Classes DEF Starts
  <2> QED
    BY <2>1, Somebody DEF Live, DaemonInv, TodoInv
<1>6. MuInv'
  BY <1>3, MutexKept, Somebody DEF Live, DaemonInv
<1>7. CloseInv'
  <2>1. closeMu = Nobody
    BY <1>1, <1>2, Classes, Somebody DEF Live, DaemonInv, DaemonTypes, LiveInv, CloseInv, EarlyInv
  <2> QED
    BY <1>1, <1>2, <2>1, Classes, Somebody DEF Live, DaemonInv, LiveInv, CloseInv
<1>8. EarlyInv' /\ ExitInv' /\ ModeInv'
  BY <1>1, <1>2, Classes, ShapesDisjoint, RunShapes, Somebody
  DEF Live, DaemonInv, LiveInv, EarlyInv, ExitInv, ModeInv, Starts
<1>9. OverInv'
  <2>1. \A h \in Goroutines : todo'[h] \notin Locked
    BY <1>1, <1>2, Classes
  <2> QED
    BY <1>2, <2>1, Classes DEF OverInv, Tidy
<1> QED
  BY <1>4, <1>5, <1>6, <1>7, <1>8, <1>9 DEF Live, DaemonInv, LiveInv

LEMMA ListenLive == ASSUME Live, Listen PROVE Live'
<1>1. todo[Main] = RunSteps /\ todo[Main] # <<>>
  BY Places, Somebody DEF Live, DaemonInv, Listen, Doing, Exited
<1>2. Tail(todo[Main]) = Publishing /\ server = "none" /\ file # "own"
  BY <1>1, RunShapes, Classes DEF Live, DaemonInv, LiveInv, EarlyInv
<1>3. file \in {"none", "own", "old", "cut"}
  BY DEF Live, DaemonInv, DaemonTypes
<1> QED
  BY <1>1, <1>2, <1>3, EarlyMoves, Classes, RunShapes DEF Listen, Done, Becomes, Starts

LEMMA SaveStateLive == ASSUME Live, SaveState PROVE Live'
<1>1. \/ Doing(Main, "publish") /\ todo[Main] = Publishing
      \/ Doing(Main, "write") /\ ~Doing(Main, "publish") /\ todo[Main] = Writing
  BY Places, RunShapes, Somebody DEF Live, DaemonInv, SaveState, Doing, Exited
<1>2. server = "open" /\ file # "own" /\ file \in {"none", "own", "old", "cut"}
  BY <1>1, Classes DEF Live, DaemonInv, DaemonTypes, LiveInv, EarlyInv
<1>3. UNCHANGED <<mode, mu, server, killed, ctxDone, closeMu, closed, condemned>>
  BY DEF SaveState
<1>4. ASSUME mishaps' \in {mishaps, mishaps \cup {"spoilt"}}, file' = file \/ (file' = "own" /\ "spoilt" \in mishaps'),
             Becomes(Main, <<Step("giveup")>>)
      PROVE  Live'
  <2>1. todo' = [todo EXCEPT ![Main] = GivingUp]
    BY <1>4 DEF Becomes, GivingUp
  <2>2. GivingUp \notin EarlyTodos \cup {<<>>, StartApp("start")}
    BY Classes, ShapesDisjoint DEF Starts
  <2> QED
    BY <1>1, <1>2, <1>3, <1>4, <2>1, <2>2, EarlyMoves, Classes
<1>5. CASE /\ file' = IF Doing(Main, "publish") THEN "cut" ELSE "own"
           /\ Done(Main) /\ UNCHANGED mishaps
  <2>1. CASE Doing(Main, "publish") /\ todo[Main] = Publishing
    <3>1. todo' = [todo EXCEPT ![Main] = Writing] /\ file' = "cut"
      BY <1>5, <2>1, RunShapes DEF Done, Becomes
    <3>2. Writing \notin {<<>>, GivingUp, StartApp("start")}
      BY RunShapes DEF Starts
    <3> QED
      BY <1>2, <1>3, <1>5, <2>1, <3>1, <3>2, EarlyMoves, Classes
  <2>2. CASE ~Doing(Main, "publish") /\ todo[Main] = Writing
    <3>1. todo' = [todo EXCEPT ![Main] = StartApp("start")] /\ file' = "own"
      BY <1>5, <2>2, RunShapes DEF Done, Becomes
    <3>2. StartApp("start") \notin EarlyTodos \cup {<<>>, GivingUp}
      BY RunShapes DEF Starts, EarlyTodos
    <3> QED
      BY <1>2, <1>3, <1>5, <2>2, <3>1, <3>2, EarlyMoves, Classes
  <2> QED
    BY <1>1, <2>1, <2>2
<1> QED
  BY <1>2, <1>4, <1>5 DEF SaveState

LEMMA CloseAgainLive == ASSUME Live, CloseAgain PROVE Live'
<1>1. todo[Main] = GivingUp /\ todo[Main] \notin EarlyTodos \cup {<<>>}
  BY Places, Classes, ShapesDisjoint, Somebody DEF Live, DaemonInv, CloseAgain, Doing, Exited
<1>2. server' = "closed" /\ UNCHANGED <<todo, mode, mu, file, killed, ctxDone, closeMu, closed, condemned, mishaps>>
  BY DEF CloseAgain
<1>3. DaemonTypes' /\ TodoInv' /\ MuInv' /\ ModeInv'
  BY <1>2 DEF Live, DaemonInv, LiveInv, DaemonTypes, TodoInv, MuInv, ModeInv
<1>4. CloseInv' /\ EarlyInv' /\ ExitInv'
  BY <1>1, <1>2 DEF Live, DaemonInv, LiveInv, CloseInv, EarlyInv, ExitInv
<1>5. OverInv'
  BY <1>2 DEF Live, DaemonInv, LiveInv, OverInv, Tidy, Over
<1> QED
  BY <1>2, <1>3, <1>4, <1>5 DEF Live, DaemonInv, LiveInv

LEMMA RunFailsLive == ASSUME Live, RunFails PROVE Live'
<1>1. todo[Main] = GivingUp /\ server = "closed"
  BY Places, Somebody DEF Live, DaemonInv, RunFails, Doing, Exited
<1>2. /\ todo' = [todo EXCEPT ![Main] = <<>>]
      /\ UNCHANGED <<mode, mu, server, file, killed, ctxDone, closeMu, closed, condemned, mishaps>>
  BY <1>1, RunShapes DEF RunFails, Done, Becomes
<1>3. \A h \in Goroutines : todo'[h] = IF h = Main THEN <<>> ELSE todo[h]
  BY <1>2 DEF Live, DaemonInv, TodoInv
<1>4. GivingUp \notin Locked /\ <<>> \notin Locked \cup EarlyTodos \cup {GivingUp}
  BY Classes, ShapesDisjoint
<1>5. DaemonTypes' /\ ModeInv'
  BY <1>2 DEF Live, DaemonInv, LiveInv, DaemonTypes, ModeInv
<1>6. TodoInv'
  BY <1>2, <1>3, Classes, Somebody DEF Live, DaemonInv, TodoInv
<1>7. MuInv'
  <2>1. \A k \in Managers : ~Busy(GivingUp, k) /\ ~Busy(<<>>, k)
    BY Operations
  <2> QED
    BY <1>1, <1>2, <2>1, MutexKept, Somebody DEF Live, DaemonInv
<1>8. CloseInv'
  BY <1>1, <1>2, <1>3, <1>4, Classes DEF Live, DaemonInv, LiveInv, CloseInv
<1>9. EarlyInv' /\ ExitInv'
  BY <1>1, <1>2, <1>3, <1>4, Somebody DEF Live, DaemonInv, LiveInv, EarlyInv, ExitInv
<1>10. OverInv'
  <2> SUFFICES ASSUME Tidy PROVE OverInv'
    BY <1>2 DEF OverInv, Tidy
  <2>1. ~closed /\ (\A k \in Managers : mode[k] = "stopped") /\ \A h \in Goroutines : todo'[h] = <<>>
    BY <1>1, <1>3 DEF Live, DaemonInv, LiveInv, EarlyInv, Tidy
  <2> QED
    BY <1>2, <1>4, <2>1, Classes DEF OverInv
<1> QED
  BY <1>2, <1>5, <1>6, <1>7, <1>8, <1>9, <1>10 DEF Live, DaemonInv, LiveInv

\* A phone's call of codex touches the app manager alone, which it may leave stopped.
LEMMA PhoneLive ==
    ASSUME Live, todo[Main] # <<>>, mu["app"] \notin Goroutines,
           NEW who \in {Nobody, Phone}, mu' = [mu EXCEPT !["app"] = who],
           mode' \in {mode, [mode EXCEPT !["app"] = "stopped"]}, condemned' \subseteq Managers,
           UNCHANGED <<todo, server, file, killed, ctxDone, closeMu, closed, mishaps>>
    PROVE  Live'
<1>1. \A k \in Managers : /\ mu'[k] = IF k = "app" THEN who ELSE mu[k]
                          /\ mode'[k] \in {mode[k], "stopped"}
                          /\ k # "app" => mode'[k] = mode[k]
  BY DEF Live, DaemonInv, DaemonTypes
<1>2. DaemonTypes'
  BY ManagersAre DEF Live, DaemonInv, DaemonTypes
<1>3. MuInv'
  BY <1>1, Somebody DEF Live, DaemonInv, MuInv
<1>4. ModeInv'
  BY <1>1 DEF Live, DaemonInv, LiveInv, ModeInv
<1>5. TodoInv' /\ CloseInv' /\ ExitInv'
  BY DEF Live, DaemonInv, LiveInv, TodoInv, CloseInv, ExitInv
<1>6. EarlyInv'
  BY <1>1 DEF Live, DaemonInv, LiveInv, EarlyInv
<1>7. OverInv'
  <2>1. \A m \in Managers : Over(m) => Over(m)'
    BY <1>1 DEF Over
  <2> QED
    BY <2>1, ManagersAre DEF Live, DaemonInv, LiveInv, OverInv, Tidy
<1> QED
  BY <1>2, <1>3, <1>4, <1>5, <1>6, <1>7 DEF Live, DaemonInv, LiveInv

LEMMA ExecKillsLive == ASSUME Live, NEW k \in Managers, ExecKills(k) PROVE Live'
<1>1. UNCHANGED <<todo, mode, mu, server, file, killed, ctxDone, closeMu, closed, mishaps>>
  BY DEF ExecKills
<1>2. DaemonTypes'
  BY DEF ExecKills, Live, DaemonInv, DaemonTypes
<1>3. TodoInv' /\ MuInv' /\ ModeInv' /\ CloseInv' /\ ExitInv' /\ EarlyInv'
  BY <1>1 DEF Live, DaemonInv, LiveInv, TodoInv, MuInv, ModeInv, CloseInv, ExitInv, EarlyInv
<1>4. OverInv'
  BY <1>1 DEF Live, DaemonInv, LiveInv, OverInv, Tidy, Over
<1> QED
  BY <1>1, <1>2, <1>3, <1>4 DEF Live, DaemonInv, LiveInv

LEMMA AdmittedWhen ==
    ASSUME Live, Admitted
    PROVE  /\ server = "open" /\ todo[Main] \notin EarlyTodos \cup {<<>>} /\ ~closed
           /\ todo[Main] = GivingUp => "spoilt" \in mishaps
           /\ \A g \in Goroutines : todo[g] \notin Drained
<1>1. server = "open" /\ file = "own" /\ todo[Main] # <<>>
  BY DEF Admitted, LoadState, Exited
<1> QED
  BY <1>1 DEF Live, DaemonInv, LiveInv, EarlyInv, CloseInv

LEMMA RestartLive ==
    ASSUME Live, NEW h \in Restarters, NEW k \in Managers, Restart(h, k) PROVE Live'
<1>1. h \in Goroutines /\ h # Main /\ todo[h] = <<>>
  BY Somebody DEF Restart, Goroutines
<1>2. /\ todo' = [todo EXCEPT ![h] = RestartSteps(k)]
      /\ UNCHANGED <<mode, mu, server, file, killed, ctxDone, closeMu, closed, condemned, mishaps>>
  BY DEF Restart, Becomes
<1>3. \A g \in Goroutines : todo'[g] = IF g = h THEN RestartSteps(k) ELSE todo[g]
  BY <1>2 DEF Live, DaemonInv, TodoInv
<1>4. /\ ~closed /\ todo[Main] \notin EarlyTodos \cup {<<>>}
      /\ todo[Main] = GivingUp => "spoilt" \in mishaps
      /\ \A g \in Goroutines : todo[g] \notin Drained
  BY AdmittedWhen DEF Restart
<1>5. RestartSteps(k) \in RestartTodos /\ RestartSteps(k) \notin Locked /\ <<>> \notin Locked
  BY Classes, ShapesDisjoint
<1>6. DaemonTypes' /\ ModeInv'
  BY <1>2 DEF Live, DaemonInv, LiveInv, DaemonTypes, ModeInv
<1>7. TodoInv'
  BY <1>1, <1>3, <1>5, <1>2, GoroutinesAssumption, Somebody DEF Live, DaemonInv, TodoInv, Goroutines
<1>8. MuInv'
  <2>1. \A m \in Managers : ~Busy(todo[h], m) /\ ~Busy(RestartSteps(k), m)
    BY <1>1, Operations
  <2> QED
    BY <1>1, <1>2, <2>1, MutexKept DEF Live, DaemonInv
<1>9. CloseInv'
  BY <1>1, <1>2, <1>3, <1>5, Classes DEF Live, DaemonInv, LiveInv, CloseInv
<1>10. EarlyInv' /\ ExitInv'
  BY <1>1, <1>2, <1>3, <1>4, Somebody, Classes DEF Live, DaemonInv, LiveInv, EarlyInv, ExitInv
<1>11. OverInv'
  <2>1. \A g \in Goroutines : todo'[g] \notin Drained
    BY <1>3, <1>4, <1>5, Classes
  <2>2. todo'[Main] # <<>> /\ ~closed'
    BY <1>1, <1>2, <1>3, <1>4, Somebody
  <2> QED
    BY <2>1, <2>2, Classes DEF OverInv, Tidy
<1> QED
  BY <1>2, <1>6, <1>7, <1>8, <1>9, <1>10, <1>11 DEF Live, DaemonInv, LiveInv

LEMMA RequestShutdownLive ==
    ASSUME Live, NEW g \in Stoppers, RequestShutdown(g) PROVE Live'
<1>1. g \in Goroutines \ Restarters /\ g # Main /\ todo[g] = <<>>
  BY GoroutinesAssumption, Somebody DEF RequestShutdown, Goroutines
<1>2. /\ todo' = [todo EXCEPT ![g] = ShutdownSteps]
      /\ UNCHANGED <<mode, mu, server, file, killed, ctxDone, closeMu, closed, condemned, mishaps>>
  BY DEF RequestShutdown, Becomes
<1>3. \A h \in Goroutines : todo'[h] = IF h = g THEN ShutdownSteps ELSE todo[h]
  BY <1>2 DEF Live, DaemonInv, TodoInv
<1>4. /\ ~closed /\ todo[Main] \notin EarlyTodos \cup {<<>>}
      /\ todo[Main] = GivingUp => "spoilt" \in mishaps
      /\ \A h \in Goroutines : todo[h] \notin Drained
  BY AdmittedWhen DEF RequestShutdown
<1>5. ShutdownSteps \notin Locked /\ <<>> \notin Locked
  BY Classes
<1>6. DaemonTypes' /\ ModeInv'
  BY <1>2 DEF Live, DaemonInv, LiveInv, DaemonTypes, ModeInv
<1>7. TodoInv'
  BY <1>1, <1>3, <1>2, GoroutinesAssumption, Somebody DEF Live, DaemonInv, TodoInv, Goroutines
<1>8. MuInv'
  <2>1. \A m \in Managers : ~Busy(todo[g], m) /\ ~Busy(ShutdownSteps, m)
    BY <1>1, Operations
  <2> QED
    BY <1>1, <1>2, <2>1, MutexKept DEF Live, DaemonInv
<1>9. CloseInv'
  BY <1>1, <1>2, <1>3, <1>5, Classes DEF Live, DaemonInv, LiveInv, CloseInv
<1>10. EarlyInv' /\ ExitInv'
  BY <1>1, <1>2, <1>3, <1>4, Somebody, Classes DEF Live, DaemonInv, LiveInv, EarlyInv, ExitInv
<1>11. OverInv'
  <2>1. \A h \in Goroutines : todo'[h] \notin Drained
    BY <1>3, <1>4, <1>5, Classes
  <2>2. todo'[Main] # <<>> /\ ~closed'
    BY <1>1, <1>2, <1>3, <1>4, Somebody
  <2> QED
    BY <2>1, <2>2, Classes DEF OverInv, Tidy
<1> QED
  BY <1>2, <1>6, <1>7, <1>8, <1>9, <1>10, <1>11 DEF Live, DaemonInv, LiveInv

\* A daemon that begins, whatever is left of the one before it.
Begun ==
    /\ todo = Fresh
    /\ mode = [k \in Managers |-> "stopped"] /\ mu = [k \in Managers |-> Nobody]
    /\ server = "none" /\ file \in {"none", "old", "cut"} /\ killed = FALSE /\ ctxDone = FALSE
    /\ closeMu = Nobody /\ closed = FALSE /\ condemned = {} /\ mishaps = {}

LEMMA FreshLive == Begun => Live
<1> SUFFICES ASSUME Begun PROVE Live
  OBVIOUS
<1> USE DEF Begun
<1>1. \A g \in Goroutines : todo[g] = IF g = Main THEN RunSteps ELSE <<>>
  BY DEF Fresh
<1>2. \A g \in Goroutines : todo[g] \notin Locked
  BY <1>1, Classes, ShapesDisjoint
<1>3. todo[Main] = RunSteps /\ RunSteps # <<>>
  BY <1>1, RunShapes, Somebody
<1>4. DaemonTypes
  BY Somebody, ManagersAre DEF DaemonTypes
<1>5. TodoInv
  BY <1>1, Classes, Somebody, GoroutinesAssumption DEF TodoInv, Fresh, Goroutines
<1>6. MuInv
  <2>1. \A g \in Goroutines, k \in Managers : ~Busy(todo[g], k)
    BY <1>1, Operations
  <2> QED
    BY <2>1, Somebody DEF MuInv
<1>7. CloseInv
  BY <1>2, Classes, Somebody DEF CloseInv
<1>8. EarlyInv /\ ModeInv /\ ExitInv
  BY <1>1, <1>3, Classes, Somebody DEF EarlyInv, ModeInv, ExitInv
<1>9. OverInv
  BY <1>2, <1>3, Classes DEF OverInv, Tidy
<1> QED
  BY <1>4, <1>5, <1>6, <1>7, <1>8, <1>9 DEF Live, DaemonInv, LiveInv

LEMMA LaunchLive == ASSUME DaemonInv, Launch PROVE Live'
<1>1. Begun'
  BY DEF Launch, DaemonInv, DaemonTypes, Begun, Fresh
<1>2. Begun' => Live'
  BY FreshLive, PTL
<1> QED
  BY <1>1, <1>2

LEMMA KillDaemonInv == ASSUME Live, KillDaemon PROVE DaemonInv'
<1>1. \A g \in Goroutines : todo'[g] = <<>>
  BY DEF KillDaemon
<1>2. DaemonTypes'
  BY Somebody, ManagersAre DEF KillDaemon, Live, DaemonInv, DaemonTypes
<1>3. TodoInv'
  BY <1>1, Classes, Somebody DEF KillDaemon, TodoInv, Goroutines
<1>4. MuInv'
  <2>1. \A g \in Goroutines, k \in Managers : ~Busy(todo'[g], k)
    BY <1>1, Operations
  <2> QED
    BY <2>1, Somebody DEF KillDaemon, MuInv, Busy, Does
<1> QED
  BY <1>1, <1>2, <1>3, <1>4 DEF KillDaemon, DaemonInv, KilledInv

-----------------------------------------------------------------------------
(* The daemon: the theorems *)

LEMMA DaemonInvariant == DaemonSpec => []DaemonInv
<1>1. DaemonInit => DaemonInv
  BY FreshLive DEF DaemonInit, Begun, Live
<1>2. DaemonInv /\ [DaemonNext]_daemonVars => DaemonInv'
  <2> SUFFICES ASSUME DaemonInv, [DaemonNext]_daemonVars PROVE DaemonInv'
    OBVIOUS
  <2>1. CASE UNCHANGED daemonVars
    BY <2>1 DEF daemonVars, DaemonInv, DaemonTypes, TodoInv, MuInv, KilledInv, LiveInv, CloseInv, EarlyInv,
       ModeInv, ExitInv, OverInv, Tidy, Over
  <2>2. CASE Launch
    BY <2>2, LaunchLive DEF Live
  <2>3. CASE killed
    <3>1. Exited /\ ~Admitted
      BY <2>3, Somebody DEF DaemonInv, KilledInv, Exited, Admitted
    <3> QED
      BY <2>1, <2>2, <3>1 DEF DaemonNext, Listen, SaveState, Await, Signal, KillDaemon, Crash, Goes, ManagerActs,
         ShutdownActs, StartBegins, StartSucceeds, StartFails, StopBegins, StopEnds, EnterShutdown,
         CloseServer, Drain, RemoveFile, LeaveShutdown, Restart, RequestShutdown, Doing,
         CloseAgain, RunFails, PhoneCalls, PhoneReturns, ExecKills
  <2>4. CASE ~killed
    <3>0. Live
      BY <2>4 DEF Live
    <3>1. CASE Listen \/ SaveState \/ CloseAgain \/ RunFails \/ Await \/ Signal
      BY <3>0, <3>1, ListenLive, SaveStateLive, CloseAgainLive, RunFailsLive, AwaitLive, SignalLive DEF Live
    <3>2. CASE KillDaemon
      BY <3>0, <3>2, KillDaemonInv
    <3>3. CASE \E k \in Managers : Crash(k) \/ ExecKills(k)
      BY <3>0, <3>3, CrashLive, ExecKillsLive DEF Live
    <3>4. ASSUME NEW g \in Goroutines, ManagerActs(g) PROVE DaemonInv'
      BY <3>0, <3>4, StartBeginsLive, StartSucceedsLive, StartFailsLive, StopBeginsLive, StopEndsLive
      DEF ManagerActs, Live
    <3>5. ASSUME NEW g \in Goroutines, ShutdownActs(g) PROVE DaemonInv'
      BY <3>0, <3>5, EnterShutdownLive, CloseServerLive, DrainLive, RemoveFileLive, LeaveShutdownLive
      DEF ShutdownActs, Live
    <3>6. CASE \E h \in Restarters, k \in Managers : Restart(h, k)
      BY <3>0, <3>6, RestartLive DEF Live
    <3>7. CASE \E g \in Stoppers : RequestShutdown(g)
      BY <3>0, <3>7, RequestShutdownLive DEF Live
    <3>8. CASE PhoneCalls
      <4>1. todo[Main] # <<>> /\ mu["app"] \notin Goroutines /\ condemned' \subseteq Managers
        BY <3>0, <3>8, Somebody DEF PhoneCalls, Exited, Live, DaemonInv, DaemonTypes
      <4> QED
        BY <3>0, <3>8, <4>1, PhoneLive DEF PhoneCalls, Live
    <3>9. CASE PhoneReturns
      <4>1. todo[Main] # <<>> /\ mu["app"] \notin Goroutines /\ condemned' \subseteq Managers
        BY <3>0, <3>9, Somebody, ManagersAre DEF PhoneReturns, Exited, Live, DaemonInv, DaemonTypes
      <4> QED
        BY <3>0, <3>9, <4>1, PhoneLive DEF PhoneReturns, Live
    <3> QED
      BY <2>1, <2>2, <3>1, <3>2, <3>3, <3>4, <3>5, <3>6, <3>7, <3>8, <3>9 DEF DaemonNext, Goes
  <2> QED
    BY <2>3, <2>4
<1> QED
  BY <1>1, <1>2, PTL DEF DaemonSpec

\* NothingOutlivesDaemon: a daemon that ends has told codex and cloudflared to go, for
\* any number of restarts, shutdowns and phones' calls at once, unless it was killed, a
\* restart outlasted the two seconds of Drain, a start succeeded that had begun with
\* its context done, or a restart came with a state file whose writing had failed.
THEOREM DaemonLeavesNothing == DaemonSpec => []NothingOutlivesDaemon
<1>1. DaemonInv => NothingOutlivesDaemon
  BY DEF DaemonInv, LiveInv, OverInv, Tidy, NothingOutlivesDaemon, Exited
<1> QED
  BY <1>1, DaemonInvariant, PTL

\* StateFileIsTrue: the state file never leads to a daemon that has ended or has closed
\* down, unless it was killed or the file system refused to remove the file or to close
\* it, and it leads to this one while its server takes requests, whatever an earlier
\* daemon has left there.
THEOREM StateFileLeadsToDaemon == DaemonSpec => []StateFileIsTrue
<1>1. ASSUME DaemonInv PROVE StateFileIsTrue
  <2>1. CASE killed
    BY <1>1, <2>1 DEF DaemonInv, KilledInv, StateFileIsTrue
  <2>2. CASE ~killed
    <3>1. todo[Main] \in {Publishing, Writing, GivingUp} =>
              Doing(Main, "publish") \/ Doing(Main, "write") \/ Doing(Main, "giveup")
      BY RunShapes DEF Doing, Exited
    <3> QED
      BY <1>1, <2>2, <3>1 DEF DaemonInv, LiveInv, CloseInv, EarlyInv, ExitInv, StateFileIsTrue, Exited
  <2> QED
    BY <2>1, <2>2
<1> QED
  BY <1>1, DaemonInvariant, PTL

LEMMA TodosAreSteps ==
    ASSUME TodoInv
    PROVE  todo \in [Goroutines -> Seq([do : {"listen", "publish", "write", "giveup", "await", "lock",
                  "close", "drain", "remove", "leave", "start", "starting", "belated", "stop",
                  "stopping"},
                  on : Managers \cup {"none"}])]
<1> DEFINE S == [do : {"listen", "publish", "write", "giveup", "await", "lock",
                  "close", "drain", "remove", "leave", "start", "starting", "belated", "stop",
                  "stopping"},
                  on : Managers \cup {"none"}]
<1>1. /\ \A do \in {"listen", "publish", "write", "giveup", "await", "lock", "close", "drain",
                   "remove", "leave"} :
             Step(do) \in S
      /\ \A do \in Starts \cup {"stop", "stopping"}, k \in Managers : ManagerStep(do, k) \in S
  BY DEF Step, ManagerStep, Starts
<1> HIDE DEF S
<1>2. /\ Leaving \in Seq(S) /\ AppStops \in Seq(S) /\ StopApp \in Seq(S) /\ TunnelStops \in Seq(S)
      /\ StopTunnel \in Seq(S)
  <2>1. Step("leave") \in S /\ \A do \in {"stop", "stopping"}, k \in Managers : ManagerStep(do, k) \in S
    BY <1>1
  <2>2. Leaving \in Seq(S) /\ AppStops \in Seq(S) /\ StopApp \in Seq(S)
    BY <2>1, ManagersAre DEF Leaving, AppStops, StopApp
  <2>3. TunnelStops \in Seq(S) /\ StopTunnel \in Seq(S)
    BY <2>1, ManagersAre DEF TunnelStops, StopTunnel
  <2> QED
    BY <2>2, <2>3
<1>3. Removing \in Seq(S) /\ Draining \in Seq(S)
  BY <1>1, ManagersAre DEF Removing, Draining
<1>4. Closing \in Seq(S) /\ ShutdownSteps \in Seq(S)
  BY <1>1, ManagersAre DEF Closing, ShutdownSteps
<1>5. /\ RunSteps \in Seq(S) /\ Publishing \in Seq(S) /\ Writing \in Seq(S) /\ Awaiting \in Seq(S)
      /\ GivingUp \in Seq(S)
  BY <1>1, ManagersAre DEF RunSteps, Publishing, Writing, Awaiting, GivingUp, Starts
<1>6. \A do \in Starts : StartApp(do) \in Seq(S) /\ StartTunnel(do) \in Seq(S)
  BY <1>1, ManagersAre DEF StartApp, StartTunnel, Starts
<1>7. \A k \in Managers : /\ RestartSteps(k) \in Seq(S) /\ StopAgain(k) \in Seq(S)
                          /\ \A do \in {"start", "starting"} : StartAgain(do, k) \in Seq(S)
  BY <1>1 DEF RestartSteps, StopAgain, StartAgain, Starts
<1>8. \A t \in RunTodos \cup {ShutdownSteps, GivingUp} \cup Locked \cup RestartTodos : t \in Seq(S)
  <2>1. \A t \in RunTodos : t \in Seq(S)
    BY <1>5, <1>6 DEF RunTodos, EarlyTodos
  <2>2. \A t \in {ShutdownSteps} \cup Locked : t \in Seq(S)
    BY <1>2, <1>3, <1>4 DEF Locked, Drained, FileGone, TunnelDone
  <2>3. \A t \in RestartTodos : t \in Seq(S)
    <3>1. <<>> \in Seq(S)
      OBVIOUS
    <3>2. ASSUME NEW t \in RestartTodos
          PROVE  \/ t = <<>>
                 \/ \E k \in Managers : \/ t = RestartSteps(k) \/ t = StopAgain(k)
                                        \/ \E do \in {"start", "starting"} : t = StartAgain(do, k)
      BY DEF RestartTodos
    <3> QED
      BY <1>7, <3>1, <3>2
  <2> QED
    BY <1>5, <2>1, <2>2, <2>3
<1>9. todo \in [Goroutines -> Seq(S)]
  BY <1>8 DEF TodoInv
<1> QED
  BY <1>9 DEF S

\* DaemonTypeOK: the shape of the daemon's state, and that an operation under way at a
\* manager, and no other, holds its mutex.
THEOREM DaemonTypeCorrect == DaemonSpec => []DaemonTypeOK
<1>1. ASSUME DaemonInv PROVE DaemonTypeOK
  <2>1. \A k \in Managers, g \in Goroutines :
          mu[k] = g <=> /\ todo[g] # <<>> /\ Head(todo[g]).on = k
                        /\ Head(todo[g]).do \in {"starting", "belated", "stopping"}
    BY <1>1 DEF DaemonInv, MuInv, Busy, Does
  <2> QED
    BY <1>1, <2>1, TodosAreSteps DEF DaemonInv, DaemonTypes, DaemonTypeOK
<1> QED
  BY <1>1, DaemonInvariant, PTL

=============================================================================
