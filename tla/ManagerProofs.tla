---------------------------- MODULE ManagerProofs ----------------------------
(***************************************************************************)
(* The manager of the app-server process (AppServerManager), and the sleep *)
(* inhibitor on top of it (KeepAwake), for every number of operations, of  *)
(* processes started and of goroutines of the application.                 *)
(*                                                                         *)
(* First the manager alone; then the composition, every step of which is   *)
(* a step of the manager or leaves it alone, so that it has the manager's  *)
(* invariant.                                                              *)
(***************************************************************************)
EXTENDS KeepAwake, TLAPS


-----------------------------------------------------------------------------
(* The inductive invariant *)

Holding == OpPcs \ {"idle", "lock"}

\* operationMu excludes: whoever is past its Lock holds it.
MutexInv == \A o \in Ops : operationMu = o <=> opPc[o] \in Holding

\* What the state and m.client are while the holder is at each point.
PhaseInv ==
    /\ state \in {Idle, Starting, Running, Stopping}
    /\ state = Running <=> client # 0
    /\ operationMu = None => state \in {Idle, Running}
    /\ \A o \in Ops :
          /\ opPc[o] \in {"spawn", "initialize", "abort", "install"} => state = Starting
          /\ opPc[o] = "close" => state = Stopping
          /\ opPc[o] = "clear" => state \in {Idle, Stopping}
          /\ opPc[o] \in {"stopped", "failed"} => state = Idle
          /\ opPc[o] \in {"guard", "halt", "rpc", "unlock"} => state \in {Idle, Running}

\* A client is watched once it is installed, and the last one started belongs
\* to the operation that is starting it.
WatchInv ==
    /\ \A i \in Clients : i > started => watch[i] = "none"
    /\ client # 0 => watch[client] = "drain"
    /\ \A o \in Ops : opPc[o] \in {"initialize", "abort", "install"} =>
          /\ opClient[o] = started /\ started # 0
          /\ watch[started] = "none"
    /\ \A o \in Ops : opPc[o] = "close" => opClient[o] # 0 /\ opClient[o] <= started

IInv == TypeOK /\ MutexInv /\ PhaseInv /\ WatchInv

-----------------------------------------------------------------------------
LEMMA DistinctStates ==
    /\ Idle \in States /\ Starting \in States /\ Running \in States /\ Stopping \in States
    /\ Idle # Starting /\ Idle # Running /\ Idle # Stopping
    /\ Starting # Running /\ Starting # Stopping /\ Running # Stopping
<1>1. Idle \in States /\ Starting \in States /\ Running \in States /\ Stopping \in States
  BY DEF States, Idle, Starting, Running, Stopping
<1>2. ~Idle.starting /\ ~Idle.running /\ ~Idle.stopping
  BY DEF Idle
<1>3. Starting.starting /\ ~Starting.running /\ ~Starting.stopping
  BY DEF Starting
<1>4. ~Running.starting /\ Running.running /\ ~Running.stopping
  BY DEF Running
<1>5. ~Stopping.starting /\ ~Stopping.running /\ Stopping.stopping
  BY DEF Stopping
<1> QED
  BY <1>1, <1>2, <1>3, <1>4, <1>5

\* Clearing Running on the state of a server that is running leaves it idle.
LEMMA ClearRunning ==
    ASSUME NEW s \in States, NEW t, t = [s EXCEPT !.running = FALSE], s = Running
    PROVE  t = Idle
<1>1. t \in States /\ t.running = FALSE /\ t.starting = s.starting /\ t.stopping = s.stopping
  BY DEF States
<1>2. t.starting = FALSE /\ t.stopping = FALSE
  BY <1>1 DEF Running
<1> QED
  BY <1>1, <1>2 DEF States, Idle

LEMMA InitInv == Init => IInv
<1> SUFFICES ASSUME Init PROVE IInv
  OBVIOUS
<1>1. TypeOK
  BY StartsAssumption, DistinctStates DEF Init, TypeOK, OpPcs, OpKinds, Clients
<1>2. MutexInv
  BY NoneAssumption DEF Init, MutexInv, Holding
<1>3. PhaseInv
  BY DistinctStates DEF Init, PhaseInv
<1>4. WatchInv
  BY DEF Init, WatchInv
<1> QED
  BY <1>1, <1>2, <1>3, <1>4 DEF IInv

-----------------------------------------------------------------------------
LEMMA NextType == IInv /\ [Next]_vars => TypeOK'
<1> SUFFICES ASSUME IInv, [Next]_vars PROVE TypeOK'
  OBVIOUS
<1>0. TypeOK
  BY DEF IInv
<1> USE <1>0, StartsAssumption, DistinctStates
    DEF TypeOK, OpPcs, GoTo, At, opVars, stateVars, procVars, Clients
<1>1. ASSUME NEW o \in Ops, NEW kind \in Kinds, Begin(o, kind) PROVE TypeOK'
  BY <1>1, KindsAssumption DEF Begin
<1>2. ASSUME NEW o \in Ops, Enter(o) PROVE TypeOK'
  BY <1>2 DEF Enter
<1>3. ASSUME NEW o \in Ops, StartStep(o) PROVE TypeOK'
  <2>1. CASE StartGuard(o)
    BY <2>1 DEF StartGuard
  <2>2. CASE Spawn(o)
    BY <2>2 DEF Spawn
  <2>3. CASE SpawnFails(o)
    BY <2>3 DEF SpawnFails
  <2>4. CASE Initialized(o)
    BY <2>4 DEF Initialized
  <2>5. CASE InitializeFails(o)
    BY <2>5 DEF InitializeFails
  <2>6. CASE Abort(o)
    <3>1. opClient[o] \in 1..started
      BY <2>6 DEF Abort, IInv, WatchInv
    <3> QED
      BY <2>6, <3>1 DEF Abort
  <2>7. CASE Install(o)
    <3>1. opClient[o] \in 0..started
      BY <2>7 DEF Install, IInv, WatchInv
    <3> QED
      BY <2>7, <3>1 DEF Install
  <2>8. CASE FailNotified(o)
    BY <2>8 DEF FailNotified
  <2> QED
    BY <1>3, <2>1, <2>2, <2>3, <2>4, <2>5, <2>6, <2>7, <2>8 DEF StartStep
<1>4. ASSUME NEW o \in Ops, StopStep(o) PROVE TypeOK'
  <2>1. CASE Halt(o)
    BY <2>1 DEF Halt
  <2>2. CASE CloseClient(o)
    <3>1. opClient[o] \in 1..started
      BY <2>2 DEF CloseClient, IInv, WatchInv
    <3> QED
      BY <2>2, <3>1 DEF CloseClient
  <2>3. CASE ClearState(o)
    BY <2>3 DEF ClearState
  <2>4. CASE StopNotified(o)
    BY <2>4 DEF StopNotified
  <2> QED
    BY <1>4, <2>1, <2>2, <2>3, <2>4 DEF StopStep
<1>5. ASSUME NEW o \in Ops, RpcStep(o) PROVE TypeOK'
  BY <1>5 DEF RpcStep, RpcAnswered, RpcEnded, RpcCancelled
<1>6. ASSUME NEW o \in Ops, Unlock(o) PROVE TypeOK'
  BY <1>6 DEF Unlock
<1>7. ASSUME NEW i \in Clients, Die(i) PROVE TypeOK'
  BY <1>7 DEF Die
<1>8. ASSUME NEW i \in Clients, EndSession(i) PROVE TypeOK'
  BY <1>8 DEF EndSession
<1>9. ASSUME NEW i \in Clients, WatchEnds(i) PROVE TypeOK'
  <2>1. state' \in States
    BY <1>9 DEF WatchEnds, States
  <2>2. watch' \in [Clients -> {"none", "drain", "notify", "exited"}]
    BY <1>9 DEF WatchEnds
  <2>3. client' \in 0..started
    BY <1>9 DEF WatchEnds
  <2> QED
    BY <1>9, <2>1, <2>2, <2>3 DEF WatchEnds
<1>10. ASSUME NEW i \in Clients, WatchNotified(i) PROVE TypeOK'
  BY <1>10 DEF WatchNotified
<1>11. CASE UNCHANGED vars
  BY <1>11 DEF vars
<1> QED
  BY <1>1, <1>2, <1>3, <1>4, <1>5, <1>6, <1>7, <1>8, <1>9, <1>10, <1>11 DEF Next, OpStep

\* Only the holder of operationMu moves past its Lock.
LEMMA NextMutex == TypeOK /\ MutexInv /\ [Next]_vars => MutexInv'
<1> SUFFICES ASSUME TypeOK, MutexInv, [Next]_vars PROVE MutexInv'
  OBVIOUS
<1>0. opPc \in [Ops -> OpPcs]
  BY DEF TypeOK
<1> USE <1>0, NoneAssumption
    DEF MutexInv, Holding, OpPcs, GoTo, At, opVars, stateVars, procVars
<1>1. ASSUME NEW o \in Ops, NEW kind \in Kinds, Begin(o, kind) PROVE MutexInv'
  BY <1>1 DEF Begin
<1>2. ASSUME NEW o \in Ops, Enter(o) PROVE MutexInv'
  BY <1>2 DEF Enter
<1>3. ASSUME NEW o \in Ops, StartStep(o) PROVE MutexInv'
  BY <1>3 DEF StartStep, StartGuard, Spawn, SpawnFails, Initialized, InitializeFails,
     Abort, Install, FailNotified
<1>4. ASSUME NEW o \in Ops, StopStep(o) PROVE MutexInv'
  BY <1>4 DEF StopStep, Halt, CloseClient, ClearState, StopNotified
<1>5. ASSUME NEW o \in Ops, RpcStep(o) PROVE MutexInv'
  BY <1>5 DEF RpcStep, RpcAnswered, RpcEnded, RpcCancelled
<1>6. ASSUME NEW o \in Ops, Unlock(o) PROVE MutexInv'
  BY <1>6 DEF Unlock
<1>7. ASSUME NEW i \in Clients,
             Die(i) \/ EndSession(i) \/ WatchEnds(i) \/ WatchNotified(i)
      PROVE  MutexInv'
  BY <1>7 DEF Die, EndSession, WatchEnds, WatchNotified
<1>8. CASE UNCHANGED vars
  BY <1>8 DEF vars
<1> QED
  BY <1>1, <1>2, <1>3, <1>4, <1>5, <1>6, <1>7, <1>8 DEF Next, OpStep

-----------------------------------------------------------------------------
(* The phases, the watch goroutines, the ended sessions                       *)

LEMMA NextPhase == IInv /\ [Next]_vars => PhaseInv'
<1> SUFFICES ASSUME IInv, [Next]_vars PROVE PhaseInv'
  OBVIOUS
<1>0. opPc \in [Ops -> OpPcs] /\ state \in States /\ operationMu \in Ops \cup {None}
  BY DEF IInv, TypeOK
<1>m. \A o, p \in Ops : opPc[o] \in Holding /\ opPc[p] \in Holding => o = p
  BY DEF IInv, MutexInv
<1>n. \A o \in Ops : opPc[o] \in Holding => operationMu = o /\ operationMu # None
  BY NoneAssumption DEF IInv, MutexInv
<1> USE <1>0, <1>m, <1>n, DistinctStates
    DEF IInv, PhaseInv, Holding, OpPcs, GoTo, At, opVars, stateVars, procVars
<1>1. ASSUME NEW o \in Ops, NEW kind \in Kinds, Begin(o, kind) PROVE PhaseInv'
  BY <1>1 DEF Begin
<1>2. ASSUME NEW o \in Ops, Enter(o) PROVE PhaseInv'
  BY <1>2, NoneAssumption DEF Enter
<1>3. ASSUME NEW o \in Ops, StartStep(o) PROVE PhaseInv'
  <2>1. CASE StartGuard(o)
    BY <2>1 DEF StartGuard
  <2>2. CASE Spawn(o)
    BY <2>2 DEF Spawn
  <2>3. CASE SpawnFails(o)
    BY <2>3 DEF SpawnFails
  <2>4. CASE Initialized(o)
    BY <2>4 DEF Initialized
  <2>5. CASE InitializeFails(o)
    BY <2>5 DEF InitializeFails
  <2>6. CASE Abort(o)
    BY <2>6 DEF Abort
  <2>7. CASE Install(o)
    BY <2>7 DEF Install, WatchInv
  <2>8. CASE FailNotified(o)
    BY <2>8 DEF FailNotified
  <2> QED
    BY <1>3, <2>1, <2>2, <2>3, <2>4, <2>5, <2>6, <2>7, <2>8 DEF StartStep
<1>4. ASSUME NEW o \in Ops, StopStep(o) PROVE PhaseInv'
  <2>1. CASE Halt(o)
    BY <2>1 DEF Halt
  <2>2. CASE CloseClient(o)
    BY <2>2 DEF CloseClient
  <2>3. CASE ClearState(o)
    BY <2>3 DEF ClearState
  <2>4. CASE StopNotified(o)
    BY <2>4 DEF StopNotified
  <2> QED
    BY <1>4, <2>1, <2>2, <2>3, <2>4 DEF StopStep
<1>5. ASSUME NEW o \in Ops, RpcStep(o) PROVE PhaseInv'
  BY <1>5 DEF RpcStep, RpcAnswered, RpcEnded, RpcCancelled
<1>6. ASSUME NEW o \in Ops, Unlock(o) PROVE PhaseInv'
  BY <1>6 DEF Unlock
<1>7. ASSUME NEW i \in Clients, WatchEnds(i) PROVE PhaseInv'
  <2>1. CASE client = i
    <3>1. state = Running
      BY <2>1 DEF Clients
    <3>2. state' = Idle /\ client' = 0
      BY <1>7, <2>1, <3>1, ClearRunning DEF WatchEnds
    <3> QED
      BY <1>7, <3>1, <3>2 DEF WatchEnds
  <2>2. CASE client # i
    BY <1>7, <2>2 DEF WatchEnds
  <2> QED
    BY <2>1, <2>2
<1>8. ASSUME NEW i \in Clients, Die(i) \/ EndSession(i) \/ WatchNotified(i)
      PROVE  PhaseInv'
  BY <1>8 DEF Die, EndSession, WatchNotified
<1>9. CASE UNCHANGED vars
  BY <1>9 DEF vars
<1> QED
  BY <1>1, <1>2, <1>3, <1>4, <1>5, <1>6, <1>7, <1>8, <1>9 DEF Next, OpStep

LEMMA NextWatch == IInv /\ [Next]_vars => WatchInv'
<1> SUFFICES ASSUME IInv, [Next]_vars PROVE WatchInv'
  OBVIOUS
<1>0. /\ opPc \in [Ops -> OpPcs] /\ opClient \in [Ops -> 0..MaxStarts]
      /\ client \in 0..started /\ started \in 0..MaxStarts
      /\ watch \in [Clients -> {"none", "drain", "notify", "exited"}]
  BY DEF IInv, TypeOK
<1>m. \A o, p \in Ops : opPc[o] \in Holding /\ opPc[p] \in Holding => o = p
  BY DEF IInv, MutexInv
<1> USE <1>0, <1>m, StartsAssumption
    DEF IInv, WatchInv, Holding, OpPcs, GoTo, At, Clients, opVars, stateVars, procVars
<1>1. ASSUME NEW o \in Ops, NEW kind \in Kinds, Begin(o, kind) PROVE WatchInv'
  BY <1>1 DEF Begin
<1>2. ASSUME NEW o \in Ops, Enter(o) PROVE WatchInv'
  BY <1>2 DEF Enter
<1>3. ASSUME NEW o \in Ops, StartStep(o) PROVE WatchInv'
  <2>1. CASE StartGuard(o)
    BY <2>1 DEF StartGuard
  <2>2. CASE Spawn(o)
    BY <2>2 DEF Spawn
  <2>3. CASE SpawnFails(o)
    BY <2>3 DEF SpawnFails
  <2>4. CASE Initialized(o)
    BY <2>4 DEF Initialized
  <2>5. CASE InitializeFails(o)
    BY <2>5 DEF InitializeFails
  <2>6. CASE Abort(o)
    BY <2>6 DEF Abort
  <2>7. CASE Install(o)
    BY <2>7 DEF Install
  <2>8. CASE FailNotified(o)
    BY <2>8 DEF FailNotified
  <2> QED
    BY <1>3, <2>1, <2>2, <2>3, <2>4, <2>5, <2>6, <2>7, <2>8 DEF StartStep
<1>4. ASSUME NEW o \in Ops, StopStep(o) PROVE WatchInv'
  BY <1>4 DEF StopStep, Halt, CloseClient, ClearState, StopNotified
<1>5. ASSUME NEW o \in Ops, RpcStep(o) PROVE WatchInv'
  BY <1>5 DEF RpcStep, RpcAnswered, RpcEnded, RpcCancelled
<1>6. ASSUME NEW o \in Ops, Unlock(o) PROVE WatchInv'
  BY <1>6 DEF Unlock
<1>7. ASSUME NEW i \in Clients, WatchEnds(i) PROVE WatchInv'
  BY <1>7 DEF WatchEnds
<1>8. ASSUME NEW i \in Clients, Die(i) \/ EndSession(i) \/ WatchNotified(i)
      PROVE  WatchInv'
  BY <1>8 DEF Die, EndSession, WatchNotified
<1>9. CASE UNCHANGED vars
  BY <1>9 DEF vars
<1> QED
  BY <1>1, <1>2, <1>3, <1>4, <1>5, <1>6, <1>7, <1>8, <1>9 DEF Next, OpStep

LEMMA Invariance == Spec => []IInv
<1>1. IInv /\ [Next]_vars => IInv'
  BY NextType, NextMutex, NextPhase, NextWatch DEF IInv
<1> QED
  BY InitInv, <1>1, PTL DEF Spec

-----------------------------------------------------------------------------
(* The results                                                                *)

\* Every reachable state has its types.
THEOREM TypeCorrect == Spec => []TypeOK
<1>1. IInv => TypeOK
  BY DEF IInv
<1> QED
  BY Invariance, <1>1, PTL

\* The flags of State and the client in use agree at every instant, and the two
\* transient flags are up only while an operation is in progress.
THEOREM StateAndClientAgree == Spec => []StateMatchesClient
<1>1. IInv => StateMatchesClient
  BY DistinctStates DEF IInv, PhaseInv, StateMatchesClient
<1> QED
  BY Invariance, <1>1, PTL

\* No client is ever in use without the goroutine that will notice its end.
THEOREM ClientsAreWatched == Spec => []ClientIsWatched
<1>1. IInv => ClientIsWatched
  BY DEF IInv, WatchInv, ClientIsWatched
<1> QED
  BY Invariance, <1>1, PTL

\* A client whose session lives is displaced only by an operation that stops
\* the server, never by a late watch goroutine or by a second start.
THEOREM LiveClientsAreKept == Spec => LiveClientKept
<1>1. IInv /\ [Next]_vars =>
        [client # 0 /\ client' # client =>
            \/ client' = 0 /\ client \in ended
            \/ \E o \in Ops : operationMu = o /\ opPc[o] = "halt"]_vars
  <2> SUFFICES ASSUME IInv, Next, client # 0, client' # client
               PROVE  \/ client' = 0 /\ client \in ended
                      \/ \E o \in Ops : operationMu = o /\ opPc[o] = "halt"
    BY DEF vars
  <2> USE DEF opVars, stateVars, procVars
  <2>1. CASE \E o \in Ops : Halt(o)
    BY <2>1 DEF Halt, At, IInv, MutexInv, Holding, OpPcs
  <2>2. CASE \E i \in Clients : WatchEnds(i)
    BY <2>2 DEF WatchEnds
  <2>3. ASSUME NEW o \in Ops, Install(o) PROVE FALSE
    BY <2>3, DistinctStates DEF Install, At, IInv, PhaseInv
  <2>4. CASE \E o \in Ops, kind \in Kinds : Begin(o, kind)
    BY <2>4 DEF Begin
  <2>5. ASSUME NEW o \in Ops, Enter(o) \/ OpStep(o), ~Halt(o), ~Install(o) PROVE FALSE
    BY <2>5 DEF Enter, OpStep, StartStep, StopStep, RpcStep, StartGuard, Spawn, SpawnFails,
       Initialized, InitializeFails, Abort, FailNotified, CloseClient,
       ClearState, StopNotified, RpcAnswered, RpcEnded, RpcCancelled, Unlock
  <2>6. ASSUME NEW i \in Clients, Die(i) \/ EndSession(i) \/ WatchNotified(i) PROVE FALSE
    BY <2>6 DEF Die, EndSession, WatchNotified
  <2> QED
    BY <2>1, <2>2, <2>3, <2>4, <2>5, <2>6 DEF Next
<1> QED
  BY Invariance, <1>1, PTL DEF Spec, LiveClientKept

-----------------------------------------------------------------------------
(* One process, and none forgotten                                            *)

LEMMA NextOrphans ==
    ASSUME IInv, NoOrphanProcess, [Next]_vars
    PROVE  NoOrphanProcess'
<1> DEFINE InHand(i) == \E o \in Ops :
               opClient[o] = i /\ opPc[o] \in {"initialize", "abort", "install", "close"}
<1>0. /\ opPc \in [Ops -> OpPcs] /\ opClient \in [Ops -> 0..MaxStarts]
      /\ alive \subseteq 1..started /\ started \in Nat
  BY StartsAssumption DEF IInv, TypeOK
<1>1. \A i \in alive \ (told \cup ended) : client = i \/ InHand(i)
  BY DEF NoOrphanProcess, Orphans
<1> SUFFICES ASSUME NEW i \in alive' \ (told' \cup ended') PROVE client' = i \/ InHand(i)'
  BY DEF NoOrphanProcess, Orphans
<1> USE <1>0 DEF OpPcs, GoTo, At, opVars, stateVars, procVars
<1>2. ASSUME NEW o \in Ops, Spawn(o) PROVE client' = i \/ InHand(i)'
  <2>1. CASE i = started + 1
    BY <1>2, <2>1 DEF Spawn
  <2>2. CASE i # started + 1
    BY <1>1, <1>2, <2>2 DEF Spawn
  <2> QED
    BY <2>1, <2>2
<1>3. CASE alive' \subseteq alive /\ told \subseteq told' /\ ended \subseteq ended'
  <2>0. i \in alive \ (told \cup ended) /\ (client = i \/ InHand(i))
    BY <1>1, <1>3
  <2>1. ASSUME NEW o \in Ops, NEW kind \in Kinds, Begin(o, kind) PROVE client' = i \/ InHand(i)'
    BY <2>0, <2>1 DEF Begin
  <2>2. ASSUME NEW o \in Ops, Enter(o) PROVE client' = i \/ InHand(i)'
    BY <2>0, <2>2 DEF Enter
  <2>3. ASSUME NEW o \in Ops, StartGuard(o) \/ SpawnFails(o) \/ FailNotified(o)
        PROVE  client' = i \/ InHand(i)'
    BY <2>0, <2>3 DEF StartGuard, SpawnFails, FailNotified
  <2>4. ASSUME NEW o \in Ops, Initialized(o) \/ InitializeFails(o) PROVE client' = i \/ InHand(i)'
    BY <2>0, <2>4 DEF Initialized, InitializeFails
  <2>5. ASSUME NEW o \in Ops, Abort(o) PROVE client' = i \/ InHand(i)'
    BY <2>0, <2>5 DEF Abort
  <2>6. ASSUME NEW o \in Ops, Install(o) PROVE client' = i \/ InHand(i)'
    <3>1. client = 0 /\ 0 \notin alive
      BY <2>6, DistinctStates DEF Install, IInv, PhaseInv
    <3> QED
      BY <2>0, <2>6, <3>1 DEF Install
  <2>7. ASSUME NEW o \in Ops, Halt(o) PROVE client' = i \/ InHand(i)'
    BY <2>0, <2>7 DEF Halt
  <2>8. ASSUME NEW o \in Ops, CloseClient(o) PROVE client' = i \/ InHand(i)'
    BY <2>0, <2>8 DEF CloseClient
  <2>9. ASSUME NEW o \in Ops, ClearState(o) \/ StopNotified(o) \/ Unlock(o) PROVE client' = i \/ InHand(i)'
    BY <2>0, <2>9 DEF ClearState, StopNotified, Unlock
  <2>10. ASSUME NEW o \in Ops, RpcStep(o) PROVE client' = i \/ InHand(i)'
    BY <2>0, <2>10 DEF RpcStep, RpcAnswered, RpcEnded, RpcCancelled
  <2>11. ASSUME NEW j \in Clients, WatchEnds(j) PROVE client' = i \/ InHand(i)'
    <3>1. j \in ended
      BY <2>11 DEF WatchEnds
    <3> QED
      BY <2>0, <2>11, <3>1 DEF WatchEnds
  <2>12. ASSUME NEW j \in Clients, Die(j) \/ EndSession(j) \/ WatchNotified(j)
         PROVE  client' = i \/ InHand(i)'
    BY <2>0, <2>12 DEF Die, EndSession, WatchNotified
  <2>13. CASE UNCHANGED vars
    BY <2>0, <2>13 DEF vars
  <2>14. ASSUME NEW o \in Ops, Spawn(o) PROVE client' = i \/ InHand(i)'
    BY <1>2, <2>14
  <2> QED
    BY <2>1, <2>2, <2>3, <2>4, <2>5, <2>6, <2>7, <2>8, <2>9, <2>10, <2>11, <2>12, <2>13, <2>14
    DEF Next, OpStep, StartStep, StopStep
<1>4. CASE ~(alive' \subseteq alive /\ told \subseteq told' /\ ended \subseteq ended')
  <2>1. \E o \in Ops : Spawn(o)
    BY <1>4 DEF Next, Begin, Enter, OpStep, StartStep, StopStep, RpcStep, StartGuard,
       SpawnFails, Initialized, InitializeFails, Abort, Install, FailNotified, Halt,
       CloseClient, ClearState, StopNotified, RpcAnswered, RpcEnded, RpcCancelled, Unlock,
       Die, EndSession, WatchEnds, WatchNotified, vars
  <2> QED
    BY <1>2, <2>1
<1> QED
  BY <1>3, <1>4

\* The manager never forgets a running codex process whose session lives.
THEOREM NoProcessIsForgotten == Spec => []NoOrphanProcess
<1>1. Init => NoOrphanProcess
  BY DEF Init, NoOrphanProcess, Orphans
<1>2. IInv /\ NoOrphanProcess /\ [Next]_vars => NoOrphanProcess'
  BY NextOrphans
<1> QED
  BY Invariance, <1>1, <1>2, PTL DEF Spec

\* And it has one such process at most: a former codex is on its way out, or its
\* session has ended, before the next one is started.
THEOREM OneProcessAtATime == Spec => []OneProcess
<1>1. IInv /\ NoOrphanProcess => OneProcess
  <2> SUFFICES ASSUME IInv, NoOrphanProcess, NEW i \in alive \ (told \cup ended), NEW j \in alive \ (told \cup ended)
               PROVE  i = j
    BY DEF OneProcess
  <2>0. i # 0 /\ j # 0
    BY DEF IInv, TypeOK
  <2>1. \A k \in {i, j} : client = k \/ \E o \in Ops :
            opClient[o] = k /\ opPc[o] \in {"initialize", "abort", "install", "close"}
    BY DEF NoOrphanProcess, Orphans
  <2>2. \A o \in Ops : opPc[o] \in {"initialize", "abort", "install", "close"} => client = 0
    BY DistinctStates DEF IInv, PhaseInv
  <2>3. \A o, p \in Ops :
            /\ opPc[o] \in {"initialize", "abort", "install", "close"}
            /\ opPc[p] \in {"initialize", "abort", "install", "close"}
            => o = p
    BY DEF IInv, MutexInv, Holding, OpPcs
  <2> QED
    BY <2>0, <2>1, <2>2, <2>3
<1> QED
  BY Invariance, NoProcessIsForgotten, <1>1, PTL

\* Both together, for any number of operations and of codex processes.
THEOREM ProcessesAreUnderControl == Spec => []ProcessUnderControl
<1>1. NoOrphanProcess /\ OneProcess => ProcessUnderControl
  BY DEF ProcessUnderControl
<1> QED
  BY NoProcessIsForgotten, OneProcessAtATime, <1>1, PTL

-----------------------------------------------------------------------------
(* Refinement                                                                 *)

\* The steps of the manager that change its state are those of the life cycle.
LEMMA StateSteps ==
    ASSUME IInv, [Next]_vars, state' # state
    PROVE  \/ state = Idle /\ state' = Starting
           \/ state = Starting /\ state' \in {Running, Idle}
           \/ state = Running /\ state' \in {Stopping, Idle}
           \/ state = Stopping /\ state' = Idle
<1> DEFINE Goal == \/ state = Idle /\ state' = Starting
                   \/ state = Starting /\ state' \in {Running, Idle}
                   \/ state = Running /\ state' \in {Stopping, Idle}
                   \/ state = Stopping /\ state' = Idle
<1> USE DEF opVars, stateVars, procVars
<1>1. ASSUME NEW o \in Ops, StartStep(o) PROVE Goal
  <2>1. StartGuard(o) \/ SpawnFails(o) \/ Abort(o) \/ Install(o)
    BY <1>1 DEF StartStep, Spawn, Initialized, InitializeFails, FailNotified
  <2> QED
    BY <2>1 DEF StartGuard, SpawnFails, Abort, Install, At, IInv, PhaseInv
<1>2. ASSUME NEW o \in Ops, StopStep(o) PROVE Goal
  <2>1. Halt(o) \/ ClearState(o)
    BY <1>2 DEF StopStep, CloseClient, StopNotified
  <2> QED
    BY <2>1 DEF Halt, ClearState, At, IInv, PhaseInv
<1>3. ASSUME NEW i \in Clients, WatchEnds(i) PROVE Goal
  <2>1. client = i /\ i # 0
    BY <1>3 DEF WatchEnds, Clients
  <2>2. state = Running /\ state' = [state EXCEPT !.running = FALSE]
    BY <1>3, <2>1 DEF WatchEnds, IInv, PhaseInv
  <2>3. state' = Idle
    BY <2>2, ClearRunning, DistinctStates
  <2> QED
    BY <2>2, <2>3
<1>4. \/ \E o \in Ops : StartStep(o) \/ StopStep(o)
      \/ \E i \in Clients : WatchEnds(i)
  BY DEF Next, Begin, Enter, OpStep, RpcStep, RpcAnswered, RpcEnded, RpcCancelled, Unlock,
     Die, EndSession, WatchNotified, vars
<1> QED
  BY <1>1, <1>2, <1>3, <1>4

LEMMA ModeOfState ==
    /\ state = Idle => Mode = "stopped"
    /\ state = Starting => Mode = "starting"
    /\ state = Running => Mode = "running"
    /\ state = Stopping => Mode = "stopping"
  BY DEF Mode, Idle, Starting, Running, Stopping

LEMMA ModeOfNextState ==
    /\ state' = Idle => Mode' = "stopped"
    /\ state' = Starting => Mode' = "starting"
    /\ state' = Running => Mode' = "running"
    /\ state' = Stopping => Mode' = "stopping"
  BY DEF Mode, Idle, Starting, Running, Stopping

\* The manager never shows a phase of the server's life skipped.
THEOREM RefinesLifecycle == Spec => Lifecycle!Safety
<1>1. Init => Lifecycle!Init
  BY ModeOfState DEF Init, Lifecycle!Init
<1>2. IInv /\ [Next]_vars => [Lifecycle!Next]_Mode
  <2> SUFFICES ASSUME IInv, [Next]_vars PROVE Lifecycle!Next \/ Mode' = Mode
    OBVIOUS
  <2>1. CASE state' = state
    BY <2>1 DEF Mode
  <2>2. CASE state' # state
    BY <2>2, StateSteps, ModeOfState, ModeOfNextState
    DEF Lifecycle!Next, Lifecycle!Start, Lifecycle!Up, Lifecycle!Fail, Lifecycle!Stop,
        Lifecycle!Crash, Lifecycle!Stopped
  <2> QED
    BY <2>1, <2>2
<1> QED
  BY Invariance, <1>1, <1>2, PTL DEF Spec, Lifecycle!Safety

-----------------------------------------------------------------------------
(* The composition keeps the manager's invariant                              *)

LEMMA AwakeStepIsManagerStep == [AwakeNext]_allVars => [Next]_vars
<1> SUFFICES ASSUME [AwakeNext]_allVars PROVE [Next]_vars
  OBVIOUS
<1>1. CASE \E o \in Ops : EnterAlone(o) \/ ManagerAlone(o) \/ RpcAlone(o)
  BY <1>1 DEF EnterAlone, ManagerAlone, RpcAlone, ManagerStep, Next, OpStep, StartStep, StopStep
<1>2. CASE \E i \in Clients : ClientAlone(i)
  BY <1>2 DEF ClientAlone, Next
<1>3. CASE \E o \in Ops, kind \in Kinds : AppBegin(o, kind)
  BY <1>3 DEF AppBegin, Next
<1>4. CASE \E o \in Ops, enabled \in BOOLEAN : SetPreventSleep(o, enabled)
  BY <1>4 DEF SetPreventSleep
<1>5. ASSUME NEW o \in Ops, AppStep(o) \/ SetCodexEnvironment(o) PROVE [Next]_vars
  <2>1. CASE AfterManager(o) \/ SwitchOff(o) \/ SyncReturns(o)
    BY <2>1 DEF AfterManager, SwitchOff, SyncReturns
  <2>2. CASE StartAgain(o)
    BY <2>2 DEF StartAgain, Next
  <2>3. CASE SetCodexEnvironment(o)
    BY <2>3 DEF SetCodexEnvironment, Next
  <2> QED
    BY <1>5, <2>1, <2>2, <2>3 DEF AppStep
<1>6. ASSUME NEW p \in Syncers, SyncStep(p) \/ CallOnStopped(p) PROVE [Next]_vars
  BY <1>6 DEF SyncStep, ReadSetting, ReadState, SetAwake, AcquireRefused, Recheck,
     DropAwake, CallOnStopped, SyncFrame
<1>7. ASSUME NEW p \in Syncers, OnStoppedReturns(p) PROVE [Next]_vars
  BY <1>7 DEF OnStoppedReturns, Syncers, Next, OpStep, StartStep, StopStep
<1>8. CASE UNCHANGED allVars
  BY <1>8 DEF allVars
<1> QED
  BY <1>1, <1>2, <1>3, <1>4, <1>5, <1>6, <1>7, <1>8 DEF AwakeNext

\* Callbacks that run inside the manager's operations, and operations that follow each
\* other in one goroutine, do nothing to the manager that it would not do alone: what is
\* proved of the manager holds in the application.
THEOREM ApplicationRefinesManager == AwakeSpec => Spec
<1>1. AwakeInit => Init
  BY DEF AwakeInit
<1> QED
  BY AwakeStepIsManagerStep, <1>1, PTL DEF AwakeSpec, Spec

LEMMA ManagerInvariance == AwakeSpec => []IInv
<1> QED
  BY ApplicationRefinesManager, Invariance, PTL

\* So does the application run one server at most whose session lives, within the reach
\* of a Stop, and show it with the phases of the life cycle.
THEOREM ApplicationControlsServer == AwakeSpec => []ProcessUnderControl /\ Lifecycle!Safety
<1> QED
  BY ApplicationRefinesManager, ProcessesAreUnderControl, RefinesLifecycle

-----------------------------------------------------------------------------
(* Types, and who runs a sync                                                 *)

\* A goroutine inside an operation of the manager is waiting for it.
ManagingInv == \A o \in Ops : opPc[o] # "idle" => appPc[o] \in {"managing", "restarting"}

LEMMA InitAwakeType == AwakeInit => AwakeTypeOK /\ ManagingInv
<1> SUFFICES ASSUME AwakeInit PROVE AwakeTypeOK /\ ManagingInv
  OBVIOUS
<1>1. ManagingInv
  BY DEF AwakeInit, Init, ManagingInv
<1>2. \A p \in Syncers : sync[p] = "none"
  BY DEF AwakeInit
<1>3. toggles \in 0..MaxToggles
  BY TogglesAssumption DEF AwakeInit
<1> QED
  BY <1>1, <1>2, <1>3 DEF AwakeInit, AwakeTypeOK, SyncPcs

LEMMA NextAwakeType ==
    ASSUME IInv, AwakeTypeOK, ManagingInv, [AwakeNext]_allVars
    PROVE  AwakeTypeOK' /\ ManagingInv'
<1>0. /\ opPc \in [Ops -> OpPcs] /\ Ops \cap Clients = {}
      /\ watch \in [Clients -> {"none", "drain", "notify", "exited"}]
      /\ toggles \in 0..MaxToggles /\ MaxToggles \in Nat
  BY TogglesAssumption, DisjointAssumption DEF IInv, TypeOK, AwakeTypeOK
<1> USE <1>0 DEF AwakeTypeOK, ManagingInv, CallbackDue, Syncers, SyncPcs, SyncTo, AppTo,
        At, GoTo, opVars, stateVars, procVars, vars, appVars
<1>1. ASSUME NEW o \in Ops, EnterAlone(o) PROVE AwakeTypeOK' /\ ManagingInv'
  BY <1>1 DEF EnterAlone, Enter
<1>2. ASSUME NEW o \in Ops, ManagerAlone(o) \/ RpcAlone(o) PROVE AwakeTypeOK' /\ ManagingInv'
  <2> USE <1>2 DEF ManagerAlone, RpcAlone
  <2>1. CASE StartGuard(o)
    BY <2>1 DEF StartGuard
  <2>2. CASE Spawn(o)
    BY <2>2 DEF Spawn
  <2>3. CASE SpawnFails(o)
    BY <2>3 DEF SpawnFails
  <2>4. CASE Initialized(o) \/ InitializeFails(o)
    BY <2>4 DEF Initialized, InitializeFails
  <2>5. CASE Abort(o)
    BY <2>5 DEF Abort
  <2>6. CASE Install(o)
    <3>1. watch[opClient[o]] = "none"
      BY <2>6 DEF Install, IInv, WatchInv
    <3> QED
      BY <2>6, <3>1 DEF Install
  <2>7. CASE Halt(o)
    BY <2>7 DEF Halt
  <2>8. CASE CloseClient(o)
    BY <2>8 DEF CloseClient
  <2>9. CASE ClearState(o)
    BY <2>9 DEF ClearState
  <2>10. CASE RpcStep(o)
    BY <2>10 DEF RpcStep, RpcAnswered, RpcEnded, RpcCancelled
  <2>11. CASE Unlock(o)
    BY <2>11 DEF Unlock
  <2> QED
    BY <2>1, <2>2, <2>3, <2>4, <2>5, <2>6, <2>7, <2>8, <2>9, <2>10, <2>11 DEF ManagerStep
<1>3. ASSUME NEW i \in Clients, ClientAlone(i) PROVE AwakeTypeOK' /\ ManagingInv'
  BY <1>3 DEF ClientAlone, Die, EndSession, WatchEnds
<1>4. ASSUME NEW o \in Ops, NEW kind \in Kinds, AppBegin(o, kind)
      PROVE  AwakeTypeOK' /\ ManagingInv'
  BY <1>4 DEF AppBegin, Begin
<1>5. ASSUME NEW o \in Ops, NEW enabled \in BOOLEAN, SetPreventSleep(o, enabled)
      PROVE  AwakeTypeOK' /\ ManagingInv'
  BY <1>5 DEF SetPreventSleep
<1>6. ASSUME NEW o \in Ops, AppStep(o) \/ SetCodexEnvironment(o)
      PROVE  AwakeTypeOK' /\ ManagingInv'
  <2>1. CASE AfterManager(o)
    <3>1. CASE opKind[o] = "Start" /\ AppTo(o, "syncing") /\ SyncTo(o, "setting")
      BY <2>1, <3>1 DEF AfterManager
    <3>2. CASE opKind[o] = "Stop" /\ AppTo(o, "switchoff") /\ UNCHANGED sync
      BY <2>1, <3>2 DEF AfterManager
    <3>3. CASE opKind[o] = "ReleaseThread" /\ AppTo(o, "idle") /\ UNCHANGED sync
      BY <2>1, <3>3 DEF AfterManager
    <3> QED
      BY <2>1, <3>1, <3>2, <3>3 DEF AfterManager
  <2>2. CASE SwitchOff(o)
    BY <2>2 DEF SwitchOff
  <2>3. CASE SyncReturns(o)
    BY <2>3 DEF SyncReturns
  <2>4. CASE StartAgain(o)
    BY <2>4 DEF StartAgain, Begin
  <2>5. CASE SetCodexEnvironment(o)
    BY <2>5 DEF SetCodexEnvironment, Begin
  <2> QED
    BY <1>6, <2>1, <2>2, <2>3, <2>4, <2>5 DEF AppStep
<1>7. ASSUME NEW p \in Syncers, SyncStep(p) PROVE AwakeTypeOK' /\ ManagingInv'
  <2> USE DEF SyncFrame
  <2>1. CASE ReadSetting(p)
    BY <2>1 DEF ReadSetting
  <2>2. CASE ReadState(p)
    <3>1. state.running \in BOOLEAN
      BY DEF IInv, TypeOK, States
    <3> QED
      BY <2>2, <3>1 DEF ReadState
  <2>3. CASE SetAwake(p)
    BY <2>3 DEF SetAwake
  <2>4. CASE AcquireRefused(p)
    BY <2>4 DEF AcquireRefused
  <2>5. CASE Recheck(p)
    BY <2>5 DEF Recheck
  <2>6. CASE DropAwake(p)
    BY <2>6 DEF DropAwake
  <2> QED
    BY <1>7, <2>1, <2>2, <2>3, <2>4, <2>5, <2>6 DEF SyncStep
<1>8. ASSUME NEW p \in Syncers, CallOnStopped(p) PROVE AwakeTypeOK' /\ ManagingInv'
  BY <1>8 DEF CallOnStopped
<1>9. ASSUME NEW p \in Syncers, OnStoppedReturns(p) PROVE AwakeTypeOK' /\ ManagingInv'
  <2>1. CASE p \in Ops
    BY <1>9, <2>1 DEF OnStoppedReturns, StopNotified, FailNotified
  <2>2. CASE p \notin Ops
    BY <1>9, <2>2 DEF OnStoppedReturns, WatchNotified
  <2> QED
    BY <2>1, <2>2
<1>10. CASE UNCHANGED allVars
  BY <1>10 DEF allVars
<1> QED
  BY <1>1, <1>2, <1>3, <1>4, <1>5, <1>6, <1>7, <1>8, <1>9, <1>10 DEF AwakeNext

-----------------------------------------------------------------------------
(* The inhibitor                                                              *)

LEMMA NextStray ==
    ASSUME IInv, AwakeTypeOK, ManagingInv, NoStrayInhibitor, [AwakeNext]_allVars
    PROVE  NoStrayInhibitor'
<1>0. /\ opPc \in [Ops -> OpPcs] /\ Ops \cap Clients = {}
      /\ watch \in [Clients -> {"none", "drain", "notify", "exited"}]
      /\ appPc \in [Ops -> {"idle", "managing", "restarting", "syncing", "switchoff"}]
      /\ sync \in [Syncers -> SyncPcs]
      /\ want \in [Syncers -> BOOLEAN]
  BY DisjointAssumption DEF IInv, TypeOK, AwakeTypeOK
<1>1. /\ ~Idle.running /\ ~Starting.running /\ Running.running /\ ~Stopping.running
  BY DEF Idle, Starting, Running, Stopping
<1>2. \A p \in Syncers : sync[p] # "none" =>
          CallbackDue(p) \/ (p \in Ops /\ appPc[p] = "syncing")
  BY DEF AwakeTypeOK
<1> USE <1>0, <1>1 DEF NoStrayInhibitor, WillReconsider, CallbackDue, Syncers, SyncPcs,
        SyncTo, AppTo, At, GoTo, opVars, stateVars, procVars, vars, appVars
<1>3. ASSUME NEW o \in Ops, EnterAlone(o) PROVE NoStrayInhibitor'
  BY <1>3 DEF EnterAlone, Enter
<1>4. ASSUME NEW o \in Ops, ManagerAlone(o) \/ RpcAlone(o) PROVE NoStrayInhibitor'
  <2> USE <1>4 DEF ManagerAlone, RpcAlone
  <2>0. opPc[o] # "idle" => appPc[o] \in {"managing", "restarting"}
    BY DEF ManagingInv
  <2>1. CASE StartGuard(o)
    BY <2>1 DEF StartGuard
  <2>2. CASE Spawn(o)
    BY <2>2 DEF Spawn
  <2>3. CASE SpawnFails(o)
    <3>1. state = Starting
      BY <2>3 DEF SpawnFails, IInv, PhaseInv
    <3> QED
      BY <2>3, <3>1 DEF SpawnFails
  <2>4. CASE Initialized(o) \/ InitializeFails(o)
    BY <2>4 DEF Initialized, InitializeFails
  <2>5. CASE Abort(o)
    <3>1. state = Starting
      BY <2>5 DEF Abort, IInv, PhaseInv
    <3> QED
      BY <2>5, <3>1 DEF Abort
  <2>6. CASE Install(o)
    BY <2>6 DEF Install
  <2>7. CASE Halt(o)
    <3>1. client # 0 => opPc'[o] = "close"
      BY <2>7 DEF Halt
    <3>2. client = 0 => ~state.running
      BY DistinctStates DEF IInv, PhaseInv
    <3> QED
      BY <2>7, <3>1, <3>2 DEF Halt
  <2>8. CASE CloseClient(o)
    BY <2>8 DEF CloseClient
  <2>9. CASE ClearState(o)
    <3>1. sync[o] = "none"
      BY <1>2, <2>0, <2>9 DEF ClearState
    <3> QED
      BY <2>9, <3>1 DEF ClearState
  <2>10. CASE RpcStep(o)
    BY <2>10 DEF RpcStep, RpcAnswered, RpcEnded, RpcCancelled
  <2>11. CASE Unlock(o)
    BY <2>11 DEF Unlock
  <2> QED
    BY <2>1, <2>2, <2>3, <2>4, <2>5, <2>6, <2>7, <2>8, <2>9, <2>10, <2>11 DEF ManagerStep
<1>5. ASSUME NEW i \in Clients, ClientAlone(i) PROVE NoStrayInhibitor'
  <2>1. CASE Die(i) \/ EndSession(i)
    BY <1>5, <2>1 DEF ClientAlone, Die, EndSession
  <2>2. CASE WatchEnds(i)
    <3>1. sync[i] = "none"
      BY <1>2, <2>2 DEF WatchEnds
    <3> QED
      BY <1>5, <2>2, <3>1 DEF ClientAlone, WatchEnds
  <2> QED
    BY <1>5, <2>1, <2>2 DEF ClientAlone
<1>6. ASSUME NEW o \in Ops, NEW kind \in Kinds, AppBegin(o, kind) PROVE NoStrayInhibitor'
  BY <1>6 DEF AppBegin, Begin
<1>7. ASSUME NEW o \in Ops, NEW enabled \in BOOLEAN, SetPreventSleep(o, enabled)
      PROVE  NoStrayInhibitor'
  BY <1>7 DEF SetPreventSleep
<1>8. ASSUME NEW o \in Ops, AppStep(o) \/ SetCodexEnvironment(o) PROVE NoStrayInhibitor'
  <2>1. CASE AfterManager(o)
    BY <1>2, <2>1 DEF AfterManager
  <2>2. CASE SwitchOff(o)
    BY <2>2 DEF SwitchOff
  <2>3. CASE SyncReturns(o)
    BY <2>3 DEF SyncReturns
  <2>4. CASE StartAgain(o)
    BY <2>4 DEF StartAgain, Begin
  <2>5. CASE SetCodexEnvironment(o)
    BY <2>5 DEF SetCodexEnvironment, Begin
  <2> QED
    BY <1>8, <2>1, <2>2, <2>3, <2>4, <2>5 DEF AppStep
<1>9. ASSUME NEW p \in Syncers, SyncStep(p) PROVE NoStrayInhibitor'
  <2> USE DEF SyncFrame
  <2>1. CASE ReadSetting(p)
    BY <2>1 DEF ReadSetting
  <2>2. CASE ReadState(p)
    BY <2>2 DEF ReadState
  <2>3. CASE SetAwake(p)
    BY <2>3 DEF SetAwake
  <2>4. CASE AcquireRefused(p)
    BY <2>4 DEF AcquireRefused
  <2>5. CASE Recheck(p)
    BY <2>5 DEF Recheck
  <2>6. CASE DropAwake(p)
    BY <2>6 DEF DropAwake
  <2> QED
    BY <1>9, <2>1, <2>2, <2>3, <2>4, <2>5, <2>6 DEF SyncStep
<1>10. ASSUME NEW p \in Syncers, CallOnStopped(p) PROVE NoStrayInhibitor'
  BY <1>10 DEF CallOnStopped
<1>11. ASSUME NEW p \in Syncers, OnStoppedReturns(p) PROVE NoStrayInhibitor'
  <2>1. CASE p \in Ops
    BY <1>11, <2>1 DEF OnStoppedReturns, StopNotified, FailNotified
  <2>2. CASE p \notin Ops
    BY <1>11, <2>2 DEF OnStoppedReturns, WatchNotified
  <2> QED
    BY <2>1, <2>2
<1>12. CASE UNCHANGED allVars
  BY <1>12 DEF allVars
<1> QED
  BY <1>3, <1>4, <1>5, <1>6, <1>7, <1>8, <1>9, <1>10, <1>11, <1>12 DEF AwakeNext

LEMMA AwakeInvariance == AwakeSpec => [](AwakeTypeOK /\ NoStrayInhibitor)
<1>1. AwakeInit => AwakeTypeOK /\ ManagingInv /\ NoStrayInhibitor
  BY InitAwakeType DEF AwakeInit, NoStrayInhibitor
<1>2. /\ IInv /\ AwakeTypeOK /\ ManagingInv /\ NoStrayInhibitor /\ [AwakeNext]_allVars
      => AwakeTypeOK' /\ ManagingInv' /\ NoStrayInhibitor'
  BY NextAwakeType, NextStray
<1> QED
  BY ManagerInvariance, <1>1, <1>2, PTL DEF AwakeSpec

\* The variables of the application have their types, and a sync runs only in a goroutine
\* that waits for it.
THEOREM ApplicationTypeCorrect == AwakeSpec => []AwakeTypeOK
<1> QED
  BY AwakeInvariance, PTL

\* However starts, stops, crashes and changes of the setting cross each other,
\* an inhibitor held while no server runs is about to be reconsidered.
THEOREM InhibitorIsNeverStray == AwakeSpec => []NoStrayInhibitor
<1> QED
  BY AwakeInvariance, PTL

=============================================================================
