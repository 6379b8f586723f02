------------------------------- MODULE KeepAwake -------------------------------
(***************************************************************************)
(* The sleep inhibitor of the desktop application, composed with the       *)
(* manager of the codex process.  appservice.go registers syncPreventSleep *)
(* as the manager's onStopped and also calls it after a start and after a  *)
(* change of the setting; StopAppServer switches the inhibitor off itself, *)
(* SetCodexEnvironment stops and starts a server that runs.                *)
(* awake.Inhibitor.Set is one critical section of its own mutex.  Between  *)
(* the reads of the setting and of the server's state, the call of Set and *)
(* the second look at the state, everything else may happen.               *)
(*                                                                         *)
(* A sync is run by a goroutine of the application (a member of Ops) or by *)
(* the watch goroutine of a client (a member of Clients).                  *)
(***************************************************************************)
EXTENDS AppServerManager

CONSTANTS
    AcquireFails,  \* whether the system may refuse the inhibitor
    MaxToggles     \* bound: changes of the setting

ASSUME AcquireAssumption == AcquireFails \in BOOLEAN
ASSUME TogglesAssumption == MaxToggles \in Nat
ASSUME DisjointAssumption == Ops \cap Clients = {}

VARIABLES
    preventSleep, toggles, \* settings.PreventSleep and how often it was set
    inhibited,             \* Inhibitor.release # nil
    appPc,                 \* control of the application's goroutines
    sync, want             \* syncPreventSleep: control and `enabled`

appVars == <<preventSleep, toggles, inhibited, appPc, sync, want>>
allVars == <<vars, appVars>>

Syncers == Ops \cup Clients

SyncPcs == {"none", "setting", "state", "set", "recheck", "drop", "done"}

\* The manager has come to a call of onStopped: in setState, or in watch.
CallbackDue(p) ==
    IF p \in Ops THEN opPc[p] \in {"stopped", "failed"} ELSE watch[p] = "notify"

\* Types, and a sync only in a goroutine that waits for it to return.
AwakeTypeOK ==
    /\ preventSleep \in BOOLEAN
    /\ toggles \in 0..MaxToggles
    /\ inhibited \in BOOLEAN
    /\ appPc \in [Ops -> {"idle", "managing", "restarting", "syncing", "switchoff"}]
    /\ sync \in [Syncers -> SyncPcs]
    /\ want \in [Syncers -> BOOLEAN]
    /\ \A p \in Syncers : sync[p] # "none" =>
          CallbackDue(p) \/ (p \in Ops /\ appPc[p] = "syncing")

AwakeInit ==
    /\ Init
    /\ preventSleep \in BOOLEAN
    /\ toggles = 0
    /\ inhibited = FALSE
    /\ appPc = [o \in Ops |-> "idle"]
    /\ sync = [p \in Syncers |-> "none"]
    /\ want = [p \in Syncers |-> FALSE]

-----------------------------------------------------------------------------
(* Plausible bugs: each stands in for the operator named in its comment when a *)
(* property's sensitivity is checked, and is used nowhere else.                *)

\* SetAwake without the second look at the state (lines 395-397).
SetAwakeBlindly(p) ==
    /\ sync[p] = "set"
    /\ inhibited' = want[p]
    /\ sync' = [sync EXCEPT ![p] = "done"]
    /\ UNCHANGED <<vars, preventSleep, toggles, appPc, want>>

-----------------------------------------------------------------------------
(* syncPreventSleep (lines 390-399) and Inhibitor.Set                         *)

SyncTo(p, pc) == sync' = [sync EXCEPT ![p] = pc]
SyncFrame == UNCHANGED <<vars, preventSleep, toggles, appPc>>

ReadSetting(p) ==
    /\ sync[p] = "setting"
    /\ want' = [want EXCEPT ![p] = FALSE]
    /\ SyncTo(p, IF preventSleep THEN "state" ELSE "set")
    /\ UNCHANGED inhibited /\ SyncFrame

ReadState(p) ==
    /\ sync[p] = "state"
    /\ want' = [want EXCEPT ![p] = state.running]
    /\ SyncTo(p, "set")
    /\ UNCHANGED inhibited /\ SyncFrame

SetAwake(p) ==
    /\ sync[p] = "set"
    /\ inhibited' = want[p]
    /\ SyncTo(p, IF want[p] THEN "recheck" ELSE "done")
    /\ UNCHANGED want /\ SyncFrame

\* acquire fails: an inhibitor that is held already is not acquired again.
AcquireRefused(p) ==
    /\ AcquireFails
    /\ sync[p] = "set" /\ want[p] /\ ~inhibited
    /\ SyncTo(p, "done")
    /\ UNCHANGED <<inhibited, want>> /\ SyncFrame

Recheck(p) ==
    /\ sync[p] = "recheck"
    /\ SyncTo(p, IF state.running THEN "done" ELSE "drop")
    /\ UNCHANGED <<inhibited, want>> /\ SyncFrame

DropAwake(p) ==
    /\ sync[p] = "drop"
    /\ inhibited' = FALSE
    /\ SyncTo(p, "done")
    /\ UNCHANGED want /\ SyncFrame

SyncStep(p) ==
    \/ ReadSetting(p) \/ ReadState(p) \/ SetAwake(p)
    \/ AcquireRefused(p) \/ Recheck(p) \/ DropAwake(p)

-----------------------------------------------------------------------------
(* onStopped: the manager's operation or watch goroutine runs a sync before   *)
(* it goes on                                                                 *)

CallOnStopped(p) ==
    /\ CallbackDue(p)
    /\ sync[p] = "none"
    /\ SyncTo(p, "setting")
    /\ UNCHANGED <<vars, preventSleep, toggles, inhibited, appPc, want>>

OnStoppedReturns(p) ==
    /\ sync[p] = "done"
    /\ IF p \in Ops THEN StopNotified(p) \/ FailNotified(p) ELSE WatchNotified(p)
    /\ SyncTo(p, "none") /\ want' = [want EXCEPT ![p] = FALSE]
    /\ UNCHANGED <<preventSleep, toggles, inhibited, appPc>>

-----------------------------------------------------------------------------
(* The operations of the application                                          *)

AppTo(o, pc) == appPc' = [appPc EXCEPT ![o] = pc]

\* startAppServer, StopAppServer and ReleaseThread begin with the manager's
\* operation of that name.
AppBegin(o, kind) ==
    /\ appPc[o] = "idle"
    /\ Begin(o, kind)
    /\ AppTo(o, "managing")
    /\ UNCHANGED <<preventSleep, toggles, inhibited, sync, want>>

\* The manager's operation has returned, well or not: startAppServer syncs,
\* StopAppServer switches the inhibitor off, ReleaseThread is done.
AfterManager(o) ==
    /\ appPc[o] = "managing" /\ At(o, "idle")
    /\ \/ opKind[o] = "Start" /\ AppTo(o, "syncing") /\ SyncTo(o, "setting")
       \/ opKind[o] = "Stop" /\ AppTo(o, "switchoff") /\ UNCHANGED sync
       \/ opKind[o] = "ReleaseThread" /\ AppTo(o, "idle") /\ UNCHANGED sync
    /\ UNCHANGED <<vars, preventSleep, toggles, inhibited, want>>

\* The new environment is for a new process; a server that does not run needs
\* nothing now.
SetCodexEnvironment(o) ==
    /\ appPc[o] = "idle" /\ state.running
    /\ {"Start", "Stop"} \subseteq Kinds /\ Begin(o, "Stop")
    /\ AppTo(o, "restarting")
    /\ UNCHANGED <<preventSleep, toggles, inhibited, sync, want>>

\* startAppServer follows, unless the manager's Stop returned an error.
StartAgain(o) ==
    /\ appPc[o] = "restarting" /\ At(o, "idle")
    /\ \/ "Start" \in Kinds /\ Begin(o, "Start") /\ AppTo(o, "managing")
       \/ AppTo(o, "idle") /\ UNCHANGED vars
    /\ UNCHANGED <<preventSleep, toggles, inhibited, sync, want>>

\* Line 257 (and Shutdown, line 299): keepAwake.Set(false).
SwitchOff(o) ==
    /\ appPc[o] = "switchoff"
    /\ inhibited' = FALSE
    /\ AppTo(o, "idle")
    /\ UNCHANGED <<vars, preventSleep, toggles, sync, want>>

\* setPreventSleep: the setting, then a sync.
SetPreventSleep(o, enabled) ==
    /\ appPc[o] = "idle"
    /\ toggles < MaxToggles
    /\ toggles' = toggles + 1
    /\ preventSleep' = enabled
    /\ AppTo(o, "syncing") /\ SyncTo(o, "setting")
    /\ UNCHANGED <<vars, inhibited, want>>

SyncReturns(o) ==
    /\ appPc[o] = "syncing" /\ sync[o] = "done"
    /\ AppTo(o, "idle")
    /\ SyncTo(o, "none") /\ want' = [want EXCEPT ![o] = FALSE]
    /\ UNCHANGED <<vars, preventSleep, toggles, inhibited>>

AppStep(o) == AfterManager(o) \/ StartAgain(o) \/ SwitchOff(o) \/ SyncReturns(o)

-----------------------------------------------------------------------------
\* The manager's own steps, but for those that wait for onStopped.
ManagerStep(o) ==
    \/ StartGuard(o) \/ Spawn(o) \/ SpawnFails(o) \/ Initialized(o)
    \/ InitializeFails(o) \/ Abort(o) \/ Install(o)
    \/ Halt(o) \/ CloseClient(o) \/ ClearState(o) \/ Unlock(o)

ManagerAlone(o) == ManagerStep(o) /\ UNCHANGED appVars
RpcAlone(o) == RpcStep(o) /\ UNCHANGED appVars
EnterAlone(o) == Enter(o) /\ UNCHANGED appVars
ClientAlone(i) == (Die(i) \/ EndSession(i) \/ WatchEnds(i)) /\ UNCHANGED appVars

AwakeNext ==
    \/ \E o \in Ops : EnterAlone(o) \/ ManagerAlone(o) \/ RpcAlone(o)
    \/ \E i \in Clients : ClientAlone(i)
    \/ \E o \in Ops, kind \in Kinds : AppBegin(o, kind)
    \/ \E o \in Ops, enabled \in BOOLEAN : SetPreventSleep(o, enabled)
    \/ \E o \in Ops : AppStep(o) \/ SetCodexEnvironment(o)
    \/ \E p \in Syncers : SyncStep(p) \/ CallOnStopped(p) \/ OnStoppedReturns(p)

\* As in AppServerManager, with the goroutines of the application: codex may leave
\* a call without an answer as long as it lives.
AwakeFairness ==
    /\ \A o \in Ops : SF_allVars(EnterAlone(o))
    /\ \A o \in Ops : WF_allVars(ManagerAlone(o) \/ AppStep(o))
    /\ \A o \in Ops :
          WF_allVars(RpcEnded(o) /\ opClient[o] \notin alive /\ UNCHANGED appVars)
    /\ \A i \in Clients :
          /\ WF_allVars(Die(i) /\ i \in told /\ UNCHANGED appVars)
          /\ WF_allVars(EndSession(i) /\ MustEnd(i) /\ UNCHANGED appVars)
          /\ WF_allVars(WatchEnds(i) /\ UNCHANGED appVars)
    /\ \A p \in Syncers : WF_allVars(SyncStep(p) \/ CallOnStopped(p) \/ OnStoppedReturns(p))

AwakeSpec == AwakeInit /\ [][AwakeNext]_allVars
AwakeFairSpec == AwakeSpec /\ AwakeFairness

-----------------------------------------------------------------------------
(* Properties *)

\* Somebody is still to look at the server's state, or is about to switch the
\* inhibitor off: a sync under way, a callback due, or an operation that has
\* taken the client out and will come to its callback.
WillReconsider(p) ==
    \/ sync[p] \in {"setting", "state", "set", "recheck", "drop"}
    \/ sync[p] = "none" /\ CallbackDue(p)
    \/ p \in Ops /\ opPc[p] \in {"close", "clear"}

\* The inhibitor is never left behind by a server that is not running: however
\* starts, stops, crashes and changes of the setting cross each other, whoever
\* switched it on looks at the state again, and whoever stops the server syncs.
NoStrayInhibitor ==
    inhibited /\ ~state.running => \E p \in Syncers : WillReconsider(p)

\* So once the server stays down, the computer is free to sleep for good.
SleepIsFreed == <>[](~state.running) => <>[](~inhibited)

\* Nothing of the application or the manager is in progress.
Settled ==
    /\ \A o \in Ops : appPc[o] = "idle"
    /\ \A p \in Syncers : sync[p] = "none"
    /\ \A i \in Clients : watch[i] # "notify"

\* README.md:57: the inhibitor is active while the app-server is running (and
\* the setting is on).
AwakeWhileRunning == Settled /\ preventSleep /\ state.running => inhibited

\* README.md:57: it takes the setting to keep the computer awake.
AsleepWhenDisabled == Settled /\ ~preventSleep => ~inhibited

=============================================================================
