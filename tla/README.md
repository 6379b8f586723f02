# Verification of codeoff-server

TLA+ models of the concurrent and crash-prone parts of codeoff-server, model-checked
with TLC on small instances and, for the safety of the central parts, proved with
TLAPS for every value of the constants. All line numbers are those of the Go sources.

codeoff-server runs on the user's computer. It owns one `codex app-server` process and
speaks JSON-RPC with it, owns one `cloudflared` process (the tunnel), pairs phones, and
serves them an HTTP and WebSocket API. It comes as a desktop program (`appservice.go`)
and as a command-line daemon (`internal/daemon`), built from the same components.

Contents:
[1 System](#1-the-system) ·
[2 Modules and code](#2-the-modules-and-the-code) ·
[3 Runs](#3-what-the-runs-check) ·
[4 Fairness](#4-fairness) ·
[5 Deviations](#5-what-the-code-does-that-its-documents-do-not-say) ·
[6 Proofs](#6-what-is-proved) ·
[7 Limits](#7-what-is-not-modelled) ·
[8 Plan](#8-plan)

## 1 The system

### Components

| component | code | state it keeps | operations | what makes it correct |
|---|---|---|---|---|
| JSON-RPC client | `internal/appserver/client.go`, `approvals.go` | pending calls with their response channels, tracked approvals, the event channel, `done` | `Call`, `Notify`, `Respond`, `Close`, the read loop, the shutdown | each call returns once; no send blocks under a mutex; events pass in order; the session ends with its process |
| app-server manager | `internal/appserver/manager.go` | `client`, `cancel`, `state`, `onStopped` | `Start`, `Stop`, `Toggle`, `Call`, `ReleaseThread`, the `watch` goroutine | one process at most; state and client agree; no process forgotten; its end noticed |
| sleep inhibitor | `internal/awake`, `appservice.go` | the platform inhibitor, the setting | `Set`, `syncPreventSleep`, the manager's callback | on only while the server runs and the user wants it |
| event hub | `internal/control/events.go`, `websocket.go` | subscriptions, one channel of 32 each | `subscribe`, `unsubscribe`, `forward`, `writeEvents` | each phone that keeps up gets every event, in order |
| device store and sessions | `internal/devices/store.go`, `internal/control/websocket.go` | devices, server identity, pairing code, connection counts, held threads, `devices.json` | `Open`, `NewPairing`, `Exchange`, `Authenticate`, `Revoke`, `Connect`, `Disconnect`, `HoldThread`, `ClearThreads`, ... | revoked is revoked, paired is paired, through failed saves, crashes and restarts; counts and holds end with their sessions |
| tunnel manager | `internal/tunnel/manager.go` | `command`, `cancel`, `state` with the address | `Start`, `Stop`, `Toggle`, `monitor`, `findURL` | as the app-server manager; the address shown is that of the process in use |
| daemon | `internal/daemon/daemon.go`, `cmd/codeoff-daemon` | the control server, both managers, the state file | `Run`, `Shutdown`, restarts | nothing outlives it; the state file is true; a daemon told to stop stops |
| configuration migration | `internal/daemon/daemon.go` | directories on the disk | `MigrateLegacyConfig` | no file lost, none replaced by an older one, none used too early |
| uploads | `internal/control/server.go` | temporary files, `uploads` | `saveUpload`, `userInput`, `cleanupUploads` | a phone can use what it uploaded; nothing is left behind |
| desktop service | `appservice.go`, `main.go` | settings and their file, listen address, control server | launch, restore, `SetListenAddr`, `StartTunnel`, `StopTunnel`, `SetTunnelURL`, `StartAppServer`, `Shutdown`, ... | one server, where the program says it is; the tunnel leads there; every call returns, and a program told to quit ends |
| thread history, release, take-over | `internal/appserver/history.go`, `manager.go`, `takeover_*.go` | none but its locals, under `operationMu` | pages of turns and of loaded threads; restart of codex; `lsof`, `ps`, `SIGTERM` | a history is whole; a release cuts off no turn; a take-over hits the owner; each ends |
| routes, files, directories | `internal/control/server.go` | none of its own | HTTP handlers | plain input and output |
| CLI, desktop shell | `cmd/codeoff-cli`, `main.go` | none that others rely on | reads the state file and makes one request; launch, tray, quit | what they do to the daemon and to the desktop service, in the modules of these |
| installer, diagnostics, frontend | `internal/installer`, `internal/diagnostics`, `frontend` | none that others rely on | one step at a time | not modelled |

### How they interact

    phone --websocket--> session --> device store (mutex over memory and file)
                            |  \--> app-server manager (operationMu) --> JSON-RPC client --> codex
                            |                                                |
                            +<-- event hub <------ manager.Events() <--------+
    desktop service / daemon --> both managers, control server, inhibitor, settings / state file
    tunnel manager --> cloudflared --> control server

Calls go down under one mutex per component (`operationMu` of each manager from the first
to the last step of an operation, `pendingMu` of the client, `Store.mu` over the save of
the file, `controlMu` and `closeMu` around the control server). Events come up over
channels: the client's (64), the manager's, and one per phone. A stopped manager calls
back into the desktop service (`onStopped`). The daemon and the desktop service wait for
the HTTP server to drain, but for two seconds only, and not for the phones' websockets.

The mutex most things wait for is the app-server manager's `operationMu`. `Call`,
`ResumeThread`, `TakeOverThread` and `ReleaseThread` keep it while codex thinks
(manager.go:160-263), a phone's call has no deadline, and whoever waits for it looks at its
context only afterwards. So one call that codex leaves unanswered keeps all other phones,
`Stop`, the end of a session with a request under way, the end of the desktop program and that of the
daemon, until codex answers or ends, or that phone leaves; if stdin is full, not even its leaving
helps (client.go:215). The liveness properties state this condition; section 4 says how.

### What is hard

* a process ends, or is killed, at any moment of an operation, and the goroutine that
  notices it belongs to a client that may have been replaced;
* an answer comes late, twice, or never; the caller gives up; a channel is full;
* a save of a file is four system calls, each of which may fail or be the last one;
* operations hold a mutex for as long as another process takes, and other mutexes around it;
* cancelling a context kills nothing: `os/exec` does, in a goroutine that ends with the program;
* a value is read under one lock and used under another, or under none;
* several programs work on the same files, and on the same threads of codex;
* a list comes page by page while what it lists changes.

`PROJECT.json` lists these hazards at the lines where they bite, with the properties that
would catch each of them going wrong.

## 2 The modules and the code

Conventions of all modules. One action is one stretch of code between two points where
another goroutine, process or crash can be seen: a critical section, a channel operation,
a system call. A goroutine's control is a string in a function (`opPc`, `readPc`, `phase`,
...). Processes and clients that were started are numbered, 0 is `nil`. Data that no
property tells apart is left out. `PROJECT.json` maps every definition to its lines. The
definitions under "Plausible bugs" in a module (`StartUnguarded`, `EmitOrDrop`, ...) are
variants of its actions that no action uses: with one of them in the place of its action
TLC reports the property that `PROJECT.json` names with it.

**RpcClient** (`client.go`, `approvals.go`). Variables: `callPc`, `pending`, `slot` (a call's
control, its entry in `c.pending`, its channel of one); `approvals`, `respond`, `replies`;
`alive`, `closed`, `log`, `out` (the process and its output); `readPc`, `msg` (the read
loop); `events`, `eventsClosed`, `received`; `done`, `shutPc`, `pendingMu`, `waiter`.
`Register` to `RemovePending` are `Call`; `Decide` to `Forget` are `Respond`, which the read
loop also calls for `currentTime/read`; `ReadLine` to `ClockAnswered` are `readLoop`;
`BeginShutdown` to `CloseEvents` are `shutdown`, which the waiter and the read loop race for.
A write takes `writeMu` (`AwaitWrite`) and may then stay in `Encode` for as long as the process
lives and its stdin is open; `StdinBroken` is what surely ends it.
codex is external: it writes any line at any time, also answers nobody asked for.

**AppServerManager** (`manager.go`). `operationMu`, `opPc`/`opKind`/`opClient` per caller,
`client` (with `cancel`), `state`, and for each client whether its process is `alive`, it was
`told` to go, its session `ended`, and where its `watch` goroutine is. Every `setState` and
every read of `m.client` is a step. `RpcAnswered` of `ReleaseThread` may go on to the restart
(`Halt`) as in manager.go:212. A call in `rpc` ends with an answer (`RpcAnswered`), with the client
(`RpcEnded`) or with the caller's context (`RpcCancelled`); of these only the end of a process that
died is owed. A session may end on a read error while its process lives.

**Threads** (`history.go`, `manager.go`, `takeover_darwin.go`). What the operations ask of codex
while they hold `operationMu`, one at a time: `kind`, `thread`, `pc` and the locals of the one
in progress (`cursor`, `next`, `page`, `seen`, `got`; `owner`, `target`, `above`). Codex is its
loaded threads, those at work (`active`), the number of turns of each and its hold on the
writer locks; other programs (`life`) take locks, leave them and exit. `Inspect` to `TurnsPage`
are `readThread`, `ListPage` to `NextPage` the lists of `HeldThreads` and of the check in
`ReleaseThread`, `Stop` to `StartFails` its restart, `Resumes` to `Expires` resuming and
`TakeOverThread`, `FindOwner` to `Signal` `terminateThreadOwner`. Any call, `lsof` or `ps` may
fail (`CallFails`). Codex is external: `lied` records that it answered a cursor that is not the
last entry of its page, or one that it had never answered before (`Fresh`, two of which stand for all the strings
there are: they are never in `seen`), `late` the turns whose phone left before `turn/start` was answered
(`TurnAbandoned`, `LateStart`).

**ServerLifecycle** is the abstract specification of both managers: stopped, starting,
running, stopping, stopped, with a failed start and a crash, no phase skipped, and no
transient phase for ever. Both managers implement it, `mode` being mapped to the manager's
published `State`.

**KeepAwake** (`awake/inhibitor.go`, `appservice.go`) EXTENDS AppServerManager and composes
it with the inhibitor: `inhibited`, the setting `preventSleep`, and per goroutine the control
`sync` and the local `want` of `syncPreventSleep`. `SetCodexEnvironment` and `StartAgain` are a stop and a start
without `StopAppServer`'s switch. Every step of the manager is a step of the composition with the
application's part unchanged, but for those that call back (`CallOnStopped`) or after which
the desktop operation goes on (`AfterManager`).

**EventHub** (`events.go`, `websocket.go`). `source` is the manager's event channel, `made` the
number of hubs made so far, `subscribers` and `holding` the subscriptions of each and the event
its `forward` goroutine has in hand; per session its `channel`, the event in its `hand`, and
`stream`, what the phone has received; `joined`, `forwarded` and `shed` are history. `Broadcast` has the `select` with a default that loses an event to a
full channel. With `MaxHubs` > 1 the desktop program changes its listen address.

**DeviceStore** (`store.go`, `websocket.go`). Memory (`devices`, `server`, `pairing`,
`connections`, `threads`), file (`savedDevices`, `savedServer`), the save under way (`saving`,
`before`, `removed`), sessions (`phase`, `inflight`). `Store.mu` is held through a save, so
all other operations have `Free` as a guard. `RemoveOld` is the Windows branch, `Rename`
commits, `SaveFailed` undoes the memory as each operation does, `Crash` and `Open` restart. A request
that resumes a thread is in `inflight`; it waits for `operationMu`, which other sessions and everybody else
take too (`Lock`, `OthersLock`), calls codex, is in `resumed` when codex has given it the thread, and
then holds the thread. The end
of a session waits for its requests, clears all the threads its device holds (`ClearThreads`),
those another session of the device took included, and then disconnects.

**Tunnel** (`tunnel/manager.go`, `RestartTunnel` of the daemon). As AppServerManager, with
the output pipes (`pipe`), a `findURL` goroutine per pipe, the goroutine in `Wait`
(`reaped`) and `monitor`. `GiveUp` is the end of the start's time limit or of its context.

**Daemon** (`daemon.go`). What a goroutine has still to do is a sequence of steps (`todo`);
a manager is its phase and the owner of its `operationMu`, which may be a phone (`PhoneCalls`,
`PhoneReturns`). `RunSteps`, `ShutdownSteps` and
`RestartSteps` are `Run`, `Shutdown` and the two restarts. A start that begins with its context done is
`belated`: it may still succeed. `condemned` are the managers with a process whose context is
cancelled and which `os/exec` has still to kill (`ExecKills`). `Drain` is the shutdown of the HTTP
server: it waits for the restarts it serves, or gives up after its two seconds. When the state file cannot be
written, or its closing reports an error, `Run` closes the server and returns (`CloseAgain`,
`RunFails`). `mishaps` remembers the four things the properties except: a restart that `outlasted`
the two seconds, a belated start that was `lucky`, a file whose removal was `refused`, one that was
whole and yet `spoilt` by the error of its closing. `KillDaemon` ends the process at any moment and `Launch` starts the next one,
with a token of its own; the state file is absent, whole and this daemon's, whole and an earlier
one's, or cut off half-way through its write. `LoadState` and `Admitted` are the CLI that reads it
and the server that checks the token.

**MigrateConfig** (`daemon.go`). One step per system call of `MigrateLegacyConfig` and
`migrateConfigDir`, for any number of programs, each of which may be killed (`End`) and
started again, and which save files of their own once they have migrated (`Save`).

**Uploads** (`server.go`, `websocket.go`). `upload`, `temp`, `uploads` per upload, `turn`,
`names`, `files` per turn, `httpServer`. A request is received while the server is open; its handler then
goes on, and may create its file, although the close has begun. A file that the system does not remove, an error
that the code ignores (server.go:559), is `undeleted`. `userInput` looks its files up one at a time; the close of
the server waits for uploads, for two seconds at most (`late`), then removes what is
registered; the websockets outlive it.

**DesktopService** (`appservice.go`). `pc`, `arg`, `old` per caller; `settings`, `listenAddr`,
`control`, `controlURL`, `open`, `controlMu`; the tunnel manager as its mutex and phase, and
`target`, the address its process leads to. Only `SetListenAddr` and `Shutdown` take `controlMu`.
`appMu` is the app-server manager's `operationMu`: a phone's call, from a websocket that outlives the
server, may hold it when `StopAppServer`, a step of `Shutdown` under `controlMu`, asks for it.
`life` is what `main` has come to: `Launch` reads the settings, `StartControlServer`, `Restore`,
`Quit`, `Shutdown` and `StopAtQuit` follow, calls may still be under way when `Exit` ends the
process, and `Crash` ends it at any moment. A write of the settings may fail and leave the file as
it was, or cut off (`Torn`), which the next launch cannot read. `raced` records that a start of
the tunnel that runs read `controlURL` while `SetListenAddr` was changing it, or had read it when
the change began.

The `MC*` modules give the constants of each module small sets of model values; a `.cfg`
replaces nothing else. `*Proofs` modules hold the theorems; three of them are about two
modules each, whose definitions have different names for that reason (`DaemonInit`,
`UploadsNext`, `AwakeSpec`, ...).

## 3 What the runs check

The listed runs (a `.cfg` of the same name; `violation` runs are in section 5):

| run | what is asked of the code | instance |
|---|---|---|
| `Rpc` | `ResponseSlotFree`, `NoPendingLeak`: late, second and missing answers, cancelled calls and the drain never block a send or leave an entry. `EventStreamIntact`: what the reader of `Events()` gets is the process's output, nothing dropped or reordered. `FirstReplyTranslated`: an approval is tracked before it can be answered. `SessionEndsForAll`: the end of the process, or of what can be read of it, reaches every goroutine and call, those stuck on a full stdin included | 1 call, 2 responders, event channel of 1, 2 lines |
| `Manager` | `StateMatchesClient`, `ProcessUnderControl` (no process forgotten, none doubled), `LiveClientKept`, `ManagerResponds` (the end of codex is noticed whatever hangs; and if codex leaves no call of a phone that stays unanswered for ever, every operation ends), and the refinement of ServerLifecycle | 2 concurrent callers of any operation, 2 starts |
| `Awake` | `NoStrayInhibitor`: an inhibitor left on always has somebody about to look again. `SleepIsFreed`: after the server has stopped for good, the computer may sleep | 1 operation at a time beside 2 clients' callbacks, 1 change of the setting, refusals |
| `Events` | `InOrder`, `EveryEventReachesAll`, `EveryEventPasses` with one hub, of the events the hub takes from the manager | 2 sessions, 3 events, channels of 1 and 2 |
| `Store` | `RevokedStaysOut`, `PairedStaysKnown`, `OneIdentity`, `OneDevicePerCode`, `ConnectionsCounted` (exact for a paired device; of one that was revoked, no more than an upper bound), `HoldsEndWithSessions`, `SessionsEnd` (a session that broke comes to its end, if no request of it waits for `operationMu`, or if every call of codex ends) | 2 devices, 2 sessions of one phone, 1 thread, 1 code, 2 identities, Windows, failing saves |
| `Tunnel` | `StateMatchesCommand`, `NoOrphanTunnel`, `TunnelResponds`, and the refinement of ServerLifecycle | 2 callers of toggle and restart, 2 starts, 1 output stream |
| `Daemon` | `NothingOutlivesDaemon`, `StateFileIsTrue`, `ShutdownEnds` (if codex answers the phones, or they leave) | 2 restarts, a requested shutdown and phones' calls beside `Run`; any number of daemons one after the other |
| `Migrate` | `NothingLost`, `InPlaceWhenUsed` | 2 programs, 2 files, 2 legacy directories |
| `Uploads` | `NoLeftovers`, `LostOnlyToCleanup` | 3 uploads, 2 turns |
| `Desktop` | `OneServer`, `TunnelServesControl`, `CallsEnd` (the tunnel's calls always; changes of the address and the end of the program if codex answers the phones, or they leave); deadlock is checked too | window and tray, 2 addresses, any number of launches, quits and crashes, writes that are cut off |
| `Threads` | `HistoryWhole`, `SignalHitsOwner`, `NoTurnInterrupted`, `ThreadOpsEnd` (the end of codex ends an operation; and if codex ends every call, all end, unless it lied about a cursor) | 2 threads, one of them paginated, 2 turns, pages of 1, cursors right, wrong or never seen before; an editor with a codex of its own, a codex in a terminal |

Why these bounds are enough for the cases that matter:

* `Rpc`: one id can be answered twice or after its call has gone, and two lines with a
  channel of one already make the read loop wait in `emit` while another event is in the
  channel. `"note"` is left out of the kinds because it takes the path of `"resolved"`; two
  responders are two phones answering the same approval.
* `Manager`, `Tunnel`: an old client and a new one, an operation in progress and one that
  waits. In `Tunnel` a toggle runs the code of a start or of a stop, so these two are not
  separate kinds. One stream is enough there because no property of that run depends on
  which stream the address came from; `TunnelReaders.cfg` has two.
* `Awake`: a goroutine that is between its look at the state and its `Set`, the callback of
  the old client, and a new start. `AwakeStale.cfg` has two operations.
* `Events`: a session that keeps up beside one whose channel is full.
* `Store`: two sessions of one phone are what makes a count differ from a flag; the second
  device is what a code could pair twice.
* `Daemon`: two restarts are both managers, or one twice; a requested shutdown and `Run` itself meet
  at `closeMu`; the proofs cover any number.
* `Migrate`: both directories can hold the same file, and each program can be at a different
  directory; the proofs cover any number.
* `Uploads`, `Desktop`: three uploads are one registered, one being written and one late;
  two callers are an old and a new value of everything that is read without a mutex. A write that
  is refused and leaves the file alone changes nothing that a write that succeeds does not;
  `Desktop` leaves it out, `DesktopAlone` has both failures.
* `Threads`: a history of two pages, a list of two pages of which the second is asked for after
  the first has changed, and a chain of two processes in one application beside one without. The
  operations do not meet each other, so its three scenarios (histories, releases, take-overs)
  are initial states of one instance.

`CHECK_DEADLOCK FALSE` stands where the modelled program may stop: a process that ended, a
number of starts or events that is used up, a daemon that exited, a closed server. Migrate and Desktop go
on for ever and are checked for deadlock.

Further configurations, each a question of its own, are kept beside the listed ones. Two
find no error: `DesktopAlone.cfg` (`SettingsTellTunnel`, which holds one call
at a time) and `TunnelReaders.cfg` (`LiveTunnelKept`, `ReadersEnd` with two streams). The
others show a deviation of section 5.

    tlc -workers 2 -config Manager.cfg MCAppServerManager
    tlapm ManagerProofs.tla

## 4 Fairness

Fairness stands for what the Go runtime and the operating system do, and nothing else:

* weak fairness of each goroutine's next step when nothing blocks it (`ReadStep`,
  `ShutdownStep`, `CallStep`, `OpStep`, `WatchEnds`, `TakeEvent`, ...): a goroutine that can run
  does. A wait for codex is not such a step, but for the handshake of a start, which has its ten seconds;
  nor is a write to the stdin of a process that lives. The death of the process ends both;
* strong fairness of taking a mutex (`Enter`, the steps of Daemon and DesktopService, the end
  of a session, which needs `Store.mu`): `sync.Mutex` starves nobody that waits;
* a process that was told to go goes (`Die(i) /\ i \in told`; `ProcessExit /\ closed`): the
  context of `exec.CommandContext` kills it;
* a time limit passes (`GiveUp`, the two seconds of `Drain`);
* a session of a client whose process has died ends: in AppServerManager an assumption, in
  RpcClient the property `SessionEndsForAll`;
* `lsof` and `ps` end, and so do the ten seconds of a take-over (`OpStep`, `Expires` of Threads);
  codex's answers, turns and cursors and other programs owe nothing;
* `main` goes on once it was launched, and once the user has quit (`LifeStep`);
* a save of the store ends, one way or the other; it is under no obligation to succeed.

What the code leaves to codex and to the phones is a condition in the property and not a
fairness of the specification. `CodexAnswers` (AppServerManager, Threads, DesktopService),
`CallsReturn` (DeviceStore) and `PhonesAnswered` (Daemon) all say that no call keeps
`operationMu` for ever: codex answers it or dies, or its caller leaves. `RequestsEnd` (Daemon) says that the
requests end for which a `Run` that could not write its state file waits without a limit. What holds
without the condition stands beside it in the same property.

Beyond that, nothing is assumed of phones, users, codex's output, the address `cloudflared` prints, or of
processes that nobody told to go. Requests, crashes and failures are never fair.

## 5 What the code does that its documents do not say

One run is listed with a violation, and is a finding:

* `RpcPanic` (`NoSendOnClosedEvents`, README.md:64): `readLoop` may hold, or still read, a line after the
  goroutine in `command.Wait()` has run the shutdown and closed `c.events` (client.go:292).
  The `select` in client.go:238 then has a send on a closed channel beside `done`, in
  random order, and Go panics when it comes to the send first. In the `Rpc` run this step is a state of its
  own (`EmitOnClosed`), after which the program is gone.

Others show up as a violation in a configuration of their own:

| configuration | property | what happens |
|---|---|---|
| `EventsStolen` | `EveryEventReachesAll` with two hubs (README.md:64) | `openControlServer` (appservice.go:159) makes a second hub on the manager's only event channel; that of the closed server goes on receiving, and its events reach nobody of the new server |
| `ManagerOrphan` | `OwnsItsProcess` | a read error ends a session whose process lives on; `watch` forgets the client without ending it (manager.go:401), and the next start adds a process |
| `AwakeLost` | `AwakeWhileRunning` (README.md:57) | a released thread restarts the app-server (manager.go:212); the callback of the stop frees the inhibitor, and nothing takes it again (appservice.go:268) |
| `AwakeStale` | `AsleepWhenDisabled` | a `syncPreventSleep` that read the old setting takes the inhibitor after the user switched it off (appservice.go:391) |
| `StoreWindows` | `ReconnectWithoutPairing` (README.md:49) | on Windows a crash between the removal of the file and the rename (store.go:131) loses every device |
| `TunnelRestart` | `RestartNotGivenUp` | `Stop` returns an error when `cloudflared` has ended by the time of the `Kill` (tunnel/manager.go:125), by itself or by the `cancel` just before, and the restart gives up (daemon.go:369) |
| `TunnelStuck` | `TunnelNotStuck` | `findURL` returns with the address (tunnel/manager.go:165); nobody reads on, and `cloudflared` stops at a full pipe |
| `DaemonLate` | `OwnsItsProcesses` | a stop, or a start that failed, cancels the context of codex, and `Run` returns before the goroutine of `os/exec` that is to kill it has run (client.go:202). Three further ways for a process to be left are in the model: a restart that outlasts the two seconds of the close (daemon.go:295), a start after the shutdown that takes an answer though its context is done (client.go:144), a restart asked for with a state file whose closing failed (daemon.go:253) |
| `DesktopRace` | `TunnelAlwaysServes` | a start of the tunnel reads `controlURL`, `SetListenAddr` stops the tunnel and moves the server, and the start leads to the old address (appservice.go:347) |
| `ThreadsCursors` | `ThreadOpsEndAnyway` | a codex that answers a cursor it has never answered before keeps the loop of history.go:48-68 going, which only sees one that came before; one that alternates two keeps the lists (manager.go:324, 371); `operationMu` is held until the caller's context ends |
| `DesktopQuit` | `NoTunnelOutlivesQuit` | a start of the tunnel that waited for its mutex goes on after `Shutdown` has stopped the tunnel (appservice.go:299), and `main` returns while it runs |
| `ThreadsLate` | `NoTurnCutOff` | a phone sends `turn/start` and leaves; codex starts the turn after a release has looked at its thread, and the restart cuts it off (manager.go:208) |
| `ThreadsOwn` | `OwnCodexSpared` | codex has unloaded a thread and not yet closed its lock; the take-over finds its pid and terminates the program's own app-server (takeover_darwin.go:51 looks for this program only) |

Further properties are violated and have no configuration of their own; with one of them in the
place of the listed properties of the module's run, TLC shows the behaviour: `FileIsWhole` (DesktopService: a write of
the settings that was cut off, appservice.go:484, keeps the program from starting),
`SettingsTellTunnel` with two callers (a `StopTunnel` and a `StartTunnel` that cross leave a tunnel
that is not enabled, appservice.go:353), `QuitsAnyway` (DesktopService: a phone's call that codex
does not answer keeps `Shutdown` and `SetListenAddr` waiting, appservice.go:297), `NoStrangerSignalled`
(Threads: a pid that was given to another program between the look and the signal),
`AwakeWhileRunning` without releases (KeepAwake: the callback of an old client, which has read the state
before a quick restart, frees the inhibitor after the new start took it, appservice.go:391).
`ReleaseThread` runs the handshake of its restart under the context of the phone that asked
(websocket.go:212): a phone that leaves in that moment leaves the app-server down (`StartFails`).

Properties of the listed runs that except one of these cases name it: `PairedStaysKnown` and
`OneIdentity` with `lost`, `NothingOutlivesDaemon` and `StateFileIsTrue` with the members of `mishaps`
they name, `NoLeftovers` with `late` and `undeleted`, `ProcessUnderControl` with `ended`, `TunnelServesControl` with `raced`, `NoTurnInterrupted`,
`HistoryWhole` and `ThreadOpsEnd` with `lied`, `NoTurnInterrupted` with `late`, `SignalHitsOwner`
with `moved`. Each of these variables records one event
in the code, and everything else must still hold after any other history.

## 6 What is proved

For every value of the constants that satisfies the named `ASSUME`s of the modules, and
nothing else, unless said otherwise. Each proof has the same shape: an inductive invariant
of named conjuncts, checked by TLC first, a lemma or step per action, and the property from the
invariant.

* **RpcClientProofs**: `TypeCorrect`; `SendsNeverBlock` (`ResponseSlotFree`) and
  `PendingIsDrained` (`NoPendingLeak`). An entry of `pending` with an empty slot says nothing
  about an answer that is on its way to it, or about a call between its registration and its
  look at `done`; `SlotInv` ties entries, slots and the read loop's hand together, and
  `ShutInv` the phases of the shutdown to `done` and the holder of `pendingMu`.
  `EventsArriveIntact` (`EventStreamIntact`) needs to know where the read loop is in the
  output: `StreamInv` says that there is a place n in the log such that what can still be read
  follows it (all of the rest, until the pipe is closed), the line in hand is the n-th, and each
  event before it was sent, except the one in hand, or dropped at the end. `FirstAnswerIsTranslated`
  (`FirstReplyTranslated`) follows an approval from the read loop to the answer: `ApprovalInv`
  says that one that was sent, or is about to be, is on record or settled (answered with a
  translation, or resolved by codex), and `RespondInv` that whoever did not find it on record
  answers one that is settled. `PanicNeedsDeadProcess` confines the finding of section 5: while codex lives
  nobody but the read loop begins the shutdown, and having begun it, it sends no more.
* **ManagerProofs**, of AppServerManager: `TypeCorrect`, `StateAndClientAgree`, `ClientsAreWatched`,
  `LiveClientsAreKept` (an action property), `NoProcessIsForgotten`, `OneProcessAtATime`, both in
  `ProcessesAreUnderControl` (`ProcessUnderControl`), and
  `RefinesLifecycle`: the manager implements `Lifecycle!Safety`. `MutexInv` says that an
  operation inside its critical part holds `operationMu`, `PhaseInv` what each point of an
  operation implies for `state` and `client`, `WatchInv` which clients have a watch goroutine.
  Of KeepAwake: `ApplicationRefinesManager`, the composition implements the manager alone,
  because every step of it is a step of the manager or leaves it alone; so what is proved of the
  manager holds in the application (`ApplicationControlsServer`). `ApplicationTypeCorrect` and
  `InhibitorIsNeverStray` (`NoStrayInhibitor`) rest on the manager's invariant and on
  `ManagingInv`: an operation in the manager is one of the application's.
* **EventHubProofs**: `TypeCorrect`; `StreamsInOrder` (`InOrder`) with any number of hubs, by
  `OrderInv`: the queue and each stream are increasing, and what a session was given is older
  than what its hub holds, which is older than what is in the queue; `NothingLostWithOneHub`
  (`EveryEventReachesAll`) with the assumption `MaxHubs = 1`, without which it is false.
* **ControlProofs**, of DeviceStore: `TypeCorrect`, `RevocationIsFinal`, `PairingIsKept` (`KeptInv`: a device
  that was answered is in the file, and in what a failed save would restore), `IdentityIsKept` (`IdentityInv`),
  `CodesPairOnce` (`CodeInv`), `HoldsEnd` (`HoldsInv`), `CountsAreRight` (`CountInv`, `IdleInv`,
  with the library's theorems on cardinality), and `SavesAreAtomic`: what a restart would know, the file or,
  on Windows between the removal and the rename, the list the save began with, moves by one finished
  pairing or revocation at a time (`SaveInv`: what is written differs by one device from what the
  save began with, which is what the file held). Of Uploads: `UploadsTypeCorrect`,
  `UploadsAreCleanedUp` (`NoLeftovers`), `UploadsAreKept` (`LostOnlyToCleanup`). `FilesInv` says what the
  phase of an upload means for its file (on the disk, registered, or removed by the clean-up unless the
  system refused to), and that
  the uploads in progress when the server has stopped are among the late ones; `TurnsInv` that a turn
  names answered uploads only.
* **MigrateConfigProofs**: `TypeCorrect`, `NoFileIsLost` (`NothingLost`), `InPlace`
  (`InPlaceWhenUsed`), for any number of programs, files and directories. `View` chooses the
  first directory that has a file, which exists because `<` is well-founded on the numbers of
  the directories; `ViewInv` says that this is the version the user must not lose, `MergeInv`
  that an entry about to be moved still has no counterpart, or was moved by somebody else,
  `PassedInv` that a directory a program has passed is gone for good, `PlaceInv` that files are
  merged only into a directory that exists.
* **DesktopServiceProofs**: `TypeCorrect`, `OneServerAtATime` (`OneServer`),
  `TunnelsLeadToServer` (`TunnelServesControl`), for any number of
  callers and addresses, through any number of launches, quits and crashes, by `HolderInv` (what the holder of `controlMu` has done at each point of
  `SetListenAddr`: the server it is to close is the one there is, there is none while it opens
  another), `ArgInv` (a call that needs an address has one), `LifeInv` (what is open at each
  point of the program's life) and `UrlInv` (where a tunnel, or the address a start has read,
  leads while `raced` is false).
* **ThreadsProofs**: `TypeCorrect`, `HistoriesAreWhole` (`HistoryWhole`), `SignalsHitOwners`
  (`SignalHitsOwner`), `TurnsAreNotInterrupted` (`NoTurnInterrupted`), for any threads, turns, pages,
  cursors, processes and applications. `ReadInv` says that what has been read is the turns up to
  the cursor, `ListInv` that a thread at work lies on a page to come, `TakeInv` that the target
  is the owner or runs from its application, and that the owner still is one unless the lock has
  moved.

* **DaemonProofs**, of Tunnel: `TunnelTypeCorrect`, `TunnelStateAndCommandAgree` (`StateMatchesCommand`),
  `NoTunnelIsLost` (`NoOrphanTunnel`), `LiveTunnelsAreKept` (`LiveTunnelKept`, an action property)
  and `TunnelRefinesLifecycle`, along the manager's argument: `MutexInv`, `PhaseInv`, `UseInv` (the
  process in use has its monitor and its address is shown), for any number of operations,
  processes and streams. Of Daemon: `DaemonTypeCorrect`, `DaemonLeavesNothing`
  (`NothingOutlivesDaemon`), `StateFileLeadsToDaemon` (`StateFileIsTrue`), for any number of requests and
  through any number of daemons. `DaemonInv` first says which sequences of steps each kind of goroutine
  can have left (`TodoInv`), so that a property of the point a goroutine is at becomes one of its `todo`;
  then who holds the managers' mutexes (`MuInv`) and `closeMu`, and what its holder has done
  (`CloseInv`); that before the state file is whole, and when its writing failed, there is nothing but `Run`, no manager
  having been started, unless the file was spoilt (`EarlyInv`); and, the
  heart of it, that after a close with none of the excepted mishaps a manager that a shutdown has stopped
  is not started again: the restarts ended before, and a start of `Run`'s that comes later is
  belated, so that its success would be on record (`OverInv`, `Tidy`). A phone's call may stop codex, and starts
  it only again. Of a daemon that was killed
  only its file is left (`KilledInv`).

Every safety invariant and every action property of a listed run is proved. Only model-checked: all
liveness (fairness is out of the prover's reach), hence also the liveness half of ServerLifecycle,
and the configurations of section 5. No result about a recursive function is claimed; so
`EventStreamIntact` speaks of positions in the log and not of the subsequence of its events, which
is defined by recursion on the log.

## 7 What is not modelled

* What is in a turn, and in an entry of the list of threads; the event `thread/released`, which a
  full channel loses. The call of an operation of Threads is a call like any other in
  AppServerManager; that its answers depend on the client's own steps is left to RpcClient.
* The wording of messages, tokens, hashes and addresses; a token stands for its device,
  `LastSeen` is left out. The handshake (`initialize`) is its outcome. `Notify` is a write.
* `Manager.Toggle` of the two managers is used by tests only; it is modelled nevertheless. The
  branch of `RenameDir` for a target that exists by now is in the model, but no state reaches
  it: whoever made the target has moved the source away.
* Two programs on one `devices.json`, and two daemons on one state file at the same time. A
  `cloudflared` or codex that outlives a program that was killed belongs to nobody in the models.
* Files, directories, downloads, the CLI's output, the window, the tray's labels and the updater, the
  installer, the diagnostics and the frontend: input and output, one after the other.
* Time is a choice: a limit may pass whenever it runs.

## 8 Plan

The order was: what every phone relies on first. Done: client, manager with its abstract
life cycle and the inhibitor on top; hub; store with sessions; tunnel; daemon over several
lives; migration; uploads; desktop service from launch to quit; thread history, release and
take-over; a proof of each safety property of the runs.

Next, the models:

1. approvals across a restart: RpcClient's `approvals` composed with AppServerManager, for an
   answer that reaches the client after the one it was asked by (websocket.go:348);
2. `devices.json` shared by two programs, and two daemons at once on one state file (daemon.go:432);
3. a session composed with hub and store: what `RestartAppServer` of the daemon, or a release,
   which do not clear the holds as the desktop's stop does, leave behind (websocket.go:281);
4. abstract specifications of the store (a set of devices and one identity) and of the event
   stream (a prefix of what codex sent), implemented by DeviceStore and EventHub.

The proofs of what the runs check are done, but for liveness. What is left for the models there
are: the store as an implementation of an abstract set of devices, of which `SavesAreAtomic` is the
step, with the identity in it; and the event stream from codex to a phone, `EventsArriveIntact` and
`StreamsInOrder` joined by the manager's channel.
