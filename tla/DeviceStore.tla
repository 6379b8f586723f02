------------------------------ MODULE DeviceStore ------------------------------
(***************************************************************************)
(* The paired devices (internal/devices/store.go) and the websocket        *)
(* sessions that count and hold threads in it (internal/control).          *)
(*                                                                         *)
(* Store.mu is held for the whole of an operation, the save of the file    *)
(* included, so an operation that does not save is one step.  One that     *)
(* saves changes the memory first, writes a temporary file, removes the    *)
(* old file on Windows, and renames: the program may crash at any of these *)
(* points, and when the save fails the change of the memory is undone.     *)
(* Open reads the file back.                                               *)
(***************************************************************************)
EXTENDS Naturals, FiniteSets

CONSTANTS
    Devices,     \* the identities Exchange may issue
    Sessions,    \* the websocket connections
    DeviceOf,    \* the device whose token a connection presents
    Threads,     \* codex's threads
    NoCaller, OtherCaller,  \* who calls codex: nobody, or no session of these
    Tokens, NoToken,  \* the pairing codes NewPairing may draw
    Ids, NoId,        \* the server identities initServer may draw
    Windows,     \* whether a save removes the old file first
    SaveErrors   \* whether a save may fail

ASSUME DeviceOfAssumption == DeviceOf \in [Sessions -> Devices]
ASSUME NoneAssumption ==
    /\ NoToken \notin Tokens /\ NoId \notin Ids
    /\ NoCaller # OtherCaller /\ {NoCaller, OtherCaller} \cap Sessions = {}
ASSUME FlagsAssumption == Windows \in BOOLEAN /\ SaveErrors \in BOOLEAN
ASSUME SessionsFinite == IsFiniteSet(Sessions)

VARIABLES
    up,                   \* the program runs
    devices, server,      \* Store.devices, Store.server.ID
    pairing,              \* the code whose pairingEnd is not past, or NoToken
    connections, threads, \* Store.connections, Store.threads
    saving, before,       \* the operation that saves, and `devices` before it
    removed,              \* it has removed the old file
    savedDevices, savedServer,  \* the file
    phase, inflight,      \* a session's handler, and the threads it has asked for
    resumed,              \* those of them that codex has given it
    operationMu,          \* who holds Manager.operationMu
    paired, revoked,      \* history: devices whose Exchange, Revoke was saved
    redeemed,             \* history: the devices paired by each code
    identities,           \* history: server identities that were saved
    lost                  \* history: a save ended after it had removed the old file

memory == <<devices, server, pairing, connections, threads>>
save == <<saving, before, removed>>
file == <<savedDevices, savedServer>>
requests == <<inflight, resumed, operationMu>>
sessions == <<phase, requests>>
history == <<paired, revoked, redeemed, identities, lost>>
vars == <<up, memory, save, file, sessions, history>>

Phases == {"away", "authenticated", "open", "closing", "cleared", "gone"}

DeviceTypeOK ==
    /\ up \in BOOLEAN
    /\ devices \in SUBSET Devices
    /\ server \in Ids \cup {NoId}
    /\ pairing \in Tokens \cup {NoToken}
    /\ connections \in [Devices -> Nat]
    /\ threads \in [Devices -> SUBSET Threads]
    /\ saving \in {"no", "init", "exchange", "revoke"}
    /\ before \in SUBSET Devices
    /\ removed \in BOOLEAN
    /\ savedDevices \in SUBSET Devices
    /\ savedServer \in Ids \cup {NoId}
    /\ phase \in [Sessions -> Phases]
    /\ inflight \in [Sessions -> SUBSET Threads]
    /\ resumed \in [Sessions -> SUBSET Threads]
    /\ operationMu \in Sessions \cup {NoCaller, OtherCaller}
    /\ paired \in SUBSET Devices /\ revoked \in SUBSET paired
    /\ redeemed \in [Tokens -> SUBSET Devices]
    /\ identities \in SUBSET Ids
    /\ lost \in BOOLEAN

NoMemory ==
    /\ devices' = {} /\ server' = NoId /\ pairing' = NoToken
    /\ connections' = [d \in Devices |-> 0] /\ threads' = [d \in Devices |-> {}]

\* A file of this version, or the plain list of devices an earlier version
\* wrote, without an identity; where there is no file Open does as with an empty
\* list.
Init ==
    /\ up = FALSE
    /\ devices = {} /\ server = NoId /\ pairing = NoToken
    /\ connections = [d \in Devices |-> 0] /\ threads = [d \in Devices |-> {}]
    /\ saving = "no" /\ before = {} /\ removed = FALSE
    /\ savedDevices \in SUBSET Devices
    /\ savedServer \in Ids \cup {NoId}
    /\ phase = [s \in Sessions |-> "away"]
    /\ inflight = [s \in Sessions |-> {}] /\ resumed = [s \in Sessions |-> {}]
    /\ operationMu = NoCaller
    /\ paired = savedDevices /\ revoked = {}
    /\ redeemed = [t \in Tokens |-> {}]
    /\ identities = {savedServer} \ {NoId}
    /\ lost = FALSE

\* The program has its store and nobody holds Store.mu.
Free == up /\ saving = "no"

-----------------------------------------------------------------------------
(* Plausible bugs: each stands in for the operator named in its comment when a *)
(* property's sensitivity is checked, and is used nowhere else.                *)

\* SaveFailed after which Revoke reports success all the same.
SaveFailureIgnored ==
    /\ SaveErrors /\ saving # "no"
    /\ saving' = "no" /\ before' = {} /\ removed' = FALSE
    /\ IF saving = "init" THEN up' = FALSE /\ NoMemory ELSE UNCHANGED <<up, memory>>
    /\ revoked' = IF saving = "revoke" THEN revoked \cup (before \ devices) ELSE revoked
    /\ lost' = (lost \/ removed)
    /\ UNCHANGED <<file, sessions, paired, redeemed, identities>>

\* SaveFailed that does not undo the change of the memory.
SaveFailedNotUndone ==
    /\ SaveErrors /\ saving # "no"
    /\ saving' = "no" /\ before' = {} /\ removed' = FALSE
    /\ IF saving = "init" THEN up' = FALSE /\ NoMemory ELSE UNCHANGED <<up, memory>>
    /\ lost' = (lost \/ removed)
    /\ UNCHANGED <<file, sessions, paired, revoked, redeemed, identities>>

\* Exchange that leaves the code in force until it expires.
ExchangeKeepsCode(t, d) ==
    /\ Free /\ pairing # NoToken /\ t = pairing /\ d \notin paired
    /\ devices' = devices \cup {d}
    /\ redeemed' = [redeemed EXCEPT ![t] = @ \cup {d}]
    /\ saving' = "exchange" /\ before' = devices
    /\ UNCHANGED <<up, pairing, server, connections, threads, removed, file, sessions,
                   paired, revoked, identities, lost>>

\* Open that takes the devices of an old file over but saves nothing.
OpenWithoutSaving(id) ==
    /\ ~up
    /\ up' = TRUE
    /\ devices' = savedDevices
    /\ server' = IF savedServer # NoId THEN savedServer ELSE id
    /\ identities' = identities \cup {server'}
    /\ UNCHANGED <<pairing, connections, threads, save, file, sessions,
                   paired, revoked, redeemed, lost>>

\* ClearThreads in a handler that does not wait for its requests.
ClearWithoutWait(s) ==
    /\ phase[s] = "closing" /\ Free
    /\ threads' = [threads EXCEPT ![DeviceOf[s]] = {}]
    /\ phase' = [phase EXCEPT ![s] = "cleared"]
    /\ UNCHANGED <<up, devices, server, pairing, connections, save, file, requests, history>>

\* Disconnect that drops the device's entry whatever its count.
DisconnectDeletes(s) ==
    /\ phase[s] = "cleared" /\ Free
    /\ connections' = [connections EXCEPT ![DeviceOf[s]] = 0]
    /\ phase' = [phase EXCEPT ![s] = "gone"]
    /\ UNCHANGED <<up, devices, server, pairing, threads, save, file, requests, history>>

\* Rename after which Revoke returns without unlocking the mutex.
RenameKeepsLock ==
    /\ saving # "no" /\ (Windows => removed)
    /\ savedDevices' = devices /\ savedServer' = server
    /\ IF saving = "revoke" THEN UNCHANGED save
       ELSE saving' = "no" /\ before' = {} /\ removed' = FALSE
    /\ paired' = paired \cup (devices \ before)
    /\ revoked' = revoked \cup (before \ devices)
    /\ identities' = identities \cup {server}
    /\ UNCHANGED <<up, memory, sessions, redeemed, lost>>

-----------------------------------------------------------------------------
(* Open, the end of the program, and saveLocked                               *)

\* Open: a file with an identity is taken as it is; otherwise initServer draws
\* one, keeps the devices an old file lists, and saves.
Open(id) ==
    /\ ~up
    /\ up' = TRUE
    /\ devices' = savedDevices
    /\ IF savedServer # NoId
       THEN server' = savedServer /\ UNCHANGED <<saving, before>>
       ELSE /\ id \notin identities
            /\ server' = id
            /\ saving' = "init" /\ before' = savedDevices
    /\ UNCHANGED <<pairing, connections, threads, removed, file, sessions, history>>

\* The program is killed, or ends: nothing is saved then, and every connection
\* is broken.
Crash ==
    /\ up
    /\ up' = FALSE
    /\ NoMemory
    /\ saving' = "no" /\ before' = {} /\ removed' = FALSE
    /\ phase' = [s \in Sessions |-> IF phase[s] = "away" THEN "away" ELSE "gone"]
    /\ inflight' = [s \in Sessions |-> {}] /\ resumed' = [s \in Sessions |-> {}]
    /\ operationMu' = NoCaller
    /\ lost' = (lost \/ removed)
    /\ UNCHANGED <<file, paired, revoked, redeemed, identities>>

\* Lines 129-131, once the temporary file is complete.
RemoveOld ==
    /\ saving # "no" /\ Windows /\ ~removed
    /\ removed' = TRUE
    /\ savedDevices' = {} /\ savedServer' = NoId
    /\ UNCHANGED <<up, memory, saving, before, sessions, history>>

\* Line 132, and the rest of the operation: Exchange hands the token out, Revoke
\* forgets the device's connections and threads.
Rename ==
    /\ saving # "no" /\ (Windows => removed)
    /\ savedDevices' = devices /\ savedServer' = server
    /\ saving' = "no" /\ before' = {} /\ removed' = FALSE
    /\ paired' = paired \cup (devices \ before)
    /\ revoked' = revoked \cup (before \ devices)
    /\ connections' = [d \in Devices |-> IF d \in before \ devices THEN 0 ELSE connections[d]]
    /\ threads' = [d \in Devices |-> IF d \in before \ devices THEN {} ELSE threads[d]]
    /\ identities' = identities \cup {server}
    /\ UNCHANGED <<up, devices, server, pairing, sessions, redeemed, lost>>

\* Any step of the save fails: Exchange and Revoke undo what they did to the
\* memory, and Open's error ends the program.
SaveFailed ==
    /\ SaveErrors /\ saving # "no"
    /\ saving' = "no" /\ before' = {} /\ removed' = FALSE
    /\ IF saving = "init"
       THEN up' = FALSE /\ NoMemory
       ELSE devices' = before /\ UNCHANGED <<up, server, pairing, connections, threads>>
    /\ lost' = (lost \/ removed)
    /\ UNCHANGED <<file, sessions, paired, revoked, redeemed, identities>>

-----------------------------------------------------------------------------
(* Pairing and revocation *)

\* A new code takes the place of the one before.
NewPairing(t) ==
    /\ Free /\ t # pairing /\ redeemed[t] = {}
    /\ pairing' = t
    /\ UNCHANGED <<up, devices, server, connections, threads, save, file, sessions, history>>

PairingExpires ==
    /\ up /\ pairing # NoToken
    /\ pairing' = NoToken
    /\ UNCHANGED <<up, devices, server, connections, threads, save, file, sessions, history>>

\* Exchange up to the save: the code is spent whether or not the save succeeds.
Exchange(t, d) ==
    /\ Free /\ pairing # NoToken /\ t = pairing /\ d \notin paired
    /\ pairing' = NoToken
    /\ devices' = devices \cup {d}
    /\ redeemed' = [redeemed EXCEPT ![t] = @ \cup {d}]
    /\ saving' = "exchange" /\ before' = devices
    /\ UNCHANGED <<up, server, connections, threads, removed, file, sessions,
                   paired, revoked, identities, lost>>

\* Revoke up to the save; it does nothing for a device that is not there.
Revoke(d) ==
    /\ Free /\ d \in devices
    /\ devices' = devices \ {d}
    /\ saving' = "revoke" /\ before' = devices
    /\ UNCHANGED <<up, server, pairing, connections, threads, removed, file, sessions, history>>

-----------------------------------------------------------------------------
(* websocketHandler *)

PhaseTo(s, p) == phase' = [phase EXCEPT ![s] = p]
HandlerFrame == UNCHANGED <<up, devices, server, pairing, save, file, history>>

Authenticate(s) ==
    /\ phase[s] = "away" /\ Free
    /\ DeviceOf[s] \in devices
    /\ PhaseTo(s, "authenticated")
    /\ UNCHANGED <<connections, threads, requests>> /\ HandlerFrame

AcceptFails(s) ==
    /\ phase[s] = "authenticated"
    /\ PhaseTo(s, "gone")
    /\ UNCHANGED <<connections, threads, requests>> /\ HandlerFrame

Connect(s) ==
    /\ phase[s] = "authenticated" /\ Free
    /\ connections' = [connections EXCEPT ![DeviceOf[s]] = @ + 1]
    /\ PhaseTo(s, "open")
    /\ UNCHANGED <<threads, requests>> /\ HandlerFrame

\* thread/resume and thread/takeover: the request, in a goroutine of its own.
CallForThread(s, t) ==
    /\ phase[s] = "open" /\ t \notin inflight[s]
    /\ inflight' = [inflight EXCEPT ![s] = @ \cup {t}]
    /\ UNCHANGED <<connections, threads, phase, resumed, operationMu>> /\ HandlerFrame

\* ResumeThread and TakeOverThread wait for the mutex without a look at the
\* session's context, and so do the calls of all others.
Lock(s) ==
    /\ inflight[s] \ resumed[s] # {} /\ operationMu = NoCaller
    /\ operationMu' = s
    /\ UNCHANGED <<connections, threads, phase, inflight, resumed>> /\ HandlerFrame

OthersLock ==
    /\ up /\ operationMu = NoCaller
    /\ operationMu' = OtherCaller
    /\ UNCHANGED <<connections, threads, phase, inflight, resumed>> /\ HandlerFrame

OthersUnlock ==
    /\ operationMu = OtherCaller
    /\ operationMu' = NoCaller
    /\ UNCHANGED <<connections, threads, phase, inflight, resumed>> /\ HandlerFrame

\* Codex refuses, is gone, or has not answered when the context is cancelled.
CallFailed(s, t) ==
    /\ operationMu = s /\ t \in inflight[s] \ resumed[s]
    /\ operationMu' = NoCaller
    /\ inflight' = [inflight EXCEPT ![s] = @ \ {t}]
    /\ UNCHANGED <<connections, threads, phase, resumed>> /\ HandlerFrame

\* The call has succeeded, if only just before its context was cancelled.
CallSucceeded(s, t) ==
    /\ operationMu = s /\ t \in inflight[s] \ resumed[s]
    /\ operationMu' = NoCaller
    /\ resumed' = [resumed EXCEPT ![s] = @ \cup {t}]
    /\ UNCHANGED <<connections, threads, phase, inflight>> /\ HandlerFrame

HoldThread(s, t) ==
    /\ t \in resumed[s] /\ Free
    /\ threads' = [threads EXCEPT ![DeviceOf[s]] = @ \cup {t}]
    /\ inflight' = [inflight EXCEPT ![s] = @ \ {t}]
    /\ resumed' = [resumed EXCEPT ![s] = @ \ {t}]
    /\ UNCHANGED <<connections, phase, operationMu>> /\ HandlerFrame

\* conn.Read fails: the session's context is cancelled.
ReadFails(s) ==
    /\ phase[s] = "open"
    /\ PhaseTo(s, "closing")
    /\ UNCHANGED <<connections, threads, requests>> /\ HandlerFrame

\* requests.Wait, and then, as the handler returns, the first call of its deferred
\* function.
ClearThreads(s) ==
    /\ phase[s] = "closing" /\ inflight[s] = {} /\ Free
    /\ threads' = [threads EXCEPT ![DeviceOf[s]] = {}]
    /\ PhaseTo(s, "cleared")
    /\ UNCHANGED <<connections, requests>> /\ HandlerFrame

\* The second: the function Connect returned.
Disconnect(s) ==
    /\ phase[s] = "cleared" /\ Free
    /\ connections' = [connections EXCEPT ![DeviceOf[s]] = IF @ <= 1 THEN 0 ELSE @ - 1]
    /\ PhaseTo(s, "gone")
    /\ UNCHANGED <<threads, requests>> /\ HandlerFrame

\* A thread released from a phone or from the desktop.
ReleaseThread(t) ==
    /\ Free
    /\ threads' = [d \in Devices |-> threads[d] \ {t}]
    /\ UNCHANGED <<connections, sessions>> /\ HandlerFrame

\* The desktop has stopped the codex process.
ClearAllThreads ==
    /\ Free
    /\ threads' = [d \in Devices |-> {}]
    /\ UNCHANGED <<connections, sessions>> /\ HandlerFrame

-----------------------------------------------------------------------------
\* The steps of a handler that wait for nothing but a mutex.
Finish(s) ==
    \/ Lock(s)
    \/ \E t \in Threads : HoldThread(s, t)
    \/ ClearThreads(s) \/ Disconnect(s)

Next ==
    \/ \E id \in Ids : Open(id)
    \/ Crash \/ RemoveOld \/ Rename \/ SaveFailed
    \/ \E t \in Tokens : NewPairing(t)
    \/ PairingExpires
    \/ \E t \in Tokens, d \in Devices : Exchange(t, d)
    \/ \E d \in Devices : Revoke(d)
    \/ \E s \in Sessions :
          Authenticate(s) \/ AcceptFails(s) \/ Connect(s) \/ ReadFails(s) \/ Finish(s)
    \/ \E s \in Sessions, t \in Threads :
          CallForThread(s, t) \/ CallFailed(s, t) \/ CallSucceeded(s, t)
    \/ OthersLock \/ OthersUnlock
    \/ \E t \in Threads : ReleaseThread(t)
    \/ ClearAllThreads

\* A save ends, and the goroutines of a broken connection get each mutex in their
\* turn.  That a call which holds operationMu ends is not assumed of any: codex may
\* not answer it, and before it heeds its context it may have to wait for codex to
\* read its input (client.go:215).
Fairness ==
    /\ WF_vars(RemoveOld) /\ WF_vars(Rename)
    /\ \A s \in Sessions : SF_vars(phase[s] # "open" /\ Finish(s))

Spec == Init /\ [][Next]_vars
FairSpec == Spec /\ Fairness

-----------------------------------------------------------------------------
(* Properties *)

\* A device whose revocation has succeeded does not come back, after whatever
\* crashes, failed saves and restarts: neither in the memory nor in the file.
RevokedStaysOut == revoked \cap (devices \cup savedDevices) = {}

\* README.md:49, "can reconnect without pairing again": a phone that was given a
\* token, and has not been revoked, is known whenever the server is open.
ReconnectWithoutPairing == Free => paired \ revoked \subseteq devices

\* The store keeps that promise through failed saves, crashes and restarts, with
\* one exception: on Windows a save that ends between the removal of the old file
\* and the rename of the new one (store.go:130-132) leaves no file to read.
PairedStaysKnown == ~lost => ReconnectWithoutPairing

\* The identity phones know the server by is drawn once for all, with the same
\* exception.
OneIdentity == ~lost => Cardinality(identities) <= 1

\* A pairing code pairs one device at most.
OneDevicePerCode == \A t \in Tokens : Cardinality(redeemed[t]) <= 1

\* Sessions of a device that are in its count.
Counted(d) == {s \in Sessions : DeviceOf[s] = d /\ phase[s] \in {"open", "closing", "cleared"}}

\* The number of connections shown for a device is that of its live sessions;
\* after a revocation, which deletes the entry under them, it is never more.
ConnectionsCounted ==
    \A d \in Devices :
        /\ connections[d] <= Cardinality(Counted(d))
        /\ d \notin revoked => connections[d] = Cardinality(Counted(d))

\* A device holds threads only as long as one of its sessions has still to give
\* them back, however late the answer to its last request.
HoldsEndWithSessions ==
    \A d \in Devices : threads[d] # {} =>
        \E s \in Sessions : DeviceOf[s] = d /\ phase[s] \in {"open", "closing"}

\* Nobody holds operationMu for ever: every call ends.
CallsReturn == []<>(operationMu = NoCaller)

\* The handler of a broken connection comes to its end, so that the counts and the
\* holds it left are taken back: as soon as none of its requests still waits to
\* call codex, and therefore always if every call ends, those of the other phones
\* and of the desktop included.
SessionsEnd ==
    /\ \A s \in Sessions :
          phase[s] = "closing" /\ inflight[s] \subseteq resumed[s] ~> phase[s] = "gone"
    /\ CallsReturn => \A s \in Sessions : phase[s] = "closing" ~> phase[s] = "gone"

=============================================================================
