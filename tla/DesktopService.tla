----------------------------- MODULE DesktopService -----------------------------
(***************************************************************************)
(* The desktop program's own control of its control server, its tunnel and *)
(* its settings (appservice.go), over the program's whole life (main.go).  *)
(* A launch reads the settings, opens the server and restores the tunnel.  *)
(* Then SetListenAddr replaces the server by one at another address, and   *)
(* StartTunnel, StopTunnel and SetTunnelURL change the tunnel; each writes *)
(* what it did into the settings file.  The window and the tray menu call  *)
(* them, each call in a goroutine of its own.  Once the user has quit,     *)
(* Shutdown closes the server and stops the tunnel, while calls may still  *)
(* be under way; a crash skips that.  Only SetListenAddr and Shutdown take *)
(* controlMu; the tunnel manager (module Tunnel) has a mutex of its own,   *)
(* which a Start or a Stop holds, and so has the manager of the codex      *)
(* process (module AppServerManager), which Shutdown stops too: a call of  *)
(* a phone holds that one for as long as codex leaves it without an        *)
(* answer, also after the server has been closed, which does not wait for  *)
(* the phones' websockets.                                                 *)
(***************************************************************************)
EXTENDS Naturals, FiniteSets

CONSTANTS
    Callers,    \* the goroutines that call the service
    Addresses,  \* the addresses the user chooses from
    FirstAddr,  \* the one of a program without a settings file
    Torn,       \* a settings file of which only a part was written
    Failures    \* what a write that fails may do to the file

None == "none"

Main == "main"  \* the goroutine of main, which runs Shutdown

Domains == {"custom", "quick"}

Settings == [enabled : BOOLEAN, custom : BOOLEAN, listen : Addresses]

Default == [enabled |-> FALSE, custom |-> FALSE, listen |-> FirstAddr]

ASSUME AddressesAssumption ==
    /\ FirstAddr \in Addresses
    /\ None \notin Addresses \cup Callers /\ Main \notin Callers /\ Domains \cap Addresses = {}
    /\ Torn \notin Settings
    /\ Failures \subseteq {"refused", "cutOff"}

VARIABLES
    pc,          \* where each call is
    arg,         \* the address or domain it was given, or the URL it has read
    old,         \* the server SetListenAddr is to close, by its address
    life,        \* what main has come to
    settings,    \* s.settings
    file,        \* the settings file
    listenAddr, control, controlURL,  \* s.listenAddr, s.control, s.controlURL
    open,        \* the addresses servers of this program listen at
    controlMu,   \* who holds s.controlMu
    opMu, mode,  \* the tunnel manager: who holds operationMu, its phase
    target,      \* the address the tunnel that runs leads to
    raced,       \* history: a start of this tunnel met a change of the address
    appMu        \* the codex manager's operationMu: free, or some operation's

call == <<pc, arg, old>>
saved == <<settings, file>>
server == <<listenAddr, control, controlURL, open, controlMu>>
tunnel == <<opMu, mode, target, raced>>
program == <<life, appMu>>
vars == <<call, program, saved, server, tunnel>>

ListenPcs == {"stopFirst", "disable", "close", "open", "restore", "listening"}
TunnelPcs == {"enable", "readCustom", "readURL", "start", "starting", "stop", "disabled", "stopForURL", "setURL"}

\* app.Run has returned in "quit".  Shutdown holds controlMu in the next two: it has
\* closed the server in "stopping", and stopped codex in "codexStopped".
Closing == {"stopping", "codexStopped"}
Up == {"up", "quit", "ended"} \cup Closing
Lives == {"down", "opening", "restoring"} \cup Up

TypeOK ==
    /\ pc \in [Callers -> {"idle", "lock"} \cup ListenPcs \cup TunnelPcs]
    /\ arg \in [Callers -> Addresses \cup Domains \cup {None}]
    /\ old \in [Callers -> Addresses \cup {None}]
    /\ life \in Lives
    /\ settings \in Settings /\ file \in Settings \cup {Torn}
    /\ listenAddr \in Addresses /\ controlURL \in Addresses \cup {None}
    /\ control \in Addresses \cup {None} /\ target \in Addresses \cup {None}
    /\ open \subseteq Addresses
    /\ opMu \in Callers \cup {None} /\ controlMu \in Callers \cup {Main, None}
    /\ mode \in {"stopped", "starting", "running"}
    /\ raced \in BOOLEAN
    \* Whoever holds a mutex is in the part of its call that the mutex is for.
    /\ \A c \in Callers : (controlMu = c <=> pc[c] \in ListenPcs) /\ (opMu = c <=> pc[c] = "starting")
    /\ controlMu = Main <=> life \in Closing
    /\ appMu \in {"free", "held"}

\* The program is not running, and has left a file from an earlier time.
Init ==
    /\ pc = [c \in Callers |-> "idle"] /\ arg = [c \in Callers |-> None]
    /\ old = [c \in Callers |-> None]
    /\ life = "down" /\ settings = Default /\ file \in Settings
    /\ listenAddr = FirstAddr /\ control = None /\ controlURL = None
    /\ open = {} /\ controlMu = None /\ opMu = None
    /\ mode = "stopped" /\ target = None /\ raced = FALSE
    /\ appMu = "free"

Goes(c, to) == pc' = [pc EXCEPT ![c] = to] /\ UNCHANGED <<arg, old>>

GoesWith(c, to, a) ==
    /\ pc' = [pc EXCEPT ![c] = to]
    /\ arg' = [arg EXCEPT ![c] = a]
    /\ UNCHANGED old

\* The call returns, and its local variables are gone.
Return(c) ==
    /\ pc' = [pc EXCEPT ![c] = "idle"]
    /\ arg' = [arg EXCEPT ![c] = None] /\ old' = [old EXCEPT ![c] = None]

\* updateSettings, which holds s.mu throughout: what is in memory changes even if
\* the file cannot be written, which may leave it as it was or cut off.
SaveOr(new, written) ==
    /\ settings' = new
    /\ IF written
       THEN file' = new
       ELSE \E f \in Failures : file' = IF f = "cutOff" THEN Torn ELSE file

\* That error matters where the caller returns because of it.
Save(new) == \E written \in BOOLEAN : SaveOr(new, written)

Disabled == [settings EXCEPT !.enabled = FALSE]

\* openControlServer: a new server, or an address that cannot be bound.
Opened(a) == open' = open \cup {a} /\ control' = a /\ controlURL' = a
NotOpened == UNCHANGED <<open, control, controlURL>>

\* A start has read the URL and has not published its tunnel.
UrlRead == \E c \in Callers : pc[c] \in {"start", "starting"}

-----------------------------------------------------------------------------
(* Plausible bugs: each stands in for the operator named in its comment when a *)
(* property's sensitivity is checked, and is used nowhere else.                *)

\* LockControl without the mutex.
LockControlUnlocked(c) ==
    /\ pc[c] = "lock" /\ arg[c] # listenAddr
    /\ pc' = [pc EXCEPT ![c] = "stopFirst"] /\ old' = [old EXCEPT ![c] = control]
    /\ UNCHANGED <<arg, saved, server, tunnel>>

\* RestoreOld that tries the new address again.
RestoreOldRetries(c) ==
    /\ pc[c] = "restore"
    /\ \/ listenAddr \notin open /\ Opened(listenAddr) /\ Return(c) /\ controlMu' = None
       \/ NotOpened /\ Goes(c, "open") /\ UNCHANGED controlMu
    /\ UNCHANGED <<saved, listenAddr, tunnel>>

\* StopFirst that leaves the tunnel to the user.
StopFirstForgotten(c) ==
    /\ pc[c] = "stopFirst"
    /\ Goes(c, "disable")
    /\ UNCHANGED <<saved, server, tunnel>>

-----------------------------------------------------------------------------
(* The tunnel manager *)

\* Stop, when no other operation holds operationMu; it leaves nothing running.
StopTunnelProcess ==
    /\ opMu = None
    /\ mode' = "stopped" /\ target' = None
    /\ raced' = IF UrlRead THEN raced ELSE FALSE
    /\ UNCHANGED opMu

\* Start of a tunnel that runs already returns at once.
StartTunnelProcess(c) ==
    /\ pc[c] = "start" /\ opMu = None
    /\ IF mode = "running"
       THEN Return(c) /\ UNCHANGED <<opMu, mode>>
       ELSE opMu' = c /\ mode' = "starting" /\ Goes(c, "starting")
    /\ UNCHANGED <<saved, server, target, raced>>

TunnelStarted(c) ==
    /\ pc[c] = "starting"
    /\ \/ mode' = "running" /\ target' = arg[c]
       \/ mode' = "stopped" /\ UNCHANGED target
    /\ opMu' = None
    /\ Return(c)
    /\ UNCHANGED <<saved, server, raced>>

\* cloudflared ends by itself.
TunnelEnds ==
    /\ mode = "running"
    /\ mode' = "stopped" /\ target' = None
    /\ raced' = IF UrlRead THEN raced ELSE FALSE
    /\ UNCHANGED <<call, program, saved, server, opMu>>

-----------------------------------------------------------------------------
(* StartTunnel, StopTunnel and SetTunnelURL; ToggleTunnel is one of the first two *)

StartTunnel(c) ==
    /\ pc[c] = "idle" /\ life = "up"
    /\ Goes(c, "enable")
    /\ UNCHANGED <<saved, server, tunnel>>

EnableTunnel(c) ==
    /\ pc[c] = "enable"
    /\ Save([settings EXCEPT !.enabled = TRUE])
    /\ Goes(c, "readCustom")
    /\ UNCHANGED <<server, tunnel>>

\* A custom domain is the user's to run; cloudflared may not be installed.
ReadCustom(c) ==
    /\ pc[c] = "readCustom"
    /\ (~settings.custom /\ Goes(c, "readURL")) \/ Return(c)
    /\ UNCHANGED <<saved, server, tunnel>>

ReadURL(c) ==
    /\ pc[c] = "readURL"
    /\ GoesWith(c, "start", controlURL)
    /\ raced' = IF controlMu = None THEN raced ELSE TRUE
    /\ UNCHANGED <<saved, server, opMu, mode, target>>

StopTunnel(c) ==
    /\ pc[c] = "idle" /\ life = "up"
    /\ Goes(c, "stop")
    /\ UNCHANGED <<saved, server, tunnel>>

TunnelStopped(c) ==
    /\ pc[c] = "stop" /\ StopTunnelProcess
    /\ Goes(c, "disabled")
    /\ UNCHANGED <<saved, server>>

StopSaved(c) ==
    /\ pc[c] = "disabled"
    /\ Save(Disabled)
    /\ Return(c)
    /\ UNCHANGED <<server, tunnel>>

SetTunnelURL(c) ==
    /\ pc[c] = "idle" /\ life = "up"
    /\ \E domain \in Domains : GoesWith(c, "stopForURL", domain)
    /\ UNCHANGED <<saved, server, tunnel>>

StopForURL(c) ==
    /\ pc[c] = "stopForURL" /\ StopTunnelProcess
    /\ Goes(c, "setURL")
    /\ UNCHANGED <<saved, server>>

SetURL(c) ==
    /\ pc[c] = "setURL"
    /\ Save([Disabled EXCEPT !.custom = arg[c] = "custom"])
    /\ Return(c)
    /\ UNCHANGED <<server, tunnel>>

-----------------------------------------------------------------------------
(* SetListenAddr *)

SetListenAddr(c) ==
    /\ pc[c] = "idle" /\ life = "up"
    /\ \E a \in Addresses : GoesWith(c, "lock", a)
    /\ UNCHANGED <<saved, server, tunnel>>

\* The address in use already is only saved.
SameAddress(c) ==
    /\ pc[c] = "lock" /\ controlMu = None /\ arg[c] = listenAddr
    /\ Save([settings EXCEPT !.listen = arg[c]])
    /\ Return(c)
    /\ UNCHANGED <<server, tunnel>>

LockControl(c) ==
    /\ pc[c] = "lock" /\ controlMu = None /\ arg[c] # listenAddr
    /\ controlMu' = c
    /\ pc' = [pc EXCEPT ![c] = "stopFirst"] /\ old' = [old EXCEPT ![c] = control]
    /\ raced' = IF UrlRead THEN TRUE ELSE raced
    /\ UNCHANGED <<arg, saved, listenAddr, control, controlURL, open, opMu, mode, target>>

StopFirst(c) ==
    /\ pc[c] = "stopFirst" /\ StopTunnelProcess
    /\ Goes(c, "disable")
    /\ UNCHANGED <<saved, server>>

DisableTunnel(c) ==
    /\ pc[c] = "disable"
    /\ \E written \in BOOLEAN :
          /\ SaveOr(Disabled, written)
          /\ IF written THEN Goes(c, "close") ELSE Return(c)
          /\ controlMu' = IF written THEN controlMu ELSE None
    /\ UNCHANGED <<listenAddr, control, controlURL, open, tunnel>>

\* Close waits two seconds at most, and its error is ignored.
CloseOld(c) ==
    /\ pc[c] = "close"
    /\ open' = open \ {old[c]}
    /\ control' = None
    /\ Goes(c, "open")
    /\ UNCHANGED <<saved, listenAddr, controlURL, controlMu, tunnel>>

OpenControlServer(c) ==
    /\ pc[c] = "open"
    /\ \/ arg[c] \notin open /\ Opened(arg[c]) /\ Goes(c, "listening")
       \/ NotOpened /\ Goes(c, "restore")
    /\ UNCHANGED <<saved, listenAddr, controlMu, tunnel>>

\* The new address could not be bound: back to the old one, if that can be.
RestoreOld(c) ==
    /\ pc[c] = "restore"
    /\ (listenAddr \notin open /\ Opened(listenAddr)) \/ NotOpened
    /\ controlMu' = None
    /\ Return(c)
    /\ UNCHANGED <<saved, listenAddr, tunnel>>

Listening(c) ==
    /\ pc[c] = "listening"
    /\ listenAddr' = arg[c]
    /\ Save([settings EXCEPT !.listen = arg[c]])
    /\ controlMu' = None
    /\ Return(c)
    /\ UNCHANGED <<control, controlURL, open, tunnel>>

-----------------------------------------------------------------------------
(* The life of the program *)

\* The process is gone, with its calls, its servers and its memory.  A cloudflared
\* that it has not stopped goes on, but belongs to nobody.
Gone ==
    /\ pc' = [c \in Callers |-> "idle"] /\ arg' = [c \in Callers |-> None]
    /\ old' = [c \in Callers |-> None]
    /\ life' = "down" /\ settings' = Default /\ UNCHANGED file
    /\ listenAddr' = FirstAddr /\ control' = None /\ controlURL' = None
    /\ open' = {} /\ controlMu' = None /\ opMu' = None
    /\ mode' = "stopped" /\ target' = None /\ raced' = FALSE
    /\ appMu' = "free"

\* NewAppService; a file that cannot be read ends main.
Launch ==
    /\ life = "down" /\ file # Torn
    /\ life' = "opening"
    /\ settings' = file /\ listenAddr' = file.listen
    /\ UNCHANGED <<call, file, control, controlURL, open, controlMu, tunnel, appMu>>

\* By hand: the user removes the file that keeps the program from starting.
RemoveFile ==
    /\ life = "down" /\ file = Torn
    /\ file' = Default
    /\ UNCHANGED <<call, program, settings, server, tunnel>>

\* startControlServer; without a server main ends.
StartControlServer ==
    /\ life = "opening"
    /\ \/ /\ Opened(listenAddr) /\ life' = "restoring"
          /\ UNCHANGED <<call, saved, listenAddr, controlMu, tunnel, appMu>>
       \/ Gone

\* restore starts the tunnel that was enabled, if no custom domain takes its place;
\* nobody else is there yet.  Its error is logged.
Restore ==
    /\ life = "restoring" /\ life' = "up"
    /\ \/ settings.enabled /\ ~settings.custom /\ mode' = "running" /\ target' = controlURL
       \/ UNCHANGED <<mode, target>>
    /\ UNCHANGED <<call, saved, server, opMu, raced, appMu>>

\* The tray's Quit makes app.Run return.  Calls under way go on, new ones do not come.
Quit ==
    /\ life = "up" /\ life' = "quit"
    /\ UNCHANGED <<call, saved, server, tunnel, appMu>>

\* Lines 287-296: the server is closed, and its name kept.
Shutdown ==
    /\ life = "quit" /\ controlMu = None
    /\ controlMu' = Main /\ life' = "stopping"
    /\ open' = open \ {control}
    /\ UNCHANGED <<call, saved, listenAddr, control, controlURL, tunnel, appMu>>

\* s.appServer.Stop(), which waits for the operation that holds operationMu.  What it
\* does then is AppServerManager's, and nothing here depends on it.
StopAppServer ==
    /\ life = "stopping" /\ appMu = "free"
    /\ life' = "codexStopped"
    /\ UNCHANGED <<call, saved, server, tunnel, appMu>>

\* s.tunnel.Stop(), and the return.
StopAtQuit ==
    /\ life = "codexStopped" /\ StopTunnelProcess
    /\ controlMu' = None /\ life' = "ended"
    /\ UNCHANGED <<call, saved, listenAddr, control, controlURL, open, appMu>>

\* A phone's Call, ResumeThread, ReleaseThread or TakeOverThread, or the window's own
\* use of codex, has operationMu.  It may have had it long before: nothing looks at it
\* in this module before StopAppServer does.
PhoneCalls ==
    /\ life \in {"quit", "stopping"} /\ appMu = "free"
    /\ appMu' = "held"
    /\ UNCHANGED <<call, life, saved, server, tunnel>>

\* Codex has answered, or ended, or the phone has left.
CallOver ==
    /\ appMu = "held"
    /\ appMu' = "free"
    /\ UNCHANGED <<call, life, saved, server, tunnel>>

Exit == life = "ended" /\ Gone

\* Whatever was under way; a write that it cuts off is one that failed just before.
Crash == life # "down" /\ Gone

-----------------------------------------------------------------------------
TunnelStep(c) ==
    \/ EnableTunnel(c) \/ ReadCustom(c) \/ ReadURL(c) \/ StartTunnelProcess(c) \/ TunnelStarted(c)
    \/ TunnelStopped(c) \/ StopSaved(c) \/ StopForURL(c) \/ SetURL(c)

ListenStep(c) ==
    \/ SameAddress(c) \/ LockControl(c) \/ StopFirst(c) \/ DisableTunnel(c) \/ CloseOld(c)
    \/ OpenControlServer(c) \/ RestoreOld(c) \/ Listening(c)

Continue(c) == (TunnelStep(c) \/ ListenStep(c)) /\ UNCHANGED program

Call(c) ==
    /\ StartTunnel(c) \/ StopTunnel(c) \/ SetTunnelURL(c) \/ SetListenAddr(c)
    /\ UNCHANGED program

LifeStep ==
    StartControlServer \/ Restore \/ Shutdown \/ StopAppServer \/ StopAtQuit \/ Exit

Next ==
    \/ \E c \in Callers : Continue(c) \/ Call(c)
    \/ TunnelEnds \/ PhoneCalls \/ CallOver
    \/ LifeStep \/ Launch \/ RemoveFile \/ Quit \/ Crash

Spec == Init /\ [][Next]_vars

\* A call goes on, and so does main; a mutex starves none of those that wait for it.
\* That codex answers a phone is not assumed.
FairSpec == Spec /\ SF_vars(LifeStep) /\ \A c \in Callers : SF_vars(Continue(c))

-----------------------------------------------------------------------------
(* Properties *)

Quiet == life = "up" /\ \A c \in Callers : pc[c] = "idle"

\* However many calls change the address, whichever step of one fails, and
\* whenever the program ends and comes back: it listens at one address at most,
\* that is the one of the server it remembers, and with no change under way it is
\* the address it says.  Shutdown closes that server and goes on remembering it.
OneServer ==
    /\ open \subseteq {control} \ {None}
    /\ controlMu = None => control \in {None, listenAddr}
    /\ life = "up" => open = {control} \ {None}

\* README.md:62, "Cloudflare Tunnel publishes the control API origin": a tunnel
\* leads to the server there is, whatever the calls do at the same time, unless one
\* of its starts read the server's address while a change of it was under way, or
\* had read it when the change began.  (There is no server when neither the new nor
\* the old address could be bound; controlURL still has the last one then.)
TunnelServesControl ==
    life = "up" /\ controlMu = None /\ mode = "running" /\ ~raced => control \in {target, None}

\* The same without that exception: it does not hold.
TunnelAlwaysServes == Quiet /\ mode = "running" => control \in {target, None}

\* The settings say what runs: once every call has returned, a quick tunnel runs
\* only while it is enabled, so that it comes back with the program, and while no
\* custom domain takes its place.  It holds one call at a time.
SettingsTellTunnel == Quiet /\ mode = "running" => settings.enabled /\ ~settings.custom

\* Shutdown leaves no cloudflared behind: it does, if a start still waited for the
\* tunnel's mutex when Shutdown stopped the tunnel.
NoTunnelOutlivesQuit == [][Exit => mode = "stopped"]_vars

\* A program that ended can be launched again: it cannot, once a write of the
\* settings was cut off and no later one has succeeded.
FileIsWhole == file # Torn

\* No operation of a phone keeps the codex manager's mutex for ever.
CodexAnswers == []<>(appMu = "free")

\* The calls of the tunnel return whatever codex does, also those under way as the
\* program quits.  As long as codex leaves no phone's call without an end, so do the
\* changes of the address, and a program that was told to quit ends: none waits for a
\* mutex for ever, although SetListenAddr and Shutdown wait for the tunnel's, and
\* Shutdown for the codex manager's, while they hold controlMu.
CallsEnd ==
    /\ \A c \in Callers : pc[c] \in TunnelPcs ~> pc[c] = "idle"
    /\ CodexAnswers =>
          /\ \A c \in Callers : pc[c] = "lock" ~> pc[c] = "idle"
          /\ life = "quit" ~> life = "down"

\* The same whatever codex does: a phone's unanswered call keeps the program from
\* quitting (appservice.go:297).
QuitsAnyway == life = "quit" ~> life = "down"

=============================================================================
