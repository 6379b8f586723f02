--------------------------------- MODULE Daemon ---------------------------------
(***************************************************************************)
(* The command-line daemon (internal/daemon/daemon.go): Run starts the     *)
(* control server, writes the state file that tells the CLI where the      *)
(* server is and with which token, starts the codex process and the tunnel,*)
(* and waits; a signal, an admin request or a failed start leads to        *)
(* Shutdown.  Meanwhile admin requests restart either process.  All this   *)
(* runs in goroutines that meet at the mutexes of the two managers, at     *)
(* closeMu and in the shutdown of the HTTP server.                         *)
(*                                                                         *)
(* A manager (modules AppServerManager and Tunnel) is what the daemon      *)
(* relies on: the phase of its life cycle, and its operationMu, which a    *)
(* Start or Stop holds from its first step to its last.  What a goroutine  *)
(* has still to do is a sequence of steps; the process ends with Run, or   *)
(* is killed, and whoever started it may start the next one, which finds   *)
(* the state file that this one has left.  Phones' calls of codex hold the *)
(* app manager's operationMu too, from websockets that the shutdown of the *)
(* HTTP server neither closes nor waits for.                               *)
(***************************************************************************)
EXTENDS Naturals, Sequences

CONSTANTS
    Restarters,   \* the admin requests for a restart that are served at a time
    Stoppers      \* the goroutines that serve an admin request for a shutdown

Main == "main"
Nobody == "nobody"
Phone == "phone"
Managers == {"app", "tunnel"}

ASSUME GoroutinesAssumption ==
    /\ Restarters \cap Stoppers = {}
    /\ {Main, Nobody, Phone} \cap (Restarters \cup Stoppers) = {}

Goroutines == {Main} \cup Restarters \cup Stoppers

VARIABLES
    todo,      \* what each goroutine has still to do
    mode, mu,  \* each manager: its phase, the goroutine that holds operationMu
    server,    \* the control server
    file,      \* the state file: none, of this daemon or an earlier one, or cut off
    killed,    \* history: this daemon was killed
    ctxDone,   \* runCtx is done
    closeMu, closed, \* Shutdown: its mutex, closeOnce
    condemned,       \* managers with a process whose context is cancelled, but
                     \* which os/exec has still to kill
    mishaps          \* history: what went wrong, see Mishaps

daemonVars == <<todo, mode, mu, server, file, killed, ctxDone, closeMu, closed, condemned, mishaps>>

\* A restart outlasted the two seconds of Drain; a start succeeded that had begun
\* with its context done; the state file could not be removed; its writing failed
\* when it was already whole.
Mishaps == {"outlasted", "lucky", "refused", "spoilt"}

Step(do) == [do |-> do, on |-> "none"]
ManagerStep(do, k) == [do |-> do, on |-> k]

RunSteps == <<Step("listen"), Step("publish"), Step("write"), ManagerStep("start", "app"),
              ManagerStep("start", "tunnel"), Step("await")>>

ShutdownSteps == <<Step("lock"), Step("close"), Step("drain"), Step("remove"),
                   ManagerStep("stop", "tunnel"), ManagerStep("stop", "app"), Step("leave")>>

RestartSteps(k) == <<ManagerStep("stop", k), ManagerStep("start", k)>>

DaemonTypeOK ==
    /\ todo \in [Goroutines -> Seq([do : {"listen", "publish", "write", "giveup", "await", "lock",
                  "close", "drain", "remove", "leave", "start", "starting", "belated", "stop",
                  "stopping"},
                  on : Managers \cup {"none"}])]
    /\ mode \in [Managers -> {"stopped", "starting", "running", "stopping"}]
    /\ mu \in [Managers -> Goroutines \cup {Nobody, Phone}] /\ mu["tunnel"] # Phone
    /\ server \in {"none", "open", "closed"}
    /\ file \in {"none", "own", "old", "cut"} /\ killed \in BOOLEAN /\ ctxDone \in BOOLEAN /\ closed \in BOOLEAN
    /\ condemned \subseteq Managers /\ mishaps \subseteq Mishaps
    /\ closeMu \in Goroutines \cup {Nobody}
    \* An operation in progress, and no other, holds the manager's mutex.
    /\ \A k \in Managers, g \in Goroutines :
          mu[k] = g <=> /\ todo[g] # <<>> /\ Head(todo[g]).on = k
                        /\ Head(todo[g]).do \in {"starting", "belated", "stopping"}

Fresh == [g \in Goroutines |-> IF g = Main THEN RunSteps ELSE <<>>]

DaemonInit ==
    /\ todo = Fresh
    /\ mode = [k \in Managers |-> "stopped"] /\ mu = [k \in Managers |-> Nobody]
    /\ server = "none" /\ file = "none" /\ killed = FALSE /\ ctxDone = FALSE
    /\ closeMu = Nobody /\ closed = FALSE /\ condemned = {} /\ mishaps = {}

\* Run has returned, and the process with all its goroutines has ended.
Exited == todo[Main] = <<>>

Doing(g, do) == ~Exited /\ todo[g] # <<>> /\ Head(todo[g]).do = do
On(g) == Head(todo[g]).on
Becomes(g, steps) == todo' = [todo EXCEPT ![g] = steps]
Done(g) == Becomes(g, Tail(todo[g]))
Now(g, do) == Becomes(g, [todo[g] EXCEPT ![1] = ManagerStep(do, On(g))])

\* An error: Start has its Shutdown run, a request is answered.
Fail(g) == Becomes(g, IF g = Main THEN ShutdownSteps ELSE <<>>)

-----------------------------------------------------------------------------
(* Plausible bugs: each stands in for the operator named in its comment when a *)
(* property's sensitivity is checked, and is used nowhere else.                *)

\* Drain that waits for no request: http.Server.Close instead of Shutdown.
DrainAtOnce(g) ==
    /\ Doing(g, "drain")
    /\ Done(g)
    /\ UNCHANGED <<mode, mu, server, file, killed, ctxDone, closeMu, closed, condemned, mishaps>>

\* LeaveShutdown that keeps closeMu.
LeaveShutdownLocked(g) ==
    /\ Doing(g, "leave")
    /\ closed' = TRUE
    /\ Done(g)
    /\ UNCHANGED <<mode, mu, server, file, killed, ctxDone, closeMu, condemned, mishaps>>

\* SaveState that takes a file which is there for its own.
PublishOnce ==
    /\ Doing(Main, "publish") \/ Doing(Main, "write")
    /\ file' = IF file # "none" THEN file ELSE "own"
    /\ Done(Main)
    /\ UNCHANGED <<mode, mu, server, killed, ctxDone, closeMu, closed, condemned, mishaps>>

-----------------------------------------------------------------------------
(* Start and Stop of a manager, as the daemon calls them                      *)

\* A start does nothing when the process is running, or when it is of a tunnel
\* that the configuration does not ask for.  One that begins with its context done
\* already is told apart: it succeeds only if the select that waits for codex, or
\* for the tunnel's address, finds the answer there and takes it.
StartBegins(g) ==
    /\ Doing(g, "start")
    /\ \/ /\ mu[On(g)] = Nobody /\ mode[On(g)] # "running"
          /\ mode' = [mode EXCEPT ![On(g)] = "starting"]
          /\ mu' = [mu EXCEPT ![On(g)] = g]
          /\ Now(g, IF g = Main /\ ctxDone THEN "belated" ELSE "starting")
       \/ /\ On(g) = "tunnel" \/ (mu[On(g)] = Nobody /\ mode[On(g)] = "running")
          /\ Done(g) /\ UNCHANGED <<mode, mu>>
    /\ UNCHANGED <<server, file, killed, ctxDone, closeMu, closed, condemned, mishaps>>

StartSucceeds(g) ==
    /\ Doing(g, "starting") \/ Doing(g, "belated")
    /\ mode' = [mode EXCEPT ![On(g)] = "running"]
    /\ mu' = [mu EXCEPT ![On(g)] = Nobody]
    /\ mishaps' = mishaps \cup (IF Doing(g, "belated") THEN {"lucky"} ELSE {})
    /\ Done(g)
    /\ UNCHANGED <<server, file, killed, ctxDone, closeMu, closed, condemned>>

\* The process, if there is one, has its context cancelled.
StartFails(g) ==
    /\ Doing(g, "starting") \/ Doing(g, "belated")
    /\ mode' = [mode EXCEPT ![On(g)] = "stopped"]
    /\ mu' = [mu EXCEPT ![On(g)] = Nobody]
    /\ condemned' \in {condemned, condemned \cup {On(g)}}
    /\ Fail(g)
    /\ UNCHANGED <<server, file, killed, ctxDone, closeMu, closed, mishaps>>

StopBegins(g) ==
    /\ Doing(g, "stop") /\ mu[On(g)] = Nobody
    /\ mode' = [mode EXCEPT ![On(g)] = IF @ = "running" THEN "stopping" ELSE @]
    /\ mu' = [mu EXCEPT ![On(g)] = g]
    /\ Now(g, "stopping")
    /\ UNCHANGED <<server, file, killed, ctxDone, closeMu, closed, condemned, mishaps>>

\* Stop may return an error (a process that is gone already): a restart is given
\* up, Shutdown goes on.  It kills cloudflared itself, but of codex it cancels the
\* context and closes the pipes.
StopEnds(g) ==
    /\ Doing(g, "stopping")
    /\ mode' = [mode EXCEPT ![On(g)] = "stopped"]
    /\ mu' = [mu EXCEPT ![On(g)] = Nobody]
    /\ condemned' = condemned \cup {k \in {"app"} : On(g) = k /\ mode[k] = "stopping"}
    /\ Done(g) \/ (g \in Restarters /\ Fail(g))
    /\ UNCHANGED <<server, file, killed, ctxDone, closeMu, closed, mishaps>>

ManagerActs(g) ==
    StartBegins(g) \/ StartSucceeds(g) \/ StartFails(g) \/ StopBegins(g) \/ StopEnds(g)

\* The process in use dies; its watch goroutine notices.
Crash(k) ==
    /\ ~Exited /\ mode[k] = "running"
    /\ mode' = [mode EXCEPT ![k] = "stopped"]
    /\ UNCHANGED <<todo, mu, server, file, killed, ctxDone, closeMu, closed, condemned, mishaps>>

\* os/exec waits for the context in a goroutine of its own, which ends with the
\* daemon.
ExecKills(k) ==
    /\ ~Exited /\ k \in condemned
    /\ condemned' = condemned \ {k}
    /\ UNCHANGED <<todo, mode, mu, server, file, killed, ctxDone, closeMu, closed, mishaps>>

\* Call, ResumeThread, TakeOverThread, HeldThreads and ReleaseThread hold the mutex
\* until codex has answered, or the phone has left; the last may restart codex.
\* Without a process they return at once.
PhoneCalls ==
    /\ ~Exited /\ mu["app"] = Nobody /\ mode["app"] = "running"
    /\ mu' = [mu EXCEPT !["app"] = Phone]
    /\ UNCHANGED <<todo, mode, server, file, killed, ctxDone, closeMu, closed, condemned, mishaps>>

PhoneReturns ==
    /\ ~Exited /\ mu["app"] = Phone
    /\ mu' = [mu EXCEPT !["app"] = Nobody]
    /\ \/ UNCHANGED <<mode, condemned>>
       \/ /\ condemned' = condemned \cup {"app"}
          /\ mode' \in {mode, [mode EXCEPT !["app"] = "stopped"]}
    /\ UNCHANGED <<todo, server, file, killed, ctxDone, closeMu, closed, mishaps>>

-----------------------------------------------------------------------------
(* Run and Start *)

\* No codex, or an address that cannot be bound: Run returns the error.
Listen ==
    /\ Doing(Main, "listen")
    /\ \/ server' = "open" /\ Done(Main)
       \/ UNCHANGED server /\ Becomes(Main, <<>>)
    /\ UNCHANGED <<mode, mu, file, killed, ctxDone, closeMu, closed, condemned, mishaps>>

\* saveState opens the file, which empties it, and writes it.  Either may fail; the
\* file is then left as it is, or is whole and only its closing reports an error.
SaveState ==
    /\ Doing(Main, "publish") \/ Doing(Main, "write")
    /\ \/ /\ file' = IF Doing(Main, "publish") THEN "cut" ELSE "own"
          /\ Done(Main) /\ UNCHANGED mishaps
       \/ UNCHANGED <<file, mishaps>> /\ Becomes(Main, <<Step("giveup")>>)
       \/ /\ Doing(Main, "write") /\ file' = "own"
          /\ mishaps' = mishaps \cup {"spoilt"}
          /\ Becomes(Main, <<Step("giveup")>>)
    /\ UNCHANGED <<mode, mu, server, killed, ctxDone, closeMu, closed, condemned>>

\* The server is closed again, without a time limit: the requests it serves end.
CloseAgain ==
    /\ Doing(Main, "giveup") /\ server = "open"
    /\ server' = "closed"
    /\ UNCHANGED <<todo, mode, mu, file, killed, ctxDone, closeMu, closed, condemned, mishaps>>

RunFails ==
    /\ Doing(Main, "giveup") /\ server = "closed"
    /\ \A h \in Restarters : todo[h] = <<>>
    /\ Done(Main)
    /\ UNCHANGED <<mode, mu, server, file, killed, ctxDone, closeMu, closed, condemned, mishaps>>

Await ==
    /\ Doing(Main, "await") /\ ctxDone
    /\ Becomes(Main, ShutdownSteps)
    /\ UNCHANGED <<mode, mu, server, file, killed, ctxDone, closeMu, closed, condemned, mishaps>>

\* An interrupt, or SIGTERM.
Signal ==
    /\ ~Exited
    /\ ctxDone' = TRUE
    /\ UNCHANGED <<todo, mode, mu, server, file, killed, closeMu, closed, condemned, mishaps>>

-----------------------------------------------------------------------------
(* Shutdown *)

EnterShutdown(g) ==
    /\ Doing(g, "lock") /\ closeMu = Nobody
    /\ closeMu' = g
    /\ ctxDone' = TRUE
    /\ Becomes(g, IF closed THEN <<Step("leave")>> ELSE Tail(todo[g]))
    /\ UNCHANGED <<mode, mu, server, file, killed, closed, condemned, mishaps>>

CloseServer(g) ==
    /\ Doing(g, "close")
    /\ server' = "closed"
    /\ Done(g)
    /\ UNCHANGED <<mode, mu, file, killed, ctxDone, closeMu, closed, condemned, mishaps>>

\* http.Server.Shutdown returns when no request is being served, or after its
\* two seconds.
Drain(g) ==
    /\ Doing(g, "drain")
    /\ mishaps' = mishaps \cup {m \in {"outlasted"} : \E h \in Restarters : todo[h] # <<>>}
    /\ Done(g)
    /\ UNCHANGED <<mode, mu, server, file, killed, ctxDone, closeMu, closed, condemned>>

\* An error is reported with the others, at the end.
RemoveFile(g) ==
    /\ Doing(g, "remove")
    /\ \/ file' = "none" /\ UNCHANGED mishaps
       \/ UNCHANGED file /\ mishaps' = mishaps \cup {"refused"}
    /\ Done(g)
    /\ UNCHANGED <<mode, mu, server, killed, ctxDone, closeMu, closed, condemned>>

LeaveShutdown(g) ==
    /\ Doing(g, "leave")
    /\ closed' = TRUE /\ closeMu' = Nobody
    /\ Done(g)
    /\ UNCHANGED <<mode, mu, server, file, killed, ctxDone, condemned, mishaps>>

ShutdownActs(g) ==
    EnterShutdown(g) \/ CloseServer(g) \/ Drain(g) \/ RemoveFile(g) \/ LeaveShutdown(g)

-----------------------------------------------------------------------------
(* The process *)

\* New: a daemon with a new token.  What the file holds is of an earlier one.
Launch ==
    /\ Exited
    /\ todo' = Fresh
    /\ mode' = [k \in Managers |-> "stopped"] /\ mu' = [k \in Managers |-> Nobody]
    /\ server' = "none" /\ killed' = FALSE /\ ctxDone' = FALSE
    /\ closeMu' = Nobody /\ closed' = FALSE /\ condemned' = {} /\ mishaps' = {}
    /\ file' = IF file = "own" THEN "old" ELSE file

\* A SIGKILL, a panic, the end of the computer's power; the file stays.
KillDaemon ==
    /\ ~Exited
    /\ todo' = [g \in Goroutines |-> <<>>] /\ mu' = [k \in Managers |-> Nobody]
    /\ closeMu' = Nobody
    /\ killed' = TRUE /\ server' = "none"
    /\ UNCHANGED <<mode, file, ctxDone, closed, condemned, mishaps>>

-----------------------------------------------------------------------------
(* Admin requests *)

\* What the CLI finds in the state file: an address and a token, if it is whole.
LoadState == file \in {"own", "old"}

\* It then asks there, with that token.  While the server takes requests the file
\* does not change any more, so that reading it and asking are one step; what a
\* daemon that was killed has left leads nowhere, or to a server that refuses it.
Admitted == LoadState /\ ~Exited /\ server = "open" /\ file # "old"

Restart(h, k) ==
    /\ Admitted /\ todo[h] = <<>>
    /\ Becomes(h, RestartSteps(k))
    /\ UNCHANGED <<mode, mu, server, file, killed, ctxDone, closeMu, closed, condemned, mishaps>>

\* The request is answered at once; the shutdown runs in a goroutine.
RequestShutdown(g) ==
    /\ Admitted /\ todo[g] = <<>>
    /\ Becomes(g, ShutdownSteps)
    /\ UNCHANGED <<mode, mu, server, file, killed, ctxDone, closeMu, closed, condemned, mishaps>>

-----------------------------------------------------------------------------
Goes(g) == ManagerActs(g) \/ ShutdownActs(g)
MainGoes == Goes(Main) \/ Listen \/ SaveState \/ CloseAgain \/ Await

DaemonNext ==
    \/ Listen \/ SaveState \/ CloseAgain \/ RunFails \/ Await \/ Signal \/ Launch \/ KillDaemon
    \/ PhoneCalls \/ PhoneReturns
    \/ \E k \in Managers : Crash(k) \/ ExecKills(k)
    \/ \E g \in Goroutines : Goes(g)
    \/ \E h \in Restarters, k \in Managers : Restart(h, k)
    \/ \E g \in Stoppers : RequestShutdown(g)

\* Goroutines that can move do, and mutexes starve nobody.  Of a phone's call, and
\* of the requests that RunFails waits for, no end is assumed.
DaemonFairness ==
    /\ SF_daemonVars(MainGoes)
    /\ \A g \in Restarters \cup Stoppers : SF_daemonVars(Goes(g))

DaemonSpec == DaemonInit /\ [][DaemonNext]_daemonVars
DaemonFairSpec == DaemonSpec /\ DaemonFairness

-----------------------------------------------------------------------------
(* Properties *)

\* README.md:17 and 65, the program "owns" its codex process and its tunnel: when
\* the daemon ends, unless it is killed, both processes are gone.
OwnsItsProcesses ==
    Exited /\ ~killed => condemned = {} /\ \A k \in Managers : mode[k] = "stopped"

\* What the daemon sees to is that no process is left which was not told to go,
\* whatever start, restart, phone's call or other shutdown was under way: every
\* manager is stopped.  Three things excepted: a restart that outlasted the two
\* seconds for the requests (daemon.go:301), a start of Run's that began after its
\* context was done and succeeded (client.go:144-155), and a restart asked for with
\* a state file whose writing failed (daemon.go:253-255), for then Run stops nothing.
NothingOutlivesDaemon ==
    Exited /\ ~killed /\ mishaps \cap {"outlasted", "lucky", "spoilt"} = {} =>
        \A k \in Managers : mode[k] = "stopped"

\* The state file never leads the CLI to a daemon that has ended, unless it was
\* killed, nor to one that has closed down, unless the system would not remove the
\* file, or reported an error when it was whole; and whatever an earlier daemon has
\* left there, it leads to this one for as long as the server takes requests.
StateFileIsTrue ==
    /\ Exited /\ ~killed /\ mishaps \cap {"refused", "spoilt"} = {} => file # "own"
    /\ closed /\ ~killed /\ "refused" \notin mishaps => file = "none"
    /\ server = "open" /\ file # "own" =>
          Doing(Main, "publish") \/ Doing(Main, "write") \/ Doing(Main, "giveup")

\* No phone's call holds the app manager's mutex for ever, and the requests end that
\* a server waits for which is closed because its state file could not be written.
PhonesAnswered == []<>(mu["app"] # Phone)
RequestsEnd == WF_daemonVars(RunFails)

\* A daemon told to stop stops, if codex answers the phones or they leave: no
\* shutdown waits for a request, a start or another shutdown that waits for it.
ShutdownEnds == PhonesAnswered /\ RequestsEnd => (ctxDone ~> Exited)

=============================================================================
