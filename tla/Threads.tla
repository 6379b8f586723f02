------------------------------- MODULE Threads -------------------------------
(***************************************************************************)
(* What the manager does with codex's threads: the history of one          *)
(* (internal/appserver/history.go), the list of those that are loaded,     *)
(* releasing one, resuming one, a turn, and taking a thread over from      *)
(* another program (manager.go, takeover_darwin.go).  Each operation holds *)
(* operationMu from beginning to end (module AppServerManager): there is   *)
(* one at a time, and its locals are variables here.  What moves meanwhile *)
(* is codex, whose turns go on and end, and the other programs of the      *)
(* computer, which end, and take and leave threads.                        *)
(*                                                                         *)
(* Codex is known from the calls only.  The turns of a thread are          *)
(* 1..turns[t].  A right cursor names the last turn, or the last thread,   *)
(* of the page it came with, and 0 is the empty one; `lied` records that   *)
(* an answer carried another one.                                          *)
(***************************************************************************)
EXTENDS Naturals, Sequences

CONSTANTS
    MaxThread, MaxTurn, MaxCursor, \* bounds: threads, turns of one, cursors there are
    Limit,         \* the `limit` of a page of turns, 100 in the code
    Paginated,     \* the threads whose historyMode is "paginated"
    Contested,     \* the threads that other programs work with as well
    Pid,           \* the processes, two of which are
    Own, Self,     \*   the manager's app-server, and this program
    Codex,         \* those whose executable is called codex
    Parent,        \* the process each was started by
    Bundle,        \* the .app each runs from, or NoBundle
    NoPid, NoBundle,
    Scenarios      \* of an instance's behaviours: the operations callers make, the
                   \*   threads they name, the other programs that run, and how many
                   \*   turns a thread may have

Thread == 1..MaxThread
Cursors == 0..MaxCursor

\* Cursors are strings, and codex can always answer one that it has never answered
\* before: these two stand for all of them, the one asked with and the next.
Fresh == {MaxCursor + 1, MaxCursor + 2}
Other == Pid \ {Own, Self}

ASSUME BoundsAssumption ==
    /\ MaxThread \in Nat \ {0} /\ MaxTurn \in Nat /\ Limit \in Nat \ {0}
    /\ MaxCursor \in Nat /\ MaxThread <= MaxCursor /\ MaxTurn <= MaxCursor
ASSUME ThreadsAssumption == Paginated \subseteq Thread /\ Contested \subseteq Thread
ASSUME PidAssumption ==
    /\ NoPid \notin Pid /\ {Own, Self} \subseteq Pid /\ Own # Self
    /\ Own \in Codex /\ Self \notin Codex /\ Codex \subseteq Pid
    /\ Parent \in [Pid -> Pid \cup {NoPid}] /\ DOMAIN Bundle = Pid

Kinds == {"read", "held", "release", "resume", "takeover", "turn"}

ASSUME ScenariosAssumption ==
    Scenarios \subseteq [calls : SUBSET Kinds, threads : SUBSET Thread,
                          programs : SUBSET Other, turns : 0..MaxTurn]

VARIABLES
    scenario,             \* the one of this behaviour
    kind, thread, pc,     \* the operation that holds operationMu, its thread and control
    cursor, next, page,   \* the cursor it asks with, the nextCursor of the answer, and
                          \*   what it has not looked at of the answer
    seen, got,            \* readThread's `seen` and `turns`
    owner, target, above, \* terminateThreadOwner's owner, target and target.parent
    up, loaded, active,   \* codex runs; the threads it has loaded; those at work on a turn
    turns,                \* how many turns each thread has
    abandoned,            \* turn/start calls whose caller left before the answer
    life,                 \* of the other programs: up, gone, or gone and the pid a stranger's
    lock,                 \* the process that has each thread's writer lock open
    lied, late, first, moved \* only for the properties: a wrong cursor was answered; the
                          \*   turns of abandoned calls; turns[thread] when the operation
                          \*   began; something has changed since the last look at the lock

opVars == <<kind, thread, pc>>
pageVars == <<cursor, next, page, seen, got, first, lied>>
takeVars == <<owner, target, above>>
codexVars == <<up, loaded, active, turns, abandoned, late>>
worldVars == <<life, lock, moved, scenario>>
vars == <<opVars, pageVars, takeVars, codexVars, worldVars>>

-----------------------------------------------------------------------------
Pcs == {"free", "turn", "inspect", "whole", "turns", "unsubscribe", "list", "look", "stop",
        "start", "resume", "let", "again", "owner", "ps", "walk", "recheck", "signal",
        "retry", "wait", "failed", "answered"}

TypeOK ==
    /\ scenario \in Scenarios
    /\ kind \in Kinds /\ thread \in Thread /\ pc \in Pcs
    /\ cursor \in Nat /\ next \in Nat /\ page \subseteq Thread
    /\ seen \subseteq Nat /\ got \in Seq(Nat) /\ first \in Nat
    /\ owner \in Pid \cup {NoPid} /\ target \in Pid \cup {NoPid} /\ above \in Pid \cup {NoPid}
    /\ loaded \subseteq Thread /\ active \subseteq loaded /\ late \subseteq active
    /\ turns \in [Thread -> Nat] /\ abandoned \subseteq Thread
    /\ life \in [Other -> {"up", "gone", "reused"}]
    /\ lock \in [Thread -> Pid \cup {NoPid}]
    /\ up \in BOOLEAN /\ lied \in BOOLEAN /\ moved \in BOOLEAN

Alive(p) == p = Self \/ (p = Own /\ up) \/ (p \in Other /\ life[p] = "up")

\* The parent ps shows: an orphan's is launchd.
ParentOf(p) == IF Parent[p] # NoPid /\ Alive(Parent[p]) THEN Parent[p] ELSE NoPid

Init ==
    /\ scenario \in Scenarios
    /\ kind = "read" /\ thread = 1 /\ pc = "free"
    /\ cursor = 0 /\ next = 0 /\ page = {} /\ seen = {} /\ got = <<>> /\ first = 0
    /\ owner = NoPid /\ target = NoPid /\ above = NoPid
    /\ up = TRUE /\ loaded = {} /\ active = {} /\ abandoned = {} /\ late = {}
    /\ turns \in [Thread -> 0..scenario.turns]
    /\ life = [p \in Other |-> IF p \in scenario.programs THEN "up" ELSE "gone"]
    /\ lock = [t \in Thread |-> NoPid]
    /\ lied = FALSE /\ moved = FALSE

At(p) == pc = p
GoTo(p) == pc' = p /\ UNCHANGED <<kind, thread>>

\* A call that codex answers, while the session lives.
Asks(p) == At(p) /\ up

\* The right nextCursor of a page that ends with e, when there is more after it
\* or not; a page with more after it is not empty.
Right(e, n, more) == IF more THEN n = e /\ e > cursor ELSE n = 0

-----------------------------------------------------------------------------
(* Plausible bugs: each stands in for the operator named in its comment when a *)
(* property's sensitivity is checked, and is used nowhere else.                *)

\* Expires with a select that only has the ticker.
ExpiresUnheard ==
    /\ At("retry")
    /\ GoTo("failed")
    /\ UNCHANGED <<pageVars, takeVars, codexVars, worldVars>>

\* Inspect that keeps the turns of its answer and appends the pages to them.
InspectKeepsTurns ==
    /\ Asks("inspect")
    /\ got' = [i \in 1..turns[thread] |-> i]
    /\ GoTo(IF thread \in Paginated THEN "turns" ELSE "whole")
    /\ UNCHANGED <<cursor, next, page, seen, first, lied, takeVars, codexVars, worldVars>>

\* NextPage that looks at the first page only.
NextPageNever ==
    /\ At("look") /\ page = {}
    /\ GoTo(IF kind = "release" THEN "stop" ELSE "answered")
    /\ UNCHANGED <<pageVars, takeVars, codexVars, worldVars>>

\* Recheck that only asks whether the thread has an owner.
RecheckAnyOwner ==
    /\ At("recheck")
    /\ IF lock[thread] # NoPid /\ target # Self
       THEN GoTo("signal") /\ moved' = FALSE
       ELSE GoTo("failed") /\ UNCHANGED moved
    /\ UNCHANGED <<pageVars, takeVars, codexVars, life, lock, scenario>>

-----------------------------------------------------------------------------
(* Entering and leaving an operation                                          *)

FirstPc == [read |-> "inspect", held |-> "list", release |-> "unsubscribe",
            resume |-> "resume", takeover |-> "resume", turn |-> "turn"]

\* With operationMu taken and a client there; without one the operation is over.
Begin(k, t) ==
    /\ At("free") /\ up
    /\ k \in scenario.calls /\ t \in scenario.threads
    /\ kind' = k /\ thread' = t /\ pc' = FirstPc[k]
    /\ first' = turns[t]
    /\ UNCHANGED <<cursor, next, page, seen, got, lied, takeVars, codexVars, worldVars>>

\* The answer goes to the phone or the window, and the locals out of scope.
Return ==
    /\ pc \in {"failed", "answered"}
    /\ GoTo("free")
    /\ cursor' = 0 /\ next' = 0 /\ page' = {} /\ seen' = {} /\ got' = <<>> /\ first' = 0
    /\ owner' = NoPid /\ target' = NoPid /\ above' = NoPid
    /\ lied' = FALSE
    /\ UNCHANGED <<codexVars, worldVars>>

\* Any call to codex, and any run of lsof or ps, may fail: an error answer, the
\* end of the session, the end of the caller's context, no such process.  The
\* operation returns the error, on a system other than macOS the take-over at
\* once.  A failed unsubscribe returns the conflict instead (line 272).
CallFails ==
    /\ \/ pc \in {"turn", "inspect", "whole", "turns", "unsubscribe", "list", "resume", "again",
                  "owner", "ps", "recheck", "retry"} /\ GoTo("failed")
       \/ At("look") /\ page # {} /\ GoTo("failed")
       \/ At("let") /\ GoTo(IF kind = "takeover" THEN "owner" ELSE "failed")
    /\ UNCHANGED <<pageVars, takeVars, codexVars, worldVars>>

-----------------------------------------------------------------------------
(* A turn/start, as any other Call.                                           *)

TurnStarted ==
    /\ Asks("turn") /\ thread \in loaded
    /\ active' = active \cup {thread} /\ late' = late \ {thread}
    /\ GoTo("answered")
    /\ UNCHANGED <<pageVars, takeVars, up, loaded, turns, abandoned, worldVars>>

\* The request is written, and the phone leaves before codex has answered.
TurnAbandoned ==
    /\ Asks("turn")
    /\ abandoned' = abandoned \cup {thread}
    /\ GoTo("failed")
    /\ UNCHANGED <<pageVars, takeVars, up, loaded, active, turns, late, worldVars>>

-----------------------------------------------------------------------------
(* readThread                                                                 *)

Inspect ==
    /\ Asks("inspect")
    /\ GoTo(IF thread \in Paginated THEN "turns" ELSE "whole")
    /\ UNCHANGED <<pageVars, takeVars, codexVars, worldVars>>

\* Line 38; a thread that is not materialized yet has no turns.
Whole ==
    /\ Asks("whole")
    /\ got' = [i \in 1..turns[thread] |-> i]
    /\ GoTo("answered")
    /\ UNCHANGED <<cursor, next, page, seen, first, lied, takeVars, codexVars, worldVars>>

\* Line 54.
Unmaterialized ==
    /\ Asks("turns") /\ turns[thread] = 0 /\ got = <<>>
    /\ GoTo("answered")
    /\ UNCHANGED <<pageVars, takeVars, codexVars, worldVars>>

\* Lines 49-67: the turns after the cursor, up to number e; after a cursor that names
\* none of them, an empty page.  The loop ends only with the empty cursor or one that
\* came before: codex can keep it up for ever with fresh ones.
TurnsPage ==
    /\ Asks("turns")
    /\ \E e \in {cursor} \cup {i \in cursor..turns[thread] : i <= cursor + Limit},
          n \in Cursors \cup (Fresh \ {cursor}) :
          /\ got' = got \o [i \in 1..(e - cursor) |-> cursor + i]
          /\ lied' = (lied \/ ~Right(e, n, e < turns[thread]))
          /\ IF n = 0 THEN GoTo("answered") /\ UNCHANGED <<cursor, seen>>
             ELSE IF n \in seen THEN GoTo("failed") /\ UNCHANGED <<cursor, seen>>
             ELSE /\ seen' = seen \cup ({n} \ Fresh)
                  /\ cursor' = n
                  /\ UNCHANGED opVars
    /\ UNCHANGED <<next, page, first, takeVars, codexVars, worldVars>>

-----------------------------------------------------------------------------
(* heldThreads and hasActiveThreads, the latter under ReleaseThread           *)

ListPage ==
    /\ Asks("list")
    /\ \E e \in Cursors, n \in Cursors :
          /\ e >= cursor
          /\ page' = {t \in loaded : cursor < t /\ t <= e}
          /\ next' = n
          /\ lied' = (lied \/ ~Right(e, n, \E t \in loaded : t > e))
    /\ GoTo("look")
    /\ UNCHANGED <<cursor, seen, got, first, takeVars, codexVars, worldVars>>

\* A thread/read; the first thread at work decides hasActiveThreads.
Look ==
    /\ Asks("look")
    /\ \E t \in page :
          IF kind = "release" /\ t \in active
          THEN GoTo("answered") /\ UNCHANGED page
          ELSE page' = page \ {t} /\ UNCHANGED opVars
    /\ UNCHANGED <<cursor, next, seen, got, first, lied, takeVars, codexVars, worldVars>>

\* Lines 324-327 and 371-374.
NextPage ==
    /\ At("look") /\ page = {}
    /\ IF next \in {0, cursor}
       THEN GoTo(IF kind = "release" THEN "stop" ELSE "answered") /\ UNCHANGED cursor
       ELSE GoTo("list") /\ cursor' = next
    /\ UNCHANGED <<next, page, seen, got, first, lied, takeVars, codexVars, worldVars>>

-----------------------------------------------------------------------------
(* ReleaseThread                                                              *)

\* Whether codex unloads the thread is its own business (Unload).
Unsubscribe ==
    /\ Asks("unsubscribe")
    /\ GoTo("list")
    /\ UNCHANGED <<pageVars, takeVars, codexVars, worldVars>>

\* The end of an app-server: nothing is loaded, no turn goes on, its locks are free.
CodexGone ==
    /\ up' = FALSE /\ loaded' = {} /\ active' = {} /\ late' = {} /\ abandoned' = {}
    /\ lock' = [t \in Thread |-> IF lock[t] = Own THEN NoPid ELSE lock[t]]
    /\ moved' = IF At("signal") THEN TRUE ELSE FALSE
    /\ UNCHANGED <<turns, life, scenario>>

\* stopLocked and startLocked of line 212, step by step in AppServerManager.
Stop ==
    /\ At("stop")
    /\ CodexGone
    /\ GoTo("start")
    /\ UNCHANGED <<pageVars, takeVars>>

StartAgain ==
    /\ At("start")
    /\ up' = TRUE
    /\ GoTo("answered")
    /\ UNCHANGED <<pageVars, takeVars, loaded, active, turns, abandoned, late, worldVars>>

\* Also because the phone that asked for the release has left: the handshake runs
\* under its context.
StartFails ==
    /\ At("start")
    /\ GoTo("failed")
    /\ UNCHANGED <<pageVars, takeVars, codexVars, worldVars>>

-----------------------------------------------------------------------------
(* ResumeThread and TakeOverThread                                            *)

\* Codex loads a thread whose lock is free, or which it has loaded already.
Resumes ==
    /\ pc \in {"resume", "again", "retry"} /\ up
    /\ lock[thread] = NoPid \/ thread \in loaded
    /\ loaded' = loaded \cup {thread}
    /\ lock' = [lock EXCEPT ![thread] = Own]
    /\ moved' = IF At("signal") THEN TRUE ELSE FALSE
    /\ GoTo("answered")
    /\ UNCHANGED <<pageVars, takeVars, up, active, turns, abandoned, late, life, scenario>>

\* "active writer": another process, or an app-server that has unloaded the thread
\* and still has its lock.  The first conflict is followed by an unsubscribe.
Conflict ==
    /\ pc \in {"resume", "again", "retry"} /\ up
    /\ lock[thread] # NoPid /\ thread \notin loaded
    /\ GoTo(CASE At("resume") -> "let"
              [] At("retry") -> "wait"
              [] OTHER -> IF kind = "takeover" THEN "owner" ELSE "failed")
    /\ UNCHANGED <<pageVars, takeVars, codexVars, worldVars>>

\* The unsubscribe of line 271.
LetGo ==
    /\ Asks("let")
    /\ GoTo("again")
    /\ UNCHANGED <<pageVars, takeVars, codexVars, worldVars>>

\* The ticker, and the ten seconds.
Tick ==
    /\ At("wait")
    /\ GoTo("retry")
    /\ UNCHANGED <<pageVars, takeVars, codexVars, worldVars>>

Expires ==
    /\ pc \in {"wait", "retry"}
    /\ GoTo("failed")
    /\ UNCHANGED <<pageVars, takeVars, codexVars, worldVars>>

-----------------------------------------------------------------------------
(* terminateThreadOwner                                                       *)

\* lsof of the lock file.
FindOwner ==
    /\ At("owner") /\ lock[thread] # NoPid
    /\ owner' = lock[thread]
    /\ GoTo("ps")
    /\ UNCHANGED <<pageVars, target, above, codexVars, worldVars>>

\* ps of the owner, which must be a codex.
InspectOwner ==
    /\ At("ps")
    /\ IF Alive(owner) /\ owner \in Codex
       THEN target' = owner /\ above' = ParentOf(owner) /\ GoTo("walk")
       ELSE GoTo("failed") /\ UNCHANGED <<target, above>>
    /\ UNCHANGED <<pageVars, owner, codexVars, worldVars>>

\* ps of the target's parent: as long as it runs from the same .app, it is the target.
Climb ==
    /\ At("walk") /\ above # NoPid /\ Alive(above)
    /\ Bundle[owner] # NoBundle /\ Bundle[above] = Bundle[owner]
    /\ target' = above /\ above' = ParentOf(above)
    /\ UNCHANGED <<opVars, pageVars, owner, codexVars, worldVars>>

\* There is no such parent, or ps fails.
Climbed ==
    /\ At("walk")
    /\ GoTo("recheck")
    /\ UNCHANGED <<pageVars, takeVars, codexVars, worldVars>>

\* lsof again, and never this program itself.
Recheck ==
    /\ At("recheck")
    /\ IF lock[thread] = owner /\ target # Self
       THEN GoTo("signal") /\ moved' = FALSE
       ELSE GoTo("failed") /\ UNCHANGED moved
    /\ UNCHANGED <<pageVars, takeVars, codexVars, life, lock, scenario>>

\* SIGTERM to whatever process has the pid by now.
Signal ==
    /\ At("signal")
    /\ GoTo(IF target \in Other /\ life[target] = "gone" THEN "failed" ELSE "retry")
    /\ UNCHANGED <<pageVars, takeVars, codexVars, worldVars>>

-----------------------------------------------------------------------------
(* Codex and the other programs                                               *)

TurnEnds(t) ==
    /\ t \in active
    /\ active' = active \ {t} /\ late' = late \ {t}
    /\ UNCHANGED <<opVars, pageVars, takeVars, up, loaded, turns, abandoned, worldVars>>

TurnRecorded(t) ==
    /\ t \in active /\ turns[t] < scenario.turns
    /\ turns' = [turns EXCEPT ![t] = @ + 1]
    /\ UNCHANGED <<opVars, pageVars, takeVars, up, loaded, active, abandoned, late, worldVars>>

\* Codex comes to a turn/start nobody waits for any more.
LateStart(t) ==
    /\ t \in abandoned
    /\ abandoned' = abandoned \ {t}
    /\ active' = active \cup ({t} \cap loaded)
    /\ late' = late \cup (({t} \cap loaded) \ active)
    /\ UNCHANGED <<opVars, pageVars, takeVars, up, loaded, turns, worldVars>>

\* An idle thread is unloaded, its lock left now or later.
Unload(t) ==
    /\ t \in loaded \ active
    /\ loaded' = loaded \ {t}
    /\ UNCHANGED <<opVars, pageVars, takeVars, up, active, turns, abandoned, late, worldVars>>

Unlock(t) ==
    /\ lock[t] = Own /\ t \notin loaded
    /\ lock' = [lock EXCEPT ![t] = NoPid]
    /\ moved' = IF At("signal") THEN TRUE ELSE FALSE
    /\ UNCHANGED <<opVars, pageVars, takeVars, codexVars, life, scenario>>

\* The app-server ends by itself, or on SIGTERM.
Crash ==
    /\ up
    /\ CodexGone
    /\ UNCHANGED <<opVars, pageVars, takeVars>>

\* The manager's Start, by the window.
Restart ==
    /\ At("free") /\ ~up
    /\ up' = TRUE
    /\ UNCHANGED <<opVars, pageVars, takeVars, loaded, active, turns, abandoned, late, worldVars>>

TakeLock(t, p) ==
    /\ t \in Contested /\ p \in Other \cap Codex /\ Alive(p) /\ lock[t] = NoPid
    /\ lock' = [lock EXCEPT ![t] = p]
    /\ moved' = IF At("signal") THEN TRUE ELSE FALSE
    /\ UNCHANGED <<opVars, pageVars, takeVars, codexVars, life, scenario>>

LeaveLock(t) ==
    /\ lock[t] \in Other
    /\ lock' = [lock EXCEPT ![t] = NoPid]
    /\ moved' = IF At("signal") THEN TRUE ELSE FALSE
    /\ UNCHANGED <<opVars, pageVars, takeVars, codexVars, life, scenario>>

ProgramEnds(p) ==
    /\ life[p] = "up"
    /\ life' = [life EXCEPT ![p] = "gone"]
    /\ lock' = [t \in Thread |-> IF lock[t] = p THEN NoPid ELSE lock[t]]
    /\ moved' = IF At("signal") THEN TRUE ELSE FALSE
    /\ UNCHANGED <<opVars, pageVars, takeVars, codexVars, scenario>>

PidReused(p) ==
    /\ p \in scenario.programs /\ life[p] = "gone"
    /\ life' = [life EXCEPT ![p] = "reused"]
    /\ UNCHANGED <<opVars, pageVars, takeVars, codexVars, lock, moved, scenario>>

-----------------------------------------------------------------------------
ReadStep == Inspect \/ Whole \/ Unmaterialized \/ TurnsPage
ListStep == ListPage \/ Look \/ NextPage
ReleaseStep == Unsubscribe \/ Stop \/ StartAgain \/ StartFails
ResumeStep == Resumes \/ Conflict \/ LetGo \/ Tick
TerminateStep == FindOwner \/ InspectOwner \/ Climb \/ Climbed \/ Recheck \/ Signal

OpStep ==
    \/ TurnStarted \/ TurnAbandoned \/ ReadStep \/ ListStep \/ ReleaseStep
    \/ ResumeStep \/ TerminateStep \/ CallFails \/ Return

CodexStep ==
    \/ \E t \in Thread : TurnEnds(t) \/ TurnRecorded(t) \/ LateStart(t) \/ Unload(t) \/ Unlock(t)
    \/ Crash \/ Restart

ProgramStep ==
    \/ \E t \in Thread : LeaveLock(t) \/ \E p \in Pid : TakeLock(t, p)
    \/ \E p \in Other : ProgramEnds(p) \/ PidReused(p)

Next ==
    \/ \E k \in Kinds, t \in Thread : Begin(k, t)
    \/ OpStep \/ Expires \/ CodexStep \/ ProgramStep

\* The operation has asked codex and waits: for room in its stdin, then for the
\* answer.  No such call has a deadline of its own, but for those of a take-over's
\* ten seconds, which do not bound the write.
AwaitsCodex ==
    \/ pc \in {"turn", "inspect", "whole", "turns", "unsubscribe", "list", "resume", "let",
              "again", "retry"}
    \/ At("look") /\ page # {}

\* The goroutine runs, lsof and ps end (they are killed after the ten seconds), the
\* handshake of a start has its own time limit, the call of a codex that has ended
\* ends, and the ten seconds are seen at the select of line 256.  Codex, its turns
\* and the other programs owe nobody anything.
Fairness ==
    /\ WF_vars(OpStep /\ (AwaitsCodex => ~up))
    /\ SF_vars(Expires /\ At("wait"))

Spec == Init /\ [][Next]_vars
FairSpec == Spec /\ Fairness

-----------------------------------------------------------------------------
(* Properties *)

\* A release restarts the app-server only when hasActiveThreads (manager.go:295) has
\* looked at every thread that may be at work, on whichever page it comes and
\* whatever ends, is unloaded or fails meanwhile: no turn is cut off whose start was
\* answered.  A turn whose caller left before the answer may start behind the back
\* of the check (`late`), and a wrong cursor may hide a thread.
NoTurnInterrupted == [][At("stop") /\ up /\ ~up' => lied \/ active \subseteq late]_vars

\* The same without the exception for turns whose caller left.
NoTurnCutOff == [][At("stop") /\ up /\ ~up' => lied \/ active = {}]_vars

\* The history readThread answers (history.go:45-77) is the thread's: every turn there
\* was when it began, in order, once, and none but the thread's, in however many
\* pages it came and however much the thread has grown meanwhile.
HistoryWhole ==
    At("answered") /\ kind = "read" /\ ~lied =>
        /\ Len(got) \in first..turns[thread]
        /\ \A i \in 1..Len(got) : got[i] = i

\* What gets SIGTERM (takeover_darwin.go:62) is the process that owns the thread or an
\* ancestor from the same .app, and never this program, although the owner was looked
\* up, inspected and climbed from while threads change hands: all unless the lock
\* moved after the second look, or the target has ended.
SignalHitsOwner ==
    At("signal") =>
        /\ target # Self
        /\ ~moved /\ Alive(target) =>
              \/ target = lock[thread]
              \/ Bundle[target] # NoBundle /\ Bundle[target] = Bundle[lock[thread]]

\* The owner is never the app-server of this program itself, which other phones use.
OwnCodexSpared == At("signal") => target # Own

\* A pid that the computer has given to another program is never signalled.
NoStrangerSignalled == At("signal") /\ target \in Other => life[target] # "reused"

\* Codex ends each call in its time, with an answer or an error, or the caller leaves.
CodexAnswers == WF_vars(OpStep /\ AwaitsCodex)

\* What keeps operationMu, and with it every other phone, the window and Shutdown.
\* Whatever codex leaves unanswered, its end ends the operation.  As long as codex
\* ends each call and its cursors are right, every operation ends: a take-over by its
\* ten seconds even if each resume meets a conflict, the history of a thread that
\* grows meanwhile (by no more than MaxTurn turns), the lists though threads load and
\* unload, a release with its restart.
ThreadOpsEnd ==
    /\ ~up ~> up \/ At("free")
    /\ CodexAnswers => (~At("free") ~> At("free") \/ lied)

\* The same whatever cursors codex answers: history.go:63 sees only one that came
\* before, manager.go:324 and 371 only one that does not change.
ThreadOpsEndAnyway == CodexAnswers => (~At("free") ~> At("free"))

=============================================================================
