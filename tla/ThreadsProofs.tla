---------------------------- MODULE ThreadsProofs ----------------------------
(***************************************************************************)
(* For any number of threads, turns, cursors and programs: a release never *)
(* cuts off a turn whose start was answered, the history that is answered  *)
(* is the thread's, and the process that a take-over signals is the one    *)
(* that owns the thread or its application.  The invariant says how far    *)
(* each loop has come: what it has seen so far, and what it has still to   *)
(* see, lies on either side of its cursor.                                 *)
(***************************************************************************)
EXTENDS Threads, TLAPS

\* Which operation is at each place, and that an operation begins with clean locals.
PlaceInv ==
    /\ pc \in {"inspect", "whole", "turns"} => kind = "read"
    /\ pc \in {"unsubscribe", "stop", "start"} => kind = "release"
    /\ pc \in {"list", "look"} => kind \in {"held", "release"}
    /\ pc \in {"free", "inspect", "whole", "unsubscribe"} => cursor = 0 /\ got = <<>>
    /\ pc \in {"resume", "let", "again", "retry", "wait"} => kind \in {"resume", "takeover"}
    /\ pc \in {"owner", "ps", "walk", "recheck", "signal"} => kind = "takeover"
    /\ pc = "turn" => kind = "turn"

\* The pages read so far are the turns up to the cursor.
ReadInv ==
    /\ kind = "read" /\ pc # "free" => first <= turns[thread]
    /\ pc = "turns" /\ ~lied =>
          Len(got) = cursor /\ cursor <= turns[thread] /\ \A i \in 1..Len(got) : got[i] = i

\* The turns that could still be interrupted are on the pages to come.
ListInv ==
    ~lied /\ kind = "release" =>
        /\ pc = "list" => \A t \in active \ late : t > cursor
        /\ pc = "look" =>
              \A t \in active \ late : t \in page \/ (next \notin {0, cursor} /\ t > next)
        /\ pc = "stop" => active \subseteq late

\* The target is the owner or runs from its application; at the end the thread was
\* the owner's, unless something has moved since.
OfOwner == target = owner \/ (Bundle[target] # NoBundle /\ Bundle[target] = Bundle[owner])

TakeInv ==
    /\ pc \in {"walk", "recheck", "signal"} => OfOwner
    /\ pc = "signal" => target # Self /\ (~moved => lock[thread] = owner)

IInv == TypeOK /\ PlaceInv /\ ReadInv /\ HistoryWhole /\ ListInv /\ TakeInv

-----------------------------------------------------------------------------
LEMMA InitInv == Init => IInv
<1> SUFFICES ASSUME Init PROVE IInv
    OBVIOUS
<1>1. scenario \in [calls : SUBSET Kinds, threads : SUBSET Thread, programs : SUBSET Other, turns : 0..MaxTurn]
    BY ScenariosAssumption DEF Init
<1>2. scenario.turns \in 0..MaxTurn /\ MaxTurn \in Nat
    BY <1>1, BoundsAssumption
<1>3. turns \in [Thread -> Nat]
    BY <1>2 DEF Init
<1>4. 1 \in Thread
    BY BoundsAssumption DEF Thread
<1>5. life \in [Other -> {"up", "gone", "reused"}] /\ lock \in [Thread -> Pid \cup {NoPid}]
    BY DEF Init
<1>6. <<>> \in Seq(Nat)
    OBVIOUS
<1>7. TypeOK
    BY <1>3, <1>4, <1>5, <1>6 DEF Init, TypeOK, Kinds, Pcs
<1>8. PlaceInv /\ ReadInv /\ HistoryWhole /\ ListInv /\ TakeInv
    BY DEF Init, PlaceInv, ReadInv, HistoryWhole, ListInv, TakeInv, At
<1> QED
    BY <1>7, <1>8 DEF IInv

-----------------------------------------------------------------------------
(* The environment                                                            *)

LEMMA CodexKeeps == ASSUME IInv, CodexStep PROVE IInv'
<1> USE DEF IInv, TypeOK, PlaceInv, ReadInv, HistoryWhole, ListInv, TakeInv, OfOwner, At,
            opVars, pageVars, takeVars, codexVars, worldVars
<1>1. ASSUME NEW t \in Thread, TurnEnds(t) PROVE IInv'
    BY <1>1 DEF TurnEnds
<1>2. ASSUME NEW t \in Thread, TurnRecorded(t) PROVE IInv'
    BY <1>2 DEF TurnRecorded
<1>3. ASSUME NEW t \in Thread, LateStart(t) PROVE IInv'
    BY <1>3 DEF LateStart
<1>4. ASSUME NEW t \in Thread, Unload(t) PROVE IInv'
    BY <1>4 DEF Unload
<1>5. ASSUME NEW t \in Thread, Unlock(t) PROVE IInv'
    BY <1>5 DEF Unlock
<1>6. CASE Crash
    <2>1. TypeOK'
        BY <1>6 DEF Crash, CodexGone
    <2>2. PlaceInv' /\ ReadInv' /\ HistoryWhole'
        BY <1>6 DEF Crash, CodexGone
    <2>3. ListInv'
        BY <1>6 DEF Crash, CodexGone
    <2>4. TakeInv'
        BY <1>6 DEF Crash, CodexGone
    <2> QED
        BY <2>1, <2>2, <2>3, <2>4
<1>7. CASE Restart
    BY <1>7 DEF Restart
<1> QED
    BY <1>1, <1>2, <1>3, <1>4, <1>5, <1>6, <1>7 DEF CodexStep

LEMMA ProgramKeeps == ASSUME IInv, ProgramStep PROVE IInv'
<1> USE DEF IInv, TypeOK, PlaceInv, ReadInv, HistoryWhole, ListInv, TakeInv, OfOwner, At,
            opVars, pageVars, takeVars, codexVars, worldVars
<1>1. ASSUME NEW t \in Thread, LeaveLock(t) PROVE IInv'
    BY <1>1 DEF LeaveLock
<1>2. ASSUME NEW t \in Thread, NEW p \in Pid, TakeLock(t, p) PROVE IInv'
    BY <1>2 DEF TakeLock
<1>3. ASSUME NEW p \in Other, ProgramEnds(p) PROVE IInv'
    BY <1>3 DEF ProgramEnds
<1>4. ASSUME NEW p \in Other, PidReused(p) PROVE IInv'
    BY <1>4 DEF PidReused
<1> QED
    BY <1>1, <1>2, <1>3, <1>4 DEF ProgramStep

-----------------------------------------------------------------------------
(* The operations                                                             *)

LEMMA PlainKeeps ==
    ASSUME IInv, TurnStarted \/ TurnAbandoned \/ ReleaseStep \/ ResumeStep \/ Expires
    PROVE  IInv'
<1> USE DEF IInv, TypeOK, PlaceInv, ReadInv, HistoryWhole, ListInv, TakeInv, OfOwner, At, Asks,
            GoTo, Pcs, opVars, pageVars, takeVars, codexVars, worldVars
<1>1. CASE TurnStarted
    BY <1>1 DEF TurnStarted
<1>2. CASE TurnAbandoned
    BY <1>2 DEF TurnAbandoned
<1>3. CASE Unsubscribe
    BY <1>3 DEF Unsubscribe, Thread
<1>4. CASE Stop
    BY <1>4 DEF Stop, CodexGone
<1>5. CASE StartAgain
    BY <1>5 DEF StartAgain
<1>6. CASE StartFails
    BY <1>6 DEF StartFails
<1>7. CASE Resumes
    BY <1>7, PidAssumption DEF Resumes
<1>8. CASE Conflict
    BY <1>8 DEF Conflict
<1>9. CASE LetGo
    BY <1>9 DEF LetGo
<1>10. CASE Tick
    BY <1>10 DEF Tick
<1>11. CASE Expires
    BY <1>11 DEF Expires
<1> QED
    BY <1>1, <1>2, <1>3, <1>4, <1>5, <1>6, <1>7, <1>8, <1>9, <1>10, <1>11 DEF ReleaseStep, ResumeStep

LEMMA FailsKeeps == ASSUME IInv, CallFails PROVE IInv'
<1> USE DEF IInv, TypeOK, PlaceInv, ReadInv, HistoryWhole, ListInv, TakeInv, OfOwner, At,
            GoTo, Pcs, opVars, pageVars, takeVars, codexVars, worldVars
<1>1. pc' = "failed" \/ (At("let") /\ kind = "takeover" /\ pc' = "owner")
    BY DEF CallFails
<1> QED
    BY <1>1 DEF CallFails

LEMMA BeginKeeps == ASSUME IInv, NEW k \in Kinds, NEW t \in Thread, Begin(k, t) PROVE IInv'
<1> USE DEF IInv, TypeOK, PlaceInv, ReadInv, HistoryWhole, ListInv, TakeInv, OfOwner, At,
            GoTo, Pcs, Kinds, opVars, pageVars, takeVars, codexVars, worldVars
<1>1. /\ k = "read" => pc' = "inspect"
      /\ k = "held" => pc' = "list"
      /\ k = "release" => pc' = "unsubscribe"
      /\ k \in {"resume", "takeover"} => pc' = "resume"
      /\ k = "turn" => pc' = "turn"
    BY DEF Begin, FirstPc
<1>2. pc' \in Pcs /\ turns[t] \in Nat
    BY <1>1
<1> QED
    BY <1>1, <1>2 DEF Begin

LEMMA ReturnKeeps == ASSUME IInv, Return PROVE IInv'
<1>1. <<>> \in Seq(Nat)
    OBVIOUS
<1> QED
    BY <1>1 DEF Return, IInv, TypeOK, PlaceInv, ReadInv, HistoryWhole, ListInv, TakeInv, OfOwner, At,
        GoTo, Pcs, takeVars, codexVars, worldVars

LEMMA TerminateKeeps == ASSUME IInv, TerminateStep PROVE IInv'
<1> USE DEF IInv, TypeOK, PlaceInv, ReadInv, HistoryWhole, ListInv, TakeInv, OfOwner, At,
            GoTo, Pcs, opVars, pageVars, takeVars, codexVars, worldVars
<1>1. CASE FindOwner
    BY <1>1 DEF FindOwner
<1>2. \A p \in Pid : ParentOf(p) \in Pid \cup {NoPid}
    BY PidAssumption DEF ParentOf
<1>3. CASE InspectOwner
    BY <1>2, <1>3, PidAssumption DEF InspectOwner
<1>4. CASE Climb
    BY <1>2, <1>4 DEF Climb
<1>5. CASE Climbed
    BY <1>5 DEF Climbed
<1>6. CASE Recheck
    BY <1>6 DEF Recheck
<1>7. CASE Signal
    BY <1>7 DEF Signal
<1> QED
    BY <1>1, <1>3, <1>4, <1>5, <1>6, <1>7 DEF TerminateStep

-----------------------------------------------------------------------------
(* The two loops                                                              *)

LEMMA ListKeeps == ASSUME IInv, ListStep PROVE IInv'
<1> USE DEF IInv, TypeOK, PlaceInv, ReadInv, HistoryWhole, TakeInv, OfOwner, At, Asks,
            GoTo, Pcs, opVars, pageVars, takeVars, codexVars, worldVars
<1>1. CASE ListPage
    <2>1. PICK e \in Cursors, n \in Cursors :
              /\ e >= cursor
              /\ page' = {t \in loaded : cursor < t /\ t <= e}
              /\ next' = n
              /\ lied' = (lied \/ ~Right(e, n, \E t \in loaded : t > e))
        BY <1>1 DEF ListPage
    <2>2. e \in Nat /\ n \in Nat /\ loaded \subseteq Nat
        BY BoundsAssumption DEF Cursors, Thread
    <2>3. lied' \in BOOLEAN
        BY <2>1
    <2>4. ~lied' => ~lied /\ Right(e, n, \E t \in loaded : t > e)
        BY <2>1
    <2>5. ASSUME ~lied', kind = "release", NEW t \in active \ late, t \notin page'
          PROVE  next' \notin {0, cursor} /\ t > next'
        <3>1. t \in loaded /\ t > cursor /\ t \in Nat /\ cursor \in Nat
            BY <1>1, <2>2, <2>4, <2>5 DEF ListPage, ListInv
        <3>2. t > e
            BY <2>1, <2>2, <2>5, <3>1
        <3>3. n = e /\ e > cursor
            BY <2>4, <2>5, <3>1, <3>2 DEF Right
        <3> QED
            BY <2>1, <2>2, <3>1, <3>2, <3>3
    <2>6. ListInv'
        BY <1>1, <2>5 DEF ListPage, ListInv
    <2>7. TypeOK'
        BY <1>1, <2>1, <2>2, <2>3 DEF ListPage
    <2> QED
        BY <1>1, <2>6, <2>7 DEF ListPage
<1>2. CASE Look
    BY <1>2 DEF Look, ListInv
<1>3. CASE NextPage
    <2>1. ListInv'
        BY <1>3 DEF NextPage, ListInv
    <2> QED
        BY <1>3, <2>1 DEF NextPage
<1> QED
    BY <1>1, <1>2, <1>3 DEF ListStep

\* The turns up to a cursor, followed by those of the next page.
LEMMA PageAppended ==
    ASSUME NEW s \in Seq(Nat), NEW c \in Nat, NEW e \in Nat, c <= e,
           Len(s) = c, \A i \in 1..Len(s) : s[i] = i
    PROVE  LET r == s \o [i \in 1..(e - c) |-> c + i]
           IN  Len(r) = e /\ \A i \in 1..Len(r) : r[i] = i
<1> DEFINE q == [i \in 1..(e - c) |-> c + i]
<1>1. q \in Seq(Nat) /\ Len(q) = e - c
    OBVIOUS
<1>2. Len(s \o q) = e
    BY <1>1
<1>3. ASSUME NEW i \in 1..e PROVE (s \o q)[i] = i
    <2>1. CASE i <= c
        BY <1>1, <2>1
    <2>2. CASE i > c
        BY <1>1, <2>2
    <2> QED
        BY <2>1, <2>2
<1> QED
    BY <1>2, <1>3

LEMMA ReadKeeps == ASSUME IInv, ReadStep PROVE IInv'
<1> USE DEF IInv, TypeOK, PlaceInv, ReadInv, ListInv, TakeInv, OfOwner, At, Asks,
            GoTo, Pcs, opVars, pageVars, takeVars, codexVars, worldVars
<1>1. CASE Inspect
    BY <1>1 DEF Inspect, HistoryWhole
<1>2. CASE Whole
    <2>1. turns[thread] \in Nat /\ first <= turns[thread]
        BY <1>2 DEF Whole
    <2>2. got' \in Seq(Nat) /\ Len(got') = turns[thread] /\ \A i \in 1..Len(got') : got'[i] = i
        BY <1>2, <2>1 DEF Whole
    <2> QED
        BY <1>2, <2>1, <2>2 DEF Whole, HistoryWhole
<1>3. CASE Unmaterialized
    <2>1. turns[thread] = 0 /\ got = <<>> /\ first = 0
        BY <1>3 DEF Unmaterialized
    <2>2. HistoryWhole'
        BY <1>3, <2>1 DEF Unmaterialized, HistoryWhole
    <2> QED
        BY <1>3, <2>2 DEF Unmaterialized
<1>4. CASE TurnsPage
    <2>1. PICK e \in {cursor} \cup {i \in cursor..turns[thread] : i <= cursor + Limit},
               n \in Cursors \cup (Fresh \ {cursor}) :
              /\ got' = got \o [i \in 1..(e - cursor) |-> cursor + i]
              /\ lied' = (lied \/ ~Right(e, n, e < turns[thread]))
              /\ IF n = 0 THEN GoTo("answered") /\ UNCHANGED <<cursor, seen>>
                 ELSE IF n \in seen THEN GoTo("failed") /\ UNCHANGED <<cursor, seen>>
                 ELSE /\ seen' = seen \cup ({n} \ Fresh)
                      /\ cursor' = n
                      /\ UNCHANGED opVars
        BY <1>4 DEF TurnsPage
    <2>2. e \in Nat /\ n \in Nat /\ cursor <= e /\ turns[thread] \in Nat
        BY <2>1, BoundsAssumption DEF Cursors, Fresh
    <2>3. lied' \in BOOLEAN /\ (~lied' => ~lied /\ Right(e, n, e < turns[thread]))
        BY <2>1
    <2>11. ~lied => e <= turns[thread]
        BY <1>4, <2>1, <2>2 DEF TurnsPage
    <2>4. [i \in 1..(e - cursor) |-> cursor + i] \in Seq(Nat)
        BY <2>2
    <2>5. got' \in Seq(Nat)
        BY <2>1, <2>4
    <2>6. ASSUME ~lied'
          PROVE  Len(got') = e /\ \A i \in 1..Len(got') : got'[i] = i
        <3>1. got \in Seq(Nat) /\ cursor \in Nat /\ Len(got) = cursor /\ \A i \in 1..Len(got) : got[i] = i
            BY <1>4, <2>3, <2>6 DEF TurnsPage
        <3> QED
            BY <2>1, <2>2, <3>1, PageAppended
    <2>7. TypeOK'
        BY <1>4, <2>1, <2>2, <2>3, <2>5 DEF TurnsPage
    <2>8. PlaceInv' /\ ListInv' /\ TakeInv'
        BY <1>4, <2>1 DEF TurnsPage
    <2>9. ReadInv'
        <3>1. ASSUME pc' = "turns", ~lied' PROVE cursor' = e /\ e <= turns[thread]
            BY <1>4, <2>1, <2>2, <2>3, <2>11, <3>1 DEF TurnsPage, Right
        <3>2. /\ first' = first /\ turns' = turns /\ thread' = thread /\ kind' = kind
              /\ kind = "read" /\ first <= turns[thread]
            BY <1>4, <2>1 DEF TurnsPage
        <3> QED
            BY <2>2, <2>6, <3>1, <3>2
    <2>10. HistoryWhole'
        <3>1. ASSUME pc' = "answered", ~lied' PROVE n = 0 /\ e = turns[thread]
            BY <1>4, <2>1, <2>2, <2>3, <2>11, <3>1 DEF TurnsPage, Right
        <3>2. first' = first /\ turns' = turns /\ first <= turns[thread] /\ thread' = thread
            BY <1>4, <2>1 DEF TurnsPage
        <3> QED
            BY <2>2, <2>6, <3>1, <3>2 DEF HistoryWhole
    <2> QED
        BY <2>7, <2>8, <2>9, <2>10
<1> QED
    BY <1>1, <1>2, <1>3, <1>4 DEF ReadStep

-----------------------------------------------------------------------------
LEMMA NextInv == IInv /\ [Next]_vars => IInv'
<1> SUFFICES ASSUME IInv, [Next]_vars PROVE IInv'
    OBVIOUS
<1>1. CASE UNCHANGED vars
    BY <1>1 DEF vars, opVars, pageVars, takeVars, codexVars, worldVars, IInv, TypeOK, PlaceInv,
        ReadInv, HistoryWhole, ListInv, TakeInv, OfOwner, At
<1>2. CASE \E k \in Kinds, t \in Thread : Begin(k, t)
    BY <1>2, BeginKeeps
<1>3. CASE OpStep
    BY <1>3, PlainKeeps, FailsKeeps, ReturnKeeps, TerminateKeeps, ListKeeps, ReadKeeps DEF OpStep
<1>4. CASE Expires \/ CodexStep \/ ProgramStep
    BY <1>4, PlainKeeps, CodexKeeps, ProgramKeeps
<1> QED
    BY <1>1, <1>2, <1>3, <1>4 DEF Next

LEMMA Invariance == Spec => []IInv
BY InitInv, NextInv, PTL DEF Spec

\* The state of the thread operations has its type, whatever codex answers.
THEOREM TypeCorrect == Spec => []TypeOK
<1>1. IInv => TypeOK
    BY DEF IInv
<1> QED
    BY <1>1, Invariance, PTL

\* A history that is answered is whole (history.go:45-77), for any number of pages and
\* however the thread grows while it is read.
THEOREM HistoriesAreWhole == Spec => []HistoryWhole
<1>1. IInv => HistoryWhole
    BY DEF IInv
<1> QED
    BY <1>1, Invariance, PTL

\* SIGTERM goes to the owner of the thread or its application and never to this program
\* (takeover_darwin.go:21-66), unless the lock moves after the second look.
THEOREM SignalsHitOwners == Spec => []SignalHitsOwner
<1>1. IInv => SignalHitsOwner
    BY DEF IInv, TakeInv, OfOwner, SignalHitsOwner, At
<1> QED
    BY <1>1, Invariance, PTL

\* A release restarts the app-server only when no turn whose start was answered goes on
\* (manager.go:208-213), for any number of threads and pages.
THEOREM TurnsAreNotInterrupted == Spec => NoTurnInterrupted
<1>1. IInv /\ At("stop") => lied \/ active \subseteq late
    BY DEF IInv, ListInv, PlaceInv, At
<1>2. IInv /\ [Next]_vars => [At("stop") /\ up /\ ~up' => lied \/ active \subseteq late]_vars
    BY <1>1
<1> QED
    BY <1>2, Invariance, PTL DEF Spec, NoTurnInterrupted
=============================================================================
