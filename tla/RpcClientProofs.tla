-------------------------- MODULE RpcClientProofs --------------------------
(***************************************************************************)
(* Safety of RpcClient for every set of calls and responders, every        *)
(* capacity of `events` and every amount of output.                        *)
(***************************************************************************)
EXTENDS RpcClient, SequenceTheorems, TLAPS

-----------------------------------------------------------------------------
(* Sequences *)

\* What the scanner still holds after stdout is closed is a sequence of lines.
LEMMA BufferedType ==
    ASSUME NEW S, NEW s \in Seq(S), NEW t \in Buffered(s)
    PROVE  t \in Seq(S)
<1>1. PICK k \in 0..Len(s) : t = SubSeq(s, 1, k)
  BY DEF Buffered
<1>2. \A i \in 1..k : i \in 1..Len(s)
  OBVIOUS
<1> QED
  BY <1>1, <1>2

-----------------------------------------------------------------------------
(* Type correctness *)

LEMMA InitType == Init => TypeOK
<1> SUFFICES ASSUME Init PROVE TypeOK
  OBVIOUS
<1>1. NoMessage \in Message
  BY DEF NoMessage, Message, AllKinds, EventKinds
<1>2. respond \in [Responders \cup {Reader} ->
                     [pc : RespondPcs, id : Nat, tracked : BOOLEAN]]
  BY DEF Init, RespondPcs
<1>3. events \in Seq(Message) /\ Len(events) <= EventCap
  BY CapAssumption DEF Init
<1> QED
  BY <1>1, <1>2, <1>3 DEF Init, TypeOK, CallPcs, ReadPcs, ShutPcs

LEMMA ProcessType == TypeOK /\ (\E kind \in Kinds : WriteLine(kind)) => TypeOK'
<1> SUFFICES ASSUME TypeOK, NEW kind \in Kinds, WriteLine(kind) PROVE TypeOK'
  OBVIOUS
<1>1. PICK r \in Refs(kind) :
          LET m == [kind |-> kind, seq |-> Len(log) + 1, ref |-> r]
          IN  log' = Append(log, m) /\ out' = Append(out, m)
  BY DEF WriteLine
<1>2. kind \in AllKinds
  BY KindsAssumption
<1>3. r \in Calls \cup Nat
  <2>1. asked \subseteq Calls /\ Len(log) \in Nat
    BY DEF TypeOK
  <2>2. CASE kind = "answer"
    BY <1>1, <2>1, <2>2 DEF Refs
  <2>3. CASE kind = "resolved"
    BY <1>1, <2>1, <2>3 DEF Refs
  <2>4. CASE kind \notin {"answer", "resolved"}
    BY <1>1, <2>4 DEF Refs
  <2> QED
    BY <2>2, <2>3, <2>4
<1>4. [kind |-> kind, seq |-> Len(log) + 1, ref |-> r] \in Message
  BY <1>2, <1>3 DEF TypeOK, Message
<1>5. log' \in Seq(Message) /\ out' \in Seq(Message)
  BY <1>1, <1>4 DEF TypeOK
<1> QED
  BY <1>5 DEF WriteLine, TypeOK, callVars, respVars, readVars, eventVars, shutVars

LEMMA CallType ==
    ASSUME TypeOK, NEW c \in Calls, Register(c) \/ Cancel(c) \/ CallStep(c)
    PROVE  TypeOK'
<1> USE DEF TypeOK, CallPcs, respVars, procVars, readVars, eventVars, shutVars
<1>1. CASE Register(c)
  BY <1>1 DEF Register
<1>2. CASE Cancel(c)
  BY <1>2 DEF Cancel
<1>3. CASE CheckDone(c)
  BY <1>3 DEF CheckDone
<1>4. CASE Write(c)
  BY <1>4 DEF Write
<1>8. CASE AwaitWrite(c)
  BY <1>8 DEF AwaitWrite
<1>5. CASE TakeAnswer(c)
  BY <1>5 DEF TakeAnswer
<1>6. CASE SeeDone(c)
  BY <1>6 DEF SeeDone
<1>7. CASE RemovePending(c)
  BY <1>7 DEF RemovePending
<1> QED
  BY <1>1, <1>2, <1>3, <1>4, <1>5, <1>6, <1>7, <1>8 DEF CallStep

LEMMA LineFields ==
    ASSUME NEW s \in Seq(Message), NEW i \in 1..Len(s)
    PROVE  s[i] \in Message /\ s[i].seq \in Nat
<1>1. s[i] \in Message
  OBVIOUS
<1> QED
  BY <1>1 DEF Message

\* The two ways `respond` changes: a control step, and a new request.
RespondTypeOK(r) ==
    r \in [Responders \cup {Reader} ->
              [pc : RespondPcs, id : Nat, tracked : BOOLEAN]]

LEMMA GoToType ==
    ASSUME RespondTypeOK(respond), NEW p \in Responders \cup {Reader},
           NEW pc \in RespondPcs, GoTo(p, pc)
    PROVE  RespondTypeOK(respond')
  BY DEF RespondTypeOK, GoTo

LEMMA StartRespondType ==
    ASSUME RespondTypeOK(respond), NEW p \in Responders \cup {Reader}, NEW i \in Nat,
           respond' = [respond EXCEPT ![p] =
                          [pc |-> "lookup", id |-> i, tracked |-> FALSE]]
    PROVE  RespondTypeOK(respond')
  BY DEF RespondTypeOK, RespondPcs

LEMMA RespondType ==
    ASSUME TypeOK, NEW p \in Responders \cup {Reader},
           Decide(p) \/ RejectDecision(p) \/ RespondStep(p)
    PROVE  TypeOK'
<1> USE DEF TypeOK, RespondPcs, GoTo, RespondFrame, callVars, procVars, readVars,
            eventVars, shutVars
<1>1. CASE Decide(p)
  <2>1. PICK i \in 1..Len(received) :
          respond' = [respond EXCEPT ![p] =
                         [pc |-> "lookup", id |-> received[i].seq, tracked |-> FALSE]]
    BY <1>1 DEF Decide
  <2>2. received[i].seq \in Nat
    BY LineFields
  <2>3. RespondTypeOK(respond')
    BY <2>1, <2>2, StartRespondType DEF RespondTypeOK
  <2> QED
    BY <1>1, <2>3 DEF Decide, RespondTypeOK
<1>2. CASE RejectDecision(p)
  BY <1>2 DEF RejectDecision
<1>3. CASE Lookup(p)
  BY <1>3 DEF Lookup
<1>4. CASE CheckDoneRespond(p)
  BY <1>4 DEF CheckDoneRespond
<1>5. CASE WriteRespond(p)
  <2>1. respond[p].id \in Nat /\ respond[p].tracked \in BOOLEAN
    OBVIOUS
  <2>2. replies' \subseteq [id : Nat, translated : BOOLEAN]
    BY <1>5, <2>1 DEF WriteRespond
  <2>3. RespondTypeOK(respond')
    BY <1>5, GoToType DEF WriteRespond, RespondTypeOK
  <2> QED
    BY <1>5, <2>2, <2>3 DEF WriteRespond, RespondTypeOK
<1>6. CASE Forget(p)
  BY <1>6 DEF Forget
<1>7. CASE AwaitWriteRespond(p)
  BY <1>7 DEF AwaitWriteRespond
<1> QED
  BY <1>1, <1>2, <1>3, <1>4, <1>5, <1>6, <1>7 DEF RespondStep

LEMMA ReadType ==
    ASSUME TypeOK, ReadStep
    PROVE  TypeOK'
<1> USE DEF TypeOK, ReadPcs, callVars, respVars, procVars, eventVars, shutVars
<1>1. CASE ReadLine
  <2>1. out # <<>> /\ Head(out) \in Message /\ Tail(out) \in Seq(Message)
    BY <1>1 DEF ReadLine
  <2>2. NextPc(Head(out)) \in ReadPcs
    BY <2>1 DEF NextPc, Message, AllKinds, EventKinds
  <2>3. Head(out).seq \in Nat
    BY <2>1 DEF Message
  <2>4. RespondTypeOK(respond')
    BY <1>1, <2>3, StartRespondType DEF ReadLine, RespondTypeOK
  <2> QED
    BY <1>1, <2>1, <2>2, <2>4 DEF ReadLine, RespondTypeOK
<1>2. CASE EndOfOutput
  BY <1>2 DEF EndOfOutput
<1>3. CASE TrackApproval
  <2>1. msg.seq \in Nat
    BY DEF Message
  <2>2. approvals' \subseteq Nat
    BY <1>3, <2>1 DEF TrackApproval
  <2> QED
    BY <1>3, <2>2 DEF TrackApproval
<1>4. CASE Emit
  BY <1>4, CapAssumption DEF Emit
<1>5. CASE EmitDone
  BY <1>5 DEF EmitDone
<1>6. CASE EmitOnClosed
  BY <1>6 DEF EmitOnClosed
<1>7. CASE Deliver
  BY <1>7 DEF Deliver
<1>8. CASE SendAnswer
  BY <1>8 DEF SendAnswer
<1>9. CASE ClockAnswered
  BY <1>9 DEF ClockAnswered, GoTo, RespondPcs
<1> QED
  BY <1>1, <1>2, <1>3, <1>4, <1>5, <1>6, <1>7, <1>8, <1>9 DEF ReadStep

LEMMA ShutdownType ==
    ASSUME TypeOK, ShutdownStep
    PROVE  TypeOK'
<1> USE DEF TypeOK, ShutPcs, ReadPcs, callVars, respVars, procVars, readVars, eventVars, shutVars
<1>1. CASE Reap
  <2>1. out' \in Seq(Message)
    BY <1>1, BufferedType DEF Reap
  <2> QED
    BY <1>1, <2>1 DEF Reap
<1>2. CASE BeginShutdown
  BY <1>2 DEF BeginShutdown
<1>3. CASE LockPending
  BY <1>3 DEF LockPending
<1>4. ASSUME NEW c \in Calls, Drain(c) PROVE TypeOK'
  BY <1>4 DEF Drain
<1>5. CASE UnlockPending
  BY <1>5 DEF UnlockPending
<1>6. CASE CloseEvents
  BY <1>6 DEF CloseEvents
<1>7. CASE ReaderReturns
  BY <1>7 DEF ReaderReturns
<1>8. CASE WaiterReturns
  BY <1>8 DEF WaiterReturns
<1> QED
  BY <1>1, <1>2, <1>3, <1>4, <1>5, <1>6, <1>7, <1>8 DEF ShutdownStep

LEMMA NextType == TypeOK /\ [Next]_vars => TypeOK'
<1> SUFFICES ASSUME TypeOK, [Next]_vars PROVE TypeOK'
  OBVIOUS
<1> USE DEF callVars, respVars, procVars, readVars, eventVars, shutVars
<1>1. CASE \E kind \in Kinds : WriteLine(kind)
  BY <1>1, ProcessType
<1>2. CASE ProcessExit
  BY <1>2 DEF ProcessExit, TypeOK
<1>3. CASE Close
  <2>1. out' \in Seq(Message)
    BY <1>3, BufferedType DEF Close, TypeOK
  <2> QED
    BY <1>3, <2>1 DEF Close, TypeOK
<1>4. CASE \E c \in Calls : Register(c) \/ Cancel(c) \/ CallStep(c)
  BY <1>4, CallType
<1>5. CASE \E p \in Responders : Decide(p) \/ RejectDecision(p)
  BY <1>5, RespondType
<1>6. CASE \E p \in Responders \cup {Reader} : RespondStep(p)
  BY <1>6, RespondType
<1>7. CASE ReadStep
  BY <1>7, ReadType
<1>8. CASE ShutdownStep
  BY <1>8, ShutdownType
<1>9. CASE Receive
  <2>1. Head(events) \in Message /\ Tail(events) \in Seq(Message) /\ Len(Tail(events)) <= Len(events)
    BY <1>9 DEF Receive, TypeOK
  <2> QED
    BY <1>9, <2>1, CapAssumption DEF Receive, TypeOK
<1>10. CASE UNCHANGED vars
  BY <1>10 DEF vars, TypeOK
<1> QED
  BY <1>1, <1>2, <1>3, <1>4, <1>5, <1>6, <1>7, <1>8, <1>9, <1>10 DEF Next

\* Every reachable state has its types, and `events` never holds more than
\* its capacity.
THEOREM TypeCorrect == Spec => []TypeOK
  BY InitType, NextType, PTL DEF Spec

-----------------------------------------------------------------------------
(* At most one send per response channel, and no entry left in `pending`     *)

\* An answer readLoop holds belongs to a call that is under way and has left
\* `pending`, so neither the drain nor another answer can reach its channel.
SlotInv ==
    /\ \A c \in Calls : callPc[c] = "idle" => slot[c] = "empty" /\ c \notin pending
    /\ \A c \in pending : slot[c] = "empty"
    /\ readPc = "answer" =>
          /\ msg.ref \in Calls \ pending
          /\ slot[msg.ref] = "empty"
          /\ callPc[msg.ref] # "idle"

\* `done` is closed as shutdown starts, and pendingMu is held for the drain only.
ShutInv ==
    /\ done <=> shutPc # "open"
    /\ pendingMu = "drain" <=> shutPc = "drain"

IInv == TypeOK /\ SlotInv /\ ShutInv /\ NoPendingLeak

LEMMA InitInv == Init => SlotInv /\ ShutInv /\ NoPendingLeak
  BY DEF Init, SlotInv, ShutInv, NoPendingLeak

LEMMA CallInv ==
    ASSUME IInv, NEW c \in Calls, Register(c) \/ Cancel(c) \/ CallStep(c)
    PROVE  SlotInv' /\ ShutInv' /\ NoPendingLeak'
<1> USE DEF IInv, SlotInv, ShutInv, NoPendingLeak, readVars, shutVars
<1>0. /\ callPc \in [Calls -> CallPcs] /\ pending \subseteq Calls
      /\ slot \in [Calls -> {"empty", "answer", "closed"}]
      /\ shutPc \in ShutPcs
  BY DEF TypeOK
<1>1. CASE Register(c)
  BY <1>0, <1>1 DEF Register
<1>2. CASE Cancel(c)
  BY <1>0, <1>2 DEF Cancel
<1>3. CASE CheckDone(c)
  BY <1>0, <1>3 DEF CheckDone
<1>4. CASE Write(c)
  BY <1>0, <1>4 DEF Write
<1>8. CASE AwaitWrite(c)
  BY <1>0, <1>8 DEF AwaitWrite
<1>5. CASE TakeAnswer(c)
  BY <1>0, <1>5 DEF TakeAnswer
<1>6. CASE SeeDone(c)
  BY <1>0, <1>6 DEF SeeDone, ShutPcs
<1>7. CASE RemovePending(c)
  BY <1>0, <1>7 DEF RemovePending
<1> QED
  BY <1>1, <1>2, <1>3, <1>4, <1>5, <1>6, <1>7, <1>8 DEF CallStep

LEMMA ReadInv ==
    ASSUME IInv, ReadStep
    PROVE  SlotInv' /\ ShutInv' /\ NoPendingLeak'
<1> USE DEF IInv, SlotInv, ShutInv, NoPendingLeak, callVars, shutVars
<1>0. /\ callPc \in [Calls -> CallPcs] /\ pending \subseteq Calls
      /\ slot \in [Calls -> {"empty", "answer", "closed"}]
  BY DEF TypeOK
<1>1. CASE ReadLine
  <2>1. readPc' # "answer"
    <3>1. Head(out) \in Message
      BY <1>1 DEF ReadLine, TypeOK
    <3> QED
      BY <1>1, <3>1 DEF ReadLine, NextPc, Message, AllKinds, EventKinds
  <2> QED
    BY <1>1, <2>1 DEF ReadLine
<1>2. CASE EndOfOutput
  BY <1>2 DEF EndOfOutput
<1>3. CASE TrackApproval
  BY <1>3 DEF TrackApproval
<1>4. CASE Emit
  BY <1>4 DEF Emit
<1>5. CASE EmitDone
  BY <1>5 DEF EmitDone
<1>6. CASE EmitOnClosed
  BY <1>6 DEF EmitOnClosed
<1>7. CASE Deliver
  BY <1>0, <1>7 DEF Deliver
<1>8. CASE SendAnswer
  BY <1>0, <1>8 DEF SendAnswer
<1>9. CASE ClockAnswered
  BY <1>9 DEF ClockAnswered
<1> QED
  BY <1>1, <1>2, <1>3, <1>4, <1>5, <1>6, <1>7, <1>8, <1>9 DEF ReadStep

LEMMA ShutdownInv ==
    ASSUME IInv, ShutdownStep
    PROVE  SlotInv' /\ ShutInv' /\ NoPendingLeak'
<1> USE DEF IInv, SlotInv, ShutInv, NoPendingLeak, callVars, readVars
<1>0. /\ callPc \in [Calls -> CallPcs] /\ pending \subseteq Calls
      /\ slot \in [Calls -> {"empty", "answer", "closed"}]
  BY DEF TypeOK
<1>1. CASE Reap
  BY <1>1 DEF Reap
<1>2. CASE BeginShutdown
  BY <1>2 DEF BeginShutdown
<1>3. CASE LockPending
  BY <1>3 DEF LockPending
<1>4. ASSUME NEW c \in Calls, Drain(c) PROVE SlotInv' /\ ShutInv' /\ NoPendingLeak'
  BY <1>0, <1>4 DEF Drain, shutVars
<1>5. CASE UnlockPending
  BY <1>5 DEF UnlockPending
<1>6. CASE CloseEvents
  BY <1>6 DEF CloseEvents
<1>7. CASE ReaderReturns
  BY <1>7 DEF ReaderReturns, shutVars
<1>8. CASE WaiterReturns
  BY <1>8 DEF WaiterReturns
<1> QED
  BY <1>1, <1>2, <1>3, <1>4, <1>5, <1>6, <1>7, <1>8 DEF ShutdownStep

LEMMA NextInv == IInv /\ [Next]_vars => IInv'
<1> SUFFICES ASSUME IInv, [Next]_vars PROVE SlotInv' /\ ShutInv' /\ NoPendingLeak'
  BY NextType DEF IInv
<1> USE DEF callVars, readVars, shutVars
<1>0. ASSUME UNCHANGED <<callVars, readVars, shutVars>>
      PROVE  SlotInv' /\ ShutInv' /\ NoPendingLeak'
  BY <1>0 DEF IInv, SlotInv, ShutInv, NoPendingLeak
<1>1. CASE \E kind \in Kinds : WriteLine(kind)
  BY <1>0, <1>1 DEF WriteLine
<1>2. CASE ProcessExit
  BY <1>0, <1>2 DEF ProcessExit
<1>3. CASE Close
  BY <1>0, <1>3 DEF Close
<1>4. CASE \E c \in Calls : Register(c) \/ Cancel(c) \/ CallStep(c)
  BY <1>4, CallInv
<1>5. CASE \E p \in Responders : Decide(p) \/ RejectDecision(p)
  BY <1>0, <1>5 DEF Decide, RejectDecision, RespondFrame
<1>6. CASE \E p \in Responders \cup {Reader} : RespondStep(p)
  BY <1>0, <1>6 DEF RespondStep, Lookup, CheckDoneRespond, AwaitWriteRespond, WriteRespond, StdinBroken, Forget, RespondFrame
<1>7. CASE ReadStep
  BY <1>7, ReadInv
<1>8. CASE ShutdownStep
  BY <1>8, ShutdownInv
<1>9. CASE Receive
  BY <1>0, <1>9 DEF Receive
<1>10. CASE UNCHANGED vars
  BY <1>0, <1>10 DEF vars
<1> QED
  BY <1>1, <1>2, <1>3, <1>4, <1>5, <1>6, <1>7, <1>8, <1>9, <1>10 DEF Next

LEMMA Invariance == Spec => []IInv
<1>1. Init => IInv
  BY InitType, InitInv DEF IInv
<1> QED
  BY <1>1, NextInv, PTL DEF Spec

\* No send on a response channel blocks: readLoop cannot stop in deliver, nor
\* shutdown in the drain while it holds pendingMu.
THEOREM SendsNeverBlock == Spec => []ResponseSlotFree
<1>1. IInv => ResponseSlotFree
  BY DEF IInv, SlotInv, ResponseSlotFree
<1> QED
  BY Invariance, <1>1, PTL

\* No entry of `pending` outlives its call, and after the drain no call can
\* come to wait on an entry nobody will answer.
THEOREM PendingIsDrained == Spec => []NoPendingLeak
<1>1. IInv => NoPendingLeak
  BY DEF IInv
<1> QED
  BY Invariance, <1>1, PTL

-----------------------------------------------------------------------------
(* The stream of events: what has been sent on `events`, and what readLoop and the   *)
(* pipe still hold, are the log cut at one place                                     *)

\* Where readLoop is in the log: it has taken the first n lines, and what it can still
\* read follows them.  Of a line that it had in hand when it ended nothing is said.
InHand == readPc \in {"track", "emit"}
Ended == readPc \in {"exited", "panic"}

StreamAt(n) ==
    /\ n + Len(out) <= Len(log)
    /\ ~closed => n + Len(out) = Len(log)
    /\ \A i \in 1..Len(out) : out[i] = log[n + i]
    /\ InHand \/ readPc = "clock" => n > 0 /\ msg = log[n]
    /\ \A i \in 1..Len(Sent) : Sent[i].seq <= n /\ (InHand => Sent[i].seq < n)
    /\ \A k \in 1..n : IsEvent(log[k]) => \/ \E i \in 1..Len(Sent) : Sent[i] = log[k]
                                          \/ k = n /\ (InHand \/ Ended)

\* Each line bears its position, and the lines sent are in the order of the log.
OrderInv ==
    /\ \A n \in 1..Len(log) : log[n].seq = n
    /\ \A i \in 1..Len(Sent) :
          /\ IsEvent(Sent[i]) /\ Sent[i].seq \in 1..Len(log) /\ Sent[i] = log[Sent[i].seq]
          /\ \A j \in 1..(i - 1) : Sent[j].seq < Sent[i].seq

EndInv ==
    /\ InHand => IsEvent(msg)
    /\ Ended => done
    /\ eventsClosed => done

StreamInv == OrderInv /\ EndInv /\ \E n \in 0..Len(log) : StreamAt(n)

\* An approval that an untranslated answer may meet.
Settled(id) == [id |-> id, translated |-> TRUE] \in replies \/ ResolvedSeen(id)

ApprovalInv ==
    /\ \A i \in 1..Len(Sent) : Sent[i].kind = "approval" => (Sent[i].seq \in approvals \/ Settled(Sent[i].seq))
    /\ readPc = "emit" /\ msg.kind = "approval" => msg.seq \in approvals \/ Settled(msg.seq)
    /\ msg.kind = "resolved" => InHand \/ Ended \/ \E i \in 1..Len(Sent) : Sent[i] = msg
    /\ readPc = "clock" => msg.kind = "clock"

Answering == {"lookup", "check", "write", "encode", "forget"}

RespondInv ==
    /\ \A p \in Responders :
          /\ respond[p].pc \in Answering =>
                \E i \in 1..Len(received) : received[i].kind = "approval" /\ received[i].seq = respond[p].id
          /\ respond[p].pc \in Answering \ {"lookup"} /\ ~respond[p].tracked => Settled(respond[p].id)
          /\ respond[p].pc = "forget" =>
                [id |-> respond[p].id, translated |-> respond[p].tracked] \in replies
    /\ respond[Reader].pc \in Answering => readPc = "clock" /\ respond[Reader].id = msg.seq
    /\ \A r \in replies : r.id \in 1..Len(log) /\ (log[r.id].kind = "approval" /\ ~r.translated => Settled(r.id))

LEMMA SentType ==
    ASSUME TypeOK
    PROVE  /\ Sent \in Seq(Message) /\ Len(Sent) = Len(received) + Len(events) /\ Len(Sent) \in Nat
           /\ \A i \in 1..Len(received) : i \in 1..Len(Sent) /\ Sent[i] = received[i]
  BY ConcatProperties DEF TypeOK, Sent

LEMMA SentAppend ==
    ASSUME TypeOK, events' = Append(events, msg), received' = received
    PROVE  Sent' = Append(Sent, msg)
<1>1. received \in Seq(Message) /\ events \in Seq(Message) /\ msg \in Message
  BY DEF TypeOK
<1>2. received \o Append(events, msg) = Append(received \o events, msg)
  <2>1. /\ Append(events, msg) = events \o <<msg>> /\ <<msg>> \in Seq(Message)
        /\ Append(received \o events, msg) = (received \o events) \o <<msg>>
    BY <1>1, AppendIsConcat, ConcatProperties
  <2> QED
    BY <1>1, <2>1, ConcatAssociative
<1> QED
  BY <1>2 DEF Sent

LEMMA SentReceive ==
    ASSUME TypeOK, Receive
    PROVE  Sent' = Sent
<1>1. received \in Seq(Message) /\ events \in Seq(Message) /\ events # <<>>
  BY DEF TypeOK, Receive
<1>2. /\ Head(events) \in Message /\ Tail(events) \in Seq(Message)
      /\ Append(received, Head(events)) \in Seq(Message)
      /\ Len(Tail(events)) = Len(events) - 1
      /\ \A i \in 1..Len(Tail(events)) : Tail(events)[i] = events[i + 1]
      /\ Len(Append(received, Head(events))) = Len(received) + 1
      /\ Head(events) = events[1] /\ Len(events) > 0
  BY <1>1
<1> DEFINE u == Append(received, Head(events)) \o Tail(events)
           v == received \o events
<1>3. u \in Seq(Message) /\ v \in Seq(Message) /\ Len(u) = Len(v)
  BY <1>1, <1>2, ConcatProperties
<1>4. ASSUME NEW i \in 1..Len(u) PROVE u[i] = v[i]
  <2>1. u[i] = IF i <= Len(received) + 1 THEN Append(received, Head(events))[i]
                                         ELSE Tail(events)[i - (Len(received) + 1)]
    BY <1>1, <1>2, <1>4, ConcatProperties
  <2>2. v[i] = IF i <= Len(received) THEN received[i] ELSE events[i - Len(received)]
    BY <1>1, <1>2, <1>3, <1>4, ConcatProperties
  <2>3. i <= Len(received) + 1 => Append(received, Head(events))[i] =
                                    IF i = Len(received) + 1 THEN events[1] ELSE received[i]
    BY <1>1, <1>2
  <2>4. i > Len(received) + 1 => Tail(events)[i - (Len(received) + 1)] = events[i - Len(received)]
    BY <1>1, <1>2, <1>3, <1>4, ConcatProperties
  <2> QED
    BY <1>1, <2>1, <2>2, <2>3, <2>4
<1>5. u = v
  BY <1>3, <1>4, SeqEqual
<1> QED
  BY <1>5 DEF Receive, Sent

\* Most steps leave the lines where they are: readLoop keeps what it has in hand, or
\* drops it as it ends.
LEMMA StreamKept ==
    ASSUME StreamInv, UNCHANGED <<log, out, msg, Sent>>, closed => closed',
           InHand' => InHand, InHand \/ Ended => InHand' \/ Ended',
           readPc' = "clock" => readPc = "clock", EndInv'
    PROVE  StreamInv'
<1>1. OrderInv'
  BY DEF StreamInv, OrderInv
<1>2. PICK n \in 0..Len(log) : StreamAt(n)
  BY DEF StreamInv
<1>3. StreamAt(n)'
  BY <1>2 DEF StreamAt
<1> QED
  BY <1>1, <1>2, <1>3 DEF StreamInv

\* The process writes a line.
LEMMA StreamWritten ==
    ASSUME TypeOK, TypeOK', StreamInv, NEW kind \in Kinds, WriteLine(kind)
    PROVE  StreamInv'
<1>1. PICK m : m.seq = Len(log) + 1 /\ log' = Append(log, m) /\ out' = Append(out, m)
  BY DEF WriteLine
<1>2. log \in Seq(Message) /\ out \in Seq(Message) /\ ~closed /\ Sent \in Seq(Message)
  BY SentType DEF WriteLine, TypeOK
<1>3. /\ Len(log') = Len(log) + 1 /\ log'[Len(log) + 1] = m /\ \A i \in 1..Len(log) : log'[i] = log[i]
      /\ Len(out') = Len(out) + 1 /\ out'[Len(out) + 1] = m /\ \A i \in 1..Len(out) : out'[i] = out[i]
      /\ Len(log) \in Nat /\ Len(out) \in Nat
  BY <1>1, <1>2
<1>4. UNCHANGED <<readPc, msg, Sent, done, eventsClosed, closed>>
  BY DEF WriteLine, readVars, eventVars, shutVars, Sent
<1>5. OrderInv'
  <2>1. \A n \in 1..Len(log') : log'[n].seq = n
    BY <1>1, <1>3 DEF StreamInv, OrderInv
  <2> QED
    BY <1>3, <1>4, <2>1 DEF StreamInv, OrderInv
<1>6. PICK n \in 0..Len(log) : StreamAt(n)
  BY DEF StreamInv
<1>7. StreamAt(n)'
  <2>1. n + Len(out') = Len(log') /\ \A i \in 1..Len(out') : out'[i] = log'[n + i]
    <3>1. n + Len(out) = Len(log)
      BY <1>2, <1>6 DEF StreamAt
    <3>2. ASSUME NEW i \in 1..Len(out) PROVE out'[i] = log'[n + i]
      <4>1. n + i \in 1..Len(log)
        BY <1>3, <3>1
      <4> QED
        BY <1>3, <1>6, <4>1 DEF StreamAt
    <3>3. out'[Len(out) + 1] = log'[n + (Len(out) + 1)] /\ n + Len(out') = Len(log')
      BY <1>3, <3>1
    <3>4. \A i \in 1..Len(out') : i \in 1..Len(out) \/ i = Len(out) + 1
      BY <1>3
    <3> QED
      BY <3>2, <3>3, <3>4
  <2>2. InHand \/ readPc = "clock" => n > 0 /\ msg = log'[n]
    BY <1>3, <1>6 DEF StreamAt
  <2>3. \A i \in 1..n : log'[i] = log[i]
    BY <1>3
  <2>4. \A i \in 1..Len(Sent) : Sent[i].seq <= n /\ (InHand => Sent[i].seq < n)
    BY <1>6 DEF StreamAt
  <2>5. \A k \in 1..n : IsEvent(log'[k]) => \/ \E i \in 1..Len(Sent) : Sent[i] = log'[k]
                                            \/ k = n /\ (InHand \/ Ended)
    BY <1>6, <2>3 DEF StreamAt
  <2>6. Sent' = Sent /\ (InHand' <=> InHand) /\ (Ended' <=> Ended)
    BY <1>4 DEF InHand, Ended
  <2>7. n + Len(out') <= Len(log')
    BY <1>3, <2>1
  <2> QED
    BY <1>4, <2>1, <2>2, <2>4, <2>5, <2>6, <2>7 DEF StreamAt
<1>8. EndInv'
  BY <1>4 DEF StreamInv, EndInv, InHand, Ended
<1>9. n \in 0..Len(log')
  BY <1>3
<1> QED
  BY <1>5, <1>7, <1>8, <1>9 DEF StreamInv

\* The read end of stdout is closed: a part of what was there remains.
LEMMA StreamTruncated ==
    ASSUME TypeOK, StreamInv, out' \in Buffered(out), closed', UNCHANGED <<log, readPc, msg, Sent, done, eventsClosed>>
    PROVE  StreamInv'
<1>1. PICK k \in 0..Len(out) : out' = SubSeq(out, 1, k)
  BY DEF Buffered
<1>2. Len(out') = k /\ k <= Len(out) /\ \A i \in 1..k : out'[i] = out[i] /\ i \in 1..Len(out)
  BY <1>1 DEF TypeOK
<1>3. PICK n \in 0..Len(log) : StreamAt(n)
  BY DEF StreamInv
<1>4. StreamAt(n)'
  <2>1. Len(log) \in Nat /\ Len(out) \in Nat
    BY DEF TypeOK
  <2>2. n + Len(out') <= Len(log')
    BY <1>2, <1>3, <2>1 DEF StreamAt
  <2>3. \A i \in 1..Len(out') : out'[i] = log'[n + i]
    BY <1>2, <1>3 DEF StreamAt
  <2>4. (InHand' <=> InHand) /\ (Ended' <=> Ended)
    BY DEF InHand, Ended
  <2> QED
    BY <1>3, <2>2, <2>3, <2>4 DEF StreamAt
<1>5. OrderInv' /\ EndInv'
  BY DEF StreamInv, OrderInv, EndInv, InHand, Ended
<1> QED
  BY <1>3, <1>4, <1>5 DEF StreamInv

LEMMA StreamRead ==
    ASSUME TypeOK, StreamInv, ReadLine
    PROVE  StreamInv'
<1>1. /\ out # <<>> /\ msg' = Head(out) /\ out' = Tail(out) /\ readPc = "scan"
      /\ readPc' = NextPc(Head(out))
      /\ UNCHANGED <<log, closed, Sent, done, eventsClosed>>
  BY DEF ReadLine, eventVars, shutVars, Sent
<1>2. /\ Len(out) \in Nat \ {0} /\ Len(log) \in Nat /\ Len(Tail(out)) = Len(out) - 1 /\ Head(out) = out[1]
      /\ \A i \in 1..Len(Tail(out)) : Tail(out)[i] = out[i + 1]
      /\ Head(out) \in Message
  BY <1>1 DEF TypeOK
<1>3. PICK n \in 0..Len(log) : StreamAt(n)
  BY DEF StreamInv
<1>4. /\ n + 1 \in 0..Len(log) /\ msg' = log[n + 1]
      /\ Len(out') = Len(out) - 1 /\ \A i \in 1..Len(out') : out'[i] = log[(n + 1) + i]
  BY <1>1, <1>2, <1>3 DEF StreamAt
<1>5. (InHand' <=> IsEvent(msg')) /\ ~Ended'
  BY <1>1, <1>2 DEF InHand, Ended, IsEvent, NextPc, Message, AllKinds, EventKinds
<1>6. \A i \in 1..Len(Sent) : Sent[i].seq \in 1..Len(log) /\ Sent[i].seq <= n
  BY <1>3 DEF StreamAt, StreamInv, OrderInv
<1>7. \A k \in 1..n : IsEvent(log[k]) => \E i \in 1..Len(Sent) : Sent[i] = log[k]
  BY <1>1, <1>3 DEF StreamAt, InHand, Ended
<1>8. StreamAt(n + 1)'
  <2>1. /\ (n + 1) + Len(out') <= Len(log) /\ (~closed => (n + 1) + Len(out') = Len(log))
    <3>1. n + Len(out) <= Len(log) /\ (~closed => n + Len(out) = Len(log))
      BY <1>3 DEF StreamAt
    <3>2. n \in Nat /\ Len(out) \in Nat /\ Len(log) \in Nat /\ Len(out') = Len(out) - 1
      BY <1>2, <1>4
    <3> QED
      BY <3>1, <3>2
  <2>2. \A i \in 1..Len(Sent) : Sent[i].seq <= n + 1 /\ Sent[i].seq < n + 1
    BY <1>6
  <2>3. \A k \in 1..(n + 1) : IsEvent(log[k]) => \/ \E i \in 1..Len(Sent) : Sent[i] = log[k]
                                                 \/ k = n + 1 /\ InHand'
    <3>1. IsEvent(log[n + 1]) => InHand'
      BY <1>4, <1>5
    <3>2. \A k \in 1..(n + 1) : k \in 1..n \/ k = n + 1
      OBVIOUS
    <3> QED
      BY <1>7, <3>1, <3>2
  <2>4. n + 1 > 0 /\ ~Ended' /\ UNCHANGED <<log, closed, Sent>>
    BY <1>1, <1>5
  <2> QED
    BY <1>4, <2>1, <2>2, <2>3, <2>4 DEF StreamAt
<1>9. OrderInv' /\ EndInv'
  BY <1>1, <1>5 DEF StreamInv, OrderInv, EndInv
<1> QED
  BY <1>1, <1>4, <1>8, <1>9 DEF StreamInv

LEMMA StreamEmitted ==
    ASSUME TypeOK, StreamInv, Emit
    PROVE  StreamInv' /\ Sent' = Append(Sent, msg)
<1>1. /\ Sent' = Append(Sent, msg) /\ readPc = "emit" /\ readPc' = "scan"
      /\ UNCHANGED <<log, out, closed, msg, done, eventsClosed>>
  BY SentAppend DEF Emit, procVars, shutVars
<1>2. /\ Sent \in Seq(Message) /\ Len(Sent) \in Nat /\ Len(Sent') = Len(Sent) + 1
      /\ Sent'[Len(Sent) + 1] = msg /\ \A i \in 1..Len(Sent) : Sent'[i] = Sent[i]
  BY <1>1, SentType DEF TypeOK
<1>3. PICK n \in 0..Len(log) : StreamAt(n)
  BY DEF StreamInv
<1>4. /\ n \in 1..Len(log) /\ msg = log[n] /\ msg.seq = n /\ IsEvent(msg)
      /\ \A i \in 1..Len(Sent) : Sent[i].seq < n
  BY <1>1, <1>3 DEF StreamAt, StreamInv, OrderInv, EndInv, InHand
<1>5. StreamAt(n)'
  <2>1. \A i \in 1..Len(Sent') : Sent'[i].seq <= n
    BY <1>2, <1>4 DEF StreamInv, OrderInv
  <2>2. ASSUME NEW k \in 1..n, IsEvent(log[k]) PROVE \E i \in 1..Len(Sent') : Sent'[i] = log[k]
    BY <1>2, <1>3, <1>4, <2>2, <1>1 DEF StreamAt, Ended
  <2> QED
    BY <1>1, <1>3, <2>1, <2>2 DEF StreamAt, InHand
<1>6. OrderInv'
  <2>1. ASSUME NEW i \in 1..Len(Sent')
        PROVE  /\ IsEvent(Sent'[i]) /\ Sent'[i].seq \in 1..Len(log) /\ Sent'[i] = log[Sent'[i].seq]
               /\ \A j \in 1..(i - 1) : Sent'[j].seq < Sent'[i].seq
    <3>1. CASE i \in 1..Len(Sent)
      BY <1>2, <3>1 DEF StreamInv, OrderInv
    <3>2. CASE i = Len(Sent) + 1
      BY <1>2, <1>4, <3>2
    <3> QED
      BY <1>2, <3>1, <3>2
  <2> QED
    BY <1>1, <2>1 DEF StreamInv, OrderInv
<1>7. EndInv'
  BY <1>1 DEF StreamInv, EndInv, InHand, Ended
<1> QED
  BY <1>1, <1>3, <1>5, <1>6, <1>7 DEF StreamInv

LEMMA StreamInitially == Init => StreamInv
<1> SUFFICES ASSUME Init PROVE StreamInv
  OBVIOUS
<1>1. Sent = <<>> /\ Len(log) = 0 /\ Len(out) = 0 /\ readPc = "scan" /\ ~eventsClosed
  BY DEF Init, Sent
<1>2. Len(Sent) = 0
  BY <1>1
<1>3. StreamAt(0) /\ 0 \in 0..Len(log)
  BY <1>1, <1>2 DEF StreamAt, InHand
<1>4. OrderInv /\ EndInv
  BY <1>1, <1>2 DEF OrderInv, EndInv, InHand, Ended
<1> QED
  BY <1>3, <1>4 DEF StreamInv

LEMMA StreamStep ==
    ASSUME TypeOK, TypeOK', ShutInv, StreamInv, [Next]_vars
    PROVE  StreamInv'
<1>0. EndInv
  BY DEF StreamInv
<1>1. ASSUME UNCHANGED <<log, out, msg, received, events, readPc, eventsClosed>>,
             closed => closed', done => done'
      PROVE  StreamInv'
  <2>1. UNCHANGED Sent /\ (InHand' <=> InHand) /\ (Ended' <=> Ended) /\ EndInv'
    BY <1>0, <1>1 DEF Sent, InHand, Ended, EndInv
  <2> QED
    BY <1>1, <2>1, StreamKept
<1>2. CASE \E kind \in Kinds : WriteLine(kind)
  BY <1>2, StreamWritten
<1>3. CASE ProcessExit \/ UNCHANGED vars
  BY <1>1, <1>3 DEF ProcessExit, vars, procVars, readVars, eventVars, shutVars
<1>4. CASE Close \/ Reap
  <2>1. out' \in Buffered(out) \/ (out' = out /\ closed)
    BY <1>4 DEF Close, Reap
  <2>2. closed' /\ UNCHANGED <<log, msg, readPc, received, events, eventsClosed, done>>
    BY <1>4 DEF Close, Reap, readVars, eventVars, shutVars
  <2>3. UNCHANGED Sent
    BY <2>2 DEF Sent
  <2>4. CASE out' \in Buffered(out)
    BY <2>2, <2>3, <2>4, StreamTruncated
  <2>5. CASE out' = out /\ closed
    BY <1>1, <2>2, <2>5
  <2> QED
    BY <2>1, <2>4, <2>5
<1>5. CASE \E c \in Calls : Register(c) \/ Cancel(c) \/ CallStep(c)
  BY <1>1, <1>5 DEF Register, Cancel, CallStep, CheckDone, AwaitWrite, Write, StdinBroken, TakeAnswer, SeeDone, RemovePending,
     procVars, readVars, eventVars, shutVars
<1>6. CASE (\E p \in Responders : Decide(p) \/ RejectDecision(p)) \/ (\E p \in Responders \cup {Reader} : RespondStep(p))
  BY <1>1, <1>6 DEF Decide, RejectDecision, RespondStep, Lookup, CheckDoneRespond, AwaitWriteRespond, WriteRespond, StdinBroken, Forget,
     RespondFrame, procVars, readVars, eventVars, shutVars
<1>7. CASE ReadLine \/ Emit
  BY <1>7, StreamRead, StreamEmitted
<1>8. CASE EndOfOutput \/ TrackApproval \/ EmitDone \/ EmitOnClosed \/ Deliver \/ SendAnswer \/ ClockAnswered
  <2>1. UNCHANGED <<log, out, msg, closed, received, events, done, eventsClosed>>
    BY <1>8 DEF EndOfOutput, TrackApproval, EmitDone, EmitOnClosed, Deliver, SendAnswer, ClockAnswered,
       procVars, eventVars, shutVars
  <2>2. /\ (InHand' => InHand) /\ (InHand \/ Ended => InHand' \/ Ended')
        /\ readPc' # "clock" /\ (Ended' => Ended \/ done \/ eventsClosed)
    <3>1. CASE TrackApproval
      BY <3>1 DEF TrackApproval, InHand, Ended
    <3>2. CASE EmitDone \/ EmitOnClosed
      BY <3>2 DEF EmitDone, EmitOnClosed, InHand, Ended
    <3>3. CASE EndOfOutput \/ Deliver \/ SendAnswer \/ ClockAnswered
      BY <3>3 DEF EndOfOutput, Deliver, SendAnswer, ClockAnswered, InHand, Ended
    <3> QED
      BY <1>8, <3>1, <3>2, <3>3
  <2>3. UNCHANGED Sent /\ EndInv'
    BY <1>0, <2>1, <2>2 DEF Sent, EndInv
  <2> QED
    BY <2>1, <2>2, <2>3, StreamKept
<1>9. CASE BeginShutdown \/ LockPending \/ (\E c \in Calls : Drain(c)) \/ UnlockPending \/ WaiterReturns
  BY <1>1, <1>9 DEF BeginShutdown, LockPending, Drain, UnlockPending, WaiterReturns,
     procVars, readVars, eventVars, shutVars
<1>10. CASE CloseEvents \/ ReaderReturns
  <2>1. UNCHANGED <<log, out, msg, closed, received, events, done>> /\ done
    BY <1>10 DEF CloseEvents, ReaderReturns, ShutInv, procVars, readVars, eventVars, shutVars
  <2>2. (InHand' <=> InHand) /\ (Ended => Ended') /\ (readPc' = "clock" => readPc = "clock")
    BY <1>10 DEF CloseEvents, ReaderReturns, readVars, InHand, Ended
  <2>3. UNCHANGED Sent /\ EndInv'
    BY <1>0, <2>1, <2>2 DEF Sent, EndInv
  <2> QED
    BY <2>1, <2>2, <2>3, StreamKept
<1>11. CASE Receive
  <2>1. Sent' = Sent
    BY <1>11, SentReceive
  <2>2. UNCHANGED <<log, out, closed, readPc, msg, done, eventsClosed>>
    BY <1>11 DEF Receive, procVars, readVars, shutVars
  <2>3. (InHand' <=> InHand) /\ (Ended' <=> Ended) /\ EndInv'
    BY <1>0, <2>2 DEF InHand, Ended, EndInv
  <2> QED
    BY <2>1, <2>2, <2>3, StreamKept
<1> QED
  BY <1>2, <1>3, <1>4, <1>5, <1>6, <1>7, <1>8, <1>9, <1>10, <1>11 DEF Next, ReadStep, ShutdownStep

LEMMA StreamIsIntact == TypeOK /\ ShutInv /\ StreamInv => EventStreamIntact
<1> SUFFICES ASSUME TypeOK, StreamInv PROVE EventStreamIntact
  OBVIOUS
<1>1. PICK n \in 0..Len(log) : StreamAt(n)
  BY DEF StreamInv
<1>2. Len(Sent) \in Nat /\ Len(log) \in Nat /\ Len(out) \in Nat
  BY SentType DEF TypeOK
<1>3. ASSUME NEW i \in 1..Len(Sent), NEW k \in 1..Sent[i].seq, IsEvent(log[k])
      PROVE  \E j \in 1..i : Sent[j] = log[k]
  <2>1. Sent[i].seq \in 1..Len(log) /\ Sent[i].seq <= n /\ (InHand => Sent[i].seq < n) /\ Sent[i] = log[Sent[i].seq]
    BY <1>1 DEF StreamInv, OrderInv, StreamAt
  <2>2. CASE k = Sent[i].seq
    BY <1>2, <2>1, <2>2
  <2>3. CASE k # Sent[i].seq
    <3>1. k \in 1..n /\ k # n /\ k < Sent[i].seq /\ k \in 1..Len(log)
      BY <1>2, <2>1, <2>3
    <3>2. PICK j \in 1..Len(Sent) : Sent[j] = log[k]
      BY <1>1, <1>3, <3>1 DEF StreamAt
    <3>3. Sent[j].seq = k
      BY <3>1, <3>2 DEF StreamInv, OrderInv
    <3>4. ~(j \in (i + 1)..Len(Sent))
      <4>1. ASSUME j \in (i + 1)..Len(Sent) PROVE FALSE
        <5>1. i \in 1..(j - 1)
          BY <1>2, <4>1
        <5> QED
          BY <2>1, <3>1, <3>3, <5>1 DEF StreamInv, OrderInv
      <4> QED
        BY <4>1
    <3> QED
      BY <1>2, <3>2, <3>4
  <2> QED
    BY <2>2, <2>3
<1>4. ASSUME ~done, ~closed, NEW k \in 1..Len(log), IsEvent(log[k])
      PROVE  \/ \E i \in 1..Len(Sent) : Sent[i] = log[k]
             \/ InHand /\ msg = log[k]
             \/ \E i \in 1..Len(out) : out[i] = log[k]
  <2>1. CASE k <= n
    <3>1. ~Ended
      BY <1>4 DEF StreamInv, EndInv
    <3> QED
      BY <1>1, <1>2, <1>4, <2>1, <3>1 DEF StreamAt
  <2>2. CASE k > n
    <3>1. k - n \in 1..Len(out) /\ n + (k - n) = k
      BY <1>1, <1>2, <1>4, <2>2 DEF StreamAt
    <3>2. out[k - n] = log[n + (k - n)]
      BY <1>1, <3>1 DEF StreamAt
    <3> QED
      BY <3>1, <3>2
  <2> QED
    BY <1>1, <1>2, <2>1, <2>2
<1> QED
  BY <1>3, <1>4 DEF EventStreamIntact, StreamInv, OrderInv, InHand

-----------------------------------------------------------------------------
(* A user's answer to an approval is translated, or comes too late *)

\* What a step may do to the lines and the answers.
LEMMA OnlyGrows ==
    ASSUME TypeOK, [Next]_vars
    PROVE  /\ Sent' = Sent \/ (Emit /\ Sent' = Append(Sent, msg))
           /\ msg' = msg \/ ReadLine
           /\ replies \subseteq replies'
           /\ log' = log \/ \E kind \in Kinds : WriteLine(kind)
           /\ received' = received \/ Receive
<1> USE DEF callVars, respVars, procVars, readVars, eventVars, shutVars
<1>0. ASSUME UNCHANGED <<msg, replies, log, received, events>>
      PROVE  /\ Sent' = Sent /\ msg' = msg /\ replies \subseteq replies' /\ log' = log /\ received' = received
  BY <1>0 DEF Sent
<1>1. ASSUME NEW kind \in Kinds, WriteLine(kind)
      PROVE  Sent' = Sent /\ msg' = msg /\ replies \subseteq replies' /\ received' = received
  BY <1>1 DEF WriteLine, Sent
<1>2. CASE ProcessExit \/ Close \/ UNCHANGED vars
  BY <1>0, <1>2 DEF ProcessExit, Close, vars
<1>3. CASE \E c \in Calls : Register(c) \/ Cancel(c) \/ CallStep(c)
  BY <1>0, <1>3 DEF Register, Cancel, CallStep, CheckDone, AwaitWrite, Write, StdinBroken, TakeAnswer, SeeDone, RemovePending
<1>4. CASE \E p \in Responders : Decide(p) \/ RejectDecision(p)
  BY <1>0, <1>4 DEF Decide, RejectDecision, RespondFrame
<1>5. CASE \E p \in Responders \cup {Reader} : RespondStep(p)
  <2>1. UNCHANGED <<msg, log, received, events>> /\ replies \subseteq replies'
    BY <1>5 DEF RespondStep, Lookup, CheckDoneRespond, AwaitWriteRespond, WriteRespond, StdinBroken, Forget, RespondFrame
  <2> QED
    BY <2>1 DEF Sent
<1>6. CASE ReadLine
  BY <1>6 DEF ReadLine, Sent
<1>7. CASE Emit
  BY <1>7, SentAppend DEF Emit
<1>8. CASE EndOfOutput \/ TrackApproval \/ EmitDone \/ EmitOnClosed \/ Deliver \/ SendAnswer \/ ClockAnswered
  BY <1>0, <1>8 DEF EndOfOutput, TrackApproval, EmitDone, EmitOnClosed, Deliver, SendAnswer, ClockAnswered
<1>9. CASE ShutdownStep
  BY <1>0, <1>9 DEF ShutdownStep, Reap, BeginShutdown, LockPending, Drain, UnlockPending, CloseEvents,
     ReaderReturns, WaiterReturns
<1>10. CASE Receive
  <2>1. UNCHANGED <<msg, replies, log>>
    BY <1>10 DEF Receive
  <2> QED
    BY <1>10, <2>1, SentReceive
<1> QED
  BY <1>1, <1>2, <1>3, <1>4, <1>5, <1>6, <1>7, <1>8, <1>9, <1>10 DEF Next, ReadStep

LEMMA SentStays ==
    ASSUME TypeOK, [Next]_vars
    PROVE  /\ \A i \in 1..Len(Sent) : i \in 1..Len(Sent') /\ Sent'[i] = Sent[i]
           /\ \A i \in 1..Len(log) : i \in 1..Len(log') /\ log'[i] = log[i]
           /\ \A i \in 1..Len(received) : i \in 1..Len(received') /\ received'[i] = received[i]
<1>1. Sent \in Seq(Message) /\ msg \in Message /\ log \in Seq(Message) /\ received \in Seq(Message)
  BY SentType DEF TypeOK
<1>2. \A i \in 1..Len(Sent) : i \in 1..Len(Sent') /\ Sent'[i] = Sent[i]
  <2>1. CASE Sent' = Sent
    BY <2>1
  <2>2. CASE Sent' = Append(Sent, msg)
    BY <1>1, <2>2
  <2> QED
    BY <2>1, <2>2, OnlyGrows
<1>3. \A i \in 1..Len(log) : i \in 1..Len(log') /\ log'[i] = log[i]
  <2>1. CASE log' = log
    BY <2>1
  <2>2. ASSUME NEW kind \in Kinds, WriteLine(kind) PROVE \E m : log' = Append(log, m)
    BY <2>2 DEF WriteLine
  <2>3. ASSUME NEW m, log' = Append(log, m) PROVE \A i \in 1..Len(log) : i \in 1..Len(log') /\ log'[i] = log[i]
    BY <1>1, <2>3
  <2> QED
    BY <2>1, <2>2, <2>3, OnlyGrows
<1>4. \A i \in 1..Len(received) : i \in 1..Len(received') /\ received'[i] = received[i]
  <2>1. CASE received' = received
    BY <2>1
  <2>2. CASE received' = Append(received, Head(events))
    BY <1>1, <2>2
  <2> QED
    BY <2>1, <2>2, OnlyGrows DEF Receive
<1> QED
  BY <1>2, <1>3, <1>4

\* An approval that is settled remains so.
LEMMA SettledKept ==
    ASSUME TypeOK, ApprovalInv, [Next]_vars, NEW id, Settled(id)
    PROVE  Settled(id)'
<1>1. CASE [id |-> id, translated |-> TRUE] \in replies
  BY <1>1, OnlyGrows DEF Settled
<1>2. CASE \E i \in 1..Len(Sent) : Sent[i].kind = "resolved" /\ Sent[i].ref = id
  BY <1>2, SentStays DEF Settled, ResolvedSeen
<1>3. CASE msg.kind = "resolved" /\ msg.ref = id
  <2>1. CASE msg' = msg
    BY <1>3, <2>1 DEF Settled, ResolvedSeen
  <2>2. CASE ReadLine
    BY <1>3, <1>2, <2>2 DEF ReadLine, ApprovalInv, InHand, Ended
  <2> QED
    BY <2>1, <2>2, OnlyGrows
<1> QED
  BY <1>1, <1>2, <1>3 DEF Settled, ResolvedSeen

\* The answers keep to the requests they are for.
LEMMA RespondKept ==
    ASSUME TypeOK, StreamInv, ApprovalInv, RespondInv, [Next]_vars
    PROVE  RespondInv'
<1> USE DEF callVars, respVars, procVars, readVars, eventVars, shutVars
<1> DEFINE Asked(id) == \E i \in 1..Len(received) : received[i].kind = "approval" /\ received[i].seq = id
           UserOK(p) ==
              /\ respond[p].pc \in Answering => Asked(respond[p].id)
              /\ respond[p].pc \in Answering \ {"lookup"} /\ ~respond[p].tracked => Settled(respond[p].id)
              /\ respond[p].pc = "forget" =>
                    [id |-> respond[p].id, translated |-> respond[p].tracked] \in replies
           ReaderOK == respond[Reader].pc \in Answering => readPc = "clock" /\ respond[Reader].id = msg.seq
           ReplyOK(r) == r.id \in 1..Len(log) /\ (log[r.id].kind = "approval" /\ ~r.translated => Settled(r.id))
<1>1. (\A p \in Responders : UserOK(p)) /\ ReaderOK /\ \A r \in replies : ReplyOK(r)
  BY DEF RespondInv
<1>2. \A id : (Asked(id) => Asked(id)') /\ (Settled(id) => Settled(id)')
  BY SentStays, SettledKept
<1>3. \A r \in replies : ReplyOK(r)'
  <2>1. ASSUME NEW r \in replies PROVE r.id \in 1..Len(log') /\ log'[r.id] = log[r.id]
    BY <1>1, SentStays
  <2> QED
    BY <1>1, <1>2, <2>1
<1>4. ASSUME NEW p \in Responders, respond'[p] = respond[p] PROVE UserOK(p)'
  BY <1>1, <1>2, <1>4, OnlyGrows
<1>5. ASSUME UNCHANGED <<respond, replies>>, (readPc' = readPc /\ msg' = msg) \/ readPc # "clock"
      PROVE  RespondInv'
  <2>1. ReaderOK'
    BY <1>1, <1>5
  <2>2. \A p \in Responders : UserOK(p)'
    BY <1>4, <1>5
  <2> QED
    BY <1>3, <1>5, <2>1, <2>2 DEF RespondInv
<1>6. CASE \/ \E kind \in Kinds : WriteLine(kind)
           \/ ProcessExit \/ Close \/ UNCHANGED vars \/ Receive
           \/ \E c \in Calls : Register(c) \/ Cancel(c) \/ CallStep(c)
  BY <1>5, <1>6 DEF WriteLine, ProcessExit, Close, vars, Receive, Register, Cancel, CallStep, CheckDone, AwaitWrite, Write, StdinBroken,
     TakeAnswer, SeeDone, RemovePending
<1>7. CASE ShutdownStep
  BY <1>5, <1>7 DEF ShutdownStep, Reap, BeginShutdown, LockPending, Drain, UnlockPending, CloseEvents,
     ReaderReturns, WaiterReturns
<1>8. CASE EndOfOutput \/ TrackApproval \/ Emit \/ EmitDone \/ EmitOnClosed \/ Deliver \/ SendAnswer
  BY <1>5, <1>8 DEF EndOfOutput, TrackApproval, Emit, EmitDone, EmitOnClosed, Deliver, SendAnswer
<1>9. CASE ReadLine
  <2>1. UNCHANGED replies /\ readPc = "scan" /\ readPc' = NextPc(msg') /\ msg' = Head(out) /\ Head(out) \in Message
    BY <1>9 DEF ReadLine, TypeOK
  <2>2. CASE Head(out).kind = "clock"
    <3>1. respond' = [respond EXCEPT ![Reader] = [pc |-> "lookup", id |-> Head(out).seq, tracked |-> FALSE]]
      BY <1>9, <2>2 DEF ReadLine
    <3>2. \A p \in Responders : respond'[p] = respond[p]
      BY <3>1, ReaderAssumption DEF TypeOK
    <3>3. respond'[Reader].id = msg'.seq
      BY <2>1, <3>1 DEF TypeOK
    <3>4. readPc' = "clock"
      BY <2>1, <2>2 DEF NextPc, EventKinds
    <3> QED
      BY <1>3, <1>4, <2>1, <3>2, <3>3, <3>4 DEF RespondInv
  <2>3. CASE Head(out).kind # "clock"
    BY <1>5, <1>9, <2>1, <2>3 DEF ReadLine
  <2> QED
    BY <2>2, <2>3
<1>10. CASE ClockAnswered
  <2>1. UNCHANGED replies /\ respond' = [respond EXCEPT ![Reader].pc = "idle"]
    BY <1>10 DEF ClockAnswered, GoTo
  <2>2. respond'[Reader].pc = "idle" /\ \A p \in Responders : respond'[p] = respond[p]
    BY <2>1, ReaderAssumption DEF TypeOK
  <2> QED
    BY <1>3, <1>4, <2>1, <2>2 DEF RespondInv, Answering
<1>11. ASSUME NEW p \in Responders \cup {Reader}, (Decide(p) /\ p # Reader) \/ RejectDecision(p) \/ RespondStep(p)
       PROVE  RespondInv'
  <2>0. UNCHANGED <<readPc, msg, log>>
    BY <1>11 DEF Decide, RejectDecision, RespondStep, Lookup, CheckDoneRespond, AwaitWriteRespond, WriteRespond, StdinBroken, Forget, RespondFrame
  <2>1. \A q \in Responders \cup {Reader} : q # p => respond'[q] = respond[q]
    BY <1>11 DEF Decide, RejectDecision, RespondStep, Lookup, CheckDoneRespond, AwaitWriteRespond, WriteRespond, StdinBroken, Forget, GoTo, TypeOK
  <2>2. \A q \in Responders : q # p => UserOK(q)'
    BY <1>4, <2>1
  <2>3. p # Reader => ReaderOK'
    BY <1>1, <2>0, <2>1
  <2>4. ASSUME p \in Responders => UserOK(p)', p = Reader => ReaderOK', \A r \in replies' \ replies : ReplyOK(r)'
        PROVE  RespondInv'
    <3>1. \A r \in replies' : ReplyOK(r)'
      BY <1>3, <2>4
    <3>2. ReaderOK'
      BY <2>3, <2>4
    <3>3. \A q \in Responders : UserOK(q)'
      BY <2>2, <2>4
    <3> QED
      BY <3>1, <3>2, <3>3 DEF RespondInv
  <2>5. CASE Decide(p) /\ p # Reader
    <3>1. PICK i \in 1..Len(received) :
             /\ received[i].kind = "approval"
             /\ respond' = [respond EXCEPT ![p] = [pc |-> "lookup", id |-> received[i].seq, tracked |-> FALSE]]
      BY <2>5 DEF Decide
    <3>2. respond'[p] = [pc |-> "lookup", id |-> received[i].seq, tracked |-> FALSE]
      BY <3>1 DEF TypeOK
    <3>3. Asked(respond'[p].id)
      BY <3>1, <3>2
    <3>4. UserOK(p)' /\ UNCHANGED replies
      BY <1>2, <2>5, <3>2, <3>3 DEF Decide
    <3> QED
      BY <2>4, <2>5, <3>4
  <2>6. CASE RejectDecision(p) \/ CheckDoneRespond(p) \/ AwaitWriteRespond(p)
    <3>1. /\ respond[p].pc \in {"check", "write"} /\ respond'[p].pc \in {"failed", "write", "encode"}
          /\ respond'[p].id = respond[p].id /\ respond'[p].tracked = respond[p].tracked
          /\ UNCHANGED replies
      BY <2>6 DEF RejectDecision, CheckDoneRespond, AwaitWriteRespond, GoTo, TypeOK
    <3>2. p \in Responders => UserOK(p)'
      BY <1>1, <1>2, <3>1 DEF Answering
    <3>3. p = Reader => ReaderOK'
      BY <1>1, <2>0, <3>1 DEF Answering
    <3> QED
      BY <2>4, <3>1, <3>2, <3>3
  <2>7. CASE Lookup(p)
    <3>1. /\ respond[p].pc = "lookup" /\ respond'[p].pc = "check" /\ UNCHANGED replies
          /\ respond'[p].id = respond[p].id /\ respond'[p].tracked = (respond[p].id \in approvals)
      BY <2>7 DEF Lookup, TypeOK
    <3>2. ASSUME p \in Responders PROVE UserOK(p)'
      <4>1. Asked(respond[p].id)
        BY <1>1, <3>1, <3>2 DEF Answering
      <4>2. respond[p].id \in approvals \/ Settled(respond[p].id)
        BY <4>1, SentType DEF ApprovalInv
      <4> QED
        BY <1>2, <3>1, <4>1, <4>2
    <3>3. p = Reader => ReaderOK'
      BY <1>1, <2>0, <3>1 DEF Answering
    <3> QED
      BY <2>4, <3>1, <3>2, <3>3
  <2>8. CASE WriteRespond(p)
    <3>0. PICK r : r = [id |-> respond[p].id, translated |-> respond[p].tracked]
      OBVIOUS
    <3>1. /\ respond[p].pc = "encode" /\ respond'[p].pc \in {"forget", "failed"}
          /\ respond'[p].id = respond[p].id /\ respond'[p].tracked = respond[p].tracked
          /\ replies' \subseteq replies \cup {r} /\ (respond'[p].pc = "forget" => r \in replies')
      BY <2>8, <3>0 DEF WriteRespond, GoTo, TypeOK
    <3>2. p \in Responders => UserOK(p)'
      BY <1>1, <1>2, <3>0, <3>1 DEF Answering
    <3>3. p = Reader => ReaderOK'
      BY <1>1, <2>0, <3>1 DEF Answering
    <3>4. ReplyOK(r)'
      <4>1. CASE p = Reader
        <5>1. readPc = "clock" /\ respond[p].id = msg.seq /\ msg.kind = "clock"
          BY <1>1, <3>1, <4>1 DEF Answering, ApprovalInv
        <5>2. PICK n \in 0..Len(log) : StreamAt(n)
          BY DEF StreamInv
        <5>3. n \in 1..Len(log) /\ msg = log[n] /\ msg.seq = n
          BY <5>1, <5>2 DEF StreamAt, StreamInv, OrderInv
        <5> QED
          BY <2>0, <3>0, <5>1, <5>3
      <4>2. CASE p # Reader
        <5>1. p \in Responders /\ Asked(respond[p].id) /\ (~respond[p].tracked => Settled(respond[p].id))
          BY <1>1, <3>1, <4>2 DEF Answering
        <5>2. respond[p].id \in 1..Len(log)
          BY <5>1, SentType DEF StreamInv, OrderInv
        <5> QED
          BY <1>2, <2>0, <3>0, <5>1, <5>2
      <4> QED
        BY <4>1, <4>2
    <3> QED
      BY <2>4, <3>1, <3>2, <3>3, <3>4
  <2>9. CASE Forget(p)
    <3>1. respond'[p].pc = "sent" /\ UNCHANGED replies
      BY <2>9 DEF Forget, GoTo, TypeOK
    <3> QED
      BY <2>4, <3>1 DEF Answering
  <2> QED
    BY <1>11, <2>5, <2>6, <2>7, <2>8, <2>9 DEF RespondStep
<1> QED
  BY <1>6, <1>7, <1>8, <1>9, <1>10, <1>11, ReaderAssumption DEF Next, ReadStep

\* The request is on record before any device can see it, and leaves the record only
\* with a translated answer or with codex's own resolution.
LEMMA ApprovalKept ==
    ASSUME TypeOK, StreamInv, ApprovalInv, RespondInv, [Next]_vars
    PROVE  ApprovalInv'
<1> USE DEF callVars, respVars, procVars, readVars, eventVars, shutVars
<1> DEFINE OnRecord(id) == id \in approvals \/ Settled(id)
           ResolvedInSent == \E i \in 1..Len(Sent) : Sent[i] = msg
<1>1. \A id : Settled(id) => Settled(id)'
  BY SettledKept
<1>2. ASSUME UNCHANGED <<readPc, msg, Sent>>, \A id : OnRecord(id) /\ id \in approvals \ approvals' /\ 
               ((\E i \in 1..Len(Sent) : Sent[i].kind = "approval" /\ Sent[i].seq = id) \/ readPc = "emit") => Settled(id)'
      PROVE  ApprovalInv'
  BY <1>1, <1>2 DEF ApprovalInv, InHand, Ended
<1>3. ASSUME UNCHANGED <<readPc, msg, Sent, approvals>> PROVE ApprovalInv'
  BY <1>2, <1>3
<1>4. CASE \/ \E kind \in Kinds : WriteLine(kind)
           \/ ProcessExit \/ Close \/ UNCHANGED vars
           \/ \E c \in Calls : Register(c) \/ Cancel(c) \/ CallStep(c)
  BY <1>3, <1>4 DEF WriteLine, ProcessExit, Close, vars, Register, Cancel, CallStep, CheckDone, AwaitWrite, Write, StdinBroken,
     TakeAnswer, SeeDone, RemovePending, Sent
<1>5. CASE Receive
  BY <1>3, <1>5, SentReceive DEF Receive
<1>6. CASE \/ \E p \in Responders : Decide(p) \/ RejectDecision(p)
           \/ \E p \in Responders \cup {Reader} : Lookup(p) \/ CheckDoneRespond(p) \/ AwaitWriteRespond(p) \/ WriteRespond(p)
  BY <1>3, <1>6 DEF Decide, RejectDecision, Lookup, CheckDoneRespond, AwaitWriteRespond, WriteRespond, StdinBroken, RespondFrame, Sent
<1>7. ASSUME NEW p \in Responders \cup {Reader}, Forget(p) PROVE ApprovalInv'
  <2>1. /\ respond[p].pc = "forget" /\ approvals' = approvals \ {respond[p].id}
        /\ UNCHANGED <<readPc, msg, Sent, replies>>
    BY <1>7 DEF Forget, RespondFrame, Sent
  <2>2. CASE p = Reader
    <3>1. readPc = "clock" /\ msg.kind = "clock" /\ respond[p].id = msg.seq
      BY <2>1, <2>2 DEF RespondInv, Answering, ApprovalInv
    <3>2. PICK n \in 0..Len(log) : StreamAt(n)
      BY DEF StreamInv
    <3>3. n \in 1..Len(log) /\ msg = log[n] /\ msg.seq = n
      BY <3>1, <3>2 DEF StreamAt, StreamInv, OrderInv
    <3>4. \A i \in 1..Len(Sent) : Sent[i].kind = "approval" => Sent[i].seq # respond[p].id
      BY <3>1, <3>3 DEF StreamInv, OrderInv
    <3> QED
      BY <1>2, <2>1, <3>1, <3>4
  <2>3. CASE p # Reader
    <3>1. Settled(respond[p].id)
      BY <2>1, <2>3 DEF RespondInv, Answering, Settled, TypeOK
    <3> QED
      BY <1>1, <1>2, <2>1, <3>1
  <2> QED
    BY <2>2, <2>3
<1>8. CASE ShutdownStep
  <2>1. CASE ReaderReturns
    BY <1>1, <2>1 DEF ReaderReturns, ApprovalInv, InHand, Ended, Sent
  <2>2. CASE ~ReaderReturns
    <3>1. UNCHANGED <<readPc, msg, Sent, approvals>>
      BY <1>8, <2>2 DEF ShutdownStep, Reap, BeginShutdown, LockPending, Drain, UnlockPending, CloseEvents,
         WaiterReturns, Sent
    <3> QED
      BY <1>3, <3>1
  <2> QED
    BY <2>1, <2>2
<1>9. CASE ReadLine
  <2>1. /\ readPc = "scan" /\ readPc' = NextPc(msg') /\ UNCHANGED <<Sent, approvals>>
        /\ msg' \in Message
    BY <1>9 DEF ReadLine, Sent, TypeOK
  <2>2. /\ readPc' # "emit" /\ (msg'.kind = "resolved" => readPc' = "track")
        /\ readPc' = "clock" => msg'.kind = "clock"
    BY <2>1 DEF NextPc, Message, AllKinds, EventKinds
  <2> QED
    BY <1>1, <2>1, <2>2 DEF ApprovalInv, InHand
<1>10. CASE TrackApproval
  <2>1. readPc' = "emit" /\ UNCHANGED <<msg, Sent>>
    BY <1>10 DEF TrackApproval, Sent
  <2>2. \A id \in approvals \ approvals' : Settled(id)'
    BY <1>10, <2>1 DEF TrackApproval, Settled, ResolvedSeen
  <2>3. msg.kind = "approval" => msg.seq \in approvals'
    BY <1>10 DEF TrackApproval
  <2> QED
    BY <1>1, <2>1, <2>2, <2>3 DEF ApprovalInv, InHand
<1>11. CASE Emit
  <2>1. /\ Sent' = Append(Sent, msg) /\ readPc = "emit" /\ readPc' = "scan" /\ UNCHANGED <<msg, approvals>>
    BY <1>11, StreamEmitted DEF Emit
  <2>2. /\ Len(Sent') = Len(Sent) + 1 /\ Sent'[Len(Sent) + 1] = msg /\ Len(Sent) \in Nat
        /\ \A i \in 1..Len(Sent) : Sent'[i] = Sent[i]
    BY <2>1, SentType DEF TypeOK
  <2>3. ASSUME NEW i \in 1..Len(Sent'), Sent'[i].kind = "approval"
        PROVE  Sent'[i].seq \in approvals \/ Settled(Sent'[i].seq)
    <3>1. CASE i \in 1..Len(Sent)
      BY <2>2, <2>3, <3>1 DEF ApprovalInv
    <3>2. CASE i = Len(Sent) + 1
      BY <2>1, <2>2, <2>3, <3>2 DEF ApprovalInv
    <3> QED
      BY <2>2, <3>1, <3>2
  <2>4. \E i \in 1..Len(Sent') : Sent'[i] = msg
    BY <2>2
  <2> QED
    BY <1>1, <2>1, <2>3, <2>4 DEF ApprovalInv
<1>12. CASE EndOfOutput \/ EmitDone \/ EmitOnClosed \/ Deliver \/ SendAnswer \/ ClockAnswered
  <2>1. UNCHANGED <<msg, Sent, approvals>> /\ readPc' \notin {"emit", "clock"}
    BY <1>12 DEF EndOfOutput, EmitDone, EmitOnClosed, Deliver, SendAnswer, ClockAnswered, Sent
  <2>2. InHand \/ Ended => InHand' \/ Ended'
    <3>1. CASE EmitDone \/ EmitOnClosed
      BY <3>1 DEF EmitDone, EmitOnClosed, InHand, Ended
    <3>2. CASE EndOfOutput \/ Deliver \/ SendAnswer \/ ClockAnswered
      BY <3>2 DEF EndOfOutput, Deliver, SendAnswer, ClockAnswered, InHand, Ended
    <3> QED
      BY <1>12, <3>1, <3>2
  <2> QED
    BY <1>1, <2>1, <2>2 DEF ApprovalInv
<1> QED
  BY <1>4, <1>5, <1>6, <1>7, <1>8, <1>9, <1>10, <1>11, <1>12 DEF Next, ReadStep, RespondStep

LEMMA AnswersAreTranslated ==
    ASSUME TypeOK, StreamInv, RespondInv PROVE FirstReplyTranslated
<1> SUFFICES ASSUME NEW r \in replies, ~r.translated, NEW i \in 1..Len(received),
                    received[i].kind = "approval", received[i].seq = r.id
             PROVE  Settled(r.id)
  BY DEF FirstReplyTranslated, Settled
<1>1. i \in 1..Len(Sent) /\ Sent[i] = received[i]
  BY SentType
<1>2. log[r.id].kind = "approval"
  BY <1>1 DEF StreamInv, OrderInv
<1> QED
  BY <1>2 DEF RespondInv

-----------------------------------------------------------------------------
(* The theorems about events and answers *)

LEMMA AnswersInitially == Init => ApprovalInv /\ RespondInv
<1> SUFFICES ASSUME Init PROVE ApprovalInv /\ RespondInv
  OBVIOUS
<1>1. Len(Sent) = 0 /\ Len(received) = 0
  BY DEF Init, Sent
<1>2. msg.kind = "note" /\ readPc = "scan" /\ replies = {}
  BY DEF Init, NoMessage
<1>3. \A p \in Responders \cup {Reader} : respond[p].pc = "idle"
  BY DEF Init
<1>4. ApprovalInv
  BY <1>1, <1>2 DEF ApprovalInv
<1> QED
  BY <1>1, <1>2, <1>3, <1>4 DEF RespondInv, Answering

LEMMA AnswersInvariance == Spec => [](IInv /\ StreamInv /\ ApprovalInv /\ RespondInv)
<1>1. Init => IInv /\ StreamInv /\ ApprovalInv /\ RespondInv
  BY InitType, InitInv, StreamInitially, AnswersInitially DEF IInv
<1>2. IInv /\ StreamInv /\ ApprovalInv /\ RespondInv /\ [Next]_vars
        => (IInv /\ StreamInv /\ ApprovalInv /\ RespondInv)'
  <2> SUFFICES ASSUME IInv, StreamInv, ApprovalInv, RespondInv, [Next]_vars
               PROVE  IInv' /\ StreamInv' /\ ApprovalInv' /\ RespondInv'
    OBVIOUS
  <2>1. TypeOK /\ ShutInv
    BY DEF IInv
  <2>2. TypeOK'
    BY <2>1, NextType
  <2> QED
    BY <2>1, <2>2, NextInv, StreamStep, ApprovalKept, RespondKept
<1> QED
  BY <1>1, <1>2, PTL DEF Spec

\* The reader of Events() gets what codex wrote: every line an event of the log, in
\* the order of the log, none twice, none left out before one that was sent; and until
\* the end of the session every event of the log has been sent or is about to be.
THEOREM EventsArriveIntact == Spec => []EventStreamIntact
<1>1. IInv /\ StreamInv => EventStreamIntact
  BY StreamIsIntact DEF IInv
<1> QED
  BY <1>1, AnswersInvariance, PTL

\* An answer to an approval that a device was shown goes out translated, unless a
\* translated one went out before it or codex had resolved the request: trackApproval
\* comes before emit, and the request leaves the record only after such an answer.
THEOREM FirstAnswerIsTranslated == Spec => []FirstReplyTranslated
<1>1. IInv /\ StreamInv /\ RespondInv => FirstReplyTranslated
  BY AnswersAreTranslated DEF IInv
<1> QED
  BY <1>1, AnswersInvariance, PTL

-----------------------------------------------------------------------------
(* A panic of readLoop *)

\* The send on the closed `events` that NoSendOnClosedEvents shows is confined to the end
\* of codex: as long as the process lives only readLoop can have begun the shutdown that
\* closes the channel, and then it sends no more.
NoPanicWhileAlive == alive => readPc # "panic"

EndingInv ==
    /\ waiter # "wait" => ~alive
    /\ shutPc # "open" => readPc \in {"shutdown", "exited"} \/ ~alive
    /\ eventsClosed => shutPc # "open"
    /\ NoPanicWhileAlive

LEMMA EndingStep == TypeOK /\ ShutInv /\ EndingInv /\ [Next]_vars => EndingInv'
<1> SUFFICES ASSUME TypeOK, ShutInv, EndingInv, [Next]_vars PROVE EndingInv'
  OBVIOUS
<1> USE DEF EndingInv, NoPanicWhileAlive, callVars, respVars, procVars, readVars, eventVars, shutVars
<1>1. ASSUME UNCHANGED <<waiter, shutPc, eventsClosed, alive>>,
             readPc' = readPc \/ (readPc \notin {"shutdown", "exited", "panic"} /\ readPc' # "panic")
      PROVE  EndingInv'
  BY <1>1
<1>2. CASE \/ \E kind \in Kinds : WriteLine(kind)
           \/ Close \/ Receive \/ UNCHANGED vars
           \/ \E c \in Calls : Register(c) \/ Cancel(c) \/ CallStep(c)
  BY <1>1, <1>2 DEF WriteLine, Close, Receive, vars, Register, Cancel, CallStep, CheckDone, AwaitWrite, Write, StdinBroken,
     TakeAnswer, SeeDone, RemovePending
<1>3. CASE ProcessExit
  BY <1>3 DEF ProcessExit
<1>4. CASE \/ \E p \in Responders : Decide(p) \/ RejectDecision(p)
           \/ \E p \in Responders \cup {Reader} : RespondStep(p)
  <2>1. ASSUME NEW p \in Responders, Decide(p) \/ RejectDecision(p) PROVE EndingInv'
    BY <1>1, <2>1 DEF Decide, RejectDecision, RespondFrame
  <2>2. ASSUME NEW p \in Responders \cup {Reader}, RespondStep(p) PROVE EndingInv'
    <3>1. UNCHANGED <<readPc, waiter, shutPc, eventsClosed, alive>>
      BY <2>2 DEF RespondStep, Lookup, CheckDoneRespond, AwaitWriteRespond, WriteRespond, StdinBroken, Forget, RespondFrame
    <3> QED
      BY <1>1, <3>1
  <2> QED
    BY <1>4, <2>1, <2>2
<1>5. CASE ReadLine
  <2>1. NextPc(Head(out)) # "panic"
    <3>1. Head(out) \in Message
      BY <1>5 DEF ReadLine, TypeOK
    <3> QED
      BY <3>1 DEF NextPc, Message, AllKinds, EventKinds
  <2> QED
    BY <1>1, <1>5, <2>1 DEF ReadLine
<1>6. CASE EndOfOutput \/ TrackApproval \/ Emit \/ Deliver \/ SendAnswer \/ ClockAnswered
  BY <1>1, <1>6 DEF EndOfOutput, TrackApproval, Emit, Deliver, SendAnswer, ClockAnswered
<1>7. CASE EmitDone
  BY <1>7 DEF EmitDone
<1>8. CASE EmitOnClosed
  BY <1>8 DEF EmitOnClosed
<1>9. CASE Reap \/ BeginShutdown
  BY <1>9 DEF Reap, BeginShutdown
<1>10. CASE LockPending \/ (\E c \in Calls : Drain(c)) \/ UnlockPending \/ CloseEvents
  BY <1>10 DEF LockPending, Drain, UnlockPending, CloseEvents
<1>11. CASE ReaderReturns \/ WaiterReturns
  BY <1>11 DEF ReaderReturns, WaiterReturns
<1> QED
  BY <1>2, <1>3, <1>4, <1>5, <1>6, <1>7, <1>8, <1>9, <1>10, <1>11 DEF Next, ReadStep, ShutdownStep

\* The panic can end the program only after the codex process has ended.
THEOREM PanicNeedsDeadProcess == Spec => []NoPanicWhileAlive
<1>1. Init => EndingInv
  BY DEF Init, EndingInv, NoPanicWhileAlive
<1>2. IInv => TypeOK /\ ShutInv
  BY DEF IInv
<1>3. EndingInv => NoPanicWhileAlive
  BY DEF EndingInv
<1> QED
  BY Invariance, EndingStep, <1>1, <1>2, <1>3, PTL DEF Spec

=============================================================================
