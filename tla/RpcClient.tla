------------------------------ MODULE RpcClient ------------------------------
(***************************************************************************)
(* The JSON-RPC client over the stdin and stdout of one codex process      *)
(* (internal/appserver/client.go and approvals.go).  Its goroutines are    *)
(*                                                                         *)
(*   - the callers of Call, one per member of Calls (an id is used once);  *)
(*   - the callers of Respond, one per member of Responders, and readLoop  *)
(*     itself, which answers currentTime/read through Respond;             *)
(*   - readLoop, which decodes stdout and feeds `pending` and `events`;    *)
(*   - the waiter that Start leaves behind: shutdown(command.Wait());      *)
(*   - whoever reads `events` (Manager.watch), and whoever calls Close.    *)
(*                                                                         *)
(* One step is a stretch of code between two points where another          *)
(* goroutine can be seen: a channel operation, a critical section of       *)
(* pendingMu, the check of `done`, a write.  A send on a channel and a     *)
(* write to the process may block: those are guards.                       *)
(***************************************************************************)
EXTENDS Naturals, Sequences

CONSTANTS
    Calls,       \* the ids nextID hands out, one per Call
    Responders,  \* the goroutines that call Respond for a user's decision
    EventCap,    \* capacity of `events` (64 in New)
    Kinds,       \* the kinds of line the process writes in an instance
    MaxOut       \* bound: lines the process writes

Reader == "reader"

\* The kinds of line readLoop tells apart.
EventKinds == {"note", "approval", "resolved"}
AllKinds == EventKinds \cup {"answer", "clock", "bad"}

ASSUME CapAssumption == EventCap \in Nat \ {0}
ASSUME OutAssumption == MaxOut \in Nat
ASSUME KindsAssumption == Kinds \subseteq AllKinds
ASSUME ReaderAssumption == Reader \notin Responders

VARIABLES
    callPc, pending, slot,          \* Call: control, c.pending, its channel
    approvals, respond, replies,    \* c.approvals, Respond's control, answers
    alive, closed, asked, log, out, \* the process and its pipes
    writeMu,                        \* c.writeMu
    readPc, msg,                    \* readLoop: control, `incoming`
    events, eventsClosed, received, \* c.events and what its reader has taken
    done, shutPc, pendingMu, waiter \* shutdown and the goroutine in Wait

callVars == <<callPc, pending, slot>>
respVars == <<approvals, respond, replies>>
procVars == <<alive, closed, asked, log, out, writeMu>>
readVars == <<readPc, msg>>
eventVars == <<events, eventsClosed, received>>
shutVars == <<done, shutPc, pendingMu, waiter>>
vars == <<callVars, respVars, procVars, readVars, eventVars, shutVars>>

-----------------------------------------------------------------------------
(* Types *)

\* A line of stdout: `seq` is its position, `ref` the id it echoes (an answer)
\* or the request it ends (serverRequest/resolved), 0 for the others.
Message == [kind : AllKinds, seq : Nat, ref : Calls \cup Nat]
NoMessage == [kind |-> "note", seq |-> 0, ref |-> 0]

CallPcs == {"idle", "check", "write", "encode", "wait", "abandon", "returned"}
RespondPcs ==
    {"idle", "lookup", "check", "write", "encode", "forget", "sent", "failed"}
ReadPcs == {"scan", "emit", "track", "deliver", "answer", "clock", "shutdown", "exited", "panic"}
ShutPcs == {"open", "lock", "drain", "close", "finished"}

TypeOK ==
    /\ callPc \in [Calls -> CallPcs]
    /\ pending \subseteq Calls
    /\ slot \in [Calls -> {"empty", "answer", "closed"}]
    /\ approvals \subseteq Nat
    /\ respond \in [Responders \cup {Reader} ->
                        [pc : RespondPcs, id : Nat, tracked : BOOLEAN]]
    /\ replies \subseteq [id : Nat, translated : BOOLEAN]
    /\ alive \in BOOLEAN /\ closed \in BOOLEAN
    /\ asked \subseteq Calls
    /\ log \in Seq(Message) /\ out \in Seq(Message)
    /\ writeMu \in {"free", "held"}
    /\ readPc \in ReadPcs /\ msg \in Message
    /\ events \in Seq(Message) /\ Len(events) <= EventCap
    /\ received \in Seq(Message)
    /\ eventsClosed \in BOOLEAN
    /\ done \in BOOLEAN /\ shutPc \in ShutPcs
    /\ pendingMu \in {"free", "drain"}
    /\ waiter \in {"wait", "shutdown", "exited"}

Init ==
    /\ callPc = [c \in Calls |-> "idle"]
    /\ pending = {}
    /\ slot = [c \in Calls |-> "empty"]
    /\ approvals = {}
    /\ respond = [p \in Responders \cup {Reader} |->
                     [pc |-> "idle", id |-> 0, tracked |-> FALSE]]
    /\ replies = {}
    /\ alive = TRUE /\ closed = FALSE
    /\ asked = {}
    /\ log = <<>> /\ out = <<>> /\ writeMu = "free"
    /\ readPc = "scan" /\ msg = NoMessage
    /\ events = <<>> /\ eventsClosed = FALSE /\ received = <<>>
    /\ done = FALSE /\ shutPc = "open" /\ pendingMu = "free"
    /\ waiter = "wait"

-----------------------------------------------------------------------------
(* The process: writes lines, answers what it was asked, exits at any time *)

IsEvent(m) == m.kind \in EventKinds

\* What a line of each kind may refer to.  An answer may come twice; a
\* resolved request is one the process has made before.
Refs(kind) ==
    CASE kind = "answer"   -> asked
      [] kind = "resolved" -> {i \in 1..Len(log) : log[i].kind = "approval"}
      [] OTHER             -> {0}

WriteLine(kind) ==
    /\ alive /\ ~closed
    /\ Len(log) < MaxOut
    /\ \E r \in Refs(kind) :
          LET m == [kind |-> kind, seq |-> Len(log) + 1, ref |-> r]
          IN  log' = Append(log, m) /\ out' = Append(out, m)
    /\ UNCHANGED <<alive, closed, asked, writeMu, callVars, respVars, readVars, eventVars, shutVars>>

ProcessExit ==
    /\ alive
    /\ alive' = FALSE
    /\ UNCHANGED <<closed, asked, log, out, writeMu, callVars, respVars, readVars, eventVars, shutVars>>

\* What readLoop can still read once the read end of stdout is closed: the
\* lines its scanner had already buffered.
Buffered(s) == {SubSeq(s, 1, k) : k \in 0..Len(s)}

\* Close: cancels the process context (the kill follows) and closes both pipes.
Close ==
    /\ ~closed
    /\ closed' = TRUE
    /\ out' \in Buffered(out)
    /\ UNCHANGED <<alive, asked, log, writeMu, callVars, respVars, readVars, eventVars, shutVars>>

-----------------------------------------------------------------------------
(* Plausible bugs: each stands in for the operator named in its comment when a *)
(* property's sensitivity is checked, and is used nowhere else.                *)

\* Cancel that forgets removePending.
CancelKeepsEntry(c) ==
    /\ callPc[c] = "wait"
    /\ callPc' = [callPc EXCEPT ![c] = "returned"]
    /\ UNCHANGED <<pending, slot, respVars, procVars, readVars, eventVars, shutVars>>

\* Lookup that takes the request off the record before it is answered.
LookupForgets(p) ==
    /\ respond[p].pc = "lookup"
    /\ pendingMu = "free"
    /\ respond' = [respond EXCEPT ![p].pc = "check",
                                  ![p].tracked = respond[p].id \in approvals]
    /\ approvals' = approvals \ {respond[p].id}
    /\ UNCHANGED <<replies, procVars, callVars, readVars, eventVars, shutVars>>

\* Emit that drops the line when the channel is full.
EmitOrDrop ==
    /\ readPc = "emit"
    /\ ~eventsClosed
    /\ events' = IF Len(events) < EventCap THEN Append(events, msg) ELSE events
    /\ readPc' = "scan"
    /\ UNCHANGED <<msg, eventsClosed, received, callVars, respVars, procVars, shutVars>>

\* Deliver that leaves the entry in `pending`.
DeliverKeepsEntry ==
    /\ readPc = "deliver"
    /\ pendingMu = "free"
    /\ readPc' = IF msg.ref \in pending THEN "answer" ELSE "scan"
    /\ UNCHANGED <<msg, callVars, respVars, procVars, eventVars, shutVars>>

\* BeginShutdown that does not close c.done.
BeginShutdownSilently ==
    /\ shutPc = "open"
    /\ readPc = "shutdown" \/ waiter = "shutdown"
    /\ shutPc' = "lock"
    /\ UNCHANGED <<done, pendingMu, waiter, callVars, respVars, procVars, readVars, eventVars>>

-----------------------------------------------------------------------------
(* Call *)

\* Lines 129-133: a fresh id, its channel, the entry in `pending`.
Register(c) ==
    /\ callPc[c] = "idle"
    /\ pendingMu = "free"
    /\ pending' = pending \cup {c}
    /\ callPc' = [callPc EXCEPT ![c] = "check"]
    /\ UNCHANGED <<slot, respVars, procVars, readVars, eventVars, shutVars>>

\* send: the check of `done` before the write.
CheckDone(c) ==
    /\ callPc[c] = "check"
    /\ callPc' = [callPc EXCEPT ![c] = IF done THEN "abandon" ELSE "write"]
    /\ UNCHANGED <<pending, slot, respVars, procVars, readVars, eventVars, shutVars>>

\* send: writeMu.Lock.
AwaitWrite(c) ==
    /\ callPc[c] = "write"
    /\ writeMu = "free"
    /\ writeMu' = "held"
    /\ callPc' = [callPc EXCEPT ![c] = "encode"]
    /\ UNCHANGED <<pending, slot, alive, closed, asked, log, out>>
    /\ UNCHANGED <<respVars, readVars, eventVars, shutVars>>

\* stdin takes nothing more: the process has gone, or Close has closed the pipe.
StdinBroken == ~alive \/ closed

\* send: Encode and Unlock.  While the process lives and the pipe is open nobody
\* knows when, or whether, the write ends: it blocks on a full stdin, and heeds
\* neither the context nor `done`.  A broken pipe is an error.
Write(c) ==
    /\ callPc[c] = "encode"
    /\ writeMu' = "free"
    /\ IF StdinBroken
       THEN /\ callPc' = [callPc EXCEPT ![c] = "abandon"]
            /\ UNCHANGED asked
       ELSE /\ asked' = asked \cup {c}
            /\ callPc' = [callPc EXCEPT ![c] = "wait"]
    /\ UNCHANGED <<pending, slot, alive, closed, log, out, respVars, readVars, eventVars, shutVars>>

\* The three branches of the select: the channel, ctx.Done, c.done.
TakeAnswer(c) ==
    /\ callPc[c] = "wait"
    /\ slot[c] # "empty"
    /\ slot' = [slot EXCEPT ![c] = "empty"]
    /\ callPc' = [callPc EXCEPT ![c] = "returned"]
    /\ UNCHANGED <<pending, respVars, procVars, readVars, eventVars, shutVars>>

Cancel(c) ==
    /\ callPc[c] = "wait"
    /\ callPc' = [callPc EXCEPT ![c] = "abandon"]
    /\ UNCHANGED <<pending, slot, respVars, procVars, readVars, eventVars, shutVars>>

SeeDone(c) ==
    /\ callPc[c] = "wait"
    /\ done
    /\ callPc' = [callPc EXCEPT ![c] = "returned"]
    /\ UNCHANGED <<pending, slot, respVars, procVars, readVars, eventVars, shutVars>>

RemovePending(c) ==
    /\ callPc[c] = "abandon"
    /\ pendingMu = "free"
    /\ pending' = pending \ {c}
    /\ callPc' = [callPc EXCEPT ![c] = "returned"]
    /\ UNCHANGED <<slot, respVars, procVars, readVars, eventVars, shutVars>>

CallStep(c) ==
    \/ CheckDone(c) \/ AwaitWrite(c) \/ Write(c)
    \/ TakeAnswer(c) \/ SeeDone(c) \/ RemovePending(c)

-----------------------------------------------------------------------------
(* Respond: a user's decision, and readLoop's own answer to currentTime/read *)

RespondFrame == UNCHANGED <<callVars, readVars, eventVars, shutVars>>

GoTo(p, pc) == respond' = [respond EXCEPT ![p].pc = pc]

\* A user answers an approval some device has been shown.
Decide(p) ==
    /\ p # Reader
    /\ respond[p].pc = "idle"
    /\ \E i \in 1..Len(received) :
          /\ received[i].kind = "approval"
          /\ respond' = [respond EXCEPT ![p] =
                            [pc |-> "lookup", id |-> received[i].seq, tracked |-> FALSE]]
    /\ UNCHANGED <<approvals, replies, procVars>> /\ RespondFrame

Lookup(p) ==
    /\ respond[p].pc = "lookup"
    /\ pendingMu = "free"
    /\ respond' = [respond EXCEPT ![p].pc = "check",
                                  ![p].tracked = respond[p].id \in approvals]
    /\ UNCHANGED <<approvals, replies, procVars>> /\ RespondFrame

\* approvalResult refuses a decision it cannot translate.
RejectDecision(p) ==
    /\ respond[p].pc = "check" /\ respond[p].tracked
    /\ GoTo(p, "failed")
    /\ UNCHANGED <<approvals, replies, procVars>> /\ RespondFrame

CheckDoneRespond(p) ==
    /\ respond[p].pc = "check"
    /\ GoTo(p, IF done THEN "failed" ELSE "write")
    /\ UNCHANGED <<approvals, replies, procVars>> /\ RespondFrame

AwaitWriteRespond(p) ==
    /\ respond[p].pc = "write"
    /\ writeMu = "free"
    /\ writeMu' = "held"
    /\ GoTo(p, "encode")
    /\ UNCHANGED <<approvals, replies, alive, closed, asked, log, out>> /\ RespondFrame

\* Encode and Unlock, as in Write: readLoop too waits here for a full stdin.
\* The result goes out translated exactly if the lookup found the request.
WriteRespond(p) ==
    /\ respond[p].pc = "encode"
    /\ writeMu' = "free"
    /\ IF StdinBroken
       THEN GoTo(p, "failed") /\ UNCHANGED replies
       ELSE /\ replies' = replies \cup
                   {[id |-> respond[p].id, translated |-> respond[p].tracked]}
            /\ GoTo(p, "forget")
    /\ UNCHANGED <<approvals, alive, closed, asked, log, out>> /\ RespondFrame

Forget(p) ==
    /\ respond[p].pc = "forget"
    /\ pendingMu = "free"
    /\ approvals' = approvals \ {respond[p].id}
    /\ GoTo(p, "sent")
    /\ UNCHANGED <<replies, procVars>> /\ RespondFrame

RespondStep(p) ==
    \/ Lookup(p) \/ CheckDoneRespond(p)
    \/ AwaitWriteRespond(p) \/ WriteRespond(p) \/ Forget(p)

-----------------------------------------------------------------------------
(* readLoop *)

NextPc(m) ==
    CASE m.kind \in EventKinds -> "track"
      [] m.kind = "answer"     -> "deliver"
      [] m.kind = "clock"      -> "clock"
      [] m.kind = "bad"        -> "shutdown"

ReadLine ==
    /\ readPc = "scan"
    /\ out # <<>>
    /\ msg' = Head(out)
    /\ out' = Tail(out)
    /\ readPc' = NextPc(Head(out))
    /\ IF Head(out).kind = "clock"
       THEN respond' = [respond EXCEPT ![Reader] =
                           [pc |-> "lookup", id |-> Head(out).seq, tracked |-> FALSE]]
       ELSE UNCHANGED respond
    /\ UNCHANGED <<approvals, replies, alive, closed, asked, log, writeMu>>
    /\ UNCHANGED <<callVars, eventVars, shutVars>>

\* Scan returns false: the writer has gone, or the read end was closed.
EndOfOutput ==
    /\ readPc = "scan"
    /\ out = <<>>
    /\ ~alive \/ closed
    /\ readPc' = "shutdown"
    /\ UNCHANGED <<msg, callVars, respVars, procVars, eventVars, shutVars>>

TrackApproval ==
    /\ readPc = "track"
    /\ pendingMu = "free"
    /\ approvals' = CASE msg.kind = "approval" -> approvals \cup {msg.seq}
                      [] msg.kind = "resolved" -> approvals \ {msg.ref}
                      [] OTHER                 -> approvals
    /\ readPc' = "emit"
    /\ UNCHANGED <<msg, respond, replies, callVars, procVars, eventVars, shutVars>>

\* The select on c.events and c.done.  A send case on a closed channel is
\* ready like any other, and choosing it is a run-time panic.
\* Until the runtime has printed the panic and exited, other goroutines still run.
Emit ==
    /\ readPc = "emit"
    /\ ~eventsClosed
    /\ Len(events) < EventCap
    /\ events' = Append(events, msg)
    /\ readPc' = "scan"
    /\ UNCHANGED <<msg, eventsClosed, received, callVars, respVars, procVars, shutVars>>

EmitDone ==
    /\ readPc = "emit"
    /\ done
    /\ readPc' = "exited"
    /\ UNCHANGED <<msg, callVars, respVars, procVars, eventVars, shutVars>>

EmitOnClosed ==
    /\ readPc = "emit"
    /\ eventsClosed
    /\ readPc' = "panic"
    /\ UNCHANGED <<msg, callVars, respVars, procVars, eventVars, shutVars>>

\* deliver: the entry leaves `pending` under the lock, the send comes after it.
Deliver ==
    /\ readPc = "deliver"
    /\ pendingMu = "free"
    /\ pending' = pending \ {msg.ref}
    /\ readPc' = IF msg.ref \in pending THEN "answer" ELSE "scan"
    /\ UNCHANGED <<msg, callPc, slot, respVars, procVars, eventVars, shutVars>>

SendAnswer ==
    /\ readPc = "answer"
    /\ slot[msg.ref] = "empty"
    /\ slot' = [slot EXCEPT ![msg.ref] = "answer"]
    /\ readPc' = "scan"
    /\ UNCHANGED <<msg, callPc, pending, respVars, procVars, eventVars, shutVars>>

ClockAnswered ==
    /\ readPc = "clock"
    /\ respond[Reader].pc \in {"sent", "failed"}
    /\ readPc' = IF respond[Reader].pc = "sent" THEN "scan" ELSE "shutdown"
    /\ GoTo(Reader, "idle")
    /\ UNCHANGED <<msg, approvals, replies, callVars, procVars, eventVars, shutVars>>

ReadStep ==
    \/ ReadLine \/ EndOfOutput \/ TrackApproval \/ Emit \/ EmitDone
    \/ EmitOnClosed \/ Deliver \/ SendAnswer \/ ClockAnswered

-----------------------------------------------------------------------------
(* shutdown, run once by whichever of readLoop and the waiter comes first *)

\* command.Wait returns and has closed the read end of stdout.
Reap ==
    /\ waiter = "wait"
    /\ ~alive
    /\ waiter' = "shutdown"
    /\ closed' = TRUE
    /\ out' \in (IF closed THEN {out} ELSE Buffered(out))
    /\ UNCHANGED <<alive, asked, log, writeMu, done, shutPc, pendingMu>>
    /\ UNCHANGED <<callVars, respVars, readVars, eventVars>>

\* c.err is set and c.done closed.
BeginShutdown ==
    /\ shutPc = "open"
    /\ readPc = "shutdown" \/ waiter = "shutdown"
    /\ done' = TRUE
    /\ shutPc' = "lock"
    /\ UNCHANGED <<pendingMu, waiter, callVars, respVars, procVars, readVars, eventVars>>

LockPending ==
    /\ shutPc = "lock"
    /\ pendingMu = "free"
    /\ pendingMu' = "drain"
    /\ shutPc' = "drain"
    /\ UNCHANGED <<done, waiter, callVars, respVars, procVars, readVars, eventVars>>

\* One turn of the loop: the send happens while pendingMu is held.
Drain(c) ==
    /\ shutPc = "drain"
    /\ c \in pending
    /\ slot[c] = "empty"
    /\ slot' = [slot EXCEPT ![c] = "closed"]
    /\ pending' = pending \ {c}
    /\ UNCHANGED <<callPc, respVars, procVars, readVars, eventVars, shutVars>>

UnlockPending ==
    /\ shutPc = "drain"
    /\ pending = {}
    /\ pendingMu' = "free"
    /\ shutPc' = "close"
    /\ UNCHANGED <<done, waiter, callVars, respVars, procVars, readVars, eventVars>>

CloseEvents ==
    /\ shutPc = "close"
    /\ eventsClosed' = TRUE
    /\ shutPc' = "finished"
    /\ UNCHANGED <<events, received, done, pendingMu, waiter, callVars, respVars, procVars, readVars>>

\* closeOnce.Do returns to every caller once the first has finished.
ReaderReturns ==
    /\ readPc = "shutdown" /\ shutPc = "finished"
    /\ readPc' = "exited"
    /\ UNCHANGED <<msg, callVars, respVars, procVars, eventVars, shutVars>>

WaiterReturns ==
    /\ waiter = "shutdown" /\ shutPc = "finished"
    /\ waiter' = "exited"
    /\ UNCHANGED <<done, shutPc, pendingMu, callVars, respVars, procVars, readVars, eventVars>>

ShutdownStep ==
    \/ Reap \/ BeginShutdown \/ LockPending \/ (\E c \in Calls : Drain(c))
    \/ UnlockPending \/ CloseEvents \/ ReaderReturns \/ WaiterReturns

-----------------------------------------------------------------------------
(* The reader of Events() *)

Receive ==
    /\ events # <<>>
    /\ received' = Append(received, Head(events))
    /\ events' = Tail(events)
    /\ UNCHANGED <<eventsClosed, callVars, respVars, procVars, readVars, shutVars>>

-----------------------------------------------------------------------------
Next ==
    \/ \E kind \in Kinds : WriteLine(kind)
    \/ ProcessExit
    \/ Close
    \/ \E c \in Calls : Register(c) \/ Cancel(c) \/ CallStep(c)
    \/ \E p \in Responders : Decide(p) \/ RejectDecision(p)
    \/ \E p \in Responders \cup {Reader} : RespondStep(p)
    \/ ReadStep
    \/ ShutdownStep
    \/ Receive

\* Goroutines that can move do; a write to a broken pipe ends; a killed process dies.
\* Nothing is assumed of the process's output, of when it reads its stdin, of users,
\* or of the reader of Events().
Fairness ==
    /\ WF_vars(ReadStep)
    /\ WF_vars(ShutdownStep)
    /\ \A c \in Calls : WF_vars(CallStep(c) /\ (callPc[c] = "encode" => StdinBroken))
    /\ \A p \in Responders \cup {Reader} :
          WF_vars(RespondStep(p) /\ (respond[p].pc = "encode" => StdinBroken))
    /\ WF_vars(ProcessExit /\ closed)

Spec == Init /\ [][Next]_vars
FairSpec == Spec /\ Fairness

-----------------------------------------------------------------------------
(* Properties *)

\* A send on a response channel never blocks: neither deliver, which would stop
\* readLoop for good, nor the drain in shutdown, which would do so while it
\* holds pendingMu.  Late and duplicated answers, cancelled calls and the race
\* of deliver with the drain all end with at most one send per channel.
ResponseSlotFree ==
    /\ \A c \in pending : slot[c] = "empty"
    /\ readPc = "answer" => slot[msg.ref] = "empty"

\* No entry of `pending` is left behind.  Before the drain an entry belongs to
\* a Call in progress, or to one that saw `done` and left it to the drain; after
\* the drain only to a Call that is itself about to find `done` and remove it.
\* So no Call can wait, once the client is shut down, for an answer that nobody
\* will send.
NoPendingLeak ==
    \A c \in pending :
        \/ callPc[c] \in {"check", "abandon"}
        \/ callPc[c] \in {"write", "encode", "wait"} /\ shutPc \in {"open", "lock", "drain"}
        \/ callPc[c] = "returned" /\ shutPc \in {"lock", "drain"}

\* What has been sent on `events`.
Sent == received \o events

\* The reader of Events() gets what the process wrote, in order, without a duplicate
\* and without a gap; and until the client shuts down or is closed nothing is missing:
\* a full `events` makes readLoop wait, it never drops a line.
EventStreamIntact ==
    /\ \A i \in 1..Len(Sent) :
          /\ IsEvent(Sent[i]) /\ Sent[i].seq \in 1..Len(log) /\ Sent[i] = log[Sent[i].seq]
          /\ \A j \in 1..(i - 1) : Sent[j].seq < Sent[i].seq
          /\ \A n \in 1..Sent[i].seq : IsEvent(log[n]) => \E j \in 1..i : Sent[j] = log[n]
    /\ ~done /\ ~closed => \A n \in 1..Len(log) :
          IsEvent(log[n]) => \/ \E i \in 1..Len(Sent) : Sent[i] = log[n]
                             \/ readPc \in {"track", "emit"} /\ msg = log[n]
                             \/ \E i \in 1..Len(out) : out[i] = log[n]

\* The lines of kind "resolved" readLoop has taken so far.
ResolvedSeen(id) ==
    \/ msg.kind = "resolved" /\ msg.ref = id
    \/ \E i \in 1..Len(Sent) : Sent[i].kind = "resolved" /\ Sent[i].ref = id

\* A user who answers an approval gets the decision translated, unless another
\* user's translated answer went out before or codex had resolved the request:
\* the request is on record before any device can see it.
FirstReplyTranslated ==
    \A r \in replies :
        ~r.translated /\ (\E i \in 1..Len(received) :
                             received[i].kind = "approval" /\ received[i].seq = r.id)
            => \/ [id |-> r.id, translated |-> TRUE] \in replies
               \/ ResolvedSeen(r.id)

\* readLoop never sends on c.events after shutdown has closed it.
NoSendOnClosedEvents == readPc # "panic"

\* The end of a session reaches everyone who waits on it.  When the process is
\* gone every goroutine of the client ends, even if nobody reads Events() and
\* somebody was stuck on a full stdin: readLoop, the waiter and every Call.  When
\* readLoop meets a line it cannot decode, or fails to answer currentTime/read, the
\* process lives on, and still Events() ends and no Call waits for an answer (one in
\* the middle of its write may still be there: the pipe is not broken).
SessionEndsForAll ==
    /\ ~alive ~> \/ readPc = "panic"
                 \/ /\ readPc = "exited" /\ waiter = "exited"
                    /\ \A c \in Calls : callPc[c] \in {"idle", "returned"}
    /\ readPc = "shutdown" ~> \/ readPc = "panic"
                              \/ /\ readPc = "exited" /\ eventsClosed
                                 /\ \A c \in Calls : callPc[c] # "wait"

=============================================================================
