------------------------------- MODULE EventHub -------------------------------
(***************************************************************************)
(* The stream of codex's events to the phones: Manager.events, a bounded   *)
(* queue that drops when it is full; the hub that every control server     *)
(* makes for itself and whose forward goroutine takes from that queue      *)
(* (internal/control/events.go); and the websocket sessions that subscribe *)
(* to the hub of the server that accepted them, each with a goroutine,     *)
(* writeEvents, that writes its channel to the phone (websocket.go).       *)
(*                                                                         *)
(* Closing a control server closes neither its hub, whose queue is never   *)
(* closed, nor the sessions it accepted, whose connections are hijacked.   *)
(* An event is the number of its publication.                              *)
(***************************************************************************)
EXTENDS Naturals, Sequences, FiniteSets

CONSTANTS
    Sessions,   \* the websocket sessions, one per accepted connection
    SourceCap,  \* capacity of Manager.events (256)
    StreamCap,  \* capacity of a subscriber's channel (32)
    MaxHubs,    \* bound: control servers opened
    MaxEvents   \* bound: events published

ASSUME CapsAssumption == SourceCap \in Nat \ {0} /\ StreamCap \in Nat \ {0}
ASSUME HubsAssumption == MaxHubs \in Nat \ {0}
ASSUME EventsAssumption == MaxEvents \in Nat

VARIABLES
    emitted,        \* events published so far
    source,         \* Manager.events
    made, serving,  \* hubs made so far; the hub of the listening server, or 0
    subscribers,    \* eventHub.subscribers, per hub
    holding,        \* the event a forward goroutine has taken, or 0
    phase, hubOf,   \* a session's handler and the hub it was given
    channel,        \* a session's subscriber channel
    writer, hand,   \* writeEvents: control and the event it is writing, or 0
    stream,         \* what has been written to the phone
    joined,         \* history: `emitted` when the session subscribed
    forwarded,      \* history: events some hub has broadcast
    shed            \* history: events a session's full channel turned away

queueVars == <<emitted, source>>
hubVars == <<made, serving, subscribers, holding>>
sessionVars == <<phase, hubOf, writer, joined>>
dataVars == <<channel, hand, stream, shed>>
vars == <<queueVars, hubVars, sessionVars, dataVars, forwarded>>

Hubs == 1..MaxHubs
Events == 1..MaxEvents

\* Types, and the subscriptions of a hub are those of the live sessions it was
\* given to: none is left for a channel that is closed.
TypeOK ==
    /\ emitted \in 0..MaxEvents
    /\ source \in Seq(1..emitted)
    /\ made \in 0..MaxHubs /\ serving \in 0..made
    /\ subscribers \in [Hubs -> SUBSET Sessions]
    /\ holding \in [Hubs -> 0..emitted]
    /\ \A h \in Hubs : h > made => holding[h] = 0
    /\ phase \in [Sessions -> {"away", "accepted", "open", "closing", "ended"}]
    /\ hubOf \in [Sessions -> 0..made]
    /\ channel \in [Sessions -> Seq(1..emitted)]
    /\ writer \in [Sessions -> {"none", "running", "stopped"}]
    /\ hand \in [Sessions -> 0..emitted]
    /\ stream \in [Sessions -> Seq(1..emitted)]
    /\ joined \in [Sessions -> 0..emitted]
    /\ forwarded \in SUBSET (1..emitted)
    /\ shed \in [Sessions -> SUBSET (1..emitted)]
    /\ \A s \in Sessions : phase[s] # "away" => hubOf[s] \in Hubs
    /\ \A s \in Sessions, h \in Hubs :
          s \in subscribers[h] <=> phase[s] \in {"open", "closing"} /\ h = hubOf[s]

Init ==
    /\ emitted = 0 /\ source = <<>>
    /\ made = 0 /\ serving = 0
    /\ subscribers = [h \in Hubs |-> {}]
    /\ holding = [h \in Hubs |-> 0]
    /\ phase = [s \in Sessions |-> "away"]
    /\ hubOf = [s \in Sessions |-> 0]
    /\ channel = [s \in Sessions |-> <<>>]
    /\ writer = [s \in Sessions |-> "none"]
    /\ hand = [s \in Sessions |-> 0]
    /\ stream = [s \in Sessions |-> <<>>]
    /\ joined = [s \in Sessions |-> 0]
    /\ forwarded = {}
    /\ shed = [s \in Sessions |-> {}]

-----------------------------------------------------------------------------
(* Sequences of events *)

EventsIn(q) == {q[i] : i \in DOMAIN q}
Increasing(q) == \A i, j \in DOMAIN q : i < j => q[i] < q[j]

\* The subscriber's channel has room for one more.
HasRoom(s) == Len(channel[s]) < StreamCap

-----------------------------------------------------------------------------
(* Plausible bugs: each stands in for the operator named in its comment when a *)
(* property's sensitivity is checked, and is used nowhere else.                *)

\* Broadcast that keeps an event a full channel turned away, to offer it again.
BroadcastRetries(h) ==
    /\ holding[h] # 0
    /\ channel' = [s \in Sessions |->
          IF s \in subscribers[h] /\ HasRoom(s)
          THEN Append(channel[s], holding[h]) ELSE channel[s]]
    /\ IF \A s \in subscribers[h] : HasRoom(s)
       THEN /\ forwarded' = forwarded \cup {holding[h]}
            /\ holding' = [holding EXCEPT ![h] = 0]
       ELSE UNCHANGED <<forwarded, holding>>
    /\ UNCHANGED <<queueVars, made, serving, subscribers, sessionVars, hand, stream, shed>>

\* Broadcast whose default case leaves the loop over the subscribers.
BroadcastStopsAtFull(h) ==
    /\ holding[h] # 0
    /\ LET reached == IF \A s \in subscribers[h] : HasRoom(s) THEN subscribers[h] ELSE {}
           full == {s \in subscribers[h] : ~HasRoom(s)}
       IN /\ channel' = [s \in Sessions |->
                IF s \in reached THEN Append(channel[s], holding[h]) ELSE channel[s]]
          /\ shed' = [s \in Sessions |->
                IF s \in full THEN shed[s] \cup {holding[h]} ELSE shed[s]]
    /\ forwarded' = forwarded \cup {holding[h]}
    /\ holding' = [holding EXCEPT ![h] = 0]
    /\ UNCHANGED <<queueVars, made, serving, subscribers, sessionVars, hand, stream>>

\* Broadcast that waits for room instead of dropping.
BroadcastBlocks(h) ==
    /\ holding[h] # 0
    /\ \A s \in subscribers[h] : HasRoom(s)
    /\ channel' = [s \in Sessions |->
          IF s \in subscribers[h] THEN Append(channel[s], holding[h]) ELSE channel[s]]
    /\ forwarded' = forwarded \cup {holding[h]}
    /\ holding' = [holding EXCEPT ![h] = 0]
    /\ UNCHANGED <<queueVars, made, serving, subscribers, sessionVars, hand, stream, shed>>

-----------------------------------------------------------------------------
(* Manager.events *)

\* watch (manager.go:389-394) and ReleaseThread (lines 204-207): the event is
\* dropped when the queue is full.
Publish ==
    /\ emitted < MaxEvents
    /\ emitted' = emitted + 1
    /\ source' = IF Len(source) < SourceCap THEN Append(source, emitted + 1) ELSE source
    /\ UNCHANGED <<hubVars, sessionVars, dataVars, forwarded>>

-----------------------------------------------------------------------------
(* The control servers of the desktop application *)

\* openControlServer: NewWithOptions makes the hub and starts its goroutine
\* before the server tries to listen, so a refused address leaves a hub too.
OpenServer(listens) ==
    /\ serving = 0 /\ made < MaxHubs
    /\ made' = made + 1
    /\ serving' = IF listens THEN made + 1 ELSE 0
    /\ UNCHANGED <<queueVars, subscribers, holding, sessionVars, dataVars, forwarded>>

\* SetListenAddr closes the old server: it accepts no more connections.
CloseServer ==
    /\ serving # 0
    /\ serving' = 0
    /\ UNCHANGED <<queueVars, made, subscribers, holding, sessionVars, dataVars, forwarded>>

-----------------------------------------------------------------------------
(* eventHub.forward *)

TakeEvent(h) ==
    /\ h <= made /\ holding[h] = 0 /\ source # <<>>
    /\ holding' = [holding EXCEPT ![h] = Head(source)]
    /\ source' = Tail(source)
    /\ UNCHANGED <<emitted, made, serving, subscribers, sessionVars, dataVars, forwarded>>

\* Lines 37-44, under mu. The offers never wait, and a session's own goroutine
\* is alone at the other end of its channel, so the loop is one step.
Broadcast(h) ==
    /\ holding[h] # 0
    /\ channel' = [s \in Sessions |->
          IF s \in subscribers[h] /\ HasRoom(s)
          THEN Append(channel[s], holding[h]) ELSE channel[s]]
    /\ shed' = [s \in Sessions |->
          IF s \in subscribers[h] /\ ~HasRoom(s)
          THEN shed[s] \cup {holding[h]} ELSE shed[s]]
    /\ forwarded' = forwarded \cup {holding[h]}
    /\ holding' = [holding EXCEPT ![h] = 0]
    /\ UNCHANGED <<queueVars, made, serving, subscribers, sessionVars, hand, stream>>

-----------------------------------------------------------------------------
(* websocketHandler *)

\* Up to websocket.Accept: the connection is hijacked, and the handler keeps
\* the hub of the server that accepted it.
Accept(s) ==
    /\ phase[s] = "away" /\ serving # 0
    /\ phase' = [phase EXCEPT ![s] = "accepted"]
    /\ hubOf' = [hubOf EXCEPT ![s] = serving]
    /\ UNCHANGED <<queueVars, hubVars, writer, joined, dataVars, forwarded>>

Subscribe(s) ==
    /\ phase[s] = "accepted"
    /\ phase' = [phase EXCEPT ![s] = "open"]
    /\ subscribers' = [subscribers EXCEPT ![hubOf[s]] = @ \cup {s}]
    /\ writer' = [writer EXCEPT ![s] = "running"]
    /\ joined' = [joined EXCEPT ![s] = emitted]
    /\ UNCHANGED <<queueVars, made, serving, holding, hubOf, dataVars, forwarded>>

\* conn.Read fails: the loop breaks and the session's context is cancelled.
ReadFails(s) ==
    /\ phase[s] = "open"
    /\ phase' = [phase EXCEPT ![s] = "closing"]
    /\ UNCHANGED <<queueVars, hubVars, hubOf, writer, joined, dataVars, forwarded>>

\* The deferred unsubscribe, after requests.Wait: the subscription goes and the
\* channel is closed in one critical section of the hub's mu.
Unsubscribe(s) ==
    /\ phase[s] = "closing"
    /\ phase' = [phase EXCEPT ![s] = "ended"]
    /\ subscribers' = [subscribers EXCEPT ![hubOf[s]] = @ \ {s}]
    /\ UNCHANGED <<queueVars, made, serving, holding, hubOf, writer, joined, dataVars, forwarded>>

-----------------------------------------------------------------------------
(* writeEvents *)

TakeFromChannel(s) ==
    /\ writer[s] = "running" /\ hand[s] = 0 /\ channel[s] # <<>>
    /\ hand' = [hand EXCEPT ![s] = Head(channel[s])]
    /\ channel' = [channel EXCEPT ![s] = Tail(@)]
    /\ UNCHANGED <<queueVars, hubVars, sessionVars, stream, shed, forwarded>>

\* A write that the cancellation overtakes may still get through.
WriteEvent(s) ==
    /\ writer[s] = "running" /\ hand[s] # 0
    /\ stream' = [stream EXCEPT ![s] = Append(@, hand[s])]
    /\ hand' = [hand EXCEPT ![s] = 0]
    /\ UNCHANGED <<queueVars, hubVars, sessionVars, channel, shed, forwarded>>

\* The connection is broken or the context cancelled: the goroutine returns
\* with the event unwritten; the handler's own read may fail much later.
WriteFails(s) ==
    /\ writer[s] = "running" /\ hand[s] # 0
    /\ writer' = [writer EXCEPT ![s] = "stopped"]
    /\ UNCHANGED <<queueVars, hubVars, phase, hubOf, joined, dataVars, forwarded>>

\* ctx.Done, or the channel closed and drained.
WriterReturns(s) ==
    /\ writer[s] = "running" /\ hand[s] = 0
    /\ phase[s] \in {"closing", "ended"}
    /\ writer' = [writer EXCEPT ![s] = "stopped"]
    /\ UNCHANGED <<queueVars, hubVars, phase, hubOf, joined, dataVars, forwarded>>

-----------------------------------------------------------------------------
Next ==
    \/ Publish
    \/ \E listens \in BOOLEAN : OpenServer(listens)
    \/ CloseServer
    \/ \E h \in Hubs : TakeEvent(h) \/ Broadcast(h)
    \/ \E s \in Sessions :
          \/ Accept(s) \/ Subscribe(s) \/ ReadFails(s) \/ Unsubscribe(s)
          \/ TakeFromChannel(s) \/ WriteEvent(s) \/ WriteFails(s) \/ WriterReturns(s)

\* The hubs' goroutines run. Nothing is assumed of the phones: a write may wait
\* for ever for a phone that reads no more.
Fairness == \A h \in Hubs : WF_vars(TakeEvent(h)) /\ WF_vars(Broadcast(h))

Spec == Init /\ [][Next]_vars
FairSpec == Spec /\ Fairness

-----------------------------------------------------------------------------
(* Properties *)

\* What a session has been given, in order: written, being written, waiting.
Given(s) == stream[s] \o (IF hand[s] = 0 THEN <<>> ELSE <<hand[s]>>) \o channel[s]

\* A phone sees codex's events in the order codex sent them, and none twice,
\* however many hubs take from the one queue.
InOrder == \A s \in Sessions : Increasing(Given(s))

\* README.md:64, "streams its events back to connected devices": an event that a
\* hub has broadcast since the session subscribed is not lost to that session,
\* unless the session's own channel was full.
EveryEventReachesAll ==
    \A s \in Sessions : phase[s] = "open" =>
        \A e \in forwarded : e > joined[s] => e \in EventsIn(Given(s)) \cup shed[s]

\* A phone that stops reading stalls nobody: while there is a hub, what enters
\* the queue is broadcast.
EveryEventPasses ==
    \A e \in Events : made > 0 /\ e \in EventsIn(source) ~> e \in forwarded

=============================================================================
