---------------------------- MODULE EventHubProofs ----------------------------
(***************************************************************************)
(* Proofs about the event hub, for every number of sessions and hubs and   *)
(* every capacity: its types, the order of every phone's stream, and, as   *)
(* long as there is one hub only, that no session misses an event but by   *)
(* its own full channel.                                                   *)
(***************************************************************************)
EXTENDS EventHub, TLAPS

-----------------------------------------------------------------------------
(* Sequences of events *)

\* A sequence over a larger range of events.
LEMMA SeqWider ==
    ASSUME NEW S, NEW T, S \subseteq T, NEW q \in Seq(S)
    PROVE q \in Seq(T)
OBVIOUS

LEMMA SeqGrows ==
    ASSUME NEW m \in Nat, NEW n \in Nat, m <= n, NEW q \in Seq(1..m)
    PROVE q \in Seq(1..n)
<1>1. 1..m \subseteq 1..n
    OBVIOUS
<1> QED
    BY <1>1

\* The events of a sequence are among those it ranges over.
LEMMA EventsOf ==
    ASSUME NEW S, NEW q \in Seq(S)
    PROVE EventsIn(q) \subseteq S
BY DEF EventsIn

\* Appending an event that is after all the others keeps the order.
LEMMA AppendInOrder ==
    ASSUME NEW q \in Seq(Nat), NEW e \in Nat
    PROVE /\ Append(q, e) \in Seq(Nat)
          /\ EventsIn(Append(q, e)) = EventsIn(q) \cup {e}
          /\ Increasing(q) /\ (\A d \in EventsIn(q) : d < e) => Increasing(Append(q, e))
<1>1. /\ Append(q, e) \in Seq(Nat)
      /\ DOMAIN Append(q, e) = 1..(Len(q) + 1)
      /\ DOMAIN q = 1..Len(q)
      /\ Append(q, e)[Len(q) + 1] = e
      /\ \A i \in 1..Len(q) : Append(q, e)[i] = q[i]
    OBVIOUS
<1>2. EventsIn(Append(q, e)) = EventsIn(q) \cup {e}
    BY <1>1 DEF EventsIn
<1>3. ASSUME Increasing(q), \A d \in EventsIn(q) : d < e
      PROVE  Increasing(Append(q, e))
    <2> SUFFICES ASSUME NEW i \in 1..(Len(q) + 1), NEW j \in 1..(Len(q) + 1), i < j
                 PROVE Append(q, e)[i] < Append(q, e)[j]
        BY <1>1 DEF Increasing
    <2>1. i \in 1..Len(q)
        OBVIOUS
    <2>2. CASE j = Len(q) + 1
        BY <1>1, <1>3, <2>1, <2>2 DEF EventsIn
    <2>3. CASE j \in 1..Len(q)
        BY <1>1, <1>3, <2>1, <2>3 DEF Increasing
    <2> QED
        BY <2>2, <2>3
<1> QED
    BY <1>1, <1>2, <1>3

\* Taking the first event off.
LEMMA TakeFirst ==
    ASSUME NEW q \in Seq(Nat), q # <<>>
    PROVE /\ Head(q) \in EventsIn(q)
          /\ EventsIn(q) = {Head(q)} \cup EventsIn(Tail(q))
          /\ Increasing(q) => Increasing(Tail(q)) /\ \A e \in EventsIn(Tail(q)) : Head(q) < e
<1>1. /\ Len(q) \in Nat /\ Len(q) > 0
      /\ DOMAIN q = 1..Len(q)
      /\ DOMAIN Tail(q) = 1..(Len(q) - 1)
      /\ Head(q) = q[1]
      /\ \A i \in 1..(Len(q) - 1) : Tail(q)[i] = q[i + 1]
    OBVIOUS
<1>2. \A i \in 2..Len(q) : i - 1 \in 1..(Len(q) - 1) /\ q[i] = Tail(q)[i - 1]
    BY <1>1
<1>3. EventsIn(q) = {Head(q)} \cup EventsIn(Tail(q))
    <2>1. \A i \in 1..Len(q) : i = 1 \/ i \in 2..Len(q)
        BY <1>1
    <2>2. EventsIn(q) \subseteq {Head(q)} \cup EventsIn(Tail(q))
        <3> SUFFICES ASSUME NEW i \in 1..Len(q)
                     PROVE q[i] \in {Head(q)} \cup EventsIn(Tail(q))
            BY <1>1 DEF EventsIn
        <3>1. CASE i = 1
            BY <1>1, <3>1
        <3>2. CASE i \in 2..Len(q)
            <4>1. i - 1 \in DOMAIN Tail(q) /\ q[i] = Tail(q)[i - 1]
                BY <1>1, <1>2, <3>2
            <4> QED
                BY <4>1 DEF EventsIn
        <3> QED
            BY <2>1, <3>1, <3>2
    <2>3. \A i \in 1..(Len(q) - 1) : i + 1 \in 1..Len(q)
        BY <1>1
    <2>4. {Head(q)} \cup EventsIn(Tail(q)) \subseteq EventsIn(q)
        BY <1>1, <2>3 DEF EventsIn
    <2> QED
        BY <2>2, <2>4
<1>4. ASSUME Increasing(q)
      PROVE  Increasing(Tail(q)) /\ \A e \in EventsIn(Tail(q)) : Head(q) < e
    <2>1. Increasing(Tail(q))
        <3> SUFFICES ASSUME NEW i \in 1..(Len(q) - 1), NEW j \in 1..(Len(q) - 1), i < j
                     PROVE Tail(q)[i] < Tail(q)[j]
            BY <1>1 DEF Increasing
        <3>1. i + 1 \in 1..Len(q) /\ j + 1 \in 1..Len(q) /\ i + 1 < j + 1
            BY <1>1
        <3>2. q[i + 1] < q[j + 1]
            BY <1>1, <1>4, <3>1 DEF Increasing
        <3> QED
            BY <1>1, <3>2
    <2>2. \A i \in 1..(Len(q) - 1) : Head(q) < Tail(q)[i]
        BY <1>1, <1>4 DEF Increasing
    <2> QED
        BY <1>1, <2>1, <2>2 DEF EventsIn
<1> QED
    BY <1>3, <1>4

\* Two sequences in order, the one before the other.
LEMMA JoinInOrder ==
    ASSUME NEW p \in Seq(Nat), NEW q \in Seq(Nat)
    PROVE /\ p \o q \in Seq(Nat)
          /\ EventsIn(p \o q) = EventsIn(p) \cup EventsIn(q)
          /\ Increasing(p) /\ Increasing(q) /\ (\A a \in EventsIn(p), b \in EventsIn(q) : a < b)
             => Increasing(p \o q)
<1>1. /\ p \o q \in Seq(Nat)
      /\ DOMAIN p = 1..Len(p) /\ DOMAIN q = 1..Len(q)
      /\ DOMAIN (p \o q) = 1..(Len(p) + Len(q))
      /\ Len(p) \in Nat /\ Len(q) \in Nat
      /\ \A i \in 1..(Len(p) + Len(q)) :
            (p \o q)[i] = IF i <= Len(p) THEN p[i] ELSE q[i - Len(p)]
    OBVIOUS
<1>2. \A i \in 1..(Len(p) + Len(q)) :
         IF i <= Len(p) THEN i \in 1..Len(p) ELSE i - Len(p) \in 1..Len(q)
    BY <1>1
<1>3. EventsIn(p \o q) \subseteq EventsIn(p) \cup EventsIn(q)
    BY <1>1, <1>2 DEF EventsIn
<1>4. EventsIn(p) \subseteq EventsIn(p \o q)
    BY <1>1 DEF EventsIn
<1>5. EventsIn(q) \subseteq EventsIn(p \o q)
    <2> SUFFICES ASSUME NEW i \in 1..Len(q)
                 PROVE q[i] \in EventsIn(p \o q)
        BY <1>1 DEF EventsIn
    <2>1. Len(p) + i \in 1..(Len(p) + Len(q)) /\ ~(Len(p) + i <= Len(p)) /\ Len(p) + i - Len(p) = i
        BY <1>1
    <2>2. (p \o q)[Len(p) + i] = q[i]
        BY <1>1, <2>1
    <2> QED
        BY <1>1, <2>1, <2>2 DEF EventsIn
<1>6. ASSUME Increasing(p), Increasing(q), \A a \in EventsIn(p), b \in EventsIn(q) : a < b
      PROVE  Increasing(p \o q)
    <2> SUFFICES ASSUME NEW i \in 1..(Len(p) + Len(q)), NEW j \in 1..(Len(p) + Len(q)), i < j
                 PROVE (p \o q)[i] < (p \o q)[j]
        BY <1>1 DEF Increasing
    <2>1. CASE i <= Len(p) /\ j <= Len(p)
        <3>1. i \in 1..Len(p) /\ j \in 1..Len(p)
            BY <1>1, <2>1
        <3> QED
            BY <1>1, <1>6, <2>1, <3>1 DEF Increasing
    <2>2. CASE i <= Len(p) /\ ~(j <= Len(p))
        <3>1. p[i] \in EventsIn(p) /\ q[j - Len(p)] \in EventsIn(q)
            BY <1>1, <1>2, <2>2 DEF EventsIn
        <3> QED
            BY <1>1, <1>6, <2>2, <3>1
    <2>3. CASE ~(i <= Len(p))
        <3>1. /\ ~(j <= Len(p))
              /\ i - Len(p) \in 1..Len(q) /\ j - Len(p) \in 1..Len(q)
              /\ i - Len(p) < j - Len(p)
            BY <1>1, <2>3
        <3> QED
            BY <1>1, <1>6, <2>3, <3>1 DEF Increasing
    <2> QED
        BY <1>1, <2>1, <2>2, <2>3
<1> QED
    BY <1>1, <1>3, <1>4, <1>5, <1>6

-----------------------------------------------------------------------------
(* Types *)

LEMMA TypeInit == Init => TypeOK
BY CapsAssumption, HubsAssumption, EventsAssumption DEF Init, TypeOK, Hubs

LEMMA TypeStep == TypeOK /\ [Next]_vars => TypeOK'
<1> SUFFICES ASSUME TypeOK, [Next]_vars
             PROVE TypeOK'
    OBVIOUS
<1> USE CapsAssumption, HubsAssumption, EventsAssumption DEF Hubs
<1>1. CASE Publish
    <2>1. emitted' \in 0..MaxEvents /\ emitted' = emitted + 1 /\ emitted \in Nat
        BY <1>1 DEF Publish, TypeOK
    <2>2. \A q \in Seq(1..emitted) : q \in Seq(1..emitted')
        BY <2>1, SeqGrows
    <2>3. source' \in Seq(1..emitted')
        <3>1. source \in Seq(1..emitted') /\ emitted + 1 \in 1..emitted'
            BY <2>1, <2>2 DEF TypeOK
        <3>2. Append(source, emitted + 1) \in Seq(1..emitted')
            BY <3>1
        <3> QED
            BY <1>1, <3>1, <3>2 DEF Publish
    <2>4. 0..emitted \subseteq 0..emitted' /\ 1..emitted \subseteq 1..emitted'
        BY <2>1
    <2>5. /\ channel' \in [Sessions -> Seq(1..emitted')]
          /\ stream' \in [Sessions -> Seq(1..emitted')]
        BY <1>1, <2>2 DEF Publish, TypeOK, dataVars
    <2>6. /\ holding' \in [Hubs -> 0..emitted'] /\ hand' \in [Sessions -> 0..emitted']
          /\ joined' \in [Sessions -> 0..emitted']
        BY <1>1, <2>4 DEF Publish, TypeOK, hubVars, dataVars, sessionVars
    <2>7. forwarded' \in SUBSET (1..emitted') /\ shed' \in [Sessions -> SUBSET (1..emitted')]
        BY <1>1, <2>4 DEF Publish, TypeOK, dataVars
    <2> QED
        BY <1>1, <2>1, <2>3, <2>5, <2>6, <2>7 DEF Publish, TypeOK, hubVars, sessionVars
<1>2. ASSUME NEW listens \in BOOLEAN, OpenServer(listens)
      PROVE  TypeOK'
    <2>1. made' \in 0..MaxHubs /\ made' = made + 1 /\ made \in Nat
        BY <1>2 DEF OpenServer, TypeOK
    <2>2. serving' \in 0..made' /\ hubOf' \in [Sessions -> 0..made']
        BY <1>2, <2>1 DEF OpenServer, TypeOK, sessionVars
    <2> QED
        BY <1>2, <2>1, <2>2 DEF OpenServer, TypeOK, queueVars, sessionVars, dataVars
<1>3. CASE CloseServer
    BY <1>3 DEF CloseServer, TypeOK, queueVars, sessionVars, dataVars
<1>4. ASSUME NEW h \in Hubs, TakeEvent(h)
      PROVE  TypeOK'
    <2>1. source' \in Seq(1..emitted) /\ Head(source) \in 1..emitted
        BY <1>4 DEF TakeEvent, TypeOK
    <2>2. holding' \in [Hubs -> 0..emitted]
        BY <1>4, <2>1 DEF TakeEvent, TypeOK
    <2> QED
        BY <1>4, <2>1, <2>2 DEF TakeEvent, TypeOK, sessionVars, dataVars
<1>5. ASSUME NEW h \in Hubs, Broadcast(h)
      PROVE  TypeOK'
    <2>1. holding[h] \in 1..emitted
        BY <1>5 DEF Broadcast, TypeOK
    <2>2. channel' \in [Sessions -> Seq(1..emitted)]
        <3>1. \A q \in Seq(1..emitted) : Append(q, holding[h]) \in Seq(1..emitted)
            BY <2>1
        <3> QED
            BY <1>5, <3>1 DEF Broadcast, TypeOK
    <2>3. shed' \in [Sessions -> SUBSET (1..emitted)]
        <3>1. \A s \in Sessions : shed[s] \in SUBSET (1..emitted)
            BY DEF TypeOK
        <3>2. \A s \in Sessions : shed[s] \cup {holding[h]} \in SUBSET (1..emitted)
            BY <2>1, <3>1
        <3> QED
            BY <1>5, <3>1, <3>2 DEF Broadcast
    <2>5. forwarded' \in SUBSET (1..emitted)
        BY <1>5, <2>1 DEF Broadcast, TypeOK
    <2>4. holding' \in [Hubs -> 0..emitted] /\ \A g \in Hubs : g > made => holding'[g] = 0
        BY <1>5 DEF Broadcast, TypeOK
    <2> QED
        BY <1>5, <2>2, <2>3, <2>4, <2>5 DEF Broadcast, TypeOK, queueVars, sessionVars
<1>6. ASSUME NEW s \in Sessions, Accept(s)
      PROVE  TypeOK'
    <2>1. serving \in 0..made /\ serving \in Hubs
        BY <1>6 DEF Accept, TypeOK
    <2>2. /\ phase' \in [Sessions -> {"away", "accepted", "open", "closing", "ended"}]
          /\ hubOf' \in [Sessions -> 0..made]
        BY <1>6, <2>1 DEF Accept, TypeOK
    <2>3. \A r \in Sessions : phase'[r] # "away" => hubOf'[r] \in Hubs
        BY <1>6, <2>1 DEF Accept, TypeOK
    <2>4. \A r \in Sessions, h \in Hubs :
             r \in subscribers[h] <=> phase'[r] \in {"open", "closing"} /\ h = hubOf'[r]
        BY <1>6, <2>1 DEF Accept, TypeOK
    <2> QED
        BY <1>6, <2>2, <2>3, <2>4 DEF Accept, TypeOK, queueVars, hubVars, dataVars
<1>7. ASSUME NEW s \in Sessions, Subscribe(s)
      PROVE  TypeOK'
    <2>1. /\ subscribers' \in [Hubs -> SUBSET Sessions]
          /\ phase' \in [Sessions -> {"away", "accepted", "open", "closing", "ended"}]
          /\ writer' \in [Sessions -> {"none", "running", "stopped"}]
          /\ joined' \in [Sessions -> 0..emitted]
        BY <1>7 DEF Subscribe, TypeOK
    <2>2. \A r \in Sessions, h \in Hubs :
             r \in subscribers'[h] <=> phase'[r] \in {"open", "closing"} /\ h = hubOf[r]
        BY <1>7 DEF Subscribe, TypeOK
    <2>3. \A r \in Sessions : phase'[r] # "away" => hubOf[r] \in Hubs
        BY <1>7 DEF Subscribe, TypeOK
    <2> QED
        BY <1>7, <2>1, <2>2, <2>3 DEF Subscribe, TypeOK, queueVars, dataVars
<1>8. ASSUME NEW s \in Sessions, ReadFails(s)
      PROVE  TypeOK'
    BY <1>8 DEF ReadFails, TypeOK, queueVars, hubVars, dataVars
<1>9. ASSUME NEW s \in Sessions, Unsubscribe(s)
      PROVE  TypeOK'
    <2>1. /\ subscribers' \in [Hubs -> SUBSET Sessions]
          /\ phase' \in [Sessions -> {"away", "accepted", "open", "closing", "ended"}]
        BY <1>9 DEF Unsubscribe, TypeOK
    <2>2. \A r \in Sessions, h \in Hubs :
             r \in subscribers'[h] <=> phase'[r] \in {"open", "closing"} /\ h = hubOf[r]
        BY <1>9 DEF Unsubscribe, TypeOK
    <2> QED
        BY <1>9, <2>1, <2>2 DEF Unsubscribe, TypeOK, queueVars, dataVars
<1>10. ASSUME NEW s \in Sessions, TakeFromChannel(s)
       PROVE  TypeOK'
    <2>1. /\ channel[s] \in Seq(1..emitted) /\ channel[s] # <<>>
          /\ Head(channel[s]) \in 1..emitted /\ Tail(channel[s]) \in Seq(1..emitted)
        BY <1>10 DEF TakeFromChannel, TypeOK
    <2>2. channel' \in [Sessions -> Seq(1..emitted)] /\ hand' \in [Sessions -> 0..emitted]
        BY <1>10, <2>1 DEF TakeFromChannel, TypeOK
    <2> QED
        BY <1>10, <2>2 DEF TakeFromChannel, TypeOK, queueVars, hubVars, sessionVars
<1>11. ASSUME NEW s \in Sessions, WriteEvent(s)
       PROVE  TypeOK'
    <2>1. Append(stream[s], hand[s]) \in Seq(1..emitted)
        BY <1>11 DEF WriteEvent, TypeOK
    <2>2. stream' \in [Sessions -> Seq(1..emitted)] /\ hand' \in [Sessions -> 0..emitted]
        BY <1>11, <2>1 DEF WriteEvent, TypeOK
    <2> QED
        BY <1>11, <2>2 DEF WriteEvent, TypeOK, queueVars, hubVars, sessionVars
<1>12. ASSUME NEW s \in Sessions, WriteFails(s) \/ WriterReturns(s)
       PROVE  TypeOK'
    <2>1. writer' \in [Sessions -> {"none", "running", "stopped"}]
        <3>1. writer' = [writer EXCEPT ![s] = "stopped"]
            BY <1>12 DEF WriteFails, WriterReturns
        <3> QED
            BY <3>1 DEF TypeOK
    <2>2. UNCHANGED <<queueVars, hubVars, phase, hubOf, joined, dataVars, forwarded>>
        BY <1>12 DEF WriteFails, WriterReturns
    <2> QED
        BY <2>1, <2>2 DEF TypeOK, queueVars, hubVars, dataVars
<1>13. CASE UNCHANGED vars
    BY <1>13 DEF TypeOK, vars, queueVars, hubVars, sessionVars, dataVars
<1> QED
    BY <1>1, <1>2, <1>3, <1>4, <1>5, <1>6, <1>7, <1>8, <1>9, <1>10, <1>11, <1>12, <1>13
       DEF Next

\* The hub's state keeps its types, and no hub holds a subscription whose channel
\* has been closed.
THEOREM TypeCorrect == Spec => []TypeOK
<1>1. Init => TypeOK
    BY TypeInit
<1>2. TypeOK /\ [Next]_vars => TypeOK'
    BY TypeStep
<1> QED
    BY <1>1, <1>2, PTL DEF Spec

-----------------------------------------------------------------------------
(* The order of the streams.  An event moves from the queue to a hub, to a   *)
(* channel, to a hand, to a phone; each place holds later events than the    *)
(* next one.  A session that has not subscribed has been given nothing.      *)

HandSet(s) == IF hand[s] = 0 THEN {} ELSE {hand[s]}
GivenSet(s) == EventsIn(stream[s]) \cup HandSet(s) \cup EventsIn(channel[s])

QueueOrdered == Increasing(source)
HubsOrdered == \A h \in Hubs : holding[h] # 0 => \A e \in EventsIn(source) : holding[h] < e
StreamsOrdered ==
    \A s \in Sessions :
        /\ Increasing(stream[s]) /\ Increasing(channel[s])
        /\ \A a \in EventsIn(stream[s]), b \in HandSet(s) \cup EventsIn(channel[s]) : a < b
        /\ \A a \in HandSet(s), b \in EventsIn(channel[s]) : a < b
GivenFirst ==
    \A s \in Sessions :
        /\ \A a \in GivenSet(s), e \in EventsIn(source) : a < e
        /\ \A a \in GivenSet(s) :
              hubOf[s] \in Hubs /\ holding[hubOf[s]] # 0 => a < holding[hubOf[s]]
NothingEarly ==
    \A s \in Sessions : phase[s] \in {"away", "accepted"} => GivenSet(s) = {}

OrderInv == QueueOrdered /\ HubsOrdered /\ StreamsOrdered /\ GivenFirst /\ NothingEarly

LEMMA OrderInit == Init => OrderInv
<1> SUFFICES ASSUME Init
             PROVE OrderInv
    OBVIOUS
<1>1. EventsIn(<<>>) = {} /\ Increasing(<<>>)
    BY DEF EventsIn, Increasing
<1>2. \A s \in Sessions : GivenSet(s) = {} /\ HandSet(s) = {}
    BY <1>1 DEF Init, GivenSet, HandSet
<1> QED
    BY <1>1, <1>2 DEF Init, OrderInv, QueueOrdered, HubsOrdered, StreamsOrdered, GivenFirst,
       NothingEarly

\* What the types say of the sequences and the sets made of them.
LEMMA Ranges ==
    ASSUME TypeOK
    PROVE /\ emitted \in Nat
          /\ source \in Seq(Nat) /\ EventsIn(source) \subseteq 1..emitted
          /\ \A h \in Hubs : holding[h] \in 0..emitted
          /\ \A s \in Sessions :
                /\ stream[s] \in Seq(Nat) /\ EventsIn(stream[s]) \subseteq 1..emitted
                /\ channel[s] \in Seq(Nat) /\ EventsIn(channel[s]) \subseteq 1..emitted
                /\ hand[s] \in 0..emitted /\ HandSet(s) \subseteq 1..emitted
                /\ GivenSet(s) \subseteq 1..emitted
<1>1. emitted \in Nat
    BY EventsAssumption DEF TypeOK
<1>2. ASSUME NEW q \in Seq(1..emitted)
      PROVE  q \in Seq(Nat) /\ EventsIn(q) \subseteq 1..emitted
    <2>1. 1..emitted \subseteq Nat
        BY <1>1
    <2>2. EventsIn(q) \subseteq 1..emitted
        BY EventsOf
    <2>3. q \in Seq(Nat)
        BY <2>1, SeqWider
    <2> QED
        BY <2>2, <2>3
<1>3. \A s \in Sessions : hand[s] \in 0..emitted /\ HandSet(s) \subseteq 1..emitted
    BY <1>1 DEF TypeOK, HandSet
<1>4. \A s \in Sessions : stream[s] \in Seq(1..emitted) /\ channel[s] \in Seq(1..emitted)
    BY DEF TypeOK
<1>5. source \in Seq(1..emitted) /\ \A h \in Hubs : holding[h] \in 0..emitted
    BY DEF TypeOK
<1> QED
    BY <1>1, <1>2, <1>3, <1>4, <1>5 DEF GivenSet

LEMMA OrderStep == TypeOK /\ OrderInv /\ [Next]_vars => OrderInv'
<1> SUFFICES ASSUME TypeOK, OrderInv, [Next]_vars
             PROVE OrderInv'
    OBVIOUS
<1> USE Ranges
<1>0. ASSUME UNCHANGED <<channel, hand, stream>>
      PROVE  \A s \in Sessions : HandSet(s)' = HandSet(s) /\ GivenSet(s)' = GivenSet(s)
    BY <1>0 DEF HandSet, GivenSet
<1>s. ASSUME UNCHANGED <<channel, hand, stream>>
      PROVE  StreamsOrdered'
    BY <1>s, <1>0 DEF StreamsOrdered, OrderInv
<1>1. CASE Publish
    <2>0. UNCHANGED <<channel, hand, stream, phase, hubOf, holding>>
        BY <1>1 DEF Publish, hubVars, sessionVars, dataVars
    <2>1. \A s \in Sessions : GivenSet(s)' = GivenSet(s)
        BY <1>0, <2>0
    <2>2. /\ Increasing(source')
          /\ EventsIn(source') \subseteq EventsIn(source) \cup {emitted + 1}
        <3>1. emitted + 1 \in Nat /\ \A d \in EventsIn(source) : d < emitted + 1
            OBVIOUS
        <3>2. /\ Increasing(Append(source, emitted + 1))
              /\ EventsIn(Append(source, emitted + 1)) = EventsIn(source) \cup {emitted + 1}
            BY <3>1, AppendInOrder DEF OrderInv, QueueOrdered
        <3> QED
            BY <1>1, <3>2 DEF Publish, OrderInv, QueueOrdered
    <2>3. HubsOrdered'
        BY <2>0, <2>2 DEF HubsOrdered, OrderInv
    <2>4. GivenFirst'
        BY <2>0, <2>1, <2>2 DEF GivenFirst, OrderInv
    <2>5. NothingEarly'
        BY <2>0, <2>1 DEF NothingEarly, OrderInv
    <2> QED
        BY <1>s, <2>0, <2>2, <2>3, <2>4, <2>5 DEF OrderInv, QueueOrdered
<1>2. CASE (\E listens \in BOOLEAN : OpenServer(listens)) \/ CloseServer
    <2>0. UNCHANGED <<channel, hand, stream, phase, hubOf, holding, source>>
        BY <1>2 DEF OpenServer, CloseServer, queueVars, sessionVars, dataVars
    <2> QED
        BY <1>0, <1>s, <2>0 DEF OrderInv, QueueOrdered, HubsOrdered, GivenFirst, NothingEarly
<1>3. ASSUME NEW h \in Hubs, TakeEvent(h)
      PROVE  OrderInv'
    <2>0. UNCHANGED <<channel, hand, stream, phase, hubOf>>
        BY <1>3 DEF TakeEvent, sessionVars, dataVars
    <2>1. \A s \in Sessions : GivenSet(s)' = GivenSet(s)
        BY <1>0, <2>0
    <2>2. /\ Head(source) \in EventsIn(source)
          /\ EventsIn(source') \subseteq EventsIn(source)
          /\ Increasing(source')
          /\ \A e \in EventsIn(source') : Head(source) < e
        BY <1>3, TakeFirst DEF TakeEvent, OrderInv, QueueOrdered
    <2>3. holding' = [holding EXCEPT ![h] = Head(source)] /\ holding \in [Hubs -> 0..emitted]
        BY <1>3 DEF TakeEvent, TypeOK
    <2>4. HubsOrdered'
        BY <2>2, <2>3 DEF HubsOrdered, OrderInv
    <2>5. GivenFirst'
        BY <2>0, <2>1, <2>2, <2>3 DEF GivenFirst, OrderInv
    <2>6. NothingEarly'
        BY <2>0, <2>1 DEF NothingEarly, OrderInv
    <2> QED
        BY <1>s, <2>0, <2>2, <2>4, <2>5, <2>6 DEF OrderInv, QueueOrdered
<1>4. ASSUME NEW h \in Hubs, Broadcast(h)
      PROVE  OrderInv'
    <2>0. UNCHANGED <<hand, stream, phase, hubOf, source, subscribers>>
        BY <1>4 DEF Broadcast, queueVars, sessionVars
    <2>1. holding' = [holding EXCEPT ![h] = 0] /\ holding \in [Hubs -> 0..emitted]
        BY <1>4 DEF Broadcast, TypeOK
    <2>2. ASSUME NEW s \in Sessions, s \in subscribers[h], channel'[s] # channel[s]
          PROVE  /\ hubOf[s] = h /\ phase[s] \in {"open", "closing"}
                 /\ Increasing(channel'[s])
                 /\ EventsIn(channel'[s]) = EventsIn(channel[s]) \cup {holding[h]}
                 /\ \A a \in GivenSet(s) : a < holding[h]
        <3>1. hubOf[s] = h /\ phase[s] \in {"open", "closing"}
            BY <2>2 DEF TypeOK
        <3>2. \A a \in GivenSet(s) : a < holding[h]
            BY <1>4, <3>1 DEF Broadcast, OrderInv, GivenFirst
        <3>3. channel'[s] = Append(channel[s], holding[h]) /\ holding[h] \in Nat
            BY <1>4, <2>2 DEF Broadcast
        <3>4. Increasing(channel[s]) /\ \A a \in EventsIn(channel[s]) : a < holding[h]
            BY <3>2 DEF OrderInv, StreamsOrdered, GivenSet
        <3> QED
            BY <3>1, <3>2, <3>3, <3>4, AppendInOrder
    <2>3. \A s \in Sessions : channel'[s] # channel[s] => s \in subscribers[h]
        BY <1>4 DEF Broadcast
    <2>4. \A s \in Sessions :
             /\ HandSet(s)' = HandSet(s)
             /\ channel'[s] # channel[s] => GivenSet(s)' = GivenSet(s) \cup {holding[h]}
             /\ channel'[s] = channel[s] => GivenSet(s)' = GivenSet(s)
        BY <2>0, <2>2, <2>3 DEF GivenSet, HandSet
    <2>5. StreamsOrdered'
        <3> SUFFICES ASSUME NEW s \in Sessions
                     PROVE /\ Increasing(stream'[s]) /\ Increasing(channel'[s])
                           /\ \A a \in EventsIn(stream'[s]),
                                 b \in HandSet(s)' \cup EventsIn(channel'[s]) : a < b
                           /\ \A a \in HandSet(s)', b \in EventsIn(channel'[s]) : a < b
            BY DEF StreamsOrdered
        <3>1. CASE channel'[s] = channel[s]
            BY <2>0, <2>4, <3>1 DEF OrderInv, StreamsOrdered
        <3>2. CASE channel'[s] # channel[s]
            <4>1. /\ Increasing(channel'[s])
                  /\ EventsIn(channel'[s]) = EventsIn(channel[s]) \cup {holding[h]}
                  /\ \A a \in GivenSet(s) : a < holding[h]
                BY <2>2, <2>3, <3>2
            <4>2. /\ Increasing(stream[s])
                  /\ \A a \in EventsIn(stream[s]), b \in HandSet(s) \cup EventsIn(channel[s]) :
                        a < b
                  /\ \A a \in HandSet(s), b \in EventsIn(channel[s]) : a < b
                BY DEF OrderInv, StreamsOrdered
            <4>3. \A a \in EventsIn(stream[s]) \cup HandSet(s) : a < holding[h]
                BY <4>1 DEF GivenSet
            <4>4. stream'[s] = stream[s] /\ HandSet(s)' = HandSet(s)
                BY <2>0, <2>4
            <4> QED
                BY <4>1, <4>2, <4>3, <4>4
        <3> QED
            BY <3>1, <3>2
    <2>6. GivenFirst'
        <3>1. holding[h] # 0
            BY <1>4 DEF Broadcast
        <3>2. \A e \in EventsIn(source) : holding[h] < e
            BY <3>1 DEF OrderInv, HubsOrdered
        <3> SUFFICES ASSUME NEW s \in Sessions
                     PROVE /\ \A a \in GivenSet(s)', e \in EventsIn(source') : a < e
                           /\ \A a \in GivenSet(s)' :
                                 hubOf'[s] \in Hubs /\ holding'[hubOf'[s]] # 0
                                    => a < holding'[hubOf'[s]]
            BY DEF GivenFirst
        <3>3. CASE channel'[s] = channel[s]
            BY <2>0, <2>1, <2>4, <3>3 DEF OrderInv, GivenFirst
        <3>4. CASE channel'[s] # channel[s]
            BY <2>0, <2>1, <2>2, <2>3, <2>4, <3>2, <3>4 DEF OrderInv, GivenFirst
        <3> QED
            BY <3>3, <3>4
    <2>7. HubsOrdered'
        BY <2>0, <2>1 DEF OrderInv, HubsOrdered
    <2>8. NothingEarly'
        BY <2>0, <2>2, <2>3, <2>4 DEF OrderInv, NothingEarly
    <2> QED
        BY <2>0, <2>5, <2>6, <2>7, <2>8 DEF OrderInv, QueueOrdered
<1>5. ASSUME NEW s \in Sessions, Accept(s)
      PROVE  OrderInv'
    <2>0. UNCHANGED <<channel, hand, stream, source, holding>>
        BY <1>5 DEF Accept, queueVars, hubVars, dataVars
    <2>1. \A r \in Sessions : GivenSet(r)' = GivenSet(r)
        BY <1>0, <2>0
    <2>2. GivenSet(s) = {}
        BY <1>5 DEF Accept, OrderInv, NothingEarly
    <2>3. \A r \in Sessions : r # s => hubOf'[r] = hubOf[r] /\ phase'[r] = phase[r]
        BY <1>5 DEF Accept, TypeOK
    <2>4. GivenFirst'
        <3> SUFFICES ASSUME NEW r \in Sessions
                     PROVE /\ \A a \in GivenSet(r), e \in EventsIn(source) : a < e
                           /\ \A a \in GivenSet(r) :
                                 hubOf'[r] \in Hubs /\ holding[hubOf'[r]] # 0
                                    => a < holding[hubOf'[r]]
            BY <2>0, <2>1 DEF GivenFirst
        <3> QED
            BY <2>2, <2>3 DEF OrderInv, GivenFirst
    <2>5. NothingEarly'
        BY <2>1, <2>2, <2>3 DEF OrderInv, NothingEarly
    <2> QED
        BY <1>s, <2>0, <2>4, <2>5 DEF OrderInv, QueueOrdered, HubsOrdered
<1>6. ASSUME NEW s \in Sessions, Subscribe(s) \/ ReadFails(s) \/ Unsubscribe(s)
      PROVE  OrderInv'
    <2>0. UNCHANGED <<channel, hand, stream, source, holding, hubOf>>
        BY <1>6 DEF Subscribe, ReadFails, Unsubscribe, queueVars, hubVars, dataVars
    <2>1. \A r \in Sessions : phase'[r] \in {"away", "accepted"} => phase'[r] = phase[r]
        BY <1>6 DEF Subscribe, ReadFails, Unsubscribe, TypeOK
    <2> QED
        BY <1>0, <1>s, <2>0, <2>1
           DEF OrderInv, QueueOrdered, HubsOrdered, GivenFirst, NothingEarly
<1>7. ASSUME NEW s \in Sessions, TakeFromChannel(s)
      PROVE  OrderInv'
    <2>0. UNCHANGED <<stream, phase, hubOf, source, holding>>
        BY <1>7 DEF TakeFromChannel, queueVars, hubVars, sessionVars
    <2>1. /\ Head(channel[s]) \in EventsIn(channel[s])
          /\ EventsIn(channel[s]) = {Head(channel[s])} \cup EventsIn(Tail(channel[s]))
          /\ Increasing(Tail(channel[s]))
          /\ \A e \in EventsIn(Tail(channel[s])) : Head(channel[s]) < e
        BY <1>7, TakeFirst DEF TakeFromChannel, OrderInv, StreamsOrdered
    <2>2. /\ channel'[s] = Tail(channel[s]) /\ hand'[s] = Head(channel[s]) /\ hand[s] = 0
          /\ \A r \in Sessions : r # s => channel'[r] = channel[r] /\ hand'[r] = hand[r]
        BY <1>7 DEF TakeFromChannel, TypeOK
    <2>3. Head(channel[s]) # 0
        BY <2>1
    <2>4. /\ HandSet(s) = {} /\ HandSet(s)' = {Head(channel[s])}
          /\ GivenSet(s)' = GivenSet(s)
        BY <2>0, <2>1, <2>2, <2>3 DEF HandSet, GivenSet
    <2>5. \A r \in Sessions : r # s => HandSet(r)' = HandSet(r) /\ GivenSet(r)' = GivenSet(r)
        BY <2>0, <2>2 DEF HandSet, GivenSet
    <2>6. StreamsOrdered'
        BY <2>0, <2>1, <2>2, <2>4, <2>5 DEF OrderInv, StreamsOrdered
    <2>7. \A r \in Sessions : GivenSet(r)' = GivenSet(r)
        BY <2>4, <2>5
    <2> QED
        BY <2>0, <2>6, <2>7 DEF OrderInv, QueueOrdered, HubsOrdered, GivenFirst, NothingEarly
<1>8. ASSUME NEW s \in Sessions, WriteEvent(s)
      PROVE  OrderInv'
    <2>0. UNCHANGED <<channel, phase, hubOf, source, holding>>
        BY <1>8 DEF WriteEvent, queueVars, hubVars, sessionVars
    <2>1. /\ stream'[s] = Append(stream[s], hand[s]) /\ hand'[s] = 0 /\ hand[s] # 0
          /\ \A r \in Sessions : r # s => stream'[r] = stream[r] /\ hand'[r] = hand[r]
        BY <1>8 DEF WriteEvent, TypeOK
    <2>2. hand[s] \in Nat /\ HandSet(s) = {hand[s]}
        BY <2>1 DEF HandSet
    <2>3. /\ Increasing(stream[s])
          /\ \A a \in EventsIn(stream[s]) : a < hand[s]
          /\ \A a \in EventsIn(stream[s]), b \in EventsIn(channel[s]) : a < b
          /\ \A b \in EventsIn(channel[s]) : hand[s] < b
        BY <2>2 DEF OrderInv, StreamsOrdered
    <2>4. /\ Increasing(stream'[s])
          /\ EventsIn(stream'[s]) = EventsIn(stream[s]) \cup {hand[s]}
        BY <2>1, <2>2, <2>3, AppendInOrder
    <2>5. HandSet(s)' = {} /\ GivenSet(s)' = GivenSet(s)
        BY <2>0, <2>1, <2>2, <2>4 DEF HandSet, GivenSet
    <2>6. \A r \in Sessions : r # s => HandSet(r)' = HandSet(r) /\ GivenSet(r)' = GivenSet(r)
        BY <2>0, <2>1 DEF HandSet, GivenSet
    <2>7. StreamsOrdered'
        <3> SUFFICES ASSUME NEW r \in Sessions
                     PROVE /\ Increasing(stream'[r]) /\ Increasing(channel'[r])
                           /\ \A a \in EventsIn(stream'[r]),
                                 b \in HandSet(r)' \cup EventsIn(channel'[r]) : a < b
                           /\ \A a \in HandSet(r)', b \in EventsIn(channel'[r]) : a < b
            BY DEF StreamsOrdered
        <3>1. CASE r = s
            BY <2>0, <2>3, <2>4, <2>5, <3>1 DEF OrderInv, StreamsOrdered
        <3>2. CASE r # s
            BY <2>0, <2>1, <2>6, <3>2 DEF OrderInv, StreamsOrdered
        <3> QED
            BY <3>1, <3>2
    <2>8. \A r \in Sessions : GivenSet(r)' = GivenSet(r)
        BY <2>5, <2>6
    <2> QED
        BY <2>0, <2>7, <2>8 DEF OrderInv, QueueOrdered, HubsOrdered, GivenFirst, NothingEarly
<1>9. CASE (\E s \in Sessions : WriteFails(s) \/ WriterReturns(s)) \/ UNCHANGED vars
    <2>0. UNCHANGED <<channel, hand, stream, phase, hubOf, source, holding>>
        BY <1>9 DEF WriteFails, WriterReturns, vars, queueVars, hubVars, sessionVars, dataVars
    <2> QED
        BY <1>0, <1>s, <2>0 DEF OrderInv, QueueOrdered, HubsOrdered, GivenFirst, NothingEarly
<1> QED
    BY <1>1, <1>2, <1>3, <1>4, <1>5, <1>6, <1>7, <1>8, <1>9 DEF Next

\* What a session has been given is the set the invariant speaks of, in order.
LEMMA GivenInOrder ==
    ASSUME TypeOK, StreamsOrdered, NEW s \in Sessions
    PROVE EventsIn(Given(s)) = GivenSet(s) /\ Increasing(Given(s))
<1> DEFINE inHand == IF hand[s] = 0 THEN <<>> ELSE <<hand[s]>>
<1>1. stream[s] \in Seq(Nat) /\ channel[s] \in Seq(Nat) /\ hand[s] \in Nat
    BY Ranges
<1>2. inHand \in Seq(Nat) /\ EventsIn(inHand) = HandSet(s) /\ Increasing(inHand)
    <2>1. CASE hand[s] = 0
        BY <2>1 DEF EventsIn, HandSet, Increasing
    <2>2. CASE hand[s] # 0
        <3>1. inHand = <<hand[s]>> /\ DOMAIN inHand = 1..1 /\ inHand[1] = hand[s]
            BY <2>2
        <3>2. EventsIn(inHand) = {hand[s]}
            BY <3>1 DEF EventsIn
        <3>3. Increasing(inHand)
            BY <3>1 DEF Increasing
        <3> QED
            BY <1>1, <2>2, <3>1, <3>2, <3>3 DEF HandSet
    <2> QED
        BY <2>1, <2>2
<1> HIDE DEF inHand
<1>3. /\ Increasing(stream[s]) /\ Increasing(channel[s])
      /\ \A a \in EventsIn(stream[s]), b \in HandSet(s) \cup EventsIn(channel[s]) : a < b
      /\ \A a \in HandSet(s), b \in EventsIn(channel[s]) : a < b
    BY DEF StreamsOrdered
<1>4. /\ stream[s] \o inHand \in Seq(Nat)
      /\ EventsIn(stream[s] \o inHand) = EventsIn(stream[s]) \cup HandSet(s)
      /\ Increasing(stream[s] \o inHand)
    BY <1>1, <1>2, <1>3, JoinInOrder
<1>5. /\ EventsIn((stream[s] \o inHand) \o channel[s])
            = EventsIn(stream[s]) \cup HandSet(s) \cup EventsIn(channel[s])
      /\ Increasing((stream[s] \o inHand) \o channel[s])
    BY <1>1, <1>3, <1>4, JoinInOrder
<1>6. Given(s) = (stream[s] \o inHand) \o channel[s]
    BY DEF Given, inHand
<1> QED
    BY <1>5, <1>6 DEF GivenSet

\* Every phone sees codex's events in the order codex sent them and none twice,
\* whatever the number of hubs that take from the one queue.
THEOREM StreamsInOrder == Spec => []InOrder
<1>1. Init => TypeOK /\ OrderInv
    BY TypeInit, OrderInit
<1>2. (TypeOK /\ OrderInv) /\ [Next]_vars => (TypeOK /\ OrderInv)'
    BY TypeStep, OrderStep
<1>3. TypeOK /\ OrderInv => InOrder
    BY GivenInOrder DEF InOrder, OrderInv
<1> QED
    BY <1>1, <1>2, <1>3, PTL DEF Spec

-----------------------------------------------------------------------------
(* One hub *)

\* What a hub has broadcast since a live session subscribed has been given to
\* that session, or turned away at its full channel.
Accounted ==
    \A s \in Sessions : phase[s] \in {"open", "closing"} =>
        \A e \in forwarded : e > joined[s] => e \in GivenSet(s) \cup shed[s]

LEMMA AccountedInit == Init => Accounted
BY DEF Init, Accounted

LEMMA AccountedStep ==
    MaxHubs = 1 /\ TypeOK /\ Accounted /\ [Next]_vars => Accounted'
<1> SUFFICES ASSUME MaxHubs = 1, TypeOK, Accounted, [Next]_vars
             PROVE Accounted'
    OBVIOUS
<1> USE Ranges
<1>0. ASSUME UNCHANGED <<channel, hand, stream>>
      PROVE  \A s \in Sessions : GivenSet(s)' = GivenSet(s)
    BY <1>0 DEF HandSet, GivenSet
<1>1. CASE \/ Publish \/ CloseServer \/ (\E listens \in BOOLEAN : OpenServer(listens))
           \/ (\E h \in Hubs : TakeEvent(h)) \/ UNCHANGED vars
           \/ (\E s \in Sessions : WriteFails(s) \/ WriterReturns(s))
    <2>1. UNCHANGED <<channel, hand, stream, phase, joined, forwarded, shed>>
        BY <1>1 DEF Publish, CloseServer, OpenServer, TakeEvent, WriteFails, WriterReturns,
           vars, sessionVars, dataVars
    <2> QED
        BY <1>0, <2>1 DEF Accounted
<1>2. ASSUME NEW h \in Hubs, Broadcast(h)
      PROVE  Accounted'
    <2>0. UNCHANGED <<hand, stream, phase, joined>>
        BY <1>2 DEF Broadcast, sessionVars
    <2>1. forwarded' = forwarded \cup {holding[h]}
        BY <1>2 DEF Broadcast
    <2> SUFFICES ASSUME NEW s \in Sessions, phase[s] \in {"open", "closing"},
                        NEW e \in forwarded', e > joined[s]
                 PROVE e \in GivenSet(s)' \cup shed'[s]
        BY <2>0 DEF Accounted
    <2>2. s \in subscribers[h]
        BY DEF TypeOK, Hubs
    <2>3. CASE HasRoom(s)
        <3>1. channel'[s] = Append(channel[s], holding[h]) /\ shed'[s] = shed[s]
            BY <1>2, <2>2, <2>3 DEF Broadcast
        <3>2. EventsIn(channel'[s]) = EventsIn(channel[s]) \cup {holding[h]}
            <4>1. channel[s] \in Seq(Nat) /\ holding[h] \in Nat
                OBVIOUS
            <4> QED
                BY <3>1, <4>1, AppendInOrder
        <3>3. GivenSet(s)' = GivenSet(s) \cup {holding[h]}
            BY <2>0, <3>2 DEF GivenSet, HandSet
        <3> QED
            BY <2>1, <3>1, <3>3 DEF Accounted
    <2>4. CASE ~HasRoom(s)
        <3>1. channel'[s] = channel[s] /\ shed'[s] = shed[s] \cup {holding[h]}
            BY <1>2, <2>2, <2>4 DEF Broadcast
        <3>2. GivenSet(s)' = GivenSet(s)
            BY <2>0, <3>1 DEF GivenSet, HandSet
        <3> QED
            BY <2>1, <3>1, <3>2 DEF Accounted
    <2> QED
        BY <2>3, <2>4
<1>3. ASSUME NEW s \in Sessions, Accept(s) \/ ReadFails(s) \/ Unsubscribe(s)
      PROVE  Accounted'
    <2>1. UNCHANGED <<channel, hand, stream, joined, forwarded, shed>>
        BY <1>3 DEF Accept, ReadFails, Unsubscribe, sessionVars, dataVars
    <2>2. \A r \in Sessions : phase'[r] \in {"open", "closing"}
                                  => phase[r] \in {"open", "closing"}
        BY <1>3 DEF Accept, ReadFails, Unsubscribe, TypeOK
    <2> QED
        BY <1>0, <2>1, <2>2 DEF Accounted
<1>4. ASSUME NEW s \in Sessions, Subscribe(s)
      PROVE  Accounted'
    <2>1. UNCHANGED <<channel, hand, stream, forwarded, shed>>
        BY <1>4 DEF Subscribe, dataVars
    <2>2. /\ joined'[s] = emitted
          /\ \A r \in Sessions : r # s => joined'[r] = joined[r] /\ phase'[r] = phase[r]
        BY <1>4 DEF Subscribe, TypeOK
    <2>3. \A e \in forwarded : ~(e > emitted)
        BY DEF TypeOK
    <2> QED
        BY <1>0, <2>1, <2>2, <2>3 DEF Accounted
<1>5. ASSUME NEW s \in Sessions, TakeFromChannel(s) \/ WriteEvent(s)
      PROVE  Accounted'
    <2>0. UNCHANGED <<phase, joined, forwarded, shed>>
        BY <1>5 DEF TakeFromChannel, WriteEvent, sessionVars
    <2>1. \A r \in Sessions : r # s => GivenSet(r)' = GivenSet(r)
        BY <1>5 DEF TakeFromChannel, WriteEvent, GivenSet, HandSet, TypeOK
    <2>2. CASE TakeFromChannel(s)
        <3>1. /\ stream' = stream /\ hand[s] = 0 /\ channel[s] # <<>>
              /\ hand'[s] = Head(channel[s]) /\ channel'[s] = Tail(channel[s])
            BY <2>2 DEF TakeFromChannel, TypeOK
        <3>2. /\ Head(channel[s]) \in EventsIn(channel[s])
              /\ EventsIn(channel[s]) = {Head(channel[s])} \cup EventsIn(Tail(channel[s]))
            BY <3>1, TakeFirst
        <3>3. Head(channel[s]) # 0
            BY <3>2
        <3>4. GivenSet(s)' = GivenSet(s)
            BY <3>1, <3>2, <3>3 DEF GivenSet, HandSet
        <3> QED
            BY <2>0, <2>1, <3>4 DEF Accounted
    <2>3. CASE WriteEvent(s)
        <3>1. /\ channel' = channel /\ hand[s] # 0 /\ hand[s] \in Nat
              /\ hand'[s] = 0 /\ stream'[s] = Append(stream[s], hand[s])
            BY <2>3 DEF WriteEvent, TypeOK
        <3>2. EventsIn(stream'[s]) = EventsIn(stream[s]) \cup {hand[s]}
            BY <3>1, AppendInOrder
        <3>3. GivenSet(s)' = GivenSet(s)
            BY <3>1, <3>2 DEF GivenSet, HandSet
        <3> QED
            BY <2>0, <2>1, <3>3 DEF Accounted
    <2> QED
        BY <1>5, <2>2, <2>3
<1> QED
    BY <1>1, <1>2, <1>3, <1>4, <1>5 DEF Next

\* With one hub, as in the daemon and in a desktop application that has kept its
\* first listening address, no broadcast event is lost to a session but at the
\* session's own full channel.
THEOREM NothingLostWithOneHub ==
    ASSUME MaxHubs = 1
    PROVE  Spec => []EveryEventReachesAll
<1>1. Init => TypeOK /\ OrderInv /\ Accounted
    BY TypeInit, OrderInit, AccountedInit
<1>2. (TypeOK /\ OrderInv /\ Accounted) /\ [Next]_vars => (TypeOK /\ OrderInv /\ Accounted)'
    BY TypeStep, OrderStep, AccountedStep
<1>3. TypeOK /\ OrderInv /\ Accounted => EveryEventReachesAll
    BY GivenInOrder DEF EveryEventReachesAll, OrderInv, Accounted
<1> QED
    BY <1>1, <1>2, <1>3, PTL DEF Spec

=============================================================================
