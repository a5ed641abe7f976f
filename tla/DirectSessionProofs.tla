------------------------- MODULE DirectSessionProofs -------------------------
(***************************************************************************)
(* DirectSession: types, and that the handshake neither connects without   *)
(* an accept nor, unless callers acknowledge packets themselves, gets      *)
(* lost, for any timing, any bounds and any network.                       *)
(***************************************************************************)
EXTENDS DirectSession, TLAPS

USE DEF Ends, Roles, Nobody, Stranger

\* The packets an end still holds for retransmission.
Held(e) == {q.packet : q \in pending[e]}
HeldNext(e) == {q.packet : q \in pending'[e]}

-----------------------------------------------------------------------------
(* The network and the queue.                                              *)

LEMMA SentParts ==
    ASSUME NEW flight \in [Ends -> SUBSET Packet], NEW to,
           NEW packets \in SUBSET Packet
    PROVE  /\ Sent(flight, to, packets) \in [Ends -> SUBSET Packet]
           /\ \A e \in Ends : \A m \in Sent(flight, to, packets)[e] :
                m \in flight[e] \/ (e = to /\ m \in packets)
BY DEF Sent

LEMMA FlightParts ==
    ASSUME net \in [Ends -> SUBSET Packet], NEW p \in Ends, NEW m,
           NEW flight \in Consumed(p, m)
    PROVE  /\ flight \in [Ends -> SUBSET Packet]
           /\ \A e \in Ends : flight[e] \subseteq net[e]
BY DEF Consumed

LEMMA ResentParts ==
    ASSUME NEW queue \in SUBSET Tracked
    PROVE  /\ Resent(queue) \in SUBSET Tracked
           /\ {q.packet : q \in Resent(queue)} = {q.packet : q \in queue}
<1> DEFINE r(q) == [q EXCEPT !.age = IF q \in Due(queue) THEN 0 ELSE @]
<1>1. ASSUME NEW q \in queue PROVE r(q) \in Tracked /\ r(q).packet = q.packet
  <2>1. q \in Tracked
    OBVIOUS
  <2> QED BY <2>1, TimingAssumption DEF Tracked
<1>2. Resent(queue) = {r(q) : q \in queue}
  BY DEF Resent
<1> HIDE DEF r
<1>3. {q.packet : q \in Resent(queue)} = {q.packet : q \in queue}
  <2>1. ASSUME NEW q \in Resent(queue) PROVE \E o \in queue : o.packet = q.packet
    BY <1>1, <1>2
  <2>2. ASSUME NEW q \in queue PROVE \E o \in Resent(queue) : o.packet = q.packet
    BY <1>1, <1>2
  <2> QED BY <2>1, <2>2
<1> QED BY <1>1, <1>2, <1>3

LEMMA AckedParts ==
    ASSUME NEW e \in Ends, pending \in [Ends -> SUBSET Tracked], NEW m
    PROVE  /\ AckedBy(e, m) \in SUBSET Tracked
           /\ \A q \in pending[e] :
                q \in AckedBy(e, m) <=> (m.ack = 0 \/ q.packet.seq # m.ack)
           /\ AckedBy(e, m) \subseteq pending[e]
BY DEF AckedBy, Acknowledged

LEMMA TrackParts ==
    ASSUME NEW queue \in SUBSET Tracked, NEW k \in Packet,
           k.kind \in Reliable, k.seq # 0
    PROVE  /\ Track(queue, k) \in SUBSET Tracked
           /\ \A q \in Track(queue, k) : q \in queue \/ q.packet = k
           /\ queue \subseteq Track(queue, k)
           /\ \E q \in Track(queue, k) : q.packet = k
<1>1. [packet |-> k, age |-> 0] \in Tracked
  BY TimingAssumption DEF Tracked
<1>2. [packet |-> k, age |-> 0].packet = k
  OBVIOUS
<1>3. Track(queue, k) = queue \cup {[packet |-> k, age |-> 0]}
  BY DEF Track
<1> QED BY <1>1, <1>2, <1>3

-----------------------------------------------------------------------------
(* Types.                                                                  *)

\* The bounds on hellos and accepts bound what is allocated.
Numbered ==
    /\ nextSeq["client"] \in 1 .. MaxHello + 1
    /\ state["client"] = "connected" => nextSeq["client"] <= MaxHello
    /\ nextSeq["host"] \in 1 .. MaxAccept + 1

Typed == TypeOK /\ Numbered

LEMMA PlainType ==
    ASSUME NEW p \in Ends, NEW kind \in Kinds, NEW ack \in Seqs
    PROVE  Plain(p, kind, ack) \in Packet
BY BoundAssumption DEF Plain, Packet, Seqs

LEMMA HelloType ==
    ASSUME Typed, nextSeq["client"] <= MaxHello
    PROVE  Hello \in Packet /\ Hello.kind \in Reliable /\ Hello.seq # 0
BY BoundAssumption DEF Typed, Numbered, Hello, Packet, Kinds, Reliable, Seqs

LEMMA AcceptType ==
    ASSUME Typed, NEW m \in Packet, nextSeq["host"] <= MaxAccept
    PROVE  Accept(m) \in Packet /\ Accept(m).kind \in Reliable /\ Accept(m).seq # 0
BY BoundAssumption DEF Typed, Numbered, Accept, Packet, Kinds, Reliable, Seqs

LEMMA CallerType ==
    ASSUME NEW p \in Ends, NEW m \in CallerPackets(p)
    PROVE  /\ m \in Packet /\ m.from = p /\ m.kind \notin Reliable
           /\ CallersAcknowledgeNothing => m.seq = 0 /\ m.ack = 0
BY CallerAssumption DEF CallerPackets, Packet, Kinds, Reliable, CallersAcknowledgeNothing

\* What a third endpoint sends acknowledges no more than the callers do.
LEMMA StrangerType ==
    ASSUME NEW m \in StrangerPackets
    PROVE  /\ m \in Packet /\ m.from = Stranger /\ m.kind # "accept"
           /\ CallersAcknowledgeNothing => m.ack = 0
<1>1. m \in [from : {Stranger}, kind : {"hello", "ping", "disconnect"},
             seq : {1}, ack : CallerNumbers]
  BY DEF StrangerPackets
<1>2. 1 \in Seqs /\ CallerNumbers \subseteq Seqs
  BY BoundAssumption, CallerAssumption DEF Seqs
<1> QED BY <1>1, <1>2 DEF Packet, Kinds, CallersAcknowledgeNothing

LEMMA InFlightType ==
    ASSUME net \in [Ends -> SUBSET Packet], NEW p \in Ends,
           NEW m \in net[p] \cup (IF p = "host" THEN StrangerPackets ELSE {})
    PROVE  m \in Packet
BY StrangerType

LEMMA TypedInit == Init => Typed
BY BoundAssumption, TimingAssumption
   DEF Init, Typed, TypeOK, Numbered, States, Seqs

LEMMA ConnectedTyped ==
    ASSUME Typed, NEW p \in Ends, MarkConnected(p)
    PROVE  /\ state' \in [Ends -> States] /\ heard' \in [Ends -> 0 .. Liveness]
           /\ beat' \in [Ends -> 0 .. Heartbeat] /\ since' \in [Ends -> 0 .. Reconnect]
BY TimingAssumption DEF MarkConnected, Typed, TypeOK, States

LEMMA DisconnectedTyped ==
    ASSUME Typed, NEW p \in Ends, MarkDisconnected(p)
    PROVE  /\ state' \in [Ends -> States] /\ heard' \in [Ends -> 0 .. Liveness]
           /\ beat' \in [Ends -> 0 .. Heartbeat] /\ since' \in [Ends -> 0 .. Reconnect]
BY TimingAssumption DEF MarkDisconnected, Typed, TypeOK, States

LEMMA TickTyped == ASSUME Typed, Tick PROVE Typed'
<1> DEFINE Aged(clock, limit) == IF clock < limit THEN clock + 1 ELSE limit
<1>1. ASSUME NEW limit \in Nat, NEW c \in 0 .. limit PROVE Aged(c, limit) \in 0 .. limit
  OBVIOUS
<1>2. /\ heard' = [p \in Ends |-> Aged(heard[p], Liveness)]
      /\ beat' = [p \in Ends |-> Aged(beat[p], Heartbeat)]
      /\ since' = [p \in Ends |-> Aged(since[p], Reconnect)]
      /\ pending' = [p \in Ends |->
                       {[q EXCEPT !.age = Aged(@, Retry)] : q \in pending[p]}]
      /\ UNCHANGED <<state, remote, nextSeq, helloSeq, polling, net, accepted>>
  BY DEF Tick
<1> HIDE DEF Aged
<1>3. heard' \in [Ends -> 0 .. Liveness] /\ beat' \in [Ends -> 0 .. Heartbeat]
        /\ since' \in [Ends -> 0 .. Reconnect]
  BY <1>1, <1>2, TimingAssumption DEF Typed, TypeOK
<1>4. ASSUME NEW q \in Tracked PROVE [q EXCEPT !.age = Aged(@, Retry)] \in Tracked
  BY <1>1, TimingAssumption DEF Tracked
<1>5. pending' \in [Ends -> SUBSET Tracked]
  BY <1>2, <1>4 DEF Typed, TypeOK
<1> QED BY <1>2, <1>3, <1>5 DEF Typed, TypeOK, Numbered

LEMMA CallsTyped ==
    ASSUME Typed, NEW p \in Ends,
           Lose \/ Connect \/ ConnectFails \/ Send(p) \/ Disconnect(p)
    PROVE  Typed'
<1> USE TimingAssumption, BoundAssumption
<1>1. CASE Lose
  <2>1. net' \in [Ends -> SUBSET Packet]
    BY <1>1 DEF Lose, Typed, TypeOK
  <2> QED BY <1>1, <2>1 DEF Lose, Typed, TypeOK, Numbered, clocks
<1>2. CASE Connect
  <2>1. Hello \in Packet /\ Hello.kind \in Reliable /\ Hello.seq # 0
    BY <1>2, HelloType DEF Connect, Typed, Numbered
  <2>2. pending["client"] \in SUBSET Tracked
    BY DEF Typed, TypeOK
  <2>3. Track(pending["client"], Hello) \in SUBSET Tracked
    BY <2>1, <2>2, TrackParts
  <2>4. pending' \in [Ends -> SUBSET Tracked]
    BY <1>2, <2>3 DEF Connect, SendNewHello, Typed, TypeOK
  <2>5. Sent(net, "host", {Hello}) \in [Ends -> SUBSET Packet]
    BY <2>1, SentParts DEF Typed, TypeOK
  <2>6. net' \in [Ends -> SUBSET Packet]
    BY <1>2, <2>5 DEF Connect, SendNewHello
  <2>7. /\ helloSeq' \in Seqs /\ nextSeq' \in [Ends -> Seqs \cup {MaxHello + MaxAccept + 1}]
        /\ Numbered'
    BY <1>2 DEF Connect, SendNewHello, Typed, TypeOK, Numbered, Seqs
  <2> QED BY <1>2, <2>4, <2>6, <2>7 DEF Connect, Typed, TypeOK, clocks, States
<1>3. CASE ConnectFails
  <2>1. /\ helloSeq' \in Seqs /\ nextSeq' \in [Ends -> Seqs \cup {MaxHello + MaxAccept + 1}]
        /\ Numbered'
    BY <1>3 DEF ConnectFails, Typed, TypeOK, Numbered, Seqs
  <2>2. remote' \in [Ends -> Ends \cup {Stranger, Nobody}]
    BY <1>3 DEF ConnectFails, Typed, TypeOK
  <2> QED BY <1>3, <2>1, <2>2 DEF ConnectFails, Typed, TypeOK, clocks
<1>4. CASE Send(p)
  <2>1. PICK m \in CallerPackets(p) : net' = Sent(net, remote[p], {m})
    BY <1>4 DEF Send
  <2>2. Sent(net, remote[p], {m}) \in [Ends -> SUBSET Packet]
    BY CallerType, SentParts DEF Typed, TypeOK
  <2> QED BY <1>4, <2>1, <2>2 DEF Send, Typed, TypeOK, Numbered, clocks
<1>5. CASE Disconnect(p)
  <2>1. Plain(p, "disconnect", 0) \in Packet
    BY PlainType DEF Kinds, Seqs
  <2>2. Sent(net, remote[p], {Plain(p, "disconnect", 0)}) \in [Ends -> SUBSET Packet]
    BY <2>1, SentParts DEF Typed, TypeOK
  <2>3. MarkDisconnected(p) /\ Numbered'
    BY <1>5 DEF Disconnect, MarkDisconnected, Typed, TypeOK, Numbered
  <2> QED BY <1>5, <2>2, <2>3, DisconnectedTyped DEF Disconnect, Typed, TypeOK
<1> QED BY <1>1, <1>2, <1>3, <1>4, <1>5

LEMMA PollTyped ==
    ASSUME Typed, NEW p \in Ends,
           PollExpires(p) \/ PollBegin(p) \/ PollEnd(p) \/ PollAborts(p)
    PROVE  Typed'
<1> USE TimingAssumption, BoundAssumption
<1>1. CASE PollExpires(p)
  <2>1. MarkDisconnected(p) /\ Numbered'
    BY <1>1 DEF PollExpires, MarkDisconnected, Typed, TypeOK, Numbered
  <2> QED BY <1>1, <2>1, DisconnectedTyped DEF PollExpires, Typed, TypeOK
<1>2. CASE PollBegin(p)
  <2>1. PICK out : /\ out \in SUBSET Held(p)
                   /\ net' = Sent(net, remote[p], out)
    BY <1>2 DEF PollBegin, Due, Held
  <2>2. Held(p) \subseteq Packet
    BY DEF Held, Typed, TypeOK, Tracked
  <2>3. net' \in [Ends -> SUBSET Packet]
    BY <2>1, <2>2, SentParts DEF Typed, TypeOK
  <2>4. pending' \in [Ends -> SUBSET Tracked]
    BY <1>2, ResentParts DEF PollBegin, Typed, TypeOK
  <2>5. polling' \in Ends \cup {Nobody}
    BY <1>2 DEF PollBegin
  <2> QED BY <1>2, <2>3, <2>4, <2>5 DEF PollBegin, Typed, TypeOK, Numbered, clocks
<1>3. CASE PollEnd(p) /\ Silent(p) /\ BeginReconnect(p)
  <2>1. /\ state' \in [Ends -> States] /\ heard' \in [Ends -> 0 .. Liveness]
        /\ beat' \in [Ends -> 0 .. Heartbeat] /\ since' \in [Ends -> 0 .. Reconnect]
    BY <1>3 DEF BeginReconnect, Typed, TypeOK, States
  <2>2. polling' \in Ends \cup {Nobody} /\ UNCHANGED <<remote, accepted>>
    BY <1>3 DEF PollEnd
  <2>3. CASE p = "client"
    <3>1. PICK ok : SendNewHello(ok)
      BY <1>3, <2>3 DEF BeginReconnect
    <3>2. nextSeq["client"] <= MaxHello
      BY <1>3, <2>3 DEF Silent, Typed, Numbered
    <3>3. Hello \in Packet /\ Hello.kind \in Reliable /\ Hello.seq # 0
      BY <3>2, HelloType
    <3>4. Track(pending["client"], Hello) \in SUBSET Tracked
      BY <3>3, TrackParts DEF Typed, TypeOK
    <3>5. pending' \in [Ends -> SUBSET Tracked]
      BY <3>1, <3>4 DEF SendNewHello, Typed, TypeOK
    <3>6. Sent(net, "host", {Hello}) \in [Ends -> SUBSET Packet]
      BY <3>3, SentParts DEF Typed, TypeOK
    <3>7. net' \in [Ends -> SUBSET Packet]
      BY <3>1, <3>6 DEF SendNewHello, Typed, TypeOK
    <3>8. state'["client"] = "reconnecting"
      BY <1>3, <2>3 DEF BeginReconnect, Typed, TypeOK
    <3>9. /\ helloSeq' \in Seqs /\ nextSeq' \in [Ends -> Seqs \cup {MaxHello + MaxAccept + 1}]
          /\ Numbered'
      BY <3>1, <3>2, <3>8 DEF SendNewHello, Typed, TypeOK, Numbered, Seqs
    <3> QED BY <2>1, <2>2, <3>5, <3>7, <3>9 DEF Typed, TypeOK
  <2>4. CASE p # "client"
    <3>1. UNCHANGED <<helloSeq, nextSeq, pending, net>>
      BY <1>3, <2>4 DEF BeginReconnect
    <3>2. state'["client"] = state["client"]
      BY <1>3, <2>4 DEF BeginReconnect, Typed, TypeOK
    <3> QED BY <2>1, <2>2, <3>1, <3>2 DEF Typed, TypeOK, Numbered
  <2> QED BY <2>3, <2>4
<1>4. CASE /\ PollEnd(p)
           /\ net' = Sent(net, remote[p], {Plain(p, "ping", 0)})
           /\ beat' = [beat EXCEPT ![p] = 0]
           /\ UNCHANGED <<state, pending, nextSeq, helloSeq, heard, since>>
  <2>1. Plain(p, "ping", 0) \in Packet
    BY PlainType DEF Kinds, Seqs
  <2>2. Sent(net, remote[p], {Plain(p, "ping", 0)}) \in [Ends -> SUBSET Packet]
    BY <2>1, SentParts DEF Typed, TypeOK
  <2>3. /\ state' = state /\ remote' = remote /\ pending' = pending
        /\ nextSeq' = nextSeq /\ helloSeq' = helloSeq /\ heard' = heard
        /\ since' = since /\ accepted' = accepted /\ polling' = Nobody
        /\ net' \in [Ends -> SUBSET Packet]
    BY <1>4, <2>2 DEF PollEnd
  <2>4. beat' \in [Ends -> 0 .. Heartbeat]
    BY <1>4, BoundAssumption DEF Typed, TypeOK
  <2> QED BY <2>3, <2>4 DEF Typed, TypeOK, Numbered
<1>5. CASE /\ PollEnd(p)
           /\ UNCHANGED <<state, pending, nextSeq, helloSeq, clocks, net>>
  BY <1>5 DEF PollEnd, Typed, TypeOK, Numbered, clocks
<1>6. CASE PollAborts(p)
  BY <1>6 DEF PollAborts, Typed, TypeOK, Numbered, clocks
<1>7. CASE PollEnd(p)
  BY <1>3, <1>4, <1>5, <1>7 DEF PollEnd
<1> QED BY <1>1, <1>2, <1>6, <1>7

\* What poll() does with one datagram.
Received(p, m, flight) ==
    \/ ReceiveIgnored(p, m, flight)
    \/ ReceiveDisconnect(p, m, flight)
    \/ p = "host" /\ ReceiveHello(m, flight)
    \/ p = "host" /\ ReceiveHelloFails(m, flight)
    \/ p = "client" /\ ReceiveAccept(m, flight)
    \/ ReceiveUnused(p, m, flight)
    \/ ReceiveConnected(p, m, flight)

LEMMA ReceiveTyped == ASSUME Typed, NEW p \in Ends, PollReceive(p) PROVE Typed'
<1> USE TimingAssumption, BoundAssumption
<1>0. PICK m \in net[p] \cup (IF p = "host" THEN StrangerPackets ELSE {}) :
        \E flight \in Consumed(p, m) : Received(p, m, flight)
  BY DEF PollReceive, Received
<1>1. PICK flight \in Consumed(p, m) : Received(p, m, flight)
  BY <1>0
<1>2. m \in Packet /\ m.seq \in Seqs /\ m.ack \in Seqs /\ m.kind \in Kinds
        /\ m.from \in Ends \cup {Stranger}
  <2>1. m \in Packet
    BY InFlightType DEF Typed, TypeOK
  <2> QED BY <2>1 DEF Packet
<1>3. flight \in [Ends -> SUBSET Packet]
  BY FlightParts DEF Typed, TypeOK
<1>4. AckedBy(p, m) \in SUBSET Tracked
  BY AckedParts DEF Typed, TypeOK
<1>5. [pending EXCEPT ![p] = AckedBy(p, m)] \in [Ends -> SUBSET Tracked]
  BY <1>4 DEF Typed, TypeOK
<1>6. ASSUME Admit(p, m) PROVE remote' \in [Ends -> Ends \cup {Stranger, Nobody}]
  <2>1. Admitted(p, m) \in {m.from, Nobody}
    BY DEF Admitted
  <2> QED BY <1>2, <1>6, <2>1 DEF Admit, Typed, TypeOK
<1>7. CASE ReceiveIgnored(p, m, flight)
  BY <1>3, <1>7 DEF ReceiveIgnored, Typed, TypeOK, Numbered, clocks
<1>8. CASE ReceiveDisconnect(p, m, flight)
  <2>1. MarkDisconnected(p) /\ Numbered'
    BY <1>8 DEF ReceiveDisconnect, MarkDisconnected, Typed, TypeOK, Numbered
  <2>2. remote' \in [Ends -> Ends \cup {Stranger, Nobody}]
    BY <1>6, <1>8 DEF ReceiveDisconnect
  <2> QED BY <1>3, <1>5, <1>8, <2>1, <2>2, DisconnectedTyped
          DEF ReceiveDisconnect, Typed, TypeOK
<1>9. CASE p = "host" /\ ReceiveHello(m, flight)
  <2>1. Accept(m) \in Packet /\ Accept(m).kind \in Reliable /\ Accept(m).seq # 0
    BY <1>2, <1>9, AcceptType DEF ReceiveHello
  <2>2. Track(AckedBy("host", m), Accept(m)) \in SUBSET Tracked
    BY <1>4, <1>9, <2>1, TrackParts
  <2>3. pending' \in [Ends -> SUBSET Tracked]
    BY <1>9, <2>2 DEF ReceiveHello, Typed, TypeOK
  <2>4. Sent(flight, m.from, {Accept(m)}) \in [Ends -> SUBSET Packet]
    BY <1>3, <2>1, SentParts
  <2>5. MarkConnected("host") /\ remote' \in [Ends -> Ends \cup {Stranger, Nobody}]
    BY <1>6, <1>9 DEF ReceiveHello
  <2>6. state'["client"] = state["client"]
    BY <2>5 DEF MarkConnected, Typed, TypeOK
  <2>7. nextSeq' \in [Ends -> Seqs \cup {MaxHello + MaxAccept + 1}] /\ Numbered'
    BY <1>9, <2>6 DEF ReceiveHello, Typed, TypeOK, Numbered, Seqs
  <2>8. accepted' \subseteq Seqs
    BY <1>2, <1>9 DEF ReceiveHello, Typed, TypeOK
  <2> QED BY <1>9, <2>3, <2>4, <2>5, <2>7, <2>8, ConnectedTyped
          DEF ReceiveHello, Typed, TypeOK
<1>10. CASE p = "host" /\ ReceiveHelloFails(m, flight)
  <2>1. remote' \in [Ends -> Ends \cup {Stranger, Nobody}]
    BY <1>6, <1>10 DEF ReceiveHelloFails
  <2>2. nextSeq' \in [Ends -> Seqs \cup {MaxHello + MaxAccept + 1}] /\ Numbered'
    BY <1>10 DEF ReceiveHelloFails, Typed, TypeOK, Numbered, Seqs
  <2> QED BY <1>3, <1>5, <1>10, <2>1, <2>2
          DEF ReceiveHelloFails, Typed, TypeOK, clocks
<1>11. CASE p = "client" /\ ReceiveAccept(m, flight)
  <2>1. MarkConnected("client") /\ nextSeq["client"] <= MaxHello
          /\ remote' \in [Ends -> Ends \cup {Stranger, Nobody}]
    BY <1>6, <1>11 DEF ReceiveAccept
  <2>2. Plain("client", "ping", m.seq) \in Packet
    BY <1>2, PlainType DEF Kinds
  <2>3. Sent(flight, "host", {Plain("client", "ping", m.seq)}) \in [Ends -> SUBSET Packet]
    BY <1>3, <2>2, SentParts
  <2>4. net' \in [Ends -> SUBSET Packet] /\ polling' \in Ends \cup {Nobody}
    BY <1>3, <1>11, <2>3 DEF ReceiveAccept, Typed, TypeOK
  <2>5. Acknowledged(AckedBy("client", m), helloSeq) \in SUBSET Tracked
    BY <1>4, <1>11 DEF Acknowledged
  <2>6. pending' \in [Ends -> SUBSET Tracked]
    BY <1>11, <2>5 DEF ReceiveAccept, Typed, TypeOK
  <2>7. Numbered' /\ UNCHANGED <<nextSeq, helloSeq, accepted>>
    BY <1>11, <2>1 DEF ReceiveAccept, Typed, Numbered
  <2> QED BY <2>1, <2>4, <2>6, <2>7, ConnectedTyped DEF Typed, TypeOK
<1>12. CASE ReceiveUnused(p, m, flight)
  <2>1. remote' \in [Ends -> Ends \cup {Stranger, Nobody}]
    BY <1>6, <1>12 DEF ReceiveUnused
  <2> QED BY <1>3, <1>5, <1>12, <2>1 DEF ReceiveUnused, Typed, TypeOK, Numbered, clocks
<1>13. CASE ReceiveConnected(p, m, flight)
  <2>1. remote' \in [Ends -> Ends \cup {Stranger, Nobody}]
    BY <1>6, <1>13 DEF ReceiveConnected
  <2>2. Plain(p, "pong", m.seq) \in Packet
    BY <1>2, PlainType DEF Kinds
  <2>3. Sent(flight, m.from, {Plain(p, "pong", m.seq)}) \in [Ends -> SUBSET Packet]
    BY <1>3, <2>2, SentParts
  <2>4. PICK ok \in Outcomes :
          /\ net' = IF m.kind = "ping" /\ ok
                    THEN Sent(flight, m.from, {Plain(p, "pong", m.seq)}) ELSE flight
          /\ polling' = IF m.kind = "ping" /\ ~ok THEN Nobody ELSE polling
    BY <1>13 DEF ReceiveConnected
  <2>5. net' \in [Ends -> SUBSET Packet]
    BY <1>3, <2>3, <2>4
  <2>6. polling' \in Ends \cup {Nobody}
    BY <2>4 DEF Typed, TypeOK
  <2>7. /\ pending' = [pending EXCEPT ![p] = AckedBy(p, m)]
        /\ heard' = [heard EXCEPT ![p] = 0]
        /\ UNCHANGED <<state, nextSeq, helloSeq, beat, since, accepted>>
    BY <1>13 DEF ReceiveConnected
  <2> QED BY <1>5, <2>1, <2>5, <2>6, <2>7 DEF Typed, TypeOK, Numbered
<1> QED BY <1>1, <1>7, <1>8, <1>9, <1>10, <1>11, <1>12, <1>13 DEF Received

LEMMA TypedStep == Typed /\ [Next]_vars => Typed'
<1> SUFFICES ASSUME Typed, [Next]_vars PROVE Typed'
  OBVIOUS
<1>1. CASE UNCHANGED vars
  BY <1>1 DEF vars, clocks, Typed, TypeOK, Numbered
<1>2. CASE Next
  BY <1>2, TickTyped, CallsTyped, PollTyped, ReceiveTyped DEF Next, Poll
<1> QED BY <1>1, <1>2

\* Every reachable state of two ends and their network is of its type; the
\* numbers allocated stay within the bounds on hellos and accepts.
THEOREM TypeCorrect == Spec => []TypeOK
<1>1. Spec => []Typed
  BY TypedInit, TypedStep, PTL DEF Spec
<1> QED BY <1>1, PTL DEF Typed

-----------------------------------------------------------------------------
(* The handshake.                                                          *)

\* A host never connects, and nobody is their own peer.
RolesKept ==
    /\ state["host"] # "connecting"
    /\ remote["client"] \in {"host", Nobody}
    /\ remote["host"] \in {"client", Stranger, Nobody}

\* A host that accepted the client has pinned it, and before it accepts anyone
\* it holds nothing.
HostFaithful ==
    /\ state["host"] = "idle" => Held("host") = {} /\ accepted = {}
    /\ accepted # {} => remote["host"] = "client"
    /\ \A a \in accepted : a < nextSeq["client"]

\* The packets held and in flight are what the two ends may say to each other:
\* the client hears of no accept but of its own hellos.
HeldTrue ==
    /\ \A k \in Held("host") :
        /\ k.from = "host" /\ k.kind = "accept" /\ k.seq < nextSeq["host"]
        /\ remote["host"] = "client" => k.ack \in accepted
    /\ \A k \in Held("client") :
        k.from = "client" /\ k.kind = "hello" /\ k.ack = 0 /\ k.seq < nextSeq["client"]

ToClientTrue(m) ==
    m.from = "host" /\ (m.kind = "accept" => m.ack \in accepted /\ m.seq < nextSeq["host"])
ToHostTrue(m) ==
    m.from = "client" /\ (m.kind = "hello" => m.seq < nextSeq["client"])
FlightTrue ==
    /\ \A m \in net["client"] : ToClientTrue(m)
    /\ \A m \in net["host"] : ToHostTrue(m)

\* When callers acknowledge nothing, what is in flight acknowledges only what was
\* sent, and no more than a hello or an accept is acknowledged.
AckedTrue(e, m) ==
    /\ m.kind \notin {"hello", "accept"} => m.seq = 0
    /\ IF e = "host" THEN m.ack < nextSeq["host"] ELSE m.kind # "accept" => m.ack = 0
AcksTrue == \A e \in Ends : \A m \in net[e] : AckedTrue(e, m)

\* While the client awaits the accept of its hello, no acknowledgement of such an
\* accept is on its way.
Unacknowledged ==
    remote["host"] = "client" /\ AwaitsAccept =>
        \A k \in Held("host"), m \in net["host"] :
            k.ack = helloSeq => k.seq # m.ack

\* What holds of the handshake when callers acknowledge nothing.
Retriable == AcksTrue /\ Unacknowledged /\ HandshakeRetried

IInv ==
    /\ Typed /\ RolesKept /\ HostFaithful /\ HeldTrue /\ FlightTrue
    /\ ConnectedWasAccepted
    /\ CallersAcknowledgeNothing => Retriable

LEMMA IInvInit == Init => IInv
<1> SUFFICES ASSUME Init PROVE IInv
  OBVIOUS
<1>1. Typed
  BY TypedInit
<1> QED BY <1>1
        DEF Init, IInv, RolesKept, HostFaithful, HeldTrue, FlightTrue, Held, AcksTrue,
            Retriable, Unacknowledged, HandshakeRetried, ConnectedWasAccepted, AwaitsAccept

\* HandshakeRetried, of the packets held.
LEMMA RetriedHeld ==
    HandshakeRetried <=>
        (AwaitsAccept =>
            /\ \E k \in Held("client") : k.kind = "hello" /\ k.seq = helloSeq
            /\ helloSeq \in accepted /\ state["host"] \in {"connected", "reconnecting"}
                => \E k \in Held("host") : k.kind = "accept" /\ k.ack = helloSeq)
BY DEF HandshakeRetried, Held

LEMMA RetriedHeldNext ==
    HandshakeRetried' <=>
        (AwaitsAccept' =>
            /\ \E k \in HeldNext("client") : k.kind = "hello" /\ k.seq = helloSeq'
            /\ helloSeq' \in accepted' /\ state'["host"] \in {"connected", "reconnecting"}
                => \E k \in HeldNext("host") : k.kind = "accept" /\ k.ack = helloSeq')
BY DEF HandshakeRetried, HeldNext

\* What an end says besides hellos and accepts.
Talk(p, m) ==
    /\ m.from = p /\ m.kind \notin {"hello", "accept"}
    /\ CallersAcknowledgeNothing => m.seq = 0 /\ m.ack = 0

LEMMA PlainTalk ==
    ASSUME NEW p \in Ends, NEW kind \in Kinds \ {"hello", "accept"}
    PROVE  Plain(p, kind, 0) \in Packet /\ Talk(p, Plain(p, kind, 0))
<1>1. 0 \in Seqs
  BY BoundAssumption DEF Seqs
<1> QED BY <1>1, PlainType DEF Talk, Plain

\* The steps that leave the handshake alone.  An end may leave its connection, a
\* packet may be dropped or sent again, and an end may send what carries no
\* acknowledgement; what the handshake still needs stays held.
Quiet ==
    /\ UNCHANGED <<remote, nextSeq, helloSeq, accepted>>
    /\ state'["client"] \in {state["client"], "disconnected"}
    /\ \/ state'["host"] = state["host"]
       \/ /\ state["host"] \in {"connected", "reconnecting"}
          /\ state'["host"] \in {"reconnecting", "disconnected"}
    /\ \A e \in Ends : HeldNext(e) \subseteq Held(e)
    /\ \A e \in Ends : \A m \in net'[e] :
        \/ m \in net[e]
        \/ m \in Held(Other(e)) /\ e = remote[Other(e)]
        \/ Talk(Other(e), m)
    /\ CallersAcknowledgeNothing /\ AwaitsAccept' =>
        /\ \A k \in Held("client") : k.seq = helloSeq => k \in HeldNext("client")
        /\ \A k \in Held("host") :
            remote["host"] = "client" /\ k.ack = helloSeq => k \in HeldNext("host")

LEMMA QuietStep ==
    ASSUME IInv, Typed', Quiet
    PROVE  IInv'
<1> USE DEF IInv, Quiet
<1>1. RolesKept'
  BY DEF RolesKept
<1>2. HeldNext("host") \subseteq Held("host") /\ HeldNext("client") \subseteq Held("client")
  OBVIOUS
<1>3. (Held("host"))' = HeldNext("host") /\ (Held("client"))' = HeldNext("client")
  BY DEF Held, HeldNext
<1>4. HostFaithful'
  BY <1>2, <1>3 DEF HostFaithful, RolesKept
<1>5. HeldTrue'
  BY <1>2, <1>3 DEF HeldTrue
<1>6. ASSUME NEW m \in net'["client"]
      PROVE  ToClientTrue(m)' /\ (CallersAcknowledgeNothing => AckedTrue("client", m)')
  <2>1. \/ m \in net["client"]
        \/ m \in Held("host") /\ "client" = remote["host"]
        \/ Talk("host", m)
    BY DEF Other
  <2>2. CASE m \in net["client"]
    BY <2>2 DEF FlightTrue, ToClientTrue, Retriable, AcksTrue, AckedTrue
  <2>3. CASE m \in Held("host") /\ "client" = remote["host"]
    BY <2>3 DEF HeldTrue, ToClientTrue, AckedTrue
  <2>4. CASE Talk("host", m)
    BY <2>4 DEF Talk, ToClientTrue, AckedTrue
  <2> QED BY <2>1, <2>2, <2>3, <2>4
<1>7. ASSUME NEW m \in net'["host"]
      PROVE  /\ ToHostTrue(m)'
             /\ CallersAcknowledgeNothing =>
                    AckedTrue("host", m)' /\ (m \in net["host"] \/ m.ack = 0)
  <2>1. \/ m \in net["host"]
        \/ m \in Held("client")
        \/ Talk("client", m)
    BY DEF Other
  <2>2. CASE m \in net["host"]
    BY <2>2 DEF FlightTrue, ToHostTrue, Retriable, AcksTrue, AckedTrue
  <2>3. CASE m \in Held("client")
    BY <2>3 DEF HeldTrue, ToHostTrue, AckedTrue, Typed, Numbered
  <2>4. CASE Talk("client", m)
    BY <2>4 DEF Talk, ToHostTrue, AckedTrue, Typed, Numbered
  <2> QED BY <2>1, <2>2, <2>3, <2>4
<1>8. FlightTrue'
  BY <1>6, <1>7 DEF FlightTrue
<1>9. AwaitsAccept' => AwaitsAccept
  BY DEF AwaitsAccept
<1>10. ASSUME CallersAcknowledgeNothing PROVE AcksTrue' /\ Unacknowledged'
  <2>1. \A k \in Held("host") : k.seq # 0
    BY DEF Held, Typed, TypeOK, Tracked
  <2>2. Unacknowledged'
    BY <1>2, <1>3, <1>7, <1>9, <1>10, <2>1 DEF Retriable, Unacknowledged
  <2> QED BY <1>6, <1>7, <1>10, <2>2 DEF AcksTrue
<1>11. ASSUME CallersAcknowledgeNothing PROVE HandshakeRetried'
  <2>1. AwaitsAccept' /\ helloSeq \in accepted => remote["host"] = "client"
    BY DEF HostFaithful
  <2> QED BY <1>9, <1>11, <2>1, RetriedHeld, RetriedHeldNext DEF Retriable
<1>12. ConnectedWasAccepted'
  BY DEF ConnectedWasAccepted
<1> QED BY <1>1, <1>4, <1>5, <1>8, <1>10, <1>11, <1>12 DEF Retriable, CallersAcknowledgeNothing

\* A step that holds what was held and at most talks.
LEMMA PlainStep ==
    ASSUME IInv, Typed', UNCHANGED <<remote, nextSeq, helloSeq, accepted>>,
           \A e \in Ends : HeldNext(e) = Held(e),
           \/ UNCHANGED state
           \/ \E p \in Ends : state' = [state EXCEPT ![p] = "disconnected"]
                              /\ (p = "host" => state[p] \in {"connected", "reconnecting"}),
           \/ \A e \in Ends : net'[e] \subseteq net[e]
           \/ \E p \in Ends, k \in Packet : Talk(p, k) /\ net' = Sent(net, remote[p], {k})
    PROVE  IInv'
<1>1. /\ state'["client"] \in {state["client"], "disconnected"}
      /\ \/ state'["host"] = state["host"]
         \/ /\ state["host"] \in {"connected", "reconnecting"}
            /\ state'["host"] \in {"reconnecting", "disconnected"}
  BY DEF IInv, Typed, TypeOK
<1>2. ASSUME NEW e \in Ends, NEW m \in net'[e]
      PROVE  m \in net[e] \/ Talk(Other(e), m)
  <2>1. CASE \A d \in Ends : net'[d] \subseteq net[d]
    BY <1>2, <2>1
  <2>2. ASSUME NEW p \in Ends, NEW k \in Packet, Talk(p, k),
               net' = Sent(net, remote[p], {k}), m \notin net[e]
        PROVE  Talk(Other(e), m)
    <3>1. e = remote[p] /\ m = k
      BY <1>2, <2>2, SentParts DEF IInv, Typed, TypeOK
    <3>2. p = Other(e)
      BY <3>1 DEF IInv, RolesKept, Other
    <3> QED BY <2>2, <3>1, <3>2
  <2> QED BY <2>1, <2>2
<1>3. Quiet
  BY <1>1, <1>2 DEF Quiet
<1> QED BY <1>3, QuietStep

LEMMA HeldUnchanged == pending' = pending => \A e \in Ends : HeldNext(e) = Held(e)
BY DEF Held, HeldNext

LEMMA TickInv == ASSUME IInv, Tick PROVE IInv'
<1> DEFINE Aged(clock, limit) == IF clock < limit THEN clock + 1 ELSE limit
<1>1. /\ pending' = [p \in Ends |->
                       {[q EXCEPT !.age = Aged(@, Retry)] : q \in pending[p]}]
      /\ UNCHANGED <<state, remote, nextSeq, helloSeq, net, accepted>>
  BY DEF Tick
<1> HIDE DEF Aged
<1>2. ASSUME NEW e \in Ends PROVE HeldNext(e) = Held(e)
  <2> DEFINE r(q) == [q EXCEPT !.age = Aged(@, Retry)]
  <2>1. ASSUME NEW q \in pending[e] PROVE r(q).packet = q.packet
    <3>1. q \in Tracked
      BY DEF IInv, Typed, TypeOK
    <3> QED BY <3>1 DEF Tracked
  <2>2. pending'[e] = {r(q) : q \in pending[e]}
    BY <1>1
  <2> HIDE DEF r
  <2>3. ASSUME NEW k \in HeldNext(e) PROVE k \in Held(e)
    BY <2>1, <2>2 DEF Held, HeldNext
  <2>4. ASSUME NEW k \in Held(e) PROVE k \in HeldNext(e)
    BY <2>1, <2>2 DEF Held, HeldNext
  <2> QED BY <2>3, <2>4
<1>3. Typed'
  BY TickTyped DEF IInv
<1> QED BY <1>1, <1>2, <1>3, PlainStep

LEMMA QuietCallsInv ==
    ASSUME IInv, NEW p \in Ends, Lose \/ Send(p) \/ Disconnect(p)
    PROVE  IInv'
<1>1. Typed'
  BY CallsTyped DEF IInv
<1>2. CASE Lose
  <2>1. \A e \in Ends : net'[e] \subseteq net[e]
    BY <1>2 DEF Lose, IInv, Typed, TypeOK
  <2> QED BY <1>1, <1>2, <2>1, HeldUnchanged, PlainStep DEF Lose
<1>3. CASE Send(p)
  <2>1. \A m \in CallerPackets(p) : m \in Packet /\ Talk(p, m)
    BY CallerType DEF Talk, Reliable
  <2> QED BY <1>1, <1>3, <2>1, HeldUnchanged, PlainStep DEF Send
<1>4. CASE Disconnect(p)
  <2>1. Plain(p, "disconnect", 0) \in Packet /\ Talk(p, Plain(p, "disconnect", 0))
    BY PlainTalk DEF Kinds
  <2> QED BY <1>1, <1>4, <2>1, HeldUnchanged, PlainStep DEF Disconnect, MarkDisconnected
<1> QED BY <1>2, <1>3, <1>4

LEMMA PollQuietInv ==
    ASSUME IInv, NEW p \in Ends,
           \/ PollExpires(p) \/ PollBegin(p) \/ PollAborts(p)
           \/ PollEnd(p) /\ ~(p = "client" /\ Silent(p) /\ BeginReconnect(p))
    PROVE  IInv'
<1>1. Typed'
  BY PollTyped DEF IInv
<1>2. CASE PollExpires(p)
  BY <1>1, <1>2, HeldUnchanged, PlainStep
     DEF PollExpires, DeadlinePassed, MarkDisconnected
<1>3. CASE PollBegin(p)
  <2>1. PICK out : out \in SUBSET Held(p) /\ net' = Sent(net, remote[p], out)
    BY <1>3 DEF PollBegin, Due, Held
  <2>2. ASSUME NEW e \in Ends PROVE HeldNext(e) = Held(e)
    <3>1. CASE pending'[e] = pending[e]
      BY <3>1 DEF Held, HeldNext
    <3>2. CASE pending'[e] = Resent(pending[e])
      BY <3>2, ResentParts DEF Held, HeldNext, IInv, Typed, TypeOK
    <3>3. pending'[e] \in {pending[e], Resent(pending[e])}
      BY <1>3 DEF PollBegin, IInv, Typed, TypeOK
    <3> QED BY <3>1, <3>2, <3>3
  <2>3. Held(p) \subseteq Packet
    BY DEF Held, IInv, Typed, TypeOK, Tracked
  <2>4. ASSUME NEW e \in Ends, NEW m \in net'[e]
        PROVE  m \in net[e] \/ (m \in Held(Other(e)) /\ e = remote[Other(e)])
    <3>1. m \in net[e] \/ (e = remote[p] /\ m \in out)
      BY <2>1, <2>3, <2>4, SentParts DEF IInv, Typed, TypeOK
    <3>2. e = remote[p] => p = Other(e)
      BY DEF IInv, RolesKept, Other
    <3> QED BY <2>1, <3>1, <3>2
  <2>5. UNCHANGED <<state, remote, nextSeq, helloSeq, accepted>>
    BY <1>3 DEF PollBegin
  <2>6. Quiet
    BY <2>2, <2>4, <2>5 DEF Quiet
  <2> QED BY <1>1, <2>6, QuietStep
<1>4. CASE PollAborts(p)
  BY <1>1, <1>4, HeldUnchanged, PlainStep DEF PollAborts
<1>5. CASE PollEnd(p) /\ p = "host" /\ Silent(p) /\ BeginReconnect(p)
  <2>1. UNCHANGED <<helloSeq, nextSeq, pending, net, remote, accepted>>
    BY <1>5 DEF BeginReconnect, PollEnd
  <2>2. /\ state["host"] = "connected" /\ state'["host"] = "reconnecting"
        /\ state'["client"] = state["client"]
    BY <1>5 DEF BeginReconnect, Silent, IInv, Typed, TypeOK
  <2>3. Quiet
    BY <2>1, <2>2, HeldUnchanged DEF Quiet
  <2> QED BY <1>1, <2>3, QuietStep
<1>6. CASE /\ PollEnd(p)
           /\ net' = Sent(net, remote[p], {Plain(p, "ping", 0)})
           /\ UNCHANGED <<state, pending, nextSeq, helloSeq>>
  <2>1. Plain(p, "ping", 0) \in Packet /\ Talk(p, Plain(p, "ping", 0))
    BY PlainTalk DEF Kinds
  <2> QED BY <1>1, <1>6, <2>1, HeldUnchanged, PlainStep DEF PollEnd
<1>7. CASE PollEnd(p) /\ UNCHANGED <<state, pending, nextSeq, helloSeq, net>>
  BY <1>1, <1>7, HeldUnchanged, PlainStep DEF PollEnd
<1>8. CASE PollEnd(p) /\ ~(p = "client" /\ Silent(p) /\ BeginReconnect(p))
  <2>1. CASE Silent(p) /\ BeginReconnect(p)
    BY <1>5, <1>8, <2>1
  <2>2. CASE ~(Silent(p) /\ BeginReconnect(p))
    BY <1>6, <1>7, <1>8, <2>2 DEF PollEnd
  <2> QED BY <2>1, <2>2
<1> QED BY <1>2, <1>3, <1>4, <1>8

-----------------------------------------------------------------------------
(* Datagrams.                                                              *)

\* An end that has a peer hears nobody else.
LEMMA AdmittedPeer ==
    ASSUME IInv, NEW p \in Ends, NEW m, Admit(p, m),
           p = "host" => state[p] # "idle"
    PROVE  remote' = remote /\ m.from = remote[p] /\ state[p] # "disconnected"
BY DEF Admit, Admitted, IInv, Typed, TypeOK

\* What no acknowledgement takes away while the client awaits its accept.
LEMMA AckedHeld ==
    ASSUME IInv, NEW p \in Ends,
           NEW m \in net[p] \cup (IF p = "host" THEN StrangerPackets ELSE {})
    PROVE  /\ {q.packet : q \in AckedBy(p, m)} \subseteq Held(p)
           /\ \A k \in Held(p) : k.seq # m.ack => k \in {q.packet : q \in AckedBy(p, m)}
           /\ CallersAcknowledgeNothing /\ p = "host"
                /\ AwaitsAccept /\ remote["host"] = "client" =>
                \A k \in Held("host") :
                    k.ack = helloSeq => k \in {q.packet : q \in AckedBy("host", m)}
<1>1. /\ \A q \in pending[p] : q \in AckedBy(p, m) <=> (m.ack = 0 \/ q.packet.seq # m.ack)
      /\ AckedBy(p, m) \subseteq pending[p]
  BY AckedParts DEF IInv, Typed, TypeOK
<1>2. ASSUME CallersAcknowledgeNothing, p = "host", AwaitsAccept,
             remote["host"] = "client",
             NEW k \in Held("host"), k.ack = helloSeq
      PROVE  k \in {q.packet : q \in AckedBy("host", m)}
  <2>1. m.ack = 0 \/ k.seq # m.ack
    <3>1. CASE m \in net["host"]
      BY <1>2, <3>1 DEF IInv, Retriable, Unacknowledged
    <3>2. CASE m \in StrangerPackets
      BY <1>2, <3>2, StrangerType
    <3> QED BY <1>2, <3>1, <3>2
  <2> QED BY <1>1, <1>2, <2>1 DEF Held
<1> QED BY <1>1, <1>2 DEF Held

LEMMA QuietReceiveInv ==
    ASSUME IInv, NEW p \in Ends, PollReceive(p),
           NEW m \in net[p] \cup (IF p = "host" THEN StrangerPackets ELSE {}),
           NEW flight \in Consumed(p, m),
           \/ ReceiveIgnored(p, m, flight) \/ ReceiveDisconnect(p, m, flight)
           \/ ReceiveUnused(p, m, flight) \/ ReceiveConnected(p, m, flight)
    PROVE  IInv'
<1>1. Typed'
  BY ReceiveTyped DEF IInv
<1>2. flight \in [Ends -> SUBSET Packet] /\ \A e \in Ends : flight[e] \subseteq net[e]
  BY FlightParts DEF IInv, Typed, TypeOK
<1>3. CASE ReceiveIgnored(p, m, flight)
  <2>1. /\ UNCHANGED <<state, remote, pending, nextSeq, helloSeq, accepted>>
        /\ \A e \in Ends : net'[e] \subseteq net[e]
    BY <1>2, <1>3 DEF ReceiveIgnored
  <2> QED BY <1>1, <2>1, HeldUnchanged, PlainStep
<1>4. ASSUME pending' = [pending EXCEPT ![p] = AckedBy(p, m)]
      PROVE  /\ HeldNext(p) = {q.packet : q \in AckedBy(p, m)}
             /\ HeldNext(Other(p)) = Held(Other(p))
             /\ \A e \in Ends : HeldNext(e) \subseteq Held(e)
  <2>1. pending'[p] = AckedBy(p, m) /\ pending'[Other(p)] = pending[Other(p)]
    BY <1>4 DEF IInv, Typed, TypeOK, Other
  <2>2. HeldNext(p) = {q.packet : q \in AckedBy(p, m)} /\ HeldNext(Other(p)) = Held(Other(p))
    BY <2>1 DEF Held, HeldNext
  <2>3. \A e \in Ends : e = p \/ e = Other(p)
    BY DEF Other
  <2> QED BY <2>2, <2>3, AckedHeld
<1>5. ASSUME pending' = [pending EXCEPT ![p] = AckedBy(p, m)],
             CallersAcknowledgeNothing, AwaitsAccept,
             p = "client" => m.ack # helloSeq
      PROVE  /\ \A k \in Held("client") : k.seq = helloSeq => k \in HeldNext("client")
             /\ \A k \in Held("host") :
                 remote["host"] = "client" /\ k.ack = helloSeq => k \in HeldNext("host")
  BY <1>4, <1>5, AckedHeld DEF Other
<1>6. CASE ReceiveDisconnect(p, m, flight)
  <2>1. remote' = remote
    BY <1>6, AdmittedPeer DEF ReceiveDisconnect
  <2>2. /\ pending' = [pending EXCEPT ![p] = AckedBy(p, m)]
        /\ UNCHANGED <<nextSeq, helloSeq, accepted>>
        /\ net' = flight
        /\ state[p] \in {"connected", "reconnecting"}
        /\ state' = [state EXCEPT ![p] = "disconnected"]
    BY <1>6 DEF ReceiveDisconnect, MarkDisconnected
  <2>3. state'[p] = "disconnected" /\ state'[Other(p)] = state[Other(p)]
    BY <2>2 DEF IInv, Typed, TypeOK, Other
  <2>4. AwaitsAccept' => AwaitsAccept /\ p = "host"
    BY <2>3 DEF AwaitsAccept, Other
  <2>5. Quiet
    BY <1>2, <1>4, <1>5, <2>1, <2>2, <2>3, <2>4 DEF Quiet, Other
  <2> QED BY <1>1, <2>5, QuietStep
<1>7. CASE ReceiveUnused(p, m, flight)
  <2>1. p = "host" => state[p] # "idle"
    BY <1>7 DEF ReceiveUnused, Admit, Admitted
  <2>2. remote' = remote
    BY <1>7, <2>1, AdmittedPeer DEF ReceiveUnused
  <2>3. /\ pending' = [pending EXCEPT ![p] = AckedBy(p, m)]
        /\ UNCHANGED <<state, nextSeq, helloSeq, accepted>>
        /\ net' = flight
    BY <1>7 DEF ReceiveUnused
  <2>4. ASSUME p = "client", CallersAcknowledgeNothing, AwaitsAccept
        PROVE  m.ack # helloSeq \/ helloSeq = 0
    <3>1. m.kind # "accept" => m.ack = 0
      BY <2>4 DEF IInv, Retriable, AcksTrue, AckedTrue
    <3>2. ~(m.kind = "accept" /\ m.ack = helloSeq)
      BY <1>7, <2>4 DEF ReceiveUnused
    <3> QED BY <3>1, <3>2
  <2>5. CallersAcknowledgeNothing /\ AwaitsAccept => helloSeq # 0
    <3>1. \A k \in Held("client") : k.seq # 0
      BY DEF Held, IInv, Typed, TypeOK, Tracked
    <3> QED BY <3>1, RetriedHeld DEF IInv, Retriable
  <2>6. AwaitsAccept' => AwaitsAccept
    BY <2>3 DEF AwaitsAccept
  <2>7. Quiet
    BY <1>2, <1>4, <1>5, <2>2, <2>3, <2>4, <2>5, <2>6 DEF Quiet
  <2> QED BY <1>1, <2>7, QuietStep
<1>8. CASE ReceiveConnected(p, m, flight)
  <2>1. p = "host" => state[p] # "idle"
    BY <1>8 DEF ReceiveConnected
  <2>2. remote' = remote /\ m.from = remote[p]
    BY <1>8, <2>1, AdmittedPeer DEF ReceiveConnected
  <2>3. /\ pending' = [pending EXCEPT ![p] = AckedBy(p, m)]
        /\ UNCHANGED <<state, nextSeq, helloSeq, accepted>>
        /\ state[p] = "connected"
        /\ \E ok \in Outcomes :
             net' = IF m.kind = "ping" /\ ok
                    THEN Sent(flight, m.from, {Plain(p, "pong", m.seq)}) ELSE flight
    BY <1>8 DEF ReceiveConnected
  <2>4. AwaitsAccept' => AwaitsAccept /\ p # "client"
    BY <2>3 DEF AwaitsAccept
  <2>5. ASSUME NEW e \in Ends, NEW k \in net'[e]
        PROVE  k \in net[e] \/ Talk(Other(e), k)
    <3>1. CASE net' = flight
      BY <1>2, <2>5, <3>1
    <3>2. CASE /\ m.kind = "ping" /\ k \notin flight[e]
               /\ net' = Sent(flight, m.from, {Plain(p, "pong", m.seq)})
      <4>1. m \in Packet
        BY InFlightType DEF IInv, Typed, TypeOK
      <4>2. Plain(p, "pong", m.seq) \in Packet
        BY <4>1, PlainType DEF Packet, Kinds
      <4>3. e = remote[p] /\ k = Plain(p, "pong", m.seq)
        BY <1>2, <2>2, <2>5, <3>2, <4>2, SentParts
      <4>4. p = Other(e) /\ m \in net[p]
        <5>1. p = Other(e)
          BY <4>3 DEF IInv, RolesKept, Other
        <5>2. m \notin StrangerPackets
          BY <2>2, <4>3, StrangerType
        <5> QED BY <5>1, <5>2
      <4>5. CallersAcknowledgeNothing => m.seq = 0
        BY <3>2, <4>4 DEF IInv, Retriable, AcksTrue, AckedTrue
      <4> QED BY <4>3, <4>4, <4>5 DEF Talk, Plain
    <3>3. \/ net' = flight
          \/ m.kind = "ping" /\ net' = Sent(flight, m.from, {Plain(p, "pong", m.seq)})
      BY <2>3
    <3>4. CASE k \in flight[e]
      BY <1>2, <3>4
    <3> QED BY <3>1, <3>2, <3>3, <3>4
  <2>7. Quiet
    BY <1>4, <1>5, <2>2, <2>3, <2>4, <2>5 DEF Quiet
  <2> QED BY <1>1, <2>7, QuietStep
<1> QED BY <1>3, <1>6, <1>7, <1>8

-----------------------------------------------------------------------------
(* The steps of the handshake.                                             *)

\* A new hello has a number no accept answers and nothing acknowledges.
LEMMA NewHelloInv ==
    ASSUME IInv, Typed', NEW ok, SendNewHello(ok), nextSeq["client"] <= MaxHello,
           state'["client"] \in {"connecting", "reconnecting"},
           state'["host"] = state["host"], remote'["host"] = remote["host"],
           remote'["client"] \in {"host", Nobody}, accepted' = accepted
    PROVE  IInv'
<1> USE DEF IInv
<1>1. /\ helloSeq' = nextSeq["client"] /\ nextSeq'["client"] = nextSeq["client"] + 1
      /\ nextSeq'["host"] = nextSeq["host"]
      /\ pending'["client"] = Track(pending["client"], Hello)
      /\ pending'["host"] = pending["host"]
  BY DEF SendNewHello, Typed, TypeOK
<1>2. Hello \in Packet /\ Hello.kind \in Reliable /\ Hello.seq # 0
  BY HelloType
<1>3. /\ HeldNext("host") = Held("host") /\ (Held("host"))' = Held("host")
      /\ (Held("client"))' = HeldNext("client")
  BY <1>1 DEF Held, HeldNext
<1>4. /\ \A k \in HeldNext("client") : k \in Held("client") \/ k = Hello
      /\ Hello \in HeldNext("client")
  BY <1>1, <1>2, TrackParts DEF Held, HeldNext, Typed, TypeOK
<1>5. /\ \A m \in net'["client"] : m \in net["client"]
      /\ \A m \in net'["host"] : m \in net["host"] \/ m = Hello
  BY <1>2, SentParts DEF SendNewHello, Typed, TypeOK
<1>6. /\ nextSeq["client"] \in Nat /\ nextSeq["host"] \in Nat \ {0}
      /\ accepted \subseteq Nat /\ \A a \in accepted : a < nextSeq["client"]
  BY BoundAssumption DEF Typed, TypeOK, Numbered, HostFaithful, Seqs
<1>7. /\ Hello.from = "client" /\ Hello.kind = "hello" /\ Hello.ack = 0
      /\ Hello.seq = nextSeq["client"]
  BY DEF Hello
<1>8. Held("client") \subseteq Packet /\ net["host"] \subseteq Packet
  BY DEF Held, Typed, TypeOK, Tracked
<1>9. \A k \in Packet : k.seq \in Nat /\ k.ack \in Nat
  BY BoundAssumption DEF Packet, Seqs
<1>10. RolesKept'
  BY DEF RolesKept
<1>11. HostFaithful'
  BY <1>1, <1>3, <1>6 DEF HostFaithful
<1>12. HeldTrue'
  <2>1. ASSUME NEW k \in HeldNext("client")
        PROVE  k.from = "client" /\ k.kind = "hello" /\ k.ack = 0 /\ k.seq < nextSeq'["client"]
    <3>1. CASE k \in Held("client")
      BY <1>1, <1>6, <1>8, <1>9, <3>1 DEF HeldTrue
    <3>2. CASE k = Hello
      BY <1>1, <1>6, <1>7, <3>2
    <3> QED BY <1>4, <3>1, <3>2
  <2> QED BY <1>1, <1>3, <2>1 DEF HeldTrue
<1>13. FlightTrue'
  <2>1. ASSUME NEW m \in net'["host"] PROVE ToHostTrue(m)'
    <3>1. CASE m \in net["host"]
      BY <1>1, <1>6, <1>8, <1>9, <3>1 DEF FlightTrue, ToHostTrue
    <3>2. CASE m = Hello
      BY <1>1, <1>6, <1>7, <3>2 DEF ToHostTrue
    <3> QED BY <1>5, <3>1, <3>2
  <2>2. ASSUME NEW m \in net'["client"] PROVE ToClientTrue(m)'
    BY <1>1, <1>5 DEF FlightTrue, ToClientTrue
  <2> QED BY <2>1, <2>2 DEF FlightTrue
<1>14. helloSeq' \notin accepted'
  BY <1>1, <1>6
<1>15. Unacknowledged' /\ (CallersAcknowledgeNothing => AcksTrue')
  <2>1. remote["host"] = "client" => \A k \in Held("host") : k.ack # helloSeq'
    BY <1>14 DEF HeldTrue
  <2>2. Unacknowledged'
    BY <1>3, <2>1 DEF Unacknowledged
  <2>3. CallersAcknowledgeNothing => AcksTrue'
    BY <1>1, <1>5, <1>6, <1>7 DEF Retriable, AcksTrue, AckedTrue
  <2> QED BY <2>2, <2>3
<1>16. HandshakeRetried'
  BY <1>1, <1>4, <1>7, <1>14, RetriedHeldNext
<1>17. ConnectedWasAccepted'
  BY DEF ConnectedWasAccepted
<1> QED BY <1>10, <1>11, <1>12, <1>13, <1>15, <1>16, <1>17
        DEF Retriable, CallersAcknowledgeNothing

LEMMA ConnectInv == ASSUME IInv, Connect PROVE IInv'
<1>1. Typed'
  BY CallsTyped DEF IInv
<1>2. nextSeq["client"] <= MaxHello
  BY BoundAssumption DEF Connect, IInv, Typed, Numbered
<1>3. SendNewHello(TRUE) /\ accepted' = accepted
  BY DEF Connect
<1>4. /\ state'["client"] = "connecting" /\ state'["host"] = state["host"]
      /\ remote'["host"] = remote["host"] /\ remote'["client"] = "host"
  BY DEF Connect, IInv, Typed, TypeOK
<1> QED BY <1>1, <1>2, <1>3, <1>4, NewHelloInv

LEMMA ConnectFailsInv == ASSUME IInv, ConnectFails PROVE IInv'
<1> USE DEF IInv
<1>1. Typed'
  BY CallsTyped
<1>2. /\ nextSeq'["client"] = nextSeq["client"] + 1 /\ nextSeq'["host"] = nextSeq["host"]
      /\ UNCHANGED <<state, pending, net, accepted>>
      /\ remote'["client"] = Nobody /\ remote'["host"] = remote["host"]
      /\ state["client"] \in {"idle", "disconnected"}
  BY DEF ConnectFails, Typed, TypeOK
<1>3. (Held("host"))' = Held("host") /\ (Held("client"))' = Held("client")
  BY <1>2 DEF Held
<1>4. /\ nextSeq["client"] \in Nat /\ accepted \subseteq Nat
      /\ Held("client") \subseteq Packet /\ net["host"] \subseteq Packet
      /\ \A k \in Packet : k.seq \in Nat
  BY BoundAssumption DEF Typed, TypeOK, Numbered, Seqs, Packet, Tracked, Held
<1>5. RolesKept'
  BY <1>2 DEF RolesKept
<1>6. HostFaithful'
  <2>1. \A a \in accepted : a < nextSeq'["client"]
    BY <1>2, <1>4 DEF HostFaithful
  <2> QED BY <1>2, <1>3, <2>1 DEF HostFaithful
<1>7. HeldTrue'
  <2>1. \A k \in Held("client") : k.seq < nextSeq'["client"]
    BY <1>2, <1>4 DEF HeldTrue
  <2> QED BY <1>2, <1>3, <2>1 DEF HeldTrue
<1>8. FlightTrue'
  <2>1. ASSUME NEW m \in net["host"] PROVE ToHostTrue(m)'
    BY <1>2, <1>4 DEF FlightTrue, ToHostTrue
  <2> QED BY <1>2, <2>1 DEF FlightTrue, ToClientTrue
<1>9. Unacknowledged' /\ HandshakeRetried' /\ ConnectedWasAccepted'
  BY <1>2 DEF Unacknowledged, HandshakeRetried, ConnectedWasAccepted, AwaitsAccept
<1>10. AcksTrue => AcksTrue'
  BY <1>2 DEF AcksTrue, AckedTrue
<1> QED BY <1>1, <1>5, <1>6, <1>7, <1>8, <1>9, <1>10 DEF Retriable, CallersAcknowledgeNothing

LEMMA ReconnectInv ==
    ASSUME IInv, PollEnd("client"), Silent("client"), BeginReconnect("client")
    PROVE  IInv'
<1>1. Typed'
  BY PollTyped DEF IInv
<1>2. PICK ok \in Outcomes : SendNewHello(ok)
  BY DEF BeginReconnect
<1>3. /\ nextSeq["client"] <= MaxHello /\ UNCHANGED <<remote, accepted>>
      /\ state'["client"] = "reconnecting" /\ state'["host"] = state["host"]
  BY DEF PollEnd, Silent, BeginReconnect, IInv, Typed, TypeOK, Numbered
<1>4. remote["client"] \in {"host", Nobody}
  BY DEF IInv, RolesKept
<1> QED BY <1>1, <1>2, <1>3, <1>4, NewHelloInv

\* An accept that is sent answers the hello it acknowledges, and is held.
LEMMA ReceiveHelloInv ==
    ASSUME IInv, Typed', NEW m \in net["host"] \cup StrangerPackets,
           NEW flight \in Consumed("host", m), ReceiveHello(m, flight)
    PROVE  IInv'
<1> USE DEF IInv
<1> DEFINE queue == AckedBy("host", m)
<1> DEFINE seq == nextSeq["host"]
<1>1. /\ flight \in [Ends -> SUBSET Packet]
      /\ \A e \in Ends : flight[e] \subseteq net[e]
  BY FlightParts DEF Typed, TypeOK
<1>2. m \in Packet
  BY InFlightType DEF Typed, TypeOK
<1>3. /\ Accept(m) \in Packet /\ Accept(m).kind \in Reliable /\ Accept(m).seq # 0
      /\ Accept(m).from = "host" /\ Accept(m).kind = "accept" /\ Accept(m).seq = seq
      /\ Accept(m).ack = m.seq
  <2>1. nextSeq["host"] <= MaxAccept
    BY DEF ReceiveHello
  <2> QED BY <1>2, <2>1, AcceptType DEF Accept
<1>4. /\ Admitted("host", m) = m.from /\ m.from # Nobody /\ m.kind = "hello"
      /\ remote'["host"] = m.from /\ remote'["client"] = remote["client"]
      /\ state["host"] \in {"idle", "connected", "reconnecting"}
      /\ state["host"] # "idle" => m.from = remote["host"]
  BY DEF ReceiveHello, Admit, Admitted, Typed, TypeOK, States, RolesKept
<1>5. m.from \in {"client", Stranger}
  <2>1. CASE m \in net["host"]
    BY <2>1 DEF FlightTrue, ToHostTrue
  <2>2. CASE m \in StrangerPackets
    BY <2>2, StrangerType
  <2> QED BY <2>1, <2>2
<1>6. m.from = "client" => m \in net["host"] /\ m.seq < nextSeq["client"]
  <2>1. m \in StrangerPackets => m.from = Stranger
    BY StrangerType
  <2> QED BY <1>4, <2>1 DEF FlightTrue, ToHostTrue
<1>7. /\ state'["host"] = "connected" /\ state'["client"] = state["client"]
      /\ nextSeq'["host"] = seq + 1 /\ nextSeq'["client"] = nextSeq["client"]
      /\ helloSeq' = helloSeq
      /\ accepted' = IF m.from = "client" THEN accepted \cup {m.seq} ELSE accepted
      /\ pending'["host"] = Track(queue, Accept(m))
      /\ pending'["client"] = pending["client"]
  BY DEF ReceiveHello, MarkConnected, Typed, TypeOK
<1>8. seq \in Nat \ {0} /\ nextSeq["client"] \in Nat /\ accepted \subseteq Nat
  BY BoundAssumption DEF Typed, TypeOK, Numbered, Seqs
<1>9. \A k \in Packet : k.seq \in Nat /\ k.ack \in Nat
  BY BoundAssumption DEF Packet, Seqs
<1>10. queue \in SUBSET Tracked /\ queue \subseteq pending["host"]
  BY AckedParts DEF Typed, TypeOK
<1>11. /\ (Held("host"))' = HeldNext("host") /\ (Held("client"))' = Held("client")
       /\ \A k \in HeldNext("host") : k \in Held("host") \/ k = Accept(m)
       /\ Accept(m) \in HeldNext("host")
       /\ {q.packet : q \in queue} \subseteq HeldNext("host")
  <2>1. /\ \A q \in Track(queue, Accept(m)) : q \in queue \/ q.packet = Accept(m)
        /\ queue \subseteq Track(queue, Accept(m))
        /\ \E q \in Track(queue, Accept(m)) : q.packet = Accept(m)
    BY <1>3, <1>10, TrackParts
  <2> HIDE DEF queue
  <2> QED BY <1>7, <1>10, <2>1 DEF Held, HeldNext
<1>12. /\ \A k \in net'["host"] : k \in net["host"]
       /\ \A k \in net'["client"] :
            k \in net["client"] \/ (m.from = "client" /\ k = Accept(m))
  <2>1. net' = Sent(flight, m.from, {Accept(m)})
    BY DEF ReceiveHello
  <2>2. \A e \in Ends : \A k \in net'[e] : k \in flight[e] \/ (e = m.from /\ k = Accept(m))
    BY <1>1, <1>3, <2>1, SentParts
  <2> QED BY <1>1, <1>5, <2>2
<1>13. Held("host") \subseteq Packet /\ net["host"] \subseteq Packet /\ net["client"] \subseteq Packet
  BY DEF Held, Typed, TypeOK, Tracked
<1>14. accepted' # {} => m.from = "client"
  BY <1>4, <1>7 DEF HostFaithful
<1>15. RolesKept'
  BY <1>4, <1>5, <1>7 DEF RolesKept
<1>16. HostFaithful'
  BY <1>4, <1>6, <1>7, <1>14 DEF HostFaithful
<1>17. HeldTrue'
  <2>1. ASSUME NEW k \in HeldNext("host")
        PROVE  /\ k.from = "host" /\ k.kind = "accept" /\ k.seq < nextSeq'["host"]
               /\ remote'["host"] = "client" => k.ack \in accepted'
    <3>1. CASE k \in Held("host")
      <4>1. state["host"] # "idle"
        BY <3>1 DEF HostFaithful
      <4> QED BY <1>4, <1>7, <1>8, <1>9, <1>13, <3>1, <4>1 DEF HeldTrue
    <3>2. CASE k = Accept(m)
      BY <1>3, <1>4, <1>7, <1>8, <3>2
    <3> QED BY <1>11, <3>1, <3>2
  <2> QED BY <1>7, <1>11, <2>1 DEF HeldTrue
<1>18. FlightTrue'
  <2>1. ASSUME NEW k \in net["client"] PROVE ToClientTrue(k)'
    BY <1>7, <1>8, <1>9, <1>13 DEF FlightTrue, ToClientTrue
  <2>2. ASSUME m.from = "client", NEW k \in Packet, k = Accept(m) PROVE ToClientTrue(k)'
    BY <1>3, <1>7, <1>8, <2>2 DEF ToClientTrue
  <2>3. ASSUME NEW k \in net["host"] PROVE ToHostTrue(k)'
    BY <1>7, <1>8, <1>9, <1>13 DEF FlightTrue, ToHostTrue
  <2> QED BY <1>3, <1>12, <2>1, <2>2, <2>3 DEF FlightTrue
<1>19. ASSUME CallersAcknowledgeNothing PROVE Unacknowledged'
  <2> SUFFICES ASSUME remote'["host"] = "client", AwaitsAccept',
                      NEW k \in HeldNext("host"), NEW a \in net'["host"],
                      k.ack = helloSeq'
               PROVE  k.seq # a.ack
    BY <1>11 DEF Unacknowledged
  <2>1. AwaitsAccept
    BY <1>7 DEF AwaitsAccept
  <2>2. CASE k \in Held("host")
    <3>1. remote["host"] = "client"
      BY <1>4, <2>2 DEF HostFaithful
    <3> QED BY <1>7, <1>12, <1>19, <2>1, <2>2, <3>1 DEF Retriable, Unacknowledged
  <2>3. CASE k = Accept(m)
    <3>1. a.ack < seq
      BY <1>12, <1>19 DEF Retriable, AcksTrue, AckedTrue
    <3> QED BY <1>3, <1>8, <2>3, <3>1
  <2> QED BY <1>11, <2>2, <2>3
<1>20. ASSUME CallersAcknowledgeNothing PROVE HandshakeRetried'
  <2> SUFFICES ASSUME AwaitsAccept', helloSeq \in accepted'
               PROVE  \E k \in HeldNext("host") : k.kind = "accept" /\ k.ack = helloSeq
    <3>1. AwaitsAccept' => \E k \in Held("client") : k.kind = "hello" /\ k.seq = helloSeq
      BY <1>7, <1>20, RetriedHeld DEF Retriable, AwaitsAccept
    <3>2. HeldNext("client") = Held("client")
      BY <1>7 DEF Held, HeldNext
    <3> QED BY <1>7, <3>1, <3>2, RetriedHeldNext
  <2>1. CASE m.seq = helloSeq
    BY <1>3, <1>11, <2>1
  <2>2. CASE m.seq # helloSeq
    <3>1. helloSeq \in accepted /\ AwaitsAccept
      BY <1>7, <2>2 DEF AwaitsAccept
    <3>2. remote["host"] = "client" /\ state["host"] \in {"connected", "reconnecting"}
      BY <1>4, <3>1 DEF HostFaithful
    <3>3. PICK k \in Held("host") : k.kind = "accept" /\ k.ack = helloSeq
      BY <1>20, <3>1, <3>2, RetriedHeld DEF Retriable
    <3>4. k \in {q.packet : q \in queue}
      BY <1>20, <3>1, <3>2, <3>3, AckedHeld
    <3> QED BY <1>11, <3>3, <3>4
  <2> QED BY <2>1, <2>2
<1>21. ConnectedWasAccepted'
  BY <1>4, <1>7, <1>14 DEF ConnectedWasAccepted
<1>22. ASSUME CallersAcknowledgeNothing PROVE AcksTrue'
  <2>1. ASSUME NEW k \in net'["host"] PROVE AckedTrue("host", k)'
    BY <1>7, <1>8, <1>9, <1>12, <1>13, <1>22 DEF Retriable, AcksTrue, AckedTrue
  <2>2. ASSUME NEW k \in net'["client"] PROVE AckedTrue("client", k)'
    BY <1>3, <1>12, <1>22 DEF Retriable, AcksTrue, AckedTrue
  <2> QED BY <2>1, <2>2 DEF AcksTrue
<1> QED BY <1>15, <1>16, <1>17, <1>18, <1>19, <1>20, <1>21, <1>22
        DEF Retriable, CallersAcknowledgeNothing

\* The hello of a host that cannot answer it pins its source only while the
\* host has accepted nobody.
LEMMA ReceiveHelloFailsInv ==
    ASSUME IInv, Typed', NEW m \in net["host"] \cup StrangerPackets,
           NEW flight \in Consumed("host", m), ReceiveHelloFails(m, flight)
    PROVE  IInv'
<1> USE DEF IInv
<1>1. \A e \in Ends : flight[e] \subseteq net[e]
  BY FlightParts DEF Typed, TypeOK
<1>2. /\ m.from # Nobody
      /\ remote'["host"] = m.from /\ remote'["client"] = remote["client"]
      /\ state["host"] # "idle" => m.from = remote["host"]
  BY DEF ReceiveHelloFails, Admit, Admitted, Typed, TypeOK
<1>3. m.from \in {"client", Stranger}
  <2>1. CASE m \in net["host"]
    BY <2>1 DEF FlightTrue, ToHostTrue
  <2>2. CASE m \in StrangerPackets
    BY <2>2, StrangerType
  <2> QED BY <2>1, <2>2
<1>4. /\ UNCHANGED <<state, helloSeq, accepted>> /\ net' = flight
      /\ nextSeq'["host"] = nextSeq["host"] + 1 /\ nextSeq'["client"] = nextSeq["client"]
      /\ pending'["host"] = AckedBy("host", m) /\ pending'["client"] = pending["client"]
  BY DEF ReceiveHelloFails, Typed, TypeOK
<1>5. /\ (Held("host"))' = {q.packet : q \in AckedBy("host", m)}
      /\ (Held("client"))' = Held("client")
      /\ HeldNext("host") = {q.packet : q \in AckedBy("host", m)}
      /\ HeldNext("client") = Held("client")
      /\ (Held("host"))' \subseteq Held("host")
  BY <1>4, AckedHeld DEF Held, HeldNext
<1>6. nextSeq["host"] \in Nat /\ \A k \in Packet : k.seq \in Nat /\ k.ack \in Nat
  BY BoundAssumption DEF Typed, TypeOK, Numbered, Packet, Seqs
<1>7. Held("host") \subseteq Packet /\ net["host"] \subseteq Packet /\ net["client"] \subseteq Packet
  BY DEF Held, Typed, TypeOK, Tracked
<1>8. Held("host") # {} \/ accepted # {} => remote'["host"] = remote["host"]
  BY <1>2 DEF HostFaithful
<1>9. RolesKept'
  BY <1>2, <1>3, <1>4 DEF RolesKept
<1>10. HostFaithful'
  BY <1>4, <1>5, <1>8 DEF HostFaithful
<1>11. HeldTrue'
  <2>1. ASSUME NEW k \in Held("host")
        PROVE  /\ k.from = "host" /\ k.kind = "accept" /\ k.seq < nextSeq'["host"]
               /\ remote'["host"] = "client" => k.ack \in accepted
    BY <1>4, <1>6, <1>7, <1>8 DEF HeldTrue
  <2> QED BY <1>4, <1>5, <2>1 DEF HeldTrue
<1>12. FlightTrue'
  <2>1. ASSUME NEW k \in net["client"] PROVE ToClientTrue(k)'
    BY <1>4, <1>6, <1>7 DEF FlightTrue, ToClientTrue
  <2>2. ASSUME NEW k \in net["host"] PROVE ToHostTrue(k)'
    BY <1>4, <1>6, <1>7 DEF FlightTrue, ToHostTrue
  <2> QED BY <1>1, <1>4, <2>1, <2>2 DEF FlightTrue
<1>13. ASSUME CallersAcknowledgeNothing PROVE AcksTrue' /\ Unacknowledged'
  <2>1. Unacknowledged'
    BY <1>1, <1>4, <1>5, <1>8, <1>13 DEF Retriable, Unacknowledged, AwaitsAccept
  <2>2. AcksTrue'
    BY <1>1, <1>4, <1>6, <1>7, <1>13 DEF Retriable, AcksTrue, AckedTrue
  <2> QED BY <2>1, <2>2
<1>14. ASSUME CallersAcknowledgeNothing PROVE HandshakeRetried'
  <2> SUFFICES ASSUME AwaitsAccept, helloSeq \in accepted,
                      state["host"] \in {"connected", "reconnecting"}
               PROVE  \E k \in HeldNext("host") : k.kind = "accept" /\ k.ack = helloSeq
    BY <1>4, <1>5, <1>14, RetriedHeld, RetriedHeldNext DEF Retriable, AwaitsAccept
  <2>1. PICK k \in Held("host") : k.kind = "accept" /\ k.ack = helloSeq
    BY <1>14, RetriedHeld DEF Retriable
  <2>2. remote["host"] = "client"
    BY DEF HostFaithful
  <2> QED BY <1>5, <1>14, <2>1, <2>2, AckedHeld
<1>15. ConnectedWasAccepted'
  BY <1>4, <1>8 DEF ConnectedWasAccepted
<1> QED BY <1>9, <1>10, <1>11, <1>12, <1>13, <1>14, <1>15
        DEF Retriable, CallersAcknowledgeNothing

\* The client connects on an accept of its current hello.
LEMMA ReceiveAcceptInv ==
    ASSUME IInv, Typed', NEW m \in net["client"],
           NEW flight \in Consumed("client", m), ReceiveAccept(m, flight)
    PROVE  IInv'
<1> USE DEF IInv
<1>1. /\ flight \in [Ends -> SUBSET Packet]
      /\ \A e \in Ends : flight[e] \subseteq net[e]
  BY FlightParts DEF Typed, TypeOK
<1>2. /\ m.kind = "accept" /\ m.ack = helloSeq /\ m.ack \in accepted
      /\ m.seq < nextSeq["host"]
  BY DEF ReceiveAccept, FlightTrue, ToClientTrue
<1>3. /\ remote' = remote /\ UNCHANGED <<nextSeq, helloSeq, accepted>>
      /\ state'["client"] = "connected" /\ state'["host"] = state["host"]
      /\ pending'["host"] = pending["host"]
      /\ pending'["client"] = Acknowledged(AckedBy("client", m), helloSeq)
  BY AdmittedPeer DEF ReceiveAccept, MarkConnected, Typed, TypeOK
<1>4. /\ (Held("host"))' = Held("host") /\ (Held("client"))' \subseteq Held("client")
  BY <1>3, AckedParts DEF Held, Acknowledged, Typed, TypeOK
<1>5. Plain("client", "ping", m.seq) \in Packet
  <2>1. m \in Packet
    BY DEF Typed, TypeOK
  <2> QED BY <2>1, PlainType DEF Packet, Kinds
<1>6. \A e \in Ends : \A k \in net'[e] :
        k \in net[e] \/ (e = "host" /\ k = Plain("client", "ping", m.seq))
  <2>1. net' \in {flight, Sent(flight, "host", {Plain("client", "ping", m.seq)})}
    BY DEF ReceiveAccept
  <2> QED BY <1>1, <1>5, <2>1, SentParts
<1>7. RolesKept' /\ HostFaithful' /\ HeldTrue'
  BY <1>3, <1>4 DEF RolesKept, HostFaithful, HeldTrue
<1>8. FlightTrue'
  <2>1. ASSUME NEW k \in net'["client"] PROVE ToClientTrue(k)'
    BY <1>3, <1>6 DEF FlightTrue, ToClientTrue
  <2>2. ASSUME NEW k \in net'["host"] PROVE ToHostTrue(k)'
    <3>1. CASE k \in net["host"]
      BY <1>3, <3>1 DEF FlightTrue, ToHostTrue
    <3>2. CASE k = Plain("client", "ping", m.seq)
      BY <1>2, <1>3, <3>2 DEF ToHostTrue, Plain
    <3> QED BY <1>6, <3>1, <3>2
  <2> QED BY <2>1, <2>2 DEF FlightTrue
<1>9. CallersAcknowledgeNothing => Retriable'
  <2>1. CallersAcknowledgeNothing => AcksTrue'
    BY <1>2, <1>3, <1>6 DEF Retriable, AcksTrue, AckedTrue, Plain
  <2> QED BY <1>3, <2>1 DEF Retriable, Unacknowledged, HandshakeRetried, AwaitsAccept
<1>10. ConnectedWasAccepted'
  BY <1>2, <1>3 DEF ConnectedWasAccepted, HostFaithful
<1> QED BY <1>7, <1>8, <1>9, <1>10 DEF CallersAcknowledgeNothing

LEMMA IInvStep == IInv /\ [Next]_vars => IInv'
<1> SUFFICES ASSUME IInv, [Next]_vars PROVE IInv'
  OBVIOUS
<1>1. Typed'
  BY TypedStep DEF IInv
<1>2. CASE UNCHANGED vars
  BY <1>1, <1>2, HeldUnchanged, PlainStep DEF vars
<1>3. ASSUME NEW p \in Ends, PollReceive(p) PROVE IInv'
  <2>1. PICK m \in net[p] \cup (IF p = "host" THEN StrangerPackets ELSE {}) :
          \E flight \in Consumed(p, m) : Received(p, m, flight)
    BY <1>3 DEF PollReceive, Received
  <2>2. PICK flight \in Consumed(p, m) : Received(p, m, flight)
    BY <2>1
  <2>3. CASE p = "host" /\ ReceiveHello(m, flight)
    BY <1>1, <2>3, ReceiveHelloInv
  <2>4. CASE p = "host" /\ ReceiveHelloFails(m, flight)
    BY <1>1, <2>4, ReceiveHelloFailsInv
  <2>5. CASE p = "client" /\ ReceiveAccept(m, flight)
    BY <1>1, <2>5, ReceiveAcceptInv
  <2> QED BY <1>3, <2>2, <2>3, <2>4, <2>5, QuietReceiveInv DEF Received
<1>4. ASSUME NEW p \in Ends, PollEnd(p) PROVE IInv'
  BY <1>4, ReconnectInv, PollQuietInv
<1> QED BY <1>2, <1>3, <1>4, TickInv, QuietCallsInv, ConnectInv, ConnectFailsInv,
           PollQuietInv
        DEF Next, Poll

-----------------------------------------------------------------------------
(* What is promised.                                                       *)

THEOREM Invariance == Spec => []IInv
BY IInvInit, IInvStep, PTL DEF Spec

\* Whatever packets and acknowledgements are lost, repeated or reordered, the end
\* that has to resend the packet that completes the handshake still holds it: so
\* long as the callers acknowledge nothing, for poll() takes the acknowledgement in
\* a caller's packet for one of the session's.
THEOREM HandshakeIsRetried ==
    ASSUME CallersAcknowledgeNothing PROVE Spec => []HandshakeRetried
<1>1. IInv => HandshakeRetried
  BY DEF IInv, Retriable
<1> QED BY <1>1, Invariance, PTL

\* No client is connected but by an accept of its current hello, from a host
\* that has pinned it.
THEOREM ConnectionsWereAccepted == Spec => []ConnectedWasAccepted
<1>1. IInv => ConnectedWasAccepted
  BY DEF IInv
<1> QED BY <1>1, Invariance, PTL

\* A host that has left idle never takes another peer.
THEOREM PeerIsPinned == Spec => PeerStaysPinned
<1>1. IInv /\ [Next]_vars
        => [state["host"] # "idle" => remote'["host"] = remote["host"]]_vars
  <2> SUFFICES ASSUME IInv, Next, state["host"] # "idle"
               PROVE  remote'["host"] = remote["host"]
    OBVIOUS
  <2>1. ASSUME NEW p \in Ends, PollReceive(p) PROVE remote'["host"] = remote["host"]
    <3>1. PICK m : remote' = remote \/ Admit(p, m)
      BY <2>1 DEF PollReceive, ReceiveIgnored, ReceiveDisconnect, ReceiveHello,
                  ReceiveHelloFails, ReceiveAccept, ReceiveUnused, ReceiveConnected
    <3> QED BY <3>1, AdmittedPeer
  <2>2. CASE Connect \/ ConnectFails
    BY <2>2 DEF Connect, ConnectFails, IInv, Typed, TypeOK
  <2> QED BY <2>1, <2>2
          DEF Next, Poll, Tick, Lose, Send, Disconnect, PollExpires, PollBegin,
              PollEnd, PollAborts
<1> QED BY <1>1, Invariance, PTL DEF Spec, PeerStaysPinned

\* The edge an end takes in one step, if any.
EdgeTaken(p) ==
    \/ state'[p] = state[p]
    \/ polling = p /\ <<state[p], state'[p]>> \in PollEdges(p)
    \/ polling = Nobody /\ DeadlinePassed(p)
       /\ <<state[p], state'[p]>> \in PollEdges(p)
    \/ polling = Nobody /\ <<state[p], state'[p]>> \in CallEdges(p)
    \/ polling = Nobody /\ p = "client" /\ <<state[p], state'[p]>> = Revival

LEMMA EdgeStep ==
    ASSUME IInv, Next, NEW p \in Ends
    PROVE  EdgeTaken(p)
<1> USE DEF IInv, Typed, TypeOK
<1>1. CASE UNCHANGED state
  BY <1>1 DEF EdgeTaken
<1>2. CASE Connect
  <2>1. /\ polling = Nobody /\ state["client"] \in {"idle", "disconnected"}
        /\ state' = [state EXCEPT !["client"] = "connecting"]
    BY <1>2 DEF Connect
  <2> QED BY <2>1 DEF EdgeTaken, CallEdges, Revival
<1>3. ASSUME NEW e \in Ends, Disconnect(e) PROVE EdgeTaken(p)
  <2>1. /\ polling = Nobody /\ state[e] = "connected"
        /\ state' = [state EXCEPT ![e] = "disconnected"]
    BY <1>3 DEF Disconnect, MarkDisconnected
  <2> QED BY <2>1 DEF EdgeTaken, CallEdges
<1>4. ASSUME NEW e \in Ends, PollExpires(e) PROVE EdgeTaken(p)
  <2>1. /\ polling = Nobody /\ DeadlinePassed(e)
        /\ state' = [state EXCEPT ![e] = "disconnected"]
    BY <1>4 DEF PollExpires, MarkDisconnected
  <2> QED BY <2>1 DEF EdgeTaken, PollEdges, DeadlinePassed
<1>5. ASSUME NEW e \in Ends, PollEnd(e), Silent(e), BeginReconnect(e) PROVE EdgeTaken(p)
  <2>1. /\ polling = e /\ state[e] = "connected"
        /\ state' = [state EXCEPT ![e] = "reconnecting"]
    BY <1>5 DEF PollEnd, Silent, BeginReconnect
  <2> QED BY <2>1 DEF EdgeTaken, PollEdges
<1>6. ASSUME NEW e \in Ends, polling = e, NEW m, NEW flight,
             ReceiveDisconnect(e, m, flight)
      PROVE  EdgeTaken(p)
  <2>1. /\ state[e] \in {"connected", "reconnecting"}
        /\ state' = [state EXCEPT ![e] = "disconnected"]
    BY <1>6 DEF ReceiveDisconnect, MarkDisconnected
  <2> QED BY <1>6, <2>1 DEF EdgeTaken, PollEdges
<1>7. ASSUME polling = "host", NEW m, NEW flight, ReceiveHello(m, flight)
      PROVE  EdgeTaken(p)
  <2>1. /\ state["host"] \in {"idle", "connected", "reconnecting"}
        /\ state' = [state EXCEPT !["host"] = "connected"]
    BY <1>7 DEF ReceiveHello, Admit, Admitted, MarkConnected, RolesKept, States
  <2> QED BY <1>7, <2>1 DEF EdgeTaken, PollEdges
<1>8. ASSUME polling = "client", NEW m, NEW flight, ReceiveAccept(m, flight)
      PROVE  EdgeTaken(p)
  <2>1. /\ state["client"] \in {"connecting", "reconnecting"}
        /\ state' = [state EXCEPT !["client"] = "connected"]
    BY <1>8 DEF ReceiveAccept, AwaitsAccept, MarkConnected
  <2> QED BY <1>8, <2>1 DEF EdgeTaken, PollEdges
<1>9. ASSUME NEW e \in Ends, PollReceive(e) PROVE EdgeTaken(p)
  <2>1. PICK m, flight : polling = e /\ Received(e, m, flight)
    BY <1>9 DEF PollReceive, Received
  <2> QED BY <1>1, <1>6, <1>7, <1>8, <2>1
          DEF Received, ReceiveIgnored, ReceiveHelloFails, ReceiveUnused, ReceiveConnected
<1>10. ASSUME NEW e \in Ends, PollEnd(e) PROVE EdgeTaken(p)
  BY <1>1, <1>5, <1>10 DEF PollEnd
<1> QED BY <1>1, <1>2, <1>3, <1>4, <1>9, <1>10
        DEF Next, Poll, Tick, Lose, ConnectFails, Send, PollBegin, PollAborts

\* Whatever is received, sent or called, in whatever order, no end takes an edge
\* that the design does not have, but for a client that connects again: poll() takes
\* none but its own, and OnlineSession may assume no other.
THEOREM LifecycleIsFollowed == Spec => FollowsLifecycle
<1>1. IInv /\ [Next]_vars => [\A p \in Ends : EdgeTaken(p)]_vars
  BY EdgeStep
<1>2. Spec => [][\A p \in Ends : EdgeTaken(p)]_vars
  BY <1>1, Invariance, PTL DEF Spec
<1> QED BY <1>2 DEF FollowsLifecycle, EdgeTaken

=============================================================================
