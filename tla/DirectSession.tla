---------------------------- MODULE DirectSession ----------------------------
(***************************************************************************)
(* DirectUdpSession and ControlReliabilityQueue (src/core/network_         *)
(* transport.h, network_protocol.cpp): the two ends of a direct UDP        *)
(* session over a network that loses, duplicates and reorders datagrams.   *)
(*                                                                         *)
(* poll() is a loop over the socket.  It is split into PollBegin, one      *)
(* PollReceive per datagram and PollEnd; polling names the end inside      *)
(* poll(), and only that end moves meanwhile.  Nothing is lost by that:    *)
(* the ends share only the network, which delays datagrams at will.        *)
(*                                                                         *)
(* A time point then_ms is kept as the ticks elapsed since, up to the      *)
(* longest interval it is compared with.  Of the numbers a session gives   *)
(* its packets only those of hellos and accepts are counted: its pings,    *)
(* pongs and disconnects are never pending, so their numbers are zero here.*)
(* What callers hand to send() has any number and any acknowledgement they *)
(* choose, out of CallerNumbers, and so has what a third endpoint sends.   *)
(***************************************************************************)
EXTENDS Naturals, FiniteSets, DirectSessionStates

CONSTANTS
    Retry, Heartbeat, Liveness, Reconnect,  \* DirectSessionTiming, in ticks
    MaxHello,       \* bound: hellos a client sends
    MaxAccept,      \* bound: accepts a host sends
    MaxFlight,      \* bound: datagrams in flight to one end
    Duplicates,     \* whether the network duplicates datagrams
    CallerNumbers,  \* numbers and acknowledgements in the callers' packets
    SendFails,      \* whether a send or a read may fail
    Garbage,        \* whether anyone sends datagrams that do not parse
    Strangers       \* whether a third endpoint talks to the host

ASSUME TimingAssumption ==
    /\ Retry \in Nat /\ Heartbeat \in Nat \ {0}
    /\ Liveness \in Nat \ {0} /\ Reconnect \in Nat \ {0}
    /\ Liveness >= Heartbeat
ASSUME BoundAssumption ==
    /\ MaxHello \in Nat \ {0} /\ MaxAccept \in Nat /\ MaxFlight \in Nat
    /\ {Duplicates, SendFails, Garbage, Strangers} \subseteq BOOLEAN

Ends == Roles
Other(p) == IF p = "host" THEN "client" ELSE "host"
Nobody == "nobody"
Stranger == "stranger"

Kinds == {"input", "ping", "pong", "hello", "accept", "disconnect"}
Reliable == {"hello", "accept", "disconnect"}    \* is_reliable_control

VARIABLES
    state,      \* state_
    remote,     \* remote_
    pending,    \* reliability_: packets with the ticks since last_send_ms
    nextSeq,    \* next_sequence_, counting control packets only
    helloSeq,   \* hello_sequence_ of the client
    heard,      \* ticks since last_peer_receive_ms_
    beat,       \* ticks since last_heartbeat_send_ms_
    since,      \* ticks since reconnect_started_ms_
    polling,    \* the end inside poll(), if any
    net,        \* datagrams in flight to each end
    accepted    \* history: the client's hellos the host sent an accept for

clocks == <<heard, beat, since>>
vars == <<state, remote, pending, nextSeq, helloSeq, clocks, polling, net,
          accepted>>

Seqs == 0 .. MaxHello + MaxAccept

ASSUME CallerAssumption == CallerNumbers \in SUBSET Seqs /\ 0 \in CallerNumbers

Packet == [from : Ends \cup {Stranger}, kind : Kinds, seq : Seqs, ack : Seqs]
Tracked == [packet : {m \in Packet : m.kind \in Reliable /\ m.seq # 0},
            age : 0 .. Retry]

TypeOK ==
    /\ state \in [Ends -> States]
    /\ remote \in [Ends -> Ends \cup {Stranger, Nobody}]
    /\ pending \in [Ends -> SUBSET Tracked]
    /\ nextSeq \in [Ends -> Seqs \cup {MaxHello + MaxAccept + 1}]
    /\ helloSeq \in Seqs
    /\ heard \in [Ends -> 0 .. Liveness]
    /\ beat \in [Ends -> 0 .. Heartbeat]
    /\ since \in [Ends -> 0 .. Reconnect]
    /\ polling \in Ends \cup {Nobody}
    /\ net \in [Ends -> SUBSET Packet]
    /\ accepted \subseteq Seqs

-----------------------------------------------------------------------------
(* The network and the reliability queue.                                  *)

\* send_packet: a datagram to the stranger, or one too many, is lost.
Sent(flight, to, packets) ==
    IF to \in Ends /\ Cardinality(flight[to] \cup packets) <= MaxFlight
    THEN [flight EXCEPT ![to] = @ \cup packets]
    ELSE flight

\* Whether a send succeeds: the operating system may refuse any of them.
Outcomes == IF SendFails THEN BOOLEAN ELSE {TRUE}

Plain(p, kind, ack) == [from |-> p, kind |-> kind, seq |-> 0, ack |-> ack]

\* track: a control packet enters the queue as just sent.
Track(queue, packet) == queue \cup {[packet |-> packet, age |-> 0]}

\* acknowledge
Acknowledged(queue, seq) == {q \in queue : q.packet.seq # seq}

\* due_retransmits: what it returns, and the queue it leaves.
Due(queue) == {q \in queue : q.age >= Retry}
\* Mutant of Resent: what is due is taken out of the queue to be sent.
ResentTakenOut(queue) == queue \ Due(queue)
Resent(queue) ==
    {[q EXCEPT !.age = IF q \in Due(queue) THEN 0 ELSE @] : q \in queue}

-----------------------------------------------------------------------------
(* Private members of DirectUdpSession that several operations use.        *)

MarkConnected(p) ==
    /\ state' = [state EXCEPT ![p] = "connected"]
    /\ heard' = [heard EXCEPT ![p] = 0]
    /\ beat' = [beat EXCEPT ![p] = 0]
    /\ since' = [since EXCEPT ![p] = 0]

MarkDisconnected(p) ==
    /\ state' = [state EXCEPT ![p] = "disconnected"]
    /\ since' = [since EXCEPT ![p] = 0]
    /\ UNCHANGED <<heard, beat>>

Hello == [from |-> "client", kind |-> "hello", seq |-> nextSeq["client"],
          ack |-> 0]

\* send_new_hello when it succeeds, or fails with the hello already tracked.
SendNewHello(ok) ==
    /\ helloSeq' = nextSeq["client"]
    /\ nextSeq' = [nextSeq EXCEPT !["client"] = @ + 1]
    /\ pending' = [pending EXCEPT !["client"] = Track(@, Hello)]
    /\ net' = IF ok THEN Sent(net, "host", {Hello}) ELSE net

-----------------------------------------------------------------------------
Init ==
    /\ state = [p \in Ends |-> "idle"]
    /\ remote = [p \in Ends |-> Nobody]
    /\ pending = [p \in Ends |-> {}]
    /\ nextSeq = [p \in Ends |-> 1]
    /\ helloSeq = 0
    /\ heard = [p \in Ends |-> 0]
    /\ beat = [p \in Ends |-> 0]
    /\ since = [p \in Ends |-> 0]
    /\ polling = Nobody
    /\ net = [p \in Ends |-> {}]
    /\ accepted = {}

\* One tick passes: the callers' clocks are monotonic.
Tick ==
    LET Aged(clock, limit) == IF clock < limit THEN clock + 1 ELSE limit
    IN  /\ polling = Nobody
        /\ heard' = [p \in Ends |-> Aged(heard[p], Liveness)]
        /\ beat' = [p \in Ends |-> Aged(beat[p], Heartbeat)]
        /\ since' = [p \in Ends |-> Aged(since[p], Reconnect)]
        /\ pending' = [p \in Ends |->
                        {[q EXCEPT !.age = Aged(@, Retry)] : q \in pending[p]}]
        /\ UNCHANGED <<state, remote, nextSeq, helloSeq, polling, net, accepted>>

\* The network drops a datagram.
Lose ==
    /\ polling = Nobody
    /\ \E p \in Ends : \E m \in net[p] : net' = [net EXCEPT ![p] = @ \ {m}]
    /\ UNCHANGED <<state, remote, pending, nextSeq, helloSeq, clocks, polling,
                   accepted>>

\* connect(host): refused while a connection is active.
Connect ==
    /\ polling = Nobody
    /\ state["client"] \in {"idle", "disconnected"}
    /\ nextSeq["client"] < MaxHello
    /\ remote' = [remote EXCEPT !["client"] = "host"]
    /\ SendNewHello(TRUE)
    /\ state' = [state EXCEPT !["client"] = "connecting"]
    /\ UNCHANGED <<clocks, polling, accepted>>

\* connect(host) when the hello cannot be sent: it is taken back.
ConnectFails ==
    /\ SendFails
    /\ polling = Nobody
    /\ state["client"] \in {"idle", "disconnected"}
    /\ nextSeq["client"] < MaxHello
    /\ nextSeq' = [nextSeq EXCEPT !["client"] = @ + 1]
    /\ helloSeq' = 0
    /\ remote' = [remote EXCEPT !["client"] = Nobody]
    /\ UNCHANGED <<state, pending, clocks, polling, net, accepted>>

\* What send() forwards as it is: anything but reliable control.
CallerPackets(p) ==
    [from : {p}, kind : Kinds \ Reliable, seq : CallerNumbers, ack : CallerNumbers]

\* send(packet): gameplay packets are not tracked.
Send(p) ==
    /\ polling = Nobody
    /\ state[p] = "connected" /\ remote[p] # Nobody
    /\ \E m \in CallerPackets(p) : net' = Sent(net, remote[p], {m})
    /\ UNCHANGED <<state, remote, pending, nextSeq, helloSeq, clocks, polling,
                   accepted>>

\* disconnect(): one datagram, then the session is over on this side.
Disconnect(p) ==
    /\ polling = Nobody
    /\ state[p] = "connected" /\ remote[p] # Nobody
    /\ net' = Sent(net, remote[p], {Plain(p, "disconnect", 0)})
    /\ MarkDisconnected(p)
    /\ UNCHANGED <<remote, pending, nextSeq, helloSeq, polling, accepted>>

-----------------------------------------------------------------------------
(* poll()                                                                  *)

\* Mutant of DeadlinePassed: only the end that sends hellos gives up.
DeadlineOfClient(p) ==
    p = "client" /\ state[p] = "reconnecting" /\ since[p] >= Reconnect

DeadlinePassed(p) == state[p] = "reconnecting" /\ since[p] >= Reconnect

\* The reconnect deadline ends the session before the socket is read.
PollExpires(p) ==
    /\ polling = Nobody
    /\ DeadlinePassed(p)
    /\ MarkDisconnected(p)
    /\ UNCHANGED <<remote, pending, nextSeq, helloSeq, polling, net, accepted>>

\* Retransmission of what is due: some of it may be lost at once, and when a
\* send fails poll() returns with the rest unsent though marked as sent.
PollBegin(p) ==
    LET active == remote[p] # Nobody /\ state[p] # "disconnected"
        due == IF active THEN Due(pending[p]) ELSE {}
    IN  /\ polling = Nobody
        /\ ~DeadlinePassed(p)
        /\ \E out \in SUBSET {q.packet : q \in due} :
                net' = Sent(net, remote[p], out)
        /\ pending' = IF active THEN [pending EXCEPT ![p] = Resent(@)]
                      ELSE pending
        /\ \/ polling' = p
           \/ SendFails /\ due # {} /\ polling' = Nobody
        /\ UNCHANGED <<state, remote, nextSeq, helloSeq, clocks, accepted>>

\* Mutant of Admitted: a host without a peer at hand takes any hello.
AdmittedReconnecting(p, m) ==
    CASE state[p] = "disconnected" -> Nobody
      [] p = "host" /\ state[p] \in {"idle", "reconnecting"} ->
            IF m.kind = "hello" THEN m.from ELSE Nobody
      [] OTHER -> IF remote[p] = m.from THEN m.from ELSE Nobody

\* Mutant of Admitted: a disconnected end still listens to its peer.
AdmittedTerminal(p, m) ==
    CASE p = "host" /\ state[p] = "idle" ->
            IF m.kind = "hello" THEN m.from ELSE Nobody
      [] OTHER -> IF remote[p] = m.from THEN m.from ELSE Nobody

\* The peer a datagram from this source is taken to come from, or Nobody when
\* poll() ignores it: an idle host takes the source of any hello.
Admitted(p, m) ==
    CASE state[p] = "disconnected" -> Nobody
      [] p = "host" /\ state[p] = "idle" ->
            IF m.kind = "hello" THEN m.from ELSE Nobody
      [] OTHER -> IF remote[p] = m.from THEN m.from ELSE Nobody

\* A datagram is taken out of the network; a duplicate of it may stay.
Consumed(p, m) ==
    IF Duplicates THEN {net, [net EXCEPT ![p] = @ \ {m}]}
    ELSE {[net EXCEPT ![p] = @ \ {m}]}

ReceiveIgnored(p, m, flight) ==
    /\ Admitted(p, m) = Nobody
    /\ net' = flight
    /\ UNCHANGED <<state, remote, pending, nextSeq, helloSeq, clocks, polling,
                   accepted>>

\* What every admitted datagram does first: pin its source, and acknowledge.
Admit(p, m) ==
    /\ Admitted(p, m) # Nobody
    /\ remote' = [remote EXCEPT ![p] = Admitted(p, m)]

AckedBy(p, m) == IF m.ack = 0 THEN pending[p] ELSE Acknowledged(pending[p], m.ack)

ReceiveDisconnect(p, m, flight) ==
    /\ Admit(p, m)
    /\ m.kind = "disconnect" /\ state[p] \in {"connected", "reconnecting"}
    /\ pending' = [pending EXCEPT ![p] = AckedBy(p, m)]
    /\ net' = flight
    /\ MarkDisconnected(p)
    /\ UNCHANGED <<nextSeq, helloSeq, polling, accepted>>

Accept(m) == [from |-> "host", kind |-> "accept", seq |-> nextSeq["host"],
              ack |-> m.seq]

\* Every hello is answered with an accept of its own, tracked until the client
\* acknowledges it.  A host out of numbers loses the hello (MaxAccept).
ReceiveHello(m, flight) ==
    /\ Admit("host", m)
    /\ m.kind = "hello"
    /\ nextSeq["host"] <= MaxAccept
    /\ nextSeq' = [nextSeq EXCEPT !["host"] = @ + 1]
    /\ pending' = [pending EXCEPT !["host"] = Track(AckedBy("host", m), Accept(m))]
    /\ net' = Sent(flight, m.from, {Accept(m)})
    /\ MarkConnected("host")
    /\ accepted' = IF m.from = "client" THEN accepted \cup {m.seq} ELSE accepted
    /\ UNCHANGED <<helloSeq, polling>>

\* The accept cannot be sent: it is taken back and poll() returns.  The source
\* of the hello stays in remote_.
ReceiveHelloFails(m, flight) ==
    /\ SendFails
    /\ Admit("host", m)
    /\ m.kind = "hello"
    /\ nextSeq["host"] <= MaxAccept
    /\ nextSeq' = [nextSeq EXCEPT !["host"] = @ + 1]
    /\ pending' = [pending EXCEPT !["host"] = AckedBy("host", m)]
    /\ net' = flight
    /\ polling' = Nobody
    /\ UNCHANGED <<state, helloSeq, clocks, accepted>>

AwaitsAccept == state["client"] \in {"connecting", "reconnecting"}

\* Mutant of ReceiveAccept: any accept connects.
ReceiveAnyAccept(m, flight) ==
    /\ Admit("client", m)
    /\ m.kind = "accept" /\ AwaitsAccept
    /\ nextSeq["client"] <= MaxHello
    /\ pending' = [pending EXCEPT
                    !["client"] = Acknowledged(AckedBy("client", m), helloSeq)]
    /\ MarkConnected("client")
    /\ net' = Sent(flight, "host", {Plain("client", "ping", m.seq)})
    /\ UNCHANGED <<nextSeq, helloSeq, polling, accepted>>

\* The accept of the current hello connects, and is acknowledged by one ping.
\* A client that could not send a further hello loses it (MaxHello).
ReceiveAccept(m, flight) ==
    /\ Admit("client", m)
    /\ m.kind = "accept" /\ AwaitsAccept
    /\ m.ack = helloSeq
    /\ nextSeq["client"] <= MaxHello
    /\ pending' = [pending EXCEPT
                    !["client"] = Acknowledged(AckedBy("client", m), helloSeq)]
    /\ MarkConnected("client")
    /\ \E ok \in Outcomes :
        /\ net' = IF ok THEN Sent(flight, "host", {Plain("client", "ping", m.seq)})
                  ELSE flight
        /\ polling' = IF ok THEN polling ELSE Nobody
    /\ UNCHANGED <<nextSeq, helloSeq, accepted>>

\* A datagram the handshake has no use for, outside connected.
ReceiveUnused(p, m, flight) ==
    /\ Admit(p, m)
    /\ state[p] # "connected"
    /\ ~(p = "host" /\ m.kind = "hello")
    /\ ~(m.kind = "disconnect" /\ state[p] = "reconnecting")
    /\ ~(p = "client" /\ AwaitsAccept /\ m.kind = "accept" /\ m.ack = helloSeq)
    /\ pending' = [pending EXCEPT ![p] = AckedBy(p, m)]
    /\ net' = flight
    /\ UNCHANGED <<state, nextSeq, helloSeq, clocks, polling, accepted>>

\* Anything else from the peer of a connected end counts as a sign of life; a
\* ping is answered.
ReceiveConnected(p, m, flight) ==
    /\ Admit(p, m)
    /\ state[p] = "connected"
    /\ m.kind # "disconnect" /\ ~(p = "host" /\ m.kind = "hello")
    /\ pending' = [pending EXCEPT ![p] = AckedBy(p, m)]
    /\ heard' = [heard EXCEPT ![p] = 0]
    /\ \E ok \in Outcomes :
        /\ net' = IF m.kind = "ping" /\ ok
                  THEN Sent(flight, m.from, {Plain(p, "pong", m.seq)}) ELSE flight
        /\ polling' = IF m.kind = "ping" /\ ~ok THEN Nobody ELSE polling
    /\ UNCHANGED <<state, nextSeq, helloSeq, beat, since, accepted>>

\* What a third endpoint may send the host.
StrangerPackets ==
    IF Strangers
    THEN [from : {Stranger}, kind : {"hello", "ping", "disconnect"},
          seq : {1}, ack : CallerNumbers]
    ELSE {}

PollReceive(p) ==
    /\ polling = p
    /\ \E m \in net[p] \cup (IF p = "host" THEN StrangerPackets ELSE {}) :
       \E flight \in Consumed(p, m) :
        \/ ReceiveIgnored(p, m, flight)
        \/ ReceiveDisconnect(p, m, flight)
        \/ p = "host" /\ ReceiveHello(m, flight)
        \/ p = "host" /\ ReceiveHelloFails(m, flight)
        \/ p = "client" /\ ReceiveAccept(m, flight)
        \/ ReceiveUnused(p, m, flight)
        \/ ReceiveConnected(p, m, flight)

\* Mutant of Silent: only the client looks for a silent peer.
SilentToClient(p) ==
    p = "client" /\ state[p] = "connected" /\ heard[p] >= Liveness

Silent(p) == state[p] = "connected" /\ heard[p] >= Liveness

\* begin_reconnect: the host waits, the client sends a new hello, which stays
\* tracked when the send fails.
BeginReconnect(p) ==
    /\ state' = [state EXCEPT ![p] = "reconnecting"]
    /\ since' = [since EXCEPT ![p] = 0]
    /\ beat' = [beat EXCEPT ![p] = 0]
    /\ UNCHANGED heard
    /\ IF p = "client" THEN \E ok \in Outcomes : SendNewHello(ok)
       ELSE UNCHANGED <<helloSeq, nextSeq, pending, net>>

\* The end of poll(): liveness, else heartbeat.  The second look at the
\* reconnect deadline is left out: PollExpires took it at the same now_ms.
PollEnd(p) ==
    /\ polling = p
    /\ polling' = Nobody
    /\ UNCHANGED <<remote, accepted>>
    /\ \/ Silent(p) /\ BeginReconnect(p)
       \/ /\ state[p] = "connected" /\ ~Silent(p) /\ beat[p] >= Heartbeat
          /\ net' = Sent(net, remote[p], {Plain(p, "ping", 0)})
          /\ beat' = [beat EXCEPT ![p] = 0]
          /\ UNCHANGED <<state, pending, nextSeq, helloSeq, heard, since>>
       \/ /\ state[p] # "connected" \/ (~Silent(p) /\ beat[p] < Heartbeat)
          /\ UNCHANGED <<state, pending, nextSeq, helloSeq, clocks, net>>

\* poll() returns early: the socket cannot be read or the heartbeat be sent, or a
\* datagram does not parse, whoever sent it.
PollAborts(p) ==
    /\ SendFails \/ Garbage
    /\ polling = p
    /\ polling' = Nobody
    /\ UNCHANGED <<state, remote, pending, nextSeq, helloSeq, clocks, net,
                   accepted>>

Poll(p) == PollExpires(p) \/ PollBegin(p) \/ PollReceive(p) \/ PollEnd(p)
             \/ PollAborts(p)

Next ==
    \/ Tick \/ Lose \/ Connect \/ ConnectFails
    \/ \E p \in Ends : Send(p) \/ Disconnect(p) \/ Poll(p)

Spec == Init /\ [][Next]_vars

\* Each end is polled again and again, each poll() returns, and time goes on
\* (strongly fair, because a poll() of either end suspends them).  The network
\* owes nothing: it may lose every datagram, and a poll() may always return early.
Fairness ==
    /\ SF_vars(Tick)
    /\ \A p \in Ends : /\ SF_vars(PollExpires(p) \/ PollBegin(p))
                       /\ WF_vars(PollEnd(p) \/ PollAborts(p))

FairSpec == Spec /\ Fairness

-----------------------------------------------------------------------------
(* Properties.                                                             *)

\* The callers write no acknowledgement into the packets they hand to send(), nor a
\* number into a ping, which its pong would acknowledge; no other number is read.
CallersAcknowledgeNothing == CallerNumbers = {0}

\* The handshake cannot get lost half-way: a client that awaits its accept still
\* holds the current hello for retransmission, and a host that has answered that
\* hello still holds an accept of it, whatever acknowledgements came meanwhile.
\* It holds when CallersAcknowledgeNothing: poll() takes the acknowledgement in a
\* caller's packet for one of the session's own.
HandshakeRetried ==
    AwaitsAccept =>
        /\ \E q \in pending["client"] :
               q.packet.kind = "hello" /\ q.packet.seq = helloSeq
        /\ helloSeq \in accepted /\ state["host"] \in {"connected", "reconnecting"}
               => \E q \in pending["host"] :
                      q.packet.kind = "accept" /\ q.packet.ack = helloSeq

\* A connected client was accepted on its current hello by a host whose pinned
\* peer it is: no stale accept of an earlier attempt connects it.
ConnectedWasAccepted ==
    state["client"] = "connected" =>
        helloSeq \in accepted /\ remote["host"] = "client"

\* The host never selects a different peer after the first accepted hello,
\* whoever else talks to it and however often it reconnects.
PeerStaysPinned == [][state["host"] # "idle" => remote'["host"] = remote["host"]]_vars

\* No call and no datagram, whatever their order, takes an end along an edge that
\* the design does not have, but for one: connect() by the client of a session
\* that is over, which the design calls terminal, starts that session again.  What
\* poll() receives never does.
FollowsLifecycle ==
    [][\A p \in Ends :
        \/ state'[p] = state[p]
        \/ polling = p /\ <<state[p], state'[p]>> \in PollEdges(p)
        \/ polling = Nobody /\ DeadlinePassed(p)
           /\ <<state[p], state'[p]>> \in PollEdges(p)
        \/ polling = Nobody /\ <<state[p], state'[p]>> \in CallEdges(p)
        \/ polling = Nobody /\ p = "client" /\ <<state[p], state'[p]>> = Revival]_vars

\* An end whose poll() comes to its end again and again does not stay connected
\* when the session is over on the other side, although the disconnect packet that
\* says so may be lost.  Nothing makes poll() come to its end: a datagram that does
\* not parse, whoever sent it, makes it return before it looks for silence.
HalfOpenEnds ==
    \A p \in Ends :
        []<><<PollEnd(p)>>_vars =>
            (state[p] = "connected" /\ state[Other(p)] = "disconnected"
                ~> state[p] # "connected" \/ state[Other(p)] # "disconnected")

\* Reconnecting is bounded: it ends connected or disconnected, whatever is lost,
\* fails or does not parse.
ReconnectResolves ==
    \A p \in Ends : state[p] = "reconnecting" ~> state[p] # "reconnecting"
=============================================================================
