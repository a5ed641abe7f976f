---------------------------- MODULE OnlineSession ----------------------------
(***************************************************************************)
(* OnlineSessionController (src/core/online_session.cpp): product-facing   *)
(* operations over an owned DirectUdpSession, and the view the product     *)
(* reads.  Several controllers run on one machine and bind its UDP ports.  *)
(*                                                                         *)
(* Of the owned session only its role, its state, its port and whether it  *)
(* has a peer are kept.  A poll() of it may take it along several edges of *)
(* DirectSessionStates, and may fail after any of them.  Telemetry and the *)
(* wording of errors are left out; a call refused with invalid_argument    *)
(* changes nothing and is no action.                                       *)
(***************************************************************************)
EXTENDS Naturals, DirectSessionStates

CONSTANTS
    Controllers,    \* the controllers on the machine
    Ports           \* the ports their callers ask for

ASSUME OnlineAssumption == Controllers # {} /\ Ports # {}

None == "none"
OnlineStates == {"inactive", "waiting_for_peer", "connecting", "connected",
                 "reconnecting", "disconnected", "faulted"}

VARIABLES
    session,    \* session_ of each controller
    view        \* view_ of each controller

vars == <<session, view>>

NoSession == [role |-> None, state |-> None, port |-> None, peer |-> FALSE]
Bound(role, port) == [role |-> role, state |-> "idle", port |-> port, peer |-> FALSE]

Session == [role : Roles, state : States, port : Ports, peer : BOOLEAN]
View == [state : OnlineStates, role : Roles \cup {None}, peer : BOOLEAN,
         canSend : BOOLEAN, error : BOOLEAN]

InitialView == [state |-> "inactive", role |-> None, peer |-> FALSE,
                canSend |-> FALSE, error |-> FALSE]

TypeOK ==
    /\ session \in [Controllers -> Session \cup {NoSession}]
    /\ view \in [Controllers -> View]

-----------------------------------------------------------------------------
\* Mutant of Shown: the host's idle state is shown as it is.
ShownRaw(role, state) == state

\* The product state that stands for a state of the owned session.
Shown(role, state) ==
    IF state # "idle" THEN state
    ELSE IF role = "host" THEN "waiting_for_peer" ELSE "inactive"

\* refresh_view
Refreshed(v, s) ==
    IF s = NoSession THEN v
    ELSE LET shown == Shown(v.role, s.state)
         IN  [v EXCEPT !.state = shown, !.peer = s.peer,
                       !.canSend = (shown = "connected")]

\* Mutant of Faulted: gameplay stays enabled.
FaultedSending(v) == [v EXCEPT !.state = "faulted", !.error = TRUE]

\* set_fault
Faulted(v) == [v EXCEPT !.state = "faulted", !.canSend = FALSE, !.error = TRUE]

\* A port another session holds cannot be bound; any bind may fail besides.
Free(port) == \A c \in Controllers : session[c].port # port

\* Where the edges of poll() may lead, one after the other: into every set of
\* states that they do not lead out of.
PollReach(role, from) ==
    {to \in States :
        \A S \in SUBSET States :
            from \in S /\ (\A edge \in PollEdges(role) : edge[1] \in S => edge[2] \in S)
                => to \in S}

\* What one poll() may leave of a session: DirectUdpSession's edges, one after
\* the other.  A host that could not answer a hello has a peer, and is idle.
Polled(s, ok) ==
    {t \in [role : {s.role}, state : States, port : {s.port}, peer : BOOLEAN] :
        /\ t.state \in PollReach(s.role, s.state)
        /\ IF t.state # "idle" THEN t.peer
           ELSE t.peer = s.peer \/ (t.peer /\ s.role = "host" /\ ~ok)}

Update(c, s, v) ==
    /\ session' = [session EXCEPT ![c] = s]
    /\ view' = [view EXCEPT ![c] = v]

-----------------------------------------------------------------------------
Init ==
    /\ session = [c \in Controllers |-> NoSession]
    /\ view = [c \in Controllers |-> InitialView]

\* Mutant of Host: any session that is not connected makes room.
HostOverIdle(c, port) ==
    /\ view[c].state # "connected"
    /\ LET bound == Bound("host", port)
       IN  Update(c, bound, Refreshed([view[c] EXCEPT !.role = "host"], bound))

\* host(local, timing)
Host(c, port) ==
    /\ view[c].state = "inactive"
    /\ \/ LET bound == Bound("host", port)
          IN  /\ Free(port)
              /\ Update(c, bound, Refreshed([view[c] EXCEPT !.role = "host"], bound))
       \/ Update(c, session[c], Faulted(view[c]))

\* join(local, remote, timing, now_ms): bind, then connect; when connect fails
\* the bound session stays.
Join(c, port) ==
    LET bound == Bound("client", port)
        joining == [view[c] EXCEPT !.role = "client"]
        active == [bound EXCEPT !.state = "connecting", !.peer = TRUE]
    IN  /\ view[c].state = "inactive"
        /\ \/ Free(port) /\ Update(c, active, Refreshed(joining, active))
           \/ Free(port) /\ Update(c, bound, Faulted(joining))
           \/ Update(c, session[c], Faulted(view[c]))

\* poll(now_ms): whatever the view says.
Poll(c) ==
    /\ session[c] # NoSession
    /\ \/ \E s \in Polled(session[c], TRUE) : Update(c, s, Refreshed(view[c], s))
       \/ \E s \in Polled(session[c], FALSE) : Update(c, s, Faulted(view[c]))

\* send(packet, now_ms) when the socket refuses it.
SendFails(c) ==
    /\ view[c].state = "connected" /\ session[c].state = "connected"
    /\ Update(c, session[c], Faulted(view[c]))

\* disconnect(now_ms)
Disconnect(c) ==
    /\ view[c].state = "connected" /\ session[c].state = "connected"
    /\ \/ LET ended == [session[c] EXCEPT !.state = "disconnected"]
          IN  Update(c, ended, Refreshed(view[c], ended))
       \/ Update(c, session[c], Faulted(view[c]))

\* reset()
Reset(c) == Update(c, NoSession, InitialView)

Next ==
    \E c \in Controllers :
        \/ \E port \in Ports : Host(c, port) \/ Join(c, port)
        \/ Poll(c) \/ SendFails(c) \/ Disconnect(c) \/ Reset(c)

Spec == Init /\ [][Next]_vars

-----------------------------------------------------------------------------
\* Whatever succeeded or failed before, a view that reports no fault reports
\* the session the controller owns, and gameplay is offered only over a
\* connected session with a peer.
ViewTracksSession ==
    \A c \in Controllers :
        /\ view[c].state # "faulted" =>
            IF session[c] = NoSession THEN view[c] = InitialView
            ELSE /\ view[c].role = session[c].role
                 /\ view[c].peer = session[c].peer
                 /\ view[c].state = Shown(session[c].role, session[c].state)
        /\ view[c].canSend =>
            view[c].state = "connected" /\ session[c].state = "connected"
                /\ session[c].peer

\* A session that has met its peer is given up by reset() only: no host() or
\* join() puts another in its place, whatever faults came in between.
SessionNotReplaced ==
    [][\A c \in Controllers :
        session[c].state \notin {None, "idle"} =>
            \/ session'[c] = NoSession
            \/ /\ session'[c].role = session[c].role
               /\ session'[c].state # "idle"
               /\ session'[c].port = session[c].port]_vars

\* What the design document says of a fault: the controller stays faulted until
\* it is reset.
FaultNeedsReset ==
    [][\A c \in Controllers :
        view[c].state = "faulted" =>
            view'[c].state = "faulted" \/ view'[c] = InitialView]_vars
=============================================================================
