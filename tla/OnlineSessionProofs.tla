------------------------- MODULE OnlineSessionProofs -------------------------
(***************************************************************************)
(* OnlineSession: the type invariant and what the view promises, for any   *)
(* number of controllers and ports.                                        *)
(***************************************************************************)
EXTENDS OnlineSession, TLAPS

\* What one controller keeps of its session and its view.  A faulted view says
\* nothing of the session's state, but its role is the session's: refresh_view
\* maps the session through that role.  Only an idle session has no peer.
Agrees(s, v) ==
    /\ s \in Session \cup {NoSession}
    /\ v \in View
    /\ s # NoSession => v.role = s.role /\ (s.state # "idle" => s.peer)
    /\ v.state # "faulted" =>
        IF s = NoSession THEN v = InitialView
        ELSE v.peer = s.peer /\ v.state = Shown(s.role, s.state)
    /\ v.canSend => v.state = "connected" /\ s.state = "connected" /\ s.peer

IInv ==
    /\ session \in [Controllers -> Session \cup {NoSession}]
    /\ view \in [Controllers -> View]
    /\ \A c \in Controllers : Agrees(session[c], view[c])

\* The two records of "no session" and "a session" differ in their role.
LEMMA SessionHasRole == ASSUME NEW s \in Session PROVE s # NoSession
  BY DEF Session, NoSession, Roles, None

\* Shown is a product state for every state of a session, and connected is
\* shown for a connected session only.
LEMMA ShownType ==
    ASSUME NEW role \in Roles, NEW state \in States
    PROVE  /\ Shown(role, state) \in OnlineStates
           /\ Shown(role, state) # "faulted"
           /\ Shown(role, state) = "connected" <=> state = "connected"
  BY DEF Shown, Roles, States, OnlineStates

\* refresh_view brings a view of the session's role into agreement, whatever
\* it showed before.
LEMMA RefreshedAgrees ==
    ASSUME NEW s \in Session, NEW v \in View, v.role = s.role,
           s.state # "idle" => s.peer
    PROVE  Agrees(s, Refreshed(v, s))
<1> DEFINE w == Refreshed(v, s)
<1>1. s # NoSession /\ s.role \in Roles /\ s.state \in States /\ s.peer \in BOOLEAN
  BY SessionHasRole DEF Session
<1>2. w = [v EXCEPT !.state = Shown(s.role, s.state), !.peer = s.peer,
                    !.canSend = (Shown(s.role, s.state) = "connected")]
  BY <1>1 DEF Refreshed
<1>3. w \in View
  <2> DEFINE shown == Shown(s.role, s.state)
  <2>1. shown \in OnlineStates /\ s.peer \in BOOLEAN /\ (shown = "connected") \in BOOLEAN
    BY <1>1, ShownType
  <2>2. w = [v EXCEPT !.state = shown, !.peer = s.peer, !.canSend = (shown = "connected")]
    BY <1>2
  <2> HIDE DEF w, shown
  <2> QED BY <2>1, <2>2 DEF View
<1>4. /\ w.role = s.role /\ w.peer = s.peer
      /\ w.state = Shown(s.role, s.state)
      /\ w.canSend = (Shown(s.role, s.state) = "connected")
  BY <1>2 DEF View
<1>5. w.canSend => w.state = "connected" /\ s.state = "connected" /\ s.peer
  BY <1>1, <1>4, ShownType
<1> QED
  BY <1>1, <1>3, <1>4, <1>5 DEF Agrees

\* set_fault keeps the role, and says nothing of the session.
LEMMA FaultedAgrees ==
    ASSUME NEW s \in Session \cup {NoSession}, NEW v \in View,
           s # NoSession => v.role = s.role /\ (s.state # "idle" => s.peer)
    PROVE  Agrees(s, Faulted(v))
  BY DEF Agrees, Faulted, View, OnlineStates

\* Updating one controller with an agreeing pair preserves the invariant.
LEMMA UpdatePreserves ==
    ASSUME IInv, NEW c \in Controllers, NEW s, NEW v, Update(c, s, v), Agrees(s, v)
    PROVE  IInv'
  BY DEF IInv, Update, Agrees

LEMMA InitAgrees == Init => IInv
  BY DEF Init, IInv, Agrees, NoSession, InitialView, View, OnlineStates, None

LEMMA StepAgrees == IInv /\ [Next]_vars => IInv'
<1> SUFFICES ASSUME IInv, [Next]_vars PROVE IInv'
  OBVIOUS
<1>0. ASSUME NEW c \in Controllers
      PROVE  /\ Agrees(session[c], view[c])
             /\ session[c] \in Session \cup {NoSession} /\ view[c] \in View
             /\ session[c] # NoSession =>
                    /\ view[c].role = session[c].role
                    /\ session[c].state # "idle" => session[c].peer
  BY DEF IInv, Agrees
<1>1. ASSUME NEW c \in Controllers, Update(c, session[c], Faulted(view[c]))
      PROVE  IInv'
  BY <1>0, <1>1, FaultedAgrees, UpdatePreserves
<1>2. ASSUME NEW c \in Controllers, NEW port \in Ports, NEW role \in Roles
      PROVE  LET bound == Bound(role, port)
                 v == [view[c] EXCEPT !.role = role]
             IN  /\ bound \in Session /\ v \in View
                 /\ v.role = bound.role /\ bound.role = role
                 /\ bound.state = "idle"
  BY <1>0 DEF Bound, Session, View, States
<1>3. ASSUME NEW c \in Controllers, NEW port \in Ports, Host(c, port)
      PROVE  IInv'
  <2> DEFINE bound == Bound("host", port)
             v == [view[c] EXCEPT !.role = "host"]
  <2>1. bound \in Session /\ v \in View /\ v.role = bound.role /\ bound.state = "idle"
    BY <1>2 DEF Roles
  <2>2. CASE Update(c, bound, Refreshed(v, bound))
    <3> HIDE DEF bound, v
    <3> QED BY <2>1, <2>2, RefreshedAgrees, UpdatePreserves
  <2> QED BY <1>1, <1>3, <2>2 DEF Host
<1>4. ASSUME NEW c \in Controllers, NEW port \in Ports, Join(c, port)
      PROVE  IInv'
  <2> DEFINE bound == Bound("client", port)
             joining == [view[c] EXCEPT !.role = "client"]
             active == [bound EXCEPT !.state = "connecting", !.peer = TRUE]
  <2>1. /\ bound \in Session /\ joining \in View
        /\ joining.role = bound.role /\ bound.role = "client"
        /\ bound.state = "idle"
    BY <1>2 DEF Roles
  <2>2. active \in Session /\ active.role = joining.role /\ active.peer
    BY <2>1 DEF Session, States
  <2>3. CASE Update(c, active, Refreshed(joining, active))
    <3> HIDE DEF active, joining
    <3> QED BY <2>1, <2>2, <2>3, RefreshedAgrees, UpdatePreserves
  <2>4. CASE Update(c, bound, Faulted(joining))
    <3> HIDE DEF bound, joining
    <3> QED BY <2>1, <2>4, FaultedAgrees, UpdatePreserves
  <2> QED BY <1>1, <1>4, <2>3, <2>4 DEF Join
<1>5. ASSUME NEW c \in Controllers, Poll(c) PROVE IInv'
  <2>1. session[c] \in Session /\ view[c].role = session[c].role
    BY <1>0, <1>5 DEF Poll
  <2>2. ASSUME NEW ok \in BOOLEAN, NEW s \in Polled(session[c], ok)
        PROVE  s \in Session /\ s.role = session[c].role /\ (s.state # "idle" => s.peer)
    BY <2>1, <2>2 DEF Polled, Session
  <2>3. ASSUME NEW s \in Polled(session[c], TRUE), Update(c, s, Refreshed(view[c], s))
        PROVE  IInv'
    BY <1>0, <2>1, <2>2, <2>3, RefreshedAgrees, UpdatePreserves
  <2>4. ASSUME NEW s \in Polled(session[c], FALSE), Update(c, s, Faulted(view[c]))
        PROVE  IInv'
    <3>1. s \in Session /\ view[c] \in View /\ view[c].role = s.role
             /\ (s.state # "idle" => s.peer)
      BY <1>0, <2>1, <2>2, <2>4
    <3>2. Agrees(s, Faulted(view[c]))
      BY <3>1, FaultedAgrees
    <3> QED BY <1>0, <2>4, <3>2, UpdatePreserves
  <2> QED BY <1>5, <2>3, <2>4 DEF Poll
<1>6. ASSUME NEW c \in Controllers, SendFails(c) PROVE IInv'
  BY <1>1, <1>6 DEF SendFails
<1>7. ASSUME NEW c \in Controllers, Disconnect(c) PROVE IInv'
  <2> DEFINE ended == [session[c] EXCEPT !.state = "disconnected"]
  <2>1. session[c] \in Session /\ view[c].role = session[c].role /\ session[c].peer
    BY <1>0, <1>7, SessionHasRole DEF Disconnect, NoSession, None
  <2>2. ended \in Session /\ ended.role = session[c].role /\ ended.peer
    BY <2>1 DEF Session, States
  <2>3. CASE Update(c, ended, Refreshed(view[c], ended))
    <3> HIDE DEF ended
    <3> QED BY <1>0, <2>1, <2>2, <2>3, RefreshedAgrees, UpdatePreserves
  <2> QED BY <1>1, <1>7, <2>3 DEF Disconnect
<1>8. ASSUME NEW c \in Controllers, Reset(c) PROVE IInv'
  <2>1. Agrees(NoSession, InitialView)
    BY DEF Agrees, NoSession, InitialView, View, OnlineStates, None
  <2> QED BY <1>8, <2>1, UpdatePreserves DEF Reset
<1>9. CASE UNCHANGED vars
  BY <1>9 DEF IInv, vars
<1> QED
  BY <1>3, <1>4, <1>5, <1>6, <1>7, <1>8, <1>9 DEF Next

LEMMA Invariance == Spec => []IInv
  BY InitAgrees, StepAgrees, PTL DEF Spec

\* Sessions and views are of their types in every reachable state, for any
\* number of controllers and ports.
THEOREM TypeCorrect == Spec => []TypeOK
<1>1. IInv => TypeOK
  BY DEF IInv, TypeOK
<1> QED BY <1>1, Invariance, PTL

\* The product is never shown a state its session is not in, short of a fault,
\* and is never offered gameplay without a connected peer.
THEOREM ViewIsTruthful == Spec => []ViewTracksSession
<1>1. IInv => ViewTracksSession
  BY SessionHasRole DEF IInv, Agrees, ViewTracksSession
<1> QED BY <1>1, Invariance, PTL

-----------------------------------------------------------------------------
\* poll() takes no session back to idle.
LEMMA NeverBackToIdle ==
    ASSUME NEW role \in Roles, NEW from \in States, from # "idle"
    PROVE  "idle" \notin PollReach(role, from)
<1> DEFINE met == States \ {"idle"}
<1>1. \A edge \in PollEdges(role) : edge[1] \in met => edge[2] \in met
  BY DEF PollEdges, States
<1>2. met \in SUBSET States /\ from \in met /\ "idle" \notin met
  OBVIOUS
<1> HIDE DEF met
<1> QED
  BY <1>1, <1>2 DEF PollReach

\* A session that is shown as inactive has met nobody.
LEMMA InactiveIsIdle ==
    ASSUME NEW s \in Session, NEW v, Agrees(s, v), v.state = "inactive"
    PROVE  s.state = "idle"
  BY SessionHasRole DEF Agrees, Shown, Session, Roles, States

\* host(), join() and poll() leave a session that has met its peer in place, and
\* only reset() takes it away.
THEOREM SessionStays == Spec => SessionNotReplaced
<1> DEFINE Kept(c) ==
        \/ session'[c] = NoSession
        \/ /\ session'[c].role = session[c].role
           /\ session'[c].state # "idle"
           /\ session'[c].port = session[c].port
<1>1. ASSUME IInv, Next, NEW c \in Controllers, session[c].state \notin {None, "idle"}
      PROVE  Kept(c)
  <2>1. session[c] \in Session /\ Agrees(session[c], view[c])
    BY <1>1 DEF IInv, NoSession
  <2>2. view[c].state # "inactive"
    BY <1>1, <2>1, InactiveIsIdle
  <2>3. session \in [Controllers -> Session \cup {NoSession}]
    BY <1>1 DEF IInv
  <2>4. ASSUME NEW d \in Controllers, NEW s, NEW v, Update(d, s, v),
               d = c => s = NoSession \/ /\ s.role = session[c].role
                                         /\ s.state # "idle" /\ s.port = session[c].port
        PROVE  Kept(c)
    BY <1>1, <2>3, <2>4 DEF Update
  <2> HIDE DEF Kept
  <2>5. ASSUME NEW d \in Controllers, NEW port \in Ports, Host(d, port) \/ Join(d, port)
        PROVE  Kept(c)
    <3>1. d # c
      BY <2>2, <2>5 DEF Host, Join
    <3> QED
      BY <2>4, <2>5, <3>1 DEF Host, Join
  <2>6. ASSUME NEW d \in Controllers, Poll(d) PROVE Kept(c)
    <3>1. PICK ok, s, v : s \in Polled(session[d], ok) /\ Update(d, s, v)
      BY <2>6 DEF Poll
    <3>2. CASE d = c
      <4>1. s.role = session[c].role /\ s.port = session[c].port
            /\ s.state \in PollReach(session[c].role, session[c].state)
        BY <3>1, <3>2 DEF Polled
      <4>2. s.state # "idle"
        BY <1>1, <2>1, <4>1, NeverBackToIdle DEF Session
      <4> QED
        BY <2>4, <3>1, <4>1, <4>2
    <3> QED
      BY <2>4, <3>1, <3>2
  <2>7. ASSUME NEW d \in Controllers, SendFails(d) \/ Disconnect(d) PROVE Kept(c)
    <3>1. /\ session[c].state # "idle"
          /\ [session[c] EXCEPT !.state = "disconnected"].role = session[c].role
          /\ [session[c] EXCEPT !.state = "disconnected"].port = session[c].port
          /\ [session[c] EXCEPT !.state = "disconnected"].state # "idle"
      BY <1>1, <2>1 DEF Session
    <3> QED
      BY <2>4, <2>7, <3>1 DEF SendFails, Disconnect
  <2>8. ASSUME NEW d \in Controllers, Reset(d) PROVE Kept(c)
    BY <2>4, <2>8 DEF Reset
  <2> QED
    BY <1>1, <2>5, <2>6, <2>7, <2>8 DEF Next
<1>2. ASSUME IInv, UNCHANGED vars, NEW c \in Controllers,
             session[c].state \notin {None, "idle"}
      PROVE  Kept(c)
  BY <1>2 DEF vars
<1>3. IInv /\ [Next]_vars =>
        [\A c \in Controllers : session[c].state \notin {None, "idle"} => Kept(c)]_vars
  BY <1>1
<1> QED
  BY <1>3, Invariance, PTL DEF Spec, SessionNotReplaced
=============================================================================
