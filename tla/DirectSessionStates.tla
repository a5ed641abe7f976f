-------------------------- MODULE DirectSessionStates --------------------------
(***************************************************************************)
(* DirectSessionState (src/core/network_transport.h) and the edges between *)
(* its states.  DirectSession is checked to take no others; OnlineSession  *)
(* assumes no more of the session it owns than the edges of poll().        *)
(***************************************************************************)
Roles == {"host", "client"}
States == {"idle", "connecting", "connected", "reconnecting", "disconnected"}

\* The edges that poll() may take an end of the given role along.
PollEdges(role) ==
    {<<"connected", "reconnecting">>, <<"connected", "disconnected">>,
     <<"reconnecting", "connected">>, <<"reconnecting", "disconnected">>}
    \cup (IF role = "host" THEN {<<"idle", "connected">>}
          ELSE {<<"connecting", "connected">>})

\* The edges of the calls connect() and disconnect() in the design.
CallEdges(role) ==
    {<<"connected", "disconnected">>}
    \cup (IF role = "host" THEN {} ELSE {<<"idle", "connecting">>})

\* The edge of connect() that the design does not have.
Revival == <<"disconnected", "connecting">>
=============================================================================
