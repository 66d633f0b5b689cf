---------------------------- MODULE TransportLife ----------------------------
(***************************************************************************)
(* What a connection to AVS promises its observer, the MessageRouter: in   *)
(* which order the callbacks of TransportObserverInterface come, and when  *)
(* the thread that makes them has ended.                                   *)
(***************************************************************************)
VARIABLES
  pc,           \* how far the connection has got, by what the observer was told
  isConnected,  \* m_isConnected
  isStopping,   \* m_isStopping
  isShutdown    \* shutdown() returned

life == <<pc, isConnected, isStopping, isShutdown>>

Init == pc = "absent" /\ isConnected = FALSE /\ isStopping = FALSE /\ isShutdown = FALSE

\* connect(), which fails or starts the network thread.
Connect ==
  /\ pc = "absent" /\ pc' \in {"connecting", "failed"}
  /\ UNCHANGED <<isConnected, isStopping, isShutdown>>

\* It is connected before the observer is told, and only a connection that AVS has not closed.
Connects ==
  /\ pc = "connecting" /\ ~isStopping
  /\ pc' = "announcing" /\ isConnected' = TRUE
  /\ UNCHANGED <<isStopping, isShutdown>>

OnConnected == pc = "announcing" /\ pc' = "connected" /\ UNCHANGED <<isConnected, isStopping, isShutdown>>

ServerCloses ==
  /\ pc \in {"connecting", "connected"} /\ ~isStopping
  /\ pc' = "closing"
  /\ UNCHANGED <<isConnected, isStopping, isShutdown>>

OnServerSideDisconnect ==
  pc = "closing" /\ pc' = "draining" /\ UNCHANGED <<isConnected, isStopping, isShutdown>>

\* An error, or the owner's shutdown(), at any time.
Stops == isStopping' = TRUE /\ UNCHANGED <<pc, isConnected, isShutdown>>

Disconnects ==
  /\ pc \in {"connecting", "connected", "draining"} /\ isStopping
  /\ pc' = "disconnecting" /\ isConnected' = FALSE
  /\ UNCHANGED <<isStopping, isShutdown>>

OnDisconnected ==
  pc = "disconnecting" /\ pc' = "ended" /\ UNCHANGED <<isConnected, isStopping, isShutdown>>

\* shutdown() returns when nobody will be told any more.
Joined ==
  /\ pc \in {"absent", "ended"} /\ isStopping
  /\ isShutdown' = TRUE
  /\ UNCHANGED <<pc, isConnected, isStopping>>

Next ==
  \/ Connect \/ Connects \/ OnConnected \/ ServerCloses \/ OnServerSideDisconnect
  \/ Stops \/ Disconnects \/ OnDisconnected \/ Joined

Spec == Init /\ [][Next]_life
=============================================================================
