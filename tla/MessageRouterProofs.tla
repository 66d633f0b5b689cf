------------------------- MODULE MessageRouterProofs -------------------------
(* What MessageRouter.tla promises for any number of transports, clients and *)
(* calls.                                                                    *)
EXTENDS MessageRouter, TLAPS

\* createActiveTransportLocked() keeps the types, and leaves the other transports alone.
LEMMA CreateActiveType ==
  ASSUME NEW s \in Statuses, NEW T \in SUBSET Transports, NEW n \in [Transports -> NetThreads],
         \A t \in T : n[t].pc \notin {"absent", "failed", "ended"},
         CreateActive(s, T, n)
  PROVE  /\ status' \in Statuses
         /\ transports' \subseteq Transports /\ active' \in transports' \cup {NoTransport}
         /\ net' \in [Transports -> NetThreads]
         /\ \A t \in transports' : net'[t].pc \notin {"absent", "failed", "ended"}
         /\ T \subseteq transports'
         /\ \A t \in Transports \ transports' :
              \/ net'[t].pc = "failed"
              \/ net'[t].pc = n[t].pc /\ net'[t].isShutdown = n[t].isShutdown
<1>1. CASE \E t \in Transports :
             /\ n[t].pc = "absent"
             /\ active' = t /\ transports' = T \cup {t} /\ net' = [n EXCEPT ![t].pc = "connecting"]
             /\ status' = s
  <2>1. PICK t \in Transports :
          /\ n[t].pc = "absent"
          /\ active' = t /\ transports' = T \cup {t} /\ net' = [n EXCEPT ![t].pc = "connecting"]
          /\ status' = s
    BY <1>1
  <2>2. /\ net'[t] = [n[t] EXCEPT !.pc = "connecting"]
        /\ \A u \in Transports \ {t} : net'[u] = n[u]
        /\ net'[t] \in NetThreads
    BY <2>1 DEF NetThreads, Pcs
  <2>3. net' \in [Transports -> NetThreads]
    BY <2>1, <2>2
  <2>4. net'[t].pc = "connecting"
    BY <2>2 DEF NetThreads
  <2> QED
    BY <2>1, <2>2, <2>3, <2>4
<1>2. CASE \E t \in Transports :
             /\ n[t].pc = "absent"
             /\ active' = NoTransport /\ transports' = T /\ net' = [n EXCEPT ![t].pc = "failed"]
             /\ status' = "DISCONNECTED"
  <2>1. PICK t \in Transports :
          /\ n[t].pc = "absent"
          /\ active' = NoTransport /\ transports' = T /\ net' = [n EXCEPT ![t].pc = "failed"]
          /\ status' = "DISCONNECTED"
    BY <1>2
  <2>2. /\ net'[t] = [n[t] EXCEPT !.pc = "failed"]
        /\ \A u \in Transports \ {t} : net'[u] = n[u]
        /\ net'[t] \in NetThreads
    BY <2>1 DEF NetThreads, Pcs
  <2>3. net' \in [Transports -> NetThreads]
    BY <2>1, <2>2
  <2>4. net'[t].pc = "failed"
    BY <2>2 DEF NetThreads
  <2>5. t \notin T
    BY <2>1
  <2> QED
    BY <2>1, <2>2, <2>3, <2>4, <2>5 DEF Statuses
<1>3. CASE /\ active' = NoTransport /\ transports' = T /\ net' = n
           /\ status' = "DISCONNECTED"
  BY <1>3 DEF Statuses
<1> QED
  BY <1>1, <1>2, <1>3 DEF CreateActive

\* An assignment to members of one network thread.
LEMMA NetChange ==
  ASSUME NEW n \in [Transports -> NetThreads], NEW t \in Transports, NEW r \in NetThreads,
         NEW m, m = [n EXCEPT ![t] = r]
  PROVE  /\ m \in [Transports -> NetThreads]
         /\ m[t] = r /\ \A u \in Transports \ {t} : m[u] = n[u]
  OBVIOUS

\* An assignment to the call of one client.
LEMMA CallChange ==
  ASSUME NEW k \in [Clients -> CallStates], NEW c \in Clients, NEW r \in CallStates,
         NEW m, m = [k EXCEPT ![c] = r]
  PROVE  /\ m \in [Clients -> CallStates]
         /\ m[c] = r /\ \A d \in Clients \ {c} : m[d] = k[d]
  OBVIOUS

LEMMA TaskTypes ==
  /\ \A t \in Transports : Release(t) \in Tasks
  /\ \A x \in Tasks : x.transport \in Transports /\ x = Release(x.transport) /\ x # Idle
<1>1. NoTransport \notin Transports
  BY BoundAssumption DEF Transports
<1> QED
  BY <1>1 DEF Tasks, Release, Idle

\* Type correctness, action by action.
LEMMA InitType == Init => TypeOK
<1> SUFFICES ASSUME Init PROVE TypeOK
  OBVIOUS
<1>1. net \in [Transports -> NetThreads]
  BY DEF Init, NetThreads, Pcs
<1>2. call \in [Clients -> CallStates]
  BY DEF Init, CallStates, NoCall
<1>3. calls \in 0 .. MaxCalls
  BY BoundAssumption DEF Init
<1>4. tasks \in Seq(Tasks) /\ transports = {} /\ active = NoTransport /\ task = Idle
  BY DEF Init
<1>5. isEnabled = FALSE /\ executorEnds = FALSE /\ status \in Statuses
  BY DEF Init, Statuses
<1> QED
  BY <1>1, <1>2, <1>3, <1>4, <1>5 DEF TypeOK

LEMMA EnableType ==
  ASSUME TypeOK, NEW c \in Clients, Enable(c)
  PROVE  TypeOK'
<1>1. calls' \in 0 .. MaxCalls
  BY BoundAssumption DEF TypeOK, Enable, Calls
<1>2. CASE active = NoTransport \/ ~IsConnected(active)
  <2>1. CreateActive("PENDING", transports, net)
    BY <1>2 DEF Enable
  <2>2. "PENDING" \in Statuses
    BY DEF Statuses
  <2> QED
    BY <1>1, <2>1, <2>2, CreateActiveType DEF TypeOK, Enable
<1>3. CASE ~(active = NoTransport \/ ~IsConnected(active))
  BY <1>1, <1>3 DEF TypeOK, Enable
<1> QED
  BY <1>2, <1>3

LEMMA DisconnectType ==
  ASSUME TypeOK, NEW c \in Clients, NEW op \in {"disable", "endpoint", "shutdown"},
         Calls(c), DisconnectAll(c, op), isEnabled' \in BOOLEAN,
         UNCHANGED <<task, executorEnds, net>>
  PROVE  TypeOK'
<1>1. calls' \in 0 .. MaxCalls
  BY BoundAssumption DEF TypeOK, Calls
<1>2. [NoCall EXCEPT !.op = op, !.moved = transports] \in CallStates
  BY DEF NoCall, CallStates, TypeOK
<1>3. call' \in [Clients -> CallStates]
  BY <1>2, CallChange DEF DisconnectAll, TypeOK
<1> QED
  BY <1>1, <1>3 DEF TypeOK, DisconnectAll, Statuses

LEMMA ShutdownTransportType ==
  ASSUME TypeOK, NEW c \in Clients, ShutdownTransport(c)
  PROVE  TypeOK'
<1>1. PICK t \in call[c].moved :
        /\ call' = [call EXCEPT ![c].current = t]
        /\ net' = [net EXCEPT ![t].isStopping = TRUE]
  BY DEF ShutdownTransport
<1>2. call[c] \in CallStates /\ t \in Transports /\ net[t] \in NetThreads
  BY <1>1 DEF TypeOK, CallStates
<1>3. /\ [call[c] EXCEPT !.current = t] \in CallStates
      /\ [net[t] EXCEPT !.isStopping = TRUE] \in NetThreads
      /\ [net[t] EXCEPT !.isStopping = TRUE].pc = net[t].pc
  BY <1>2 DEF CallStates, NetThreads
<1>4. call' \in [Clients -> CallStates]
  BY <1>1, <1>3, CallChange DEF TypeOK
<1>5. /\ net' \in [Transports -> NetThreads]
      /\ net'[t].pc = net[t].pc /\ \A u \in Transports \ {t} : net'[u] = net[u]
  BY <1>1, <1>2, <1>3, NetChange DEF TypeOK
<1> QED
  BY <1>4, <1>5 DEF TypeOK, ShutdownTransport, router

LEMMA JoinTransportType ==
  ASSUME TypeOK, NEW c \in Clients, JoinTransport(c)
  PROVE  TypeOK'
<1>1. PICK t : t = call[c].current
  OBVIOUS
<1>2. call[c] \in CallStates /\ t \in Transports /\ net[t] \in NetThreads
  BY <1>1 DEF TypeOK, CallStates, JoinTransport
<1>3. /\ [call[c] EXCEPT !.moved = @ \ {t}, !.current = NoTransport] \in CallStates
      /\ [net[t] EXCEPT !.isShutdown = TRUE] \in NetThreads
      /\ [net[t] EXCEPT !.isShutdown = TRUE].pc = net[t].pc
  BY <1>2 DEF CallStates, NetThreads
<1>4. call' \in [Clients -> CallStates]
  <2>1. call' = [call EXCEPT ![c] = [call[c] EXCEPT !.moved = @ \ {t}, !.current = NoTransport]]
    BY <1>1 DEF JoinTransport
  <2> QED
    BY <2>1, <1>3, CallChange DEF TypeOK
<1>5. /\ net' \in [Transports -> NetThreads]
      /\ net'[t].pc = net[t].pc /\ \A u \in Transports \ {t} : net'[u] = net[u]
  <2>1. net' = [net EXCEPT ![t] = [net[t] EXCEPT !.isShutdown = TRUE]]
    BY <1>1 DEF JoinTransport
  <2> QED
    BY <2>1, <1>2, <1>3, NetChange DEF TypeOK
<1> QED
  BY <1>4, <1>5 DEF TypeOK, JoinTransport, router

LEMMA CallEndsType ==
  ASSUME TypeOK, NEW c \in Clients,
         DisableEnds(c) \/ ShutdownExecutor(c) \/ ShutdownEnds(c)
  PROVE  TypeOK'
<1>1. NoCall \in CallStates /\ [call[c] EXCEPT !.op = "joining"] \in CallStates
  BY DEF NoCall, CallStates, TypeOK
<1>2. [call EXCEPT ![c] = NoCall] \in [Clients -> CallStates]
  BY <1>1 DEF TypeOK
<1>3. [call EXCEPT ![c].op = "joining"] \in [Clients -> CallStates]
  BY <1>1 DEF TypeOK
<1>4. << >> \in Seq(Tasks)
  OBVIOUS
<1> QED
  BY <1>2, <1>3, <1>4 DEF TypeOK, DisableEnds, ShutdownExecutor, ShutdownEnds, router

LEMMA SetAVSEndpointEndsType ==
  ASSUME TypeOK, NEW c \in Clients, SetAVSEndpointEnds(c)
  PROVE  TypeOK'
<1>1. NoCall \in CallStates
  BY DEF NoCall, CallStates
<1>2. call' \in [Clients -> CallStates]
  BY <1>1 DEF TypeOK, SetAVSEndpointEnds
<1>3. CASE EnabledStill
  <2>1. CreateActive(status, transports, net)
    BY <1>3 DEF SetAVSEndpointEnds
  <2> QED
    BY <1>2, <2>1, CreateActiveType DEF TypeOK, SetAVSEndpointEnds
<1>4. CASE ~EnabledStill
  BY <1>2, <1>4 DEF TypeOK, SetAVSEndpointEnds
<1> QED
  BY <1>3, <1>4

\* Steps of a network thread that change it alone, and keep it from having ended.
LEMMA NetAloneType ==
  ASSUME TypeOK, NEW t \in Transports, NEW r \in NetThreads,
         r.pc \notin {"absent", "failed", "ended"},
         net' = [net EXCEPT ![t] = r],
         UNCHANGED <<router, Local>>
  PROVE  TypeOK'
<1>1. /\ net' \in [Transports -> NetThreads]
      /\ net'[t] = r /\ \A u \in Transports \ {t} : net'[u] = net[u]
  BY NetChange DEF TypeOK
<1> QED
  BY <1>1 DEF TypeOK, router, Local

LEMMA NetStepType ==
  ASSUME TypeOK, NEW t \in Transports,
         Connects(t) \/ ServerCloses(t) \/ Stops(t) \/ Disconnects(t)
  PROVE  TypeOK'
<1> net[t] \in NetThreads
  BY DEF TypeOK
<1>1. CASE Connects(t)
  <2>1. [net[t] EXCEPT !.isConnected = TRUE, !.pc = "announcing"] \in NetThreads
    BY DEF NetThreads, Pcs
  <2>2. net' = [net EXCEPT ![t] = [net[t] EXCEPT !.isConnected = TRUE, !.pc = "announcing"]]
    BY <1>1 DEF Connects
  <2>3. [net[t] EXCEPT !.isConnected = TRUE, !.pc = "announcing"].pc = "announcing"
    BY DEF NetThreads
  <2> QED
    BY <1>1, <2>1, <2>2, <2>3, NetAloneType DEF Connects
<1>2. CASE ServerCloses(t)
  <2>1. [net[t] EXCEPT !.pc = "closing"] \in NetThreads
    BY DEF NetThreads, Pcs
  <2>2. net' = [net EXCEPT ![t] = [net[t] EXCEPT !.pc = "closing"]]
    BY <1>2 DEF ServerCloses
  <2>3. [net[t] EXCEPT !.pc = "closing"].pc = "closing"
    BY DEF NetThreads
  <2> QED
    BY <1>2, <2>1, <2>2, <2>3, NetAloneType DEF ServerCloses
<1>3. CASE Stops(t)
  <2>1. [net[t] EXCEPT !.isStopping = TRUE] \in NetThreads
    BY DEF NetThreads, Pcs
  <2>2. net' = [net EXCEPT ![t] = [net[t] EXCEPT !.isStopping = TRUE]]
    BY <1>3 DEF Stops
  <2>3. [net[t] EXCEPT !.isStopping = TRUE].pc \in {"connecting", "connected", "draining"}
    BY <1>3 DEF NetThreads, Stops, NetAt, Looping
  <2> QED
    BY <1>3, <2>1, <2>2, <2>3, NetAloneType DEF Stops
<1>4. CASE Disconnects(t)
  <2>1. [net[t] EXCEPT !.isConnected = FALSE, !.pc = "disconnecting"] \in NetThreads
    BY DEF NetThreads, Pcs
  <2>2. net' = [net EXCEPT ![t] = [net[t] EXCEPT !.isConnected = FALSE, !.pc = "disconnecting"]]
    BY <1>4 DEF Disconnects
  <2>3. [net[t] EXCEPT !.isConnected = FALSE, !.pc = "disconnecting"].pc = "disconnecting"
    BY DEF NetThreads
  <2> QED
    BY <1>4, <2>1, <2>2, <2>3, NetAloneType DEF Disconnects
<1> QED
  BY <1>1, <1>2, <1>3, <1>4

LEMMA OnConnectedType ==
  ASSUME TypeOK, NEW t \in Transports, OnConnected(t)
  PROVE  TypeOK'
<1> net[t] \in NetThreads
  BY DEF TypeOK
<1>1. [net[t] EXCEPT !.pc = "connected"] \in NetThreads /\ [net[t] EXCEPT !.pc = "connected"].pc = "connected"
  BY DEF NetThreads, Pcs
<1>2. net' = [net EXCEPT ![t] = [net[t] EXCEPT !.pc = "connected"]]
  BY DEF OnConnected
<1>3. /\ net' \in [Transports -> NetThreads]
      /\ net'[t].pc = "connected" /\ \A u \in Transports \ {t} : net'[u] = net[u]
  BY <1>1, <1>2, NetChange DEF TypeOK
<1>4. status' \in Statuses
  BY DEF OnConnected, TypeOK, Statuses
<1> QED
  BY <1>3, <1>4 DEF TypeOK, OnConnected, Local

LEMMA OnServerSideDisconnectType ==
  ASSUME TypeOK, NEW t \in Transports, OnServerSideDisconnect(t)
  PROVE  TypeOK'
<1> net[t] \in NetThreads
  BY DEF TypeOK
<1>1. [net[t] EXCEPT !.pc = "draining"] \in NetThreads /\ [net[t] EXCEPT !.pc = "draining"].pc = "draining"
  BY DEF NetThreads, Pcs
<1>2. PICK n : n = [net EXCEPT ![t] = [net[t] EXCEPT !.pc = "draining"]]
  OBVIOUS
<1>3. /\ n \in [Transports -> NetThreads]
      /\ n[t].pc = "draining" /\ \A u \in Transports \ {t} : n[u] = net[u]
  BY <1>1, <1>2, NetChange DEF TypeOK
<1>4. \A u \in transports : n[u].pc \notin {"absent", "failed", "ended"}
  BY <1>3 DEF TypeOK
<1>5. CASE isEnabled
  <2>1. CreateActive("PENDING", transports, n)
    BY <1>2, <1>5 DEF OnServerSideDisconnect
  <2>2. "PENDING" \in Statuses
    BY DEF Statuses
  <2> QED
    BY <1>3, <1>4, <2>1, <2>2, CreateActiveType DEF TypeOK, OnServerSideDisconnect, Local
<1>6. CASE ~isEnabled
  <2>1. net' = n /\ UNCHANGED <<status, active, transports>>
    BY <1>2, <1>6 DEF OnServerSideDisconnect
  <2> QED
    BY <1>3, <1>4, <2>1 DEF TypeOK, OnServerSideDisconnect, Local
<1> QED
  BY <1>5, <1>6

LEMMA ReleasedType ==
  ASSUME TypeOK, NEW t \in Transports
  PROVE  Released(t) \in Seq(Tasks)
BY TaskTypes DEF TypeOK, Released, Submit

LEMMA OnDisconnectedType ==
  ASSUME TypeOK, NEW t \in Transports, OnDisconnected(t)
  PROVE  TypeOK'
<1> net[t] \in NetThreads
  BY DEF TypeOK
<1>1. [net[t] EXCEPT !.pc = "ended"] \in NetThreads
  BY DEF NetThreads, Pcs
<1>2. PICK n : n = [net EXCEPT ![t] = [net[t] EXCEPT !.pc = "ended"]]
  OBVIOUS
<1>3. /\ n \in [Transports -> NetThreads]
      /\ \A u \in Transports \ {t} : n[u] = net[u]
  BY <1>1, <1>2, NetChange DEF TypeOK
<1>4. \A u \in transports \ {t} : n[u].pc \notin {"absent", "failed", "ended"}
  BY <1>3 DEF TypeOK
<1>5. tasks' \in Seq(Tasks)
  BY ReleasedType DEF OnDisconnected
<1>6. CASE t = active /\ status = "CONNECTED" /\ isEnabled
  <2>1. CreateActive("PENDING", transports \ {t}, n)
    BY <1>2, <1>6 DEF OnDisconnected
  <2>2. "PENDING" \in Statuses /\ transports \ {t} \in SUBSET Transports
    BY DEF Statuses, TypeOK
  <2> QED
    BY <1>3, <1>4, <1>5, <2>1, <2>2, CreateActiveType DEF TypeOK, OnDisconnected, Local
<1>7. CASE ~(t = active /\ status = "CONNECTED" /\ isEnabled)
  <2>1. /\ net' = n /\ transports' = transports \ {t}
        /\ active' = ActiveWithout(t)
        /\ status' \in Statuses
    BY <1>2, <1>7 DEF OnDisconnected, TypeOK, Statuses
  <2>2. active' \in transports' \cup {NoTransport}
    BY <2>1 DEF ActiveWithout, TypeOK
  <2> QED
    BY <1>3, <1>4, <1>5, <2>1, <2>2 DEF TypeOK, OnDisconnected, Local
<1> QED
  BY <1>6, <1>7

LEMMA ExecuteType ==
  ASSUME TypeOK, Execute
  PROVE  TypeOK'
<1>1. CASE BeginRelease
  <2>1. Head(tasks) \in Tasks /\ Tail(tasks) \in Seq(Tasks)
    BY <1>1 DEF BeginRelease, TypeOK
  <2> QED
    BY <1>1, <2>1 DEF BeginRelease, TypeOK
<1>2. CASE ReleaseTransport
  <2>1. PICK t : t = task.transport
    OBVIOUS
  <2>2. t \in Transports
    BY <1>2, <2>1, TaskTypes DEF ReleaseTransport, TypeOK
  <2>3. /\ net[t] \in NetThreads
        /\ [net[t] EXCEPT !.isShutdown = TRUE] \in NetThreads
        /\ [net[t] EXCEPT !.isShutdown = TRUE].pc = net[t].pc
    BY <2>2 DEF TypeOK, NetThreads
  <2>4. net' = [net EXCEPT ![t] = [net[t] EXCEPT !.isShutdown = TRUE]]
    BY <1>2, <2>1 DEF ReleaseTransport
  <2>5. /\ net' \in [Transports -> NetThreads]
        /\ net'[t].pc = net[t].pc /\ \A u \in Transports \ {t} : net'[u] = net[u]
    BY <2>2, <2>3, <2>4, NetChange DEF TypeOK
  <2> QED
    BY <1>2, <2>5 DEF TypeOK, ReleaseTransport, router
<1> QED
  BY <1>1, <1>2 DEF Execute

\* TypeOK is preserved by every step: the router never forgets that its active transport is
\* one of its transports.
LEMMA StepType ==
  ASSUME TypeOK, [Next]_vars
  PROVE  TypeOK'
<1>1. CASE \E c \in Clients : Enable(c) \/ SetAVSEndpoint(c) \/ Continue(c)
                              \/ \E op \in {"disable", "shutdown"} : Disable(c, op)
  <2>1. PICK c \in Clients : \/ Enable(c) \/ SetAVSEndpoint(c) \/ Continue(c)
                             \/ \E op \in {"disable", "shutdown"} : Disable(c, op)
    BY <1>1
  <2>2. CASE Enable(c)
    BY <2>2, EnableType
  <2>3. CASE SetAVSEndpoint(c)
    <3>1. isEnabled' \in BOOLEAN
      BY <2>3 DEF SetAVSEndpoint, TypeOK
    <3> QED
      BY <2>3, <3>1, DisconnectType DEF SetAVSEndpoint
  <2>4. CASE Continue(c)
    BY <2>4, ShutdownTransportType, JoinTransportType, CallEndsType, SetAVSEndpointEndsType
       DEF Continue
  <2>5. CASE \E op \in {"disable", "shutdown"} : Disable(c, op)
    BY <2>5, DisconnectType DEF Disable
  <2> QED
    BY <2>1, <2>2, <2>3, <2>4, <2>5
<1>2. CASE \E t \in Transports : Connects(t) \/ ServerCloses(t) \/ Stops(t) \/ CallBack(t)
  BY <1>2, NetStepType, OnConnectedType, OnServerSideDisconnectType, OnDisconnectedType DEF CallBack
<1>3. CASE Execute
  BY <1>3, ExecuteType
<1>4. CASE UNCHANGED vars
  BY <1>4 DEF vars, TypeOK
<1> QED
  BY <1>1, <1>2, <1>3, <1>4 DEF Next

\* The variables of the router keep their types, and its active transport is always one of
\* m_transports, whatever the clients and the connections do (MessageRouter.cpp).
THEOREM TypeCorrect == Spec => []TypeOK
<1>1. Init => TypeOK
  BY InitType
<1>2. TypeOK /\ [Next]_vars => TypeOK'
  BY StepType
<1> QED
  BY <1>1, <1>2, PTL DEF Spec

-----------------------------------------------------------------------------
(* A router that is not enabled *)

\* Every way to a connection looks at m_isEnabled in the critical section that makes it.
LEMMA StepDown ==
  ASSUME DisabledIsDown, [Next]_vars
  PROVE  DisabledIsDown'
<1> NoTransport \notin Transports
  BY BoundAssumption DEF Transports
<1>1. CASE \E c \in Clients : Enable(c) \/ SetAVSEndpoint(c) \/ Continue(c)
                              \/ \E op \in {"disable", "shutdown"} : Disable(c, op)
  <2>1. PICK c \in Clients : \/ Enable(c) \/ SetAVSEndpoint(c) \/ Continue(c)
                             \/ \E op \in {"disable", "shutdown"} : Disable(c, op)
    BY <1>1
  <2>2. CASE Enable(c) \/ SetAVSEndpoint(c)
    BY <2>2 DEF Enable, SetAVSEndpoint, DisabledIsDown
  <2>3. CASE \E op \in {"disable", "shutdown"} : Disable(c, op)
    BY <2>3 DEF Disable, DisconnectAll, DisabledIsDown
  <2>4. CASE SetAVSEndpointEnds(c)
    BY <2>4 DEF SetAVSEndpointEnds, EnabledStill, DisabledIsDown
  <2>5. CASE \/ ShutdownTransport(c) \/ JoinTransport(c) \/ DisableEnds(c)
             \/ ShutdownExecutor(c) \/ ShutdownEnds(c)
    BY <2>5 DEF ShutdownTransport, JoinTransport, DisableEnds, ShutdownExecutor, ShutdownEnds,
                router, DisabledIsDown
  <2> QED
    BY <2>1, <2>2, <2>3, <2>4, <2>5 DEF Continue
<1>2. CASE \E t \in Transports : Connects(t) \/ ServerCloses(t) \/ Stops(t) \/ CallBack(t)
  <2>1. PICK t \in Transports : Connects(t) \/ ServerCloses(t) \/ Stops(t) \/ CallBack(t)
    BY <1>2
  <2>2. CASE Connects(t) \/ ServerCloses(t) \/ Stops(t) \/ Disconnects(t)
    BY <2>2 DEF Connects, ServerCloses, Stops, Disconnects, router, DisabledIsDown
  <2>3. CASE OnConnected(t)
    BY <2>3 DEF OnConnected, DisabledIsDown
  <2>4. CASE OnServerSideDisconnect(t)
    BY <2>4 DEF OnServerSideDisconnect, DisabledIsDown
  <2>5. CASE OnDisconnected(t)
    BY <2>5 DEF OnDisconnected, ActiveWithout, DisabledIsDown
  <2> QED
    BY <2>1, <2>2, <2>3, <2>4, <2>5 DEF CallBack
<1>3. CASE Execute
  BY <1>3 DEF Execute, BeginRelease, ReleaseTransport, router, DisabledIsDown
<1>4. CASE UNCHANGED vars
  BY <1>4 DEF vars, DisabledIsDown
<1> QED
  BY <1>1, <1>2, <1>3, <1>4 DEF Next

\* Once disable() has run its critical section, nothing connects the router again before the
\* next enable(), however many calls and callbacks were in progress (MessageRouter.cpp).
THEOREM DisabledStaysDown == Spec => []DisabledIsDown
<1>1. Init => DisabledIsDown
  BY DEF Init, DisabledIsDown
<1>2. DisabledIsDown /\ [Next]_vars => DisabledIsDown'
  BY StepDown
<1> QED
  BY <1>1, <1>2, PTL DEF Spec

-----------------------------------------------------------------------------
(* The transports whose threads are still to be joined *)

Gone(t) == NetAt(t, {"absent", "failed"}) \/ net[t].isShutdown

\* A step that loses no transport.
LEMMA HeldStep ==
  ASSUME TransportsAreHeld, UNCHANGED executorEnds,
         \A t \in Transports : t \in Held => t \in Held' \/ Gone(t)',
         \A t \in Transports : Gone(t) => Gone(t)' \/ t \in Held'
  PROVE  TransportsAreHeld'
BY DEF TransportsAreHeld, Gone

LEMMA CreateActiveHeld ==
  ASSUME TypeOK, TransportsAreHeld, UNCHANGED executorEnds,
         NEW s \in Statuses, NEW T \in SUBSET Transports, NEW n \in [Transports -> NetThreads],
         \A t \in T : n[t].pc \notin {"absent", "failed", "ended"},
         \A t \in Transports : (n[t].pc \in {"absent", "failed"}) = (net[t].pc \in {"absent", "failed"})
                               /\ n[t].isShutdown = net[t].isShutdown,
         CreateActive(s, T, n),
         \A t \in Transports : t \in Held => t \in T \/ t \in Held' \/ Gone(t)
  PROVE  TransportsAreHeld'
<1>1. T \subseteq transports' /\ transports' \subseteq Transports
  BY CreateActiveType
<1>2. transports' \subseteq Held'
  BY DEF Held
<1>3. ASSUME NEW t \in Transports, t \notin transports', Gone(t)
      PROVE  Gone(t)'
  <2>1. \/ net'[t].pc = "failed"
        \/ net'[t].pc = n[t].pc /\ net'[t].isShutdown = n[t].isShutdown
    BY <1>3, CreateActiveType
  <2> QED
    BY <1>3, <2>1 DEF Gone, NetAt
<1>4. \A t \in Transports : Gone(t) => Gone(t)' \/ t \in Held'
  BY <1>2, <1>3
<1>5. \A t \in Transports : t \in Held => t \in Held' \/ Gone(t)'
  BY <1>1, <1>2, <1>4
<1> QED
  BY <1>4, <1>5, HeldStep

\* The calls: what they take along is what they held, and they let go of what was joined.
LEMMA CallHeld ==
  ASSUME TypeOK, TypeOK', TransportsAreHeld, UNCHANGED <<tasks, task, executorEnds>>,
         \A t \in Transports : (net'[t].pc \in {"absent", "failed"}) = (net[t].pc \in {"absent", "failed"})
                               /\ (net[t].isShutdown => net'[t].isShutdown),
         \A t \in transports : t \in transports' \/ \E c \in Clients : t \in call'[c].moved,
         \A c \in Clients : \A t \in call[c].moved :
           net'[t].isShutdown \/ \E d \in Clients : t \in call'[d].moved
  PROVE  TransportsAreHeld'
<1>1. \A t \in Transports : Gone(t) => Gone(t)'
  BY DEF Gone, NetAt
<1>2. ASSUME NEW t \in Transports, t \in Held
      PROVE  t \in Held' \/ Gone(t)'
  <2>1. CASE t \in transports
    BY <2>1 DEF Held
  <2>2. CASE \E c \in Clients : t \in call[c].moved
    BY <2>2 DEF Held, Gone
  <2>3. CASE t \in Pending
    <3>1. Pending' = Pending
      BY DEF Pending
    <3> QED
      BY <2>3, <3>1 DEF Held
  <2> QED
    BY <1>2, <2>1, <2>2, <2>3 DEF Held
<1> QED
  BY <1>1, <1>2, HeldStep

LEMMA DisconnectHeld ==
  ASSUME TypeOK, TypeOK', TransportsAreHeld, NEW c \in Clients,
         NEW op \in {"disable", "endpoint", "shutdown"},
         Calls(c), DisconnectAll(c, op), UNCHANGED <<task, executorEnds, net>>
  PROVE  TransportsAreHeld'
<1>1. call[c].moved = {}
  BY DEF Calls, NoCall
<1>2. /\ call'[c].moved = transports
      /\ \A d \in Clients \ {c} : call'[d] = call[d]
  BY DEF DisconnectAll, NoCall, TypeOK
<1> QED
  BY <1>1, <1>2, CallHeld DEF DisconnectAll

LEMMA ContinueHeld ==
  ASSUME TypeOK, TypeOK', TransportsAreHeld, NEW c \in Clients,
         ShutdownTransport(c) \/ JoinTransport(c) \/ DisableEnds(c) \/ ShutdownEnds(c)
  PROVE  TransportsAreHeld'
<1>1. call[c] \in CallStates
  BY DEF TypeOK
<1>2. CASE ShutdownTransport(c)
  <2>1. PICK t \in call[c].moved :
          /\ call' = [call EXCEPT ![c].current = t]
          /\ net' = [net EXCEPT ![t].isStopping = TRUE]
    BY <1>2 DEF ShutdownTransport
  <2>2. t \in Transports /\ net[t] \in NetThreads
    BY <1>1, <2>1 DEF CallStates, TypeOK
  <2>3. \A d \in Clients : call'[d].moved = call[d].moved
    BY <1>1, <2>1 DEF TypeOK, CallStates
  <2>4. \A u \in Transports : net'[u].pc = net[u].pc /\ net'[u].isShutdown = net[u].isShutdown
    BY <2>1, <2>2 DEF TypeOK, NetThreads
  <2> QED
    BY <1>2, <2>3, <2>4, CallHeld DEF ShutdownTransport, router
<1>3. CASE JoinTransport(c)
  <2>1. PICK t : t = call[c].current
    OBVIOUS
  <2>2. t \in Transports /\ net[t] \in NetThreads
    BY <1>1, <1>3, <2>1 DEF CallStates, TypeOK, JoinTransport
  <2>3. /\ net' = [net EXCEPT ![t].isShutdown = TRUE]
        /\ call' = [call EXCEPT ![c].moved = @ \ {t}, ![c].current = NoTransport]
    BY <1>3, <2>1 DEF JoinTransport
  <2>4. /\ call'[c].moved = call[c].moved \ {t}
        /\ \A d \in Clients \ {c} : call'[d] = call[d]
    BY <1>1, <2>3 DEF TypeOK, CallStates
  <2>5. /\ net'[t].isShutdown /\ net'[t].pc = net[t].pc
        /\ \A u \in Transports \ {t} : net'[u] = net[u]
    BY <2>2, <2>3 DEF TypeOK, NetThreads
  <2>6. \A d \in Clients : \A u \in call[d].moved : u \in Transports
    BY DEF TypeOK, CallStates
  <2>7. \A d \in Clients : \A u \in call[d].moved :
          net'[u].isShutdown \/ \E e \in Clients : u \in call'[e].moved
    BY <2>4, <2>5, <2>6
  <2> QED
    BY <1>3, <2>5, <2>7, CallHeld DEF JoinTransport, router
<1>4. CASE DisableEnds(c) \/ ShutdownEnds(c)
  <2>1. /\ call[c].moved = {}
        /\ \A d \in Clients \ {c} : call'[d] = call[d]
        /\ UNCHANGED <<router, task, executorEnds, net>>
    BY <1>4 DEF DisableEnds, ShutdownEnds, AllShutdown, TypeOK
  <2> QED
    BY <2>1, CallHeld DEF router
<1> QED
  BY <1>2, <1>3, <1>4

\* What a step leaves with the calls and the executor stays held.
LEMMA OthersHeld ==
  ASSUME UNCHANGED <<tasks, task>>, \A c \in Clients : call[c].moved \subseteq call'[c].moved
  PROVE  \A t \in Transports : t \in Held => t \in transports \/ t \in Held'
<1>1. Pending' = Pending
  BY DEF Pending
<1>2. ASSUME NEW t \in Transports, t \in Held, t \notin transports
      PROVE  t \in Held'
  <2>1. CASE t \in Pending
    BY <1>1, <2>1 DEF Held
  <2>2. CASE \E c \in Clients : t \in call[c].moved
    BY <2>2 DEF Held
  <2> QED
    BY <1>2, <2>1, <2>2 DEF Held
<1> QED
  BY <1>2

\* A step of a network thread that begins no connection, and does not touch the router.
LEMMA NetStepHeld ==
  ASSUME TypeOK, TransportsAreHeld, NEW t \in Transports,
         \/ Connects(t) \/ ServerCloses(t) \/ Stops(t) \/ Disconnects(t) \/ OnConnected(t)
  PROVE  TransportsAreHeld'
<1>1. UNCHANGED <<transports, tasks, task, executorEnds, call>>
  BY DEF Connects, ServerCloses, Stops, Disconnects, OnConnected, router, Local
<1>2. net[t] \in NetThreads /\ net[t].pc \notin {"absent", "failed"}
  BY DEF TypeOK, Connects, ServerCloses, Stops, Disconnects, OnConnected, NetAt, Looping
<1>3. PICK r \in NetThreads :
        /\ net' = [net EXCEPT ![t] = r]
        /\ r.isShutdown = net[t].isShutdown /\ r.pc \notin {"absent", "failed"}
  <2>1. CASE Connects(t)
    <3>1. /\ [net[t] EXCEPT !.isConnected = TRUE, !.pc = "announcing"] \in NetThreads
          /\ [net[t] EXCEPT !.isConnected = TRUE, !.pc = "announcing"].isShutdown = net[t].isShutdown
          /\ [net[t] EXCEPT !.isConnected = TRUE, !.pc = "announcing"].pc \notin {"absent", "failed"}
      BY <1>2 DEF NetThreads, Pcs
    <3>2. net' = [net EXCEPT ![t] = [net[t] EXCEPT !.isConnected = TRUE, !.pc = "announcing"]]
      BY <2>1 DEF Connects
    <3> QED
      BY <3>1, <3>2
  <2>2. CASE ServerCloses(t)
    <3>1. /\ [net[t] EXCEPT !.pc = "closing"] \in NetThreads
          /\ [net[t] EXCEPT !.pc = "closing"].isShutdown = net[t].isShutdown
          /\ [net[t] EXCEPT !.pc = "closing"].pc \notin {"absent", "failed"}
      BY <1>2 DEF NetThreads, Pcs
    <3>2. net' = [net EXCEPT ![t] = [net[t] EXCEPT !.pc = "closing"]]
      BY <2>2 DEF ServerCloses
    <3> QED
      BY <3>1, <3>2
  <2>3. CASE Stops(t)
    <3>1. /\ [net[t] EXCEPT !.isStopping = TRUE] \in NetThreads
          /\ [net[t] EXCEPT !.isStopping = TRUE].isShutdown = net[t].isShutdown
          /\ [net[t] EXCEPT !.isStopping = TRUE].pc \notin {"absent", "failed"}
      BY <1>2 DEF NetThreads, Pcs
    <3>2. net' = [net EXCEPT ![t] = [net[t] EXCEPT !.isStopping = TRUE]]
      BY <2>3 DEF Stops
    <3> QED
      BY <3>1, <3>2
  <2>4. CASE Disconnects(t)
    <3>1. /\ [net[t] EXCEPT !.isConnected = FALSE, !.pc = "disconnecting"] \in NetThreads
          /\ [net[t] EXCEPT !.isConnected = FALSE, !.pc = "disconnecting"].isShutdown
               = net[t].isShutdown
          /\ [net[t] EXCEPT !.isConnected = FALSE, !.pc = "disconnecting"].pc
               \notin {"absent", "failed"}
      BY <1>2 DEF NetThreads, Pcs
    <3>2. net' = [net EXCEPT ![t] = [net[t] EXCEPT !.isConnected = FALSE, !.pc = "disconnecting"]]
      BY <2>4 DEF Disconnects
    <3> QED
      BY <3>1, <3>2
  <2>5. CASE OnConnected(t)
    <3>1. /\ [net[t] EXCEPT !.pc = "connected"] \in NetThreads
          /\ [net[t] EXCEPT !.pc = "connected"].isShutdown = net[t].isShutdown
          /\ [net[t] EXCEPT !.pc = "connected"].pc \notin {"absent", "failed"}
      BY <1>2 DEF NetThreads, Pcs
    <3>2. net' = [net EXCEPT ![t] = [net[t] EXCEPT !.pc = "connected"]]
      BY <2>5 DEF OnConnected
    <3> QED
      BY <3>1, <3>2
  <2> QED
    BY <2>1, <2>2, <2>3, <2>4, <2>5
<1>4. net'[t] = r /\ \A u \in Transports \ {t} : net'[u] = net[u]
  BY <1>3, NetChange DEF TypeOK
<1>5. \A u \in Transports : Gone(u) => Gone(u)'
  BY <1>2, <1>3, <1>4 DEF Gone, NetAt
<1>6. Held' = Held
  BY <1>1 DEF Held, Pending
<1> QED
  BY <1>1, <1>5, <1>6, HeldStep

LEMMA EnableHeld ==
  ASSUME TypeOK, TransportsAreHeld, NEW c \in Clients, Enable(c) \/ SetAVSEndpointEnds(c)
  PROVE  TransportsAreHeld'
<1>1. UNCHANGED <<tasks, task, executorEnds>>
  BY DEF Enable, SetAVSEndpointEnds
<1>2. \A d \in Clients : call[d].moved \subseteq call'[d].moved
  <2>1. CASE Enable(c)
    BY <2>1 DEF Enable
  <2>2. CASE SetAVSEndpointEnds(c)
    BY <2>2 DEF SetAVSEndpointEnds, AllShutdown, TypeOK
  <2> QED
    BY <2>1, <2>2
<1>3. \A t \in Transports : t \in Held => t \in transports \/ t \in Held'
  BY <1>1, <1>2, OthersHeld
<1>4. CASE UNCHANGED <<transports, net>>
  <2>1. transports \subseteq Held'
    BY <1>4 DEF Held
  <2>2. \A t \in Transports : Gone(t) => Gone(t)'
    BY <1>4 DEF Gone, NetAt
  <2> QED
    BY <1>1, <1>3, <2>1, <2>2, HeldStep
<1>5. CASE \E s \in Statuses : CreateActive(s, transports, net)
  BY <1>1, <1>3, <1>5, CreateActiveHeld DEF TypeOK
<1>6. "PENDING" \in Statuses /\ status \in Statuses
  BY DEF TypeOK, Statuses
<1> QED
  BY <1>4, <1>5, <1>6 DEF Enable, SetAVSEndpointEnds

LEMMA OnServerSideDisconnectHeld ==
  ASSUME TypeOK, TransportsAreHeld, NEW t \in Transports, OnServerSideDisconnect(t)
  PROVE  TransportsAreHeld'
<1>1. /\ UNCHANGED <<tasks, task, executorEnds, call>>
      /\ net[t] \in NetThreads /\ net[t].pc = "closing"
  BY DEF OnServerSideDisconnect, Local, NetAt, TypeOK
<1>2. PICK r : r = [net[t] EXCEPT !.pc = "draining"]
  OBVIOUS
<1>3. r \in NetThreads /\ r.pc = "draining" /\ r.isShutdown = net[t].isShutdown
  BY <1>1, <1>2 DEF NetThreads, Pcs
<1>4. PICK n : n = [net EXCEPT ![t] = r]
  OBVIOUS
<1>5. n \in [Transports -> NetThreads] /\ n[t] = r /\ \A u \in Transports \ {t} : n[u] = net[u]
  BY <1>3, <1>4, NetChange DEF TypeOK
<1>6. n = [net EXCEPT ![t].pc = "draining"]
  BY <1>2, <1>4
<1>7. \A u \in Transports : u \in Held => u \in transports \/ u \in Held'
  BY <1>1, OthersHeld
<1>8. \A u \in Transports : /\ (n[u].pc \in {"absent", "failed"}) = (net[u].pc \in {"absent", "failed"})
                            /\ n[u].isShutdown = net[u].isShutdown
  BY <1>1, <1>3, <1>5
<1>9. CASE isEnabled
  <2>1. CreateActive("PENDING", transports, n)
    BY <1>6, <1>9 DEF OnServerSideDisconnect
  <2>2. \A u \in transports : n[u].pc \notin {"absent", "failed", "ended"}
    BY <1>3, <1>5 DEF TypeOK
  <2>3. "PENDING" \in Statuses /\ transports \in SUBSET Transports
    BY DEF TypeOK, Statuses
  <2> QED
    BY <1>1, <1>5, <1>7, <1>8, <2>1, <2>2, <2>3, CreateActiveHeld
<1>10. CASE ~isEnabled
  <2>1. net' = n /\ transports' = transports
    BY <1>6, <1>10 DEF OnServerSideDisconnect
  <2>2. \A u \in Transports : Gone(u) => Gone(u)'
    BY <1>8, <2>1 DEF Gone, NetAt
  <2>3. transports \subseteq Held'
    BY <2>1 DEF Held
  <2> QED
    BY <1>1, <1>7, <2>2, <2>3, HeldStep
<1> QED
  BY <1>9, <1>10

\* onDisconnected() hands the transport over to the executor.
LEMMA OnDisconnectedHeld ==
  ASSUME TypeOK, TransportsAreHeld, NEW t \in Transports, OnDisconnected(t)
  PROVE  TransportsAreHeld'
<1>1. /\ UNCHANGED <<task, executorEnds, call>>
      /\ tasks' = Released(t)
      /\ net[t] \in NetThreads /\ net[t].pc = "disconnecting"
  BY DEF OnDisconnected, Local, NetAt, TypeOK
<1>2. CASE executorEnds
  BY <1>1, <1>2 DEF TransportsAreHeld
<1>3. CASE ~executorEnds
  <2>1. Pending \subseteq Pending' /\ (t \in transports => t \in Pending')
    <3>1. CASE t \notin transports
      BY <1>1, <3>1 DEF Released, Pending
    <3>2. CASE t \in transports
      <4>1. tasks' = Append(tasks, Release(t)) /\ Release(t) \in Tasks
        BY <1>1, <1>3, <3>2 DEF Released, Submit, Tasks
      <4>2. tasks \in Seq(Tasks)
        BY DEF TypeOK
      <4>3. /\ DOMAIN tasks \subseteq DOMAIN tasks' /\ \A i \in DOMAIN tasks : tasks'[i] = tasks[i]
            /\ Len(tasks) + 1 \in DOMAIN tasks' /\ tasks'[Len(tasks) + 1] = Release(t)
        BY <4>1, <4>2
      <4> QED
        BY <1>1, <4>3 DEF Pending
    <3> QED
      BY <3>1, <3>2
  <2>2. ASSUME NEW u \in Transports, u \in Held
        PROVE  u \in transports \ {t} \/ u \in Held'
    <3>1. CASE u \in Pending \/ (u = t /\ t \in transports)
      BY <2>1, <3>1 DEF Held
    <3>2. CASE \E c \in Clients : u \in call[c].moved
      BY <1>1, <3>2 DEF Held
    <3> QED
      BY <2>2, <3>1, <3>2 DEF Held
  <2>3. PICK r : r = [net[t] EXCEPT !.pc = "ended"]
    OBVIOUS
  <2>4. r \in NetThreads /\ r.pc = "ended" /\ r.isShutdown = net[t].isShutdown
    BY <1>1, <2>3 DEF NetThreads, Pcs
  <2>5. PICK n : n = [net EXCEPT ![t] = r]
    OBVIOUS
  <2>6. n \in [Transports -> NetThreads] /\ n[t] = r /\ \A u \in Transports \ {t} : n[u] = net[u]
    BY <2>4, <2>5, NetChange DEF TypeOK
  <2>7. n = [net EXCEPT ![t].pc = "ended"]
    BY <2>3, <2>5
  <2>8. \A u \in Transports : /\ (n[u].pc \in {"absent", "failed"}) = (net[u].pc \in {"absent", "failed"})
                              /\ n[u].isShutdown = net[u].isShutdown
    BY <1>1, <2>4, <2>6
  <2>9. CASE CreateActive("PENDING", transports \ {t}, n)
    <3>1. \A u \in transports \ {t} : n[u].pc \notin {"absent", "failed", "ended"}
      BY <2>6 DEF TypeOK
    <3>2. "PENDING" \in Statuses /\ transports \ {t} \in SUBSET Transports
      BY DEF TypeOK, Statuses
    <3> QED
      BY <1>1, <2>2, <2>6, <2>8, <2>9, <3>1, <3>2, CreateActiveHeld
  <2>10. CASE net' = n /\ transports' = transports \ {t}
    <3>1. \A u \in Transports : Gone(u) => Gone(u)'
      BY <2>8, <2>10 DEF Gone, NetAt
    <3>2. transports \ {t} \subseteq Held'
      BY <2>10 DEF Held
    <3> QED
      BY <1>1, <2>2, <3>1, <3>2, HeldStep
  <2> QED
    BY <2>7, <2>9, <2>10 DEF OnDisconnected
<1> QED
  BY <1>2, <1>3

\* The executor lets go of a transport when its thread was joined.
LEMMA ExecuteHeld ==
  ASSUME TypeOK, TransportsAreHeld, Execute
  PROVE  TransportsAreHeld'
<1>1. /\ UNCHANGED <<transports, executorEnds, call>>
      /\ tasks \in Seq(Tasks)
  BY DEF Execute, BeginRelease, ReleaseTransport, router, TypeOK
<1>2. CASE BeginRelease
  <2>1. ASSUME NEW u \in Transports, u \in Pending
        PROVE  u \in Pending'
    <3>1. PICK i \in DOMAIN tasks : Release(u) = tasks[i]
      BY <1>2, <2>1, TaskTypes DEF Pending, BeginRelease
    <3>2. CASE i = 1
      <4>1. Release(u) = task'
        BY <1>1, <1>2, <3>1, <3>2 DEF BeginRelease
      <4> QED
        BY <4>1 DEF Pending
    <3>3. CASE i # 1
      <4>1. i - 1 \in DOMAIN tasks' /\ tasks'[i - 1] = tasks[i]
        BY <1>1, <1>2, <3>1, <3>3 DEF BeginRelease
      <4> QED
        BY <3>1, <4>1 DEF Pending
    <3> QED
      BY <3>2, <3>3
  <2>2. \A u \in Transports : u \in Held => u \in Held'
    BY <1>1, <2>1 DEF Held, Pending
  <2>3. \A u \in Transports : Gone(u) => Gone(u)'
    BY <1>2 DEF Gone, NetAt, BeginRelease
  <2> QED
    BY <1>1, <2>2, <2>3, HeldStep
<1>3. CASE ReleaseTransport
  <2>1. PICK t : t = task.transport
    OBVIOUS
  <2>2. /\ t \in Transports /\ task = Release(t) /\ tasks' = tasks
        /\ net' = [net EXCEPT ![t].isShutdown = TRUE]
    BY <1>3, <2>1, TaskTypes DEF ReleaseTransport, TypeOK, router
  <2>3. net'[t].isShutdown /\ net'[t].pc = net[t].pc /\ \A u \in Transports \ {t} : net'[u] = net[u]
    BY <2>2 DEF TypeOK, NetThreads
  <2>4. \A u \in Transports : Gone(u) => Gone(u)'
    BY <2>3 DEF Gone, NetAt
  <2>5. \A u \in Transports \ {t} : Release(u) # task
    BY <2>2 DEF Release
  <2>6. \A u \in Transports \ {t} : u \in Pending => u \in Pending'
    BY <2>2, <2>5 DEF Pending
  <2>7. \A u \in Transports \ {t} : u \in Held => u \in Held'
    BY <1>1, <2>6 DEF Held
  <2>8. Gone(t)'
    BY <2>3 DEF Gone
  <2> QED
    BY <1>1, <2>4, <2>7, <2>8, HeldStep
<1> QED
  BY <1>2, <1>3 DEF Execute

LEMMA StepHeld ==
  ASSUME TypeOK, TransportsAreHeld, [Next]_vars
  PROVE  TransportsAreHeld'
<1> TypeOK'
  BY StepType
<1>1. CASE \E c \in Clients : Enable(c) \/ SetAVSEndpoint(c) \/ Continue(c)
                              \/ \E op \in {"disable", "shutdown"} : Disable(c, op)
  <2>1. PICK c \in Clients : \/ Enable(c) \/ SetAVSEndpoint(c) \/ Continue(c)
                             \/ \E op \in {"disable", "shutdown"} : Disable(c, op)
    BY <1>1
  <2>2. CASE Enable(c) \/ SetAVSEndpointEnds(c)
    BY <2>2, EnableHeld
  <2>3. CASE SetAVSEndpoint(c) \/ \E op \in {"disable", "shutdown"} : Disable(c, op)
    BY <2>3, DisconnectHeld DEF SetAVSEndpoint, Disable
  <2>4. CASE ShutdownTransport(c) \/ JoinTransport(c) \/ DisableEnds(c) \/ ShutdownEnds(c)
    BY <2>4, ContinueHeld
  <2>5. CASE ShutdownExecutor(c)
    BY <2>5 DEF ShutdownExecutor, TransportsAreHeld
  <2> QED
    BY <2>1, <2>2, <2>3, <2>4, <2>5 DEF Continue
<1>2. CASE \E t \in Transports : Connects(t) \/ ServerCloses(t) \/ Stops(t) \/ CallBack(t)
  BY <1>2, NetStepHeld, OnServerSideDisconnectHeld, OnDisconnectedHeld DEF CallBack
<1>3. CASE Execute
  BY <1>3, ExecuteHeld
<1>4. CASE UNCHANGED vars
  <2>1. Held' = Held
    BY <1>4 DEF vars, Held, Pending
  <2> QED
    BY <1>4, <2>1 DEF vars, TransportsAreHeld, NetAt
<1> QED
  BY <1>1, <1>2, <1>3, <1>4 DEF Next

\* A transport that has a network thread stays with the router, with a call that is shutting
\* it down, or with the executor, until shutdown() has joined the thread (MessageRouter.cpp).
THEOREM NoThreadIsLost == Spec => []TransportsAreHeld
<1>1. Init => TypeOK /\ TransportsAreHeld
  BY InitType DEF Init, TransportsAreHeld, NetAt
<1>2. TypeOK /\ TransportsAreHeld /\ [Next]_vars => (TypeOK /\ TransportsAreHeld)'
  BY StepType, StepHeld
<1> QED
  BY <1>1, <1>2, PTL DEF Spec

-----------------------------------------------------------------------------
(* Each transport has the life of TransportLife *)

\* A transport is shut down only after it was told to stop.
EndedStops == \A t \in Transports : NetAt(t, {"disconnecting", "ended"}) => net[t].isStopping

\* The steps of TransportLife, as what they make of a network thread r.
Lives(r, s) ==
  \/ s = r
  \/ r.pc = "absent" /\ s \in {[r EXCEPT !.pc = "connecting"], [r EXCEPT !.pc = "failed"]}
  \/ r.pc = "connecting" /\ ~r.isStopping /\ s = [r EXCEPT !.isConnected = TRUE, !.pc = "announcing"]
  \/ r.pc = "announcing" /\ s = [r EXCEPT !.pc = "connected"]
  \/ r.pc \in {"connecting", "connected"} /\ ~r.isStopping /\ s = [r EXCEPT !.pc = "closing"]
  \/ r.pc = "closing" /\ s = [r EXCEPT !.pc = "draining"]
  \/ s = [r EXCEPT !.isStopping = TRUE]
  \/ r.pc \in Looping /\ r.isStopping /\ s = [r EXCEPT !.isConnected = FALSE, !.pc = "disconnecting"]
  \/ r.pc = "disconnecting" /\ s = [r EXCEPT !.pc = "ended"]
  \/ r.pc = "ended" /\ r.isStopping /\ s = [r EXCEPT !.isShutdown = TRUE]

LEMMA LivesLife ==
  ASSUME NEW t \in Transports, net[t] \in NetThreads, Lives(net[t], net[t]')
  PROVE  [Life(t)!Next]_(net[t])
<1> DEFINE r == net[t]
           s == net[t]'
<1>1. r \in [pc : Pcs, isConnected : BOOLEAN, isStopping : BOOLEAN, isShutdown : BOOLEAN]
  BY DEF NetThreads
<1>2. CASE s = r
  BY <1>2
<1>3. CASE r.pc = "absent" /\ s \in {[r EXCEPT !.pc = "connecting"], [r EXCEPT !.pc = "failed"]}
  BY <1>1, <1>3 DEF Life!Next, Life!Connect
<1>4. CASE r.pc = "connecting" /\ ~r.isStopping /\ s = [r EXCEPT !.isConnected = TRUE, !.pc = "announcing"]
  BY <1>1, <1>4 DEF Life!Next, Life!Connects
<1>5. CASE r.pc = "announcing" /\ s = [r EXCEPT !.pc = "connected"]
  BY <1>1, <1>5 DEF Life!Next, Life!OnConnected
<1>6. CASE r.pc \in {"connecting", "connected"} /\ ~r.isStopping /\ s = [r EXCEPT !.pc = "closing"]
  BY <1>1, <1>6 DEF Life!Next, Life!ServerCloses
<1>7. CASE r.pc = "closing" /\ s = [r EXCEPT !.pc = "draining"]
  BY <1>1, <1>7 DEF Life!Next, Life!OnServerSideDisconnect
<1>8. CASE s = [r EXCEPT !.isStopping = TRUE]
  BY <1>1, <1>8 DEF Life!Next, Life!Stops
<1>9. CASE r.pc \in Looping /\ r.isStopping /\ s = [r EXCEPT !.isConnected = FALSE, !.pc = "disconnecting"]
  BY <1>1, <1>9 DEF Life!Next, Life!Disconnects, Looping
<1>10. CASE r.pc = "disconnecting" /\ s = [r EXCEPT !.pc = "ended"]
  BY <1>1, <1>10 DEF Life!Next, Life!OnDisconnected
<1>11. CASE r.pc = "ended" /\ r.isStopping /\ s = [r EXCEPT !.isShutdown = TRUE]
  BY <1>1, <1>11 DEF Life!Next, Life!Joined
<1> QED
  BY <1>2, <1>3, <1>4, <1>5, <1>6, <1>7, <1>8, <1>9, <1>10, <1>11 DEF Lives

\* A transport that is created has not lived before.
LEMMA CreateActiveLives ==
  ASSUME NEW s, NEW T, NEW n \in [Transports -> NetThreads], CreateActive(s, T, n), NEW t \in Transports
  PROVE  \/ net'[t] = n[t]
         \/ n[t].pc = "absent" /\ net'[t] \in {[n[t] EXCEPT !.pc = "connecting"], [n[t] EXCEPT !.pc = "failed"]}
<1>1. ASSUME NEW u \in Transports, n[u].pc = "absent",
             net' \in {[n EXCEPT ![u].pc = "connecting"], [n EXCEPT ![u].pc = "failed"]}
      PROVE  \/ net'[t] = n[t]
             \/ n[t].pc = "absent"
                /\ net'[t] \in {[n[t] EXCEPT !.pc = "connecting"], [n[t] EXCEPT !.pc = "failed"]}
  BY <1>1
<1> QED BY <1>1 DEF CreateActive

\* What a step does to one network thread: nothing, or one step of its life.
LEMMA StepLives ==
  ASSUME TypeOK, EndedStops, [Next]_vars, NEW t \in Transports
  PROVE  Lives(net[t], net'[t])
<1>1. net \in [Transports -> NetThreads] /\ net[t] \in NetThreads
  BY DEF TypeOK
<1>2. net' = net => Lives(net[t], net'[t])
  BY DEF Lives
<1>3. ASSUME NEW u \in Transports, NEW r, net' = [net EXCEPT ![u] = r], Lives(net[u], r)
      PROVE  Lives(net[t], net'[t])
  <2>1. net'[t] = IF t = u THEN r ELSE net[t]
    BY <1>1, <1>3
  <2> QED BY <1>3, <2>1 DEF Lives
<1>4. ASSUME NEW s, NEW T, CreateActive(s, T, net) PROVE Lives(net[t], net'[t])
  BY <1>1, <1>4, CreateActiveLives DEF Lives
\* A callback that creates a transport changes its own thread as well, which is not absent.
<1>5. ASSUME NEW u \in Transports, NEW r \in NetThreads, NEW n, n = [net EXCEPT ![u] = r],
             Lives(net[u], r), r.pc # "absent",
             net' = n \/ \E s, T : CreateActive(s, T, n)
      PROVE  Lives(net[t], net'[t])
  <2>1. n \in [Transports -> NetThreads] /\ n[t] = IF t = u THEN r ELSE net[t]
    BY <1>1, <1>5
  <2>2. CASE net' = n
    BY <1>3, <1>5, <2>2
  <2>3. CASE \E s, T : CreateActive(s, T, n)
    <3>1. PICK s, T : CreateActive(s, T, n)
      BY <2>3
    <3>2. \/ net'[t] = n[t]
          \/ n[t].pc = "absent" /\ net'[t] \in {[n[t] EXCEPT !.pc = "connecting"], [n[t] EXCEPT !.pc = "failed"]}
      BY <2>1, <3>1, CreateActiveLives
    <3>3. CASE t = u
      BY <1>5, <2>1, <3>2, <3>3
    <3>4. CASE t # u
      BY <2>1, <3>2, <3>4 DEF Lives
    <3> QED BY <3>3, <3>4
  <2> QED BY <1>5, <2>2, <2>3
<1>6. ASSUME NEW c \in Clients, Enable(c) \/ SetAVSEndpoint(c) \/ \E op \in {"disable", "shutdown"} : Disable(c, op)
      PROVE  Lives(net[t], net'[t])
  BY <1>2, <1>4, <1>6 DEF Enable, SetAVSEndpoint, Disable
<1>7. ASSUME NEW c \in Clients, Continue(c) PROVE Lives(net[t], net'[t])
  <2>1. CASE ShutdownTransport(c)
    <3>1. PICK u \in call[c].moved : net' = [net EXCEPT ![u].isStopping = TRUE]
      BY <2>1 DEF ShutdownTransport
    <3>2. u \in Transports
      BY DEF TypeOK, CallStates
    <3>3. Lives(net[u], [net[u] EXCEPT !.isStopping = TRUE])
      BY DEF Lives
    <3> QED BY <1>3, <3>1, <3>2, <3>3
  <2>2. CASE JoinTransport(c)
    <3>1. PICK u \in Transports : u = call[c].current
      BY <2>2 DEF TypeOK, CallStates, JoinTransport
    <3>2. net' = [net EXCEPT ![u].isShutdown = TRUE] /\ net[u].pc = "ended"
      BY <2>2, <3>1 DEF JoinTransport
    <3>3. net[u].isStopping
      BY <3>2 DEF EndedStops, NetAt
    <3>4. Lives(net[u], [net[u] EXCEPT !.isShutdown = TRUE])
      BY <3>2, <3>3 DEF Lives
    <3> QED BY <1>3, <3>2, <3>4
  <2>3. CASE SetAVSEndpointEnds(c)
    BY <1>2, <1>4, <2>3 DEF SetAVSEndpointEnds
  <2>4. CASE DisableEnds(c) \/ ShutdownExecutor(c) \/ ShutdownEnds(c)
    BY <1>2, <2>4 DEF DisableEnds, ShutdownExecutor, ShutdownEnds
  <2> QED BY <1>7, <2>1, <2>2, <2>3, <2>4 DEF Continue
<1>8. ASSUME NEW u \in Transports, Connects(u) \/ ServerCloses(u) \/ Stops(u) \/ CallBack(u)
      PROVE  Lives(net[t], net'[t])
  <2>1. net[u] \in [pc : Pcs, isConnected : BOOLEAN, isStopping : BOOLEAN, isShutdown : BOOLEAN]
    BY <1>1 DEF NetThreads
  <2>2. CASE Connects(u)
    <3>1. PICK r : r = [net[u] EXCEPT !.isConnected = TRUE, !.pc = "announcing"]
      OBVIOUS
    <3>2. net' = [net EXCEPT ![u] = r]
      BY <2>2, <3>1 DEF Connects
    <3>3. Lives(net[u], r)
      BY <2>2, <3>1 DEF Connects, Lives, NetAt
    <3> QED BY <1>3, <3>2, <3>3
  <2>3. CASE ServerCloses(u)
    <3>1. Lives(net[u], [net[u] EXCEPT !.pc = "closing"])
      BY <2>3 DEF ServerCloses, Lives, NetAt
    <3> QED BY <1>3, <2>3, <3>1 DEF ServerCloses
  <2>4. CASE Stops(u)
    <3>1. Lives(net[u], [net[u] EXCEPT !.isStopping = TRUE])
      BY DEF Lives
    <3> QED BY <1>3, <2>4, <3>1 DEF Stops
  <2>5. CASE Disconnects(u)
    <3>1. PICK r : r = [net[u] EXCEPT !.isConnected = FALSE, !.pc = "disconnecting"]
      OBVIOUS
    <3>2. net' = [net EXCEPT ![u] = r]
      BY <2>5, <3>1 DEF Disconnects
    <3>3. Lives(net[u], r)
      BY <2>5, <3>1 DEF Disconnects, Lives, NetAt
    <3> QED BY <1>3, <3>2, <3>3
  <2>6. CASE OnConnected(u)
    <3>1. Lives(net[u], [net[u] EXCEPT !.pc = "connected"])
      BY <2>6 DEF OnConnected, Lives, NetAt
    <3> QED BY <1>3, <2>6, <3>1 DEF OnConnected
  <2>7. CASE OnServerSideDisconnect(u)
    <3>1. PICK r : r = [net[u] EXCEPT !.pc = "draining"]
      OBVIOUS
    <3>2. r \in NetThreads /\ r.pc # "absent"
      BY <2>1, <3>1 DEF NetThreads, Pcs
    <3>3. Lives(net[u], r)
      BY <2>7, <3>1 DEF OnServerSideDisconnect, Lives, NetAt
    <3>4. PICK n : n = [net EXCEPT ![u] = r]
      OBVIOUS
    <3>5. net' = n \/ CreateActive("PENDING", transports, n)
      BY <2>7, <3>1, <3>4 DEF OnServerSideDisconnect
    <3> QED BY <1>5, <3>2, <3>3, <3>4, <3>5
  <2>8. CASE OnDisconnected(u)
    <3>1. PICK r : r = [net[u] EXCEPT !.pc = "ended"]
      OBVIOUS
    <3>2. r \in NetThreads /\ r.pc # "absent"
      BY <2>1, <3>1 DEF NetThreads, Pcs
    <3>3. Lives(net[u], r)
      BY <2>8, <3>1 DEF OnDisconnected, Lives, NetAt
    <3>4. PICK n : n = [net EXCEPT ![u] = r]
      OBVIOUS
    <3>5. net' = n \/ CreateActive("PENDING", transports \ {u}, n)
      BY <2>8, <3>1, <3>4 DEF OnDisconnected
    <3> QED BY <1>5, <3>2, <3>3, <3>4, <3>5
  <2> QED BY <1>8, <2>2, <2>3, <2>4, <2>5, <2>6, <2>7, <2>8 DEF CallBack
<1>9. CASE Execute
  <2>1. BeginRelease => Lives(net[t], net'[t])
    BY <1>2 DEF BeginRelease
  <2>2. CASE ReleaseTransport
    <3>1. PICK u \in Transports : u = task.transport
      BY <2>2, TaskTypes DEF ReleaseTransport, TypeOK
    <3>2. net' = [net EXCEPT ![u].isShutdown = TRUE] /\ net[u].pc = "ended"
      BY <2>2, <3>1 DEF ReleaseTransport, NetAt
    <3>3. Lives(net[u], [net[u] EXCEPT !.isShutdown = TRUE])
      BY <3>2 DEF Lives, EndedStops, NetAt
    <3> QED BY <1>3, <3>2, <3>3
  <2> QED BY <1>9, <2>1, <2>2 DEF Execute
<1>10. UNCHANGED vars => Lives(net[t], net'[t])
  BY <1>2 DEF vars
<1> QED
  BY <1>6, <1>7, <1>8, <1>9, <1>10 DEF Next

LEMMA EndedStopsStep ==
  ASSUME TypeOK, EndedStops, [Next]_vars
  PROVE  EndedStops'
<1> SUFFICES ASSUME NEW t \in Transports, net'[t].pc \in {"disconnecting", "ended"}
             PROVE  net'[t].isStopping
  BY DEF EndedStops, NetAt
<1>1. net[t] \in [pc : Pcs, isConnected : BOOLEAN, isStopping : BOOLEAN, isShutdown : BOOLEAN]
  BY DEF TypeOK, NetThreads
<1>2. Lives(net[t], net'[t])
  BY StepLives
<1>3. net[t].pc \in {"disconnecting", "ended"} => net[t].isStopping
  BY DEF EndedStops, NetAt
<1> QED BY <1>1, <1>2, <1>3 DEF Lives

\* Whatever the router does to its transports, for any number of them, of clients and of calls,
\* each of them lives as TransportLife says: the steps that this module takes from
\* HTTP2Transport are steps that HTTP2Transport can take.
THEOREM TransportsLive == Spec => TransportsKeepLife
<1> DEFINE Inv == TypeOK /\ EndedStops
           Begin == \A t \in Transports : Life(t)!Init
           Step == \A t \in Transports : [Life(t)!Next]_(net[t])
<1>1. Init => Inv
  BY InitType DEF Init, EndedStops, NetAt
<1>2. Inv /\ [Next]_vars => Inv'
  BY StepType, EndedStopsStep
<1>3. Init => Begin
  BY DEF Init, Life!Init
<1>4. Inv /\ [Next]_vars => [Step]_net
  <2> SUFFICES ASSUME Inv, [Next]_vars, NEW t \in Transports PROVE [Life(t)!Next]_(net[t])
    OBVIOUS
  <2>1. net[t] \in NetThreads
    BY DEF TypeOK
  <2>2. Lives(net[t], net[t]')
    BY StepLives
  <2> QED BY <2>1, <2>2, LivesLife
<1>5. Spec => Begin /\ [][Step]_net
  <2> HIDE DEF Inv, Begin, Step
  <2> QED BY <1>1, <1>2, <1>3, <1>4, PTL DEF Spec
<1> QED BY <1>5 DEF TransportsKeepLife
=============================================================================
