---------------------------- MODULE MessageRouter ----------------------------
(***************************************************************************)
(* ACL/src/Transport/MessageRouter.cpp: which connection to AVS is used,   *)
(* and what the client is told of it, with the side of HTTP2Transport.cpp  *)
(* that the router sees.                                                   *)
(*                                                                         *)
(* Threads: the clients, which enable and disable the router and change    *)
(* its endpoint; one network thread of each transport, which runs          *)
(* networkLoop() and calls the router back; and the router's executor.     *)
(* Every method of the router is one critical section of                   *)
(* m_connectionMutex, except that disconnectAllTransportsLocked() lets go  *)
(* of it while it shuts the transports down, and joins their threads.      *)
(*                                                                         *)
(* The executor's tasks that tell m_observer each new status, in order,    *)
(* are left out: they change nothing of the router.                        *)
(***************************************************************************)
EXTENDS Naturals, Sequences, FiniteSets

CONSTANTS
  Clients,       \* threads that call the router
  NoTransport,
  MaxTransports, \* bound: transports that are ever created
  MaxCalls       \* bound: calls of the clients

ASSUME BoundAssumption == MaxTransports \in Nat /\ NoTransport \notin Nat /\ MaxCalls \in Nat

VARIABLES
  isEnabled,    \* m_isEnabled
  status,       \* m_connectionStatus
  active,       \* m_activeTransport
  transports,   \* m_transports
  tasks,        \* the queue of m_executor
  task,         \* its running task, or Idle
  executorEnds, \* m_executor.shutdown() was called
  net,          \* the transports: network thread and flags
  call,         \* the call each client is in
  calls         \* calls so far

vars == <<isEnabled, status, active, transports, tasks, task, executorEnds, net, call, calls>>
router == <<isEnabled, status, active, transports, tasks>>

\* Transports are numbered in the order of their creation.
Transports == 1 .. MaxTransports

Idle == [transport |-> NoTransport]
Release(t) == [transport |-> t]

\* No call, and one that has let go of the mutex: the transports it took along, and the one
\* whose shutdown() it is in.
NoCall == [op |-> "none", moved |-> {}, current |-> NoTransport]

IsConnected(t) == net[t].isConnected /\ ~net[t].isStopping

Init ==
  /\ isEnabled = FALSE /\ status = "DISCONNECTED"
  /\ active = NoTransport /\ transports = {}
  /\ tasks = << >> /\ task = Idle /\ executorEnds = FALSE
  /\ net = [t \in Transports |-> [pc |-> "absent", isConnected |-> FALSE, isStopping |-> FALSE,
                                  isShutdown |-> FALSE]]
  /\ call = [c \in Clients |-> NoCall] /\ calls = 0

-----------------------------------------------------------------------------
(* What the methods of the router have in common *)

\* m_executor.submit(): in vain once it is shut down.
Submit(q, x) == IF executorEnds THEN q ELSE Append(q, x)

\* createActiveTransportLocked(), with the status it starts from, the transports that are left,
\* and the network threads: the new transport becomes active if connect() succeeds.
CreateActive(s, T, n) ==
  \/ \E t \in {u \in Transports : n[u].pc = "absent" /\ \A v \in 1 .. u - 1 : n[v].pc # "absent"} :
       \/ /\ active' = t /\ transports' = T \cup {t}
          /\ net' = [n EXCEPT ![t].pc = "connecting"]
          /\ status' = s
       \/ /\ active' = NoTransport /\ transports' = T
          /\ net' = [n EXCEPT ![t].pc = "failed"]
          /\ status' = "DISCONNECTED"
  \/ /\ active' = NoTransport /\ transports' = T
     /\ net' = n
     /\ status' = "DISCONNECTED"

\* The locked part of disconnectAllTransportsLocked().
DisconnectAll(c, op) ==
  /\ active' = NoTransport
  /\ transports' = {}
  /\ status' = "DISCONNECTED"
  /\ UNCHANGED tasks
  /\ call' = [call EXCEPT ![c] = [NoCall EXCEPT !.op = op, !.moved = transports]]

-----------------------------------------------------------------------------
(* The clients *)

Calls(c) ==
  /\ call[c] = NoCall /\ calls < MaxCalls /\ ~executorEnds
  /\ \A d \in Clients : call[d].op # "shutdown"
  /\ calls' = calls + 1

\* enable(): a transport that is still connecting is replaced, and stays in m_transports.
Enable(c) ==
  /\ Calls(c)
  /\ isEnabled' = TRUE
  /\ IF active = NoTransport \/ ~IsConnected(active)
     THEN CreateActive("PENDING", transports, net)
     ELSE UNCHANGED <<status, active, transports, net>>
  /\ UNCHANGED <<tasks, task, executorEnds, call>>

\* disable(), and doShutdown(), which starts with it.
Disable(c, op) ==
  /\ Calls(c)
  /\ isEnabled' = FALSE
  /\ DisconnectAll(c, op)
  /\ UNCHANGED <<task, executorEnds, net>>

\* setAVSEndpoint(), with another endpoint; a router that is not enabled only remembers it.
SetAVSEndpoint(c) ==
  /\ Calls(c) /\ isEnabled
  /\ DisconnectAll(c, "endpoint")
  /\ UNCHANGED <<isEnabled, task, executorEnds, net>>

\* Fault: the network thread is joined without being told to stop.
ShutdownTransportUntold(c) ==
  /\ call[c].current = NoTransport
  /\ \E t \in call[c].moved : call' = [call EXCEPT ![c].current = t]
  /\ UNCHANGED <<router, net, task, executorEnds, calls>>

\* Without the mutex: transport->shutdown(), which is HTTP2Transport::disconnect(), ...
ShutdownTransport(c) ==
  /\ call[c].current = NoTransport
  /\ \E t \in call[c].moved :
       /\ call' = [call EXCEPT ![c].current = t]
       /\ net' = [net EXCEPT ![t].isStopping = TRUE]
  /\ UNCHANGED <<router, task, executorEnds, calls>>

\* Fault: shutdown() does not wait for the network thread.
JoinTransportUnjoined(c) ==
  /\ call[c].current # NoTransport
  /\ net' = [net EXCEPT ![call[c].current].isShutdown = TRUE]
  /\ call' = [call EXCEPT ![c].moved = @ \ {call[c].current}, ![c].current = NoTransport]
  /\ UNCHANGED <<router, task, executorEnds, calls>>

\* ... which joins the network thread.
JoinTransport(c) ==
  /\ call[c].current # NoTransport
  /\ net[call[c].current].pc = "ended"
  /\ net' = [net EXCEPT ![call[c].current].isShutdown = TRUE]
  /\ call' = [call EXCEPT ![c].moved = @ \ {call[c].current}, ![c].current = NoTransport]
  /\ UNCHANGED <<router, task, executorEnds, calls>>

AllShutdown(c, op) == call[c].op = op /\ call[c].moved = {}

DisableEnds(c) ==
  /\ AllShutdown(c, "disable")
  /\ call' = [call EXCEPT ![c] = NoCall]
  /\ UNCHANGED <<router, task, executorEnds, net, calls>>

\* Fault: the router may have been disabled meanwhile.
EnabledBefore == TRUE

EnabledStill == isEnabled

\* setAVSEndpoint() has the mutex again.
SetAVSEndpointEnds(c) ==
  /\ AllShutdown(c, "endpoint")
  /\ IF EnabledStill THEN CreateActive(status, transports, net)
                     ELSE UNCHANGED <<status, active, transports, net>>
  /\ call' = [call EXCEPT ![c] = NoCall]
  /\ UNCHANGED <<isEnabled, tasks, task, executorEnds, calls>>

\* m_executor.shutdown(): the tasks that have not begun are dropped, ...
ShutdownExecutor(c) ==
  /\ AllShutdown(c, "shutdown")
  /\ tasks' = << >> /\ executorEnds' = TRUE
  /\ call' = [call EXCEPT ![c].op = "joining"]
  /\ UNCHANGED <<isEnabled, status, active, transports, task, net, calls>>

\* ... and the running one is waited for.
ShutdownEnds(c) ==
  /\ AllShutdown(c, "joining") /\ task = Idle
  /\ call' = [call EXCEPT ![c] = NoCall]
  /\ UNCHANGED <<router, task, executorEnds, net, calls>>

-----------------------------------------------------------------------------
(* The network thread of transport t: HTTP2Transport::networkLoop() *)

NetAt(t, pcs) == net[t].pc \in pcs
Local == <<task, executorEnds, call, calls>>
Looping == {"connecting", "connected", "draining"}

\* setIsConnectedTrueUnlessStopping(), when the post-connect message was answered; then
\* onConnected() is called.  Once the downchannel is closed the answer comes too late: the
\* PostConnectSynchronizer, told of it too, has forgotten its observers.
Connects(t) ==
  /\ NetAt(t, {"connecting"}) /\ ~net[t].isStopping
  /\ net' = [net EXCEPT ![t].isConnected = TRUE, ![t].pc = "announcing"]
  /\ UNCHANGED <<router, Local>>

\* The router does not ask whether it is the active transport that connected.
OnConnected(t) ==
  /\ NetAt(t, {"announcing"})
  /\ net' = [net EXCEPT ![t].pc = "connected"]
  /\ status' = IF isEnabled THEN "CONNECTED" ELSE status
  /\ UNCHANGED <<isEnabled, active, transports, tasks, Local>>

\* cleanupFinishedStreams() finds the downchannel closed by AVS.
ServerCloses(t) ==
  /\ NetAt(t, {"connecting", "connected"}) /\ ~net[t].isStopping
  /\ net' = [net EXCEPT ![t].pc = "closing"]
  /\ UNCHANGED <<router, Local>>

\* onServerSideDisconnect(): the old transport stays, for what is still to be received.
OnServerSideDisconnect(t) ==
  /\ NetAt(t, {"closing"})
  /\ LET n == [net EXCEPT ![t].pc = "draining"]
     IN IF isEnabled THEN CreateActive("PENDING", transports, n)
                     ELSE net' = n /\ UNCHANGED <<status, active, transports>>
  /\ UNCHANGED <<isEnabled, tasks, Local>>

\* setIsStopping(): an error of the connection, a ping unanswered, or nothing left to drain.
Stops(t) ==
  /\ NetAt(t, Looping) /\ ~net[t].isStopping
  /\ net' = [net EXCEPT ![t].isStopping = TRUE]
  /\ UNCHANGED <<router, Local>>

\* The end of networkLoop(): setIsConnectedFalse(), which calls onDisconnected().
Disconnects(t) ==
  /\ NetAt(t, Looping) /\ net[t].isStopping
  /\ net' = [net EXCEPT ![t].isConnected = FALSE, ![t].pc = "disconnecting"]
  /\ UNCHANGED <<router, Local>>

\* Fault: a transport that disconnected is forgotten, and not shut down.
ReleasedNever(t) == tasks

\* A transport that disconnected by itself is to be shut down by the executor.
Released(t) == IF t \in transports THEN Submit(tasks, Release(t)) ELSE tasks

ActiveWithout(t) == IF t = active THEN NoTransport ELSE active

\* onDisconnected(): only a connection that was up is established again.
OnDisconnected(t) ==
  /\ NetAt(t, {"disconnecting"})
  /\ LET n == [net EXCEPT ![t].pc = "ended"]
         left == transports \ {t}
     IN IF t = active /\ status = "CONNECTED" /\ isEnabled
        THEN CreateActive("PENDING", left, n)
        ELSE /\ active' = ActiveWithout(t)
             /\ transports' = left /\ net' = n
             /\ status' = IF t = active /\ status = "CONNECTED" /\ left = {} THEN "DISCONNECTED" ELSE status
  /\ tasks' = Released(t)
  /\ UNCHANGED <<isEnabled, Local>>

-----------------------------------------------------------------------------
(* The executor *)

BeginRelease ==
  /\ task = Idle /\ tasks # << >>
  /\ task' = Head(tasks) /\ tasks' = Tail(tasks)
  /\ UNCHANGED <<isEnabled, status, active, transports, executorEnds, net, call, calls>>

\* safelyReleaseTransport(): transport->shutdown() joins a thread that has stopped by itself.
ReleaseTransport ==
  /\ task # Idle /\ NetAt(task.transport, {"ended"})
  /\ net' = [net EXCEPT ![task.transport].isShutdown = TRUE]
  /\ task' = Idle
  /\ UNCHANGED <<router, executorEnds, call, calls>>

-----------------------------------------------------------------------------
Continue(c) ==
  \/ ShutdownTransport(c) \/ JoinTransport(c) \/ DisableEnds(c) \/ SetAVSEndpointEnds(c)
  \/ ShutdownExecutor(c) \/ ShutdownEnds(c)

CallBack(t) == OnConnected(t) \/ OnServerSideDisconnect(t) \/ Disconnects(t) \/ OnDisconnected(t)

Execute == BeginRelease \/ ReleaseTransport

Next ==
  \/ \E c \in Clients :
       \/ Enable(c) \/ SetAVSEndpoint(c) \/ Continue(c)
       \/ \E op \in {"disable", "shutdown"} : Disable(c, op)
  \/ \E t \in Transports : Connects(t) \/ ServerCloses(t) \/ Stops(t) \/ CallBack(t)
  \/ Execute

Spec == Init /\ [][Next]_vars

\* Threads run, and a network thread that has to stop or to call back does.  Connections come
\* and go as they like.
FairSpec ==
  /\ Spec
  /\ \A c \in Clients : WF_vars(Continue(c))
  /\ \A t \in Transports : WF_vars(CallBack(t))
  /\ WF_vars(Execute)

-----------------------------------------------------------------------------
(* Properties *)

Pcs == {"absent", "failed", "connecting", "announcing", "connected", "closing", "draining",
        "disconnecting", "ended"}
Statuses == {"DISCONNECTED", "PENDING", "CONNECTED"}
Tasks == {Release(t) : t \in Transports}
NetThreads == [pc : Pcs, isConnected : BOOLEAN, isStopping : BOOLEAN, isShutdown : BOOLEAN]
CallStates == [op : {"none", "disable", "endpoint", "shutdown", "joining"},
               moved : SUBSET Transports, current : Transports \cup {NoTransport}]

\* Every variable has its type; the active transport is always one of m_transports, so that
\* safelyResetActiveTransportLocked() never meets its error; and these have not ended.
TypeOK ==
  /\ isEnabled \in BOOLEAN /\ executorEnds \in BOOLEAN
  /\ status \in Statuses
  /\ transports \subseteq Transports /\ active \in transports \cup {NoTransport}
  /\ tasks \in Seq(Tasks) /\ task \in Tasks \cup {Idle}
  /\ net \in [Transports -> NetThreads]
  /\ \A t \in transports : net[t].pc \notin {"absent", "failed", "ended"}
  /\ call \in [Clients -> CallStates]
  /\ calls \in 0 .. MaxCalls

\* A router that is not enabled is down, whatever was in progress when it was disabled: no
\* late onConnected() or onServerSideDisconnect(), and no change of the endpoint that let go
\* of the mutex, brings a connection back.
DisabledIsDown ==
  ~isEnabled => status = "DISCONNECTED" /\ active = NoTransport /\ transports = {}

\* The transports that the executor is to shut down.
Pending == {t \in Transports : Release(t) = task \/ \E i \in DOMAIN tasks : Release(t) = tasks[i]}

\* The transports whose shutdown() is still to be called, or in progress.
Held == transports \cup Pending \cup UNION {call[c].moved : c \in Clients}

\* "Hold a reference to a transport until its shutdown() method (executed on our executor)
\* returns" (MessageRouter.h): no transport with a network thread is lost before that thread
\* was joined, as long as the executor lives.
TransportsAreHeld ==
  ~executorEnds =>
    \A t \in Transports : NetAt(t, {"absent", "failed"}) \/ net[t].isShutdown \/ t \in Held

Life(t) == INSTANCE TransportLife WITH
  pc <- net[t].pc, isConnected <- net[t].isConnected, isStopping <- net[t].isStopping,
  isShutdown <- net[t].isShutdown

\* The transports of this module do what HTTP2Transport was shown to do (its ImplementsLife),
\* whatever the router does to them, several at a time and from two threads: what is checked
\* here of the router holds with the transport that is detailed there.
TransportsKeepLife ==
  /\ \A t \in Transports : Life(t)!Init
  /\ [][\A t \in Transports : [Life(t)!Next]_(net[t])]_net

\* Every call returns: a thread that joins the network threads does not keep them from calling
\* the router back, and the executor does not keep the clients waiting.
CallsReturn == \A c \in Clients : call[c] # NoCall ~> call[c] = NoCall

\* "When the MessageRouter is enabled, any disconnect should automatically trigger a reconnect
\* with AVS" (MessageRouter.h): when the active transport disconnects, another is created.
ReconnectsWhenEnabled ==
  [][\A t \in Transports :
       isEnabled /\ t = active /\ net[t].pc = "disconnecting" /\ net'[t].pc = "ended"
         => \E u \in Transports : net[u].pc = "absent" /\ net'[u].pc # "absent"]_vars
=============================================================================
