------------------------ MODULE HTTP2TransportProofs ------------------------
(***************************************************************************)
(* Proofs about HTTP2Transport.tla, for every set of requests and every    *)
(* size of the pool.  The invariants say, in this order:                   *)
(*                                                                         *)
(*   TypeInv, NetHolds, StreamsHold   types, and what the network thread   *)
(*     has at hand at each of its places;                                  *)
(*   EndsInv     who may still run when: before connect(), after the main  *)
(*     loop, after shutdown();                                             *)
(*   PlacesInv   where a message is;                                       *)
(*   FetchInv    what a fetch in progress waits for;                       *)
(*   LifeInv     what the router was told, and what it still has to hear.  *)
(*                                                                         *)
(* Each holds at first and in each step, given the ones before it.         *)
(***************************************************************************)
EXTENDS HTTP2Transport, TLAPS, FiniteSetTheorems

-----------------------------------------------------------------------------
(* Types *)

NetPcs ==
  {"none", "blocked", "establishing", "retrying", "looping", "cleanup", "excepted", "accepted",
   "postConnected", "telling", "joiningLoop", "outgoing", "ending", "clearing", "disconnecting",
   "leaving", "ended", "crashed"}

Abouts == {"none", "onConnected", "onServerSideDisconnect", "onDisconnected"}

\* The network thread tells the observers, or waits for one of them.
Telling == net.pc \in {"telling", "joiningLoop"}

\* It cleans up streams that have finished, or tells what became of one.
Cleaning ==
  \/ net.pc \in {"cleanup", "excepted", "accepted", "postConnected"}
  \/ Telling /\ net.about # "onDisconnected"

SyncType ==
  /\ sync \in [isStopping : BOOLEAN, isPostConnected : BOOLEAN, fetchInProgress : BOOLEAN,
               transport : BOOLEAN, observed : BOOLEAN]
  /\ loop \in {"none", "top", "checked", "fetch", "waiting", "exited"}
  /\ contexts \in Nat /\ callback \in {"none", "available", "failure", "sending"}

NetType ==
  /\ net \in [pc : NetPcs, finished : SUBSET (Messages \cup {Downchannel}), busy : BOOLEAN,
              tell : SUBSET {"router", "sync"}, about : Abouts]
  /\ heard \in Seq(Abouts)
  /\ observers \subseteq {"router", "sync"} /\ owner \in {"idle", "stopping", "joiningLoop", "joining", "done"}
  /\ isConnected \in BOOLEAN /\ isStopping \in BOOLEAN /\ disconnectedSent \in BOOLEAN

MessagesType ==
  /\ queue \in Seq(Messages)
  /\ streams \subseteq Messages \cup {Downchannel} /\ responded \subseteq streams
  /\ accepted \subseteq Messages /\ answers \in [Messages -> Nat] /\ lost \subseteq Messages

\* Streams that have finished are still in the set until they are cleaned up, and who is being
\* told is an observer.
NetHolds ==
  /\ net.finished \subseteq streams
  /\ net.finished # {} => Cleaning
  /\ net.pc = "excepted" => Event \in net.finished
  /\ net.pc = "establishing" => Downchannel \in streams
  /\ net.pc = "retrying" => Downchannel \in streams \/ isStopping
  /\ net.pc \in {"none", "blocked", "establishing", "retrying"} => responded = {}
  /\ net.tell \subseteq observers
  /\ ~Telling => net.tell = {}
  /\ Telling => net.about # "none"

StreamsHold == IsFiniteSet(streams) /\ Cardinality(streams) <= MaxStreams

TypeInv == SyncType /\ NetType /\ MessagesType

\* The members that are records are unchanged but for a place.
LEMMA SyncTypeStep == SyncType /\ [Next]_vars => SyncType'
<1> SUFFICES ASSUME SyncType, [Next]_vars PROVE SyncType'
  OBVIOUS
<1> USE DEF SyncType
<1>1. ASSUME UNCHANGED <<loop, contexts, callback>>,
             sync' \in {sync, Observed, DoPostConnect(Observed), Stopped, Forgotten, Accepted, NotAccepted}
      PROVE  SyncType'
  BY <1>1 DEF Observed, DoPostConnect, Stopped, Forgotten, Accepted, NotAccepted
<1>2. ASSUME NEW m \in Requests, Send(m) PROVE SyncType'
  BY <1>2 DEF Send, syncVars
<1>3. Connect => SyncType'
  BY DEF Connect, Observed, DoPostConnect
<1>4. BeginShutdown \/ Shuts => SyncType'
  BY <1>1 DEF BeginShutdown, Shuts, ShutdownSync, JoinLoop, JoinNetworkThread, Owner
<1>5. ASSUME NEW m \in Messages, MessageEnds(m) PROVE SyncType'
  BY <1>1, <1>5 DEF MessageEnds, MessageFinishes, MessageStalls, Refused, Completes, Network
<1>6. Established \/ NotEstablished \/ Retry \/ Perform \/ Stops \/ DownchannelFinishes => SyncType'
  BY DEF Established, NotEstablished, Retry, Perform, Stops, DownchannelFinishes, Network
<1>7. EventExcepted \/ EventFinishes => SyncType'
  BY <1>1 DEF EventExcepted, EventFinishes, Completes, Network
<1>8. CleanupEnds \/ AddHandleFails \/ SendsNothing \/ NotifyPostConnected \/ OnPostConnected \/ TellRouter
      \/ AllTold => SyncType'
  BY DEF CleanupEnds, AddHandleFails, SendsNothing, NotifyPostConnected, OnPostConnected, TellRouter, AllTold, Network
<1>9. SendsNext \/ ClearQueue => SyncType'
  BY <1>1 DEF SendsNext, ClearQueue, Refused, Network
<1>10. TellSync \/ SyncStopped => SyncType'
  BY <1>1 DEF TellSync, SyncStopped, Network
<1>11. LoopEnds \/ ReleaseAll \/ Disconnects \/ Leaves => SyncType'
  BY DEF LoopEnds, ReleaseAll, Disconnects, Leaves, Network
<1>12. PostConnectLoop => SyncType'
  <2>1. LoopStops \/ LoopGoesOn \/ LoopWakes => SyncType'
    BY DEF LoopStops, LoopGoesOn, LoopWakes
  <2>2. CASE LoopFetches
    <3>1. contexts' \in Nat
      BY <2>2 DEF LoopFetches
    <3> QED BY <2>2, <3>1 DEF LoopFetches
  <2> QED BY <2>1, <2>2 DEF PostConnectLoop
<1>13. ContextManagerAnswers => SyncType'
  <2>1. ASSUME NEW next \in {"available", "failure"}, ContextArrives(next) PROVE SyncType'
    <3>1. contexts' \in Nat
      BY <2>1 DEF ContextArrives
    <3> QED BY <2>1, <3>1 DEF ContextArrives
  <2>2. SwapTransport => SyncType'
    BY DEF SwapTransport
  <2>3. ContextFails => SyncType'
    BY <1>1 DEF ContextFails, NotAccepted
  <2> QED BY <2>1, <2>2, <2>3 DEF ContextManagerAnswers
<1>14. SendEvent => SyncType'
  BY DEF SendEvent
<1>15. UNCHANGED vars => SyncType'
  BY DEF vars, syncVars
<1> QED
  BY <1>2, <1>3, <1>4, <1>5, <1>6, <1>7, <1>8, <1>9, <1>10, <1>11, <1>12, <1>13, <1>14, <1>15
  DEF Next, NetworkThread, Synchronizer

LEMMA NetTypeStep == NetType /\ MessagesType /\ [Next]_vars => NetType'
<1> SUFFICES ASSUME NetType, MessagesType, [Next]_vars PROVE NetType'
  OBVIOUS
<1> USE DEF NetType, NetPcs, Abouts, flags, Network
<1>1. ASSUME NEW m \in Requests, Send(m) PROVE NetType'
  BY <1>1 DEF Send
<1>2. Connect => NetType'
  BY DEF Connect, Goes, records
<1>3. BeginShutdown \/ Shuts => NetType'
  BY DEF BeginShutdown, Shuts, ShutdownSync, JoinLoop, JoinNetworkThread, Owner, records
<1>4. Established \/ NotEstablished \/ Retry \/ Stops => NetType'
  BY DEF Established, NotEstablished, Retry, Stops, Goes
<1>5. CASE Perform
  <2>1. PICK finished \in SUBSET streams :
             net' = [net EXCEPT !.pc = "cleanup", !.finished = finished, !.busy = finished # streams]
    BY <1>5 DEF Perform
  <2> QED BY <1>5, <2>1 DEF Perform, MessagesType
<1>6. CASE DownchannelFinishes
  <2>1. PICK n : n = [net EXCEPT !.finished = @ \ {Downchannel}]
    OBVIOUS
  <2>2. net' \in {n, [n EXCEPT !.pc = "telling", !.tell = observers, !.about = "onServerSideDisconnect"]}
    BY <1>6, <2>1 DEF DownchannelFinishes
  <2> QED BY <1>6, <2>1, <2>2 DEF DownchannelFinishes
<1>7. ASSUME NEW m \in Messages, MessageEnds(m) PROVE NetType'
  BY <1>7 DEF MessageEnds, MessageFinishes, MessageStalls, Completes
<1>8. EventExcepted \/ EventFinishes => NetType'
  BY DEF EventExcepted, EventFinishes, Completes, Goes
<1>9. CleanupEnds \/ SendsNext \/ AddHandleFails \/ SendsNothing \/ NotifyPostConnected => NetType'
  BY DEF CleanupEnds, SendsNext, AddHandleFails, SendsNothing, NotifyPostConnected, Goes
<1>10. OnPostConnected => NetType'
  BY DEF OnPostConnected, Goes, Tells
<1>11. CASE TellRouter
  <2>1. heard' \in Seq(Abouts)
    BY <1>11 DEF TellRouter
  <2> QED BY <1>11, <2>1 DEF TellRouter
<1>12. TellSync \/ SyncStopped \/ AllTold => NetType'
  BY DEF TellSync, SyncStopped, AllTold, Told, Goes
<1>13. LoopEnds \/ ReleaseAll \/ ClearQueue \/ Leaves => NetType'
  BY DEF LoopEnds, ReleaseAll, ClearQueue, Leaves, Goes
<1>14. Disconnects => NetType'
  BY DEF Disconnects, Goes, Tells
<1>15. Synchronizer => NetType'
  BY DEF Synchronizer, SendEvent, Elsewhere, records
<1>16. UNCHANGED vars => NetType'
  BY DEF vars, records
<1> QED
  BY <1>1, <1>2, <1>3, <1>4, <1>5, <1>6, <1>7, <1>8, <1>9, <1>10, <1>11, <1>12, <1>13, <1>14,
     <1>15, <1>16
  DEF Next, NetworkThread

\* What is appended to a queue, and taken from it.
LEMMA QueueTypes ==
  ASSUME NEW q \in Seq(Messages)
  PROVE  /\ \A m \in Messages : Append(q, m) \in Seq(Messages)
         /\ q # << >> => Head(q) \in Messages /\ Tail(q) \in Seq(Messages)
OBVIOUS

LEMMA MessagesTypeStep == NetType /\ MessagesType /\ NetHolds /\ [Next]_vars => MessagesType'
<1> SUFFICES ASSUME NetType, MessagesType, NetHolds, [Next]_vars PROVE MessagesType'
  OBVIOUS
<1> USE DEF MessagesType, Network
<1>0. Event \in Messages
  BY DEF Messages
<1>1. \A m \in Messages : Answered(m) \in [Messages -> Nat]
  BY DEF Answered
<1>2. ASSUME NEW m \in Messages, Enqueue(m) PROVE queue' \in Seq(Messages) /\ accepted' \subseteq Messages /\ answers' \in [Messages -> Nat]
  BY <1>1, <1>2, QueueTypes DEF Enqueue
<1>3. ASSUME NEW m \in Requests, Send(m) PROVE MessagesType'
  BY <1>2, <1>3 DEF Send, Messages
<1>4. SendEvent => MessagesType'
  BY <1>0, <1>2 DEF SendEvent
<1>5. Connect => MessagesType'
  BY DEF Connect, records, NetHolds, At
<1>6. BeginShutdown \/ Shuts => MessagesType'
  BY DEF BeginShutdown, Shuts, ShutdownSync, JoinLoop, JoinNetworkThread, Owner, records
<1>7. Established \/ NotEstablished \/ Retry \/ Stops => MessagesType'
  BY DEF Established, NotEstablished, Retry, Stops, At, NetHolds
<1>8. Perform => MessagesType'
  BY DEF Perform
<1>9. DownchannelFinishes => MessagesType'
  BY DEF DownchannelFinishes
<1>10. ASSUME NEW m \in Messages, Completes(m) PROVE MessagesType'
  BY <1>1, <1>10 DEF Completes, Released
<1>11. ASSUME NEW m \in Messages, MessageEnds(m) PROVE MessagesType'
  BY <1>10, <1>11 DEF MessageEnds, MessageFinishes, MessageStalls
<1>12. EventExcepted \/ EventFinishes => MessagesType'
  BY <1>0, <1>10 DEF EventExcepted, EventFinishes
<1>13. CleanupEnds \/ SendsNothing \/ NotifyPostConnected \/ OnPostConnected \/ TellRouter
       \/ TellSync \/ SyncStopped \/ AllTold \/ LoopEnds \/ Leaves \/ Disconnects => MessagesType'
  BY DEF CleanupEnds, SendsNothing, NotifyPostConnected, OnPostConnected, TellRouter,
         TellSync, SyncStopped, AllTold, LoopEnds, Leaves, Disconnects
<1>14. SendsNext \/ AddHandleFails => MessagesType'
  BY <1>1, QueueTypes DEF SendsNext, AddHandleFails, Outgoing
<1>15. ReleaseAll => MessagesType'
  BY DEF ReleaseAll
<1>16. ClearQueue => MessagesType'
  BY DEF ClearQueue
<1>17. UNCHANGED <<queue, streams, responded, records>> => MessagesType'
  BY DEF records
<1>18. Synchronizer => MessagesType'
  BY <1>4, <1>17 DEF Synchronizer, Elsewhere
<1>19. UNCHANGED vars => MessagesType'
  BY <1>17 DEF vars
<1> QED
  BY <1>3, <1>5, <1>6, <1>7, <1>8, <1>9, <1>11, <1>12, <1>13, <1>14, <1>15, <1>16, <1>18, <1>19
  DEF Next, NetworkThread

LEMMA NetHoldsStep ==
  ASSUME NetType, MessagesType, NetHolds, [Next]_vars
  PROVE  NetHolds'
<1> USE DEF NetHolds, Network, Cleaning, Telling, At
<1>0. net \in [pc : NetPcs, finished : SUBSET (Messages \cup {Downchannel}), busy : BOOLEAN,
               tell : SUBSET {"router", "sync"}, about : Abouts]
  BY DEF NetType
<1>1. ASSUME UNCHANGED <<observers, net, streams, responded>>, isStopping => isStopping' PROVE NetHolds'
  BY <1>1
<1>2. ASSUME NEW m \in Requests, Send(m) PROVE NetHolds'
  BY <1>1, <1>2 DEF Send, flags
<1>3. Connect => NetHolds'
  BY <1>0, <1>1 DEF Connect, Goes, records
<1>4. BeginShutdown \/ ShutdownSync \/ JoinLoop => NetHolds'
  BY <1>1 DEF BeginShutdown, ShutdownSync, JoinLoop, Owner
<1>5. JoinNetworkThread => NetHolds'
  BY DEF JoinNetworkThread, Owner
<1>6. Established => NetHolds'
  BY <1>0 DEF Established, Goes, flags
<1>7. NotEstablished => NetHolds'
  BY <1>0 DEF NotEstablished, Goes
<1>8. Retry => NetHolds'
  BY <1>0 DEF Retry, Goes, flags
<1>9. Perform => NetHolds'
  <2> SUFFICES ASSUME Perform PROVE NetHolds'
    OBVIOUS
  <2>1. PICK finished \in SUBSET streams :
             net' = [net EXCEPT !.pc = "cleanup", !.finished = finished, !.busy = finished # streams]
    BY DEF Perform
  <2> QED BY <1>0, <2>1 DEF Perform
<1>10. Stops => NetHolds'
  BY DEF Stops
<1>11. CASE DownchannelFinishes
  <2>1. PICK n : n = [net EXCEPT !.finished = @ \ {Downchannel}]
    OBVIOUS
  <2>2. net' = n \/ net' = [n EXCEPT !.pc = "telling", !.tell = observers, !.about = "onServerSideDisconnect"]
    BY <1>11, <2>1 DEF DownchannelFinishes
  <2> QED BY <1>0, <1>11, <2>1, <2>2 DEF DownchannelFinishes, NetType
<1>12. ASSUME NEW m \in Messages, MessageEnds(m) PROVE NetHolds'
  BY <1>0, <1>12 DEF MessageEnds, MessageFinishes, MessageStalls, Completes, Released, flags
<1>13. EventExcepted => NetHolds'
  BY <1>0 DEF EventExcepted, Goes, flags
<1>14. CASE EventFinishes
  <2>1. PICK f : f = net.finished \ {Event}
    OBVIOUS
  <2>2. net' = [net EXCEPT !.finished = f, !.pc = "accepted"] \/ net' = [net EXCEPT !.finished = f, !.pc = "cleanup"]
    BY <1>14, <2>1 DEF EventFinishes
  <2>3. net'.finished = f /\ net'.pc \in {"accepted", "cleanup"} /\ net'.tell = {}
    BY <1>0, <1>14, <2>2 DEF EventFinishes
  <2>4. streams' = streams \ {Event} /\ observers' = observers
    BY <1>14 DEF EventFinishes, Completes, Released
  <2> QED BY <2>1, <2>3, <2>4
<1>15. CleanupEnds \/ SendsNothing \/ NotifyPostConnected => NetHolds'
  BY <1>0 DEF CleanupEnds, SendsNothing, NotifyPostConnected, Goes, flags
<1>16. SendsNext \/ AddHandleFails => NetHolds'
  BY <1>0 DEF SendsNext, AddHandleFails, Goes, flags
<1>17. OnPostConnected => NetHolds'
  BY <1>0 DEF OnPostConnected, Goes, Tells
<1>18. TellRouter => NetHolds'
  BY <1>0 DEF TellRouter, flags
<1>19. TellSync \/ SyncStopped => NetHolds'
  BY <1>0 DEF TellSync, SyncStopped, Told, Goes, flags
<1>20. AllTold => NetHolds'
  BY <1>0 DEF AllTold, Goes, flags
<1>21. LoopEnds \/ ReleaseAll \/ ClearQueue \/ Leaves => NetHolds'
  BY <1>0 DEF LoopEnds, ReleaseAll, ClearQueue, Leaves, Goes, flags
<1>22. Disconnects => NetHolds'
  BY <1>0 DEF Disconnects, Goes, Tells
<1>23. Synchronizer => NetHolds'
  BY <1>1 DEF Synchronizer, SendEvent, Elsewhere, flags
<1>24. UNCHANGED vars => NetHolds'
  BY <1>1 DEF vars, flags
<1> QED
  BY <1>2, <1>3, <1>4, <1>5, <1>6, <1>7, <1>8, <1>9, <1>10, <1>11, <1>12, <1>13, <1>14, <1>15,
     <1>16, <1>17, <1>18, <1>19, <1>20, <1>21, <1>22, <1>23, <1>24
  DEF Next, NetworkThread, Shuts

\* Streams are taken from the pool only while one is free.
LEMMA StreamsHoldStep ==
  ASSUME MessagesType, StreamsHold, [Next]_vars
  PROVE  StreamsHold'
<1> USE DEF Network
<1>1. ASSUME streams' \subseteq streams PROVE StreamsHold'
  <2>1. IsFiniteSet(streams') /\ Cardinality(streams') <= Cardinality(streams)
    BY <1>1, FS_Subset DEF StreamsHold
  <2>2. Cardinality(streams') \in Nat /\ Cardinality(streams) \in Nat /\ MaxStreams \in Nat
    BY <2>1, FS_CardinalityType, StreamsAssumption DEF StreamsHold
  <2> QED BY <2>1, <2>2 DEF StreamsHold
<1>2. ASSUME NEW m \in Requests, Send(m) PROVE streams' = streams
  BY <1>2 DEF Send
<1>3. CASE Connect
  <2>1. IsFiniteSet({Downchannel}) /\ Cardinality({Downchannel}) = 1
    BY FS_Singleton
  <2>2. streams' = streams \/ streams' = {Downchannel}
    BY <1>3 DEF Connect
  <2> QED BY <1>1, <2>1, <2>2, StreamsAssumption DEF StreamsHold
<1>4. BeginShutdown \/ Shuts => streams' = streams
  BY DEF BeginShutdown, Shuts, ShutdownSync, JoinLoop, JoinNetworkThread, Owner
<1>5. Established \/ NotEstablished \/ Retry \/ Perform \/ Stops \/ DownchannelFinishes => streams' \subseteq streams
  BY DEF Established, NotEstablished, Retry, Perform, Stops, DownchannelFinishes
<1>6. ASSUME NEW m \in Messages, MessageEnds(m) PROVE streams' \subseteq streams
  BY <1>6 DEF MessageEnds, MessageFinishes, MessageStalls, Completes, Released
<1>7. EventExcepted \/ EventFinishes => streams' \subseteq streams
  BY DEF EventExcepted, EventFinishes, Completes, Released
<1>8. CleanupEnds \/ AddHandleFails \/ SendsNothing \/ NotifyPostConnected \/ OnPostConnected \/ TellRouter
      \/ TellSync \/ SyncStopped \/ AllTold \/ LoopEnds \/ ReleaseAll \/ ClearQueue \/ Leaves
      \/ Disconnects => streams' \subseteq streams
  BY DEF CleanupEnds, AddHandleFails, SendsNothing, NotifyPostConnected, OnPostConnected, TellRouter,
         TellSync, SyncStopped, AllTold, LoopEnds, ReleaseAll, ClearQueue, Leaves, Disconnects
<1>9. CASE SendsNext
  <2>1. CASE streams' = streams
    BY <1>1, <2>1
  <2>2. CASE StreamFree /\ streams' = streams \cup {Head(queue)}
    <3>1. /\ IsFiniteSet(streams \cup {Head(queue)})
          /\ Cardinality(streams \cup {Head(queue)})
               = IF Head(queue) \in streams THEN Cardinality(streams) ELSE Cardinality(streams) + 1
      BY FS_AddElement DEF StreamsHold
    <3>2. Cardinality(streams) \in Nat /\ MaxStreams \in Nat /\ Cardinality(streams) < MaxStreams
      BY <2>2, FS_CardinalityType, StreamsAssumption DEF StreamsHold, StreamFree
    <3> QED BY <2>2, <3>1, <3>2 DEF StreamsHold
  <2> QED BY <1>9, <2>1, <2>2 DEF SendsNext
<1>10. Synchronizer => streams' = streams
  BY DEF Synchronizer, SendEvent, Elsewhere
<1>11. UNCHANGED vars => streams' = streams
  BY DEF vars
<1> QED
  BY <1>1, <1>2, <1>3, <1>4, <1>5, <1>6, <1>7, <1>8, <1>9, <1>10, <1>11 DEF Next, NetworkThread

LEMMA TypeInit == Init => TypeInv /\ NetHolds /\ StreamsHold
<1> SUFFICES ASSUME Init PROVE TypeInv /\ NetHolds /\ StreamsHold
  OBVIOUS
<1>1. SyncType
  BY DEF Init, SyncInit, SyncType
<1>2. NetType
  <2>1. net \in [pc : NetPcs, finished : SUBSET (Messages \cup {Downchannel}), busy : BOOLEAN,
                  tell : SUBSET {"router", "sync"}, about : Abouts]
    BY DEF Init, NoThread, NetPcs, Abouts
  <2>2. heard \in Seq(Abouts)
    BY DEF Init
  <2> QED BY <2>1, <2>2 DEF Init, NetType
<1>3. MessagesType
  BY DEF Init, MessagesType, Messages
<1>4. NetHolds
  BY DEF Init, NoThread, NetHolds, Telling
<1>5. StreamsHold
  BY FS_EmptySet, StreamsAssumption DEF Init, StreamsHold
<1> QED BY <1>1, <1>2, <1>3, <1>4, <1>5 DEF TypeInv

LEMMA TypeStep ==
  TypeInv /\ NetHolds /\ StreamsHold /\ [Next]_vars => TypeInv' /\ NetHolds' /\ StreamsHold'
BY SyncTypeStep, NetTypeStep, MessagesTypeStep, NetHoldsStep, StreamsHoldStep DEF TypeInv

\* For every set of messages and size of the pool, every variable has its type, no more streams
\* are active than the pool has, and what has finished or has a response is an active stream.
THEOREM TypeCorrect == Spec => []TypeOK
<1>1. TypeInv /\ NetHolds /\ StreamsHold => TypeOK
  BY DEF TypeInv, SyncType, NetType, MessagesType, NetHolds, StreamsHold, TypeOK
<1> QED BY TypeInit, TypeStep, <1>1, PTL DEF Spec

-----------------------------------------------------------------------------
(* The owner and the network thread *)

\* The network thread has done its work, but for telling that the connection is gone.
Over ==
  \/ net.pc \in {"clearing", "disconnecting", "leaving", "ended"}
  \/ Telling /\ net.about = "onDisconnected"

\* The owner stops the transport before it joins the threads, and joins them before it returns;
\* the synchronizer is not shut down before the transport stops or the network thread runs.
OwnerInv ==
  /\ owner # "idle" => isStopping
  /\ owner = "done" => net.pc \in {"none", "ended"}
  /\ owner # "done" => "router" \in observers
  /\ At("none") /\ sync.isStopping => isStopping

\* Before connect() has started the network thread nothing has happened.
FreshInv ==
  At("none") =>
    /\ loop = "none" /\ contexts = 0 /\ callback = "none"
    /\ accepted = {} /\ streams = {} /\ heard = << >>
    /\ ~isConnected /\ ~disconnectedSent /\ net.about = "none"
    /\ ~sync.transport /\ ~sync.fetchInProgress

\* When the network thread is done the transport is stopping and no stream is active; a message is
\* dropped only by a transport that stops, or with the process.
OverInv ==
  /\ Over => isStopping /\ streams = {}
  /\ lost # {} => isStopping \/ At("crashed")

EndsInv == OwnerInv /\ FreshInv /\ OverInv /\ ~At("blocked")

\* The network thread runs from connect() to its end, and changes nothing of the owner's.
LEMMA NetworkThreadRuns ==
  ASSUME NetType, NetworkThread \/ Stops
  PROVE  /\ net.pc \notin {"none", "blocked", "ended"} /\ net'.pc \notin {"none", "blocked"}
         /\ UNCHANGED <<owner, observers, accepted>>
         /\ isStopping => isStopping'
<1> DEFINE Goal == /\ net.pc \notin {"none", "blocked", "ended"} /\ net'.pc \notin {"none", "blocked"}
                   /\ UNCHANGED <<owner, observers, accepted>>
                   /\ isStopping => isStopping'
<1> USE DEF Network, At, flags
<1>0. net \in [pc : NetPcs, finished : SUBSET (Messages \cup {Downchannel}), busy : BOOLEAN,
               tell : SUBSET {"router", "sync"}, about : Abouts]
  BY DEF NetType
<1>1. Established \/ NotEstablished \/ Retry \/ Stops => Goal
  BY <1>0 DEF Established, NotEstablished, Retry, Stops, Goes
<1>2. CASE Perform
  <2>1. PICK finished \in SUBSET streams :
             net' = [net EXCEPT !.pc = "cleanup", !.finished = finished, !.busy = finished # streams]
    BY <1>2 DEF Perform
  <2> QED BY <1>0, <1>2, <2>1 DEF Perform
<1>3. CASE DownchannelFinishes
  <2>1. PICK n : n = [net EXCEPT !.finished = @ \ {Downchannel}]
    OBVIOUS
  <2>2. net' = n \/ net' = [n EXCEPT !.pc = "telling", !.tell = observers, !.about = "onServerSideDisconnect"]
    BY <1>3, <2>1 DEF DownchannelFinishes
  <2> QED BY <1>0, <1>3, <2>1, <2>2 DEF DownchannelFinishes
<1>4. ASSUME NEW m \in Messages, MessageEnds(m) PROVE Goal
  BY <1>0, <1>4 DEF MessageEnds, MessageFinishes, MessageStalls, Completes
<1>5. EventExcepted \/ EventFinishes => Goal
  <2>1. EventExcepted => Goal
    BY <1>0 DEF EventExcepted, Goes
  <2>2. EventFinishes => net.pc \in {"cleanup", "excepted"} /\ net'.pc \in {"accepted", "cleanup"}
    BY <1>0 DEF EventFinishes
  <2>3. EventFinishes => UNCHANGED <<owner, observers, accepted, isStopping>>
    BY DEF EventFinishes, Completes
  <2> QED BY <2>1, <2>2, <2>3
<1>6. CleanupEnds \/ SendsNext \/ AddHandleFails \/ SendsNothing \/ NotifyPostConnected => Goal
  BY <1>0 DEF CleanupEnds, SendsNext, AddHandleFails, SendsNothing, NotifyPostConnected, Goes
<1>7. OnPostConnected \/ Disconnects => Goal
  <2>1. OnPostConnected => net.pc = "postConnected" /\ net'.pc \in {"cleanup", "telling"}
    BY <1>0 DEF OnPostConnected, Goes, Tells
  <2>2. Disconnects => net.pc = "disconnecting" /\ net'.pc \in {"leaving", "telling"}
    BY <1>0 DEF Disconnects, Goes, Tells
  <2>3. OnPostConnected \/ Disconnects => UNCHANGED <<owner, observers, accepted, isStopping>>
    BY DEF OnPostConnected, Disconnects
  <2> QED BY <2>1, <2>2, <2>3
<1>8. TellRouter \/ TellSync \/ SyncStopped \/ AllTold => Goal
  <2>1. TellRouter \/ TellSync => net.pc = "telling" /\ net'.pc \in {"telling", "joiningLoop"}
    BY <1>0 DEF TellRouter, TellSync, Told, Goes
  <2>2. SyncStopped => net.pc = "joiningLoop" /\ net'.pc = "telling"
    BY <1>0 DEF SyncStopped, Told
  <2>3. AllTold => net.pc = "telling" /\ net'.pc \in {"leaving", "cleanup"}
    BY <1>0 DEF AllTold, Goes
  <2>4. TellRouter \/ TellSync \/ SyncStopped \/ AllTold => UNCHANGED <<owner, observers, accepted, isStopping>>
    BY DEF TellRouter, TellSync, SyncStopped, AllTold
  <2> QED BY <2>1, <2>2, <2>3, <2>4
<1>9. LoopEnds \/ ReleaseAll \/ ClearQueue \/ Leaves => Goal
  BY <1>0 DEF LoopEnds, ReleaseAll, ClearQueue, Leaves, Goes
<1> QED BY <1>1, <1>2, <1>3, <1>4, <1>5, <1>6, <1>7, <1>8, <1>9 DEF NetworkThread

\* The synchronizer's threads: as far as the transport is concerned an event may be queued.
LEMMA SynchronizerRuns ==
  ASSUME SyncType, Synchronizer
  PROVE  /\ UNCHANGED <<flags, observers, net, streams, responded, owner, lost, heard>>
         /\ sync'.isStopping = sync.isStopping /\ sync'.observed = sync.observed
         /\ sync'.isPostConnected = sync.isPostConnected
         /\ loop # "none" \/ contexts # 0 \/ callback # "none"
<1>1. PostConnectLoop => /\ sync'.isStopping = sync.isStopping /\ sync'.observed = sync.observed
                         /\ sync'.isPostConnected = sync.isPostConnected /\ loop # "none"
  BY DEF SyncType, PostConnectLoop, LoopStops, LoopGoesOn, LoopFetches, LoopWakes
<1>2. ContextManagerAnswers => /\ sync'.isStopping = sync.isStopping /\ sync'.observed = sync.observed
                               /\ sync'.isPostConnected = sync.isPostConnected
                               /\ contexts # 0 \/ callback # "none"
  BY DEF SyncType, ContextManagerAnswers, ContextArrives, SwapTransport, ContextFails, NotAccepted
<1>3. SendEvent => sync' = sync /\ callback # "none"
  BY DEF SendEvent
<1> QED BY <1>1, <1>2, <1>3 DEF Synchronizer, SendEvent, Elsewhere, records

LEMMA OwnerStep ==
  ASSUME TypeInv, EndsInv, [Next]_vars
  PROVE  OwnerInv' /\ ~At("blocked")'
<1> DEFINE Goal == OwnerInv' /\ ~At("blocked")'
<1> USE DEF OwnerInv, At
<1>0. OwnerInv /\ net.pc # "blocked" /\ NetType /\ SyncType
  BY DEF EndsInv, TypeInv
<1>1. ASSUME UNCHANGED <<owner, isStopping, observers, net>>, sync'.isStopping = sync.isStopping PROVE Goal
  BY <1>0, <1>1
<1>2. ASSUME NEW m \in Requests, Send(m) PROVE Goal
  BY <1>1, <1>2 DEF Send, syncVars, flags
<1>3. CASE Connect
  <2>1. PostConnectable
    BY <1>0, <1>3 DEF Connect, PostConnectable, EndsInv, FreshInv
  <2>2. \/ sync' = Observed /\ net' = net /\ observers' = observers
        \/ net' = [net EXCEPT !.pc = "establishing"] /\ observers' = observers \cup {"sync"}
    BY <1>3, <2>1 DEF Connect, Goes
  <2>3. sync'.isStopping = sync.isStopping \/ net'.pc = "establishing"
    BY <1>0, <2>2 DEF Observed, SyncType, NetType
  <2>4. net'.pc \in {net.pc, "establishing"}
    BY <1>0, <2>2 DEF NetType
  <2>5. UNCHANGED <<owner, isStopping>> /\ ~isStopping /\ net.pc = "none"
    BY <1>3 DEF Connect, flags
  <2> QED BY <1>0, <2>2, <2>3, <2>4, <2>5
<1>4. BeginShutdown => Goal
  BY <1>0 DEF BeginShutdown, Owner
<1>5. ShutdownSync \/ JoinLoop => Goal
  BY <1>0 DEF ShutdownSync, JoinLoop, Owner, Forgotten, SyncType
<1>6. JoinNetworkThread => Goal
  BY <1>0 DEF JoinNetworkThread, Owner
<1>7. NetworkThread \/ Stops => Goal
  BY <1>0, NetworkThreadRuns
<1>8. Synchronizer => Goal
  BY <1>0, <1>1, SynchronizerRuns DEF flags
<1>9. UNCHANGED vars => Goal
  BY <1>1 DEF vars, syncVars, flags
<1> QED BY <1>2, <1>3, <1>4, <1>5, <1>6, <1>7, <1>8, <1>9 DEF Next, Shuts

LEMMA FreshStep ==
  ASSUME TypeInv, EndsInv, [Next]_vars
  PROVE  FreshInv'
<1> SUFFICES ASSUME At("none")' PROVE FreshInv'
  BY DEF FreshInv
<1> USE DEF FreshInv, At
<1>0. NetType /\ SyncType /\ FreshInv
  BY DEF EndsInv, TypeInv
<1>1. ASSUME UNCHANGED <<syncVars, flags, net, streams, accepted, heard>> PROVE FreshInv'
  BY <1>0, <1>1 DEF syncVars, flags
<1>2. ASSUME NEW m \in Requests, Send(m) PROVE FreshInv'
  <2>1. m # Event /\ net' = net /\ UNCHANGED <<syncVars, flags, net, streams, heard>>
    BY <1>2, StreamsAssumption DEF Send
  <2>2. accepted' = accepted
    BY <1>0, <1>2, <2>1 DEF Send, Enqueue, Enqueueable
  <2> QED BY <1>1, <2>1, <2>2
<1>3. CASE Connect
  <2>1. sync' = Observed /\ UNCHANGED <<loop, net, streams>>
    BY <1>0, <1>3 DEF Connect, Goes, NetType
  <2>2. ~sync'.transport <=> ~sync.transport
    BY <1>0, <2>1 DEF Observed, SyncType
  <2>3. ~sync'.fetchInProgress <=> ~sync.fetchInProgress
    BY <1>0, <2>1 DEF Observed, SyncType
  <2> QED BY <1>0, <1>3, <2>1, <2>2, <2>3 DEF Connect, flags, records
<1>4. BeginShutdown \/ JoinNetworkThread => FreshInv'
  BY <1>0 DEF BeginShutdown, JoinNetworkThread, Owner, records
<1>5. CASE ShutdownSync \/ JoinLoop
  <2>1. sync' \in {sync, Stopped, Forgotten}
    BY <1>5 DEF ShutdownSync, JoinLoop
  <2>2. (~sync.transport => ~sync'.transport) /\ sync'.fetchInProgress = sync.fetchInProgress
    BY <1>0, <2>1 DEF Stopped, Forgotten, SyncType
  <2> QED BY <1>0, <1>5, <2>2 DEF ShutdownSync, JoinLoop, Owner, records
<1>6. NetworkThread \/ Stops => FALSE
  BY <1>0, NetworkThreadRuns
<1>7. Synchronizer => FALSE
  BY <1>0, SynchronizerRuns
<1>8. UNCHANGED vars => FreshInv'
  BY <1>1 DEF vars, records
<1> QED BY <1>2, <1>3, <1>4, <1>5, <1>6, <1>7, <1>8 DEF Next, Shuts

LEMMA OverStep ==
  ASSUME TypeInv, EndsInv, [Next]_vars
  PROVE  OverInv'
<1> USE DEF OverInv, Over, Telling, At, Network, flags
<1>0. /\ OverInv /\ isStopping \in BOOLEAN
      /\ net \in [pc : NetPcs, finished : SUBSET (Messages \cup {Downchannel}), busy : BOOLEAN,
                  tell : SUBSET {"router", "sync"}, about : Abouts]
  BY DEF EndsInv, TypeInv, NetType
<1>1. ASSUME isStopping => isStopping', lost' = lost, Over' => Over /\ streams' \subseteq streams,
             net.pc = "crashed" => net'.pc = "crashed"
      PROVE  OverInv'
  BY <1>0, <1>1
<1>2. ASSUME isStopping => isStopping', lost' = lost, ~Over', net.pc # "crashed" PROVE OverInv'
  BY <1>1, <1>2
<1>3. ASSUME NEW m \in Requests, Send(m) PROVE OverInv'
  BY <1>1, <1>3 DEF Send
<1>4. CASE Connect
  <2>1. net.pc = "none" /\ (net' = net \/ net'.pc \in {"establishing", "blocked"})
    BY <1>0, <1>4 DEF Connect, Goes
  <2> QED BY <1>2, <1>4, <2>1 DEF Connect, records
<1>5. BeginShutdown \/ Shuts => OverInv'
  BY <1>1 DEF BeginShutdown, Shuts, ShutdownSync, JoinLoop, JoinNetworkThread, Owner, records
<1>6. Established \/ NotEstablished \/ Retry \/ Stops => OverInv'
  BY <1>0, <1>2 DEF Established, NotEstablished, Retry, Stops, Goes
<1>7. CASE Perform
  <2>1. PICK finished \in SUBSET streams :
             net' = [net EXCEPT !.pc = "cleanup", !.finished = finished, !.busy = finished # streams]
    BY <1>7 DEF Perform
  <2>2. net'.pc = "cleanup"
    BY <1>0, <2>1
  <2> QED BY <1>2, <1>7, <2>2 DEF Perform
<1>8. CASE DownchannelFinishes
  <2>1. PICK n : n = [net EXCEPT !.finished = @ \ {Downchannel}]
    OBVIOUS
  <2>2. net' = n \/ net' = [n EXCEPT !.pc = "telling", !.tell = observers, !.about = "onServerSideDisconnect"]
    BY <1>8, <2>1 DEF DownchannelFinishes
  <2>3. /\ n.pc = "cleanup"
        /\ [n EXCEPT !.pc = "telling", !.tell = observers, !.about = "onServerSideDisconnect"].pc = "telling"
        /\ [n EXCEPT !.pc = "telling", !.tell = observers, !.about = "onServerSideDisconnect"].about
             = "onServerSideDisconnect"
    BY <1>0, <1>8, <2>1 DEF DownchannelFinishes
  <2>4. ~Over'
    BY <2>2, <2>3
  <2> QED BY <1>2, <1>8, <2>4 DEF DownchannelFinishes
<1>9. ASSUME NEW m \in Messages, MessageEnds(m) PROVE OverInv'
  <2>1. net'.pc = "cleanup"
    BY <1>0, <1>9 DEF MessageEnds, MessageFinishes, MessageStalls
  <2> QED BY <1>2, <1>9, <2>1 DEF MessageEnds, MessageFinishes, MessageStalls, Completes
<1>10. CASE EventExcepted \/ EventFinishes
  <2>1. net'.pc \in {"excepted", "accepted", "cleanup"}
    BY <1>0, <1>10 DEF EventExcepted, EventFinishes, Goes
  <2> QED BY <1>2, <1>10, <2>1 DEF EventExcepted, EventFinishes, Completes
<1>11. CleanupEnds \/ SendsNext \/ SendsNothing \/ NotifyPostConnected \/ LoopEnds => OverInv'
  BY <1>0, <1>2 DEF CleanupEnds, SendsNext, SendsNothing, NotifyPostConnected, LoopEnds, Goes
<1>20. CASE AddHandleFails
  <2>1. net'.pc = "crashed" /\ isStopping' = isStopping
    BY <1>0, <1>20 DEF AddHandleFails, Goes
  <2> QED BY <2>1
<1>12. CASE OnPostConnected
  <2>1. Goes("cleanup") => net'.pc = "cleanup"
    BY <1>0 DEF Goes
  <2>2. Tells("onConnected") => net'.pc = "telling" /\ net'.about = "onConnected"
    BY <1>0 DEF Tells
  <2>3. Goes("cleanup") \/ Tells("onConnected")
    BY <1>12 DEF OnPostConnected
  <2>4. ~Over'
    BY <2>1, <2>2, <2>3
  <2> QED BY <1>2, <1>12, <2>4 DEF OnPostConnected
<1>13. CASE TellRouter \/ TellSync \/ SyncStopped
  <2>1. net.pc \in {"telling", "joiningLoop"} /\ net'.pc \in {"telling", "joiningLoop"} /\ net'.about = net.about
    BY <1>0, <1>13 DEF TellRouter, TellSync, SyncStopped, Told, Goes
  <2>2. Over' => Over
    BY <2>1
  <2> QED BY <1>1, <1>13, <2>2 DEF TellRouter, TellSync, SyncStopped
<1>14. CASE AllTold
  <2>1. Over' => Over
    BY <1>0, <1>14 DEF AllTold, Goes
  <2> QED BY <1>1, <1>14, <2>1 DEF AllTold
<1>15. ReleaseAll => OverInv'
  BY DEF ReleaseAll
<1>16. ClearQueue \/ Leaves => OverInv'
  BY <1>0, <1>1 DEF ClearQueue, Leaves, Goes
<1>17. Disconnects => OverInv'
  BY <1>1 DEF Disconnects
<1>18. Synchronizer => OverInv'
  BY <1>1, SynchronizerRuns DEF TypeInv
<1>19. UNCHANGED vars => OverInv'
  BY <1>1 DEF vars, records
<1> QED
  BY <1>3, <1>4, <1>5, <1>6, <1>7, <1>8, <1>9, <1>10, <1>11, <1>12, <1>13, <1>14, <1>15, <1>16,
     <1>17, <1>18, <1>19, <1>20 DEF Next, NetworkThread

LEMMA EndsInit == Init => EndsInv
BY DEF Init, SyncInit, NoThread, EndsInv, OwnerInv, FreshInv, OverInv, Over, Telling, At

LEMMA EndsStep == TypeInv /\ EndsInv /\ [Next]_vars => EndsInv'
BY OwnerStep, FreshStep, OverStep DEF EndsInv

\* connect() never waits for itself, for any messages and pool: the synchronizer refuses
\* doPostConnect() only when it is shut down, which is after the transport began to stop.
THEOREM ConnectGoesOn == Spec => []ConnectNeverBlocks
<1>1. EndsInv => ConnectNeverBlocks
  BY DEF EndsInv, ConnectNeverBlocks
<1> QED BY <1>1, TypeInit, TypeStep, EndsInit, EndsStep, PTL DEF Spec

-----------------------------------------------------------------------------
(* Where a message is *)

InQueue == ToSet(queue)
NoRepeats(q) == \A i, j \in DOMAIN q : q[i] = q[j] => i = j

\* The messages that were answered.
Done == {m \in Messages : answers[m] = 1}

\* A message is at one place, which it has to be accepted for; the event is accepted once,
\* because the transport, which it is sent with, is taken once.
PlacesInv ==
  /\ NoRepeats(queue) /\ answers \in [Messages -> {0, 1}]
  /\ InQueue \cap (streams \cup lost) = {} /\ streams \cap lost = {}
  /\ (InQueue \cup streams \cup lost) \cap Done = {}
  /\ accepted = ((InQueue \cup streams \cup lost) \ {Downchannel}) \cup (Done \cap accepted)
  /\ Event \in Done => Event \in accepted
  /\ sync.transport \/ callback = "sending" => Event \notin accepted
  /\ sync.transport => callback # "sending"
  /\ net.pc \in {"none", "establishing", "retrying"} => streams \subseteq {Downchannel}

\* Appending to a queue, and taking its head.
LEMMA AppendSet ==
  ASSUME NEW q \in Seq(Messages), NEW m \in Messages
  PROVE  /\ ToSet(Append(q, m)) = ToSet(q) \cup {m}
         /\ NoRepeats(q) /\ m \notin ToSet(q) => NoRepeats(Append(q, m))
<1> PICK r : r = Append(q, m)
  OBVIOUS
<1>1. /\ Len(q) \in Nat /\ DOMAIN q = 1 .. Len(q) /\ DOMAIN r = 1 .. (Len(q) + 1)
      /\ r[Len(q) + 1] = m /\ \A i \in 1 .. Len(q) : r[i] = q[i]
  OBVIOUS
<1>2. \A i \in 1 .. (Len(q) + 1) : i \in 1 .. Len(q) \/ i = Len(q) + 1
  BY <1>1
<1>3. \A i \in 1 .. Len(q) : i \in 1 .. (Len(q) + 1) /\ i # Len(q) + 1
  BY <1>1
<1>4. Len(q) + 1 \in 1 .. (Len(q) + 1)
  BY <1>1
<1>5. ToSet(r) = ToSet(q) \cup {m}
  BY <1>1, <1>2, <1>3, <1>4 DEF ToSet
<1>6. NoRepeats(q) /\ m \notin ToSet(q) => NoRepeats(r)
  BY <1>1, <1>2, <1>3 DEF ToSet, NoRepeats
<1> QED BY <1>5, <1>6

LEMMA HeadSet ==
  ASSUME NEW q \in Seq(Messages), q # << >>, NoRepeats(q)
  PROVE  /\ Head(q) \in Messages /\ NoRepeats(Tail(q))
         /\ ToSet(q) = ToSet(Tail(q)) \cup {Head(q)} /\ Head(q) \notin ToSet(Tail(q))
<1> PICK r : r = Tail(q)
  OBVIOUS
<1>1. /\ Len(q) \in Nat \ {0} /\ DOMAIN q = 1 .. Len(q) /\ DOMAIN r = 1 .. (Len(q) - 1)
      /\ Head(q) = q[1] /\ Head(q) \in Messages /\ \A i \in 1 .. (Len(q) - 1) : r[i] = q[i + 1]
  OBVIOUS
<1>2. \A i \in 1 .. (Len(q) - 1) : i + 1 \in 1 .. Len(q) /\ i + 1 # 1
  BY <1>1
<1>3. 1 \in 1 .. Len(q)
  BY <1>1
<1>4. ASSUME NEW i \in 1 .. Len(q), i # 1 PROVE q[i] \in ToSet(r)
  <2>1. i - 1 \in 1 .. (Len(q) - 1) /\ (i - 1) + 1 = i
    BY <1>1, <1>4
  <2>2. r[i - 1] = q[i]
    BY <1>1, <2>1
  <2> QED BY <1>1, <2>1, <2>2 DEF ToSet
<1>5. ToSet(q) = ToSet(r) \cup {q[1]}
  BY <1>1, <1>2, <1>3, <1>4 DEF ToSet
<1>6. q[1] \notin ToSet(r)
  BY <1>1, <1>2, <1>3 DEF ToSet, NoRepeats
<1>7. NoRepeats(r)
  <2> SUFFICES ASSUME NEW i \in 1 .. (Len(q) - 1), NEW j \in 1 .. (Len(q) - 1), r[i] = r[j] PROVE i = j
    BY <1>1 DEF NoRepeats
  <2>1. i + 1 = j + 1
    BY <1>1, <1>2 DEF NoRepeats
  <2> QED BY <1>1, <2>1
<1> QED BY <1>1, <1>5, <1>6, <1>7

\* What an answer does to the set of answered messages.
LEMMA AnsweredSet ==
  ASSUME NEW m \in Messages, answers \in [Messages -> {0, 1}], m \notin Done, answers' = Answered(m)
  PROVE  answers' \in [Messages -> {0, 1}] /\ Done' = Done \cup {m}
<1>1. answers[m] = 0
  BY DEF Done
<1>2. answers' = [answers EXCEPT ![m] = 1]
  BY <1>1 DEF Answered
<1> QED BY <1>1, <1>2 DEF Done

LEMMA PlacesStep ==
  ASSUME TypeInv, NetHolds, EndsInv, PlacesInv, [Next]_vars
  PROVE  PlacesInv'
<1> USE DEF Network, flags, records, At
<1> DEFINE EventHolds == /\ Event \in Done => Event \in accepted
                         /\ sync.transport \/ callback = "sending" => Event \notin accepted
                         /\ sync.transport => callback # "sending"
           Early == net.pc \in {"none", "establishing", "retrying"} => streams \subseteq {Downchannel}
           Disjoint(q, s, l, d) == q \cap (s \cup l) = {} /\ s \cap l = {} /\ (q \cup s \cup l) \cap d = {}
           Whole(q, s, l, d, a) == a = ((q \cup s \cup l) \ {Downchannel}) \cup (d \cap a)
<1>0. /\ queue \in Seq(Messages) /\ streams \subseteq Messages \cup {Downchannel}
      /\ lost \subseteq Messages /\ accepted \subseteq Messages
      /\ net \in [pc : NetPcs, finished : SUBSET (Messages \cup {Downchannel}), busy : BOOLEAN,
                  tell : SUBSET {"router", "sync"}, about : Abouts]
      /\ Downchannel \notin Messages /\ Event \in Messages /\ Requests \subseteq Messages
      /\ Event \notin Requests
  BY StreamsAssumption DEF TypeInv, MessagesType, NetType, Messages
<1>1. ASSUME UNCHANGED <<queue, answers, lost, accepted>>, Early',
             streams' \ {Downchannel} = streams \ {Downchannel},
             sync'.transport => sync.transport \/ (callback # "sending" /\ Event \notin accepted),
             callback' = "sending" => callback = "sending" \/ sync.transport,
             sync'.transport /\ callback' = "sending" => FALSE
      PROVE  PlacesInv'
  <2>1. InQueue' = InQueue /\ Done' = Done
    BY <1>1 DEF InQueue, Done
  <2>2. EventHolds'
    BY <1>1, <2>1 DEF PlacesInv
  <2>3. NoRepeats(queue') /\ answers' \in [Messages -> {0, 1}]
    BY <1>1 DEF PlacesInv
  <2>4. Disjoint(InQueue', streams', lost', Done')
    BY <1>0, <1>1, <2>1 DEF PlacesInv, InQueue, ToSet, Done
  <2>5. Whole(InQueue', streams', lost', Done', accepted')
    BY <1>1, <2>1 DEF PlacesInv
  <2> QED BY <1>1, <2>2, <2>3, <2>4, <2>5 DEF PlacesInv
<1>2. Early /\ (At("none") => streams = {} /\ callback = "none" /\ accepted = {}) /\ EventHolds
  BY DEF PlacesInv, EndsInv, FreshInv
<1>3. /\ InQueue \subseteq Messages /\ Done \subseteq Messages
      /\ NoRepeats(queue) /\ answers \in [Messages -> {0, 1}]
      /\ Disjoint(InQueue, streams, lost, Done) /\ Whole(InQueue, streams, lost, Done, accepted)
  BY <1>0 DEF PlacesInv, InQueue, Done, ToSet
<1>4. ASSUME EventHolds', Early', NoRepeats(queue'), answers' \in [Messages -> {0, 1}],
             Disjoint(InQueue', streams', lost', Done'),
             Whole(InQueue', streams', lost', Done', accepted')
      PROVE  PlacesInv'
  BY <1>4 DEF PlacesInv
<1>5. ASSUME callback' = callback, accepted' = accepted, sync'.transport => sync.transport,
             Done' \subseteq Done \cup accepted
      PROVE  EventHolds'
  BY <1>2, <1>5
<1>6. ASSUME NEW m \in Messages, m \notin accepted, m \notin Done, Enqueue(m), UNCHANGED <<streams, lost>>
      PROVE  /\ NoRepeats(queue') /\ answers' \in [Messages -> {0, 1}]
             /\ Disjoint(InQueue', streams', lost', Done')
             /\ Whole(InQueue', streams', lost', Done', accepted')
             /\ accepted' \ {m} = accepted \ {m} /\ Done' \ {m} = Done \ {m}
             /\ m = Event => Event \notin Done'
  <2>1. m \notin InQueue \cup streams \cup lost
    BY <1>0, <1>3, <1>6
  <2>2. CASE Enqueueable(m)
    <3>1. queue' = Append(queue, m) /\ accepted' = accepted \cup {m} /\ answers' = answers
      BY <1>6, <2>2 DEF Enqueue
    <3>2. InQueue' = InQueue \cup {m} /\ NoRepeats(queue') /\ Done' = Done
      BY <1>0, <1>3, <2>1, <3>1, AppendSet DEF InQueue, Done
    <3> QED BY <1>0, <1>3, <1>6, <2>1, <3>1, <3>2
  <2>3. CASE ~Enqueueable(m)
    <3>1. /\ UNCHANGED <<queue, accepted>>
          /\ m = Event => answers' = answers
          /\ m # Event => answers' = Answered(m)
      BY <1>6, <2>3 DEF Enqueue
    <3>2. InQueue' = InQueue
      BY <3>1 DEF InQueue
    <3>3. m = Event => Done' = Done
      BY <3>1 DEF Done
    <3>4. m # Event => answers' \in [Messages -> {0, 1}] /\ Done' = Done \cup {m}
      BY <1>3, <1>6, <3>1, AnsweredSet
    <3> QED BY <1>0, <1>3, <1>6, <2>1, <3>1, <3>2, <3>3, <3>4
  <2> QED BY <2>2, <2>3
<1>7. ASSUME NEW m \in Requests, Send(m) PROVE PlacesInv'
  <2>1. /\ m \in Messages /\ m \notin accepted /\ m \notin Done /\ m # Event /\ Enqueue(m)
        /\ UNCHANGED <<syncVars, streams, lost, net>>
    BY <1>0, <1>7 DEF Send, Done
  <2>2. EventHolds' /\ Early'
    BY <1>2, <1>6, <2>1 DEF syncVars
  <2> QED BY <1>4, <1>6, <2>1, <2>2
<1>8. CASE SendEvent
  <2>1. /\ callback = "sending" /\ callback' = "none" /\ Enqueue(Event)
        /\ UNCHANGED <<sync, streams, lost, net>>
    BY <1>8 DEF SendEvent
  <2>2. Event \notin accepted /\ Event \notin Done /\ ~sync.transport
    BY <1>2, <2>1
  <2>3. Event \in Done' => Event \in accepted'
    BY <1>0, <1>6, <2>1, <2>2
  <2>4. EventHolds' /\ Early'
    BY <1>2, <2>1, <2>2, <2>3
  <2> QED BY <1>0, <1>4, <1>6, <2>1, <2>2, <2>4
<1>9. CASE Connect
  <2>1. net.pc = "none" /\ UNCHANGED <<queue, answers, lost, accepted, callback>>
    BY <1>9 DEF Connect
  <2>2. streams = {} /\ callback = "none" /\ accepted = {}
    BY <1>2, <2>1
  <2>3. streams' \subseteq {Downchannel}
    BY <1>9, <2>2 DEF Connect
  <2> QED BY <1>1, <2>1, <2>2, <2>3
<1>10. CASE BeginShutdown \/ Shuts
  <2>1. /\ UNCHANGED <<queue, answers, lost, accepted, callback, streams, net>>
        /\ sync' \in {sync, Stopped, Forgotten}
    BY <1>10 DEF BeginShutdown, Shuts, ShutdownSync, JoinLoop, JoinNetworkThread, Owner
  <2>2. sync'.transport => sync.transport
    BY <2>1 DEF Stopped, Forgotten, TypeInv, SyncType
  <2> QED BY <1>1, <1>2, <2>1, <2>2
<1>11. CASE Synchronizer
  <2>1. CASE PostConnectLoop /\ UNCHANGED Elsewhere
    <3>1. UNCHANGED <<queue, answers, lost, accepted, callback, streams, net>>
      BY <2>1 DEF PostConnectLoop, LoopStops, LoopGoesOn, LoopFetches, LoopWakes, Elsewhere
    <3>2. sync'.transport = sync.transport
      BY <2>1 DEF PostConnectLoop, LoopStops, LoopGoesOn, LoopFetches, LoopWakes, TypeInv, SyncType
    <3> QED BY <1>1, <1>2, <3>1, <3>2
  <2>2. CASE ContextManagerAnswers /\ UNCHANGED Elsewhere
    <3>1. UNCHANGED <<queue, answers, lost, accepted, streams, net>>
      BY <2>2 DEF Elsewhere
    <3>2. (callback' = "sending" /\ sync.transport /\ ~sync'.transport)
          \/ (callback' # "sending" /\ (sync'.transport => sync.transport))
      BY <2>2 DEF ContextManagerAnswers, ContextArrives, SwapTransport, ContextFails, NotAccepted,
                  TypeInv, SyncType
    <3> QED BY <1>1, <1>2, <3>1, <3>2
  <2> QED BY <1>8, <1>11, <2>1, <2>2 DEF Synchronizer
<1>12. ASSUME UNCHANGED <<queue, answers, lost, accepted, callback>>, Early',
              streams' \ {Downchannel} = streams \ {Downchannel},
              sync' \in {sync, Stopped, Forgotten, Accepted, NotAccepted}
       PROVE  PlacesInv'
  <2>1. sync'.transport => sync.transport
    BY <1>12 DEF Stopped, Forgotten, Accepted, NotAccepted, TypeInv, SyncType
  <2> QED BY <1>1, <1>2, <1>12, <2>1
<1>13. NotEstablished \/ Retry => PlacesInv'
  <2>1. ASSUME NotEstablished \/ Retry PROVE streams' \subseteq {Downchannel} /\ streams \subseteq {Downchannel}
    BY <1>2, <2>1 DEF NotEstablished, Retry
  <2> QED BY <1>12, <2>1 DEF NotEstablished, Retry
<1>14. Established \/ Stops \/ CleanupEnds \/ SendsNothing \/ NotifyPostConnected \/ LoopEnds \/ Leaves
       => PlacesInv'
  BY <1>0, <1>12 DEF Established, Stops, CleanupEnds, SendsNothing, NotifyPostConnected, LoopEnds,
     Leaves, Goes
<1>15. CASE Perform
  <2>1. PICK finished \in SUBSET streams :
             net' = [net EXCEPT !.pc = "cleanup", !.finished = finished, !.busy = finished # streams]
    BY <1>15 DEF Perform
  <2>2. net'.pc = "cleanup"
    BY <1>0, <2>1
  <2> QED BY <1>12, <1>15, <2>2 DEF Perform
<1>16. CASE DownchannelFinishes
  <2>1. PICK n : n = [net EXCEPT !.finished = @ \ {Downchannel}]
    OBVIOUS
  <2>2. net' = n \/ net' = [n EXCEPT !.pc = "telling", !.tell = observers, !.about = "onServerSideDisconnect"]
    BY <1>16, <2>1 DEF DownchannelFinishes
  <2>3. net'.pc \in {"cleanup", "telling"}
    BY <1>0, <1>16, <2>1, <2>2 DEF DownchannelFinishes
  <2> QED BY <1>12, <1>16, <2>3 DEF DownchannelFinishes
<1>17. EventExcepted => PlacesInv'
  BY <1>0, <1>12 DEF EventExcepted, Goes
<1>18. OnPostConnected \/ Disconnects => PlacesInv'
  BY <1>0, <1>12 DEF OnPostConnected, Disconnects, Goes, Tells
<1>19. CASE TellRouter \/ TellSync \/ SyncStopped \/ AllTold
  <2>1. net'.pc \in {"telling", "joiningLoop", "leaving", "cleanup"}
    BY <1>0, <1>19 DEF TellRouter, TellSync, SyncStopped, AllTold, Told, Goes
  <2>2. sync' \in {sync, Stopped, Forgotten}
    BY <1>19 DEF TellRouter, TellSync, SyncStopped, AllTold
  <2> QED BY <1>12, <1>19, <2>1, <2>2 DEF TellRouter, TellSync, SyncStopped, AllTold
\* A message is answered when its stream is released.
<1>20. ASSUME NEW m \in Messages, m \in streams, Completes(m),
              sync' \in {sync, Accepted, NotAccepted}, net'.pc \in {"cleanup", "accepted"}
       PROVE  PlacesInv'
  <2>1. answers' \in [Messages -> {0, 1}] /\ Done' = Done \cup {m}
    BY <1>3, <1>20, AnsweredSet DEF Completes
  <2>2. /\ streams' = streams \ {m} /\ UNCHANGED <<queue, lost, accepted, callback>> /\ InQueue' = InQueue
    BY <1>20 DEF Completes, Released, InQueue
  <2>3. sync'.transport => sync.transport
    BY <1>20 DEF Accepted, NotAccepted, TypeInv, SyncType
  <2>4. m \in accepted
    BY <1>0, <1>3, <1>20
  <2>5. EventHolds'
    BY <1>5, <2>1, <2>2, <2>3, <2>4
  <2>6. Disjoint(InQueue', streams', lost', Done') /\ Whole(InQueue', streams', lost', Done', accepted')
    BY <1>0, <1>3, <1>20, <2>1, <2>2, <2>4
  <2> QED BY <1>3, <1>4, <1>20, <2>1, <2>2, <2>5, <2>6
<1>21. ASSUME NEW m \in Messages, MessageEnds(m) PROVE PlacesInv'
  <2>1. m \in streams /\ Completes(m) /\ sync' \in {sync, NotAccepted}
    BY <1>0, <1>21 DEF MessageEnds, MessageFinishes, MessageStalls, NetHolds, Refused
  <2>2. net'.pc = "cleanup"
    BY <1>0, <1>21 DEF MessageEnds, MessageFinishes, MessageStalls
  <2> QED BY <1>20, <2>1, <2>2
<1>22. CASE EventFinishes
  <2>1. Event \in streams /\ Completes(Event) /\ sync' \in {Accepted, NotAccepted}
    BY <1>22 DEF EventFinishes, NetHolds
  <2>2. net'.pc \in {"cleanup", "accepted"}
    BY <1>0, <1>22 DEF EventFinishes
  <2> QED BY <1>0, <1>20, <2>1, <2>2
<1>23. CASE SendsNext
  <2> PICK m : m = Head(queue)
    OBVIOUS
  <2>1. /\ m \in Messages /\ NoRepeats(queue') /\ m \notin InQueue' /\ InQueue = InQueue' \cup {m}
        /\ UNCHANGED <<lost, accepted, callback>>
    BY <1>0, <1>3, <1>23, HeadSet DEF SendsNext, Outgoing, InQueue
  <2>2. m \in accepted /\ m \notin streams \cup lost \cup Done
    BY <1>0, <1>3, <2>1
  <2>3. net'.pc = "looping"
    BY <1>0, <1>23 DEF SendsNext, Goes
  <2>4. CASE UNCHANGED <<sync, answers>> /\ streams' = streams \cup {m}
    <3>1. Done' = Done
      BY <2>4 DEF Done
    <3>2. EventHolds'
      BY <1>5, <2>1, <2>4, <3>1
    <3> QED BY <1>0, <1>3, <1>4, <2>1, <2>2, <2>3, <2>4, <3>1, <3>2
  <2>5. CASE answers' = Answered(m) /\ sync' \in {sync, NotAccepted} /\ streams' = streams
    <3>1. answers' \in [Messages -> {0, 1}] /\ Done' = Done \cup {m}
      BY <1>3, <2>1, <2>2, <2>5, AnsweredSet
    <3>2. sync'.transport => sync.transport
      BY <2>5 DEF NotAccepted, TypeInv, SyncType
    <3>3. EventHolds'
      BY <1>5, <2>1, <2>2, <3>1, <3>2
    <3> QED BY <1>0, <1>3, <1>4, <2>1, <2>2, <2>3, <2>5, <3>1, <3>3
  <2> QED BY <1>23, <2>4, <2>5 DEF SendsNext, Refused
<1>27. CASE AddHandleFails
  <2> PICK m : m = Head(queue)
    OBVIOUS
  <2>1. /\ m \in Messages /\ NoRepeats(queue') /\ m \notin InQueue' /\ InQueue = InQueue' \cup {m}
        /\ UNCHANGED <<sync, callback, streams, answers, accepted>> /\ lost' = lost \cup {m}
    BY <1>0, <1>3, <1>27, HeadSet DEF AddHandleFails, Outgoing, InQueue
  <2>2. net'.pc = "crashed" /\ Done' = Done
    BY <1>0, <1>27, <2>1 DEF AddHandleFails, Goes, Done
  <2>3. EventHolds'
    BY <1>5, <2>1, <2>2
  <2>4. Disjoint(InQueue', streams', lost', Done') /\ Whole(InQueue', streams', lost', Done', accepted')
    BY <1>0, <1>3, <2>1, <2>2
  <2> QED BY <1>3, <1>4, <2>1, <2>2, <2>3, <2>4
<1>24. CASE ReleaseAll
  <2>1. /\ UNCHANGED <<sync, queue, answers, accepted, callback>> /\ streams' = {}
        /\ lost' = lost \cup (streams \ {Downchannel}) /\ InQueue' = InQueue /\ Done' = Done
    BY <1>24 DEF ReleaseAll, InQueue, Done
  <2>2. EventHolds'
    BY <1>5, <2>1
  <2>3. Disjoint(InQueue', streams', lost', Done') /\ Whole(InQueue', streams', lost', Done', accepted')
    BY <1>0, <1>3, <2>1
  <2> QED BY <1>3, <1>4, <2>1, <2>2, <2>3
<1>25. CASE ClearQueue
  <2>1. /\ UNCHANGED <<streams, lost, accepted, callback>> /\ queue' = << >>
        /\ answers' = [m \in Messages |-> IF m \in InQueue THEN answers[m] + 1 ELSE answers[m]]
        /\ sync' \in {sync, NotAccepted} /\ net'.pc = "disconnecting"
    BY <1>0, <1>25 DEF ClearQueue, InQueue, Goes
  <2>2. InQueue' = {} /\ NoRepeats(queue')
    BY <2>1 DEF InQueue, ToSet, NoRepeats
  <2>3. \A m \in InQueue : answers[m] = 0
    BY <1>3 DEF Done
  <2>4. answers' = [m \in Messages |-> IF m \in InQueue THEN 1 ELSE answers[m]]
    BY <2>1, <2>3
  <2>5. answers' \in [Messages -> {0, 1}] /\ Done' = Done \cup InQueue
    BY <1>3, <2>4 DEF Done
  <2>6. sync'.transport => sync.transport
    BY <2>1 DEF NotAccepted, TypeInv, SyncType
  <2>7. InQueue \subseteq accepted
    BY <1>0, <1>3
  <2>8. EventHolds'
    BY <1>5, <2>1, <2>5, <2>6, <2>7
  <2>9. Disjoint(InQueue', streams', lost', Done') /\ Whole(InQueue', streams', lost', Done', accepted')
    BY <1>0, <1>3, <2>1, <2>2, <2>5, <2>7
  <2> QED BY <1>4, <2>1, <2>2, <2>5, <2>8, <2>9
<1>26. UNCHANGED vars => PlacesInv'
  BY <1>2, <1>12 DEF vars, syncVars
<1> QED
  BY <1>7, <1>9, <1>10, <1>11, <1>13, <1>14, <1>15, <1>16, <1>17, <1>18, <1>19, <1>21, <1>22,
     <1>23, <1>24, <1>25, <1>26, <1>27 DEF Next, NetworkThread

LEMMA PlacesInit == Init => PlacesInv
<1> SUFFICES ASSUME Init PROVE PlacesInv
  OBVIOUS
<1>1. InQueue = {} /\ NoRepeats(queue)
  BY DEF Init, InQueue, ToSet, NoRepeats
<1>2. answers \in [Messages -> {0, 1}] /\ Done = {}
  BY DEF Init, Done
<1> QED BY <1>1, <1>2 DEF Init, SyncInit, PlacesInv

\* How often a message is in a queue without repetitions.
LEMMA QueuedOnce ==
  ASSUME NEW m, queue \in Seq(Messages), NoRepeats(queue)
  PROVE  Queued(m) = One(m \in InQueue)
<1> PICK places : places = {i \in DOMAIN queue : queue[i] = m}
  OBVIOUS
<1>1. CASE m \in InQueue
  <2>1. PICK i \in DOMAIN queue : queue[i] = m
    BY <1>1 DEF InQueue, ToSet
  <2>2. places = {i}
    BY <2>1 DEF NoRepeats
  <2>3. Cardinality(places) = 1
    BY <2>2, FS_Singleton
  <2> QED BY <1>1, <2>3 DEF Queued, One
<1>2. CASE m \notin InQueue
  <2>1. places = {}
    BY <1>2 DEF InQueue, ToSet
  <2>2. Cardinality(places) = 0
    BY <2>1, FS_EmptySet
  <2> QED BY <1>2, <2>2 DEF Queued, One
<1> QED BY <1>1, <1>2

\* For every set of messages: one that was accepted is at one place, waiting, on a stream,
\* answered, or dropped with its stream, when the loop ends or the process does (AddHandleFails);
\* none is answered twice, and none is overlooked when the queue is cleared.
THEOREM AnsweredOnlyOnce == Spec => []AnsweredOnce
<1>1. TypeInv /\ PlacesInv => AnsweredOnce
  <2> SUFFICES ASSUME TypeInv, PlacesInv, NEW m \in accepted
               PROVE  Queued(m) + One(m \in streams) + answers[m] + One(m \in lost) = 1
    BY DEF AnsweredOnce
  <2>1. queue \in Seq(Messages) /\ m \in Messages /\ m # Downchannel
    BY StreamsAssumption DEF TypeInv, MessagesType, Messages
  <2>2. Queued(m) = One(m \in InQueue)
    BY <2>1, QueuedOnce DEF PlacesInv
  <2>3. answers[m] = One(m \in Done)
    BY <2>1 DEF PlacesInv, Done, One
  <2>4. m \in InQueue \cup streams \cup lost \cup Done
    BY <2>1 DEF PlacesInv
  <2>5. /\ InQueue \cap (streams \cup lost) = {} /\ streams \cap lost = {}
        /\ (InQueue \cup streams \cup lost) \cap Done = {}
    BY DEF PlacesInv
  <2> QED BY <2>2, <2>3, <2>4, <2>5 DEF One
<1> QED
  BY <1>1, TypeInit, TypeStep, EndsInit, EndsStep, PlacesInit, PlacesStep, PTL DEF Spec

-----------------------------------------------------------------------------
(* The fetch in progress *)

\* Nothing is about to stop the synchronizer or the transport.
GoingOn == ~sync.isStopping /\ ~isStopping

\* The transport is taken from the synchronizer by the thread that sends the event, and the event
\* is queued; so a context that is not followed by an event comes after one that was.
FetchInv ==
  /\ GoingOn /\ ~sync.transport /\ ~At("none") => callback = "sending" \/ Event \in accepted
  /\ GoingOn /\ sync.fetchInProgress /\ ~sync.isPostConnected
       => contexts > 0 \/ callback # "none" \/ Event \in accepted

LEMMA FetchStep ==
  ASSUME TypeInv, EndsInv, FetchInv, [Next]_vars
  PROVE  FetchInv'
<1> USE DEF FetchInv, GoingOn, Network, flags, records, At
<1>0. /\ contexts \in Nat /\ isStopping \in BOOLEAN
      /\ sync \in [isStopping : BOOLEAN, isPostConnected : BOOLEAN, fetchInProgress : BOOLEAN,
                   transport : BOOLEAN, observed : BOOLEAN]
      /\ net \in [pc : NetPcs, finished : SUBSET (Messages \cup {Downchannel}), busy : BOOLEAN,
                  tell : SUBSET {"router", "sync"}, about : Abouts]
  BY DEF TypeInv, SyncType, NetType
\* Most steps leave the synchronizer's threads alone, and at most stop something.
<1>1. ASSUME UNCHANGED <<contexts, callback>>, accepted \subseteq accepted', isStopping => isStopping',
             net.pc = "none" => net'.pc = "none",
             sync' \in {sync, Observed, Stopped, Forgotten, Accepted, NotAccepted}
      PROVE  FetchInv'
  <2>1. /\ sync.isStopping => sync'.isStopping
        /\ sync.isPostConnected => sync'.isPostConnected
        /\ sync'.fetchInProgress => sync.fetchInProgress
        /\ sync.transport /\ ~sync'.isStopping => sync'.transport
    BY <1>0, <1>1 DEF Observed, Stopped, Forgotten, Accepted, NotAccepted
  <2> QED BY <1>1, <2>1
<1>2. ASSUME NEW m, Enqueue(m) PROVE accepted \subseteq accepted'
  BY <1>2 DEF Enqueue
<1>3. ASSUME NEW m \in Requests, Send(m) PROVE FetchInv'
  BY <1>1, <1>2, <1>3 DEF Send, syncVars
<1>4. CASE Connect
  <2>1. PostConnectable
    BY <1>4 DEF Connect, PostConnectable, EndsInv, OwnerInv, FreshInv
  <2>2. CASE sync' = Observed /\ net' = net
    BY <1>1, <1>4, <2>2 DEF Connect
  <2>3. CASE sync' = DoPostConnect(Observed)
    <3>1. /\ sync'.transport /\ sync'.fetchInProgress = sync.fetchInProgress
          /\ sync'.isStopping = sync.isStopping /\ sync'.isPostConnected = sync.isPostConnected
      BY <1>0, <2>3 DEF DoPostConnect, Observed
    <3> QED BY <1>4, <3>1 DEF Connect
  <2> QED BY <1>4, <2>1, <2>2, <2>3 DEF Connect
<1>5. BeginShutdown \/ Shuts => FetchInv'
  BY <1>1 DEF BeginShutdown, Shuts, ShutdownSync, JoinLoop, JoinNetworkThread, Owner
<1>6. CASE NetworkThread \/ Stops
  <2>1. net.pc # "none" /\ accepted' = accepted /\ (isStopping => isStopping')
    BY <1>6, NetworkThreadRuns DEF TypeInv
  <2>2. ASSUME NEW m \in Messages, MessageEnds(m)
        PROVE  UNCHANGED <<contexts, callback>> /\ sync' \in {sync, NotAccepted}
    BY <2>2 DEF MessageEnds, MessageFinishes, MessageStalls, Refused, Completes
  <2>3. EventExcepted \/ EventFinishes \/ SendsNext \/ ClearQueue \/ TellSync \/ SyncStopped
        => UNCHANGED <<contexts, callback>> /\ sync' \in {sync, Accepted, NotAccepted, Stopped, Forgotten}
    BY DEF EventExcepted, EventFinishes, SendsNext, ClearQueue, TellSync, SyncStopped, Refused, Completes
  <2>4. Established \/ NotEstablished \/ Retry \/ Perform \/ DownchannelFinishes \/ CleanupEnds
        \/ AddHandleFails \/ SendsNothing \/ NotifyPostConnected \/ OnPostConnected \/ TellRouter \/ AllTold
        \/ LoopEnds \/ ReleaseAll \/ Disconnects \/ Leaves \/ Stops
        => UNCHANGED <<contexts, callback>> /\ sync' = sync
    BY DEF Established, NotEstablished, Retry, Perform, DownchannelFinishes, CleanupEnds,
       AddHandleFails, SendsNothing, NotifyPostConnected, OnPostConnected, TellRouter, AllTold,
       LoopEnds, ReleaseAll, Disconnects, Leaves, Stops
  <2>5. UNCHANGED <<contexts, callback>> /\ sync' \in {sync, Accepted, NotAccepted, Stopped, Forgotten}
    BY <1>6, <2>2, <2>3, <2>4 DEF NetworkThread
  <2> QED BY <1>1, <2>1, <2>5
<1>7. CASE PostConnectLoop /\ UNCHANGED Elsewhere
  <2>1. LoopStops \/ LoopGoesOn \/ LoopWakes => FetchInv'
    BY <1>1, <1>7 DEF LoopStops, LoopGoesOn, LoopWakes, Elsewhere
  <2>2. CASE LoopFetches
    <3>1. /\ sync.fetchInProgress => contexts' = contexts
          /\ ~sync.fetchInProgress => contexts' = contexts + 1
      BY <2>2 DEF LoopFetches
    <3>2. /\ sync'.transport = sync.transport /\ sync'.isStopping = sync.isStopping
          /\ sync'.isPostConnected = sync.isPostConnected
      BY <1>0, <2>2 DEF LoopFetches
    <3>3. UNCHANGED <<callback, isStopping, accepted, net>>
      BY <1>7, <2>2 DEF LoopFetches, Elsewhere
    <3>4. sync.fetchInProgress \/ contexts' > 0
      BY <1>0, <3>1
    <3> QED BY <3>1, <3>2, <3>3, <3>4
  <2> QED BY <1>7, <2>1, <2>2 DEF PostConnectLoop
<1>8. CASE ContextManagerAnswers /\ UNCHANGED Elsewhere
  <2>1. ASSUME NEW next \in {"available", "failure"}, ContextArrives(next) PROVE FetchInv'
    BY <1>8, <2>1 DEF ContextArrives, Ignored, Elsewhere
  <2>2. CASE SwapTransport
    <3>1. callback = "available" /\ net.pc # "none"
      BY <2>2 DEF SwapTransport, EndsInv, FreshInv
    <3>2. /\ sync'.isStopping = sync.isStopping /\ sync'.isPostConnected = sync.isPostConnected
          /\ sync.transport => callback' = "sending"
      BY <1>0, <2>2 DEF SwapTransport
    <3> QED BY <1>8, <3>1, <3>2 DEF Elsewhere
  <2>3. CASE ContextFails
    <3>1. /\ sync'.transport = sync.transport /\ sync'.isStopping = sync.isStopping
          /\ ~sync'.fetchInProgress /\ callback # "sending"
      BY <1>0, <2>3 DEF ContextFails, NotAccepted
    <3> QED BY <1>8, <3>1 DEF Elsewhere
  <2> QED BY <1>8, <2>1, <2>2, <2>3 DEF ContextManagerAnswers
<1>9. CASE SendEvent
  <2>1. ~isStopping => Event \in accepted'
    BY <1>9 DEF SendEvent, Enqueue, Enqueueable
  <2> QED BY <1>9, <2>1 DEF SendEvent
<1>10. UNCHANGED vars => FetchInv'
  BY <1>1 DEF vars, syncVars
<1> QED BY <1>3, <1>4, <1>5, <1>6, <1>7, <1>8, <1>9, <1>10 DEF Next, Synchronizer

LEMMA FetchInit == Init => FetchInv
BY DEF Init, SyncInit, NoThread, FetchInv, At

\* As long as no event came back the flag m_contextFetchInProgress means what its comment says,
\* for any messages and pool: a context or the event is on its way, or has just come back.
THEOREM FirstFetchInProgress == Spec => []FirstFetchIsInProgress
<1>1. TypeInv /\ EndsInv /\ PlacesInv /\ FetchInv => FirstFetchIsInProgress
  <2> SUFFICES ASSUME TypeInv, EndsInv, PlacesInv, FetchInv, Alive, answers[Event] = 0,
                      GoingOn, sync.fetchInProgress, ~sync.isPostConnected
               PROVE  Outstanding
    BY DEF FirstFetchIsInProgress, FetchIsInProgress, GoingOn
  <2>1. CASE Event \in accepted
    <3>1. queue \in Seq(Messages) /\ NoRepeats(queue) /\ lost = {} /\ Event \notin Done
      BY DEF TypeInv, MessagesType, EndsInv, OverInv, Alive, GoingOn, PlacesInv, Done
    <3>2. Event \in InQueue \cup streams
      BY <2>1, <3>1 DEF PlacesInv
    <3>3. Event \in InQueue => Queued(Event) > 0
      BY <3>1, QueuedOnce DEF One
    <3> QED BY <3>2, <3>3 DEF Outstanding
  <2> QED BY <2>1 DEF FetchInv, Outstanding
<1> QED
  BY <1>1, TypeInit, TypeStep, EndsInit, EndsStep, PlacesInit, PlacesStep, FetchInit, FetchStep,
     PTL DEF Spec

-----------------------------------------------------------------------------
(* What the router is told *)

Heard(about) == Contains(heard, about)
ServerClosed == net.about = "onServerSideDisconnect"

\* What is said was heard by the router, or is about to be; the connection is connected from
\* before the router hears of it until before it hears of the end.
SaidInv ==
  /\ net.about # "none" => Heard(net.about) \/ (Telling /\ "router" \in net.tell)
  /\ Heard("onServerSideDisconnect") => net.about \in {"onServerSideDisconnect", "onDisconnected"}
  /\ Heard("onConnected") => isConnected \/ disconnectedSent
  /\ isConnected => Heard("onConnected") \/ net.about = "onConnected"
  /\ net.about = "onConnected" => isConnected
  /\ isConnected => net.about \in {"onConnected", "onServerSideDisconnect"}
  /\ disconnectedSent <=> net.about = "onDisconnected"
  /\ disconnectedSent => Telling \/ net.pc \in {"leaving", "ended"}
  /\ net.pc \in {"leaving", "ended"} => disconnectedSent

\* When AVS has closed the connection the downchannel is gone for good, and the synchronizer is
\* stopped before anything else happens, so that a late answer does not connect the transport.
ClosedInv ==
  /\ ServerClosed => Downchannel \notin streams
  /\ ServerClosed /\ "sync" \notin net.tell => isStopping \/ ~sync.observed
  /\ sync.isStopping
       => isStopping \/ (ServerClosed /\ (At("joiningLoop") \/ "sync" \notin net.tell))
  /\ At("postConnected") => isStopping \/ ~ServerClosed
  /\ ~At("none") /\ owner # "done" => "sync" \in observers

LifeInv == SaidInv /\ ClosedInv

\* How the places of the network thread are left.
LEMMA NetFields ==
  ASSUME NetType
  PROVE  /\ \A pc \in NetPcs : Goes(pc) =>
              net'.pc = pc /\ net'.about = net.about /\ net'.tell = net.tell /\ net'.finished = net.finished
         /\ \A about \in Abouts : Tells(about) =>
              net'.pc = "telling" /\ net'.about = about /\ net'.tell = observers
         /\ net' = Told(net) =>
              net'.pc = "telling" /\ net'.about = net.about /\ net'.tell = net.tell \ {"sync"}
BY DEF NetType, Goes, Tells, Told

LEMMA HeardAppend ==
  ASSUME NetType, NEW about \in Abouts, heard' = Append(heard, about)
  PROVE  \A other : Contains(heard, other)' <=> Contains(heard, other) \/ other = about
<1> PICK h : h = Append(heard, about)
  OBVIOUS
<1>1. Len(heard) \in Nat /\ Len(h) = Len(heard) + 1 /\ h[Len(heard) + 1] = about
  BY DEF NetType
<1>2. \A i \in 1 .. Len(heard) : h[i] = heard[i]
  BY DEF NetType
<1>3. \A i : i \in 1 .. Len(h) <=> i \in 1 .. Len(heard) \/ i = Len(heard) + 1
  BY <1>1
<1> SUFFICES ASSUME NEW other PROVE Contains(heard, other)' <=> Contains(heard, other) \/ other = about
  OBVIOUS
<1>4. Contains(heard, other)' <=> \E i \in 1 .. Len(h) : h[i] = other
  BY DEF Contains
<1>5. Contains(heard, other) <=> \E i \in 1 .. Len(heard) : heard[i] = other
  BY DEF Contains
<1> QED BY <1>1, <1>2, <1>3, <1>4, <1>5

\* Its places while it works for itself, and where it ends with the process.
Working ==
  {"establishing", "retrying", "looping", "cleanup", "excepted", "accepted", "outgoing", "ending",
   "clearing", "disconnecting", "crashed"}

\* A step that nobody outside is told of, but that the transport may stop.
Quiet ==
  /\ UNCHANGED <<isConnected, disconnectedSent, heard, observers>>
  /\ isStopping => isStopping'
  /\ net'.about = net.about /\ net'.tell = net.tell
  /\ net'.pc = net.pc \/ {net.pc, net'.pc} \subseteq Working
  /\ Downchannel \in streams' => Downchannel \in streams
  /\ sync'.observed => sync.observed \/ At("none")
  /\ sync'.isStopping => sync.isStopping \/ isStopping
  /\ owner' = "done" <=> owner = "done"

Loud ==
  \/ Connect \/ JoinNetworkThread
  \/ DownchannelFinishes /\ ~isStopping
  \/ NotifyPostConnected \/ OnPostConnected \/ TellRouter \/ TellSync \/ SyncStopped \/ AllTold
  \/ Disconnects \/ Leaves

LEMMA QuietOrLoud ==
  ASSUME TypeInv, NetHolds, EndsInv, [Next]_vars
  PROVE  Quiet \/ Loud
<1> USE DEF Network, At, flags, Working
<1>0. /\ net \in [pc : NetPcs, finished : SUBSET (Messages \cup {Downchannel}), busy : BOOLEAN,
                  tell : SUBSET {"router", "sync"}, about : Abouts]
      /\ sync \in [isStopping : BOOLEAN, isPostConnected : BOOLEAN, fetchInProgress : BOOLEAN,
                   transport : BOOLEAN, observed : BOOLEAN]
      /\ Downchannel \notin Messages /\ Event \in Messages
      /\ owner # "idle" => isStopping
  BY StreamsAssumption DEF TypeInv, SyncType, NetType, Messages, EndsInv, OwnerInv
<1>1. ASSUME UNCHANGED <<isConnected, disconnectedSent, heard, observers, net>>, isStopping => isStopping',
             Downchannel \in streams' => Downchannel \in streams,
             sync'.observed => sync.observed, sync'.isStopping => sync.isStopping \/ isStopping,
             owner' = "done" <=> owner = "done"
      PROVE  Quiet
  BY <1>1 DEF Quiet
<1>2. ASSUME NEW m \in Requests, Send(m) PROVE Quiet
  BY <1>1, <1>2 DEF Send, syncVars
<1>3. BeginShutdown => Quiet
  BY <1>1 DEF BeginShutdown, Owner, records
<1>4. CASE ShutdownSync \/ JoinLoop
  <2>1. sync' \in {sync, Stopped, Forgotten} /\ isStopping
    BY <1>0, <1>4 DEF ShutdownSync, JoinLoop
  <2>2. (sync'.observed => sync.observed) /\ (sync'.isStopping => sync.isStopping \/ isStopping)
    BY <1>0, <2>1 DEF Stopped, Forgotten
  <2> QED BY <1>1, <1>4, <2>2 DEF ShutdownSync, JoinLoop, Owner, records
<1>5. Synchronizer => Quiet
  BY <1>1, SynchronizerRuns DEF TypeInv
<1>6. UNCHANGED vars => Quiet
  BY <1>1 DEF vars, syncVars, records
\* Steps of the network thread while it works.
<1>7. ASSUME UNCHANGED <<isConnected, disconnectedSent, heard, observers, owner>>, isStopping => isStopping',
             net'.about = net.about, net'.tell = net.tell, net.pc \in Working, net'.pc \in Working,
             streams' \subseteq streams \cup Messages, sync' \in {sync, Accepted, NotAccepted}
      PROVE  Quiet
  <2>1. sync'.observed = sync.observed /\ sync'.isStopping = sync.isStopping
    BY <1>0, <1>7 DEF Accepted, NotAccepted
  <2> QED BY <1>0, <1>7, <2>1 DEF Quiet
<1>8. ASSUME NEW pc \in Working, Goes(pc)
      PROVE  net'.pc = pc /\ net'.about = net.about /\ net'.tell = net.tell
  BY <1>0, <1>8 DEF Goes
<1>9. Established \/ NotEstablished \/ Retry => Quiet
  BY <1>7, <1>8 DEF Established, NotEstablished, Retry
<1>10. CASE Perform
  <2>1. PICK finished \in SUBSET streams :
             net' = [net EXCEPT !.pc = "cleanup", !.finished = finished, !.busy = finished # streams]
    BY <1>10 DEF Perform
  <2>2. net'.pc = "cleanup" /\ net'.about = net.about /\ net'.tell = net.tell
    BY <1>0, <2>1
  <2> QED BY <1>7, <1>10, <2>2 DEF Perform
<1>11. Stops => Quiet
  BY <1>1 DEF Stops
<1>12. CASE DownchannelFinishes /\ isStopping
  <2>1. net' = [net EXCEPT !.finished = @ \ {Downchannel}]
    BY <1>12 DEF DownchannelFinishes
  <2>2. net'.pc = net.pc /\ net'.about = net.about /\ net'.tell = net.tell
    BY <1>0, <2>1
  <2> QED BY <1>7, <1>12, <2>2 DEF DownchannelFinishes
<1>13. ASSUME NEW m \in Messages, MessageEnds(m) PROVE Quiet
  <2>1. net'.pc = "cleanup" /\ net'.about = net.about /\ net'.tell = net.tell
    BY <1>0, <1>13 DEF MessageEnds, MessageFinishes, MessageStalls
  <2> QED BY <1>7, <1>13, <2>1 DEF MessageEnds, MessageFinishes, MessageStalls, Completes, Released, Refused
<1>14. EventExcepted => Quiet
  BY <1>7, <1>8 DEF EventExcepted
<1>15. CASE EventFinishes
  <2>1. PICK f : f = net.finished \ {Event}
    OBVIOUS
  <2>2. net' = [net EXCEPT !.finished = f, !.pc = "accepted"] \/ net' = [net EXCEPT !.finished = f, !.pc = "cleanup"]
    BY <1>15, <2>1 DEF EventFinishes
  <2>3. net'.pc \in {"accepted", "cleanup"} /\ net'.about = net.about /\ net'.tell = net.tell
    BY <1>0, <2>2
  <2> QED BY <1>7, <1>15, <2>3 DEF EventFinishes, Completes, Released
<1>16. CleanupEnds \/ AddHandleFails \/ SendsNothing \/ LoopEnds \/ ReleaseAll => Quiet
  BY <1>7, <1>8 DEF CleanupEnds, AddHandleFails, SendsNothing, LoopEnds, ReleaseAll
<1>17. CASE SendsNext
  <2>1. Head(queue) \in Messages
    BY <1>17, QueueTypes DEF SendsNext, Outgoing, TypeInv, MessagesType
  <2> QED BY <1>7, <1>8, <1>17, <2>1 DEF SendsNext, Refused
<1>18. ClearQueue => Quiet
  BY <1>7, <1>8 DEF ClearQueue
<1> QED
  BY <1>2, <1>3, <1>4, <1>5, <1>6, <1>9, <1>10, <1>11, <1>12, <1>13, <1>14, <1>15, <1>16, <1>17,
     <1>18 DEF Next, NetworkThread, Shuts, Loud

LEMMA LifeInit == Init => LifeInv
BY DEF Init, SyncInit, NoThread, LifeInv, SaidInv, ClosedInv, Heard, Contains, ServerClosed, Telling, At

LEMMA QuietStep ==
  ASSUME FreshInv, LifeInv, Quiet
  PROVE  LifeInv'
<1>1. UNCHANGED <<isConnected, disconnectedSent, heard, observers>> /\ (isStopping => isStopping')
      /\ net'.about = net.about /\ net'.tell = net.tell
  BY DEF Quiet
<1>2. /\ Telling' <=> Telling
      /\ net'.pc \in {"leaving", "ended"} <=> net.pc \in {"leaving", "ended"}
      /\ net'.pc = net.pc \/ net'.pc \notin {"none", "joiningLoop", "postConnected"}
      /\ net.pc = "none" => net'.pc = "none"
      /\ net.pc = "joiningLoop" => net'.pc = "joiningLoop"
  BY DEF Quiet, Working, Telling
<1>3. \A about : Heard(about)' <=> Heard(about)
  BY <1>1 DEF Heard
<1>4. SaidInv'
  BY <1>1, <1>2, <1>3 DEF LifeInv, SaidInv
<1>5. ServerClosed => ~At("none")
  BY DEF FreshInv, ServerClosed
<1>6. ClosedInv'
  BY <1>1, <1>2, <1>5 DEF LifeInv, ClosedInv, Quiet, At, ServerClosed
<1> QED BY <1>4, <1>6 DEF LifeInv

LEMMA LifeInvStep ==
  ASSUME TypeInv, NetHolds, EndsInv, LifeInv, [Next]_vars
  PROVE  LifeInv'
<1> USE DEF SaidInv, ClosedInv, ServerClosed, Telling, At, Network, flags
<1>0. /\ NetType /\ SaidInv /\ ClosedInv /\ OwnerInv /\ FreshInv /\ OverInv
      /\ sync \in [isStopping : BOOLEAN, isPostConnected : BOOLEAN, fetchInProgress : BOOLEAN,
                   transport : BOOLEAN, observed : BOOLEAN]
      /\ net.pc \in NetPcs /\ net.about \in Abouts
  BY DEF TypeInv, EndsInv, LifeInv, NetType, SyncType
<1>1. /\ Observed.isStopping = sync.isStopping /\ DoPostConnect(Observed).isStopping = sync.isStopping
      /\ Stopped.isStopping /\ Stopped.observed = sync.observed
      /\ Forgotten.isStopping = sync.isStopping /\ ~Forgotten.observed
  BY <1>0 DEF Observed, DoPostConnect, Stopped, Forgotten
<1>2. ASSUME heard' = heard PROVE \A about : Heard(about)' <=> Heard(about)
  BY <1>2 DEF Heard
<1>3. net.pc \notin {"none", "blocked", "ended"} => "router" \in observers /\ "sync" \in observers
  BY <1>0 DEF OwnerInv
<1>4. CASE Connect
  <2>1. /\ net.pc = "none" /\ ~isStopping /\ ~sync.isStopping
        /\ UNCHANGED <<isConnected, isStopping, disconnectedSent, heard, owner>>
    BY <1>0, <1>4 DEF Connect, records, OwnerInv
  <2>2. CASE net' = net /\ sync' = Observed /\ observers' = observers
    BY <1>0, <1>1, <1>2, <2>1, <2>2 DEF FreshInv, LifeInv
  <2>3. CASE Goes("establishing") /\ sync' = DoPostConnect(Observed) /\ observers' = observers \cup {"sync"}
    <3>1. net'.pc = "establishing" /\ net'.about = net.about /\ net'.tell = net.tell
      BY <1>0, <2>3, NetFields DEF NetPcs
    <3> QED BY <1>0, <1>1, <1>2, <2>1, <2>3, <3>1 DEF FreshInv, LifeInv
  <2>4. PostConnectable
    BY <1>0, <2>1 DEF PostConnectable, FreshInv
  <2> QED BY <1>4, <2>2, <2>3, <2>4 DEF Connect
<1>5. CASE JoinNetworkThread
  BY <1>0, <1>2, <1>5 DEF JoinNetworkThread, Owner, records, LifeInv
<1>6. CASE DownchannelFinishes /\ ~isStopping
  <2>1. PICK n : n = [net EXCEPT !.finished = @ \ {Downchannel}]
    OBVIOUS
  <2>2. net' = [n EXCEPT !.pc = "telling", !.tell = observers, !.about = "onServerSideDisconnect"]
    BY <1>6, <2>1 DEF DownchannelFinishes
  <2>3. net'.pc = "telling" /\ net'.tell = observers /\ net'.about = "onServerSideDisconnect"
    BY <1>0, <2>1, <2>2 DEF NetType
  <2>4. /\ net.pc = "cleanup" /\ Downchannel \in streams /\ Downchannel \notin streams'
        /\ UNCHANGED <<isConnected, isStopping, disconnectedSent, heard, sync, owner, observers>>
    BY <1>6 DEF DownchannelFinishes, NetHolds
  <2> QED BY <1>0, <1>2, <1>3, <1>6, <2>3, <2>4 DEF LifeInv
<1>7. CASE NotifyPostConnected
  <2>1. /\ net.pc = "accepted" /\ ((net'.pc = "postConnected" /\ sync.observed) \/ net'.pc = "cleanup")
        /\ net'.about = net.about /\ net'.tell = net.tell /\ net.tell = {}
    BY <1>0, <1>7, NetFields DEF NotifyPostConnected, NetPcs, NetHolds
  <2> QED BY <1>0, <1>2, <1>7, <2>1 DEF LifeInv, NotifyPostConnected
<1>8. CASE OnPostConnected
  <2>1. CASE Goes("cleanup") /\ UNCHANGED isConnected
    <3>1. net'.pc = "cleanup" /\ net'.about = net.about /\ net'.tell = net.tell
      BY <1>0, <2>1, NetFields DEF NetPcs
    <3> QED BY <1>0, <1>2, <1>8, <2>1, <3>1 DEF LifeInv, OnPostConnected
  <2>2. CASE ~isConnected /\ ~isStopping /\ Tells("onConnected") /\ isConnected' = TRUE
    <3>1. net'.pc = "telling" /\ net'.about = "onConnected" /\ net'.tell = observers
      BY <1>0, <2>2, NetFields DEF Abouts
    <3>2. net.about = "none" /\ net.pc = "postConnected"
      BY <1>0, <1>8, <2>2 DEF OnPostConnected, Abouts
    <3> QED BY <1>0, <1>2, <1>3, <1>8, <2>2, <3>1, <3>2 DEF LifeInv, OnPostConnected
  <2> QED BY <1>8, <2>1, <2>2 DEF OnPostConnected
<1>9. CASE TellRouter
  <2>1. net'.pc = net.pc /\ net'.about = net.about /\ net'.tell = net.tell \ {"router"}
    BY <1>0, <1>9 DEF TellRouter, NetType
  <2>2. \A about : Heard(about)' <=> Heard(about) \/ about = net.about
    BY <1>0, <1>9, HeardAppend DEF TellRouter, Heard
  <2> QED BY <1>0, <1>9, <2>1, <2>2 DEF LifeInv, TellRouter
<1>10. CASE TellSync
  <2>1. CASE (net.about = "onConnected" \/ sync.isStopping) /\ net' = Told(net) /\ UNCHANGED sync
    <3>1. net'.pc = "telling" /\ net'.about = net.about /\ net'.tell = net.tell \ {"sync"}
      BY <1>0, <2>1, NetFields
    <3> QED BY <1>0, <1>2, <1>10, <2>1, <3>1 DEF LifeInv, TellSync
  <2>2. CASE net.about # "onConnected" /\ Goes("joiningLoop") /\ sync' = Stopped
    <3>1. net'.pc = "joiningLoop" /\ net'.about = net.about /\ net'.tell = net.tell
      BY <1>0, <2>2, NetFields DEF NetPcs
    <3>2. ServerClosed \/ isStopping
      BY <1>0, <1>10, <2>2 DEF TellSync, NetHolds, OverInv, Over, Abouts
    <3> QED BY <1>0, <1>1, <1>2, <1>10, <2>2, <3>1, <3>2 DEF LifeInv, TellSync
  <2> QED BY <1>10, <2>1, <2>2 DEF TellSync
<1>11. CASE SyncStopped
  <2>1. net'.pc = "telling" /\ net'.about = net.about /\ net'.tell = net.tell \ {"sync"}
    BY <1>0, <1>11, NetFields DEF SyncStopped
  <2> QED BY <1>0, <1>1, <1>2, <1>11, <2>1 DEF LifeInv, SyncStopped
<1>12. CASE AllTold
  <2>1. /\ net'.pc = (IF net.about = "onDisconnected" THEN "leaving" ELSE "cleanup")
        /\ net'.about = net.about /\ net'.tell = net.tell
    BY <1>0, <1>12, NetFields DEF AllTold, NetPcs
  <2> QED BY <1>0, <1>2, <1>12, <2>1 DEF LifeInv, AllTold
<1>13. CASE Disconnects
  <2>1. Tells("onDisconnected") /\ disconnectedSent' = TRUE /\ isConnected' = FALSE /\ net.pc = "disconnecting"
    BY <1>0, <1>13 DEF Disconnects
  <2>2. net'.pc = "telling" /\ net'.about = "onDisconnected" /\ net'.tell = observers
    BY <1>0, <2>1, NetFields DEF Abouts
  <2>3. isStopping
    BY <1>0, <2>1 DEF OverInv, Over
  <2> QED BY <1>0, <1>2, <1>3, <1>13, <2>1, <2>2, <2>3 DEF LifeInv, Disconnects
<1>14. CASE Leaves
  <2>1. net'.pc = "ended" /\ net.pc = "leaving" /\ net'.about = net.about /\ net'.tell = net.tell
    BY <1>0, <1>14, NetFields DEF Leaves, NetPcs
  <2> QED BY <1>0, <1>2, <1>14, <2>1 DEF LifeInv, Leaves
<1> QED
  BY <1>4, <1>5, <1>6, <1>7, <1>8, <1>9, <1>10, <1>11, <1>12, <1>13, <1>14, <1>0, QuietOrLoud, QuietStep
  DEF Loud

-----------------------------------------------------------------------------
(* The transport has the life that TransportLife promises the router *)

LEMMA QuietMaps ==
  ASSUME isStopping \in BOOLEAN, isStopping' \in BOOLEAN, Quiet
  PROVE  [Life!Next]_(Life!life)
<1>1. UNCHANGED <<isConnected, disconnectedSent, heard>> /\ net'.about = net.about
  BY DEF Quiet
<1>2. (net'.pc = "none" <=> net.pc = "none") /\ (net'.pc = "ended" <=> net.pc = "ended")
  BY DEF Quiet, Working
<1>3. LifePc' = LifePc
  BY <1>1, <1>2 DEF LifePc, At, Contains
<1>4. (owner = "done")' = (owner = "done")
  BY DEF Quiet
<1>5. isStopping' = isStopping \/ isStopping' = TRUE
  BY DEF Quiet
<1>6. ASSUME isStopping' = isStopping PROVE UNCHANGED Life!life
  BY <1>1, <1>3, <1>4, <1>6 DEF Life!life
<1>7. ASSUME isStopping' = TRUE PROVE Life!Stops
  BY <1>1, <1>3, <1>4, <1>7 DEF Life!Stops
<1> QED BY <1>5, <1>6, <1>7 DEF Life!Next

LEMMA LoudMaps ==
  ASSUME TypeInv, NetHolds, EndsInv, LifeInv, LifeInv', Loud
  PROVE  [Life!Next]_(Life!life)
<1> USE DEF At, Network, flags
<1> DEFINE Still == UNCHANGED Life!life
<1>0. /\ NetType /\ SaidInv /\ ClosedInv /\ OwnerInv /\ FreshInv /\ OverInv
      /\ net.pc \in NetPcs /\ net.about \in Abouts
  BY DEF TypeInv, EndsInv, LifeInv, NetType
<1>1. ASSUME heard' = heard PROVE \A about : Heard(about)' <=> Heard(about)
  BY <1>1 DEF Heard
<1>2. ASSUME owner' = owner PROVE (owner = "done")' = (owner = "done")
  BY <1>2
<1>3. ASSUME UNCHANGED <<isConnected, isStopping, disconnectedSent, heard, owner>>, net'.about = net.about,
             net.pc \notin {"none", "ended"}, net'.pc \notin {"none", "ended"}
      PROVE  Still
  <2>1. LifePc' = LifePc
    BY <1>3 DEF LifePc, Contains
  <2> QED BY <1>2, <1>3, <2>1 DEF Life!life
<1>4. CASE Connect
  <2>1. net.pc = "none" /\ UNCHANGED <<isConnected, isStopping, disconnectedSent, heard, owner>>
    BY <1>4 DEF Connect, records
  <2>2. CASE net' = net
    <3>1. LifePc' = LifePc
      BY <2>1, <2>2 DEF LifePc
    <3> QED BY <1>2, <2>1, <3>1 DEF Life!life
  <2>3. CASE Goes("establishing")
    <3>1. net'.pc = "establishing" /\ net'.about = "none"
      BY <1>0, <2>1, <2>3, NetFields DEF NetPcs, FreshInv
    <3>2. ~disconnectedSent' /\ heard' = << >> /\ ~isConnected'
      BY <1>0, <2>1 DEF FreshInv
    <3>3. LifePc = "absent" /\ LifePc' = "connecting"
      BY <2>1, <3>1, <3>2 DEF LifePc, Contains
    <3>4. Life!Connect
      BY <1>2, <2>1, <3>3 DEF Life!Connect
    <3> QED BY <3>4 DEF Life!Next
  <2>4. PostConnectable
    BY <1>0, <1>4, <2>1 DEF Connect, PostConnectable, FreshInv, OwnerInv
  <2> QED BY <1>4, <2>2, <2>3, <2>4 DEF Connect
<1>5. CASE JoinNetworkThread
  <2>1. /\ UNCHANGED <<isConnected, isStopping, disconnectedSent, heard, net>>
        /\ net.pc \in {"none", "ended"} /\ isStopping /\ owner' = "done"
    BY <1>0, <1>5 DEF JoinNetworkThread, Owner, records, OwnerInv
  <2>2. LifePc' = LifePc /\ LifePc \in {"absent", "ended"}
    BY <2>1 DEF LifePc, Contains
  <2>3. Life!Joined
    BY <2>1, <2>2 DEF Life!Joined
  <2> QED BY <2>3 DEF Life!Next
<1>6. CASE DownchannelFinishes /\ ~isStopping
  <2>1. PICK n : n = [net EXCEPT !.finished = @ \ {Downchannel}]
    OBVIOUS
  <2>2. net' = [n EXCEPT !.pc = "telling", !.tell = observers, !.about = "onServerSideDisconnect"]
    BY <1>6, <2>1 DEF DownchannelFinishes
  <2>3. net'.pc = "telling" /\ net'.about = "onServerSideDisconnect"
    BY <1>0, <2>1, <2>2 DEF NetType
  <2>4. /\ net.pc = "cleanup" /\ Downchannel \in streams
        /\ UNCHANGED <<isConnected, isStopping, disconnectedSent, heard, owner>>
    BY <1>6 DEF DownchannelFinishes, NetHolds
  <2>5. ~disconnectedSent /\ ~ServerClosed /\ ~Heard("onServerSideDisconnect")
    BY <1>0, <2>4 DEF SaidInv, ClosedInv, Telling, ServerClosed
  <2>6. isConnected => Heard("onConnected")
    BY <1>0, <2>4 DEF SaidInv, Telling
  <2>7. LifePc \in {"connecting", "connected"} /\ LifePc' = "closing"
    BY <2>3, <2>4, <2>5, <2>6 DEF LifePc, Heard, ServerClosed
  <2>8. Life!ServerCloses
    BY <1>2, <1>6, <2>4, <2>7 DEF Life!ServerCloses
  <2> QED BY <2>8 DEF Life!Next
<1>7. CASE NotifyPostConnected
  <2>1. net.pc = "accepted" /\ net'.pc \in {"postConnected", "cleanup"} /\ net'.about = net.about
    BY <1>0, <1>7, NetFields DEF NotifyPostConnected, NetPcs
  <2> QED BY <1>3, <1>7, <2>1 DEF NotifyPostConnected
<1>8. CASE OnPostConnected
  <2>1. CASE Goes("cleanup") /\ UNCHANGED isConnected
    <3>1. net'.pc = "cleanup" /\ net'.about = net.about
      BY <1>0, <2>1, NetFields DEF NetPcs
    <3> QED BY <1>3, <1>8, <2>1, <3>1 DEF OnPostConnected
  <2>2. CASE ~isConnected /\ ~isStopping /\ Tells("onConnected") /\ isConnected' = TRUE
    <3>1. net'.pc = "telling" /\ net'.about = "onConnected"
      BY <1>0, <2>2, NetFields DEF Abouts
    <3>2. /\ net.pc = "postConnected" /\ UNCHANGED <<isStopping, disconnectedSent, heard, owner>>
      BY <1>8 DEF OnPostConnected
    <3>3. ~disconnectedSent /\ net.about = "none"
      BY <1>0, <2>2, <3>2 DEF SaidInv, ClosedInv, Telling, ServerClosed, Abouts
    <3>4. ~Heard("onServerSideDisconnect") /\ ~Heard("onConnected")
      BY <1>0, <2>2, <3>3 DEF SaidInv
    <3>5. LifePc = "connecting" /\ LifePc' = "announcing"
      BY <1>1, <2>2, <3>1, <3>2, <3>3, <3>4 DEF LifePc, Heard
    <3>6. Life!Connects
      BY <1>2, <2>2, <3>2, <3>5 DEF Life!Connects
    <3> QED BY <3>6 DEF Life!Next
  <2> QED BY <1>8, <2>1, <2>2 DEF OnPostConnected
<1>9. CASE TellRouter
  <2>1. net'.pc = "telling" /\ net.pc = "telling" /\ net'.about = net.about /\ net.about # "none"
    BY <1>0, <1>9 DEF TellRouter, NetType, NetHolds, Telling
  <2>2. \A about : Heard(about)' <=> Heard(about) \/ about = net.about
    BY <1>0, <1>9, HeardAppend DEF TellRouter, Heard
  <2>3. UNCHANGED <<isConnected, isStopping, disconnectedSent, owner>>
    BY <1>9 DEF TellRouter
  <2>4. CASE net.about = "onDisconnected"
    <3>1. LifePc' = LifePc
      BY <1>0, <2>1, <2>3, <2>4 DEF LifePc, SaidInv
    <3> QED BY <1>2, <2>3, <3>1 DEF Life!life
  <2>5. CASE ServerClosed
    <3>1. ~disconnectedSent
      BY <1>0, <2>5 DEF SaidInv, ServerClosed
    <3>2. LifePc \in {"closing", "draining"} /\ LifePc' = "draining"
      BY <2>1, <2>2, <2>3, <2>5, <3>1 DEF LifePc, ServerClosed, Heard
    <3>3. LifePc = "closing" => Life!OnServerSideDisconnect
      BY <1>2, <2>3, <3>2 DEF Life!OnServerSideDisconnect
    <3>4. LifePc = "draining" => Still
      BY <1>2, <2>3, <3>2 DEF Life!life
    <3> QED BY <3>2, <3>3, <3>4 DEF Life!Next
  <2>6. CASE net.about = "onConnected"
    <3>1. ~disconnectedSent /\ isConnected /\ ~Heard("onServerSideDisconnect")
      BY <1>0, <2>6 DEF SaidInv
    <3>2. LifePc \in {"announcing", "connected"} /\ LifePc' = "connected"
      BY <2>1, <2>2, <2>3, <2>6, <3>1 DEF LifePc, Heard
    <3>3. LifePc = "announcing" => Life!OnConnected
      BY <1>2, <2>3, <3>2 DEF Life!OnConnected
    <3>4. LifePc = "connected" => Still
      BY <1>2, <2>3, <3>2 DEF Life!life
    <3> QED BY <3>2, <3>3, <3>4 DEF Life!Next
  <2> QED BY <1>0, <2>1, <2>4, <2>5, <2>6 DEF Abouts, ServerClosed
<1>10. CASE TellSync \/ SyncStopped
  <2>1. net.pc \in {"telling", "joiningLoop"} /\ net'.pc \in {"telling", "joiningLoop"} /\ net'.about = net.about
    BY <1>0, <1>10, NetFields DEF TellSync, SyncStopped, NetPcs
  <2> QED BY <1>3, <1>10, <2>1 DEF TellSync, SyncStopped
<1>11. CASE AllTold
  <2>1. net.pc = "telling" /\ net'.pc \in {"leaving", "cleanup"} /\ net'.about = net.about
    BY <1>0, <1>11, NetFields DEF AllTold, NetPcs
  <2> QED BY <1>3, <1>11, <2>1 DEF AllTold
<1>12. CASE Disconnects
  <2>1. /\ Tells("onDisconnected") /\ disconnectedSent' = TRUE /\ isConnected' = FALSE
        /\ net.pc = "disconnecting" /\ ~disconnectedSent
        /\ UNCHANGED <<isStopping, heard, owner>>
    BY <1>0, <1>12 DEF Disconnects, SaidInv, Telling
  <2>2. net'.pc = "telling"
    BY <1>0, <2>1, NetFields DEF Abouts
  <2>3. isStopping
    BY <1>0, <2>1 DEF OverInv, Over
  <2>4. ServerClosed => Heard("onServerSideDisconnect")
    BY <1>0, <2>1 DEF SaidInv, Telling, ServerClosed
  <2>5. isConnected => Heard("onConnected")
    BY <1>0, <2>1 DEF SaidInv, Telling
  <2>6. LifePc \in {"connecting", "connected", "draining"} /\ LifePc' = "disconnecting"
    BY <2>1, <2>2, <2>4, <2>5 DEF LifePc, Heard, ServerClosed
  <2>7. Life!Disconnects
    BY <1>2, <2>1, <2>3, <2>6 DEF Life!Disconnects
  <2> QED BY <2>7 DEF Life!Next
<1>13. CASE Leaves
  <2>1. /\ net'.pc = "ended" /\ net.pc = "leaving" /\ disconnectedSent
        /\ UNCHANGED <<isConnected, isStopping, owner>>
    BY <1>0, <1>13, NetFields DEF Leaves, NetPcs, SaidInv
  <2>2. LifePc = "disconnecting" /\ LifePc' = "ended"
    BY <2>1 DEF LifePc
  <2>3. Life!OnDisconnected
    BY <1>2, <2>1, <2>2 DEF Life!OnDisconnected
  <2> QED BY <2>3 DEF Life!Next
<1> QED
  BY <1>4, <1>5, <1>6, <1>7, <1>8, <1>9, <1>10, <1>11, <1>12, <1>13 DEF Loud

\* The router hears of a connection in the order of TransportLife, for any messages and pool:
\* every step is one of that specification or leaves its variables alone.
THEOREM LifeImplemented == Spec => ImplementsLife
<1> DEFINE Inv == TypeInv /\ NetHolds /\ StreamsHold /\ EndsInv /\ LifeInv
<1>1. Init => Inv
  BY TypeInit, EndsInit, LifeInit
<1>2. Inv /\ [Next]_vars => Inv'
  BY TypeStep, EndsStep, LifeInvStep
<1>3. Init => Life!Init
  BY DEF Init, NoThread, Life!Init, LifePc, At
<1>4. Inv /\ Inv' /\ [Next]_vars => [Life!Next]_(Life!life)
  <2> SUFFICES ASSUME Inv, Inv', [Next]_vars PROVE [Life!Next]_(Life!life)
    OBVIOUS
  <2>1. isStopping \in BOOLEAN /\ isStopping' \in BOOLEAN
    BY DEF TypeInv, NetType
  <2>2. Quiet \/ Loud
    BY QuietOrLoud
  <2> QED BY <2>1, <2>2, QuietMaps, LoudMaps
<1> QED
  <2> HIDE DEF Inv
  <2> QED BY <1>1, <1>2, <1>3, <1>4, PTL DEF Spec, ImplementsLife, Life!Spec
=============================================================================
