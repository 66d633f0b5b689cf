--------------------------- MODULE HTTP2Transport ---------------------------
(***************************************************************************)
(* ACL/src/Transport/HTTP2Transport.cpp with its PostConnectSynchronizer:  *)
(* one connection to AVS, from connect() to shutdown().                    *)
(*                                                                         *)
(* Threads: clients that send; the owner, which connects and shuts down;   *)
(* the network thread in networkLoop(); and those of the synchronizer.     *)
(* libcurl decides which streams get a response, finish, stall or fail;    *)
(* the ping and its answer are one of the errors that stop the transport.  *)
(* The observer's callbacks return (MessageRouter.tla).                    *)
(***************************************************************************)
EXTENDS PostConnectSynchronizer, SequencesExt

CONSTANTS
  Requests,    \* the clients' messages
  Event,       \* the SynchronizeState event
  Downchannel, \* the stream on which AVS sends directives
  MaxStreams   \* streams in m_streamPool

ASSUME StreamsAssumption ==
  /\ MaxStreams \in Nat \ {0}
  /\ Event \notin Requests /\ Downchannel \notin Requests \cup {Event}

VARIABLES
  isConnected, isStopping, disconnectedSent, \* the flags, guarded by m_mutex
  queue,     \* m_requestQueue
  observers, \* m_observers: the "router", and the synchronizer, "sync"
  net,       \* the network thread: its place, the streams that finished, whom it is telling
  streams,   \* m_activeStreams, the ping's left out
  responded, \* those of them that have a response code
  owner,     \* the place of the thread that connects and shuts down
  accepted, answers, lost, \* messages queued; how often each was answered; whose stream was
                           \* released without an answer
  heard      \* the callbacks made to the router, in order

flags == <<isConnected, isStopping, disconnectedSent>>
records == <<accepted, answers, lost, heard>>
vars == <<syncVars, flags, queue, observers, net, streams, responded, owner, records>>

Messages == Requests \cup {Event}
NoThread == [pc |-> "none", finished |-> {}, busy |-> TRUE, tell |-> {}, about |-> "none"]

Init ==
  /\ SyncInit
  /\ isConnected = FALSE /\ isStopping = FALSE /\ disconnectedSent = FALSE
  /\ queue = << >> /\ observers = {"router"}
  /\ net = NoThread /\ streams = {} /\ responded = {}
  /\ owner = "idle"
  /\ accepted = {} /\ answers = [m \in Messages |-> 0] /\ lost = {} /\ heard = << >>

Answered(m) == [answers EXCEPT ![m] = @ + 1]
At(pc) == net.pc = pc

\* The process runs: the network thread has not used a null pointer.
Alive == ~At("crashed")
Goes(pc) == net' = [net EXCEPT !.pc = pc]
Tells(about) == net' = [net EXCEPT !.pc = "telling", !.tell = observers, !.about = about]

-----------------------------------------------------------------------------
(* Clients *)

\* Fault: a message is queued although the network thread will not look any more.
EnqueueableAlways(m) == isConnected \/ m = Event

\* enqueueRequest(): the event is let through before the transport is connected.
Enqueueable(m) == ~isStopping /\ (isConnected \/ m = Event)

Enqueue(m) ==
  IF Enqueueable(m)
  THEN queue' = Append(queue, m) /\ accepted' = accepted \cup {m} /\ UNCHANGED answers
  ELSE UNCHANGED <<queue, accepted>> /\ answers' = IF m = Event THEN answers ELSE Answered(m)

\* send(); the status is NOT_CONNECTED when the message is not queued.
Send(m) ==
  /\ m \notin accepted /\ answers[m] = 0
  /\ Enqueue(m)
  /\ UNCHANGED <<syncVars, flags, observers, net, streams, responded, owner, lost, heard>>

\* The end of onContextAvailable(): sendPostConnectMessage() has nobody to tell of a refusal.
SendEvent ==
  /\ callback = "sending"
  /\ callback' = "none"
  /\ Enqueue(Event)
  /\ UNCHANGED <<sync, loop, contexts, flags, observers, net, streams, responded, owner, lost, heard>>

-----------------------------------------------------------------------------
(* The owner *)

\* connect(), all of it with m_mutex held; without effect once the transport is stopping or its
\* thread runs.  The downchannel may fail to be set up.  If doPostConnect() were refused, the
\* thread would call setIsStopping(), which locks m_mutex again.
Connect ==
  /\ ~isStopping /\ At("none")
  /\ \/ sync' = Observed /\ UNCHANGED <<loop, net, streams, observers>>
     \/ /\ PostConnectable
        /\ sync' = DoPostConnect(Observed) /\ loop' = "top"
        /\ observers' = observers \cup {"sync"}
        /\ streams' = {Downchannel} /\ Goes("establishing")
     \/ /\ ~PostConnectable
        /\ sync' = Observed /\ Goes("blocked")
        /\ UNCHANGED <<loop, streams, observers>>
  /\ UNCHANGED <<contexts, callback, flags, queue, responded, owner, records>>

Owner == <<contexts, callback, loop, isConnected, disconnectedSent, queue, net, streams, responded, records>>

\* Fault: the synchronizer is shut down first.
BeginShutdownUnsaid ==
  /\ owner = "idle" /\ owner' = "stopping"
  /\ UNCHANGED <<sync, isStopping, observers, Owner>>

\* shutdown() is disconnect(): setIsStoppingLocked(), and the threads to be joined are taken ...
BeginShutdown ==
  /\ owner = "idle" /\ owner' = "stopping"
  /\ isStopping' = TRUE
  /\ UNCHANGED <<sync, observers, Owner>>

\* ... first the synchronizer's, unless it is being shut down already, ...
ShutdownSync ==
  /\ owner = "stopping"
  /\ IF sync.isStopping THEN owner' = "joining" /\ UNCHANGED sync
                        ELSE owner' = "joiningLoop" /\ sync' = Stopped
  /\ UNCHANGED <<isStopping, observers, Owner>>

JoinLoop ==
  /\ owner = "joiningLoop" /\ Joinable
  /\ owner' = "joining" /\ sync' = Forgotten
  /\ UNCHANGED <<isStopping, observers, Owner>>

\* ... then the network thread.
JoinNetworkThread ==
  /\ owner = "joining" /\ net.pc \in {"none", "ended"}
  /\ owner' = "done" /\ observers' = {}
  /\ UNCHANGED <<sync, isStopping, Owner>>

-----------------------------------------------------------------------------
(* establishConnection() and the retries *)

Network == <<loop, contexts, callback, observers, owner, accepted>>

\* The downchannel has its response.
Established ==
  /\ At("establishing") /\ Goes("looping")
  /\ responded' = responded \cup {Downchannel}
  /\ UNCHANGED <<sync, flags, queue, streams, answers, lost, heard, Network>>

\* It ended, or the transport is stopping: the downchannel is set up again, if that works.
NotEstablished ==
  /\ At("establishing") /\ Goes("retrying")
  /\ \/ UNCHANGED <<isStopping, streams>>
     \/ isStopping' = TRUE /\ streams' = {}
  /\ UNCHANGED <<sync, isConnected, disconnectedSent, queue, responded, answers, lost, heard, Network>>

\* The back-off has passed, or m_wakeRetryTrigger was notified.
Retry ==
  /\ At("retrying") /\ Goes(IF isStopping THEN "looping" ELSE "establishing")
  /\ UNCHANGED <<sync, flags, queue, streams, responded, answers, lost, heard, Network>>

-----------------------------------------------------------------------------
(* The main loop of networkLoop() *)

\* curl_multi_perform(): streams finish, others get a response code.
Perform ==
  /\ At("looping") /\ net.busy /\ ~isStopping
  /\ \E finished \in SUBSET streams :
       /\ net' = [net EXCEPT !.pc = "cleanup", !.finished = finished, !.busy = finished # streams]
       /\ \E more \in SUBSET (streams \ finished) : responded' = responded \cup more
  /\ UNCHANGED <<sync, flags, queue, streams, answers, lost, heard, Network>>

\* setIsStopping(): libcurl failed, the ping was not sent or not answered.
Stops ==
  /\ At("looping") /\ ~isStopping
  /\ isStopping' = TRUE
  /\ UNCHANGED <<sync, net, isConnected, disconnectedSent, queue, streams, responded, answers, lost, heard, Network>>

\* cleanupFinishedStreams() meets the downchannel: AVS has closed the connection.
DownchannelFinishes ==
  /\ At("cleanup") /\ Downchannel \in net.finished
  /\ LET n == [net EXCEPT !.finished = @ \ {Downchannel}]
     IN  net' = IF isStopping THEN n
                ELSE [n EXCEPT !.pc = "telling", !.tell = observers, !.about = "onServerSideDisconnect"]
  /\ streams' = streams \ {Downchannel} /\ responded' = responded \ {Downchannel}
  /\ UNCHANGED <<sync, flags, queue, answers, lost, heard, Network>>

\* Fault: the stream of a message that timed out stays active.
ReleasedNot(m) == streams

Released(m) == streams \ {m}

\* A message is answered from the network thread, and its stream released.
Completes(m) ==
  /\ answers' = Answered(m)
  /\ streams' = Released(m)
  /\ responded' = responded \ {m}
  /\ UNCHANGED <<flags, queue, lost, heard, Network>>

\* What the synchronizer makes of a status that is not a success.
Refused(m) == IF m = Event THEN NotAccepted ELSE sync

MessageFinishes(m) ==
  /\ At("cleanup") /\ m \in net.finished \cap Requests
  /\ net' = [net EXCEPT !.finished = @ \ {m}]
  /\ Completes(m) /\ UNCHANGED sync

\* The response to the event is an error with a body: exceptionReceived() comes first.
EventExcepted ==
  /\ At("cleanup") /\ Event \in net.finished
  /\ Goes("excepted")
  /\ sync' = NotAccepted
  /\ UNCHANGED <<flags, queue, streams, responded, answers, lost, heard, Network>>

EventFinishes ==
  /\ At("cleanup") \/ At("excepted")
  /\ Event \in net.finished
  /\ \/ /\ At("cleanup") /\ sync' = Accepted
        /\ net' = [net EXCEPT !.finished = @ \ {Event}, !.pc = "accepted"]
     \/ /\ sync' = NotAccepted
        /\ net' = [net EXCEPT !.finished = @ \ {Event}, !.pc = "cleanup"]
  /\ Completes(Event)

\* cleanupStalledStreams(): no progress on the stream for STREAM_PROGRESS_TIMEOUT.
MessageStalls(m) ==
  /\ At("cleanup") /\ net.finished = {}
  /\ m \in streams \ {Downchannel}
  /\ sync' = Refused(m)
  /\ Completes(m) /\ UNCHANGED net

CleanupEnds ==
  /\ At("cleanup") /\ net.finished = {}
  /\ Goes(IF isStopping THEN "ending" ELSE "outgoing")
  /\ UNCHANGED <<sync, flags, queue, streams, responded, answers, lost, heard, Network>>

\* canProcessOutgoingMessage() and dequeueRequest()
Outgoing == ~isStopping /\ queue # << >> /\ streams \ {Downchannel} \subseteq responded

StreamFree == Cardinality(streams) < MaxStreams

\* processNextOutgoingMessage(): without authorization, or a stream for it, the message is
\* answered at once.  So it is when addHandle() fails and the curl handle cannot be reset.
SendsNext ==
  /\ At("outgoing") /\ Outgoing
  /\ queue' = Tail(queue)
  /\ \/ /\ StreamFree
        /\ streams' = streams \cup {Head(queue)}
        /\ UNCHANGED <<sync, answers>>
     \/ /\ answers' = Answered(Head(queue))
        /\ sync' = Refused(Head(queue))
        /\ UNCHANGED streams
  /\ Goes("looping")
  /\ UNCHANGED <<flags, responded, lost, heard, Network>>

\* addHandle() fails otherwise.  releaseStream() resets the stream, which forgets its request;
\* notifyRequestObserver() then calls sendCompleted() of no request, and the process ends.
AddHandleFails ==
  /\ At("outgoing") /\ Outgoing /\ StreamFree
  /\ queue' = Tail(queue)
  /\ lost' = lost \cup {Head(queue)}
  /\ Goes("crashed")
  /\ UNCHANGED <<sync, flags, streams, responded, answers, heard, Network>>

SendsNothing ==
  /\ At("outgoing") /\ ~Outgoing
  /\ Goes("looping")
  /\ UNCHANGED <<sync, flags, queue, streams, responded, answers, lost, heard, Network>>

-----------------------------------------------------------------------------
(* Callbacks *)

\* notifyObservers() of the synchronizer, which calls onPostConnected() if it has the transport.
NotifyPostConnected ==
  /\ At("accepted")
  /\ Goes(IF sync.observed THEN "postConnected" ELSE "cleanup")
  /\ UNCHANGED <<sync, flags, queue, streams, responded, answers, lost, heard, Network>>

\* setIsConnectedTrueUnlessStopping().  (m_observers does not change while the thread runs.)
OnPostConnected ==
  /\ At("postConnected")
  /\ IF isConnected \/ isStopping
     THEN Goes("cleanup") /\ UNCHANGED isConnected
     ELSE Tells("onConnected") /\ isConnected' = TRUE
  /\ UNCHANGED <<sync, isStopping, disconnectedSent, queue, streams, responded, answers, lost, heard, Network>>

TellRouter ==
  /\ At("telling") /\ "router" \in net.tell
  /\ heard' = Append(heard, net.about)
  /\ net' = [net EXCEPT !.tell = @ \ {"router"}]
  /\ UNCHANGED <<sync, flags, queue, streams, responded, answers, lost, Network>>

Told(n) == [n EXCEPT !.tell = @ \ {"sync"}, !.pc = "telling"]

\* The synchronizer shuts itself down when the connection goes: the network thread joins its
\* thread, unless the owner does so already.
TellSync ==
  /\ At("telling") /\ "sync" \in net.tell
  /\ IF net.about = "onConnected" \/ sync.isStopping
     THEN net' = Told(net) /\ UNCHANGED sync
     ELSE Goes("joiningLoop") /\ sync' = Stopped
  /\ UNCHANGED <<flags, queue, streams, responded, answers, lost, heard, Network>>

SyncStopped ==
  /\ At("joiningLoop") /\ Joinable
  /\ sync' = Forgotten /\ net' = Told(net)
  /\ UNCHANGED <<flags, queue, streams, responded, answers, lost, heard, Network>>

AllTold ==
  /\ At("telling") /\ net.tell = {}
  /\ Goes(IF net.about = "onDisconnected" THEN "leaving" ELSE "cleanup")
  /\ UNCHANGED <<sync, flags, queue, streams, responded, answers, lost, heard, Network>>

-----------------------------------------------------------------------------
(* The end of networkLoop() *)

\* Nothing is left to transfer, also when a message has just been given a stream.
LoopEnds ==
  /\ At("looping") /\ (isStopping \/ ~net.busy)
  /\ Goes("ending")
  /\ UNCHANGED <<sync, flags, queue, streams, responded, answers, lost, heard, Network>>

\* releaseAllEventStreams() tells nobody what became of the messages on these streams.
ReleaseAll ==
  /\ At("ending") /\ Goes("clearing")
  /\ isStopping' = TRUE
  /\ lost' = lost \cup (streams \ {Downchannel})
  /\ streams' = {} /\ responded' = {}
  /\ UNCHANGED <<sync, isConnected, disconnectedSent, queue, answers, heard, Network>>

\* clearQueuedRequests(), with m_mutex held; the status is NOT_CONNECTED.
ClearQueue ==
  /\ At("clearing") /\ Goes("disconnecting")
  /\ answers' = [m \in Messages |-> IF m \in ToSet(queue) THEN answers[m] + 1 ELSE answers[m]]
  /\ sync' = IF Event \in ToSet(queue) THEN NotAccepted ELSE sync
  /\ queue' = << >>
  /\ UNCHANGED <<flags, streams, responded, lost, heard, Network>>

\* setIsConnectedFalse()
Disconnects ==
  /\ At("disconnecting")
  /\ IF disconnectedSent
     THEN Goes("leaving") /\ UNCHANGED <<disconnectedSent, isConnected>>
     ELSE Tells("onDisconnected") /\ disconnectedSent' = TRUE /\ isConnected' = FALSE
  /\ UNCHANGED <<sync, isStopping, queue, streams, responded, answers, lost, heard, Network>>

Leaves ==
  /\ At("leaving") /\ Goes("ended")
  /\ UNCHANGED <<sync, flags, queue, streams, responded, answers, lost, heard, Network>>

-----------------------------------------------------------------------------
MessageEnds(m) == MessageFinishes(m) \/ MessageStalls(m)

NetworkThread ==
  \/ Established \/ NotEstablished \/ Retry \/ Perform \/ DownchannelFinishes
  \/ (\E m \in Messages : MessageEnds(m)) \/ EventExcepted \/ EventFinishes \/ CleanupEnds
  \/ SendsNext \/ AddHandleFails \/ SendsNothing
  \/ NotifyPostConnected \/ OnPostConnected \/ TellRouter \/ TellSync \/ SyncStopped \/ AllTold
  \/ LoopEnds \/ ReleaseAll \/ ClearQueue \/ Disconnects \/ Leaves

Elsewhere == <<flags, queue, observers, net, streams, responded, owner, records>>
Synchronizer ==
  /\ Alive
  /\ \/ (PostConnectLoop \/ ContextManagerAnswers) /\ UNCHANGED Elsewhere
     \/ SendEvent

Shuts == Alive /\ (ShutdownSync \/ JoinLoop \/ JoinNetworkThread)

\* No thread takes a step when the process has ended.
Next ==
  \/ Alive /\ \E m \in Requests : Send(m)
  \/ Connect \/ (Alive /\ BeginShutdown) \/ Shuts
  \/ NetworkThread \/ Stops
  \/ Synchronizer

Spec == Init /\ [][Next]_vars

\* Threads run; a stream without progress times out, so that every message comes to an end.
FairSpec ==
  /\ Spec
  /\ WF_vars(NetworkThread) /\ \A m \in Messages : SF_vars(MessageEnds(m))
  /\ WF_vars(Synchronizer) /\ WF_vars(Shuts)

-----------------------------------------------------------------------------
(* Properties *)

\* Every variable has its type.
TypeOK ==
  /\ sync \in [isStopping : BOOLEAN, isPostConnected : BOOLEAN, fetchInProgress : BOOLEAN,
               transport : BOOLEAN, observed : BOOLEAN]
  /\ loop \in {"none", "top", "checked", "fetch", "waiting", "exited"}
  /\ contexts \in Nat /\ callback \in {"none", "available", "failure", "sending"}
  /\ isConnected \in BOOLEAN /\ isStopping \in BOOLEAN /\ disconnectedSent \in BOOLEAN
  /\ queue \in Seq(Messages) /\ observers \subseteq {"router", "sync"}
  /\ net.finished \subseteq Messages \cup {Downchannel} /\ net.tell \subseteq observers
  /\ streams \subseteq Messages \cup {Downchannel} /\ Cardinality(streams) <= MaxStreams
  /\ responded \subseteq streams
  /\ owner \in {"idle", "stopping", "joiningLoop", "joining", "done"}
  /\ accepted \subseteq Messages /\ answers \in [Messages -> Nat] /\ lost \subseteq Messages

One(condition) == IF condition THEN 1 ELSE 0
Queued(m) == Cardinality({i \in DOMAIN queue : queue[i] = m})

\* A message that was accepted waits in the queue, is on a stream, was answered, or was dropped
\* with its stream, when the loop ended or with the process (AddHandleFails): it is at one of these
\* places, once, so that it is never answered twice and none is overlooked by clearQueuedRequests().
AnsweredOnce ==
  \A m \in accepted : Queued(m) + One(m \in streams) + answers[m] + One(m \in lost) = 1

\* connect() never calls setIsStopping() with m_mutex held: however it, shutdown() and the end of
\* the network thread follow each other, doPostConnect() is not refused.
ConnectNeverBlocks == ~At("blocked")

\* Where the connection is in the eyes of the router.
LifePc ==
  IF At("none") THEN "absent"
  ELSE IF At("ended") THEN "ended"
  ELSE IF disconnectedSent THEN "disconnecting"
  ELSE IF Contains(heard, "onServerSideDisconnect") THEN "draining"
  ELSE IF net.about = "onServerSideDisconnect" THEN "closing"
  ELSE IF Contains(heard, "onConnected") THEN "connected"
  ELSE IF isConnected THEN "announcing" ELSE "connecting"

Life == INSTANCE TransportLife WITH pc <- LifePc, isShutdown <- owner = "done"

\* The router hears of the connection in the order of TransportLife: never of a connection after
\* its end, although the answer to the event races the end of the downchannel and shutdown().
ImplementsLife == Life!Spec

\* "Notify the current request observer that the transfer is complete with the specified status
\* code" (HTTP2Stream.h, notifyRequestObserver()): before the main loop ends nobody's message is
\* dropped without an answer.  The code that handles a failure of addHandle() breaks this.
FailuresAreReported == [][~At("ending") => lost' = lost]_vars

\* A message in the queue is answered in the end, or dropped when the loop ends, unless the process
\* ends before.
QueueServed == \A m \in Requests : Queued(m) > 0 ~> (answers[m] > 0 \/ m \in lost \/ ~Alive)

\* shutdown() returns, whatever the two threads that it joins are doing, also when the network
\* thread joins the synchronizer's thread meanwhile, unless the process ends before.
ShutdownReturns == owner = "stopping" ~> owner = "done" \/ ~Alive

\* A context or an event is on its way, or has just come back.
Outstanding ==
  \/ contexts > 0 \/ callback # "none"
  \/ Queued(Event) > 0 \/ Event \in streams
  \/ At("excepted")

\* "Set when a context fetch is in progress and reset when the context fetch fails or when the
\* send of SynchronizeState event fails" (PostConnectSynchronizer.h, m_contextFetchInProgress).
FetchIsInProgress ==
  /\ loop = "waiting" /\ sync.fetchInProgress
  /\ ~sync.isPostConnected /\ ~sync.isStopping /\ ~isStopping
  => Outstanding

\* The same, as long as no event came back: a synchronizer that waits has something to wait for.
FirstFetchIsInProgress == Alive /\ answers[Event] = 0 => FetchIsInProgress
=============================================================================
