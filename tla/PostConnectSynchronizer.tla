----------------------- MODULE PostConnectSynchronizer -----------------------
(***************************************************************************)
(* ACL/src/Transport/PostConnectSynchronizer.cpp: on a new connection the  *)
(* context is fetched and sent to AVS in a SynchronizeState event; only    *)
(* when AVS has accepted it does the transport count as connected.         *)
(*                                                                         *)
(* A thread runs postConnectLoop(), which asks for the context again and   *)
(* again; the thread of the ContextManager answers; the transport's        *)
(* network thread reports what became of the event.  doShutdown() may be   *)
(* called by the network thread and by the owner of the transport.         *)
(***************************************************************************)
EXTENDS Naturals, Sequences, FiniteSets

VARIABLES
  sync,      \* the members guarded by m_mutex, and whether m_observers has the transport
  loop,      \* the place of m_postConnectThread in postConnectLoop()
  contexts,  \* calls of getContext() that the ContextManager has not answered
  callback   \* the place of the ContextManager's thread in onContextAvailable() or -Failure()

syncVars == <<sync, loop, contexts, callback>>

SyncInit ==
  /\ sync = [isStopping |-> FALSE, isPostConnected |-> FALSE, fetchInProgress |-> FALSE,
             transport |-> FALSE, observed |-> FALSE]
  /\ loop = "none" /\ contexts = 0 /\ callback = "none"

-----------------------------------------------------------------------------
(* The operations, as the sync that they leave behind *)

\* addObserver(); doPostConnect() is refused, or takes the transport and starts the thread.
PostConnectable == ~sync.isStopping /\ loop \in {"none", "exited"}
DoPostConnect(s) == [s EXCEPT !.transport = TRUE]
Observed == [sync EXCEPT !.observed = TRUE]

\* Fault: the flag is left as it is.
NotAcceptedUnsaid == sync

\* onSendCompleted(), with the event accepted, or with any other status; onExceptionReceived()
\* does what the latter does.
Accepted == [sync EXCEPT !.isPostConnected = TRUE]
NotAccepted == [sync EXCEPT !.fetchInProgress = FALSE]

\* Fault: the stop is not recorded, so that the loop goes on while it is joined.
StoppedUnsaid == [sync EXCEPT !.transport = FALSE]

\* doShutdown() up to the join; without effect the second time.
Stopped == [sync EXCEPT !.isStopping = TRUE, !.transport = FALSE]

\* Fault: the transport is still told when the event is answered.
ForgottenNot == sync

\* doShutdown() after the join: m_observers.clear().
Joinable == loop \in {"none", "exited"}
Forgotten == [sync EXCEPT !.observed = FALSE]

-----------------------------------------------------------------------------
(* postConnectLoop() *)

\* isStopping() and isPostConnected() lock m_mutex one after the other.
LoopStops ==
  /\ \/ loop = "top" /\ sync.isStopping
     \/ loop = "checked" /\ sync.isPostConnected
  /\ loop' = "exited"
  /\ UNCHANGED <<sync, contexts, callback>>

LoopGoesOn ==
  /\ \/ loop = "top" /\ ~sync.isStopping /\ loop' = "checked"
     \/ loop = "checked" /\ ~sync.isPostConnected /\ loop' = "fetch"
  /\ UNCHANGED <<sync, contexts, callback>>

LoopFetches ==
  /\ loop = "fetch"
  /\ contexts' = IF sync.fetchInProgress THEN contexts ELSE contexts + 1
  /\ sync' = [sync EXCEPT !.fetchInProgress = TRUE]
  /\ loop' = "waiting"
  /\ UNCHANGED callback

\* The back-off has passed, or somebody has woken the thread.
LoopWakes ==
  /\ loop = "waiting" /\ loop' = "top"
  /\ UNCHANGED <<sync, contexts, callback>>

PostConnectLoop == LoopStops \/ LoopGoesOn \/ LoopFetches \/ LoopWakes

-----------------------------------------------------------------------------
(* The answers of the ContextManager *)

\* Both of them are ignored when there is nothing more to do.  (The two flags are read one
\* after the other; they only ever rise.)
Ignored == sync.isPostConnected \/ sync.isStopping

ContextArrives(next) ==
  /\ callback = "none" /\ contexts > 0
  /\ contexts' = contexts - 1
  /\ callback' = IF Ignored THEN "none" ELSE next
  /\ UNCHANGED <<sync, loop>>

\* onContextAvailable() swaps m_transport with a null pointer: the next event has no transport.
SwapTransport ==
  /\ callback = "available"
  /\ callback' = IF sync.transport THEN "sending" ELSE "none"
  /\ sync' = [sync EXCEPT !.transport = FALSE]
  /\ UNCHANGED <<loop, contexts>>

\* onContextFailure()
ContextFails ==
  /\ callback = "failure"
  /\ sync' = NotAccepted
  /\ callback' = "none"
  /\ UNCHANGED <<loop, contexts>>

ContextManagerAnswers ==
  ContextArrives("available") \/ ContextArrives("failure") \/ SwapTransport \/ ContextFails
=============================================================================
