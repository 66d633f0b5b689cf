-------------------------- MODULE CertifiedSender --------------------------
(***************************************************************************)
(* CertifiedSender/src/CertifiedSender.cpp and SQLiteMessageStorage.cpp:   *)
(* messages that are stored before they are sent, and sent one at a time   *)
(* until AVS has answered.                                                 *)
(*                                                                         *)
(* Threads: the executor's, which runs sendJSONMessage() and clearData()   *)
(* in the order of the calls (one critical section of m_mutex each); the   *)
(* worker in mainloop(); the connection's, which reports its status; ACL's,*)
(* which answers the request in flight; and the one in the destructor.     *)
(* The program may end at any time and be started again on its database.   *)
(***************************************************************************)
EXTENDS Naturals, Sequences, FiniteSets, FiniteSetsExt

CONSTANTS
  Messages,
  NoRequest,
  HardLimit,    \* queueSizeHardLimit
  MaxClears,    \* bound: calls of clearData()
  MaxRestarts   \* bound: restarts of the program

ASSUME SenderAssumption == HardLimit \in Nat /\ MaxClears \in Nat /\ MaxRestarts \in Nat

VARIABLES
  queue,        \* m_messagesToSend: requests [message, id]
  rows,         \* the rows of the messages table: [message, id]
  isConnected,
  isShuttingDown,
  worker,       \* the worker: its place, m_currentMessage and the answer to it
  accepted,     \* messages for which sendJSONMessage() promised true, in order
  answered,     \* messages AVS answered
  cleared,      \* messages of which clearData() disposed
  earlier,      \* messages accepted by an earlier run of the program
  raced,        \* clearData() ran while a request was in flight, in this run
  corrupted,    \* pop_front() was called on the empty deque: undefined behaviour
  clears, restarts

vars == <<queue, rows, isConnected, isShuttingDown, worker, accepted, answered, cleared,
          earlier, raced, corrupted, clears, restarts>>
history == <<earlier, clears, restarts>>

Accepted == {accepted[i] : i \in DOMAIN accepted}
InFlight == worker.pc \in {"sending", "waiting", "finishing"}
Running == ~corrupted /\ worker.pc # "exited"

Looping == [pc |-> "loop", request |-> NoRequest, answer |-> "none"]

\* m_workerThreadCV.notify_one()
Woken == IF worker.pc = "asleep" THEN Looping ELSE worker

Init ==
  /\ queue = << >> /\ rows = {}
  /\ isConnected = FALSE /\ isShuttingDown = FALSE
  /\ worker = Looping
  /\ accepted = << >> /\ answered = {} /\ cleared = {} /\ earlier = {}
  /\ raced = FALSE /\ corrupted = FALSE
  /\ clears = 0 /\ restarts = 0

-----------------------------------------------------------------------------
(* The executor *)

\* SQLiteMessageStorage::store(): one more than the greatest id in the table.
NextId == IF rows = {} THEN 1 ELSE Max({r.id : r \in rows}) + 1

HasRoom == Len(queue) < HardLimit

\* Fault: the worker is not woken.
SendUnnoticed(m) ==
  /\ Running /\ m \notin Accepted /\ HasRoom
  /\ LET r == [message |-> m, id |-> NextId]
     IN rows' = rows \cup {r} /\ queue' = Append(queue, r)
  /\ accepted' = Append(accepted, m)
  /\ UNCHANGED <<isConnected, isShuttingDown, worker, answered, cleared, raced, corrupted, history>>

\* executeSendJSONMessage(), when there is room and the row was stored; it returns false
\* otherwise, and nothing changes.
Send(m) ==
  /\ Running /\ m \notin Accepted /\ HasRoom
  /\ LET r == [message |-> m, id |-> NextId]
     IN rows' = rows \cup {r} /\ queue' = Append(queue, r)
  /\ accepted' = Append(accepted, m)
  /\ worker' = Woken
  /\ UNCHANGED <<isConnected, isShuttingDown, answered, cleared, raced, corrupted, history>>

\* clearData(): the request in flight is not looked at.  Clearing the table may fail.
ClearData(isDone) ==
  /\ Running /\ clears < MaxClears
  /\ queue' = << >>
  /\ rows' = IF isDone THEN {} ELSE rows
  /\ cleared' = cleared \cup Accepted
  /\ raced' = (raced \/ InFlight)
  /\ clears' = clears + 1
  /\ UNCHANGED <<isConnected, isShuttingDown, worker, accepted, answered, corrupted, earlier, restarts>>

-----------------------------------------------------------------------------
(* The connection and ACL *)

ConnectionStatusChanged(b) ==
  /\ Running
  /\ isConnected' = b
  /\ worker' = Woken
  /\ UNCHANGED <<queue, rows, isShuttingDown, accepted, answered, cleared, raced, corrupted, history>>

Answered(status) ==
  /\ worker' = [worker EXCEPT !.answer = status]
  /\ answered' = IF status = "failed" THEN answered ELSE answered \cup {worker.request.message}
  /\ UNCHANGED <<queue, rows, isConnected, isShuttingDown, accepted, cleared, raced, corrupted, history>>

\* sendCompleted() with a status of the server's or with another: only the first one counts.
SendCompleted(status) ==
  /\ Running /\ worker.pc = "waiting" /\ worker.answer = "none"
  /\ Answered(status)

\* exceptionReceived() takes the place of the answer that came before it.
ExceptionReceived ==
  /\ Running /\ worker.pc = "waiting"
  /\ Answered("exception")

-----------------------------------------------------------------------------
(* The worker: mainloop() *)

CanSend == isConnected /\ queue # << >>

WorkerSleep ==
  /\ Running /\ worker.pc = "loop" /\ ~CanSend /\ ~isShuttingDown
  /\ worker' = [worker EXCEPT !.pc = "asleep"]
  /\ UNCHANGED <<queue, rows, isConnected, isShuttingDown, accepted, answered, cleared, raced, corrupted, history>>

WorkerExit ==
  /\ Running /\ worker.pc = "loop" /\ isShuttingDown
  /\ worker' = [worker EXCEPT !.pc = "exited"]
  /\ UNCHANGED <<queue, rows, isConnected, isShuttingDown, accepted, answered, cleared, raced, corrupted, history>>

\* The front of the queue becomes m_currentMessage; it stays in the queue.
Pick ==
  /\ Running /\ worker.pc = "loop" /\ CanSend /\ ~isShuttingDown
  /\ worker' = [worker EXCEPT !.pc = "sending", !.request = Head(queue)]
  /\ UNCHANGED <<queue, rows, isConnected, isShuttingDown, accepted, answered, cleared, raced, corrupted, history>>

\* m_messageSender->sendMessage()
Transmit ==
  /\ Running /\ worker.pc = "sending"
  /\ worker' = [worker EXCEPT !.pc = "waiting"]
  /\ UNCHANGED <<queue, rows, isConnected, isShuttingDown, accepted, answered, cleared, raced, corrupted, history>>

\* Fault: waitForCompletion() does not return when the sender is destroyed.
AnsweredOnly == worker.answer # "none"

\* What ends waitForCompletion().
Completed == worker.answer # "none" \/ isShuttingDown

\* waitForCompletion() returns: TIMEDOUT when the sender is being destroyed.
WaitEnds ==
  /\ Running /\ worker.pc = "waiting" /\ Completed
  /\ worker' = [worker EXCEPT !.pc = "finishing", !.answer = IF isShuttingDown THEN "failed" ELSE @]
  /\ UNCHANGED <<queue, rows, isConnected, isShuttingDown, accepted, answered, cleared, raced, corrupted, history>>

\* isServerStatus() of what waitForCompletion() returned.
Delivered == worker.answer \in {"server", "exception"}

\* Fault: a message that could not be sent goes to the back of the queue.
RetryLast(q, r) == Append(Tail(q), r)

\* Fault: a message that could not be sent is dropped.
RetryNever(q, r) == Tail(q)

\* A fresh request for the message takes the place of the one that failed.
Retry(q, r) == <<r>> \o Tail(q)

\* The row is erased and the front of the queue popped, or a fresh request put in its place.
\* Nobody looks whether the front still is the request that was sent.
Finish(isErased) ==
  /\ Running /\ worker.pc = "finishing"
  /\ worker' = Looping
  /\ rows' = IF Delivered /\ isErased THEN {r \in rows : r.id # worker.request.id} ELSE rows
  /\ IF queue = << >>
     THEN corrupted' = TRUE /\ UNCHANGED queue
     ELSE /\ queue' = IF Delivered THEN Tail(queue) ELSE Retry(queue, worker.request)
          /\ UNCHANGED corrupted
  /\ UNCHANGED <<isConnected, isShuttingDown, accepted, answered, cleared, raced, history>>

-----------------------------------------------------------------------------
(* The end of the program *)

\* ~CertifiedSender(): the worker and the request in flight are told; then it is joined.
Destroy ==
  /\ Running /\ ~isShuttingDown
  /\ isShuttingDown' = TRUE
  /\ worker' = Woken
  /\ UNCHANGED <<queue, rows, isConnected, accepted, answered, cleared, raced, corrupted, history>>

\* A crash, or a new sender on the database of one that was destroyed.  init() opens the
\* database and starts the worker.
Restart ==
  /\ ~corrupted /\ restarts < MaxRestarts
  /\ restarts' = restarts + 1
  /\ queue' = << >>
  /\ worker' = Looping
  /\ isConnected' = FALSE /\ isShuttingDown' = FALSE /\ raced' = FALSE
  /\ earlier' = Accepted
  /\ UNCHANGED <<rows, accepted, answered, cleared, corrupted, clears>>

-----------------------------------------------------------------------------
Worker ==
  \/ WorkerSleep \/ WorkerExit \/ Pick \/ Transmit \/ WaitEnds
  \/ \E isErased \in BOOLEAN : Finish(isErased)

Next ==
  \/ \E m \in Messages : Send(m)
  \/ \E isDone \in BOOLEAN : ClearData(isDone)
  \/ \E b \in BOOLEAN : ConnectionStatusChanged(b)
  \/ \E status \in {"server", "failed"} : SendCompleted(status)
  \/ ExceptionReceived
  \/ Worker
  \/ Destroy \/ Restart

Spec == Init /\ [][Next]_vars

\* The worker runs.  Nothing is assumed of the connection or of ACL.
FairSpec == Spec /\ WF_vars(Worker)

-----------------------------------------------------------------------------
(* Properties *)

Requests == [message : Messages, id : Nat]

\* The queue, the table, the worker and the records have their types, and the queue never
\* outgrows queueSizeHardLimit, whatever is retried.
TypeOK ==
  /\ queue \in Seq(Requests) /\ Len(queue) <= HardLimit /\ rows \subseteq Requests
  /\ isConnected \in BOOLEAN /\ isShuttingDown \in BOOLEAN
  /\ worker \in [pc : {"loop", "asleep", "sending", "waiting", "finishing", "exited"},
                 request : Requests \cup {NoRequest}, answer : {"none", "server", "exception", "failed"}]
  /\ accepted \in Seq(Messages)
  /\ answered \subseteq Messages /\ cleared \subseteq Messages /\ earlier \subseteq Messages
  /\ raced \in BOOLEAN /\ corrupted \in BOOLEAN
  /\ clears \in 0 .. MaxClears /\ restarts \in 0 .. MaxRestarts

Open == Accepted \ (answered \cup cleared)

Waiting(m) == \E i \in DOMAIN queue : queue[i].message = m

\* Unless clearData() hit a request in flight: a message that was accepted in this run and
\* neither answered nor cleared waits in the queue, and its row is in the table under the id
\* that will be erased, so that a crash at any moment leaves it there.
OpenIsQueuedAndStored ==
  ~raced =>
    \A m \in Open \ earlier :
      \E i \in DOMAIN queue : queue[i].message = m /\ queue[i] \in rows

\* No two rows and no two requests share an id, even with rows of earlier runs and rows that
\* could not be erased: erasing an answered message erases no other.
IdsDiffer ==
  ~raced =>
    /\ \A r, s \in rows : r.id = s.id => r = s
    /\ \A i, j \in DOMAIN queue : queue[i].id = queue[j].id => i = j

\* "This class maintains the ordering of messages passed to it" (CertifiedSender.h): a message
\* is transmitted only when every one accepted before it is answered or gone, however often
\* sending fails, and unless clearData() hit a request in flight.
SentInOrder ==
  [][\A i, j \in DOMAIN accepted :
       i < j /\ ~raced /\ worker.pc = "sending" /\ worker'.pc = "waiting"
         /\ worker.request.message = accepted[j] /\ accepted[j] \notin cleared
       => accepted[i] \in answered \cup cleared \cup earlier]_vars

\* The worker sleeps only while it cannot send and the sender is not destroyed, whatever the
\* connection, retries and clearData() do: what waits on a connection is under way.  (Send and
\* Destroy include the notify_one() that follows their unlock: until it the worker may sleep on.)
WorkerSleepsOnlyIdle == Running /\ worker.pc = "asleep" => ~CanSend /\ ~isShuttingDown

\* The destructor returns, even when ACL never answers the request in flight.
DestroyReturns == isShuttingDown ~> worker.pc = "exited" \/ corrupted \/ ~isShuttingDown

\* Every queued message leaves the queue if the connection comes to stay, ACL answers every
\* request and AVS answers time and again.
QueueDrains ==
  (/\ <>[]isConnected
   /\ WF_vars(\E status \in {"server", "failed"} : SendCompleted(status))
   /\ SF_vars(SendCompleted("server")))
  => \A m \in Messages : Waiting(m) ~> ~Waiting(m) \/ isShuttingDown

\* "Once the message is persisted, the caller can expect the message to be sent to AVS at some
\* point in the future by this class" (CertifiedSender.h): until it is answered or cleared, an
\* accepted message waits to be sent.
AcceptedIsWaiting == ~corrupted => \A m \in Open : Waiting(m)
=============================================================================
