----------------------- MODULE CertifiedSenderProofs -----------------------
(* What CertifiedSender.tla promises for any messages and limits, and any    *)
(* number of clears, failures and restarts.                                   *)
EXTENDS CertifiedSender, SequenceTheorems, WellFoundedInduction, TLAPS

(* The inductive invariant *)

Workers == [pc : {"loop", "asleep", "sending", "waiting", "finishing", "exited"},
            request : Requests \cup {NoRequest}, answer : {"none", "server", "exception", "failed"}]

\* The request in flight stays at the front of the queue until it is finished, and an answer
\* of the server's is that of a message that was answered.
WorkerFits ==
  /\ InFlight => worker.request \in Requests
  /\ InFlight /\ ~raced => queue # << >> /\ worker.request = queue[1]
  /\ worker.pc \in {"loop", "asleep", "sending"} => worker.answer = "none"
  /\ Delivered => worker.request.message \in answered

\* The table has an id that is not exceeded, and no id twice.
RowsFit ==
  /\ \E n \in Nat : \A r \in rows : r.id <= n
  /\ \A r, s \in rows : r.id = s.id => r = s

\* What is queued was accepted and is stored, under an id of its own.
QueueFits ==
  ~raced => \A i \in DOMAIN queue : /\ queue[i] \in rows /\ queue[i].message \in Accepted
                                    /\ \A j \in DOMAIN queue : queue[i].id = queue[j].id => i = j

AcceptedOnce == \A i, j \in DOMAIN accepted : accepted[i] = accepted[j] => i = j

\* The queue has the order of acceptance.
InOrder ==
  ~raced => \A p, q \in DOMAIN queue, k, l \in DOMAIN accepted :
              p < q /\ queue[p].message = accepted[k] /\ queue[q].message = accepted[l] => k < l

\* Nothing that is owed to AVS has left the queue.
OpenWaits == ~raced => \A m \in Open \ earlier : Waiting(m)

SenderInv ==
  /\ TypeOK /\ WorkerFits /\ RowsFit
  /\ QueueFits /\ AcceptedOnce /\ InOrder /\ OpenWaits

-----------------------------------------------------------------------------
(* The next id *)

LEMMA LeastElement ==
  ASSUME NEW T, T \subseteq Nat, T # {}
  PROVE  \E x \in T : \A y \in T : x <= y
<1>1. PICK x \in T : \A y \in T : ~ (<<y, x>> \in OpToRel(<, Nat))
  BY NatLessThanWellFounded, WFMin
<1>2. \A y \in T : ~(y < x)
  BY <1>1 DEF OpToRel
<1> QED BY <1>2

\* A set of numbers with a bound has a greatest one.
LEMMA GreatestElement ==
  ASSUME NEW S, S \subseteq Nat, S # {}, NEW n \in Nat, \A x \in S : x <= n
  PROVE  Max(S) \in S /\ \A x \in S : x <= Max(S)
<1> DEFINE T == {b \in Nat : \A x \in S : x <= b}
<1>1. PICK b \in T : \A c \in T : b <= c
  <2>1. n \in T
    OBVIOUS
  <2> HIDE DEF T
  <2>2. T \subseteq Nat
    BY DEF T
  <2> QED
    BY <2>1, <2>2, LeastElement
<1>2. b \in S
  <2> SUFFICES ASSUME b \notin S PROVE FALSE
    OBVIOUS
  <2>1. PICK x \in S : TRUE
    OBVIOUS
  <2>2. \A y \in S : y <= b - 1
    BY <1>1
  <2>3. b - 1 \in T
    BY <1>1, <2>1, <2>2
  <2> QED
    BY <1>1, <2>3
<1>3. \A x \in S : b >= x
  BY <1>1
<1>4. \E x \in S : \A y \in S : x >= y
  BY <1>2, <1>3
<1>5. Max(S) \in S /\ \A y \in S : Max(S) >= y
  BY <1>4 DEF Max
<1> QED
  BY <1>5

LEMMA NextIdIs == ASSUME SenderInv PROVE NextId \in Nat /\ \A r \in rows : r.id < NextId
<1>1. rows \subseteq Requests
  BY DEF SenderInv, TypeOK
<1>2. PICK n \in Nat : \A r \in rows : r.id <= n
  BY DEF SenderInv, RowsFit
<1>3. CASE rows = {}
  BY <1>3 DEF NextId
<1>4. CASE rows # {}
  <2>1. PICK S : S = {r.id : r \in rows}
    OBVIOUS
  <2>2. S \subseteq Nat /\ S # {} /\ \A x \in S : x <= n
    BY <1>1, <1>2, <1>4, <2>1 DEF Requests
  <2>3. Max(S) \in Nat /\ \A x \in S : x <= Max(S)
    BY <2>2, GreatestElement
  <2>4. NextId = Max(S) + 1
    BY <1>4, <2>1 DEF NextId
  <2>5. \A r \in rows : r.id \in S
    BY <2>1
  <2>6. \A x \in S : x < Max(S) + 1
    BY <2>2, <2>3
  <2> QED
    BY <2>3, <2>4, <2>5, <2>6
<1> QED
  BY <1>3, <1>4

-----------------------------------------------------------------------------
LEMMA InitInv == Init => SenderInv
<1> SUFFICES ASSUME Init PROVE SenderInv
  OBVIOUS
<1>1. queue = << >> /\ accepted = << >> /\ rows = {} /\ worker = Looping
  BY DEF Init
<1>2. DOMAIN queue = {} /\ DOMAIN accepted = {} /\ Len(queue) = 0 /\ queue \in Seq(Requests) /\ accepted \in Seq(Messages)
  BY <1>1
<1>3. TypeOK
  <2>1. 0 <= HardLimit /\ 0 \in 0 .. MaxClears /\ 0 \in 0 .. MaxRestarts
    BY SenderAssumption
  <2>2. worker \in Workers
    BY <1>1 DEF Looping, Workers
  <2> QED
    BY <1>1, <1>2, <2>1, <2>2 DEF Init, TypeOK, Workers
<1>4. WorkerFits /\ RowsFit
  BY <1>1 DEF WorkerFits, RowsFit, Looping, InFlight, Delivered
<1>5. QueueFits /\ AcceptedOnce /\ InOrder
  BY <1>2 DEF QueueFits, AcceptedOnce, InOrder
<1>6. OpenWaits
  BY <1>2 DEF OpenWaits, Open, Accepted
<1> QED
  BY <1>3, <1>4, <1>5, <1>6 DEF SenderInv

\* A step that leaves the queue, the table and the promises alone.
LEMMA QuietStep ==
  ASSUME SenderInv, UNCHANGED <<queue, rows, accepted, cleared, raced, corrupted, history>>,
         isConnected' \in BOOLEAN, isShuttingDown' \in BOOLEAN, worker' \in Workers,
         answered \subseteq answered', answered' \subseteq Messages, WorkerFits'
  PROVE  SenderInv'
<1>1. TypeOK'
  BY DEF SenderInv, TypeOK, Workers, history
<1>2. RowsFit' /\ QueueFits' /\ AcceptedOnce' /\ InOrder'
  BY DEF SenderInv, RowsFit, QueueFits, AcceptedOnce, InOrder, Accepted
<1>3. OpenWaits'
  BY DEF SenderInv, OpenWaits, Open, Accepted, Waiting, history
<1> QED
  BY <1>1, <1>2, <1>3 DEF SenderInv

LEMMA WorkerIs ==
  ASSUME SenderInv
  PROVE  /\ worker \in Workers /\ WorkerFits /\ isConnected \in BOOLEAN /\ isShuttingDown \in BOOLEAN
         /\ queue \in Seq(Requests) /\ accepted \in Seq(Messages) /\ answered \subseteq Messages
         /\ worker = [pc |-> worker.pc, request |-> worker.request, answer |-> worker.answer]
<1>1. worker \in Workers
  BY DEF SenderInv, TypeOK, Workers
<1> QED
  BY <1>1 DEF SenderInv, TypeOK, Workers

\* Waking the worker makes it test its predicate again.
LEMMA WokenIs == ASSUME SenderInv PROVE Woken \in Workers /\ (worker.pc # "asleep" => Woken = worker) /\ Woken.pc # "asleep"
  BY WorkerIs DEF Woken, Looping, Workers

LEMMA WokenStep ==
  ASSUME SenderInv, UNCHANGED <<queue, rows, accepted, answered, cleared, raced, corrupted, history>>,
         isConnected' \in BOOLEAN, isShuttingDown' \in BOOLEAN, worker' = Woken
  PROVE  SenderInv'
<1>1. WorkerFits'
  BY WorkerIs DEF WorkerFits, InFlight, Delivered, Woken, Looping
<1> QED
  BY <1>1, WokenIs, WorkerIs, QuietStep

LEMMA AnsweredInv ==
  ASSUME SenderInv, NEW status \in {"server", "exception", "failed"}, worker.pc = "waiting", Answered(status)
  PROVE  SenderInv'
<1>1. worker' = [worker EXCEPT !.answer = status] /\ worker.request \in Requests
  BY WorkerIs DEF Answered, WorkerFits, InFlight
<1>2. worker' \in Workers /\ worker'.pc = "waiting" /\ worker'.request = worker.request /\ worker'.answer = status
  BY <1>1, WorkerIs DEF Workers
<1>3. /\ answered' = IF status = "failed" THEN answered ELSE answered \cup {worker.request.message}
      /\ UNCHANGED <<queue, rows, isConnected, isShuttingDown, accepted, cleared, raced, corrupted, history>>
  BY DEF Answered
<1>4. worker.request.message \in Messages
  BY <1>1 DEF Requests
<1>5. answered \subseteq answered' /\ answered' \subseteq Messages
  BY <1>3, <1>4, WorkerIs
<1>6. WorkerFits'
  BY <1>2, <1>3, WorkerIs DEF WorkerFits, InFlight, Delivered
<1> QED
  BY <1>2, <1>3, <1>5, <1>6, WorkerIs, QuietStep

\* The worker's steps up to the end of the wait.
LEMMA WorkerInv == ASSUME SenderInv, WorkerSleep \/ WorkerExit \/ Pick \/ Transmit \/ WaitEnds PROVE SenderInv'
<1>0. UNCHANGED <<queue, rows, isConnected, isShuttingDown, accepted, answered, cleared, raced, corrupted, history>>
  BY DEF WorkerSleep, WorkerExit, Pick, Transmit, WaitEnds
<1>1. CASE WorkerSleep \/ WorkerExit
  <2>1. PICK pc \in {"asleep", "exited"} : worker' = [worker EXCEPT !.pc = pc] /\ worker.pc = "loop"
    BY <1>1 DEF WorkerSleep, WorkerExit
  <2>2. worker' \in Workers /\ worker'.pc = pc /\ worker'.request = worker.request /\ worker'.answer = worker.answer
    BY <2>1, WorkerIs DEF Workers
  <2>3. WorkerFits'
    BY <1>0, <2>1, <2>2, WorkerIs DEF WorkerFits, InFlight, Delivered
  <2> QED
    BY <1>0, <2>2, <2>3, WorkerIs, QuietStep
<1>2. CASE Pick
  <2>1. worker' = [worker EXCEPT !.pc = "sending", !.request = Head(queue)] /\ worker.pc = "loop" /\ queue # << >>
    BY <1>2 DEF Pick, CanSend
  <2>2. Head(queue) \in Requests /\ Head(queue) = queue[1]
    BY <2>1, WorkerIs, HeadTailProperties
  <2>3. worker' \in Workers /\ worker'.pc = "sending" /\ worker'.request = Head(queue) /\ worker'.answer = worker.answer
    BY <2>1, <2>2, WorkerIs DEF Workers
  <2>4. WorkerFits'
    BY <1>0, <2>1, <2>2, <2>3, WorkerIs DEF WorkerFits, InFlight, Delivered
  <2> QED
    BY <1>0, <2>3, <2>4, WorkerIs, QuietStep
<1>3. CASE Transmit
  <2>1. worker' = [worker EXCEPT !.pc = "waiting"] /\ worker.pc = "sending"
    BY <1>3 DEF Transmit
  <2>2. worker' \in Workers /\ worker'.pc = "waiting" /\ worker'.request = worker.request /\ worker'.answer = worker.answer
    BY <2>1, WorkerIs DEF Workers
  <2>3. WorkerFits'
    BY <1>0, <2>1, <2>2, WorkerIs DEF WorkerFits, InFlight, Delivered
  <2> QED
    BY <1>0, <2>2, <2>3, WorkerIs, QuietStep
<1>4. CASE WaitEnds
  <2>1. PICK answer \in {worker.answer, "failed"} :
          worker' = [worker EXCEPT !.pc = "finishing", !.answer = answer] /\ worker.pc = "waiting"
    BY <1>4 DEF WaitEnds
  <2>2. worker' \in Workers /\ worker'.pc = "finishing" /\ worker'.request = worker.request /\ worker'.answer = answer
    BY <2>1, WorkerIs DEF Workers
  <2>3. WorkerFits'
    BY <1>0, <2>1, <2>2, WorkerIs DEF WorkerFits, InFlight, Delivered
  <2> QED
    BY <1>0, <2>2, <2>3, WorkerIs, QuietStep
<1> QED
  BY <1>1, <1>2, <1>3, <1>4

-----------------------------------------------------------------------------
(* The steps that change the queue *)

\* A message is stored under an id above all others and queued behind them.
LEMMA SendInv == ASSUME SenderInv, NEW m \in Messages, Send(m) PROVE SenderInv'
<1>0. /\ queue \in Seq(Requests) /\ accepted \in Seq(Messages) /\ rows \subseteq Requests
      /\ TypeOK /\ WorkerFits /\ RowsFit /\ QueueFits /\ AcceptedOnce /\ InOrder /\ OpenWaits
  BY DEF SenderInv, TypeOK
<1>1. PICK r : r = [message |-> m, id |-> NextId]
  OBVIOUS
<1>2. /\ rows' = rows \cup {r} /\ queue' = Append(queue, r) /\ accepted' = Append(accepted, m)
      /\ m \notin Accepted /\ Len(queue) < HardLimit /\ worker' = Woken
      /\ UNCHANGED <<isConnected, isShuttingDown, answered, cleared, raced, corrupted, earlier, clears, restarts>>
  BY <1>1 DEF Send, HasRoom, history
<1>3. r \in Requests /\ r.message = m /\ r.id \in Nat /\ \A s \in rows : s.id < r.id
  BY <1>1, NextIdIs DEF Requests
<1>4. PICK n, l \in Nat : n = Len(queue) /\ l = Len(accepted) /\ DOMAIN queue = 1 .. n /\ DOMAIN accepted = 1 .. l
  BY <1>0
<1>5. /\ queue' \in Seq(Requests) /\ DOMAIN queue' = 1 .. n + 1 /\ queue'[n + 1] = r
      /\ \A i \in 1 .. n : queue'[i] = queue[i]
  BY <1>0, <1>2, <1>3, <1>4, AppendProperties
<1>6. /\ accepted' \in Seq(Messages) /\ DOMAIN accepted' = 1 .. l + 1 /\ accepted'[l + 1] = m
      /\ \A i \in 1 .. l : accepted'[i] = accepted[i]
  BY <1>0, <1>2, <1>4, AppendProperties
<1>7. \A i \in 1 .. l : accepted[i] # m /\ accepted[i] \in Accepted
  BY <1>2, <1>4 DEF Accepted
<1>8. Accepted' = Accepted \cup {m}
  BY <1>4, <1>6 DEF Accepted
<1>9. TypeOK'
  <2>1. Len(queue') <= HardLimit
    BY <1>0, <1>2, <1>3, SenderAssumption, AppendProperties
  <2>2. worker' \in Workers
    BY <1>2, WokenIs
  <2> QED
    BY <1>0, <1>2, <1>3, <1>5, <1>6, <2>1, <2>2 DEF TypeOK, Workers
<1>10. WorkerFits'
  <2>1. queue # << >> => queue' # << >> /\ queue'[1] = queue[1]
    <3>1. queue # << >> => 1 \in 1 .. n
      BY <1>0, <1>4
    <3> QED
      BY <1>2, <1>3, <1>5, <3>1, <1>0, AppendProperties
  <2> QED
    BY <1>0, <1>2, <2>1, WorkerIs DEF WorkerFits, InFlight, Delivered, Woken, Looping
<1>11. RowsFit'
  <2>1. \A s \in rows' : s.id <= r.id
    BY <1>0, <1>2, <1>3 DEF Requests
  <2>2. \A s, t \in rows' : s.id = t.id => s = t
    <3>1. \A s \in rows : s.id \in Nat /\ s.id # r.id
      BY <1>0, <1>3 DEF Requests
    <3> QED
      BY <1>0, <1>2, <3>1 DEF RowsFit
  <2> QED
    BY <1>3, <2>1, <2>2 DEF RowsFit
<1>12. QueueFits'
  <2> SUFFICES ASSUME ~raced, NEW i \in 1 .. n + 1
               PROVE  /\ queue'[i] \in rows' /\ queue'[i].message \in Accepted'
                      /\ \A j \in 1 .. n + 1 : queue'[i].id = queue'[j].id => i = j
    BY <1>2, <1>5 DEF QueueFits
  <2>1. \A j \in 1 .. n : /\ queue[j] \in rows /\ queue[j].message \in Accepted
                          /\ \A k \in 1 .. n : queue[j].id = queue[k].id => j = k
    BY <1>0, <1>4 DEF QueueFits
  <2>2. \A j \in 1 .. n : queue[j].id # r.id
    BY <1>0, <1>3, <2>1 DEF Requests
  <2>3. \A j \in 1 .. n + 1 : j \in 1 .. n \/ j = n + 1
    OBVIOUS
  <2>4. \A j \in 1 .. n + 1 : queue'[i].id = queue'[j].id => i = j
    BY <1>5, <2>1, <2>2, <2>3
  <2>5. queue'[i] \in rows' /\ queue'[i].message \in Accepted'
    BY <1>2, <1>3, <1>5, <1>8, <2>1, <2>3
  <2> QED
    BY <2>4, <2>5
<1>13. AcceptedOnce'
  <2>1. \A i, j \in 1 .. l : accepted[i] = accepted[j] => i = j
    BY <1>0, <1>4 DEF AcceptedOnce
  <2>2. \A i \in 1 .. l + 1 : i \in 1 .. l \/ i = l + 1
    OBVIOUS
  <2>3. \A i, j \in 1 .. l + 1 : accepted'[i] = accepted'[j] => i = j
    BY <1>6, <1>7, <2>1, <2>2
  <2> QED
    BY <1>6, <2>3 DEF AcceptedOnce
<1>14. InOrder'
  <2>0. UNCHANGED raced /\ DOMAIN queue' = 1 .. n + 1 /\ DOMAIN accepted' = 1 .. l + 1
    BY <1>2, <1>5, <1>6
  <2> SUFFICES ASSUME ~raced, NEW p \in 1 .. n + 1, NEW q \in 1 .. n + 1, NEW j \in 1 .. l + 1, NEW k \in 1 .. l + 1,
                      p < q, queue'[p].message = accepted'[j], queue'[q].message = accepted'[k]
               PROVE  j < k
    BY <2>0 DEF InOrder
  <2>1. \A i \in 1 .. n : queue[i].message \in Accepted
    BY <1>0, <1>4 DEF QueueFits
  <2>a. p \in 1 .. n
    OBVIOUS
  <2>2. p \in 1 .. n /\ queue'[p].message = queue[p].message /\ queue[p].message # m
    BY <1>2, <1>5, <2>1, <2>a
  <2>3. j \in 1 .. l /\ accepted'[j] = accepted[j]
    <3>1. j # l + 1
      BY <1>6, <2>2
    <3>2. j \in 1 .. l
      BY <3>1
    <3> QED
      BY <1>6, <3>2
  <2>4. CASE q = n + 1
    <3>1. accepted'[k] = m
      BY <1>3, <1>5, <2>4
    <3>2. k = l + 1
      <4>1. k \notin 1 .. l
        BY <1>6, <1>7, <3>1
      <4> QED
        BY <4>1
    <3> QED
      BY <2>3, <3>2
  <2>5. CASE q # n + 1
    <3>1. q \in 1 .. n
      BY <2>5
    <3>2. queue'[q].message = queue[q].message /\ queue[q].message # m
      BY <1>2, <1>5, <2>1, <3>1
    <3>3. k # l + 1
      BY <1>6, <3>2
    <3>4. k \in 1 .. l
      BY <3>3
    <3>5. accepted'[k] = accepted[k]
      BY <1>6, <3>4
    <3> QED
      BY <1>0, <1>4, <2>2, <2>3, <3>1, <3>2, <3>4, <3>5 DEF InOrder
  <2> QED
    BY <2>4, <2>5
<1>15. OpenWaits'
  <2> SUFFICES ASSUME ~raced, NEW x \in Accepted', x \notin answered \cup cleared \cup earlier
               PROVE  \E i \in 1 .. n + 1 : queue'[i].message = x
    BY <1>2, <1>5 DEF OpenWaits, Open, Waiting
  <2>1. CASE x = m
    <3>1. n + 1 \in 1 .. n + 1
      OBVIOUS
    <3> QED
      BY <1>3, <1>5, <2>1, <3>1
  <2>2. CASE x # m
    <3>0. Waiting(x)
      BY <1>0, <1>8, <2>2 DEF OpenWaits, Open
    <3>1. PICK i \in 1 .. n : queue[i].message = x
      BY <1>4, <3>0 DEF Waiting
    <3>2. i \in 1 .. n + 1
      OBVIOUS
    <3> QED
      BY <1>5, <3>1, <3>2
  <2> QED
    BY <2>1, <2>2
<1> QED
  BY <1>9, <1>10, <1>11, <1>12, <1>13, <1>14, <1>15 DEF SenderInv

\* The queue is emptied: if a request is in flight, nothing is claimed any more.
LEMMA EmptiedInv ==
  ASSUME SenderInv, queue' = << >>, rows' \subseteq rows, UNCHANGED <<accepted, answered>>,
         worker' \in Workers, isConnected' \in BOOLEAN, isShuttingDown' \in BOOLEAN, raced' \in BOOLEAN,
         UNCHANGED corrupted, cleared' \subseteq Messages, earlier' \subseteq Messages,
         clears' \in 0 .. MaxClears, restarts' \in 0 .. MaxRestarts,
         Accepted \subseteq cleared' \cup earlier', WorkerFits'
  PROVE  SenderInv'
<1>1. DOMAIN queue' = {} /\ Len(queue') = 0 /\ queue' \in Seq(Requests) /\ 0 <= HardLimit
  BY SenderAssumption
<1>2. TypeOK'
  BY <1>1 DEF SenderInv, TypeOK, Workers
<1>3. RowsFit'
  BY DEF SenderInv, RowsFit
<1>4. QueueFits' /\ AcceptedOnce' /\ InOrder'
  BY <1>1 DEF SenderInv, QueueFits, AcceptedOnce, InOrder
<1>5. OpenWaits'
  BY DEF OpenWaits, Open, Accepted
<1> QED
  BY <1>2, <1>3, <1>4, <1>5 DEF SenderInv

LEMMA AcceptedType == ASSUME SenderInv PROVE Accepted \subseteq Messages
<1>1. accepted \in Seq(Messages)
  BY DEF SenderInv, TypeOK
<1>2. \A i \in DOMAIN accepted : accepted[i] \in Messages
  BY <1>1
<1> QED
  BY <1>2 DEF Accepted

LEMMA ClearDataInv == ASSUME SenderInv, NEW isDone \in BOOLEAN, ClearData(isDone) PROVE SenderInv'
<1>1. /\ queue' = << >> /\ rows' \subseteq rows /\ cleared' = cleared \cup Accepted
      /\ raced' = (raced \/ InFlight) /\ clears < MaxClears /\ clears' = clears + 1
      /\ UNCHANGED <<isConnected, isShuttingDown, worker, accepted, answered, corrupted, earlier, restarts>>
  BY DEF ClearData
<1>2. TypeOK /\ WorkerFits
  BY DEF SenderInv
<1>3. raced' \in BOOLEAN
  BY <1>1, <1>2 DEF TypeOK, InFlight
<1>4. clears' \in 0 .. MaxClears
  BY <1>1, <1>2, SenderAssumption DEF TypeOK
<1>5. WorkerFits'
  BY <1>1, <1>2 DEF WorkerFits, InFlight, Delivered
<1>6. cleared' \subseteq Messages /\ Accepted \subseteq cleared' \cup earlier'
  BY <1>1, <1>2, AcceptedType DEF TypeOK
<1> QED
  BY <1>1, <1>2, <1>3, <1>4, <1>5, <1>6, WorkerIs, EmptiedInv DEF TypeOK

LEMMA RestartInv == ASSUME SenderInv, Restart PROVE SenderInv'
<1>1. /\ queue' = << >> /\ worker' = Looping /\ earlier' = Accepted /\ restarts < MaxRestarts /\ restarts' = restarts + 1
      /\ isConnected' = FALSE /\ isShuttingDown' = FALSE /\ raced' = FALSE
      /\ UNCHANGED <<rows, accepted, answered, cleared, corrupted, clears>>
  BY DEF Restart
<1>2. TypeOK
  BY DEF SenderInv
<1>3. restarts' \in 0 .. MaxRestarts
  BY <1>1, <1>2, SenderAssumption DEF TypeOK
<1>4. WorkerFits' /\ worker' \in Workers
  BY <1>1 DEF WorkerFits, InFlight, Delivered, Looping, Workers
<1> QED
  BY <1>1, <1>2, <1>3, <1>4, AcceptedType, EmptiedInv DEF TypeOK

\* The front is popped, or its request stays there; a row goes only with the request that is popped.
LEMMA FinishInv == ASSUME SenderInv, NEW isErased \in BOOLEAN, Finish(isErased) PROVE SenderInv'
<1>0. /\ queue \in Seq(Requests) /\ rows \subseteq Requests /\ raced \in BOOLEAN
      /\ TypeOK /\ WorkerFits /\ RowsFit /\ QueueFits /\ AcceptedOnce /\ InOrder /\ OpenWaits
  BY DEF SenderInv, TypeOK
<1>1. /\ worker.pc = "finishing" /\ worker' = Looping
      /\ rows' = IF Delivered /\ isErased THEN {r \in rows : r.id # worker.request.id} ELSE rows
      /\ UNCHANGED <<isConnected, isShuttingDown, accepted, answered, cleared, raced, earlier, clears, restarts>>
  BY DEF Finish, history
<1>2. worker.request \in Requests /\ (~raced => queue # << >> /\ worker.request = queue[1])
  BY <1>0, <1>1 DEF WorkerFits, InFlight
<1>3. WorkerFits' /\ worker' \in Workers /\ RowsFit' /\ AcceptedOnce' /\ rows' \subseteq Requests
  BY <1>0, <1>1 DEF WorkerFits, RowsFit, AcceptedOnce, InFlight, Delivered, Looping, Workers
<1>4. CASE queue = << >>
  <2>1. corrupted' = TRUE /\ UNCHANGED queue /\ raced /\ raced'
    BY <1>0, <1>1, <1>2, <1>4 DEF Finish
  <2>2. TypeOK'
    BY <1>0, <1>1, <1>3, <2>1 DEF TypeOK, Workers
  <2> QED
    BY <1>3, <2>1, <2>2 DEF SenderInv, QueueFits, InOrder, OpenWaits
<1>5. CASE queue # << >> /\ Delivered
  <2>1. queue' = Tail(queue) /\ UNCHANGED corrupted
    BY <1>5 DEF Finish
  <2>2. PICK n \in Nat : n = Len(queue) /\ n > 0 /\ DOMAIN queue = 1 .. n
    BY <1>0, <1>5
  <2>3. /\ queue' \in Seq(Requests) /\ Len(queue') = n - 1 /\ DOMAIN queue' = 1 .. n - 1
        /\ \A i \in 1 .. n - 1 : queue'[i] = queue[i + 1]
    BY <1>0, <1>5, <2>1, <2>2, HeadTailProperties
  <2>4. TypeOK'
    <3>1. Len(queue') <= HardLimit
      BY <1>0, <2>2, <2>3, SenderAssumption DEF TypeOK
    <3> QED
      BY <1>0, <1>1, <1>3, <2>1, <2>3, <3>1 DEF TypeOK, Workers
  <2>5. \A i \in 1 .. n - 1 : i + 1 \in 1 .. n /\ i + 1 # 1
    BY <2>2
  <2>c. UNCHANGED <<raced, Accepted, answered, cleared, earlier>> /\ DOMAIN queue' = 1 .. n - 1
    BY <1>1, <2>3 DEF Accepted
  <2>d. \A i \in 1 .. n - 1 : queue'[i] = queue[i + 1]
    BY <2>3
  <2>6. QueueFits'
    <3> SUFFICES ASSUME ~raced, NEW i \in 1 .. n - 1
                 PROVE  /\ queue[i + 1] \in rows' /\ queue[i + 1].message \in Accepted
                        /\ \A j \in 1 .. n - 1 : queue[i + 1].id = queue[j + 1].id => i = j
      BY <2>c, <2>d DEF QueueFits
    <3>1. \A k \in 1 .. n : /\ queue[k] \in rows /\ queue[k].message \in Accepted
                            /\ \A j \in 1 .. n : queue[k].id = queue[j].id => k = j
      BY <1>0, <2>2 DEF QueueFits
    <3>2. \A j \in 1 .. n - 1 : queue[i + 1].id = queue[j + 1].id => i = j
      <4> TAKE j \in 1 .. n - 1
      <4>1. queue[i + 1].id = queue[j + 1].id => i + 1 = j + 1
        BY <2>5, <3>1
      <4> QED
        BY <2>2, <4>1
    <3>3. queue[i + 1].id # queue[1].id
      <4>1. 1 \in 1 .. n
        BY <2>2
      <4> QED
        BY <2>5, <3>1, <4>1
    <3>4. queue[i + 1] \in rows'
      BY <1>1, <1>2, <2>5, <3>1, <3>3
    <3> QED
      BY <2>5, <3>1, <3>2, <3>4
  <2>7. InOrder'
    <3> SUFFICES ASSUME ~raced, NEW p \in 1 .. n - 1, NEW q \in 1 .. n - 1, NEW k \in DOMAIN accepted, NEW l \in DOMAIN accepted,
                        p < q, queue[p + 1].message = accepted[k], queue[q + 1].message = accepted[l]
                 PROVE  k < l
      BY <1>1, <2>3 DEF InOrder
    <3>1. p + 1 \in 1 .. n /\ q + 1 \in 1 .. n /\ p + 1 < q + 1
      BY <2>5
    <3> QED
      BY <1>0, <2>2, <3>1 DEF InOrder
  <2>8. OpenWaits'
    <3>1. UNCHANGED Open
      BY <2>c DEF Open
    <3>2. ASSUME ~raced, NEW m \in Open \ earlier PROVE \E j \in 1 .. n - 1 : queue'[j].message = m
      <4>1. PICK i \in 1 .. n : queue[i].message = m
        BY <1>0, <2>2, <3>2 DEF OpenWaits, Waiting
      <4>2. queue[1].message \in answered
        BY <1>0, <1>2, <1>5, <3>2 DEF WorkerFits
      <4>3. i # 1
        BY <3>2, <4>1, <4>2 DEF Open
      <4>4. i - 1 \in 1 .. n - 1 /\ (i - 1) + 1 = i
        BY <4>3
      <4> QED
        BY <2>d, <4>1, <4>4
    <3> QED
      BY <2>c, <3>1, <3>2 DEF OpenWaits, Waiting
  <2> QED
    BY <1>3, <2>4, <2>6, <2>7, <2>8 DEF SenderInv
<1>6. CASE queue # << >> /\ ~Delivered
  <2>1. queue' = <<worker.request>> \o Tail(queue) /\ UNCHANGED <<corrupted, rows>>
    BY <1>1, <1>6 DEF Finish, Retry
  <2>2. /\ Tail(queue) \in Seq(Requests) /\ <<worker.request>> \in Seq(Requests) /\ Len(Tail(queue)) = Len(queue) - 1
        /\ Len(<<worker.request>>) = 1 /\ <<worker.request>>[1] = worker.request /\ Len(queue) \in Nat
        /\ \A i \in 1 .. Len(Tail(queue)) : Tail(queue)[i] = queue[i + 1]
    BY <1>0, <1>2, <1>6, HeadTailProperties
  <2>3. queue' \in Seq(Requests) /\ Len(queue') = Len(queue)
    BY <2>1, <2>2, ConcatProperties
  <2>4. TypeOK'
    BY <1>0, <1>1, <1>3, <2>1, <2>3 DEF TypeOK, Workers
  <2>5. ~raced => queue' = queue
    <3> SUFFICES ASSUME ~raced PROVE \A i \in 1 .. Len(queue') : queue'[i] = queue[i]
      BY <1>0, <2>3, SeqEqual
    <3> TAKE i \in 1 .. Len(queue')
    <3>1. queue'[i] = IF i <= 1 THEN <<worker.request>>[i] ELSE Tail(queue)[i - 1]
      BY <2>1, <2>2, <2>3, ConcatProperties
    <3>2. CASE i = 1
      BY <1>2, <2>2, <3>1, <3>2
    <3>3. CASE i # 1
      <4>1. i - 1 \in 1 .. Len(Tail(queue)) /\ (i - 1) + 1 = i /\ ~(i <= 1)
        BY <2>2, <2>3, <3>3
      <4> QED
        BY <2>2, <3>1, <4>1
    <3> QED
      BY <3>2, <3>3
  <2>c. UNCHANGED <<raced, rows, accepted, Accepted, answered, cleared, earlier>>
    BY <1>1, <2>1 DEF Accepted
  <2>6. QueueFits' /\ InOrder' /\ OpenWaits'
    BY <1>0, <2>5, <2>c DEF QueueFits, InOrder, OpenWaits, Open, Waiting
  <2> QED
    BY <1>3, <2>4, <2>6 DEF SenderInv
<1> QED
  BY <1>4, <1>5, <1>6

-----------------------------------------------------------------------------
(* The theorems *)

LEMMA StepInv == SenderInv /\ [Next]_vars => SenderInv'
<1> SUFFICES ASSUME SenderInv, [Next]_vars PROVE SenderInv'
  OBVIOUS
<1>1. ASSUME NEW b \in BOOLEAN, ConnectionStatusChanged(b) PROVE SenderInv'
  BY <1>1, WorkerIs, WokenStep DEF ConnectionStatusChanged
<1>2. CASE Destroy
  BY <1>2, WorkerIs, WokenStep DEF Destroy
<1>3. ASSUME NEW status \in {"server", "failed"}, SendCompleted(status) PROVE SenderInv'
  BY <1>3, AnsweredInv DEF SendCompleted
<1>4. CASE ExceptionReceived
  BY <1>4, AnsweredInv DEF ExceptionReceived
<1>5. CASE Worker
  BY <1>5, WorkerInv, FinishInv DEF Worker
<1>6. CASE UNCHANGED vars
  <2>1. worker' \in Workers /\ WorkerFits'
    BY <1>6, WorkerIs DEF vars, WorkerFits, InFlight, Delivered
  <2> QED
    BY <1>6, <2>1, WorkerIs, QuietStep DEF vars, history
<1> QED
  BY <1>1, <1>2, <1>3, <1>4, <1>5, <1>6, SendInv, ClearDataInv, RestartInv DEF Next

LEMMA Invariant == Spec => []SenderInv
  BY InitInv, StepInv, PTL DEF Spec

\* The queue, the worker and the records keep their types, and the queue its hard limit,
\* whatever is retried.
THEOREM TypeCorrect == Spec => []TypeOK
<1>1. SenderInv => TypeOK
  BY DEF SenderInv
<1> QED
  BY <1>1, Invariant, PTL

\* A message that sendJSONMessage() has accepted in this run is queued and stored under the id
\* of its request until AVS has answered or the data are cleared, through every retry, failure
\* of the database and restart.
THEOREM NothingIsLost == Spec => []OpenIsQueuedAndStored
<1>1. SenderInv => OpenIsQueuedAndStored
  BY DEF SenderInv, OpenWaits, QueueFits, Waiting, OpenIsQueuedAndStored
<1> QED
  BY <1>1, Invariant, PTL

\* store() never gives an id that a row or a queued request has.
THEOREM IdsAreUnique == Spec => []IdsDiffer
<1>1. SenderInv => IdsDiffer
  BY DEF SenderInv, RowsFit, QueueFits, IdsDiffer
<1> QED
  BY <1>1, Invariant, PTL

\* Messages are transmitted in the order in which they were accepted, each after the answer to
\* those before it.
THEOREM OrderIsKept == Spec => SentInOrder
<1>1. ASSUME SenderInv, NEW i \in DOMAIN accepted, NEW j \in DOMAIN accepted,
             i < j, ~raced, worker.pc = "sending", worker.request.message = accepted[j]
      PROVE  accepted[i] \in answered \cup cleared \cup earlier
  <2>1. /\ queue # << >> /\ worker.request = queue[1] /\ queue \in Seq(Requests) /\ accepted \in Seq(Messages)
    BY <1>1 DEF SenderInv, WorkerFits, InFlight, TypeOK
  <2>2. i \in Nat /\ j \in Nat /\ 1 \in DOMAIN queue
    BY <2>1
  <2> SUFFICES ASSUME accepted[i] \notin answered \cup cleared \cup earlier PROVE FALSE
    OBVIOUS
  <2>3. PICK p \in DOMAIN queue : queue[p].message = accepted[i]
    BY <1>1 DEF SenderInv, OpenWaits, Open, Accepted, Waiting
  <2>4. CASE p = 1
    <3>1. i = j
      BY <1>1, <2>1, <2>3, <2>4 DEF SenderInv, AcceptedOnce
    <3> QED
      BY <1>1, <2>2, <3>1
  <2>5. CASE p # 1
    <3>1. 1 < p
      BY <2>1, <2>5
    <3>2. j < i
      BY <1>1, <2>1, <2>2, <2>3, <3>1 DEF SenderInv, InOrder
    <3> QED
      BY <1>1, <2>2, <3>2
  <2> QED
    BY <2>4, <2>5
<1>2. SenderInv => [\A i, j \in DOMAIN accepted :
                      i < j /\ ~raced /\ worker.pc = "sending" /\ worker'.pc = "waiting"
                        /\ worker.request.message = accepted[j] /\ accepted[j] \notin cleared
                      => accepted[i] \in answered \cup cleared \cup earlier]_vars
  BY <1>1
<1> QED
  BY <1>2, Invariant, PTL DEF SentInOrder

\* Whoever gives the worker something to do wakes it; clearData() only takes away.
LEMMA SleepStep == ASSUME SenderInv, WorkerSleepsOnlyIdle, [Next]_vars PROVE WorkerSleepsOnlyIdle'
<1>0. Woken.pc # "asleep" /\ Looping.pc # "asleep" /\ worker \in Workers
  BY WokenIs DEF Looping, SenderInv, TypeOK, Workers
<1>1. ASSUME worker'.pc # "asleep" PROVE WorkerSleepsOnlyIdle'
  BY <1>1 DEF WorkerSleepsOnlyIdle
<1>2. CASE (\E m \in Messages : Send(m)) \/ (\E b \in BOOLEAN : ConnectionStatusChanged(b)) \/ Destroy \/ Restart
  BY <1>0, <1>1, <1>2 DEF Send, ConnectionStatusChanged, Destroy, Restart
<1>3. CASE \E isDone \in BOOLEAN : ClearData(isDone)
  BY <1>3 DEF ClearData, WorkerSleepsOnlyIdle, Running, CanSend
<1>4. CASE (\E status \in {"server", "failed"} : SendCompleted(status)) \/ ExceptionReceived
  BY <1>0, <1>1, <1>4 DEF SendCompleted, ExceptionReceived, Answered, Workers
<1>5. CASE WorkerSleep
  BY <1>5 DEF WorkerSleep, WorkerSleepsOnlyIdle, CanSend
<1>6. CASE WorkerExit \/ Pick \/ Transmit \/ WaitEnds \/ \E isErased \in BOOLEAN : Finish(isErased)
  BY <1>0, <1>1, <1>6 DEF WorkerExit, Pick, Transmit, WaitEnds, Finish, Workers
<1>7. CASE UNCHANGED vars
  BY <1>7 DEF vars, WorkerSleepsOnlyIdle, Running, CanSend
<1> QED BY <1>2, <1>3, <1>4, <1>5, <1>6, <1>7 DEF Next, Worker

\* The worker sleeps through nothing, for any messages, limits, failures and restarts: while a
\* message can be sent it is awake.
THEOREM WorkerIsWoken == Spec => []WorkerSleepsOnlyIdle
<1>1. Init => SenderInv /\ WorkerSleepsOnlyIdle
  BY InitInv DEF Init, WorkerSleepsOnlyIdle, Looping
<1>2. SenderInv /\ WorkerSleepsOnlyIdle /\ [Next]_vars => SenderInv' /\ WorkerSleepsOnlyIdle'
  BY StepInv, SleepStep
<1> QED BY <1>1, <1>2, PTL DEF Spec
=============================================================================
