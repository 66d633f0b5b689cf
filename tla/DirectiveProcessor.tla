------------------------- MODULE DirectiveProcessor -------------------------
(***************************************************************************)
(* ADSL/src/DirectiveProcessor.cpp: the queue between the receiving thread *)
(* of the DirectiveSequencer and the directive handlers.                   *)
(*                                                                         *)
(* Threads: the receiving thread in onDirective() (rx), the processing     *)
(* thread in processingLoop() (proc), the thread in shutdown()             *)
(* (shutdownPc), the handlers' threads that report results, and clients    *)
(* that call setDialogRequestId(), enable() and disable().  One action is  *)
(* one critical section of m_mutex, or one call through the                *)
(* DirectiveRouter, made with m_mutex released.  The router's replies are  *)
(* any that DirectiveRouter.cpp can give.                                  *)
(***************************************************************************)
EXTENDS Deque, FiniteSets

CONSTANTS
  Directives,   \* the AVSDirective objects that arrive
  Dialogs,      \* the non-empty dialogRequestIds
  NoDialog,     \* the empty dialogRequestId
  NoDirective,  \* the null directive pointer
  DialogOf      \* AVSDirective::getDialogRequestId()

ASSUME DialogAssumption ==
  /\ NoDialog \notin Dialogs
  /\ DialogOf \in [Directives -> Dialogs \cup {NoDialog}]

ASSUME DirectiveAssumption == NoDirective \notin Directives

VARIABLES
  dp,           \* the members guarded by m_mutex (and notify, see Init)
  isRegistered, \* m_handleMap holds this processor's m_handle
  rx,           \* the receiving thread: its place in onDirective(), its directive
  proc,         \* the processing thread: its place, its directive, its temp queue
  shutdownPc,   \* the thread in shutdown()
  \* What was called, for the properties.
  offered,      \* directives passed to router.preHandleDirective(), in order
  preHandled,   \* directives whose handler was entered with a result object
  handled,      \* directives passed to router.handleDirective()
  blocking,     \* directives whose handling began under BlockingPolicy::BLOCKING
  canceled,     \* directives passed to router.cancelDirective()
  reported,     \* directives whose result was reported
  failedDialogs \* dialogs in which handling failed since they were last made current

calls == <<offered, preHandled, handled, blocking, canceled, reported, failedDialogs>>
vars == <<dp, isRegistered, rx, proc, shutdownPc, calls>>

Ids == Dialogs \cup {NoDialog}
OfDialog(id) == {d \in Directives : DialogOf[d] = id /\ id # NoDialog}
Queued == Elements(dp.handlingQueue)
Canceling == Elements(dp.cancelingQueue)
Pending == Queued \cup Canceling

-----------------------------------------------------------------------------
(* The ...Locked() functions, from a value of the guarded members to the    *)
(* next one.  notify records a call of m_wakeProcessingLoop.notify_one().   *)

\* Faults, each a plausible slip in the definition it stands before.  A run of the checks
\* that uses the faulty form must find the property that guards against it violated.
AnyFront(s, D) == s.isHandling /\ s.handlingQueue # << >>

\* Whether the front of the handling queue is being handled and belongs to D.
FrontIn(s, D) == s.isHandling /\ s.handlingQueue # << >> /\ Head(s.handlingQueue) \in D

\* Fault: the scrub forgets the directive that is being pre-handled.
MovedQueued(s, D) == Keep(s.handlingQueue, D)

\* The directives that a scrub of the set D moves to the canceling queue, the one being
\* pre-handled first.
Moved(s, D) ==
  (IF s.beingPreHandled \in D THEN <<s.beingPreHandled>> ELSE << >>) \o Keep(s.handlingQueue, D)

\* scrubDialogRequestIdLocked(): the directives of the dialog move to the canceling queue,
\* and the dialog stops being current.
Scrubbed(s, id) ==
  LET D == OfDialog(id)
  IN  [s EXCEPT !.cancelingQueue  = @ \o Moved(s, D),
                !.handlingQueue   = Without(@, D),
                !.beingPreHandled = IF @ \in D THEN NoDirective ELSE @,
                !.isHandling      = @ /\ ~FrontIn(s, D),
                !.dialogRequestId = IF @ = id THEN NoDialog ELSE @,
                !.notify          = @ \/ Moved(s, D) # << >>]

\* setDialogRequestIdLocked()
WithDialog(s, id) ==
  IF id = s.dialogRequestId THEN s
  ELSE [Scrubbed(s, s.dialogRequestId) EXCEPT !.dialogRequestId = id]

\* Fault: the processing thread is woken only to cancel, not to handle the next directive.
RemovedSilently(s, d) ==
  LET canceling == Without(s.cancelingQueue, {d})
  IN  [s EXCEPT !.cancelingQueue  = canceling,
                !.handlingQueue   = Without(@, {d}),
                !.beingPreHandled = IF @ = d THEN NoDirective ELSE @,
                !.isHandling      = @ /\ ~FrontIn(s, {d}),
                !.notify          = @ \/ canceling # << >>]

\* removeDirectiveLocked()
Removed(s, d) ==
  LET canceling == Without(s.cancelingQueue, {d})
      handling  == Without(s.handlingQueue, {d})
  IN  [s EXCEPT !.cancelingQueue  = canceling,
                !.handlingQueue   = handling,
                !.beingPreHandled = IF @ = d THEN NoDirective ELSE @,
                !.isHandling      = @ /\ ~FrontIn(s, {d}),
                !.notify          = @ \/ canceling # << >> \/ handling # << >>]

\* queueAllDirectivesForCancellationLocked()
All(s) ==
  IF s.beingPreHandled = NoDirective THEN s.handlingQueue
  ELSE Append(s.handlingQueue, s.beingPreHandled)

AllForCancellation(s) ==
  [s EXCEPT !.cancelingQueue  = @ \o All(s),
            !.handlingQueue   = << >>,
            !.beingPreHandled = NoDirective,
            !.isHandling      = FALSE,
            !.dialogRequestId = NoDialog,
            !.notify          = @ \/ All(s) # << >>]

\* Fault: the directive is queued although another thread canceled it meanwhile.
AdmittedAnyway(s, d, wasHandled) ==
  [s EXCEPT !.beingPreHandled = NoDirective,
            !.handlingQueue   = IF wasHandled THEN Append(@, d) ELSE @,
            !.notify          = wasHandled]

\* Fault: the directive goes to the front of the queue.
AdmittedInFront(s, d, wasHandled) ==
  LET queue == s.beingPreHandled # NoDirective /\ wasHandled
  IN  [s EXCEPT !.beingPreHandled = NoDirective,
                !.handlingQueue   = IF queue THEN <<d>> \o @ ELSE @,
                !.notify          = queue]

\* onDirective() once the router returned: the directive is queued only when no other
\* thread took it out of m_directiveBeingPreHandled meanwhile.
Admitted(s, d, wasHandled) ==
  LET queue == s.beingPreHandled # NoDirective /\ wasHandled
  IN  [s EXCEPT !.beingPreHandled = NoDirective,
                !.handlingQueue   = IF queue THEN Append(@, d) ELSE @,
                !.notify          = queue]

\* handleDirectiveLocked() once the router returned: "rejected" when there is no handler or
\* it returned false, otherwise the handler's policy.
Popped(s, d) ==
  [s EXCEPT !.isHandling    = FALSE,
            !.handlingQueue = IF @ # << >> /\ Head(@) = d THEN Tail(@) ELSE @]

\* Fault: a rejected directive does not end its dialog.
HandledAlone(s, d, reply) == IF reply = "blocking" THEN s ELSE Popped(s, d)

Handled(s, d, reply) ==
  CASE reply = "blocking"    -> s
    [] reply = "nonBlocking" -> Popped(s, d)
    [] reply = "rejected"    -> Scrubbed(Popped(s, d), DialogOf[d])

\* Release m_mutex with the guarded members at s: the processing thread, when it
\* sleeps in wait() and was notified, goes back to test its predicate.
Release(s) ==
  /\ dp' = [s EXCEPT !.notify = FALSE]
  /\ proc' = IF s.notify /\ proc.pc = "asleep" THEN [proc EXCEPT !.pc = "loop"] ELSE proc

-----------------------------------------------------------------------------
Init ==
  /\ dp = [dialogRequestId |-> NoDialog, handlingQueue |-> << >>, cancelingQueue |-> << >>,
           beingPreHandled |-> NoDirective, isHandling |-> FALSE, isEnabled |-> TRUE,
           isShuttingDown |-> FALSE, notify |-> FALSE]
  /\ isRegistered = TRUE
  /\ rx = [pc |-> "idle", directive |-> NoDirective]
  /\ proc = [pc |-> "loop", directive |-> NoDirective, temp |-> << >>]
  /\ shutdownPc = "none"
  /\ offered = << >> /\ preHandled = {} /\ handled = {}
  /\ blocking = {} /\ canceled = {} /\ reported = {} /\ failedDialogs = {}

(* Clients *)

SetDialogRequestId(id) ==
  /\ Release(WithDialog(dp, id))
  /\ failedDialogs' = failedDialogs \ {id}
  /\ UNCHANGED <<isRegistered, rx, shutdownPc, offered, preHandled, handled,
                 blocking, canceled, reported>>

Disable ==
  /\ Release([AllForCancellation(dp) EXCEPT !.isEnabled = FALSE, !.notify = TRUE])
  /\ UNCHANGED <<isRegistered, rx, shutdownPc, calls>>

Enable ==
  /\ Release([dp EXCEPT !.isEnabled = TRUE])
  /\ UNCHANGED <<isRegistered, rx, shutdownPc, calls>>

(* The receiving thread: onDirective().  m_onDirectiveMutex admits one call, and the        *)
(* DirectiveSequencer joins the thread before it calls shutdown().                          *)

OnDirective == rx.pc = "idle" /\ shutdownPc = "none"

Acceptable(d) ==
  /\ ~dp.isShuttingDown /\ dp.isEnabled
  /\ DialogOf[d] \in {NoDialog, dp.dialogRequestId}

\* Refused while disabled or shutting down (returns false), or dropped because its
\* dialogRequestId is not the current one (returns true): nothing changes here.
Refuse(d) == OnDirective /\ ~Acceptable(d) /\ UNCHANGED vars

\* Accepted: m_mutex is released and router.preHandleDirective() called.
Accept(d) ==
  /\ OnDirective /\ Acceptable(d)
  /\ d \notin Elements(offered)
  /\ Release([dp EXCEPT !.beingPreHandled = d])
  /\ rx' = [pc |-> "routing", directive |-> d]
  /\ offered' = Append(offered, d)
  /\ UNCHANGED <<isRegistered, shutdownPc, preHandled, handled, blocking, canceled,
                 reported, failedDialogs>>

\* The router found the handler: its preHandleDirective() is entered with a result object.
EnterPreHandle ==
  /\ rx.pc = "routing"
  /\ rx' = [rx EXCEPT !.pc = "inHandler"]
  /\ preHandled' = preHandled \cup {rx.directive}
  /\ UNCHANGED <<dp, isRegistered, proc, shutdownPc, offered, handled, blocking,
                 canceled, reported, failedDialogs>>

\* router.preHandleDirective() returned whether there was a handler.
ReturnPreHandle(wasHandled) ==
  /\ rx.pc = IF wasHandled THEN "inHandler" ELSE "routing"
  /\ Release(Admitted(dp, rx.directive, wasHandled))
  /\ rx' = [pc |-> "idle", directive |-> NoDirective]
  /\ UNCHANGED <<isRegistered, shutdownPc, calls>>

(* The handlers: DirectiveHandlerResult, any time after it was given to the handler. *)

Report(d) == d \in preHandled \ reported /\ reported' = reported \cup {d}

\* setCompleted(); ignored once shutdown() has erased the handle.
SetCompleted(d) ==
  /\ Report(d)
  /\ Release(IF isRegistered THEN Removed(dp, d) ELSE dp)
  /\ UNCHANGED <<isRegistered, rx, shutdownPc, offered, preHandled, handled,
                 blocking, canceled, failedDialogs>>

\* setFailed(): the whole dialog is canceled with the directive.
SetFailed(d) ==
  /\ Report(d)
  /\ Release(IF isRegistered THEN Scrubbed(Removed(dp, d), DialogOf[d]) ELSE dp)
  /\ failedDialogs' = IF isRegistered THEN failedDialogs \cup ({DialogOf[d]} \ {NoDialog})
                      ELSE failedDialogs
  /\ UNCHANGED <<isRegistered, rx, shutdownPc, offered, preHandled, handled,
                 blocking, canceled>>

(* The processing thread: processingLoop(). *)

\* The predicate of m_wakeProcessingLoop.wait().
Wake ==
  \/ dp.cancelingQueue # << >>
  \/ dp.handlingQueue # << >> /\ ~dp.isHandling
  \/ dp.isShuttingDown

Sleep ==
  /\ proc.pc = "loop" /\ ~Wake
  /\ proc' = [proc EXCEPT !.pc = "asleep"]
  /\ UNCHANGED <<dp, isRegistered, rx, shutdownPc, calls>>

\* processCancelingQueueLocked(): take the canceling queue, release m_mutex ...
TakeCancelingQueue ==
  /\ proc.pc = "loop" /\ dp.cancelingQueue # << >>
  /\ proc' = [proc EXCEPT !.pc = "canceling", !.temp = dp.cancelingQueue]
  /\ dp' = [dp EXCEPT !.cancelingQueue = << >>]
  /\ UNCHANGED <<isRegistered, rx, shutdownPc, calls>>

\* ... and cancel its directives one by one.
Cancel ==
  /\ proc.pc = "canceling"
  /\ canceled' = canceled \cup {Head(proc.temp)}
  /\ proc' = [proc EXCEPT !.temp = Tail(@), !.pc = IF Tail(proc.temp) = << >> THEN "loop" ELSE @]
  /\ UNCHANGED <<dp, isRegistered, rx, shutdownPc, offered, preHandled, handled,
                 blocking, reported, failedDialogs>>

\* handleDirectiveLocked(): mark the front directive as being handled and, with m_mutex
\* released, call router.handleDirective().
StartHandling ==
  /\ proc.pc = "loop" /\ dp.cancelingQueue = << >>
  /\ dp.handlingQueue # << >> /\ ~dp.isHandling
  /\ dp' = [dp EXCEPT !.isHandling = TRUE]
  /\ proc' = [proc EXCEPT !.pc = "handling", !.directive = Head(dp.handlingQueue)]
  /\ handled' = handled \cup {Head(dp.handlingQueue)}
  /\ UNCHANGED <<isRegistered, rx, shutdownPc, offered, preHandled, blocking,
                 canceled, reported, failedDialogs>>

\* router.handleDirective() returned.
ReturnHandle(reply) ==
  /\ proc.pc = "handling"
  /\ LET d == proc.directive
     IN  /\ dp' = [Handled(dp, d, reply) EXCEPT !.notify = FALSE]
         /\ blocking' = IF reply = "blocking" THEN blocking \cup {d} ELSE blocking
         /\ failedDialogs' = IF reply = "rejected" THEN failedDialogs \cup ({DialogOf[d]} \ {NoDialog})
                             ELSE failedDialogs
  /\ proc' = [proc EXCEPT !.pc = "loop", !.directive = NoDirective]
  /\ UNCHANGED <<isRegistered, rx, shutdownPc, offered, preHandled, handled, canceled, reported>>

\* Nothing left to do while shutting down.  (With m_isHandlingDirective set the loop would
\* go round without changing anything until a result arrives.)
Exit ==
  /\ proc.pc = "loop" /\ dp.isShuttingDown
  /\ dp.cancelingQueue = << >> /\ dp.handlingQueue = << >>
  /\ proc' = [proc EXCEPT !.pc = "exited"]
  /\ UNCHANGED <<dp, isRegistered, rx, shutdownPc, calls>>

(* shutdown() *)

EraseHandle ==
  /\ shutdownPc = "none" /\ rx.pc = "idle"
  /\ shutdownPc' = "erased"
  /\ isRegistered' = FALSE
  /\ UNCHANGED <<dp, rx, proc, calls>>

\* Fault: the processing thread is woken only when there is something to cancel.
QueueAllSilently ==
  /\ shutdownPc = "erased"
  /\ shutdownPc' = "joining"
  /\ Release([AllForCancellation(dp) EXCEPT !.isShuttingDown = TRUE])
  /\ UNCHANGED <<isRegistered, rx, calls>>

QueueAll ==
  /\ shutdownPc = "erased"
  /\ shutdownPc' = "joining"
  /\ Release([AllForCancellation(dp) EXCEPT !.isShuttingDown = TRUE, !.notify = TRUE])
  /\ UNCHANGED <<isRegistered, rx, calls>>

Join ==
  /\ shutdownPc = "joining" /\ proc.pc = "exited"
  /\ shutdownPc' = "done"
  /\ UNCHANGED <<dp, isRegistered, rx, proc, calls>>

-----------------------------------------------------------------------------
Replies == {"rejected", "blocking", "nonBlocking"}

Client == Disable \/ Enable \/ \E id \in Ids : SetDialogRequestId(id)
Receiving ==
  \/ \E d \in Directives : Refuse(d) \/ Accept(d)
  \/ EnterPreHandle
  \/ \E wasHandled \in BOOLEAN : ReturnPreHandle(wasHandled)
Handler == \E d \in Directives : SetCompleted(d) \/ SetFailed(d)
Processing ==
  \/ Sleep \/ TakeCancelingQueue \/ Cancel \/ StartHandling \/ Exit
  \/ \E reply \in Replies : ReturnHandle(reply)
Shutdown == EraseHandle \/ QueueAll \/ Join

Next == Client \/ Receiving \/ Handler \/ Processing \/ Shutdown

Spec == Init /\ [][Next]_vars

-----------------------------------------------------------------------------
(* Properties *)

ReceivePcs == {"idle", "routing", "inHandler"}
ProcessPcs == {"loop", "asleep", "canceling", "handling", "exited"}
ShutdownPcs == {"none", "erased", "joining", "done"}

Members ==
  [dialogRequestId : Ids, handlingQueue : Seq(Directives), cancelingQueue : Seq(Directives),
   beingPreHandled : Directives \cup {NoDirective}, isHandling : BOOLEAN,
   isEnabled : BOOLEAN, isShuttingDown : BOOLEAN, notify : BOOLEAN]

\* The guarded members, the threads and the record of calls have their types.
TypeOK ==
  /\ dp \in Members
  /\ isRegistered \in BOOLEAN
  /\ rx \in [pc : ReceivePcs, directive : Directives \cup {NoDirective}]
  /\ proc \in [pc : ProcessPcs, directive : Directives \cup {NoDirective},
               temp : Seq(Directives)]
  /\ shutdownPc \in ShutdownPcs
  /\ offered \in Seq(Directives)
  /\ preHandled \subseteq Directives /\ handled \subseteq Directives
  /\ blocking \subseteq Directives /\ canceled \subseteq Directives
  /\ reported \subseteq Directives
  /\ failedDialogs \subseteq Dialogs

\* Every directive that waits to be handled, or is being pre-handled and will be queued,
\* belongs to the current dialog or to none: setDialogRequestId(), a failure and disable()
\* leave no directive of an ended dialog behind, whatever call is in progress.
CurrentDialogOnly ==
  \A d \in Queued \cup {dp.beingPreHandled} :
    d # NoDirective => DialogOf[d] \in {NoDialog, dp.dialogRequestId}

\* A disabled processor holds nothing that could still be handled: no queued directive, none
\* that is being pre-handled and will be queued, however disable() met onDirective().
DisabledQueuesNothing ==
  ~dp.isEnabled => Queued = {} /\ dp.beingPreHandled = NoDirective

\* m_isHandlingDirective says exactly that the front of m_handlingQueue has been passed to
\* its handler; nothing behind the front has.
FrontIsHandled ==
  /\ dp.isHandling => dp.handlingQueue # << >>
  /\ \A i \in DOMAIN dp.handlingQueue :
       dp.handlingQueue[i] \in handled <=> (i = 1 /\ dp.isHandling)

\* A directive whose handler took it under BlockingPolicy::BLOCKING holds up the queue until
\* its result is reported or it is to be canceled.
BlockingHoldsQueue ==
  \A d \in blocking \ reported :
    \/ dp.isHandling /\ Head(dp.handlingQueue) = d
    \/ d \in Canceling \cup Elements(proc.temp) \cup canceled

\* No directive is passed to its handler after one that arrived later.
HandledInOrder ==
  [][\A i, j \in DOMAIN offered :
       i < j /\ offered[i] \in handled' \ handled => offered[j] \notin handled]_vars

\* Once handling has failed in a dialog, no directive of that dialog is current, waiting or
\* being pre-handled until a client makes the dialog current again.
FailedDialogsStayEnded ==
  \A id \in failedDialogs :
    /\ dp.dialogRequestId # id
    /\ \A d \in Queued \cup {dp.beingPreHandled} : d # NoDirective => DialogOf[d] # id

\* No directive that a handler holds is forgotten: it is in one of the queues or in the
\* hands of a thread, or the handler was asked to handle or to cancel it, or reported.
NothingForgotten ==
  \A d \in preHandled :
    \/ rx.directive = d /\ dp.beingPreHandled = d
    \/ d \in Pending \cup Elements(proc.temp)
    \/ d \in handled \cup canceled \cup reported

\* The processing thread sleeps only while there is nothing to cancel, to handle or to end: of
\* the many places that change its predicate, each notifies it when it has come to hold.
SleepsOnlyIdle == proc.pc = "asleep" => ~Wake

\* When no handler is registered for a directive (preHandleDirective() is refused), the queued
\* directives of its dialog are canceled (DirectiveProcessor.h, the class comment).
RejectionCancelsDialog ==
  [][rx.pc = "routing" /\ rx'.pc = "idle" =>
       \A d \in Elements(dp'.handlingQueue) : d \notin OfDialog(DialogOf[rx.directive])]_vars

\* The phase of a directive in the abstract specification.
Phase(d) ==
  IF d \notin Elements(offered) THEN "new"
  ELSE IF d = dp.beingPreHandled THEN "offered"
  ELSE IF d \in Queued THEN (IF dp.isHandling /\ Head(dp.handlingQueue) = d
                             THEN "handling" ELSE "pending")
  ELSE IF d \in Canceling \cup Elements(proc.temp) THEN "canceling"
  ELSE "over"

Lifecycle == INSTANCE DirectiveLifecycle WITH phase <- [d \in Directives |-> Phase(d)]

\* The processor implements the abstract life of a directive.
ImplementsLifecycle == Lifecycle!Spec

\* A directive queued for cancellation is canceled (or its handler reports first): no
\* wake-up of the processing thread is lost.
CancellationServed ==
  \A d \in Directives : d \in Canceling ~> d \in canceled \cup reported

\* When every handler reports, a queued directive leaves the queue: handled, or canceled.
QueueServed == \A d \in Directives : d \in Queued ~> d \notin Queued
=============================================================================
