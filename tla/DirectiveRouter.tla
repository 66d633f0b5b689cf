-------------------------- MODULE DirectiveRouter --------------------------
(***************************************************************************)
(* ADSL/src/DirectiveRouter.cpp: which handler is registered for which     *)
(* (namespace, name), the calls made to handlers, and the notice that a    *)
(* handler has been deregistered.                                          *)
(*                                                                         *)
(* Any thread may add or remove a handler, route a directive, or shut the  *)
(* router down.  m_mutex is released while a handler is called; a count    *)
(* per handler tells when nobody uses it.  addDirectiveHandler() asks      *)
(* isShutdown() with m_mutex held, and isShutdown() waits for the mutex    *)
(* that RequiresShutdown::shutdown() holds until doShutdown() returned.    *)
(***************************************************************************)
EXTENDS Naturals, FiniteSets

CONSTANTS
  Handlers,  \* the DirectiveHandlerInterface objects
  Names,     \* the (namespace, name) pairs
  NamesOf,   \* the names in each handler's getConfiguration()
  Threads,   \* the threads that call the router
  NoHandler,
  NoThread

ASSUME ConfigurationAssumption ==
  /\ IsFiniteSet(Names) /\ IsFiniteSet(Threads)
  /\ NamesOf \in [Handlers -> SUBSET Names]
  /\ \A h \in Handlers : NamesOf[h] # {}
  /\ NoHandler \notin Handlers /\ NoThread \notin Threads

VARIABLES
  configuration,   \* m_configuration: the handler of each name
  refCounts,       \* m_handlerReferenceCounts; 0 for a handler without an entry
  isShutdown,      \* RequiresShutdown::m_isShutdown
  mutex,           \* the thread that holds m_mutex across a wait
  shutdownMutex,   \* the thread that holds RequiresShutdown::m_mutex
  thread,          \* what each thread does, with which handler, and whom it is to notify
  informed         \* handlers whose onDeregistered() was called since they were last added

vars == <<configuration, refCounts, isShutdown, mutex, shutdownMutex, thread, informed>>

Idle == [pc |-> "idle", handler |-> NoHandler, notices |-> {}]
Does(t, pc) == thread[t].pc = pc
Free == mutex = NoThread

\* Thread t notifies the handlers in H, with m_mutex released, and goes on at pc.
Notifying(t, pc, H) == [thread EXCEPT ![t] = [pc |-> pc, handler |-> NoHandler, notices |-> H]]

Registered(h) == \A n \in NamesOf[h] : configuration[n] = h
Mapped == {configuration[n] : n \in Names} \ {NoHandler}

Init ==
  /\ configuration = [n \in Names |-> NoHandler]
  /\ refCounts = [h \in Handlers |-> 0]
  /\ isShutdown = FALSE /\ mutex = NoThread /\ shutdownMutex = NoThread
  /\ thread = [t \in Threads |-> Idle]
  /\ informed = Handlers

-----------------------------------------------------------------------------
(* addDirectiveHandler() *)

\* Fault: one free name is enough, and the others are taken over.
SomeNameFree(h) == \E n \in NamesOf[h] : configuration[n] = NoHandler

\* No name of the handler is mapped yet: otherwise the whole call is refused.
AllNamesFree(h) == \A n \in NamesOf[h] : configuration[n] = NoHandler

\* m_mutex is taken ...
BeginAdd(t, h) ==
  /\ Does(t, "idle") /\ Free
  /\ mutex' = t
  /\ thread' = [thread EXCEPT ![t] = [Idle EXCEPT !.pc = "adding", !.handler = h]]
  /\ UNCHANGED <<configuration, refCounts, isShutdown, shutdownMutex, informed>>

\* Fault: a handler is added after the router was shut down.
AddableUnchecked(h) == AllNamesFree(h)

Addable(h) == ~isShutdown /\ AllNamesFree(h)

\* ... and held while isShutdown() waits for RequiresShutdown's mutex.
EndAdd(t) ==
  /\ Does(t, "adding") /\ shutdownMutex = NoThread
  /\ LET h == thread[t].handler
     IN  IF Addable(h)
         THEN /\ configuration' = [n \in Names |-> IF n \in NamesOf[h] THEN h ELSE configuration[n]]
              /\ refCounts' = [refCounts EXCEPT ![h] = @ + Cardinality(NamesOf[h])]
              /\ informed' = informed \ {h}
         ELSE UNCHANGED <<configuration, refCounts, informed>>
  /\ mutex' = NoThread
  /\ thread' = [thread EXCEPT ![t] = Idle]
  /\ UNCHANGED <<isShutdown, shutdownMutex>>

-----------------------------------------------------------------------------
(* removeDirectiveHandlerLocked() and its callers *)

\* Fault: the count is decremented once for the handler, not once for each of its names.
CountsWithoutOnce(H) == [h \in Handlers |-> IF h \in H THEN refCounts[h] - 1 ELSE refCounts[h]]

\* The counts when the mappings of the handlers in H are gone.
CountsWithout(H) ==
  [h \in Handlers |-> IF h \in H THEN refCounts[h] - Cardinality(NamesOf[h]) ELSE refCounts[h]]

\* Fault: the notice is left to the last call in progress, although there may be none.
RemoveUnnoticed(t, h) ==
  /\ Does(t, "idle") /\ Free /\ Registered(h)
  /\ configuration' = [n \in Names |-> IF n \in NamesOf[h] THEN NoHandler ELSE configuration[n]]
  /\ refCounts' = CountsWithout({h})
  /\ UNCHANGED <<isShutdown, mutex, shutdownMutex, thread, informed>>

\* removeDirectiveHandler(); refused, with no effect, unless all the names are the handler's.
\* The handler is notified whether or not calls to it are in progress.
Remove(t, h) ==
  /\ Does(t, "idle") /\ Free /\ Registered(h)
  /\ configuration' = [n \in Names |-> IF n \in NamesOf[h] THEN NoHandler ELSE configuration[n]]
  /\ refCounts' = CountsWithout({h})
  /\ thread' = Notifying(t, "notifying", {h})
  /\ UNCHANGED <<isShutdown, mutex, shutdownMutex, informed>>

\* handler->onDeregistered().
Notify(t, h) ==
  /\ h \in thread[t].notices
  /\ informed' = informed \cup {h}
  /\ thread' = [thread EXCEPT ![t].notices = @ \ {h}]
  /\ UNCHANGED <<configuration, refCounts, isShutdown, mutex, shutdownMutex>>

\* A thread that counted a call down takes m_mutex once more.
DoneNotifying(t) ==
  /\ thread[t].notices = {}
  /\ Does(t, "notifying") \/ (Does(t, "relocking") /\ Free)
  /\ thread' = [thread EXCEPT ![t] = Idle]
  /\ UNCHANGED <<configuration, refCounts, isShutdown, mutex, shutdownMutex, informed>>

-----------------------------------------------------------------------------
(* The calls to handlers, each in a HandlerCallScope *)

\* handleDirectiveImmediately(), handleDirectiveWithPolicyHandleImmediately(),
\* preHandleDirective(), handleDirective() or cancelDirective(): the handler is found, its
\* use counted, m_mutex released and the handler called.
Call(t, n) ==
  /\ Does(t, "idle") /\ Free /\ configuration[n] # NoHandler
  /\ refCounts' = [refCounts EXCEPT ![configuration[n]] = @ + 1]
  /\ thread' = [thread EXCEPT ![t] = [Idle EXCEPT !.pc = "calling", !.handler = configuration[n]]]
  /\ UNCHANGED <<configuration, isShutdown, mutex, shutdownMutex, informed>>

\* The handler returned: ~HandlerCallScope() and decrementHandlerReferenceCountLocked().
Return(t) ==
  /\ Does(t, "calling") /\ Free
  /\ LET h == thread[t].handler
     IN  /\ refCounts' = [refCounts EXCEPT ![h] = IF @ = 0 THEN 0 ELSE @ - 1]
         /\ thread' = IF refCounts[h] = 1 THEN Notifying(t, "relocking", {h})
                      ELSE [thread EXCEPT ![t] = Idle]
  /\ UNCHANGED <<configuration, isShutdown, mutex, shutdownMutex, informed>>

-----------------------------------------------------------------------------
(* RequiresShutdown::shutdown() *)

BeginShutdown(t) ==
  /\ Does(t, "idle") /\ shutdownMutex = NoThread /\ ~isShutdown
  /\ shutdownMutex' = t
  /\ thread' = [thread EXCEPT ![t] = [Idle EXCEPT !.pc = "shutdown"]]
  /\ UNCHANGED <<configuration, refCounts, isShutdown, mutex, informed>>

\* doShutdown(): every handler is removed, and the mappings cleared for good measure ...
RemoveAll(t) ==
  /\ Does(t, "shutdown") /\ Free
  /\ LET released == {h \in Mapped : Registered(h)}
     IN  /\ refCounts' = CountsWithout(released)
         /\ thread' = Notifying(t, "releasing", released)
  /\ configuration' = [n \in Names |-> NoHandler]
  /\ UNCHANGED <<isShutdown, mutex, shutdownMutex, informed>>

\* ... and when the handlers have been notified the router counts as shut down.
EndShutdown(t) ==
  /\ Does(t, "releasing") /\ thread[t].notices = {}
  /\ isShutdown' = TRUE
  /\ shutdownMutex' = NoThread
  /\ thread' = [thread EXCEPT ![t] = Idle]
  /\ UNCHANGED <<configuration, refCounts, mutex, informed>>

-----------------------------------------------------------------------------
\* A thread goes on with what it began; handlers return from the calls made to them.
Continue(t) ==
  \/ EndAdd(t) \/ DoneNotifying(t) \/ Return(t) \/ RemoveAll(t) \/ EndShutdown(t)
  \/ \E h \in Handlers : Notify(t, h)

Next ==
  \E t \in Threads :
    \/ \E h \in Handlers : BeginAdd(t, h) \/ Remove(t, h)
    \/ \E n \in Names : Call(t, n)
    \/ BeginShutdown(t)
    \/ Continue(t)

Spec == Init /\ [][Next]_vars

\* Threads run, and a mutex that is released again and again is granted in the end.
FairSpec == Spec /\ \A t \in Threads : SF_vars(Continue(t))

-----------------------------------------------------------------------------
(* Properties *)

Pcs == {"idle", "adding", "calling", "notifying", "relocking", "shutdown", "releasing"}

\* The maps, the mutexes and the threads have their types; no count is negative.
TypeOK ==
  /\ configuration \in [Names -> Handlers \cup {NoHandler}]
  /\ refCounts \in [Handlers -> Nat]
  /\ isShutdown \in BOOLEAN
  /\ mutex \in Threads \cup {NoThread} /\ shutdownMutex \in Threads \cup {NoThread}
  /\ thread \in [Threads -> [pc : Pcs, handler : Handlers \cup {NoHandler},
                             notices : SUBSET Handlers]]
  /\ informed \subseteq Handlers

CallersOf(h) == {t \in Threads : Does(t, "calling") /\ thread[t].handler = h}

\* The count of a handler is the number of its mappings plus the calls in progress,
\* however removals, calls and shutdown interleave.
CountsAreUses ==
  \A h \in Handlers :
    refCounts[h] = Cardinality({n \in Names : configuration[n] = h}) + Cardinality(CallersOf(h))

\* A handler is registered for all of its names or for none of them.
AllOrNothing ==
  \A h \in Handlers : {n \in Names : configuration[n] = h} \in {{}, NamesOf[h]}

\* A handler that was removed and that nobody calls any more has been told, or a thread is
\* about to tell it: no order of removal, calls and shutdown forgets it.
RemovedIsTold ==
  \A h \in Handlers :
    refCounts[h] = 0 => h \in informed \/ \E t \in Threads : h \in thread[t].notices

\* No handler is registered in a router that was shut down.
ShutdownLeavesNoHandler == isShutdown => Mapped = {}

\* shutdown() returns: it "prepares this object to be deleted" (RequiresShutdown.h).
ShutdownReturns == \A t \in Threads : Does(t, "shutdown") ~> Does(t, "idle")
=============================================================================
