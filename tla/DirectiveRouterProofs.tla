------------------------ MODULE DirectiveRouterProofs ------------------------
(* What DirectiveRouter.tla promises for any handlers, names and threads.     *)
EXTENDS DirectiveRouter, FiniteSetTheorems, TLAPS

ThreadStates == [pc : Pcs, handler : Handlers \cup {NoHandler}, notices : SUBSET Handlers]

\* A thread that adds or calls has a handler in hand; only one that notifies has notices; and
\* one that shuts the router down holds the mutex of RequiresShutdown.
ThreadHolds(t) ==
  /\ thread[t].pc \in {"adding", "calling"} => thread[t].handler \in Handlers
  /\ thread[t].pc \notin {"notifying", "relocking", "releasing"} => thread[t].notices = {}
  /\ thread[t].pc \in {"shutdown", "releasing"} => shutdownMutex = t
ThreadsHold == \A t \in Threads : ThreadHolds(t)

MappingsOf(h) == {n \in Names : configuration[n] = h}

\* The invariant: the counts are right because a handler has all of its names or none.
RouterInv == TypeOK /\ ThreadsHold /\ AllOrNothing /\ CountsAreUses

-----------------------------------------------------------------------------
(* Counting *)

\* The sets that are counted are finite.
LEMMA Finite ==
  ASSUME NEW h
  PROVE  /\ IsFiniteSet(MappingsOf(h)) /\ Cardinality(MappingsOf(h)) \in Nat
         /\ IsFiniteSet(CallersOf(h)) /\ Cardinality(CallersOf(h)) \in Nat
<1>1. IsFiniteSet(MappingsOf(h)) /\ IsFiniteSet(CallersOf(h))
  <2>1. MappingsOf(h) \in SUBSET Names /\ CallersOf(h) \in SUBSET Threads
    BY DEF MappingsOf, CallersOf
  <2> QED
    BY <2>1, FS_Subset, ConfigurationAssumption
<1> QED
  BY <1>1, FS_CardinalityType

\* A handler's configuration is finite and not empty.
LEMMA FiniteNames ==
  ASSUME NEW h \in Handlers
  PROVE  /\ IsFiniteSet(NamesOf[h]) /\ Cardinality(NamesOf[h]) \in Nat
         /\ Cardinality(NamesOf[h]) > 0
         /\ NamesOf[h] \subseteq Names
<1>1. NamesOf[h] \in SUBSET Names /\ NamesOf[h] # {}
  BY ConfigurationAssumption
<1>2. IsFiniteSet(NamesOf[h])
  BY <1>1, FS_Subset, ConfigurationAssumption
<1>3. Cardinality(NamesOf[h]) \in Nat /\ Cardinality(NamesOf[h]) # 0
  BY <1>1, <1>2, FS_CardinalityType, FS_EmptySet
<1> QED
  BY <1>1, <1>2, <1>3

\* A handler is counted as used by a mapping: what is registered has a count.
LEMMA RegisteredIsMapped ==
  ASSUME RouterInv, NEW h \in Handlers
  PROVE  /\ Registered(h) <=> MappingsOf(h) = NamesOf[h]
         /\ ~Registered(h) => MappingsOf(h) = {}
         /\ refCounts[h] = Cardinality(MappingsOf(h)) + Cardinality(CallersOf(h))
<1>1. MappingsOf(h) \in {{}, NamesOf[h]}
  BY DEF RouterInv, AllOrNothing, MappingsOf
<1>2. Registered(h) <=> NamesOf[h] \subseteq MappingsOf(h)
  BY FiniteNames DEF Registered, MappingsOf
<1>3. NamesOf[h] # {}
  BY ConfigurationAssumption
<1>4. refCounts[h] = Cardinality(MappingsOf(h)) + Cardinality(CallersOf(h))
  BY DEF RouterInv, CountsAreUses, MappingsOf
<1> QED
  BY <1>1, <1>2, <1>3, <1>4

\* The callers of a handler when one thread changes what it does.
LEMMA CallersChange ==
  ASSUME TypeOK, NEW t \in Threads, NEW r, thread' = [thread EXCEPT ![t] = r], NEW h
  PROVE  /\ r.pc = "calling" /\ r.handler = h => CallersOf(h)' = CallersOf(h) \cup {t}
         /\ ~(r.pc = "calling" /\ r.handler = h) => CallersOf(h)' = CallersOf(h) \ {t}
BY DEF TypeOK, CallersOf, Does

\* ... when it was not in a call and is in none: nothing changes.
LEMMA CallersKept ==
  ASSUME TypeOK, NEW t \in Threads, thread[t].pc # "calling",
         NEW r, r.pc # "calling", thread' = [thread EXCEPT ![t] = r], NEW h
  PROVE  CallersOf(h)' = CallersOf(h)
<1>1. t \notin CallersOf(h)
  BY DEF CallersOf, Does
<1>2. CallersOf(h)' = CallersOf(h) \ {t}
  BY CallersChange
<1>3. CallersOf(h) \ {t} = CallersOf(h)
  BY <1>1
<1> QED
  BY <1>2, <1>3

\* A thread whose state changes has one, and the others keep theirs.
LEMMA ThreadChange ==
  ASSUME TypeOK, NEW t \in Threads, NEW r \in ThreadStates, thread' = [thread EXCEPT ![t] = r]
  PROVE  /\ thread' \in [Threads -> ThreadStates]
         /\ thread'[t] = r
         /\ \A u \in Threads \ {t} : thread'[u] = thread[u]
BY DEF TypeOK, ThreadStates

LEMMA IdleType == Idle \in ThreadStates /\ Idle.pc = "idle" /\ Idle.notices = {}
BY DEF Idle, ThreadStates, Pcs

-----------------------------------------------------------------------------
(* The invariant *)

LEMMA InitInv == Init => RouterInv
<1> SUFFICES ASSUME Init PROVE RouterInv
  OBVIOUS
<1>1. TypeOK
  BY ConfigurationAssumption, IdleType DEF Init, TypeOK, ThreadStates
<1>2. ThreadsHold
  BY IdleType DEF Init, ThreadsHold, ThreadHolds
<1>3. \A h \in Handlers : MappingsOf(h) = {} /\ CallersOf(h) = {}
  BY ConfigurationAssumption, IdleType DEF Init, MappingsOf, CallersOf, Does
<1>4. AllOrNothing
  BY <1>3 DEF AllOrNothing, MappingsOf
<1>5. CountsAreUses
  BY <1>3, FS_EmptySet DEF CountsAreUses, Init, MappingsOf
<1> QED
  BY <1>1, <1>2, <1>4, <1>5 DEF RouterInv

\* A step that changes neither mappings nor counts, and leaves the callers as they are.
LEMMA OnlyThreads ==
  ASSUME RouterInv, NEW t \in Threads, thread[t].pc # "calling",
         NEW r \in ThreadStates, r.pc # "calling", thread' = [thread EXCEPT ![t] = r],
         UNCHANGED <<configuration, refCounts>>,
         isShutdown' \in BOOLEAN, informed' \subseteq Handlers,
         mutex' \in Threads \cup {NoThread}, shutdownMutex' \in Threads \cup {NoThread}
  PROVE  TypeOK' /\ AllOrNothing' /\ CountsAreUses'
<1>1. TypeOK
  BY DEF RouterInv
<1>2. TypeOK'
  BY <1>1, ThreadChange DEF TypeOK, ThreadStates
<1>3. \A h \in Handlers : CallersOf(h)' = CallersOf(h)
  BY <1>1, CallersKept
<1>4. AllOrNothing' /\ CountsAreUses'
  BY <1>3 DEF RouterInv, AllOrNothing, CountsAreUses
<1> QED
  BY <1>2, <1>4

LEMMA BeginAddInv ==
  ASSUME RouterInv, NEW t \in Threads, NEW h \in Handlers, BeginAdd(t, h)
  PROVE  RouterInv'
<1> DEFINE r == [Idle EXCEPT !.pc = "adding", !.handler = h]
<1>1. TypeOK
  BY DEF RouterInv
<1>2. r \in ThreadStates /\ r.pc = "adding" /\ r.handler = h /\ r.notices = {}
  BY DEF Idle, ThreadStates, Pcs
<1>3. TypeOK' /\ AllOrNothing' /\ CountsAreUses'
  BY <1>1, <1>2, OnlyThreads DEF BeginAdd, Does, TypeOK
<1>4. ThreadsHold'
  BY <1>1, <1>2, ThreadChange DEF BeginAdd, RouterInv, ThreadsHold, ThreadHolds
<1> QED
  BY <1>3, <1>4 DEF RouterInv

\* addDirectiveHandler() maps all the names, and counts each.
LEMMA EndAddInv ==
  ASSUME RouterInv, NEW t \in Threads, EndAdd(t)
  PROVE  RouterInv'
<1>1. PICK h \in Handlers : TypeOK /\ thread[t].handler = h /\ thread[t].pc = "adding"
  BY DEF RouterInv, EndAdd, Does, ThreadsHold, ThreadHolds
<1>2. thread' = [thread EXCEPT ![t] = Idle]
  BY DEF EndAdd
<1>3. ThreadsHold'
  BY <1>1, <1>2, IdleType, ThreadChange DEF EndAdd, RouterInv, ThreadsHold, ThreadHolds
<1>4. \A g \in Handlers : CallersOf(g)' = CallersOf(g)
  BY <1>1, <1>2, IdleType, CallersKept
<1>5. CASE Addable(h)
  <2>1. /\ configuration' = [n \in Names |-> IF n \in NamesOf[h] THEN h ELSE configuration[n]]
        /\ refCounts' = [refCounts EXCEPT ![h] = @ + Cardinality(NamesOf[h])]
        /\ informed' = informed \ {h}
    BY <1>1, <1>5 DEF EndAdd
  <2>2. /\ \A n \in NamesOf[h] : configuration[n] = NoHandler
        /\ MappingsOf(h) = {}
    <3>1. \A n \in NamesOf[h] : configuration[n] = NoHandler
      BY <1>5 DEF Addable, AllNamesFree
    <3>2. ~Registered(h)
      BY <3>1, <1>1, FiniteNames, ConfigurationAssumption DEF Registered
    <3> QED
      BY <3>1, <3>2, <1>1, RegisteredIsMapped
  <2>3. MappingsOf(h)' = NamesOf[h]
    BY <2>1, <2>2, <1>1, FiniteNames DEF MappingsOf
  <2>4. \A g \in Handlers \ {h} : MappingsOf(g)' = MappingsOf(g)
    BY <2>1, <2>2, <1>1, ConfigurationAssumption DEF MappingsOf
  <2>5. refCounts[h] = Cardinality(CallersOf(h))
    BY <2>2, <1>1, Finite, FS_EmptySet, RegisteredIsMapped
  <2>6. TypeOK'
    <3>1. configuration' \in [Names -> Handlers \cup {NoHandler}]
      BY <2>1, <1>1 DEF TypeOK
    <3>2. refCounts' \in [Handlers -> Nat]
      BY <2>1, <1>1, FiniteNames DEF TypeOK
    <3> QED
      BY <3>1, <3>2, <2>1, <1>1, <1>2, IdleType, ThreadChange DEF TypeOK, EndAdd, ThreadStates
  <2>7. AllOrNothing'
    <3>1. \A g \in Handlers : MappingsOf(g)' \in {{}, NamesOf[g]}
      BY <2>3, <2>4 DEF RouterInv, AllOrNothing, MappingsOf
    <3> QED
      BY <3>1 DEF AllOrNothing, MappingsOf
  <2>8. ASSUME NEW g \in Handlers
        PROVE  refCounts'[g] = Cardinality(MappingsOf(g)') + Cardinality(CallersOf(g)')
    <3>1. CASE g = h
      <4>1. refCounts'[h] = refCounts[h] + Cardinality(NamesOf[h])
        BY <2>1, <1>1 DEF TypeOK
      <4> QED
        BY <3>1, <4>1, <2>3, <2>5, <1>1, <1>4, FiniteNames, Finite
    <3>2. CASE g # h
      <4>1. refCounts'[g] = refCounts[g]
        BY <3>2, <2>1, <1>1 DEF TypeOK
      <4> QED
        BY <3>2, <4>1, <2>4, <1>4, RegisteredIsMapped
    <3> QED
      BY <3>1, <3>2
  <2>9. CountsAreUses'
    BY <2>8 DEF CountsAreUses, MappingsOf
  <2> QED
    BY <2>6, <2>7, <2>9, <1>3 DEF RouterInv
<1>6. CASE ~Addable(h)
  <2>1. TypeOK' /\ AllOrNothing' /\ CountsAreUses'
    BY <1>1, <1>2, <1>6, IdleType, OnlyThreads DEF EndAdd, TypeOK
  <2> QED
    BY <2>1, <1>3 DEF RouterInv
<1> QED
  BY <1>5, <1>6

\* The mappings of some registered handlers are removed, and counted down.
LEMMA MappingsRemoved ==
  ASSUME RouterInv, NEW H \in SUBSET Handlers, \A h \in H : Registered(h),
         \A h \in H : MappingsOf(h)' = {},
         \A h \in Handlers \ H : MappingsOf(h)' = MappingsOf(h),
         \A h \in Handlers : CallersOf(h)' = CallersOf(h),
         refCounts' = CountsWithout(H)
  PROVE  refCounts' \in [Handlers -> Nat] /\ AllOrNothing' /\ CountsAreUses'
<1>1. ASSUME NEW h \in Handlers
      PROVE  refCounts'[h] = Cardinality(MappingsOf(h)') + Cardinality(CallersOf(h)')
  <2>1. CASE h \in H
    <3>1. refCounts'[h] = refCounts[h] - Cardinality(NamesOf[h])
      BY <2>1 DEF CountsWithout
    <3>2. refCounts[h] = Cardinality(NamesOf[h]) + Cardinality(CallersOf(h))
      BY <2>1, RegisteredIsMapped
    <3>3. refCounts'[h] = Cardinality(CallersOf(h))
      BY <3>1, <3>2, FiniteNames, Finite
    <3>4. Cardinality(MappingsOf(h)') = 0
      BY <2>1, FS_EmptySet
    <3> QED
      BY <3>3, <3>4, Finite
  <2>2. CASE h \notin H
    <3>1. refCounts'[h] = refCounts[h]
      BY <2>2 DEF CountsWithout
    <3> QED
      BY <2>2, <3>1, RegisteredIsMapped
  <2> QED
    BY <2>1, <2>2
<1>2. refCounts' \in [Handlers -> Nat]
  <2>1. ASSUME NEW h \in Handlers
        PROVE  refCounts'[h] \in Nat
    <3>1. Cardinality(MappingsOf(h)') \in Nat
      BY Finite, FS_EmptySet
    <3>2. Cardinality(CallersOf(h)') \in Nat
      BY Finite
    <3> QED
      BY <1>1, <3>1, <3>2
  <2> QED
    BY <2>1 DEF CountsWithout
<1>3. \A h \in Handlers : MappingsOf(h)' \in {{}, NamesOf[h]}
  BY DEF RouterInv, AllOrNothing, MappingsOf
<1>4. AllOrNothing'
  BY <1>3 DEF AllOrNothing, MappingsOf
<1>5. CountsAreUses'
  BY <1>1 DEF CountsAreUses, MappingsOf
<1> QED
  BY <1>2, <1>4, <1>5

LEMMA RemoveInv ==
  ASSUME RouterInv, NEW t \in Threads, NEW h \in Handlers, Remove(t, h)
  PROVE  RouterInv'
<1> DEFINE r == [pc |-> "notifying", handler |-> NoHandler, notices |-> {h}]
<1>1. TypeOK /\ thread[t].pc = "idle" /\ Registered(h)
  BY DEF RouterInv, Remove, Does
<1>2. r \in ThreadStates /\ thread' = [thread EXCEPT ![t] = r]
  BY DEF ThreadStates, Pcs, Remove, Notifying
<1>3. \A g \in Handlers : CallersOf(g)' = CallersOf(g)
  BY <1>1, <1>2, CallersKept
<1>4. configuration' = [n \in Names |-> IF n \in NamesOf[h] THEN NoHandler ELSE configuration[n]]
  BY DEF Remove
<1>5. MappingsOf(h) = NamesOf[h]
  BY <1>1, RegisteredIsMapped
<1>6. MappingsOf(h)' = {}
  BY <1>4, <1>5, ConfigurationAssumption DEF MappingsOf
<1>7. \A g \in Handlers \ {h} : MappingsOf(g)' = MappingsOf(g)
  BY <1>4, <1>5, ConfigurationAssumption DEF MappingsOf
<1>8. refCounts' \in [Handlers -> Nat] /\ AllOrNothing' /\ CountsAreUses'
  <2>1. refCounts' = CountsWithout({h})
    BY DEF Remove
  <2> QED
    BY <2>1, <1>1, <1>3, <1>6, <1>7, MappingsRemoved
<1>9. TypeOK'
  <2>1. configuration' \in [Names -> Handlers \cup {NoHandler}]
    BY <1>1, <1>4 DEF TypeOK
  <2> QED
    BY <2>1, <1>1, <1>2, <1>8, ThreadChange DEF TypeOK, Remove, ThreadStates
<1>10. ThreadsHold'
  <2>1. thread'[t] = r /\ \A u \in Threads \ {t} : thread'[u] = thread[u]
    BY <1>1, <1>2, ThreadChange
  <2>2. shutdownMutex' = shutdownMutex
    BY DEF Remove
  <2> QED
    BY <2>1, <2>2 DEF RouterInv, ThreadsHold, ThreadHolds
<1> QED
  BY <1>8, <1>9, <1>10 DEF RouterInv

LEMMA NotifyInv ==
  ASSUME RouterInv, NEW t \in Threads, NEW h \in Handlers, Notify(t, h)
  PROVE  RouterInv'
<1>1. TypeOK
  BY DEF RouterInv
<1>2. /\ thread[t] \in ThreadStates
      /\ thread[t].pc \in {"notifying", "relocking", "releasing"}
  BY <1>1 DEF TypeOK, RouterInv, ThreadsHold, ThreadHolds, Notify, ThreadStates
<1>3. PICK r \in ThreadStates :
        /\ thread' = [thread EXCEPT ![t] = r]
        /\ r.pc = thread[t].pc /\ r.handler = thread[t].handler
        /\ r.notices = thread[t].notices \ {h}
  <2> DEFINE s == [thread[t] EXCEPT !.notices = @ \ {h}]
  <2>1. s \in ThreadStates /\ s.pc = thread[t].pc /\ s.handler = thread[t].handler
        /\ s.notices = thread[t].notices \ {h}
    BY <1>2 DEF ThreadStates
  <2>2. thread' = [thread EXCEPT ![t] = s]
    BY DEF Notify
  <2> QED
    BY <2>1, <2>2
<1>4. TypeOK' /\ AllOrNothing' /\ CountsAreUses'
  BY <1>1, <1>2, <1>3, OnlyThreads DEF Notify, TypeOK
<1>5. ThreadsHold'
  BY <1>1, <1>2, <1>3, ThreadChange DEF Notify, RouterInv, ThreadsHold, ThreadHolds
<1> QED
  BY <1>4, <1>5 DEF RouterInv

LEMMA DoneNotifyingInv ==
  ASSUME RouterInv, NEW t \in Threads, DoneNotifying(t)
  PROVE  RouterInv'
<1>1. TypeOK /\ thread[t].pc \in {"notifying", "relocking"}
  BY DEF RouterInv, DoneNotifying, Does
<1>2. TypeOK' /\ AllOrNothing' /\ CountsAreUses'
  BY <1>1, IdleType, OnlyThreads DEF DoneNotifying, TypeOK
<1>3. ThreadsHold'
  BY <1>1, IdleType, ThreadChange DEF DoneNotifying, RouterInv, ThreadsHold, ThreadHolds
<1> QED
  BY <1>2, <1>3 DEF RouterInv

\* A call in progress is a use of its handler.
LEMMA CallInv ==
  ASSUME RouterInv, NEW t \in Threads, NEW n \in Names, Call(t, n)
  PROVE  RouterInv'
<1>1. PICK h \in Handlers : TypeOK /\ configuration[n] = h
  BY DEF RouterInv, TypeOK, Call
<1>2. PICK r \in ThreadStates :
        /\ r.pc = "calling" /\ r.handler = h /\ r.notices = {}
        /\ thread' = [thread EXCEPT ![t] = r]
        /\ thread[t].pc = "idle"
  <2> DEFINE s == [Idle EXCEPT !.pc = "calling", !.handler = h]
  <2>1. s \in ThreadStates /\ s.pc = "calling" /\ s.handler = h /\ s.notices = {}
    BY DEF ThreadStates, Pcs, Idle
  <2>2. thread' = [thread EXCEPT ![t] = s] /\ thread[t].pc = "idle"
    BY <1>1 DEF Call, Does
  <2> QED
    BY <2>1, <2>2
<1>3. /\ refCounts' = [refCounts EXCEPT ![h] = @ + 1]
      /\ UNCHANGED <<configuration, isShutdown, mutex, shutdownMutex, informed>>
  BY <1>1 DEF Call
<1>4. /\ thread' \in [Threads -> ThreadStates]
      /\ thread'[t] = r /\ \A u \in Threads \ {t} : thread'[u] = thread[u]
  BY <1>1, <1>2, ThreadChange
<1>5. TypeOK'
  BY <1>1, <1>3, <1>4 DEF TypeOK, ThreadStates
<1>6. ThreadsHold'
  BY <1>2, <1>3, <1>4 DEF RouterInv, ThreadsHold, ThreadHolds
<1>7. AllOrNothing'
  BY <1>3 DEF RouterInv, AllOrNothing
<1>8. ASSUME NEW g \in Handlers
      PROVE  refCounts'[g] = Cardinality(MappingsOf(g)') + Cardinality(CallersOf(g)')
  <2>1. MappingsOf(g)' = MappingsOf(g)
    BY <1>3 DEF MappingsOf
  <2>2. refCounts[g] = Cardinality(MappingsOf(g)) + Cardinality(CallersOf(g))
    BY RegisteredIsMapped
  <2>3. t \notin CallersOf(g)
    BY <1>2 DEF CallersOf, Does
  <2>4. CASE g = h
    <3>1. CallersOf(g)' = CallersOf(g) \cup {t}
      BY <1>1, <1>2, <2>4, CallersChange
    <3>2. Cardinality(CallersOf(g)') = Cardinality(CallersOf(g)) + 1
      BY <3>1, <2>3, Finite, FS_AddElement
    <3>3. refCounts'[g] = refCounts[g] + 1
      BY <1>1, <1>3, <2>4 DEF TypeOK
    <3> QED
      BY <2>1, <2>2, <3>2, <3>3, Finite
  <2>5. CASE g # h
    <3>1. \A u \in Threads :
            thread'[u].pc = "calling" /\ thread'[u].handler = g
              <=> thread[u].pc = "calling" /\ thread[u].handler = g
      BY <1>2, <1>4, <2>5
    <3>2. CallersOf(g)' = CallersOf(g)
      BY <3>1 DEF CallersOf, Does
    <3>3. refCounts'[g] = refCounts[g]
      BY <1>1, <1>3, <2>5 DEF TypeOK
    <3> QED
      BY <2>1, <2>2, <3>2, <3>3
  <2> QED
    BY <2>4, <2>5
<1>9. CountsAreUses'
  BY <1>8 DEF CountsAreUses, MappingsOf
<1> QED
  BY <1>5, <1>6, <1>7, <1>9 DEF RouterInv

\* What Return does: the count of the handler in hand goes down by one, and the last user is
\* to notify it.
LEMMA Returned ==
  ASSUME RouterInv, NEW t \in Threads, Return(t), NEW h \in Handlers, thread[t].handler = h
  PROVE  /\ thread[t].pc = "calling" /\ t \in CallersOf(h)
         /\ refCounts[h] > 0
         /\ refCounts' = [refCounts EXCEPT ![h] = @ - 1]
         /\ \E r \in ThreadStates :
              /\ thread' = [thread EXCEPT ![t] = r]
              /\ IF refCounts[h] = 1 THEN r.pc = "relocking" /\ r.notices = {h}
                 ELSE r.pc = "idle" /\ r.notices = {}
<1>1. thread[t].pc = "calling" /\ t \in CallersOf(h)
  BY DEF Return, CallersOf, Does
<1>2. refCounts[h] > 0
  <2>1. CallersOf(h) # {}
    BY <1>1
  <2>2. Cardinality(CallersOf(h)) > 0
    BY <2>1, Finite, FS_EmptySet
  <2> QED
    BY <2>2, RegisteredIsMapped, Finite
<1>3. refCounts' = [refCounts EXCEPT ![h] = @ - 1]
  <2>1. refCounts' = [refCounts EXCEPT ![h] = IF @ = 0 THEN 0 ELSE @ - 1]
    BY DEF Return
  <2>2. refCounts[h] # 0
    BY <1>2
  <2> QED
    BY <2>1, <2>2
<1>4. CASE refCounts[h] = 1
  <2> DEFINE r == [pc |-> "relocking", handler |-> NoHandler, notices |-> {h}]
  <2>1. r \in ThreadStates /\ r.pc = "relocking" /\ r.notices = {h}
    BY DEF ThreadStates, Pcs
  <2>2. thread' = [thread EXCEPT ![t] = r]
    BY <1>4 DEF Return, Notifying
  <2> QED
    BY <1>1, <1>2, <1>3, <1>4, <2>1, <2>2
<1>5. CASE refCounts[h] # 1
  <2>1. thread' = [thread EXCEPT ![t] = Idle]
    BY <1>5 DEF Return
  <2> QED
    BY <1>1, <1>2, <1>3, <1>5, <2>1, IdleType
<1> QED
  BY <1>4, <1>5

LEMMA ReturnInv ==
  ASSUME RouterInv, NEW t \in Threads, Return(t)
  PROVE  RouterInv'
<1>1. PICK h \in Handlers : TypeOK /\ thread[t].handler = h
  BY DEF RouterInv, ThreadsHold, ThreadHolds, Return, Does
<1>2. /\ thread[t].pc = "calling" /\ t \in CallersOf(h)
      /\ refCounts[h] > 0 /\ refCounts' = [refCounts EXCEPT ![h] = @ - 1]
  BY <1>1, Returned
<1>3. PICK r \in ThreadStates :
        /\ thread' = [thread EXCEPT ![t] = r]
        /\ r.pc \in {"relocking", "idle"}
        /\ r.pc = "idle" => r.notices = {}
  BY <1>1, Returned
<1>4. /\ thread' \in [Threads -> ThreadStates]
      /\ thread'[t] = r /\ \A u \in Threads \ {t} : thread'[u] = thread[u]
  BY <1>1, <1>3, ThreadChange
<1>5. UNCHANGED <<configuration, isShutdown, mutex, shutdownMutex, informed>>
  BY DEF Return
<1>6. TypeOK'
  <2>1. refCounts' \in [Handlers -> Nat]
    BY <1>1, <1>2 DEF TypeOK
  <2> QED
    BY <2>1, <1>1, <1>4, <1>5 DEF TypeOK, ThreadStates
<1>7. ThreadsHold'
  BY <1>3, <1>4, <1>5 DEF RouterInv, ThreadsHold, ThreadHolds
<1>8. AllOrNothing'
  BY <1>5 DEF RouterInv, AllOrNothing
<1>9. ASSUME NEW g \in Handlers
      PROVE  refCounts'[g] = Cardinality(MappingsOf(g)') + Cardinality(CallersOf(g)')
  <2>1. MappingsOf(g)' = MappingsOf(g)
    BY <1>5 DEF MappingsOf
  <2>2. refCounts[g] = Cardinality(MappingsOf(g)) + Cardinality(CallersOf(g))
    BY RegisteredIsMapped
  <2>3. CallersOf(g)' = CallersOf(g) \ {t}
    BY <1>1, <1>3, CallersChange
  <2>4. CASE g = h
    <3>1. Cardinality(CallersOf(g)') = Cardinality(CallersOf(g)) - 1
      BY <1>2, <2>3, <2>4, Finite, FS_RemoveElement
    <3>2. refCounts'[g] = refCounts[g] - 1
      BY <1>1, <1>2, <2>4 DEF TypeOK
    <3> QED
      BY <2>1, <2>2, <3>1, <3>2, Finite
  <2>5. CASE g # h
    <3>1. t \notin CallersOf(g)
      BY <1>1, <2>5 DEF CallersOf
    <3>2. CallersOf(g)' = CallersOf(g)
      BY <2>3, <3>1
    <3>3. refCounts'[g] = refCounts[g]
      BY <1>1, <1>2, <2>5 DEF TypeOK
    <3> QED
      BY <2>1, <2>2, <3>2, <3>3
  <2> QED
    BY <2>4, <2>5
<1>10. CountsAreUses'
  BY <1>9 DEF CountsAreUses, MappingsOf
<1> QED
  BY <1>6, <1>7, <1>8, <1>10 DEF RouterInv

LEMMA BeginShutdownInv ==
  ASSUME RouterInv, NEW t \in Threads, BeginShutdown(t)
  PROVE  RouterInv'
<1>1. TypeOK /\ thread[t].pc = "idle" /\ shutdownMutex = NoThread /\ shutdownMutex' = t
  BY DEF RouterInv, BeginShutdown, Does
<1>2. PICK r \in ThreadStates :
        r.pc = "shutdown" /\ r.notices = {} /\ thread' = [thread EXCEPT ![t] = r]
  <2> DEFINE s == [Idle EXCEPT !.pc = "shutdown"]
  <2>1. s \in ThreadStates /\ s.pc = "shutdown" /\ s.notices = {}
    BY DEF ThreadStates, Pcs, Idle
  <2>2. thread' = [thread EXCEPT ![t] = s]
    BY DEF BeginShutdown
  <2> QED
    BY <2>1, <2>2
<1>3. TypeOK' /\ AllOrNothing' /\ CountsAreUses'
  BY <1>1, <1>2, OnlyThreads DEF BeginShutdown, TypeOK
<1>4. ThreadsHold'
  BY <1>1, <1>2, ThreadChange, ConfigurationAssumption DEF RouterInv, ThreadsHold, ThreadHolds
<1> QED
  BY <1>3, <1>4 DEF RouterInv

\* doShutdown() finds every handler by one of its names, and removes all of them.
LEMMA RemoveAllInv ==
  ASSUME RouterInv, NEW t \in Threads, RemoveAll(t)
  PROVE  RouterInv' /\ Mapped' = {}
<1> DEFINE R == {h \in Mapped : Registered(h)}
<1>1. TypeOK /\ thread[t].pc = "shutdown" /\ shutdownMutex = t
  BY DEF RouterInv, RemoveAll, Does, ThreadsHold, ThreadHolds
<1>2. PICK H \in SUBSET Handlers : H = R
  BY <1>1 DEF Mapped, TypeOK
<1>3. PICK r \in ThreadStates :
        r.pc = "releasing" /\ r.notices = H /\ thread' = [thread EXCEPT ![t] = r]
  <2> DEFINE s == [pc |-> "releasing", handler |-> NoHandler, notices |-> H]
  <2>1. s \in ThreadStates /\ s.pc = "releasing" /\ s.notices = H
    BY DEF ThreadStates, Pcs
  <2>2. thread' = [thread EXCEPT ![t] = s]
    BY <1>2 DEF RemoveAll, Notifying
  <2> QED
    BY <2>1, <2>2
<1>4. /\ refCounts' = CountsWithout(H)
      /\ configuration' = [n \in Names |-> NoHandler]
      /\ UNCHANGED <<isShutdown, mutex, shutdownMutex, informed>>
  BY <1>2 DEF RemoveAll
<1>5. Mapped' = {}
  BY <1>4 DEF Mapped
<1>6. \A h \in H : Registered(h)
  BY <1>2
<1>7. \A h \in Handlers : MappingsOf(h)' = {}
  BY <1>4, ConfigurationAssumption DEF MappingsOf
<1>8. ASSUME NEW h \in Handlers \ H
      PROVE  MappingsOf(h) = {}
  <2>1. MappingsOf(h) # {} => Registered(h)
    BY RegisteredIsMapped
  <2>2. MappingsOf(h) # {} => h \in Mapped
    BY ConfigurationAssumption DEF MappingsOf, Mapped
  <2> QED
    BY <1>2, <2>1, <2>2
<1>9. \A h \in Handlers : CallersOf(h)' = CallersOf(h)
  BY <1>1, <1>3, CallersKept
<1>10. refCounts' \in [Handlers -> Nat] /\ AllOrNothing' /\ CountsAreUses'
  BY <1>4, <1>6, <1>7, <1>8, <1>9, MappingsRemoved
<1>11. TypeOK'
  BY <1>1, <1>3, <1>4, <1>10, ThreadChange DEF TypeOK, ThreadStates
<1>12. ThreadsHold'
  <2>1. thread'[t] = r /\ \A u \in Threads \ {t} : thread'[u] = thread[u]
    BY <1>1, <1>3, ThreadChange
  <2> QED
    BY <1>1, <1>3, <1>4, <2>1 DEF RouterInv, ThreadsHold, ThreadHolds
<1> QED
  BY <1>5, <1>10, <1>11, <1>12 DEF RouterInv

LEMMA EndShutdownInv ==
  ASSUME RouterInv, NEW t \in Threads, EndShutdown(t)
  PROVE  RouterInv'
<1>1. TypeOK /\ thread[t].pc = "releasing" /\ shutdownMutex = t /\ shutdownMutex' = NoThread
  BY DEF RouterInv, EndShutdown, Does, ThreadsHold, ThreadHolds
<1>2. TypeOK' /\ AllOrNothing' /\ CountsAreUses'
  BY <1>1, IdleType, OnlyThreads DEF EndShutdown, TypeOK
<1>3. ThreadsHold'
  BY <1>1, IdleType, ThreadChange DEF EndShutdown, RouterInv, ThreadsHold, ThreadHolds
<1> QED
  BY <1>2, <1>3 DEF RouterInv

LEMMA StutterInv ==
  ASSUME RouterInv, UNCHANGED vars
  PROVE  RouterInv'
<1>1. TypeOK' /\ ThreadsHold' /\ AllOrNothing'
  BY DEF vars, RouterInv, TypeOK, ThreadsHold, ThreadHolds, AllOrNothing
<1>2. CountsAreUses'
  BY DEF vars, RouterInv, CountsAreUses, CallersOf, Does
<1> QED
  BY <1>1, <1>2 DEF RouterInv

LEMMA StepInv == RouterInv /\ [Next]_vars => RouterInv'
<1> SUFFICES ASSUME RouterInv, [Next]_vars PROVE RouterInv'
  OBVIOUS
<1>1. CASE UNCHANGED vars
  BY <1>1, StutterInv
<1>2. ASSUME NEW t \in Threads, NEW h \in Handlers, BeginAdd(t, h) \/ Remove(t, h) \/ Notify(t, h)
      PROVE  RouterInv'
  BY <1>2, BeginAddInv, RemoveInv, NotifyInv
<1>3. ASSUME NEW t \in Threads, NEW n \in Names, Call(t, n)
      PROVE  RouterInv'
  BY <1>3, CallInv
<1>4. ASSUME NEW t \in Threads, EndAdd(t) \/ DoneNotifying(t) \/ Return(t)
      PROVE  RouterInv'
  BY <1>4, EndAddInv, DoneNotifyingInv, ReturnInv
<1>5. ASSUME NEW t \in Threads, BeginShutdown(t) \/ RemoveAll(t) \/ EndShutdown(t)
      PROVE  RouterInv'
  BY <1>5, BeginShutdownInv, RemoveAllInv, EndShutdownInv
<1> QED
  BY <1>1, <1>2, <1>3, <1>4, <1>5 DEF Next, Continue

LEMMA InvCorrect == Spec => []RouterInv
BY InitInv, StepInv, PTL DEF Spec

\* The maps, mutexes and threads of the router have their types, and no count is negative.
THEOREM TypeCorrect == Spec => []TypeOK
<1>1. RouterInv => TypeOK
  BY DEF RouterInv
<1> QED
  BY <1>1, InvCorrect, PTL

\* A handler's reference count is the number of its mappings plus the calls in progress.
THEOREM CountsAreRight == Spec => []CountsAreUses
<1>1. RouterInv => CountsAreUses
  BY DEF RouterInv
<1> QED
  BY <1>1, InvCorrect, PTL

\* No handler is ever registered for some of its names only.
THEOREM RegisteredWhole == Spec => []AllOrNothing
<1>1. RouterInv => AllOrNothing
  BY DEF RouterInv
<1> QED
  BY <1>1, InvCorrect, PTL

-----------------------------------------------------------------------------
(* Shutdown *)

\* From the removal of all handlers until the router counts as shut down, and after it, none
\* is mapped: the thread in between holds the mutex for which addDirectiveHandler() waits.
DownInv ==
  /\ ShutdownLeavesNoHandler
  /\ \A t \in Threads : thread[t].pc = "releasing" => Mapped = {}

LEMMA DownStep == RouterInv /\ DownInv /\ [Next]_vars => DownInv'
<1> SUFFICES ASSUME RouterInv, DownInv, [Next]_vars PROVE DownInv'
  OBVIOUS
<1>1. TypeOK
  BY DEF RouterInv
<1>2. ASSUME UNCHANGED <<configuration, isShutdown>>,
             \A t \in Threads : thread'[t].pc = "releasing" => thread[t].pc = "releasing"
      PROVE  DownInv'
  BY <1>2 DEF DownInv, ShutdownLeavesNoHandler, Mapped
<1>3. CASE UNCHANGED vars
  BY <1>2, <1>3 DEF vars
<1>4. ASSUME NEW t \in Threads, NEW h \in Handlers, BeginAdd(t, h) \/ Notify(t, h)
      PROVE  DownInv'
  <2>1. \A u \in Threads : thread'[u].pc = "releasing" => thread[u].pc = "releasing"
    BY <1>1, <1>4 DEF BeginAdd, Notify, TypeOK, Idle
  <2> QED
    BY <1>2, <1>4, <2>1 DEF BeginAdd, Notify
<1>5. ASSUME NEW t \in Threads, EndAdd(t)
      PROVE  DownInv'
  <2>1. \A u \in Threads : thread[u].pc # "releasing"
    BY <1>5, ConfigurationAssumption DEF EndAdd, RouterInv, ThreadsHold, ThreadHolds
  <2>2. \A u \in Threads : thread'[u].pc # "releasing"
    BY <1>1, <1>5, <2>1, IdleType DEF EndAdd, TypeOK
  <2>3. CASE isShutdown
    BY <1>2, <1>5, <2>2, <2>3 DEF EndAdd, Addable
  <2>4. CASE ~isShutdown
    BY <1>5, <2>2, <2>4 DEF EndAdd, DownInv, ShutdownLeavesNoHandler
  <2> QED
    BY <2>3, <2>4
<1>6. ASSUME NEW t \in Threads, NEW h \in Handlers, Remove(t, h)
      PROVE  DownInv'
  <2>1. \A u \in Threads : thread'[u].pc = "releasing" => thread[u].pc = "releasing"
    BY <1>1, <1>6 DEF Remove, Notifying, TypeOK
  <2>2. Mapped = {} => Mapped' = {}
    BY <1>6 DEF Remove, Mapped
  <2> QED
    BY <1>6, <2>1, <2>2 DEF Remove, DownInv, ShutdownLeavesNoHandler
<1>7. ASSUME NEW t \in Threads, NEW n \in Names, Call(t, n)
      PROVE  DownInv'
  <2>1. \A u \in Threads : thread'[u].pc = "releasing" => thread[u].pc = "releasing"
    BY <1>1, <1>7 DEF Call, TypeOK, Idle
  <2> QED
    BY <1>2, <1>7, <2>1 DEF Call
<1>8. ASSUME NEW t \in Threads, DoneNotifying(t) \/ Return(t) \/ BeginShutdown(t)
      PROVE  DownInv'
  <2>1. \A u \in Threads : thread'[u].pc = "releasing" => thread[u].pc = "releasing"
    BY <1>1, <1>8 DEF DoneNotifying, Return, Notifying, BeginShutdown, TypeOK, Idle
  <2> QED
    BY <1>2, <1>8, <2>1 DEF DoneNotifying, Return, BeginShutdown
<1>9. ASSUME NEW t \in Threads, RemoveAll(t)
      PROVE  DownInv'
  BY <1>9, RemoveAllInv DEF DownInv, ShutdownLeavesNoHandler
<1>10. ASSUME NEW t \in Threads, EndShutdown(t)
       PROVE  DownInv'
  <2>1. Mapped = {} /\ Mapped' = {}
    BY <1>10 DEF EndShutdown, Does, DownInv, Mapped
  <2> QED
    BY <2>1 DEF DownInv, ShutdownLeavesNoHandler
<1> QED
  BY <1>3, <1>4, <1>5, <1>6, <1>7, <1>8, <1>9, <1>10 DEF Next, Continue

\* A router that was shut down has no handler, also when handlers were being added.
THEOREM ShutdownIsFinal == Spec => []ShutdownLeavesNoHandler
<1>1. Init => DownInv
  BY IdleType DEF Init, DownInv, ShutdownLeavesNoHandler
<1>2. DownInv => ShutdownLeavesNoHandler
  BY DEF DownInv
<1> QED
  BY <1>1, <1>2, DownStep, InvCorrect, PTL DEF Spec

-----------------------------------------------------------------------------
(* Notices *)

\* A step after which every handler without a count is told, or is still told by the same.
LEMMA ToldKept ==
  ASSUME RouterInv, RemovedIsTold, NEW t \in Threads, NEW r \in ThreadStates,
         thread' = [thread EXCEPT ![t] = r],
         \A h \in Handlers : refCounts'[h] = 0 =>
            \/ h \in r.notices \/ h \in informed'
            \/ /\ refCounts[h] = 0 /\ h \notin informed \ informed'
               /\ h \notin thread[t].notices \ r.notices
  PROVE  RemovedIsTold'
<1>1. /\ thread'[t] = r /\ \A u \in Threads \ {t} : thread'[u] = thread[u]
  BY ThreadChange DEF RouterInv
<1>2. ASSUME NEW h \in Handlers, refCounts'[h] = 0
      PROVE  h \in informed' \/ \E u \in Threads : h \in thread'[u].notices
  <2>1. CASE h \in r.notices \/ h \in informed'
    BY <1>1, <2>1
  <2>2. CASE /\ refCounts[h] = 0 /\ h \notin informed \ informed'
             /\ h \notin thread[t].notices \ r.notices
    <3>1. h \in informed \/ \E u \in Threads : h \in thread[u].notices
      BY <2>2 DEF RemovedIsTold
    <3>2. CASE h \in informed
      BY <2>2, <3>2
    <3>3. ASSUME NEW u \in Threads, h \in thread[u].notices
          PROVE  \E v \in Threads : h \in thread'[v].notices
      BY <1>1, <2>2, <3>3
    <3> QED
      BY <3>1, <3>2, <3>3
  <2> QED
    BY <1>2, <2>1, <2>2
<1> QED
  BY <1>2 DEF RemovedIsTold

LEMMA ToldStep == RouterInv /\ RemovedIsTold /\ [Next]_vars => RemovedIsTold'
<1> SUFFICES ASSUME RouterInv, RemovedIsTold, [Next]_vars PROVE RemovedIsTold'
  OBVIOUS
<1>1. TypeOK
  BY DEF RouterInv
<1>2. CASE UNCHANGED vars
  BY <1>2 DEF vars, RemovedIsTold
<1>3. ASSUME NEW t \in Threads, NEW r \in ThreadStates, thread' = [thread EXCEPT ![t] = r],
             UNCHANGED <<refCounts, informed>>, thread[t].notices = {}
      PROVE  RemovedIsTold'
  BY <1>3, ToldKept
<1>4. ASSUME NEW t \in Threads, NEW h \in Handlers, BeginAdd(t, h)
      PROVE  RemovedIsTold'
  <2> DEFINE s == [Idle EXCEPT !.pc = "adding", !.handler = h]
  <2>1. s \in ThreadStates
    BY DEF ThreadStates, Pcs, Idle
  <2>2. thread[t].notices = {}
    BY <1>4 DEF BeginAdd, Does, RouterInv, ThreadsHold, ThreadHolds
  <2> QED
    BY <1>3, <1>4, <2>1, <2>2 DEF BeginAdd
<1>5. ASSUME NEW t \in Threads, EndAdd(t)
      PROVE  RemovedIsTold'
  <2>1. PICK h \in Handlers : thread[t].handler = h /\ thread[t].notices = {}
    BY <1>5 DEF EndAdd, Does, RouterInv, ThreadsHold, ThreadHolds
  <2>2. thread' = [thread EXCEPT ![t] = Idle]
    BY <1>5 DEF EndAdd
  <2>3. CASE Addable(h)
    <3>1. /\ refCounts' = [refCounts EXCEPT ![h] = @ + Cardinality(NamesOf[h])]
          /\ informed' = informed \ {h}
      BY <1>5, <2>1, <2>3 DEF EndAdd
    <3>2. refCounts'[h] # 0 /\ \A g \in Handlers \ {h} : refCounts'[g] = refCounts[g]
      BY <1>1, <3>1, FiniteNames DEF TypeOK
    <3> QED
      BY <2>1, <2>2, <3>1, <3>2, IdleType, ToldKept
  <2>4. CASE ~Addable(h)
    BY <1>3, <1>5, <2>1, <2>2, <2>4, IdleType DEF EndAdd
  <2> QED
    BY <2>3, <2>4
<1>6. ASSUME NEW t \in Threads, NEW h \in Handlers, Remove(t, h)
      PROVE  RemovedIsTold'
  <2> DEFINE s == [pc |-> "notifying", handler |-> NoHandler, notices |-> {h}]
  <2>1. /\ s \in ThreadStates /\ s.notices = {h}
        /\ thread' = [thread EXCEPT ![t] = s]
    BY <1>6 DEF ThreadStates, Pcs, Remove, Notifying
  <2>2. thread[t].notices = {}
    BY <1>6 DEF Remove, Does, RouterInv, ThreadsHold, ThreadHolds
  <2>3. \A g \in Handlers \ {h} : refCounts'[g] = refCounts[g]
    BY <1>6 DEF Remove, CountsWithout
  <2>4. informed' = informed
    BY <1>6 DEF Remove
  <2> HIDE DEF s
  <2> QED
    BY <2>1, <2>2, <2>3, <2>4, ToldKept
<1>7. ASSUME NEW t \in Threads, NEW h \in Handlers, Notify(t, h)
      PROVE  RemovedIsTold'
  <2> DEFINE s == [thread[t] EXCEPT !.notices = @ \ {h}]
  <2>1. /\ s \in ThreadStates /\ s.notices = thread[t].notices \ {h}
        /\ thread' = [thread EXCEPT ![t] = s]
    BY <1>1, <1>7 DEF TypeOK, ThreadStates, Notify
  <2>2. refCounts' = refCounts /\ informed' = informed \cup {h}
    BY <1>7 DEF Notify
  <2> HIDE DEF s
  <2> QED
    BY <2>1, <2>2, ToldKept
<1>8. ASSUME NEW t \in Threads, DoneNotifying(t) \/ EndShutdown(t)
      PROVE  RemovedIsTold'
  BY <1>3, <1>8, IdleType DEF DoneNotifying, EndShutdown
<1>9. ASSUME NEW t \in Threads, NEW n \in Names, Call(t, n)
      PROVE  RemovedIsTold'
  <2>1. PICK h \in Handlers : configuration[n] = h
    BY <1>1, <1>9 DEF TypeOK, Call
  <2> DEFINE s == [Idle EXCEPT !.pc = "calling", !.handler = h]
  <2>2. s \in ThreadStates /\ thread' = [thread EXCEPT ![t] = s]
    BY <1>9, <2>1 DEF ThreadStates, Pcs, Idle, Call
  <2>3. thread[t].notices = {}
    BY <1>9 DEF Call, Does, RouterInv, ThreadsHold, ThreadHolds
  <2>4. \A g \in Handlers : refCounts[g] # 0 => refCounts'[g] # 0
    BY <1>1, <1>9, <2>1 DEF Call, TypeOK
  <2>5. informed' = informed
    BY <1>9 DEF Call
  <2> HIDE DEF s
  <2>6. \A g \in {} : refCounts'[g] = 0 => g \in s.notices \/ g \in informed'
    OBVIOUS
  <2> QED
    BY <2>2, <2>3, <2>4, <2>5, <2>6, ToldKept
<1>10. ASSUME NEW t \in Threads, Return(t)
       PROVE  RemovedIsTold'
  <2>1. PICK h \in Handlers : thread[t].handler = h /\ thread[t].notices = {}
    BY <1>10 DEF Return, Does, RouterInv, ThreadsHold, ThreadHolds
  <2>2. /\ refCounts[h] > 0
        /\ refCounts' = [refCounts EXCEPT ![h] = @ - 1]
    BY <1>10, <2>1, Returned
  <2>3. PICK r \in ThreadStates :
          /\ thread' = [thread EXCEPT ![t] = r]
          /\ refCounts[h] = 1 => r.notices = {h}
    BY <1>10, <2>1, Returned
  <2>4. \A g \in Handlers \ {h} : refCounts'[g] = refCounts[g]
    BY <1>1, <2>2 DEF TypeOK
  <2>5. refCounts'[h] = 0 => h \in r.notices
    BY <1>1, <2>2, <2>3 DEF TypeOK
  <2>6. informed' = informed
    BY <1>10 DEF Return
  <2>7. \A g \in Handlers : refCounts'[g] = 0 =>
          \/ g \in r.notices
          \/ refCounts[g] = 0 /\ g \notin informed \ informed' /\ g \notin thread[t].notices
    BY <2>1, <2>4, <2>5, <2>6
  <2>8. thread' = [thread EXCEPT ![t] = r]
    BY <2>3
  <2> QED
    BY <2>7, <2>8, ToldKept
<1>11. ASSUME NEW t \in Threads, BeginShutdown(t)
       PROVE  RemovedIsTold'
  <2> DEFINE s == [Idle EXCEPT !.pc = "shutdown"]
  <2>1. s \in ThreadStates
    BY DEF ThreadStates, Pcs, Idle
  <2>2. thread[t].notices = {}
    BY <1>11 DEF BeginShutdown, Does, RouterInv, ThreadsHold, ThreadHolds
  <2> QED
    BY <1>3, <1>11, <2>1, <2>2 DEF BeginShutdown
<1>12. ASSUME NEW t \in Threads, RemoveAll(t)
       PROVE  RemovedIsTold'
  <2>1. PICK H \in SUBSET Handlers : H = {h \in Mapped : Registered(h)}
    BY <1>1 DEF Mapped, TypeOK
  <2> DEFINE s == [pc |-> "releasing", handler |-> NoHandler, notices |-> H]
  <2>2. /\ s \in ThreadStates /\ s.notices = H
        /\ thread' = [thread EXCEPT ![t] = s]
    BY <1>12, <2>1 DEF ThreadStates, Pcs, RemoveAll, Notifying
  <2>3. thread[t].notices = {}
    BY <1>12 DEF RemoveAll, Does, RouterInv, ThreadsHold, ThreadHolds
  <2>4. /\ \A g \in Handlers \ H : refCounts'[g] = refCounts[g]
        /\ informed' = informed
    BY <1>12, <2>1 DEF RemoveAll, CountsWithout
  <2> HIDE DEF s
  <2> QED
    BY <2>2, <2>3, <2>4, ToldKept
<1> QED
  BY <1>2, <1>4, <1>5, <1>6, <1>7, <1>8, <1>9, <1>10, <1>11, <1>12 DEF Next, Continue

\* A handler without mappings and without calls was told that it is deregistered, or a thread
\* is about to tell it.
THEOREM NobodyIsForgotten == Spec => []RemovedIsTold
<1>1. Init => RemovedIsTold
  BY DEF Init, RemovedIsTold
<1> QED
  BY <1>1, ToldStep, InvCorrect, PTL DEF Spec
=============================================================================
