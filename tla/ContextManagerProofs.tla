------------------------ MODULE ContextManagerProofs ------------------------
(* What ContextManager.tla promises for any names, providers and requesters, *)
(* as long as the token does not make a full turn.                            *)
EXTENDS ContextManager, SequenceTheorems, FiniteSetTheorems, TLAPS

\* There are fewer calls of getContext() than tokens.
NoFullTurn == IsFiniteSet(Requesters) /\ Cardinality(Requesters) < TokenRange

(* The inductive invariant *)

InfosFit == Registered \subseteq Names /\ infos \in [Registered -> Infos]

RequestRecords == [requester : asked, token : 0 .. token, pc : Pcs]

ValuesFit ==
  /\ pending \subseteq Names
  /\ token \in 0 .. TokenRange - 1 /\ (token = 0 => pc \in {"idle", "exited"})
  /\ queue \in Seq(RequestRecords)
  /\ shutdown \in BOOLEAN /\ inserts \in 0 .. MaxInserts /\ disturbed \in BOOLEAN /\ corrupted \in BOOLEAN
  /\ pc \in Pcs
  /\ owed \subseteq Registered /\ at \in Registered \cup {NoName}
  /\ result \in {"none", "context", "timeout", "build error"} /\ rounds \subseteq 0 .. token
  /\ called \subseteq Names
  /\ outstanding \subseteq Names \X (1 .. token)
  /\ answered \subseteq asked /\ asked \subseteq Requesters

Gathering == {"asking", "calling", "called", "waiting", "collecting"}
Resting == {"idle", "exited"}

\* Each round has answered somebody, or will: there are no more rounds than requesters.
TurnFits == token <= Cardinality(answered) + (IF pc \in Resting \/ queue = << >> THEN 0 ELSE 1)

RequestersFit ==
  \A i \in DOMAIN queue : /\ queue[i].requester \notin answered
                          /\ \A j \in DOMAIN queue : queue[i].requester = queue[j].requester => i = j

\* Whoever waits to be answered waits for this round, or for the next one if there is none.
RoundsFit == \A i \in DOMAIN queue : RoundOf(queue[i]) <= IF pc \in Resting THEN token + 1 ELSE token

\* A state that was not told in this round is still to be asked for, or awaited.
ToldOrAwaited(n) == IsRefreshed(n) /\ ~infos[n].isEmpty => infos[n].round = token \/ n \in owed \cup pending

Gathered ==
  /\ pc \in {"waiting", "collecting"} => owed = {}
  /\ pc = "collecting" => pending = {}
  /\ pc \in Gathering /\ ~disturbed => \A n \in Registered : ToldOrAwaited(n)

Handed == pc = "delivering" /\ result = "context" /\ ~disturbed => \A k \in rounds : k = token

ContextInv ==
  /\ InfosFit /\ ValuesFit
  /\ TurnFits /\ RequestersFit /\ RoundsFit /\ Gathered /\ Handed

-----------------------------------------------------------------------------
LEMMA TypeIs == InfosFit /\ ValuesFit => TypeOK
<1> SUFFICES ASSUME InfosFit, ValuesFit PROVE TypeOK
  OBVIOUS
<1>1. \E N \in SUBSET Names : infos \in [N -> Infos]
  BY DEF InfosFit
<1> QED
  BY <1>1 DEF ValuesFit, TypeOK, RequestRecords

LEMMA Ranges == TokenRange \in Nat /\ TokenRange > 1 /\ MaxInserts \in Nat /\ NoName \notin Names
  BY TokenAssumption

LEMMA TokenIs == ASSUME ContextInv PROVE token \in Nat /\ token < TokenRange /\ token \in 0 .. token /\ 0 \in 0 .. token
<1>1. token \in 0 .. TokenRange - 1
  BY DEF ContextInv, ValuesFit
<1> QED
  BY <1>1, Ranges

LEMMA InitInv == ASSUME Init PROVE ContextInv
<1>1. DOMAIN infos = {} /\ infos \in [{} -> Infos] /\ queue \in Seq(RequestRecords) /\ DOMAIN queue = {}
  BY EmptySeq, LenProperties DEF Init
<1>2. InfosFit
  BY <1>1 DEF InfosFit, Registered
<1>3. ValuesFit
  <2>1. 0 \in 0 .. TokenRange - 1 /\ 0 \in 0 .. MaxInserts
    BY Ranges
  <2> QED
    BY <1>1, <2>1 DEF Init, ValuesFit, Registered, Pcs
<1>4. TurnFits
  BY FS_EmptySet DEF Init, TurnFits, Resting
<1>5. RequestersFit /\ RoundsFit /\ Gathered /\ Handed
  BY <1>1 DEF RequestersFit, RoundsFit, Gathered, Handed, Init, Gathering
<1> QED
  BY <1>2, <1>3, <1>4, <1>5 DEF ContextInv

-----------------------------------------------------------------------------
(* The callers *)

\* What is told or withdrawn changes the map, and nothing of the requests.
LEMMA MapStep ==
  ASSUME ContextInv, UNCHANGED <<token, requests, loop, corrupted>>, shutdown' \in BOOLEAN,
         InfosFit', inserts' \in 0 .. MaxInserts, disturbed' \in BOOLEAN, disturbed => disturbed',
         owed' \subseteq Registered', at' \in Registered' \cup {NoName},
         pending' \subseteq pending, outstanding' \subseteq outstanding,
         pc \in {"waiting", "collecting"} => owed' = {},
         pc \in Gathering /\ ~disturbed' => \A n \in Registered' : ToldOrAwaited(n)'
  PROVE  ContextInv'
<1>1. ValuesFit'
  <2>1. RequestRecords' = RequestRecords
    BY DEF RequestRecords, requests
  <2> QED
    BY <2>1 DEF ContextInv, ValuesFit, requests, loop
<1>2. TurnFits' /\ RequestersFit' /\ RoundsFit' /\ Handed'
  <2>1. Handed'
    BY DEF ContextInv, Handed, loop, Gathering
  <2> QED
    BY <2>1 DEF ContextInv, TurnFits, RequestersFit, RoundsFit, RoundOf, requests, loop
<1>3. Gathered'
  BY DEF ContextInv, Gathered, loop
<1> QED
  BY <1>1, <1>2, <1>3 DEF ContextInv

\* Others than n are awaited as before.
Withdrawn(n) == pending' = pending \/ pending' = pending \ {n}

LEMMA InsertInv ==
  ASSUME ContextInv, NEW n \in Names \ Registered, NEW info \in Infos, Insert(n, info),
         info.policy # "NEVER" => info.isEmpty \/ info.round = token,
         Withdrawn(n), outstanding' \subseteq outstanding, UNCHANGED <<token, requests, shutdown, loop, corrupted>>
  PROVE  ContextInv'
<1>0. InfosFit /\ ValuesFit /\ Gathered
  BY DEF ContextInv
<1>1. /\ inserts < MaxInserts /\ inserts' = inserts + 1 /\ UNCHANGED at
      /\ infos' = [m \in Registered \cup {n} |-> IF m = n THEN info ELSE infos[m]]
      /\ \/ Iterating /\ owed' \in SUBSET (Registered \cup {n}) /\ disturbed' = TRUE
         \/ ~Iterating /\ UNCHANGED <<owed, disturbed>>
  BY DEF Insert
<1>2. /\ Registered' = Registered \cup {n} /\ infos'[n] = info
      /\ \A m \in Registered : infos'[m] = infos[m] /\ infos[m] \in Infos
  BY <1>0, <1>1 DEF InfosFit, Registered
<1>3. InfosFit'
  <2>1. Infos' = Infos
    BY DEF Infos
  <2> QED
    BY <1>0, <1>1, <1>2, <2>1 DEF InfosFit
<1>4. inserts' \in 0 .. MaxInserts
  <2>1. inserts \in 0 .. MaxInserts
    BY <1>0 DEF ValuesFit
  <2> QED
    BY <1>1, <2>1, Ranges
<1>5. /\ disturbed' \in BOOLEAN /\ (disturbed => disturbed') /\ owed' \subseteq Registered'
      /\ at' \in Registered' \cup {NoName} /\ pending' \subseteq pending /\ shutdown' \in BOOLEAN
  <2>1. disturbed \in BOOLEAN /\ owed \subseteq Registered /\ at \in Registered \cup {NoName} /\ shutdown \in BOOLEAN
    BY <1>0 DEF ValuesFit
  <2>2. disturbed' \in BOOLEAN /\ (disturbed => disturbed')
    BY <1>1, <2>1
  <2>3. pending' \subseteq pending
    BY DEF Withdrawn
  <2> QED
    BY <1>1, <1>2, <2>1, <2>2, <2>3
<1>6. pc \in {"waiting", "collecting"} => owed' = {}
  BY <1>0, <1>1 DEF Gathered, Iterating
<1>7. ASSUME pc \in Gathering, ~disturbed', NEW m \in Registered' PROVE ToldOrAwaited(m)'
  <2>1. UNCHANGED <<owed, disturbed, token>> /\ ~disturbed
    BY <1>1, <1>7
  <2>2. CASE m = n
    BY <1>2, <2>1, <2>2 DEF ToldOrAwaited, IsRefreshed
  <2>3. CASE m # n
    <3>1. m \in Registered /\ infos'[m] = infos[m] /\ ToldOrAwaited(m) /\ (m \in pending => m \in pending')
      BY <1>0, <1>2, <1>7, <2>1, <2>3 DEF Gathered, Withdrawn
    <3> QED
      BY <2>1, <3>1 DEF ToldOrAwaited, IsRefreshed
  <2> QED
    BY <2>2, <2>3
<1> QED
  BY <1>3, <1>4, <1>5, <1>6, <1>7, MapStep

\* The entry of n is changed, to one told in this round if it is told at all.
LEMMA ChangeInv ==
  ASSUME ContextInv, NEW n \in Registered, NEW info \in Infos, infos' = [infos EXCEPT ![n] = info],
         \/ info.round = token
         \/ UNCHANGED pending /\ info = [infos[n] EXCEPT !.hasProvider = TRUE],
         Withdrawn(n), outstanding' \subseteq outstanding,
         UNCHANGED <<inserts, owed, at, disturbed, token, requests, shutdown, loop, corrupted>>
  PROVE  ContextInv'
<1>0. InfosFit /\ ValuesFit /\ Gathered
  BY DEF ContextInv
<1>1. Registered' = Registered /\ infos'[n] = info /\ \A m \in Registered \ {n} : infos'[m] = infos[m]
  BY <1>0 DEF InfosFit, Registered
<1>2. InfosFit'
  <2>1. Infos' = Infos
    BY DEF Infos
  <2> QED
    BY <1>0, <1>1, <2>1 DEF InfosFit
<1>3. /\ pending' \subseteq pending /\ owed' \subseteq Registered' /\ at' \in Registered' \cup {NoName}
      /\ shutdown' \in BOOLEAN /\ inserts' \in 0 .. MaxInserts /\ disturbed' \in BOOLEAN
  BY <1>0, <1>1 DEF ValuesFit, Withdrawn
<1>4. pc \in {"waiting", "collecting"} => owed' = {}
  BY <1>0 DEF Gathered
<1>5. ASSUME pc \in Gathering, ~disturbed', NEW m \in Registered' PROVE ToldOrAwaited(m)'
  <2>1. ToldOrAwaited(m) /\ m \in Registered
    BY <1>0, <1>1, <1>5 DEF Gathered
  <2>2. CASE m = n /\ info.round = token
    BY <1>1, <2>2 DEF ToldOrAwaited
  <2>3. CASE m = n /\ UNCHANGED pending /\ info = [infos[n] EXCEPT !.hasProvider = TRUE]
    <3>1. infos[n] \in Infos
      BY <1>0 DEF InfosFit
    <3>2. info.policy = infos[n].policy /\ info.isEmpty = infos[n].isEmpty /\ info.round = infos[n].round
      BY <2>3, <3>1 DEF Infos
    <3> QED
      BY <1>1, <2>1, <2>3, <3>2 DEF ToldOrAwaited, IsRefreshed
  <2>4. CASE m # n
    <3>1. infos'[m] = infos[m] /\ (m \in pending => m \in pending')
      BY <1>1, <2>1, <2>4 DEF Withdrawn
    <3> QED
      BY <2>1, <3>1 DEF ToldOrAwaited, IsRefreshed
  <2> QED
    BY <2>2, <2>3, <2>4
<1> QED
  BY <1>2, <1>3, <1>4, <1>5, MapStep

LEMMA SetStateProviderInv == ASSUME ContextInv, NEW n \in Names, SetStateProvider(n) PROVE ContextInv'
<1>0. InfosFit /\ ValuesFit /\ token \in Nat
  BY TokenIs DEF ContextInv
<1>1. UNCHANGED <<pending, token, requests, shutdown, loop, corrupted, outstanding>>
  BY DEF SetStateProvider
<1>2. CASE n \in Registered
  <2>1. infos[n] \in Infos
    BY <1>0, <1>2 DEF InfosFit
  <2>2. PICK info : info = [infos[n] EXCEPT !.hasProvider = TRUE]
    OBVIOUS
  <2>3. info \in Infos
    BY <2>1, <2>2 DEF Infos
  <2>4. infos' = [infos EXCEPT ![n] = info] /\ UNCHANGED <<inserts, owed, at, disturbed>>
    BY <1>2, <2>2 DEF SetStateProvider
  <2> QED
    BY <1>1, <1>2, <2>2, <2>3, <2>4, ChangeInv DEF Withdrawn
<1>3. CASE n \notin Registered
  <2>1. PICK info : info = [hasProvider |-> TRUE, policy |-> "ALWAYS", isEmpty |-> TRUE, round |-> 0]
    OBVIOUS
  <2>2. info \in Infos /\ info.isEmpty
    BY <1>0, <2>1 DEF Infos, Policies
  <2>3. Insert(n, info)
    BY <1>3, <2>1 DEF SetStateProvider
  <2> QED
    BY <1>1, <1>3, <2>2, <2>3, InsertInv DEF Withdrawn
<1> QED
  BY <1>2, <1>3

\* updateStateLocked(), with the round that is being processed.
LEMMA UpdateStateInv ==
  ASSUME ContextInv, NEW n \in Names, NEW policy \in Policies, NEW isEmpty \in BOOLEAN,
         UpdateState(n, policy, isEmpty, token), Withdrawn(n), outstanding' \subseteq outstanding,
         UNCHANGED <<token, requests, shutdown, loop, corrupted>>
  PROVE  ContextInv'
<1>0. InfosFit /\ token \in 0 .. token
  BY TokenIs DEF ContextInv
<1>1. CASE n \in Registered
  <2>1. infos[n] \in Infos
    BY <1>0, <1>1 DEF InfosFit
  <2>2. PICK info : info = [infos[n] EXCEPT !.policy = policy, !.isEmpty = isEmpty, !.round = token]
    OBVIOUS
  <2>3. info \in Infos /\ info.round = token
    BY <1>0, <2>1, <2>2 DEF Infos
  <2>4. infos' = [infos EXCEPT ![n] = info] /\ UNCHANGED <<inserts, owed, at, disturbed>>
    BY <1>1, <2>2 DEF UpdateState
  <2> QED
    BY <1>1, <2>3, <2>4, ChangeInv
<1>2. CASE n \notin Registered
  <2>1. PICK info : info = [hasProvider |-> FALSE, policy |-> policy, isEmpty |-> isEmpty, round |-> token]
    OBVIOUS
  <2>2. info \in Infos /\ info.round = token
    BY <1>0, <2>1 DEF Infos
  <2>3. Insert(n, info)
    BY <1>2, <2>1 DEF UpdateState
  <2> QED
    BY <1>2, <2>2, <2>3, InsertInv
<1> QED
  BY <1>1, <1>2

LEMMA SetStateInv ==
  ASSUME ContextInv, NEW n \in Names, NEW policy \in Policies, NEW isEmpty \in BOOLEAN, SetState(n, policy, isEmpty)
  PROVE  ContextInv'
  BY UpdateStateInv DEF SetState, Withdrawn

\* An answer to an earlier round is dropped.
LEMMA ProvidedStateInv ==
  ASSUME ContextInv, NEW n \in Names, NEW t, NEW policy \in Policies, NEW isEmpty \in BOOLEAN,
         ProvidedState(n, t, policy, isEmpty)
  PROVE  ContextInv'
<1>1. UNCHANGED <<token, requests, shutdown, loop, corrupted>> /\ outstanding' \subseteq outstanding
  BY DEF ProvidedState
<1>2. CASE IsCurrent(t) /\ Accepts(n, policy)
  <2>1. UpdateState(n, policy, isEmpty, token) /\ pending' = pending \ {n}
    BY <1>2 DEF ProvidedState, IsCurrent
  <2> QED
    BY <1>1, <2>1, UpdateStateInv DEF Withdrawn
<1>3. CASE ~(IsCurrent(t) /\ Accepts(n, policy))
  <2>1. UNCHANGED <<infos, inserts, owed, at, disturbed, pending>>
    BY <1>3 DEF ProvidedState, map
  <2>2. InfosFit /\ ValuesFit /\ Gathered /\ Infos' = Infos
    BY <1>1 DEF ContextInv, Infos
  <2>3. InfosFit'
    BY <2>1, <2>2 DEF InfosFit, Registered
  <2>4. \A m \in Registered' : ToldOrAwaited(m) => ToldOrAwaited(m)'
    BY <1>1, <2>1 DEF ToldOrAwaited, IsRefreshed
  <2>5. Registered' = Registered
    BY <2>1 DEF Registered
  <2>6. pc \in Gathering /\ ~disturbed' => \A m \in Registered' : ToldOrAwaited(m)'
    BY <2>1, <2>2, <2>4, <2>5 DEF Gathered
  <2>7. pc \in {"waiting", "collecting"} => owed' = {}
    BY <2>1, <2>2 DEF Gathered
  <2> QED
    BY <1>1, <2>1, <2>2, <2>3, <2>5, <2>6, <2>7, MapStep DEF ValuesFit
<1> QED
  BY <1>2, <1>3

LEMMA RemoveStateProviderInv == ASSUME ContextInv, NEW n \in Names, RemoveStateProvider(n) PROVE ContextInv'
<1>0. InfosFit /\ ValuesFit /\ Gathered
  BY DEF ContextInv
<1>1. /\ infos' = [m \in Registered \ {n} |-> infos[m]] /\ owed' = owed \ {n}
      /\ at' \in {at, NoName} /\ at' # n
      /\ UNCHANGED <<pending, token, requests, shutdown, loop, inserts, disturbed, corrupted, outstanding>>
  BY Ranges DEF RemoveStateProvider
<1>2. Registered' = Registered \ {n} /\ \A m \in Registered \ {n} : infos'[m] = infos[m]
  BY <1>1 DEF Registered
<1>3. InfosFit'
  <2>1. Infos' = Infos
    BY <1>1 DEF Infos
  <2> QED
    BY <1>0, <1>1, <1>2, <2>1 DEF InfosFit
<1>4. /\ owed' \subseteq Registered' /\ at' \in Registered' \cup {NoName}
      /\ pending' \subseteq pending /\ outstanding' \subseteq outstanding
      /\ shutdown' \in BOOLEAN /\ inserts' \in 0 .. MaxInserts /\ disturbed' \in BOOLEAN /\ (disturbed => disturbed')
  BY <1>0, <1>1, <1>2 DEF ValuesFit
<1>5. pc \in {"waiting", "collecting"} => owed' = {}
  BY <1>0, <1>1 DEF Gathered
<1>6. ASSUME pc \in Gathering, ~disturbed', NEW m \in Registered' PROVE ToldOrAwaited(m)'
  <2>1. m \in Registered /\ m # n /\ infos'[m] = infos[m] /\ ToldOrAwaited(m)
    BY <1>0, <1>1, <1>2, <1>6 DEF Gathered
  <2> QED
    BY <1>1, <2>1 DEF ToldOrAwaited, IsRefreshed
<1> QED
  BY <1>1, <1>3, <1>4, <1>5, <1>6, MapStep

\* A request is told apart from the others, and from those that were answered.
LEMMA AnsweredCount ==
  ASSUME NoFullTurn, ContextInv
  PROVE  IsFiniteSet(answered) /\ Cardinality(answered) \in Nat
<1>1. answered \subseteq Requesters
  BY DEF ContextInv, ValuesFit
<1> QED
  BY <1>1, FS_Subset, FS_CardinalityType DEF NoFullTurn

LEMMA GetContextInv == ASSUME NoFullTurn, ContextInv, NEW r \in Requesters, GetContext(r) PROVE ContextInv'
<1>0. InfosFit /\ ValuesFit /\ TurnFits /\ RequestersFit /\ RoundsFit /\ Gathered /\ Handed
  BY DEF ContextInv
<1>1. PICK x : x = [requester |-> r, token |-> token, pc |-> pc]
  OBVIOUS
<1>2. /\ r \notin asked /\ asked' = asked \cup {r} /\ queue' = Append(queue, x)
      /\ UNCHANGED <<infos, inserts, owed, at, disturbed, pending, token, answered, shutdown, loop, corrupted, outstanding>>
  BY <1>1 DEF GetContext, map
<1>3. x \in RequestRecords' /\ queue \in Seq(RequestRecords') /\ RequestRecords \subseteq RequestRecords'
  <2>1. RequestRecords \subseteq RequestRecords'
    BY <1>2 DEF RequestRecords
  <2>2. queue \in Seq(RequestRecords')
    BY <1>0, <2>1, SeqMonotonic DEF ValuesFit
  <2>3. x \in RequestRecords'
    BY <1>0, <1>1, <1>2, TokenIs DEF RequestRecords, ValuesFit
  <2> QED
    BY <2>1, <2>2, <2>3
<1>4. PICK n \in Nat : n = Len(queue) /\ DOMAIN queue = 1 .. n
  BY <1>3
<1>5. /\ queue' \in Seq(RequestRecords') /\ queue' # << >> /\ DOMAIN queue' = 1 .. n + 1 /\ queue'[n + 1] = x
      /\ \A i \in 1 .. n : queue'[i] = queue[i]
  BY <1>2, <1>3, <1>4, AppendProperties
<1>6. InfosFit' /\ Gathered' /\ Handed'
  <2>1. Registered' = Registered /\ Infos' = Infos
    BY <1>2 DEF Registered, Infos
  <2> QED
    BY <1>0, <1>2, <2>1 DEF InfosFit, Gathered, ToldOrAwaited, IsRefreshed, Handed, loop
<1>7. ValuesFit'
  <2>1. asked' \subseteq Requesters /\ answered' \subseteq asked' /\ Registered' = Registered
    BY <1>0, <1>2 DEF ValuesFit, Registered
  <2> QED
    BY <1>0, <1>2, <1>5, <2>1 DEF ValuesFit, loop
<1>8. TurnFits'
  <2>1. PICK c \in Nat : c = Cardinality(answered)
    BY AnsweredCount
  <2>2. PICK k \in Nat : k = token
    BY TokenIs
  <2>3. k <= c + (IF pc \in Resting \/ queue = << >> THEN 0 ELSE 1)
    BY <1>0, <2>1, <2>2 DEF TurnFits
  <2>4. k <= c + (IF pc \in Resting THEN 0 ELSE 1)
    BY <2>3
  <2> QED
    BY <1>2, <1>5, <2>1, <2>2, <2>4 DEF TurnFits, loop
<1>9. \A i \in 1 .. n + 1 : i \in 1 .. n \/ i = n + 1
  OBVIOUS
<1>10. RequestersFit'
  <2>1. \A i \in 1 .. n : /\ queue[i].requester \in asked \ answered
                          /\ \A j \in 1 .. n : queue[i].requester = queue[j].requester => i = j
    <3>1. \A i \in 1 .. n : queue[i] \in RequestRecords
      BY <1>0, <1>4, ElementOfSeq DEF ValuesFit
    <3> QED
      BY <1>0, <1>4, <3>1 DEF RequestRecords, RequestersFit
  <2>2. r \notin answered /\ x.requester = r
    BY <1>0, <1>1, <1>2 DEF ValuesFit
  <2>3. \A i, j \in 1 .. n + 1 : queue'[i].requester = queue'[j].requester => i = j
    BY <1>2, <1>5, <1>9, <2>1, <2>2
  <2>4. \A i \in 1 .. n + 1 : queue'[i].requester \notin answered'
    BY <1>2, <1>5, <1>9, <2>1, <2>2
  <2> QED
    BY <1>5, <2>3, <2>4 DEF RequestersFit
<1>11. RoundsFit'
  <2>1. PICK bound : bound = IF pc \in Resting THEN token + 1 ELSE token
    OBVIOUS
  <2>2. \A i \in 1 .. n : RoundOf(queue[i]) <= bound
    BY <1>0, <1>4, <2>1 DEF RoundsFit
  <2>3. RoundOf(x) <= bound
    BY <1>1, <2>1, TokenIs DEF RoundOf, Resting
  <2>4. \A i \in 1 .. n + 1 : RoundOf(queue'[i]) <= bound
    BY <1>5, <1>9, <2>2, <2>3
  <2>5. \A i \in DOMAIN queue' : RoundOf(queue'[i]) <= bound
    BY <1>5, <2>4
  <2>6. bound = IF pc' \in Resting THEN token' + 1 ELSE token'
    BY <1>2, <2>1 DEF loop
  <2> QED
    BY <2>5, <2>6 DEF RoundsFit, RoundOf
<1> QED
  BY <1>6, <1>7, <1>8, <1>10, <1>11 DEF ContextInv

-----------------------------------------------------------------------------
(* updateStatesLoop() *)

\* A step of the loop within a round, or at rest.
LEMMA LoopStep ==
  ASSUME ContextInv, UNCHANGED <<infos, inserts, token, requests, shutdown>>,
         pc' \in Pcs, pc \in Resting <=> pc' \in Resting,
         disturbed' \in BOOLEAN, corrupted' \in BOOLEAN, pending' \subseteq Names,
         owed' \subseteq Registered, at' \in Registered \cup {NoName},
         result' \in {"none", "context", "timeout", "build error"}, rounds' \subseteq 0 .. token,
         called' \subseteq Names, outstanding' \subseteq Names \X (1 .. token),
         Gathered', Handed'
  PROVE  ContextInv'
<1>0. InfosFit /\ ValuesFit /\ TurnFits /\ RequestersFit /\ RoundsFit
  BY DEF ContextInv
<1>1. Registered' = Registered /\ Infos' = Infos /\ RequestRecords' = RequestRecords
  BY DEF Registered, Infos, RequestRecords, requests
<1>2. InfosFit'
  BY <1>0, <1>1 DEF InfosFit
<1>3. ValuesFit'
  BY <1>0, <1>1 DEF ValuesFit, requests, Resting
<1>4. TurnFits' /\ RequestersFit' /\ RoundsFit'
  BY <1>0 DEF TurnFits, RequestersFit, RoundsFit, RoundOf, requests
<1> QED
  BY <1>2, <1>3, <1>4 DEF ContextInv

LEMMA AskingInv ==
  ASSUME ContextInv, \/ \E n \in Names : PassOver(n) \/ Ask(n)
                     \/ Call \/ Return
  PROVE  ContextInv'
<1>0. InfosFit /\ ValuesFit /\ Gathered
  BY DEF ContextInv
<1>1. ASSUME NEW n \in Names, PassOver(n) PROVE ContextInv'
  <2>1. /\ pc = "asking" /\ ~IsRefreshed(n) /\ owed' = owed \ {n}
        /\ UNCHANGED <<infos, inserts, at, disturbed, pending, token, requests, shutdown, loop, corrupted, outstanding>>
    BY <1>1 DEF PassOver
  <2>2. Gathered' /\ Handed'
    <3>1. UNCHANGED <<pc, token, disturbed, pending, infos>> /\ pc = "asking"
      BY <2>1 DEF loop
    <3>2. \A m \in Registered : ToldOrAwaited(m) => ToldOrAwaited(m)'
      BY <2>1, <3>1 DEF ToldOrAwaited, IsRefreshed
    <3> QED
      BY <1>0, <3>1, <3>2 DEF Gathered, Handed, Registered
  <2> QED
    BY <1>0, <2>1, <2>2, LoopStep DEF ValuesFit, loop
<1>2. ASSUME NEW n \in Names, Ask(n) PROVE ContextInv'
  <2>1. /\ pc = "asking" /\ owed' = owed \ {n} /\ pending' = pending \cup {n} /\ at' = n /\ pc' = "calling" /\ n \in owed
        /\ UNCHANGED <<infos, inserts, disturbed, token, requests, shutdown, called, result, rounds, corrupted, outstanding>>
    BY <1>2 DEF Ask
  <2>2. Gathered' /\ Handed'
    <3>2. \A m \in Registered : ToldOrAwaited(m) => ToldOrAwaited(m)'
      BY <2>1 DEF ToldOrAwaited, IsRefreshed
    <3> QED
      BY <1>0, <2>1, <3>2 DEF Gathered, Handed, Registered, Gathering
  <2>3. n \in Registered /\ pending' \subseteq Names
    BY <1>0, <2>1 DEF ValuesFit
  <2> QED
    BY <1>0, <2>1, <2>2, <2>3, LoopStep DEF ValuesFit, Resting, Pcs
<1>3. CASE Call \/ Return
  <2>1. /\ pc \in {"calling", "called"} /\ pc' \in {"called", "asking", pc}
        /\ UNCHANGED <<infos, inserts, owed, disturbed, pending, token, requests, shutdown, result, rounds>>
        /\ at' \in {at, NoName} /\ corrupted' \in {corrupted, TRUE}
        /\ \/ UNCHANGED <<called, outstanding>>
           \/ at # NoName /\ called' = called \cup {at} /\ outstanding' = outstanding \cup {<<at, token>>}
    BY <1>3 DEF Call, Return, map
  <2>2. Gathered' /\ Handed'
    <3>1. \A m \in Registered : ToldOrAwaited(m) => ToldOrAwaited(m)'
      BY <2>1 DEF ToldOrAwaited, IsRefreshed
    <3> QED
      BY <1>0, <2>1, <3>1 DEF Gathered, Handed, Registered, Gathering
  <2>3. called' \subseteq Names /\ outstanding' \subseteq Names \X (1 .. token)
    <3>1. token \in 1 .. token
      <4>1. token # 0
        BY <1>0, <2>1 DEF ValuesFit
      <4> QED
        BY <4>1, TokenIs
    <3>2. at # NoName => at \in Names
      BY <1>0 DEF ValuesFit, InfosFit
    <3>3. called \subseteq Names /\ outstanding \subseteq Names \X (1 .. token)
      BY <1>0 DEF ValuesFit
    <3>4. CASE UNCHANGED <<called, outstanding>>
      BY <3>3, <3>4
    <3>5. CASE at # NoName /\ called' = called \cup {at} /\ outstanding' = outstanding \cup {<<at, token>>}
      BY <3>1, <3>2, <3>3, <3>5
    <3> QED
      BY <2>1, <3>4, <3>5
  <2> QED
    BY <1>0, <2>1, <2>2, <2>3, LoopStep DEF ValuesFit, Resting, Pcs
<1> QED
  BY <1>1, <1>2, <1>3

LEMMA WaitingInv ==
  ASSUME ContextInv, Exit \/ Wait \/ WaitEnds \/ Timeout
  PROVE  ContextInv'
<1>0. ValuesFit /\ Gathered
  BY DEF ContextInv
<1>1. /\ UNCHANGED <<map, pending, token, requests, shutdown, called, rounds, corrupted, outstanding>>
      /\ result' \in {result, "timeout"}
      /\ \/ pc = "idle" /\ pc' = "exited"
         \/ pc = "asking" /\ pc' = "waiting" /\ owed = {}
         \/ pc = "waiting" /\ pc' = "collecting" /\ pending = {}
         \/ pc = "waiting" /\ pc' = "delivering" /\ result' = "timeout"
  BY DEF Exit, Wait, WaitEnds, Timeout
<1>2. UNCHANGED <<infos, inserts, owed, at, disturbed>>
  BY <1>1 DEF map
<1>3. Gathered'
  <2>1. pc' \in Gathering => pc \in Gathering
    BY <1>1 DEF Gathering
  <2>2. \A m \in Registered : ToldOrAwaited(m) => ToldOrAwaited(m)'
    BY <1>1, <1>2 DEF ToldOrAwaited, IsRefreshed
  <2>3. pc' \in Gathering /\ ~disturbed' => \A m \in Registered' : ToldOrAwaited(m)'
    BY <1>0, <1>2, <2>1, <2>2 DEF Gathered, Registered
  <2>4. pc' \in {"waiting", "collecting"} => owed' = {}
    BY <1>0, <1>1, <1>2 DEF Gathered
  <2>5. pc' = "collecting" => pending' = {}
    BY <1>1
  <2> QED
    BY <2>3, <2>4, <2>5 DEF Gathered
<1>4. Handed'
  BY <1>1 DEF Handed
<1>5. pc' \in Pcs /\ (pc \in Resting <=> pc' \in Resting)
  BY <1>1 DEF Pcs, Resting
<1>6. result' \in {"none", "context", "timeout", "build error"}
  BY <1>0, <1>1 DEF ValuesFit
<1> QED
  BY <1>0, <1>1, <1>2, <1>3, <1>4, <1>5, <1>6, LoopStep DEF ValuesFit

\* Nobody is owed a call and nobody pending: every state was told in this round.
LEMMA CollectInv == ASSUME ContextInv, Collect PROVE ContextInv'
<1>0. InfosFit /\ ValuesFit /\ Gathered
  BY DEF ContextInv
<1>1. /\ UNCHANGED <<infos, inserts, owed, at, disturbed, pending, token, requests, shutdown, called, corrupted, outstanding>>
      /\ pc = "collecting" /\ pc' = "delivering" /\ result' \in {"context", "build error"}
      /\ \/ result' = "build error" /\ UNCHANGED rounds
         \/ rounds' = {infos[n].round : n \in {m \in Registered : IsRefreshed(m) /\ ~infos[m].isEmpty}}
  BY DEF Collect, map
<1>2. rounds' \subseteq 0 .. token
  <2>1. \A n \in Registered : infos[n].round \in 0 .. token
    BY <1>0 DEF InfosFit, Infos
  <2>2. rounds \subseteq 0 .. token
    BY <1>0 DEF ValuesFit
  <2>3. CASE rounds' = {infos[n].round : n \in {m \in Registered : IsRefreshed(m) /\ ~infos[m].isEmpty}}
    BY <2>1, <2>3
  <2> QED
    BY <1>1, <2>2, <2>3
<1>3. Handed'
  <2>1. ~disturbed => \A n \in Registered : IsRefreshed(n) /\ ~infos[n].isEmpty => infos[n].round = token
    BY <1>0, <1>1 DEF Gathered, Gathering, ToldOrAwaited
  <2> QED
    BY <1>1, <2>1 DEF Handed
<1>4. Gathered'
  BY <1>1 DEF Gathered, Gathering
<1>5. pc' \in Pcs /\ (pc \in Resting <=> pc' \in Resting)
  BY <1>1 DEF Pcs, Resting
<1> QED
  BY <1>0, <1>1, <1>2, <1>3, <1>4, <1>5, LoopStep DEF ValuesFit

\* A round begins with the next token: whoever is at the front was never answered, so there
\* was a token left for it.
LEMMA BeginInv == ASSUME NoFullTurn, ContextInv, Begin PROVE ContextInv'
<1>0. InfosFit /\ ValuesFit /\ TurnFits /\ RequestersFit /\ RoundsFit
  BY DEF ContextInv
<1>1. /\ pc = "idle" /\ queue # << >> /\ token' = NextToken
      /\ pc' = "asking" /\ owed' = Registered /\ disturbed' = FALSE /\ called' = {}
      /\ UNCHANGED <<infos, inserts, at, pending, requests, shutdown, result, rounds, corrupted, outstanding>>
  BY DEF Begin
<1>2. PICK c \in Nat : c = Cardinality(answered)
  BY AnsweredCount
<1>3. c < TokenRange - 1
  <2>1. PICK r \in asked \ answered : TRUE
    <3>1. queue[1] \in RequestRecords /\ 1 \in DOMAIN queue
      <4>1. queue \in Seq(RequestRecords) /\ queue # << >>
        BY <1>0, <1>1 DEF ValuesFit
      <4>2. 1 \in 1 .. Len(queue) /\ DOMAIN queue = 1 .. Len(queue)
        BY <4>1, LenProperties, EmptySeq
      <4> QED
        BY <4>1, <4>2, ElementOfSeq
    <3> QED
      BY <1>0, <3>1 DEF RequestersFit, RequestRecords
  <2>2. answered \cup {r} \subseteq Requesters /\ r \notin answered
    BY <1>0, <2>1 DEF ValuesFit
  <2>3. Cardinality(answered \cup {r}) = c + 1
    BY <1>2, <2>2, AnsweredCount, FS_AddElement
  <2>4. PICK s \in Nat : s = Cardinality(Requesters)
    BY FS_CardinalityType DEF NoFullTurn
  <2>5. c + 1 <= s
    BY <2>2, <2>3, <2>4, FS_Subset DEF NoFullTurn
  <2>6. s < TokenRange
    BY <2>4 DEF NoFullTurn
  <2> QED
    BY <2>5, <2>6, Ranges
<1>4. PICK k \in Nat : k = token
  BY TokenIs
<1>5. k <= c
  BY <1>0, <1>1, <1>2, <1>4 DEF TurnFits, Resting
<1>6. token' = k + 1 /\ k + 1 < TokenRange
  <2>1. k + 1 < TokenRange
    BY <1>3, <1>5, Ranges
  <2>2. (k + 1) % TokenRange = k + 1
    BY <2>1, Ranges
  <2> QED
    BY <1>1, <1>4, <2>1, <2>2 DEF NextToken
<1>7. 0 .. k \subseteq 0 .. k + 1 /\ 1 .. k \subseteq 1 .. k + 1
  OBVIOUS
<1>8. InfosFit'
  <2>1. Infos \subseteq Infos'
    BY <1>4, <1>6, <1>7 DEF Infos
  <2>2. Registered' = Registered
    BY <1>1 DEF Registered
  <2> QED
    BY <1>0, <1>1, <2>1, <2>2 DEF InfosFit
<1>9. ValuesFit'
  <2>1. RequestRecords \subseteq RequestRecords'
    BY <1>1, <1>4, <1>6, <1>7 DEF RequestRecords, requests
  <2>2. queue' \in Seq(RequestRecords')
    BY <1>0, <1>1, <2>1, SeqMonotonic DEF ValuesFit, requests
  <2>3. token' \in 0 .. TokenRange - 1 /\ token' # 0
    BY <1>6, Ranges
  <2>4. rounds' \subseteq 0 .. token' /\ outstanding' \subseteq Names \X (1 .. token')
    BY <1>0, <1>1, <1>4, <1>6, <1>7 DEF ValuesFit
  <2>5. owed' \subseteq Registered' /\ at' \in Registered' \cup {NoName}
    BY <1>0, <1>1 DEF ValuesFit, Registered
  <2> QED
    BY <1>0, <1>1, <2>2, <2>3, <2>4, <2>5 DEF ValuesFit, Pcs, requests
<1>10. TurnFits'
  <2>1. queue' # << >> /\ pc' \notin Resting /\ answered' = answered
    BY <1>1 DEF requests, Resting
  <2> QED
    BY <1>2, <1>5, <1>6, <2>1 DEF TurnFits
<1>11. RequestersFit'
  BY <1>0, <1>1 DEF RequestersFit, requests
<1>12. RoundsFit'
  <2>1. pc \in Resting /\ pc' \notin Resting /\ queue' = queue
    BY <1>1 DEF Resting, requests
  <2>2. \A i \in DOMAIN queue : RoundOf(queue[i]) <= k + 1
    BY <1>0, <1>4, <2>1 DEF RoundsFit
  <2> QED
    BY <1>6, <2>1, <2>2 DEF RoundsFit, RoundOf
<1>13. Gathered' /\ Handed'
  <2>1. \A n \in Registered' : n \in owed'
    BY <1>1 DEF Registered
  <2> QED
    BY <1>1, <2>1 DEF Gathered, Handed, ToldOrAwaited
<1> QED
  BY <1>8, <1>9, <1>10, <1>11, <1>12, <1>13 DEF ContextInv

\* The front is answered: the others move up, and the round has answered somebody.
LEMMA DeliverInv == ASSUME NoFullTurn, ContextInv, Deliver PROVE ContextInv'
<1>0. InfosFit /\ ValuesFit /\ TurnFits /\ RequestersFit /\ RoundsFit /\ Gathered /\ Handed
  BY DEF ContextInv
<1>1. /\ pc = "delivering" /\ queue # << >> /\ queue' = Tail(queue)
      /\ UNCHANGED <<infos, inserts, owed, at, disturbed, pending, token, asked, shutdown, loop, corrupted, outstanding>>
  BY DEF Deliver, map
<1>2. PICK r : r = Head(queue).requester
  OBVIOUS
<1>3. answered' = answered \cup {r}
  BY <1>2 DEF Deliver
<1>4. PICK n \in Nat : Len(queue) = n + 1 /\ DOMAIN queue = 1 .. n + 1
  <2>1. queue \in Seq(RequestRecords) /\ Len(queue) \in Nat /\ Len(queue) # 0 /\ DOMAIN queue = 1 .. Len(queue)
    BY <1>0, <1>1, LenProperties, EmptySeq DEF ValuesFit
  <2>2. PICK m \in Nat : m = Len(queue)
    BY <2>1
  <2>3. m - 1 \in Nat /\ (m - 1) + 1 = m
    BY <2>1, <2>2
  <2> QED
    BY <2>1, <2>2, <2>3
<1>5. /\ queue' \in Seq(RequestRecords) /\ DOMAIN queue' = 1 .. n /\ r = queue[1].requester
      /\ \A i \in 1 .. n : queue'[i] = queue[i + 1] /\ i + 1 \in 1 .. n + 1 /\ i + 1 # 1
  <2>1. queue \in Seq(RequestRecords)
    BY <1>0 DEF ValuesFit
  <2>2. /\ Head(queue) = queue[1] /\ Tail(queue) \in Seq(RequestRecords) /\ Len(Tail(queue)) = n
        /\ \A i \in 1 .. n : Tail(queue)[i] = queue[i + 1]
    BY <1>1, <1>4, <2>1, HeadTailProperties
  <2>3. \A i \in 1 .. n : i + 1 \in 1 .. n + 1 /\ i + 1 # 1
    OBVIOUS
  <2> QED
    BY <1>1, <1>2, <2>2, <2>3, LenProperties
<1>6. 1 \in 1 .. n + 1
  OBVIOUS
<1>7. r \in asked \ answered
  <2>1. queue[1] \in RequestRecords
    BY <1>0, <1>4, <1>6, ElementOfSeq DEF ValuesFit
  <2> QED
    BY <1>0, <1>4, <1>5, <1>6, <2>1 DEF RequestRecords, RequestersFit
<1>8. InfosFit' /\ Gathered' /\ Handed'
  <2>1. Registered' = Registered /\ Infos' = Infos
    BY <1>1 DEF Registered, Infos
  <2> QED
    BY <1>0, <1>1, <2>1 DEF InfosFit, Gathered, Gathering, Handed, loop
<1>9. ValuesFit'
  <2>1. RequestRecords' = RequestRecords /\ Registered' = Registered
    BY <1>1 DEF RequestRecords, Registered
  <2>2. answered' \subseteq asked'
    BY <1>0, <1>1, <1>3, <1>7 DEF ValuesFit
  <2> QED
    BY <1>0, <1>1, <1>5, <2>1, <2>2 DEF ValuesFit, loop
<1>10. TurnFits'
  <2>1. PICK c \in Nat : c = Cardinality(answered)
    BY AnsweredCount
  <2>2. PICK k \in Nat : k = token
    BY TokenIs
  <2>3. k <= c + 1
    BY <1>0, <1>1, <2>1, <2>2 DEF TurnFits, Resting
  <2>4. Cardinality(answered') = c + 1
    BY <1>3, <1>7, <2>1, AnsweredCount, FS_AddElement
  <2>5. k <= (c + 1) + 0 /\ k <= (c + 1) + 1
    BY <2>3
  <2> QED
    BY <1>1, <2>2, <2>4, <2>5 DEF TurnFits
<1>11. RequestersFit'
  <2>1. \A i, j \in 1 .. n + 1 : queue[i].requester = queue[j].requester => i = j
    BY <1>0, <1>4 DEF RequestersFit
  <2>2. \A i \in 1 .. n : queue'[i].requester \notin answered'
    BY <1>0, <1>3, <1>4, <1>5, <1>6, <2>1 DEF RequestersFit
  <2>3. \A i, j \in 1 .. n : queue'[i].requester = queue'[j].requester => i = j
    <3>1. \A i, j \in 1 .. n : i + 1 = j + 1 => i = j
      OBVIOUS
    <3> QED
      BY <1>5, <2>1, <3>1
  <2> QED
    BY <1>5, <2>2, <2>3 DEF RequestersFit
<1>12. RoundsFit'
  <2>1. PICK bound : bound = IF pc \in Resting THEN token + 1 ELSE token
    OBVIOUS
  <2>2. bound = IF pc' \in Resting THEN token' + 1 ELSE token'
    BY <1>1, <2>1 DEF loop
  <2>3. \A i \in 1 .. n + 1 : RoundOf(queue[i]) <= bound
    BY <1>0, <1>4, <2>1 DEF RoundsFit
  <2>4. \A i \in DOMAIN queue' : RoundOf(queue'[i]) <= bound
    BY <1>5, <2>3
  <2> QED
    BY <2>2, <2>4 DEF RoundsFit, RoundOf
<1> QED
  BY <1>8, <1>9, <1>10, <1>11, <1>12 DEF ContextInv

\* Everybody has been answered.
LEMMA DeliveredInv == ASSUME NoFullTurn, ContextInv, Delivered PROVE ContextInv'
<1>0. InfosFit /\ ValuesFit /\ TurnFits
  BY DEF ContextInv
<1>1. /\ queue = << >> /\ pc' = "idle" /\ result' = "none" /\ rounds' = {}
      /\ UNCHANGED <<infos, inserts, owed, at, disturbed, pending, token, requests, shutdown, called, corrupted, outstanding>>
  BY DEF Delivered, map
<1>2. Registered' = Registered /\ Infos' = Infos /\ RequestRecords' = RequestRecords
  BY <1>1 DEF Registered, Infos, RequestRecords, requests
<1>3. InfosFit'
  BY <1>0, <1>1, <1>2 DEF InfosFit
<1>4. ValuesFit'
  BY <1>0, <1>1, <1>2 DEF ValuesFit, requests, Pcs
<1>5. TurnFits'
  BY <1>0, <1>1 DEF TurnFits, requests
<1>6. RequestersFit' /\ RoundsFit'
  <2>1. DOMAIN queue' = {}
    BY <1>1 DEF requests
  <2> QED
    BY <2>1 DEF RequestersFit, RoundsFit
<1>7. Gathered' /\ Handed'
  BY <1>1 DEF Gathered, Gathering, Handed
<1> QED
  BY <1>3, <1>4, <1>5, <1>6, <1>7 DEF ContextInv

LEMMA ShutdownInv == ASSUME ContextInv, Shutdown PROVE ContextInv'
<1>0. InfosFit /\ ValuesFit /\ Gathered
  BY DEF ContextInv
<1>1. shutdown' = TRUE /\ UNCHANGED <<infos, inserts, owed, at, disturbed, pending, token, requests, loop, corrupted, outstanding>>
  BY DEF Shutdown, map
<1>2. Registered' = Registered /\ Infos' = Infos
  BY <1>1 DEF Registered, Infos
<1>3. InfosFit'
  BY <1>0, <1>1, <1>2 DEF InfosFit
<1>4. \A m \in Registered : ToldOrAwaited(m) => ToldOrAwaited(m)'
  BY <1>1 DEF ToldOrAwaited, IsRefreshed
<1>5. pc \in Gathering /\ ~disturbed' => \A m \in Registered' : ToldOrAwaited(m)'
  BY <1>0, <1>1, <1>2, <1>4 DEF Gathered
<1>6. pc \in {"waiting", "collecting"} => owed' = {}
  BY <1>0, <1>1 DEF Gathered
<1> QED
  BY <1>0, <1>1, <1>2, <1>3, <1>5, <1>6, MapStep DEF ValuesFit

-----------------------------------------------------------------------------
LEMMA StutterInv == ASSUME ContextInv, UNCHANGED vars PROVE ContextInv'
<1>1. UNCHANGED <<infos, inserts, owed, at, disturbed, pending, token, queue, asked, answered, shutdown, pc, called,
                  result, rounds, corrupted, outstanding>>
  BY DEF vars
<1>2. Registered' = Registered /\ Infos' = Infos /\ RequestRecords' = RequestRecords
  BY <1>1 DEF Registered, Infos, RequestRecords
<1>3. InfosFit' /\ ValuesFit'
  BY <1>1, <1>2 DEF ContextInv, InfosFit, ValuesFit
<1>4. TurnFits' /\ RequestersFit' /\ RoundsFit'
  BY <1>1 DEF ContextInv, TurnFits, RequestersFit, RoundsFit, RoundOf
<1>5. Gathered' /\ Handed'
  BY <1>1, <1>2 DEF ContextInv, Gathered, Handed, ToldOrAwaited, IsRefreshed
<1> QED
  BY <1>3, <1>4, <1>5 DEF ContextInv

LEMMA Invariant == ASSUME NoFullTurn PROVE Spec => []ContextInv
<1>1. Init => ContextInv
  BY InitInv
<1>2. ASSUME ContextInv, [Next]_vars PROVE ContextInv'
  <2>1. CASE \E n \in Names : SetStateProvider(n) \/ RemoveStateProvider(n)
    BY <1>2, <2>1, SetStateProviderInv, RemoveStateProviderInv
  <2>2. ASSUME NEW n \in Names, NEW policy \in Policies, NEW isEmpty \in BOOLEAN,
               SetState(n, policy, isEmpty) \/ \E t \in 1 .. token : ProvidedState(n, t, policy, isEmpty)
        PROVE  ContextInv'
    BY <1>2, <2>2, SetStateInv, ProvidedStateInv
  <2>3. CASE \E r \in Requesters : GetContext(r)
    BY <1>2, <2>3, GetContextInv
  <2>4. CASE Shutdown
    BY <1>2, <2>4, ShutdownInv
  <2>5. CASE Loop
    <3>1. CASE (\E n \in Names : PassOver(n) \/ Ask(n)) \/ Call \/ Return
      BY <1>2, <3>1, AskingInv
    <3>2. CASE Exit \/ Wait \/ WaitEnds \/ Timeout
      BY <1>2, <3>2, WaitingInv
    <3>3. CASE Begin \/ Collect \/ Deliver \/ Delivered
      BY <1>2, <3>3, BeginInv, CollectInv, DeliverInv, DeliveredInv
    <3> QED
      BY <2>5, <3>1, <3>2, <3>3 DEF Loop
  <2>6. CASE UNCHANGED vars
    BY <1>2, <2>6, StutterInv
  <2> QED
    BY <1>2, <2>1, <2>2, <2>3, <2>4, <2>5, <2>6 DEF Next
<1> QED
  BY <1>1, <1>2, PTL DEF Spec

-----------------------------------------------------------------------------
(* The theorems *)

\* Every variable keeps its type; and the token of a round is never 0, which provideState()
\* takes for "no token".
THEOREM TypeCorrect == ASSUME NoFullTurn PROVE Spec => []TypeOK
<1>1. ContextInv => TypeOK
  BY TypeIs DEF ContextInv
<1> QED
  BY <1>1, Invariant, PTL

\* A requester is handed only states that its own round refreshed or that were told since it
\* began (ContextIsFresh), whatever the providers do: the late answer to an earlier round is
\* told by its token, which is never drawn twice.
THEOREM AnswersAreFresh == ASSUME NoFullTurn PROVE Spec => []ContextIsFresh
<1>1. ASSUME ContextInv PROVE ContextIsFresh
  <2>1. SUFFICES ASSUME pc = "delivering", result = "context", queue # << >>, ~disturbed, NEW k \in rounds
                 PROVE  k >= RoundOf(Head(queue))
    BY DEF ContextIsFresh
  <2>2. k = token /\ token \in Nat
    BY <1>1, <2>1, TokenIs DEF ContextInv, Handed
  <2>3. 1 \in DOMAIN queue /\ Head(queue) = queue[1] /\ queue[1] \in RequestRecords
    <3>1. queue \in Seq(RequestRecords) /\ queue # << >>
      BY <1>1, <2>1 DEF ContextInv, ValuesFit
    <3>2. 1 \in 1 .. Len(queue) /\ DOMAIN queue = 1 .. Len(queue)
      BY <3>1, LenProperties, EmptySeq
    <3> QED
      BY <3>1, <3>2, ElementOfSeq, HeadTailProperties
  <2>4. RoundOf(Head(queue)) <= token
    BY <1>1, <2>1, <2>3 DEF ContextInv, RoundsFit, Resting
  <2>5. RoundOf(Head(queue)) \in Nat
    <3>1. queue[1].token \in Nat
      BY <2>2, <2>3 DEF RequestRecords
    <3> QED
      BY <2>3, <3>1 DEF RoundOf
  <2> QED
    BY <2>2, <2>4, <2>5
<1> QED
  BY <1>1, Invariant, PTL
=============================================================================
