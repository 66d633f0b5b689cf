--------------------------- MODULE ContextManager ---------------------------
(***************************************************************************)
(* ContextManager/src/ContextManager.cpp: the states of the client's       *)
(* components, gathered from their providers whenever a context is asked   *)
(* for.                                                                    *)
(*                                                                         *)
(* One thread runs updateStatesLoop().  It asks the providers while it     *)
(* iterates over the map of states, and lets go of m_stateProviderMutex    *)
(* for every call of provideState(): in that time providers come and go,   *)
(* and states change.  Providers answer whenever they like, or never; it   *)
(* waits for them until a timeout.  A getContext() may come at any moment. *)
(*                                                                         *)
(* A state is modelled by the round (m_stateRequestToken) it belongs to.   *)
(***************************************************************************)
EXTENDS Naturals, Sequences, FiniteSets

CONSTANTS
  Names,        \* NamespaceAndName of the states
  Requesters,   \* the calls of getContext()
  NoName,
  MaxInserts,   \* bound: new entries in the map, in all
  TokenRange    \* 2^w, for the w bits of the unsigned int m_stateRequestToken

ASSUME TokenAssumption == TokenRange \in Nat \ {0, 1} /\ MaxInserts \in Nat /\ NoName \notin Names

VARIABLES
  infos,        \* m_namespaceNameToStateInfo
  pending,      \* m_pendingOnStateProviders
  token,        \* m_stateRequestToken
  queue,        \* m_contextRequesterQueue: [requester, token and pc at the call]
  shutdown,     \* m_shutdown
  pc,           \* where updateStatesLoop() is
  owed,         \* the entries its iteration has still to come to
  at,           \* the entry its iteration is at; NoName if it was erased since
  result,       \* what sendContextAndClearQueue() hands out
  rounds,       \* the rounds of the refreshed states in that context
  inserts,      \* new entries so far
  disturbed,    \* an insertion reordered the map under the iteration
  corrupted,    \* the thread used an erased entry or a null provider: undefined behaviour
  called,       \* the names whose providers this round has called
  outstanding,  \* calls of provideState() not yet answered: <<name, token>>
  asked,        \* the requesters that called getContext()
  answered      \* the requesters that were called back

map == <<infos, inserts, owed, at, disturbed>>
loop == <<pc, called, result, rounds>>
requests == <<queue, asked, answered>>
vars == <<infos, pending, token, queue, shutdown, pc, called, owed, at, result, rounds, inserts, disturbed,
          corrupted, outstanding, asked, answered>>

Policies == {"ALWAYS", "SOMETIMES", "NEVER"}

Registered == DOMAIN infos
IsRefreshed(n) == infos[n].policy # "NEVER"
Iterating == pc \in {"asking", "calling", "called"}

\* m_stateProviderMutex is free: the loop holds it from one call of provideState() to the next.
Running == ~corrupted
Unlocked == Running /\ pc # "asking"

Init ==
  /\ infos = << >> /\ inserts = 0 /\ pending = {} /\ token = 0
  /\ queue = << >> /\ shutdown = FALSE
  /\ pc = "idle" /\ owed = {} /\ at = NoName /\ disturbed = FALSE
  /\ result = "none" /\ rounds = {}
  /\ corrupted = FALSE /\ called = {} /\ outstanding = {}
  /\ asked = {} /\ answered = {}

-----------------------------------------------------------------------------
(* The callers *)

\* A new entry: under the iteration, the map may be rehashed, and the entries the iterator
\* has still to come to may be any.
Insert(n, info) ==
  /\ inserts < MaxInserts /\ inserts' = inserts + 1
  /\ infos' = [m \in Registered \cup {n} |-> IF m = n THEN info ELSE infos[m]]
  /\ IF Iterating THEN owed' \in SUBSET (Registered \cup {n}) /\ disturbed' = TRUE
                  ELSE UNCHANGED <<owed, disturbed>>
  /\ UNCHANGED at

\* setStateProvider() with a provider.
SetStateProvider(n) ==
  /\ Unlocked
  /\ IF n \in Registered
     THEN infos' = [infos EXCEPT ![n].hasProvider = TRUE] /\ UNCHANGED <<inserts, owed, at, disturbed>>
     ELSE Insert(n, [hasProvider |-> TRUE, policy |-> "ALWAYS", isEmpty |-> TRUE, round |-> 0])
  /\ UNCHANGED <<pending, token, requests, shutdown, loop, corrupted, outstanding>>

\* setStateProvider() with nullptr: pending is not looked at.
RemoveStateProvider(n) ==
  /\ Unlocked /\ n \in Registered
  /\ infos' = [m \in Registered \ {n} |-> infos[m]]
  /\ owed' = owed \ {n}
  /\ at' = IF at = n THEN NoName ELSE at
  /\ UNCHANGED <<pending, token, requests, shutdown, loop, inserts, disturbed, corrupted, outstanding>>

\* updateStateLocked(), with the round the new state belongs to, when it returns SUCCESS.
UpdateState(n, policy, isEmpty, round) ==
  IF n \in Registered
  THEN /\ infos' = [infos EXCEPT ![n].policy = policy, ![n].isEmpty = isEmpty, ![n].round = round]
       /\ UNCHANGED <<inserts, owed, at, disturbed>>
  ELSE Insert(n, [hasProvider |-> FALSE, policy |-> policy, isEmpty |-> isEmpty, round |-> round])

Accepts(n, policy) == n \in Registered \/ policy = "NEVER"

\* setState() without a token: the component tells its state of its own accord.
SetState(n, policy, isEmpty) ==
  /\ Unlocked /\ Accepts(n, policy)
  /\ UpdateState(n, policy, isEmpty, token)
  /\ UNCHANGED <<pending, token, requests, shutdown, loop, corrupted, outstanding>>

\* Fault: the token of an answer is not looked at.
AnyToken(t) == TRUE

IsCurrent(t) == t = token

\* setState() with the token of a call of provideState().
ProvidedState(n, t, policy, isEmpty) ==
  /\ Unlocked /\ <<n, t>> \in outstanding
  /\ outstanding' = outstanding \ {<<n, t>>}
  /\ IF IsCurrent(t) /\ Accepts(n, policy)
     THEN UpdateState(n, policy, isEmpty, t) /\ pending' = pending \ {n}
     ELSE UNCHANGED <<map, pending>>
  /\ UNCHANGED <<token, requests, shutdown, loop, corrupted>>

\* getContext()
GetContext(r) ==
  /\ Running /\ r \notin asked /\ ~shutdown
  /\ asked' = asked \cup {r}
  /\ queue' = Append(queue, [requester |-> r, token |-> token, pc |-> pc])
  /\ UNCHANGED <<map, pending, token, answered, shutdown, loop, corrupted, outstanding>>

\* ~ContextManager() tells the thread to end.
Shutdown ==
  /\ Running /\ ~shutdown
  /\ shutdown' = TRUE
  /\ UNCHANGED <<map, pending, token, requests, loop, corrupted, outstanding>>

-----------------------------------------------------------------------------
(* updateStatesLoop() *)

NextToken == IF (token + 1) % TokenRange = 0 THEN 1 ELSE (token + 1) % TokenRange

\* A request is there: requestStatesLocked() draws a token and starts to iterate.
Begin ==
  /\ Unlocked /\ pc = "idle" /\ queue # << >> /\ ~shutdown
  /\ token' = NextToken
  /\ pc' = "asking" /\ owed' = Registered /\ disturbed' = FALSE /\ called' = {}
  /\ UNCHANGED <<infos, inserts, at, pending, requests, shutdown, result, rounds, corrupted, outstanding>>

Exit ==
  /\ Unlocked /\ pc = "idle" /\ shutdown
  /\ pc' = "exited"
  /\ UNCHANGED <<map, pending, token, requests, shutdown, called, result, rounds, corrupted, outstanding>>

\* An entry whose state need not be refreshed is passed over.
PassOver(n) ==
  /\ Running /\ pc = "asking" /\ n \in owed /\ ~IsRefreshed(n)
  /\ owed' = owed \ {n}
  /\ UNCHANGED <<infos, inserts, at, disturbed, pending, token, requests, shutdown, loop, corrupted, outstanding>>

\* Any other one becomes pending, and the mutex is unlocked.
Ask(n) ==
  /\ Running /\ pc = "asking" /\ n \in owed /\ IsRefreshed(n)
  /\ owed' = owed \ {n} /\ at' = n
  /\ pending' = pending \cup {n}
  /\ pc' = "calling"
  /\ UNCHANGED <<infos, inserts, disturbed, token, requests, shutdown, called, result, rounds, corrupted, outstanding>>

\* The provider is read from the entry, without the mutex, and called.
Call ==
  /\ Running /\ pc = "calling"
  /\ IF at # NoName /\ infos[at].hasProvider
     THEN /\ pc' = "called" /\ called' = called \cup {at}
          /\ outstanding' = outstanding \cup {<<at, token>>}
          /\ UNCHANGED corrupted
     ELSE corrupted' = TRUE /\ UNCHANGED <<pc, called, outstanding>>
  /\ UNCHANGED <<map, pending, token, requests, shutdown, result, rounds>>

\* The mutex is locked again, and the iterator steps on from its entry.
Return ==
  /\ Running /\ pc = "called"
  /\ IF at # NoName THEN pc' = "asking" /\ at' = NoName /\ UNCHANGED corrupted
                    ELSE corrupted' = TRUE /\ UNCHANGED <<pc, at>>
  /\ UNCHANGED <<infos, inserts, owed, disturbed, pending, token, requests, shutdown, called, result, rounds, outstanding>>

\* The iteration has ended; the mutex is free in wait_for(), or because nobody is pending.
Wait ==
  /\ Running /\ pc = "asking" /\ owed = {}
  /\ pc' = "waiting"
  /\ UNCHANGED <<map, pending, token, requests, shutdown, called, result, rounds, corrupted, outstanding>>

WaitEnds ==
  /\ Running /\ pc = "waiting" /\ pending = {}
  /\ pc' = "collecting"
  /\ UNCHANGED <<map, pending, token, requests, shutdown, called, result, rounds, corrupted, outstanding>>

\* Fault: wait() in the place of wait_for().
NoTimeout == FALSE

TimesOut == pending # {}

\* wait_for() times out.  Whoever is pending remains so.
Timeout ==
  /\ Running /\ pc = "waiting" /\ TimesOut
  /\ pc' = "delivering" /\ result' = "timeout"
  /\ UNCHANGED <<map, pending, token, requests, shutdown, called, rounds, corrupted, outstanding>>

\* sendContextToRequesters(): an empty state cannot be built, unless its policy is SOMETIMES:
\* then it is left out.
Collect ==
  /\ Running /\ pc = "collecting"
  /\ pc' = "delivering"
  /\ IF \E n \in Registered : infos[n].isEmpty /\ infos[n].policy # "SOMETIMES"
     THEN result' = "build error" /\ UNCHANGED rounds
     ELSE /\ result' = "context"
          /\ rounds' = {infos[n].round : n \in {m \in Registered : IsRefreshed(m) /\ ~infos[m].isEmpty}}
  /\ UNCHANGED <<map, pending, token, requests, shutdown, called, corrupted, outstanding>>

\* sendContextAndClearQueue(): the front is called back, without the mutex, and then popped.
Deliver ==
  /\ Running /\ pc = "delivering" /\ queue # << >>
  /\ answered' = answered \cup {Head(queue).requester}
  /\ queue' = Tail(queue)
  /\ UNCHANGED <<map, pending, token, asked, shutdown, loop, corrupted, outstanding>>

Delivered ==
  /\ Running /\ pc = "delivering" /\ queue = << >>
  /\ pc' = "idle" /\ result' = "none" /\ rounds' = {}
  /\ UNCHANGED <<map, pending, token, requests, shutdown, called, corrupted, outstanding>>

-----------------------------------------------------------------------------
Loop ==
  \/ Begin \/ Exit \/ Call \/ Return \/ Wait \/ WaitEnds \/ Timeout \/ Collect \/ Deliver \/ Delivered
  \/ \E n \in Names : PassOver(n) \/ Ask(n)

\* Only a state that is refreshed SOMETIMES is left empty.
Next ==
  \/ \E n \in Names : SetStateProvider(n) \/ RemoveStateProvider(n)
  \/ \E n \in Names, policy \in Policies, isEmpty \in BOOLEAN :
       /\ isEmpty => policy = "SOMETIMES"
       /\ \/ SetState(n, policy, isEmpty)
          \/ \E t \in 1 .. token : ProvidedState(n, t, policy, isEmpty)
  \/ \E r \in Requesters : GetContext(r)
  \/ Shutdown
  \/ Loop

Spec == Init /\ [][Next]_vars

\* The thread runs, and its timeout fires.  Nothing is assumed of the providers.
FairSpec == Spec /\ WF_vars(Loop)

-----------------------------------------------------------------------------
(* Properties *)

Infos == [hasProvider : BOOLEAN, policy : Policies, isEmpty : BOOLEAN, round : 0 .. token]
Pcs == {"idle", "asking", "calling", "called", "waiting", "collecting", "delivering", "exited"}

\* Every variable has its type; and once a round has begun the token is never 0, which stands
\* for "no token".
TypeOK ==
  /\ \E N \in SUBSET Names : infos \in [N -> Infos]
  /\ pending \subseteq Names
  /\ token \in 0 .. TokenRange - 1 /\ (token = 0 => pc \in {"idle", "exited"})
  /\ queue \in Seq([requester : asked, token : 0 .. token, pc : Pcs])
  /\ shutdown \in BOOLEAN /\ inserts \in 0 .. MaxInserts /\ disturbed \in BOOLEAN /\ corrupted \in BOOLEAN
  /\ pc \in Pcs
  /\ owed \subseteq Registered /\ at \in Registered \cup {NoName}
  /\ result \in {"none", "context", "timeout", "build error"} /\ rounds \subseteq 0 .. token
  /\ called \subseteq Names
  /\ outstanding \subseteq Names \X (1 .. token)
  /\ answered \subseteq asked /\ asked \subseteq Requesters

\* The round that has to refresh the states a request is answered with: the next one, unless
\* one was being processed.
RoundOf(request) == IF request.pc = "idle" THEN request.token + 1 ELSE request.token

\* A requester is handed only states that its own round refreshed, or that were told since that
\* round began: no late answer to an earlier round.  A request that joins a round in progress, or
\* being delivered, may get states told before the request, but not before the round.  (Unless an insertion reordered
\* the map under the iteration: then it may miss a provider.)
ContextIsFresh ==
  pc = "delivering" /\ result = "context" /\ queue # << >> /\ ~disturbed
    => \A k \in rounds : k >= RoundOf(Head(queue))

\* Every getContext() is answered, whatever the providers do, unless the program is brought
\* down.
RequestersAnswered ==
  \A r \in Requesters : r \in asked ~> r \in answered \/ shutdown \/ corrupted

\* "getContext request failed due to a timeout on one or more stateProviderInterfaces"
\* (ContextRequesterInterface.h): among those waited for in vain is one that was called.
TimeoutIsDeserved ==
  [][pc = "waiting" /\ pc' = "delivering" => \E n \in pending : n \in called]_vars
=============================================================================
