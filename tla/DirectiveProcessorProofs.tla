---------------------- MODULE DirectiveProcessorProofs ----------------------
(***************************************************************************)
(* Theorems about DirectiveProcessor, and about DirectiveSequencer, which  *)
(* drives it, for every set of directives, dialogs and assignment of the   *)
(* ones to the others.                                                     *)
(*                                                                         *)
(* The lemmas on Keep and Without come first.  The inductive invariants    *)
(* speak of the guarded members through predicates on a value s of them,   *)
(* because the ...Locked() functions are composed: each predicate is first *)
(* shown to be kept by each function.  Moves says which directives such a  *)
(* function takes out and cancels; that every step but those of six kinds  *)
(* is an instance of Settles lets the later invariants be proved once for  *)
(* all of them.  The sequencer's steps are steps of the processor, so that *)
(* its invariants are available there.                                     *)
(***************************************************************************)
EXTENDS DirectiveSequencer, TLAPS, WellFoundedInduction

-----------------------------------------------------------------------------
(* What the operators of Deque return.  Induction over the length is done   *)
(* with SetInduction, which speaks of a set of numbers and not of a         *)
(* predicate: a set can be instantiated by the SMT backend.                 *)

\* A non-empty set of natural numbers has a least element.
LEMMA LeastElement ==
  ASSUME NEW T, T \subseteq Nat, T # {}
  PROVE  \E x \in T : \A y \in T : x <= y
<1>1. PICK x \in T : \A y \in T : ~ (<<y, x>> \in OpToRel(<, Nat))
  BY NatLessThanWellFounded, WFMin
<1>2. \A y \in T : ~(y < x)
  BY <1>1 DEF OpToRel
<1> QED BY <1>2

\* A subset of 0 .. n that holds 0 and is closed under successor is all of it.
LEMMA SetInduction ==
  ASSUME NEW n \in Nat, NEW T \in SUBSET (0..n), 0 \in T,
         \A i \in 0..(n-1) : i \in T => i+1 \in T
  PROVE T = 0..n
<1> SUFFICES ASSUME (0..n) \ T # {} PROVE FALSE 
  OBVIOUS
<1>1. (0..n) \ T \subseteq Nat OBVIOUS
<1>2. PICK x \in (0..n) \ T : \A y \in (0..n) \ T : x <= y
  BY <1>1, LeastElement
<1>3. x # 0 /\ x-1 \in 0..(n-1) /\ x - 1 \in T
  BY <1>2
<1> QED BY <1>3


\* f is the table that Keep computes, up to entry m.
PartialTable(q, D, S, m, f) ==
  /\ f \in [0 .. m -> Seq(S)]
  /\ f[0] = << >>
  /\ \A i \in 1 .. m :
       f[i] = IF q[i] \in D THEN Append(f[i - 1], q[i]) ELSE f[i - 1]

\* The recursion in Keep has a solution.
LEMMA PrefixTableExists ==
  ASSUME NEW S, NEW q \in Seq(S), NEW D
  PROVE  \E f : PartialTable(q, D, S, Len(q), f)
<1> DEFINE T == {m \in 0 .. Len(q) : \E f : PartialTable(q, D, S, m, f)}
<1>1. 0 \in T
  <2>1. PartialTable(q, D, S, 0, [i \in 0 .. 0 |-> << >>])
    BY DEF PartialTable
  <2> QED BY <2>1
<1>2. ASSUME NEW m \in 0 .. (Len(q) - 1), m \in T PROVE m + 1 \in T
  <2>1. PICK f : PartialTable(q, D, S, m, f)
    BY <1>2
  <2> DEFINE next == IF q[m + 1] \in D THEN Append(f[m], q[m + 1]) ELSE f[m]
             g == [i \in 0 .. (m + 1) |-> IF i <= m THEN f[i] ELSE next]
  <2>2. next \in Seq(S)
    BY <2>1 DEF PartialTable
  <2>3. g \in [0 .. (m + 1) -> Seq(S)] /\ g[0] = << >>
    BY <2>1, <2>2 DEF PartialTable
  <2>4. ASSUME NEW i \in 1 .. (m + 1)
        PROVE  g[i] = IF q[i] \in D THEN Append(g[i - 1], q[i]) ELSE g[i - 1]
    <3>1. CASE i = m + 1
      BY <3>1
    <3>2. CASE i \in 1 .. m
      <4>1. g[i] = f[i] /\ g[i - 1] = f[i - 1]
        BY <3>2
      <4> QED BY <2>1, <3>2, <4>1 DEF PartialTable
    <3> QED BY <3>1, <3>2
  <2>5. PartialTable(q, D, S, m + 1, g)
    BY <2>3, <2>4 DEF PartialTable
  <2> QED BY <2>5
<1>3. T \in SUBSET (0 .. Len(q)) /\ Len(q) \in Nat
  OBVIOUS
<1> HIDE DEF T
<1>4. T = 0 .. Len(q)
  BY <1>1, <1>2, <1>3, SetInduction
<1> QED BY <1>3, <1>4 DEF T

\* h places s in the first m elements of q: in order, exactly at the elements of D.
Embeds(s, q, m, D, h) ==
  /\ h \in [1 .. Len(s) -> 1 .. m]
  /\ \A k \in 1 .. Len(s) : s[k] = q[h[k]] /\ q[h[k]] \in D
  /\ \A j, k \in 1 .. Len(s) : j < k => h[j] < h[k]
  /\ \A i \in 1 .. m : q[i] \in D => \E k \in 1 .. Len(s) : h[k] = i

\* Appending the next element of q, when it is in D, keeps the placement.
LEMMA AppendEmbeds ==
  ASSUME NEW S, NEW s \in Seq(S), NEW q \in Seq(S), NEW m \in Nat, NEW D, NEW h,
         Embeds(s, q, m, D, h), q[m + 1] \in S, q[m + 1] \in D
  PROVE  \E g : Embeds(Append(s, q[m + 1]), q, m + 1, D, g)
<1> DEFINE g == [k \in 1 .. (Len(s) + 1) |-> IF k <= Len(s) THEN h[k] ELSE m + 1]
           t == Append(s, q[m + 1])
<1>1. /\ Len(s) \in Nat
      /\ Len(t) = Len(s) + 1
      /\ \A k \in 1 .. Len(s) : t[k] = s[k]
      /\ t[Len(s) + 1] = q[m + 1]
  OBVIOUS
<1> HIDE DEF t
<1>2. g \in [1 .. Len(t) -> 1 .. (m + 1)]
  BY <1>1 DEF Embeds
<1>3. \A k \in 1 .. Len(t) : k \in 1 .. Len(s) \/ k = Len(s) + 1
  BY <1>1
<1>4. (\A k \in 1 .. Len(s) : g[k] = h[k]) /\ g[Len(s) + 1] = m + 1
  BY <1>1
<1>5. \A k \in 1 .. Len(s) : h[k] \in 1 .. m
  BY DEF Embeds
<1> HIDE DEF g
<1>6. \A k \in 1 .. Len(t) : t[k] = q[g[k]] /\ q[g[k]] \in D
  BY <1>1, <1>3, <1>4 DEF Embeds
<1>7. \A j, k \in 1 .. Len(t) : j < k => g[j] < g[k]
  <2> SUFFICES ASSUME NEW j \in 1 .. Len(t), NEW k \in 1 .. Len(t), j < k
               PROVE  g[j] < g[k]
    OBVIOUS
  <2>1. j \in 1 .. Len(s)
    BY <1>1
  <2>2. CASE k \in 1 .. Len(s)
    BY <1>4, <2>1, <2>2 DEF Embeds
  <2>3. CASE k = Len(s) + 1
    BY <1>4, <1>5, <2>1, <2>3
  <2> QED BY <1>3, <2>2, <2>3
<1>8. \A i \in 1 .. (m + 1) : q[i] \in D => \E k \in 1 .. Len(t) : g[k] = i
  <2> SUFFICES ASSUME NEW i \in 1 .. (m + 1), q[i] \in D
               PROVE  \E k \in 1 .. Len(t) : g[k] = i
    OBVIOUS
  <2>1. CASE i = m + 1
    BY <1>1, <1>4, <2>1
  <2>2. CASE i \in 1 .. m
    <3>1. PICK k \in 1 .. Len(s) : h[k] = i
      BY <2>2 DEF Embeds
    <3> QED BY <1>1, <1>4, <3>1
  <2> QED BY <2>1, <2>2
<1>9. Embeds(t, q, m + 1, D, g)
  BY <1>2, <1>6, <1>7, <1>8 DEF Embeds
<1> QED BY <1>9 DEF t

\* Keep(q, D) is the subsequence of q at the elements of D: the filtering loops of the
\* code keep the order and lose nothing.
LEMMA KeepEmbeds ==
  ASSUME NEW S, NEW q \in Seq(S), NEW D
  PROVE  /\ Keep(q, D) \in Seq(S)
         /\ \E h : Embeds(Keep(q, D), q, Len(q), D, h)
<1> DEFINE Table(f) == f = [i \in 0 .. Len(q) |->
                              IF i = 0 THEN << >>
                              ELSE IF q[i] \in D THEN Append(f[i - 1], q[i]) ELSE f[i - 1]]
           pre == CHOOSE f : Table(f)
<1>1. Keep(q, D) = pre[Len(q)]
  BY DEF Keep
<1>2. Table(pre)
  <2>1. PICK f : PartialTable(q, D, S, Len(q), f)
    BY PrefixTableExists
  <2>2. ASSUME NEW i \in 0 .. Len(q)
        PROVE  f[i] = IF i = 0 THEN << >>
                      ELSE IF q[i] \in D THEN Append(f[i - 1], q[i]) ELSE f[i - 1]
    <3>1. i = 0 \/ i \in 1 .. Len(q)
      OBVIOUS
    <3> QED BY <2>1, <3>1 DEF PartialTable
  <2>3. f = [i \in 0 .. Len(q) |-> f[i]]
    BY <2>1 DEF PartialTable
  <2>4. Table(f)
    BY <2>2, <2>3
  <2> QED BY <2>4
<1> HIDE DEF pre
<1>3. /\ pre[0] = << >>
      /\ \A i \in 1 .. Len(q) :
           pre[i] = IF q[i] \in D THEN Append(pre[i - 1], q[i]) ELSE pre[i - 1]
  <2>1. 0 \in 0 .. Len(q)
    OBVIOUS
  <2>2. pre[0] = << >>
    BY <1>2, <2>1
  <2>3. ASSUME NEW i \in 1 .. Len(q)
        PROVE  pre[i] = IF q[i] \in D THEN Append(pre[i - 1], q[i]) ELSE pre[i - 1]
    <3>1. i \in 0 .. Len(q) /\ i # 0
      OBVIOUS
    <3> QED BY <1>2, <3>1
  <2> QED BY <2>2, <2>3
<1> HIDE DEF Table
<1> DEFINE T == {m \in 0 .. Len(q) : pre[m] \in Seq(S) /\ \E h : Embeds(pre[m], q, m, D, h)}
<1>4. 0 \in T
  <2>1. Embeds(<< >>, q, 0, D, [i \in 1 .. 0 |-> 0])
    BY DEF Embeds
  <2>2. pre[0] \in Seq(S) /\ Embeds(pre[0], q, 0, D, [i \in 1 .. 0 |-> 0])
    BY <1>3, <2>1
  <2> QED BY <2>2
<1>5. ASSUME NEW m \in 0 .. (Len(q) - 1), m \in T PROVE m + 1 \in T
  <2>1. PICK h : pre[m] \in Seq(S) /\ Embeds(pre[m], q, m, D, h)
    BY <1>5
  <2>2. q[m + 1] \in S /\ m + 1 \in 1 .. Len(q) /\ (m + 1) - 1 = m
    OBVIOUS
  <2>3. pre[m + 1] = IF q[m + 1] \in D THEN Append(pre[m], q[m + 1]) ELSE pre[m]
    BY <1>3, <2>2
  <2> DEFINE s == pre[m]
  <2>4. CASE q[m + 1] \notin D
    <3>1. Embeds(s, q, m + 1, D, h)
      BY <2>1, <2>4 DEF Embeds
    <3> QED BY <2>1, <2>2, <2>3, <2>4, <3>1
  <2>5. CASE q[m + 1] \in D
    <3>1. PICK g : Embeds(Append(s, q[m + 1]), q, m + 1, D, g)
      BY <2>1, <2>2, <2>5, AppendEmbeds
    <3>2. Append(s, q[m + 1]) \in Seq(S)
      BY <2>1, <2>2
    <3>3. pre[m + 1] = Append(s, q[m + 1]) /\ m + 1 \in 0 .. Len(q)
      BY <2>2, <2>3, <2>5
    <3> QED BY <3>1, <3>2, <3>3
  <2> QED BY <2>4, <2>5
<1>6. T \in SUBSET (0 .. Len(q)) /\ Len(q) \in Nat
  OBVIOUS
<1> HIDE DEF T
<1>7. T = 0 .. Len(q)
  BY <1>4, <1>5, <1>6, SetInduction
<1> QED BY <1>1, <1>6, <1>7 DEF T

\* The type and the elements of Keep(q, D).
LEMMA KeepProperties ==
  ASSUME NEW S, NEW q \in Seq(S), NEW D
  PROVE  /\ Keep(q, D) \in Seq(S)
         /\ Elements(Keep(q, D)) = Elements(q) \cap D
<1> DEFINE r == Keep(q, D)
<1>1. r \in Seq(S)
  BY KeepEmbeds
<1>2. PICK h : Embeds(r, q, Len(q), D, h)
  BY KeepEmbeds
<1> HIDE DEF r
<1>3. DOMAIN r = 1 .. Len(r) /\ DOMAIN q = 1 .. Len(q)
  BY <1>1
<1>4. \A k \in 1 .. Len(r) : h[k] \in 1 .. Len(q) /\ r[k] = q[h[k]] /\ r[k] \in D
  BY <1>2 DEF Embeds
<1>5. \A i \in 1 .. Len(q) : q[i] \in D => \E k \in 1 .. Len(r) : r[k] = q[i]
  BY <1>2 DEF Embeds
<1>6. Elements(r) \subseteq Elements(q) \cap D
  BY <1>3, <1>4 DEF Elements
<1>7. Elements(q) \cap D \subseteq Elements(r)
  BY <1>3, <1>5 DEF Elements
<1> QED BY <1>1, <1>6, <1>7 DEF r

\* q holds no element twice.
NoRepeats(q) == \A i, j \in DOMAIN q : q[i] = q[j] => i = j

\* Keep repeats no element that q does not repeat, and keeps the front of q in front.
LEMMA KeepOrder ==
  ASSUME NEW S, NEW q \in Seq(S), NEW D, NEW r, r = Keep(q, D)
  PROVE  /\ NoRepeats(q) => NoRepeats(r)
         /\ r # << >> /\ Head(q) \in D => Head(r) = Head(q)
         /\ \A k \in 2 .. Len(r) : \E i \in 2 .. Len(q) : r[k] = q[i]
<1>1. r \in Seq(S) /\ DOMAIN r = 1 .. Len(r) /\ DOMAIN q = 1 .. Len(q) /\ Len(q) \in Nat /\ Len(r) \in Nat
  BY KeepProperties
<1>2. PICK h : Embeds(r, q, Len(q), D, h)
  BY KeepEmbeds
<1>3. \A k \in 1 .. Len(r) : h[k] \in 1 .. Len(q) /\ r[k] = q[h[k]]
  BY <1>2 DEF Embeds
<1>4. \A j, k \in 1 .. Len(r) : j < k => h[j] < h[k]
  BY <1>2 DEF Embeds
<1>5. NoRepeats(q) => NoRepeats(r)
  <2> SUFFICES ASSUME NoRepeats(q), NEW j \in 1 .. Len(r), NEW k \in 1 .. Len(r), r[j] = r[k]
               PROVE  j = k
    BY <1>1 DEF NoRepeats
  <2>1. h[j] = h[k] /\ h[j] \in Nat
    BY <1>1, <1>3 DEF NoRepeats
  <2>2. ~(j < k) /\ ~(k < j)
    BY <1>4, <2>1
  <2> QED BY <2>2
<1>6. ASSUME r # << >>, Head(q) \in D PROVE Head(r) = Head(q)
  <2>1. 1 \in 1 .. Len(r) /\ Head(r) = r[1]
    BY <1>1, <1>6
  <2>2. h[1] \in 1 .. Len(q)
    BY <1>3, <2>1
  <2>3. 1 \in 1 .. Len(q) /\ q[1] = Head(q)
    BY <2>2
  <2>4. PICK k \in 1 .. Len(r) : h[k] = 1
    BY <1>2, <1>6, <2>3 DEF Embeds
  <2>5. k = 1
    <3>1. ~(1 < k)
      BY <1>4, <2>1, <2>2, <2>4
    <3> QED BY <3>1
  <2> QED BY <1>3, <2>1, <2>3, <2>4, <2>5
<1>7. ASSUME NEW k \in 2 .. Len(r) PROVE \E i \in 2 .. Len(q) : r[k] = q[i]
  <2>1. 1 \in 1 .. Len(r) /\ k \in 1 .. Len(r) /\ 1 < k
    BY <1>1
  <2>2. h[1] < h[k] /\ h[1] \in 1 .. Len(q) /\ h[k] \in 1 .. Len(q)
    BY <1>3, <1>4, <2>1
  <2>3. h[k] \in 2 .. Len(q)
    BY <1>1, <2>2
  <2> QED BY <1>3, <2>1, <2>3
<1> QED BY <1>5, <1>6, <1>7

-----------------------------------------------------------------------------
(* Types *)

\* Removing a set of directives from a queue keeps its type; Keep does too.
LEMMA DequeTypes ==
  ASSUME NEW q \in Seq(Directives), NEW D
  PROVE  /\ Keep(q, D) \in Seq(Directives)
         /\ Without(q, D) \in Seq(Directives)
         /\ Elements(Keep(q, D)) = Elements(q) \cap D
         /\ Elements(Without(q, D)) = Elements(q) \ D
         /\ Elements(q) \subseteq Directives
<1>1. \A E : Keep(q, E) \in Seq(Directives) /\ Elements(Keep(q, E)) = Elements(q) \cap E
  BY KeepProperties
<1>2. Elements(q) \subseteq Directives
  BY DEF Elements
<1> QED BY <1>1, <1>2 DEF Without

\* Appending and concatenating directives.
LEMMA AppendTypes ==
  ASSUME NEW q \in Seq(Directives), NEW d \in Directives
  PROVE  /\ Append(q, d) \in Seq(Directives)
         /\ Elements(Append(q, d)) = Elements(q) \cup {d}
<1>1. Append(q, d) \in Seq(Directives)
  OBVIOUS
<1>2. /\ DOMAIN Append(q, d) = 1 .. (Len(q) + 1) /\ DOMAIN q = 1 .. Len(q)
      /\ \A i \in 1 .. Len(q) : Append(q, d)[i] = q[i]
      /\ Append(q, d)[Len(q) + 1] = d
      /\ Len(q) \in Nat
  OBVIOUS
<1>3. \A i \in 1 .. (Len(q) + 1) : i \in 1 .. Len(q) \/ i = Len(q) + 1
  BY <1>2
<1> QED BY <1>1, <1>2, <1>3 DEF Elements

\* The functions that run with m_mutex held keep the type of the members.
LEMMA ScrubbedType ==
  ASSUME NEW s \in Members, NEW id
  PROVE  Scrubbed(s, id) \in Members
<1> DEFINE D == OfDialog(id)
<1>1. Keep(s.handlingQueue, D) \in Seq(Directives) /\ Without(s.handlingQueue, D) \in Seq(Directives)
  BY DequeTypes DEF Members
<1>2. D \subseteq Directives /\ s.beingPreHandled \in Directives \cup {NoDirective}
  BY DEF OfDialog, Members
<1> HIDE DEF D
<1>3. Moved(s, D) \in Seq(Directives)
  BY <1>1, <1>2 DEF Moved
<1>4. s.cancelingQueue \o Moved(s, D) \in Seq(Directives)
  BY <1>3 DEF Members
<1> QED BY <1>1, <1>4 DEF Scrubbed, D, Members, Ids, FrontIn

LEMMA RemovedType ==
  ASSUME NEW s \in Members, NEW d
  PROVE  Removed(s, d) \in Members
<1>1. /\ Without(s.handlingQueue, {d}) \in Seq(Directives)
      /\ Without(s.cancelingQueue, {d}) \in Seq(Directives)
  BY DequeTypes DEF Members
<1> QED BY <1>1 DEF Removed, Members, FrontIn

LEMMA AllForCancellationType ==
  ASSUME NEW s \in Members
  PROVE  AllForCancellation(s) \in Members
<1>1. All(s) \in Seq(Directives)
  BY DEF All, Members
<1>2. s.cancelingQueue \o All(s) \in Seq(Directives)
  BY <1>1 DEF Members
<1> DEFINE c == s.cancelingQueue \o All(s)
           n == s.notify \/ All(s) # << >>
<1>3. c \in Seq(Directives) /\ n \in BOOLEAN /\ << >> \in Seq(Directives)
  BY <1>2
<1>4. AllForCancellation(s) =
        [s EXCEPT !.cancelingQueue = c, !.handlingQueue = << >>, !.beingPreHandled = NoDirective,
                  !.isHandling = FALSE, !.dialogRequestId = NoDialog, !.notify = n]
  BY DEF AllForCancellation
<1> HIDE DEF c, n
<1> QED BY <1>3, <1>4 DEF Members, Ids

LEMMA WithDialogType ==
  ASSUME NEW s \in Members, NEW id \in Ids
  PROVE  WithDialog(s, id) \in Members
<1>1. Scrubbed(s, s.dialogRequestId) \in Members
  BY ScrubbedType
<1> QED BY <1>1 DEF WithDialog, Members

LEMMA AdmittedType ==
  ASSUME NEW s \in Members, NEW d \in Directives, NEW b \in BOOLEAN
  PROVE  Admitted(s, d, b) \in Members
<1> DEFINE queue == s.beingPreHandled # NoDirective /\ b
           h == IF queue THEN Append(s.handlingQueue, d) ELSE s.handlingQueue
<1>1. h \in Seq(Directives) /\ queue \in BOOLEAN
  BY AppendTypes DEF Members
<1>2. Admitted(s, d, b) = [s EXCEPT !.beingPreHandled = NoDirective, !.handlingQueue = h,
                                    !.notify = queue]
  BY DEF Admitted
<1> HIDE DEF h, queue
<1> QED BY <1>1, <1>2 DEF Members

LEMMA PoppedType ==
  ASSUME NEW s \in Members, NEW d
  PROVE  Popped(s, d) \in Members
<1> DEFINE h == IF s.handlingQueue # << >> /\ Head(s.handlingQueue) = d
                THEN Tail(s.handlingQueue) ELSE s.handlingQueue
<1>1. h \in Seq(Directives)
  BY DEF Members
<1>2. Popped(s, d) = [s EXCEPT !.isHandling = FALSE, !.handlingQueue = h]
  BY DEF Popped
<1> HIDE DEF h
<1> QED BY <1>1, <1>2 DEF Members

LEMMA HandledType ==
  ASSUME NEW s \in Members, NEW d, NEW reply \in Replies
  PROVE  Handled(s, d, reply) \in Members
<1>1. Popped(s, d) \in Members
  BY PoppedType
<1>2. Scrubbed(Popped(s, d), DialogOf[d]) \in Members
  BY <1>1, ScrubbedType
<1> QED BY <1>1, <1>2 DEF Handled, Replies

\* A thread that is past the start of its loop holds a directive.
ThreadsHoldDirectives ==
  /\ rx.pc # "idle" => rx.directive \in Elements(offered)
  /\ proc.pc = "handling" => proc.directive \in handled
  /\ proc.pc = "canceling" => proc.temp # << >>

TypeInv == TypeOK /\ ThreadsHoldDirectives

\* Releasing the lock with well-typed members keeps the types of dp and of the processing
\* thread, which at most wakes up.
LEMMA ReleaseType ==
  ASSUME TypeInv, NEW s \in Members, Release(s)
  PROVE  /\ dp' \in Members
         /\ proc' \in [pc : ProcessPcs, directive : Directives \cup {NoDirective},
                       temp : Seq(Directives)]
         /\ proc'.pc = "handling" => proc.pc = "handling" /\ proc'.directive = proc.directive
         /\ proc'.pc = "canceling" => proc.pc = "canceling" /\ proc'.temp = proc.temp
BY DEF Release, TypeInv, TypeOK, ProcessPcs, Members

LEMMA TypeInit == Init => TypeInv
<1> SUFFICES ASSUME Init PROVE TypeInv
  OBVIOUS
<1>1. dp \in Members
  BY DEF Init, Members, Ids
<1>2. proc \in [pc : ProcessPcs, directive : Directives \cup {NoDirective}, temp : Seq(Directives)]
  BY DEF Init, ProcessPcs
<1> QED BY <1>1, <1>2 DEF Init, TypeInv, TypeOK, ThreadsHoldDirectives, ReceivePcs, ShutdownPcs

LEMMA TypeStep == TypeInv /\ [Next]_vars => TypeInv'
<1> SUFFICES ASSUME TypeInv, [Next]_vars PROVE TypeInv'
  OBVIOUS
<1> USE DEF TypeInv, TypeOK, ThreadsHoldDirectives
<1>1. ASSUME NEW id \in Ids, SetDialogRequestId(id) PROVE TypeInv'
  <2>1. WithDialog(dp, id) \in Members
    BY WithDialogType
  <2> QED BY <1>1, <2>1, ReleaseType DEF SetDialogRequestId
<1>2. CASE Disable
  <2>1. [AllForCancellation(dp) EXCEPT !.isEnabled = FALSE, !.notify = TRUE] \in Members
    BY AllForCancellationType DEF Members
  <2> QED BY <1>2, <2>1, ReleaseType DEF Disable, calls
<1>3. CASE Enable
  <2>1. [dp EXCEPT !.isEnabled = TRUE] \in Members
    BY DEF Members
  <2> QED BY <1>3, <2>1, ReleaseType DEF Enable, calls
<1>4. ASSUME NEW d \in Directives, Refuse(d) PROVE TypeInv'
  BY <1>4 DEF Refuse, vars, calls
<1>5. ASSUME NEW d \in Directives, Accept(d) PROVE TypeInv'
  <2>1. [dp EXCEPT !.beingPreHandled = d] \in Members
    BY DEF Members
  <2>2. offered' \in Seq(Directives) /\ d \in Elements(offered')
    BY <1>5, AppendTypes DEF Accept
  <2>3. rx' \in [pc : ReceivePcs, directive : Directives \cup {NoDirective}] /\ rx'.directive = d
    BY <1>5 DEF Accept, ReceivePcs
  <2> QED BY <1>5, <2>1, <2>2, <2>3, ReleaseType DEF Accept
<1>6. CASE EnterPreHandle
  <2>1. rx.directive \in Directives
    BY <1>6, DequeTypes DEF EnterPreHandle
  <2> QED BY <1>6, <2>1 DEF EnterPreHandle, ReceivePcs
<1>7. ASSUME NEW b \in BOOLEAN, ReturnPreHandle(b) PROVE TypeInv'
  <2>1. rx.directive \in Directives
    BY <1>7, DequeTypes DEF ReturnPreHandle
  <2>2. Admitted(dp, rx.directive, b) \in Members
    BY <2>1, AdmittedType
  <2> QED BY <1>7, <2>2, ReleaseType DEF ReturnPreHandle, ReceivePcs, calls
<1>8. ASSUME NEW d \in Directives, SetCompleted(d) PROVE TypeInv'
  <2>1. (IF isRegistered THEN Removed(dp, d) ELSE dp) \in Members
    BY RemovedType
  <2> QED BY <1>8, <2>1, ReleaseType DEF SetCompleted, Report
<1>9. ASSUME NEW d \in Directives, SetFailed(d) PROVE TypeInv'
  <2>1. (IF isRegistered THEN Scrubbed(Removed(dp, d), DialogOf[d]) ELSE dp) \in Members
    BY RemovedType, ScrubbedType
  <2>2. failedDialogs' \subseteq Dialogs
    BY <1>9, DialogAssumption DEF SetFailed
  <2> QED BY <1>9, <2>1, <2>2, ReleaseType DEF SetFailed, Report
<1>10. CASE Sleep
  BY <1>10 DEF Sleep, calls, ProcessPcs
<1>11. CASE TakeCancelingQueue
  <2>1. dp' = [dp EXCEPT !.cancelingQueue = << >>] /\ << >> \in Seq(Directives)
    BY <1>11 DEF TakeCancelingQueue
  <2>2. dp' \in Members
    BY <2>1 DEF Members
  <2>3. dp.cancelingQueue \in Seq(Directives)
    BY DEF Members
  <2> QED BY <1>11, <2>2, <2>3 DEF TakeCancelingQueue, calls, ProcessPcs
<1>12. CASE Cancel
  <2>1. proc.temp \in Seq(Directives) /\ proc.temp # << >>
    BY <1>12 DEF Cancel
  <2>2. Head(proc.temp) \in Directives /\ Tail(proc.temp) \in Seq(Directives)
    BY <2>1
  <2> QED BY <1>12, <2>2 DEF Cancel, ProcessPcs
<1>13. CASE StartHandling
  <2>1. Head(dp.handlingQueue) \in Directives
    BY <1>13 DEF StartHandling, Members
  <2> QED BY <1>13, <2>1 DEF StartHandling, ProcessPcs, Members
<1>14. ASSUME NEW reply \in Replies, ReturnHandle(reply) PROVE TypeInv'
  <2>1. proc.directive \in Directives
    BY <1>14 DEF ReturnHandle
  <2>2. Handled(dp, proc.directive, reply) \in Members
    BY HandledType
  <2>3. dp' \in Members
    BY <1>14, <2>2 DEF ReturnHandle, Members
  <2>4. failedDialogs' \subseteq Dialogs
    BY <1>14, <2>1, DialogAssumption DEF ReturnHandle
  <2> QED BY <1>14, <2>1, <2>3, <2>4 DEF ReturnHandle, ProcessPcs
<1>15. CASE Exit
  BY <1>15 DEF Exit, calls, ProcessPcs
<1>16. CASE Shutdown
  <2>1. [AllForCancellation(dp) EXCEPT !.isShuttingDown = TRUE, !.notify = TRUE] \in Members
    BY AllForCancellationType DEF Members
  <2>2. CASE EraseHandle
    BY <2>2 DEF EraseHandle, calls, ShutdownPcs
  <2>3. CASE QueueAll
    BY <2>1, <2>3, ReleaseType DEF QueueAll, calls, ShutdownPcs
  <2>4. CASE Join
    BY <2>4 DEF Join, calls, ShutdownPcs
  <2> QED BY <1>16, <2>2, <2>3, <2>4 DEF Shutdown
<1>17. CASE UNCHANGED vars
  BY <1>17 DEF vars, calls
<1> QED BY <1>1, <1>2, <1>3, <1>4, <1>5, <1>6, <1>7, <1>8, <1>9, <1>10, <1>11, <1>12, <1>13,
           <1>14, <1>15, <1>16, <1>17 DEF Next, Client, Receiving, Handler, Processing

\* The members, the threads and the record of calls always have their types.
THEOREM TypeCorrect == Spec => []TypeOK
<1>1. Spec => []TypeInv
  BY TypeInit, TypeStep, PTL DEF Spec
<1>2. TypeInv => TypeOK
  BY DEF TypeInv
<1> QED BY <1>1, <1>2, PTL

-----------------------------------------------------------------------------
(* Dialogs *)

\* CurrentDialogOnly, of a value of the members.
DialogHolds(s) ==
  \A d \in Elements(s.handlingQueue) \cup {s.beingPreHandled} :
    d # NoDirective => DialogOf[d] \in {NoDialog, s.dialogRequestId}

\* No failed dialog is the current one, of a value of the members.
FailureHolds(s) == \A id \in failedDialogs : s.dialogRequestId # id

\* A scrub removes every directive of the dialog it ends.
LEMMA ScrubbedDialog ==
  ASSUME NEW s \in Members, DialogHolds(s), NEW id, NEW t, t = Scrubbed(s, id)
  PROVE  /\ DialogHolds(t)
         /\ id # NoDialog => t.dialogRequestId # id
         /\ t.dialogRequestId \in {NoDialog, s.dialogRequestId}
         /\ id = s.dialogRequestId => t.dialogRequestId = NoDialog
<1> DEFINE D == OfDialog(id)
<1>1. /\ t.handlingQueue = Without(s.handlingQueue, D)
      /\ t.beingPreHandled = IF s.beingPreHandled \in D THEN NoDirective ELSE s.beingPreHandled
      /\ t.dialogRequestId = IF s.dialogRequestId = id THEN NoDialog ELSE s.dialogRequestId
  BY DEF Scrubbed, Members
<1>2. Elements(t.handlingQueue) = Elements(s.handlingQueue) \ D
  BY <1>1, DequeTypes DEF Members
<1>3. Elements(s.handlingQueue) \subseteq Directives /\ s.beingPreHandled \in Directives \cup {NoDirective}
  BY DequeTypes DEF Members
<1>4. \A d \in Directives \ D : DialogOf[d] = id => id = NoDialog
  BY DEF OfDialog
<1> HIDE DEF D
<1>5. \A d \in Elements(t.handlingQueue) \cup {t.beingPreHandled} :
        d # NoDirective =>
          /\ d \in Directives \ D
          /\ d \in Elements(s.handlingQueue) \cup {s.beingPreHandled}
  BY <1>1, <1>2, <1>3
<1>6. DialogHolds(t)
  BY <1>1, <1>4, <1>5 DEF DialogHolds
<1> QED BY <1>1, <1>6

LEMMA RemovedDialog ==
  ASSUME NEW s \in Members, DialogHolds(s), NEW d, NEW t, t = Removed(s, d)
  PROVE  DialogHolds(t) /\ t.dialogRequestId = s.dialogRequestId
<1>1. /\ t.handlingQueue = Without(s.handlingQueue, {d})
      /\ t.beingPreHandled = IF s.beingPreHandled = d THEN NoDirective ELSE s.beingPreHandled
      /\ t.dialogRequestId = s.dialogRequestId
  BY DEF Removed, Members
<1>2. Elements(t.handlingQueue) \subseteq Elements(s.handlingQueue)
  BY <1>1, DequeTypes DEF Members
<1> QED BY <1>1, <1>2 DEF DialogHolds

LEMMA AllForCancellationDialog ==
  ASSUME NEW s \in Members, NEW t, t = AllForCancellation(s)
  PROVE  DialogHolds(t) /\ t.dialogRequestId = NoDialog
<1>1. t.handlingQueue = << >> /\ t.beingPreHandled = NoDirective /\ t.dialogRequestId = NoDialog
  BY DEF AllForCancellation, Members
<1> QED BY <1>1 DEF DialogHolds, Elements

LEMMA WithDialogDialog ==
  ASSUME NEW s \in Members, DialogHolds(s), NEW id \in Ids, NEW t, t = WithDialog(s, id)
  PROVE  DialogHolds(t) /\ t.dialogRequestId = id
<1>1. CASE id = s.dialogRequestId
  BY <1>1 DEF WithDialog
<1>2. CASE id # s.dialogRequestId
  <2> DEFINE u == Scrubbed(s, s.dialogRequestId)
  <2>1. DialogHolds(u) /\ u.dialogRequestId = NoDialog /\ u \in Members
    BY ScrubbedDialog, ScrubbedType
  <2> HIDE DEF u
  <2>2. t = [u EXCEPT !.dialogRequestId = id]
    BY <1>2 DEF WithDialog, u
  <2>3. t.handlingQueue = u.handlingQueue /\ t.beingPreHandled = u.beingPreHandled /\ t.dialogRequestId = id
    BY <2>1, <2>2 DEF Members
  <2> QED BY <2>1, <2>3 DEF DialogHolds
<1> QED BY <1>1, <1>2

LEMMA PoppedDialog ==
  ASSUME NEW s \in Members, DialogHolds(s), NEW d, NEW t, t = Popped(s, d)
  PROVE  DialogHolds(t) /\ t.dialogRequestId = s.dialogRequestId
<1>1. /\ t.handlingQueue \in {s.handlingQueue, Tail(s.handlingQueue)}
      /\ t.handlingQueue # s.handlingQueue => s.handlingQueue # << >>
      /\ t.beingPreHandled = s.beingPreHandled /\ t.dialogRequestId = s.dialogRequestId
  BY DEF Popped, Members
<1>2. Elements(t.handlingQueue) \subseteq Elements(s.handlingQueue)
  BY <1>1 DEF Elements, Members
<1> QED BY <1>1, <1>2 DEF DialogHolds

\* m_directiveBeingPreHandled is the directive of the receiving thread, or null.
PreHandledIsReceived(s) ==
  s.beingPreHandled # NoDirective => rx.pc # "idle" /\ rx.directive = s.beingPreHandled

DialogInv == DialogHolds(dp) /\ FailureHolds(dp) /\ PreHandledIsReceived(dp)

\* The invariant of the members at which a critical section ends is the invariant after it.
LEMMA DialogKept ==
  ASSUME TypeInv, PreHandledIsReceived(dp), NEW s \in Members, Release(s), UNCHANGED rx,
         s.beingPreHandled \in {dp.beingPreHandled, NoDirective},
         DialogHolds(s), \A id \in failedDialogs' : s.dialogRequestId # id
  PROVE  DialogInv'
<1>1. /\ dp'.handlingQueue = s.handlingQueue /\ dp'.beingPreHandled = s.beingPreHandled
      /\ dp'.dialogRequestId = s.dialogRequestId
  BY DEF Release, Members
<1> QED BY <1>1 DEF DialogInv, DialogHolds, FailureHolds, PreHandledIsReceived

\* removeDirectiveLocked() and the scrubs only ever reset m_directiveBeingPreHandled.
LEMMA BeingPreHandledKeptOrReset ==
  ASSUME NEW s \in Members, NEW x
  PROVE  /\ Scrubbed(s, x).beingPreHandled \in {s.beingPreHandled, NoDirective}
         /\ Removed(s, x).beingPreHandled \in {s.beingPreHandled, NoDirective}
         /\ WithDialog(s, x).beingPreHandled \in {s.beingPreHandled, NoDirective}
         /\ AllForCancellation(s).beingPreHandled = NoDirective
         /\ Popped(s, x).beingPreHandled = s.beingPreHandled
<1>1. \A y : Scrubbed(s, y).beingPreHandled \in {s.beingPreHandled, NoDirective}
  BY DEF Scrubbed, Members
<1>2. \A y : Scrubbed(s, y) \in Members
  BY ScrubbedType
<1>3. WithDialog(s, x).beingPreHandled \in {s.beingPreHandled, NoDirective}
  BY <1>1, <1>2 DEF WithDialog, Members
<1> QED BY <1>1, <1>3 DEF Removed, AllForCancellation, Popped, Members

LEMMA DialogStep == TypeInv /\ DialogInv /\ [Next]_vars => DialogInv'
<1> SUFFICES ASSUME TypeInv, DialogInv, [Next]_vars PROVE DialogInv'
  OBVIOUS
<1>0. /\ dp \in Members /\ failedDialogs \subseteq Dialogs /\ NoDialog \notin Dialogs
      /\ DialogHolds(dp) /\ FailureHolds(dp) /\ PreHandledIsReceived(dp)
  BY DialogAssumption DEF TypeInv, TypeOK, DialogInv
<1>1. ASSUME NEW id \in Ids, SetDialogRequestId(id) PROVE DialogInv'
  <2> DEFINE t == WithDialog(dp, id)
  <2>1. t \in Members /\ DialogHolds(t) /\ t.dialogRequestId = id
    BY <1>0, WithDialogType, WithDialogDialog
  <2>2. t.beingPreHandled \in {dp.beingPreHandled, NoDirective}
    BY <1>0, BeingPreHandledKeptOrReset
  <2>3. Release(t) /\ UNCHANGED rx /\ failedDialogs' = failedDialogs \ {id}
    BY <1>1 DEF SetDialogRequestId
  <2> QED BY <1>0, <2>1, <2>2, <2>3, DialogKept
<1>2. ASSUME NEW s \in Members, DialogHolds(s), s.beingPreHandled = NoDirective,
             s.dialogRequestId = NoDialog, Release(s), UNCHANGED <<rx, failedDialogs>>
      PROVE  DialogInv'
  BY <1>0, <1>2, DialogKept
<1>3. CASE Disable
  <2> DEFINE u == AllForCancellation(dp)
             t == [u EXCEPT !.isEnabled = FALSE, !.notify = TRUE]
  <2>1. u \in Members /\ DialogHolds(u) /\ u.dialogRequestId = NoDialog /\ u.beingPreHandled = NoDirective
    BY <1>0, AllForCancellationType, AllForCancellationDialog, BeingPreHandledKeptOrReset
  <2> HIDE DEF u
  <2>2. t \in Members /\ DialogHolds(t) /\ t.dialogRequestId = NoDialog /\ t.beingPreHandled = NoDirective
    BY <2>1 DEF Members, DialogHolds
  <2>3. Release(t) /\ UNCHANGED <<rx, failedDialogs>>
    BY <1>3 DEF Disable, calls, u
  <2> QED BY <1>2, <2>2, <2>3
<1>4. CASE QueueAll
  <2> DEFINE u == AllForCancellation(dp)
             t == [u EXCEPT !.isShuttingDown = TRUE, !.notify = TRUE]
  <2>1. u \in Members /\ DialogHolds(u) /\ u.dialogRequestId = NoDialog /\ u.beingPreHandled = NoDirective
    BY <1>0, AllForCancellationType, AllForCancellationDialog, BeingPreHandledKeptOrReset
  <2> HIDE DEF u
  <2>2. t \in Members /\ DialogHolds(t) /\ t.dialogRequestId = NoDialog /\ t.beingPreHandled = NoDirective
    BY <2>1 DEF Members, DialogHolds
  <2>3. Release(t) /\ UNCHANGED <<rx, failedDialogs>>
    BY <1>4 DEF QueueAll, calls, u
  <2> QED BY <1>2, <2>2, <2>3
<1>5. CASE Enable
  <2>1. [dp EXCEPT !.isEnabled = TRUE] \in Members /\ DialogHolds([dp EXCEPT !.isEnabled = TRUE])
    BY <1>0 DEF Members, DialogHolds
  <2> QED BY <1>0, <1>5, <2>1, DialogKept DEF Enable, calls, Members, FailureHolds
<1>6. ASSUME NEW d \in Directives, Accept(d) PROVE DialogInv'
  <2>1. /\ dp'.handlingQueue = dp.handlingQueue /\ dp'.beingPreHandled = d
        /\ dp'.dialogRequestId = dp.dialogRequestId
    BY <1>0, <1>6 DEF Accept, Release, Members
  <2>2. DialogHolds(dp)'
    BY <1>0, <1>6, <2>1 DEF Accept, Acceptable, DialogHolds
  <2> QED BY <1>0, <1>6, <2>1, <2>2 DEF Accept, DialogInv, FailureHolds, PreHandledIsReceived
<1>7. CASE EnterPreHandle
  BY <1>7 DEF EnterPreHandle, TypeInv, TypeOK, DialogInv, DialogHolds, FailureHolds, PreHandledIsReceived
<1>8. ASSUME NEW b \in BOOLEAN, ReturnPreHandle(b) PROVE DialogInv'
  <2> DEFINE d == rx.directive
             t == Admitted(dp, d, b)
  <2>1. d \in Directives
    BY <1>8, DequeTypes DEF ReturnPreHandle, TypeInv, TypeOK, ThreadsHoldDirectives
  <2>2. t \in Members
    BY <1>0, <2>1, AdmittedType
  <2>3. /\ t.beingPreHandled = NoDirective /\ t.dialogRequestId = dp.dialogRequestId
        /\ \/ t.handlingQueue = dp.handlingQueue
           \/ t.handlingQueue = Append(dp.handlingQueue, d) /\ d = dp.beingPreHandled
    BY <1>0 DEF Admitted, Members, PreHandledIsReceived
  <2>4. Elements(t.handlingQueue) \subseteq Elements(dp.handlingQueue) \cup {dp.beingPreHandled}
    BY <1>0, <2>1, <2>3, AppendTypes DEF Members
  <2>5. dp'.handlingQueue = t.handlingQueue /\ dp'.beingPreHandled = NoDirective
        /\ dp'.dialogRequestId = dp.dialogRequestId
    BY <1>8, <2>2, <2>3 DEF ReturnPreHandle, Release, Members
  <2>6. DialogHolds(dp)'
    BY <1>0, <2>4, <2>5 DEF DialogHolds
  <2> QED BY <1>0, <1>8, <2>5, <2>6 DEF ReturnPreHandle, calls, DialogInv, FailureHolds, PreHandledIsReceived
<1>9. ASSUME NEW d \in Directives, SetCompleted(d) PROVE DialogInv'
  <2> DEFINE t == IF isRegistered THEN Removed(dp, d) ELSE dp
  <2>1. t \in Members /\ DialogHolds(t) /\ t.dialogRequestId = dp.dialogRequestId
    BY <1>0, RemovedType, RemovedDialog
  <2>2. t.beingPreHandled \in {dp.beingPreHandled, NoDirective}
    BY <1>0, BeingPreHandledKeptOrReset
  <2>3. Release(t) /\ UNCHANGED <<rx, failedDialogs>>
    BY <1>9 DEF SetCompleted
  <2> QED BY <1>0, <2>1, <2>2, <2>3, DialogKept DEF FailureHolds
<1>10. ASSUME NEW d \in Directives, SetFailed(d) PROVE DialogInv'
  <2>1. CASE ~isRegistered
    <3>1. Release(dp) /\ UNCHANGED <<rx, failedDialogs>>
      BY <1>10, <2>1 DEF SetFailed
    <3> QED BY <1>0, <3>1, DialogKept DEF FailureHolds
  <2>2. CASE isRegistered
    <3> DEFINE u == Removed(dp, d)
               t == Scrubbed(u, DialogOf[d])
    <3>1. u \in Members /\ DialogHolds(u) /\ u.dialogRequestId = dp.dialogRequestId
      BY <1>0, RemovedType, RemovedDialog
    <3>2. /\ t \in Members /\ DialogHolds(t)
          /\ DialogOf[d] # NoDialog => t.dialogRequestId # DialogOf[d]
          /\ t.dialogRequestId \in {NoDialog, dp.dialogRequestId}
      BY <3>1, ScrubbedType, ScrubbedDialog
    <3>3. t.beingPreHandled \in {dp.beingPreHandled, NoDirective}
      BY <1>0, <3>1, BeingPreHandledKeptOrReset
    <3>4. /\ Release(t) /\ UNCHANGED rx
          /\ failedDialogs' = failedDialogs \cup ({DialogOf[d]} \ {NoDialog})
      BY <1>10, <2>2 DEF SetFailed
    <3> HIDE DEF t
    <3>5. \A id \in failedDialogs' : t.dialogRequestId # id
      BY <1>0, <3>2, <3>4 DEF FailureHolds
    <3> QED BY <1>0, <3>2, <3>3, <3>4, <3>5, DialogKept
  <2> QED BY <2>1, <2>2
<1>11. ASSUME NEW reply \in Replies, ReturnHandle(reply) PROVE DialogInv'
  <2> DEFINE d == proc.directive
             u == Popped(dp, d)
             t == Handled(dp, d, reply)
  <2>1. u \in Members /\ DialogHolds(u) /\ u.dialogRequestId = dp.dialogRequestId
        /\ u.beingPreHandled = dp.beingPreHandled
    BY <1>0, PoppedType, PoppedDialog, BeingPreHandledKeptOrReset
  <2>2. /\ t \in Members /\ DialogHolds(t)
        /\ t.dialogRequestId \in {NoDialog, dp.dialogRequestId}
        /\ t.beingPreHandled \in {dp.beingPreHandled, NoDirective}
        /\ reply = "rejected" /\ DialogOf[d] # NoDialog => t.dialogRequestId # DialogOf[d]
    <3> HIDE DEF u
    <3>1. t = dp \/ t = u \/ t = Scrubbed(u, DialogOf[d])
      BY DEF Handled, Replies, u
    <3>2. reply = "rejected" => t = Scrubbed(u, DialogOf[d])
      BY DEF Handled, Replies, u
    <3> HIDE DEF t
    <3>3. CASE t = Scrubbed(u, DialogOf[d])
      BY <2>1, <3>3, ScrubbedType, ScrubbedDialog, BeingPreHandledKeptOrReset
    <3> QED BY <1>0, <2>1, <3>1, <3>2, <3>3
  <2>3. /\ dp' = [t EXCEPT !.notify = FALSE] /\ UNCHANGED rx
        /\ failedDialogs' = IF reply = "rejected" THEN failedDialogs \cup ({DialogOf[d]} \ {NoDialog})
                            ELSE failedDialogs
    BY <1>11 DEF ReturnHandle
  <2> HIDE DEF t, u
  <2>4. /\ dp'.handlingQueue = t.handlingQueue /\ dp'.beingPreHandled = t.beingPreHandled
        /\ dp'.dialogRequestId = t.dialogRequestId
    BY <2>2, <2>3 DEF Members
  <2>5. \A id \in failedDialogs' : t.dialogRequestId # id
    BY <1>0, <2>2, <2>3 DEF FailureHolds
  <2> QED BY <1>0, <2>2, <2>3, <2>4, <2>5 DEF DialogInv, DialogHolds, FailureHolds, PreHandledIsReceived
<1>12. CASE UNCHANGED <<dp, rx, failedDialogs>>
  BY <1>12 DEF DialogInv, DialogHolds, FailureHolds, PreHandledIsReceived
<1>13. CASE TakeCancelingQueue \/ StartHandling
  <2>1. /\ dp'.handlingQueue = dp.handlingQueue /\ dp'.beingPreHandled = dp.beingPreHandled
        /\ dp'.dialogRequestId = dp.dialogRequestId /\ UNCHANGED <<rx, failedDialogs>>
    BY <1>0, <1>13 DEF TakeCancelingQueue, StartHandling, Members, calls
  <2> QED BY <1>0, <2>1 DEF DialogInv, DialogHolds, FailureHolds, PreHandledIsReceived
<1>14. CASE Sleep \/ Cancel \/ Exit \/ EraseHandle \/ Join \/ UNCHANGED vars \/ \E d \in Directives : Refuse(d)
  BY <1>12, <1>14 DEF Sleep, Cancel, Exit, EraseHandle, Join, Refuse, vars, calls
<1> QED BY <1>1, <1>3, <1>4, <1>5, <1>6, <1>7, <1>8, <1>9, <1>10, <1>11, <1>13, <1>14
        DEF Next, Client, Receiving, Handler, Processing, Shutdown

LEMMA DialogInit == Init => DialogInv
BY DEF Init, DialogInv, DialogHolds, FailureHolds, PreHandledIsReceived, Elements

\* For every number of directives and dialogs: whatever calls overlap, no directive of a
\* dialog that ended waits to be handled.
THEOREM OnlyCurrentDialogWaits == Spec => []CurrentDialogOnly
<1>1. Init => TypeInv /\ DialogInv
  BY TypeInit, DialogInit
<1>2. TypeInv /\ DialogInv /\ [Next]_vars => TypeInv' /\ DialogInv'
  BY TypeStep, DialogStep
<1>3. DialogInv => CurrentDialogOnly
  BY DEF DialogInv, DialogHolds, CurrentDialogOnly, Queued
<1> QED BY <1>1, <1>2, <1>3, PTL DEF Spec

\* For every number of directives and dialogs: a dialog in which handling failed has
\* nothing current, waiting or being pre-handled until a client makes it current again.
THEOREM FailureEndsDialog == Spec => []FailedDialogsStayEnded
<1>1. Init => TypeInv /\ DialogInv
  BY TypeInit, DialogInit
<1>2. TypeInv /\ DialogInv /\ [Next]_vars => TypeInv' /\ DialogInv'
  BY TypeStep, DialogStep
<1>3. TypeInv /\ DialogInv => FailedDialogsStayEnded
  BY DialogAssumption DEF TypeInv, TypeOK, DialogInv, DialogHolds, FailureHolds,
     FailedDialogsStayEnded, Queued
<1> QED BY <1>1, <1>2, <1>3, PTL DEF Spec

-----------------------------------------------------------------------------
(* The front of the handling queue *)

\* FrontIsHandled, of a value s of the members and a set H of handled directives, with what
\* makes it inductive: the queue repeats no directive, and the one being pre-handled is
\* neither queued nor handled.
FrontHolds(s, H) ==
  /\ s.isHandling => s.handlingQueue # << >>
  /\ \A i \in DOMAIN s.handlingQueue : s.handlingQueue[i] \in H <=> (i = 1 /\ s.isHandling)
  /\ NoRepeats(s.handlingQueue)
  /\ s.beingPreHandled \notin Elements(s.handlingQueue) \cup H

\* t has nothing queued that s has not, and a marked front is the marked front of s.
Shrinks(s, t) ==
  /\ Elements(t.handlingQueue) \subseteq Elements(s.handlingQueue)
  /\ t.isHandling => s.isHandling /\ Head(t.handlingQueue) = Head(s.handlingQueue)
  /\ t.beingPreHandled \in {s.beingPreHandled, NoDirective}

\* Removing any set of directives, and with a handled front the mark, keeps FrontHolds.
LEMMA RemovalFront ==
  ASSUME NEW s \in Members, NEW t \in Members, NEW D, NEW H \in SUBSET Directives,
         FrontHolds(s, H),
         t.handlingQueue = Without(s.handlingQueue, D),
         t.isHandling = (s.isHandling /\ ~FrontIn(s, D)),
         t.beingPreHandled \in {s.beingPreHandled, NoDirective}
  PROVE  FrontHolds(t, H) /\ Shrinks(s, t)
<1> DEFINE q == s.handlingQueue
           r == t.handlingQueue
           E == Elements(q) \ D
<1>1. q \in Seq(Directives) /\ r \in Seq(Directives) /\ r = Keep(q, E)
  BY DEF Members, Without
<1>2. Elements(r) = Elements(q) \ D
  BY <1>1, DequeTypes
<1>3. /\ NoRepeats(r)
      /\ r # << >> /\ Head(q) \in E => Head(r) = Head(q)
      /\ \A k \in 2 .. Len(r) : \E i \in 2 .. Len(q) : r[k] = q[i]
  <2>1. NoRepeats(q)
    BY DEF FrontHolds
  <2> HIDE DEF q, r, E
  <2> QED BY <1>1, <2>1, KeepOrder
<1>4. s.isHandling \in BOOLEAN /\ t.isHandling \in BOOLEAN
  BY DEF Members
<1>5. /\ s.isHandling => q # << >>
      /\ \A i \in 1 .. Len(q) : q[i] \in H <=> (i = 1 /\ s.isHandling)
  BY <1>1 DEF FrontHolds
<1>6. t.isHandling <=> (s.isHandling /\ Head(q) \notin D)
  BY <1>4, <1>5 DEF FrontIn
<1> HIDE DEF q, r, E
<1>7. q # << >> => 1 \in 1 .. Len(q) /\ Head(q) = q[1] /\ Head(q) \in Elements(q)
  BY <1>1 DEF Elements
<1>8. r # << >> => 1 \in 1 .. Len(r) /\ Head(r) = r[1] /\ r[1] \in Elements(r)
  BY <1>1 DEF Elements
<1>9. t.isHandling => r # << >> /\ Head(r) = Head(q) /\ Head(q) \in H
  <2> SUFFICES ASSUME t.isHandling PROVE r # << >> /\ Head(r) = Head(q) /\ Head(q) \in H
    OBVIOUS
  <2>1. q # << >> /\ Head(q) \in Elements(q) \ D
    BY <1>5, <1>6, <1>7
  <2>2. r # << >>
    BY <1>2, <2>1 DEF Elements
  <2> QED BY <1>3, <1>5, <1>6, <1>7, <2>1, <2>2 DEF E
<1>10. ASSUME NEW k \in 1 .. Len(r) PROVE r[k] \in H <=> (k = 1 /\ t.isHandling)
  <2>1. r[k] \in Elements(q) \ D /\ r # << >>
    BY <1>1, <1>2 DEF Elements
  <2>2. CASE k \in 2 .. Len(r)
    BY <1>1, <1>3, <1>5, <2>2
  <2>3. CASE k = 1
    <3>1. ASSUME r[1] \in H PROVE t.isHandling
      <4>1. PICK i \in 1 .. Len(q) : r[1] = q[i]
        BY <1>1, <2>1, <2>3 DEF Elements
      <4>2. i = 1 /\ s.isHandling
        BY <1>5, <3>1, <4>1
      <4> QED BY <1>6, <1>7, <2>1, <2>3, <4>1, <4>2
    <3> QED BY <1>8, <1>9, <2>1, <2>3, <3>1
  <2> QED BY <1>1, <2>2, <2>3
<1>11. t.beingPreHandled \notin Elements(r) \cup H
  BY <1>1, <1>2, DirectiveAssumption, DequeTypes DEF FrontHolds, q
<1>12. FrontHolds(t, H)
  BY <1>1, <1>3, <1>9, <1>10, <1>11 DEF FrontHolds, r
<1>13. Shrinks(s, t)
  BY <1>2, <1>6, <1>9 DEF Shrinks, q, r
<1> QED BY <1>12, <1>13

\* The functions that run with m_mutex held keep FrontHolds.
LEMMA LockedFunctionsFront ==
  ASSUME NEW s \in Members, NEW H \in SUBSET Directives, FrontHolds(s, H), NEW x
  PROVE  /\ FrontHolds(Scrubbed(s, x), H) /\ Shrinks(s, Scrubbed(s, x))
         /\ FrontHolds(Removed(s, x), H) /\ Shrinks(s, Removed(s, x))
         /\ FrontHolds(AllForCancellation(s), H) /\ Shrinks(s, AllForCancellation(s))
<1>1. FrontHolds(Scrubbed(s, x), H) /\ Shrinks(s, Scrubbed(s, x))
  <2> DEFINE t == Scrubbed(s, x)
  <2>1. /\ t \in Members
        /\ t.handlingQueue = Without(s.handlingQueue, OfDialog(x))
        /\ t.isHandling = (s.isHandling /\ ~FrontIn(s, OfDialog(x)))
        /\ t.beingPreHandled \in {s.beingPreHandled, NoDirective}
    BY ScrubbedType DEF Scrubbed, Members
  <2> QED BY <2>1, RemovalFront
<1>2. FrontHolds(Removed(s, x), H) /\ Shrinks(s, Removed(s, x))
  <2> DEFINE t == Removed(s, x)
  <2>1. /\ t \in Members
        /\ t.handlingQueue = Without(s.handlingQueue, {x})
        /\ t.isHandling = (s.isHandling /\ ~FrontIn(s, {x}))
        /\ t.beingPreHandled \in {s.beingPreHandled, NoDirective}
    BY RemovedType DEF Removed, Members
  <2> QED BY <2>1, RemovalFront
<1>3. FrontHolds(AllForCancellation(s), H) /\ Shrinks(s, AllForCancellation(s))
  <2> DEFINE t == AllForCancellation(s)
  <2>1. t.handlingQueue = << >> /\ t.isHandling = FALSE /\ t.beingPreHandled = NoDirective
    BY DEF AllForCancellation, Members
  <2> QED BY <2>1, DirectiveAssumption DEF FrontHolds, NoRepeats, Elements, Shrinks
<1> QED BY <1>1, <1>2, <1>3

LEMMA WithDialogFront ==
  ASSUME NEW s \in Members, NEW H \in SUBSET Directives, FrontHolds(s, H), NEW id \in Ids
  PROVE  FrontHolds(WithDialog(s, id), H) /\ Shrinks(s, WithDialog(s, id))
<1> DEFINE u == Scrubbed(s, s.dialogRequestId)
<1>1. u \in Members /\ FrontHolds(u, H) /\ Shrinks(s, u)
  BY ScrubbedType, LockedFunctionsFront
<1> HIDE DEF u
<1>2. FrontHolds([u EXCEPT !.dialogRequestId = id], H) /\ Shrinks(s, [u EXCEPT !.dialogRequestId = id])
  BY <1>1 DEF Members, FrontHolds, Shrinks
<1>3. Shrinks(s, s)
  BY DEF Shrinks
<1> QED BY <1>2, <1>3 DEF WithDialog, u

\* Popping the handled front, or clearing the mark when another thread removed it.
LEMMA PoppedFront ==
  ASSUME NEW s \in Members, NEW H \in SUBSET Directives, FrontHolds(s, H), NEW d \in H,
         s.isHandling => Head(s.handlingQueue) = d
  PROVE  FrontHolds(Popped(s, d), H)
<1>1. PICK q : q = s.handlingQueue
  OBVIOUS
<1>2. PICK t : t = Popped(s, d)
  OBVIOUS
<1>3. PICK r : r = t.handlingQueue
  OBVIOUS
<1>4. /\ t.isHandling = FALSE /\ t.beingPreHandled = s.beingPreHandled
      /\ r = IF q # << >> /\ Head(q) = d THEN Tail(q) ELSE q
      /\ q \in Seq(Directives)
  BY <1>1, <1>2, <1>3 DEF Popped, Members
<1>5. /\ \A i \in DOMAIN q : q[i] \in H <=> (i = 1 /\ s.isHandling)
      /\ NoRepeats(q) /\ s.beingPreHandled \notin Elements(q) \cup H
  BY <1>1 DEF FrontHolds
<1>6. (\A i \in DOMAIN r : r[i] \notin H) /\ NoRepeats(r) /\ Elements(r) \subseteq Elements(q)
  <2>1. CASE q # << >> /\ Head(q) = d
    <3>1. /\ Len(q) \in Nat \ {0} /\ Len(r) = Len(q) - 1
          /\ DOMAIN r = 1 .. Len(r) /\ DOMAIN q = 1 .. Len(q)
          /\ \A i \in 1 .. Len(r) : r[i] = q[i + 1] /\ i + 1 \in 2 .. Len(q)
      BY <1>4, <2>1
    <3>2. \A i \in 1 .. Len(r) : r[i] \notin H
      BY <1>5, <3>1
    <3>3. NoRepeats(r)
      <4> SUFFICES ASSUME NEW i \in 1 .. Len(r), NEW j \in 1 .. Len(r), r[i] = r[j] PROVE i = j
        BY <3>1 DEF NoRepeats
      <4>1. i + 1 \in DOMAIN q /\ j + 1 \in DOMAIN q /\ q[i + 1] = q[j + 1]
        BY <3>1
      <4>2. i + 1 = j + 1
        BY <1>5, <4>1 DEF NoRepeats
      <4> QED BY <4>2
    <3>4. \A i \in 1 .. Len(r) : i + 1 \in 1 .. Len(q)
      BY <3>1
    <3>5. Elements(r) \subseteq Elements(q)
      BY <3>1, <3>4 DEF Elements
    <3> QED BY <3>1, <3>2, <3>3, <3>5
  <2>2. CASE ~(q # << >> /\ Head(q) = d)
    <3>1. r = q
      BY <1>4, <2>2
    <3>2. ~s.isHandling
      BY <1>1, <2>2 DEF FrontHolds
    <3> QED BY <1>5, <3>1, <3>2
  <2> QED BY <2>1, <2>2
<1> QED BY <1>2, <1>3, <1>4, <1>5, <1>6 DEF FrontHolds

\* Queueing the directive that was being pre-handled, or not.
LEMMA AdmittedFront ==
  ASSUME NEW s \in Members, NEW H \in SUBSET Directives, FrontHolds(s, H),
         NEW d \in Directives, s.beingPreHandled \in {d, NoDirective}, NEW b \in BOOLEAN
  PROVE  FrontHolds(Admitted(s, d, b), H)
<1>1. PICK q : q = s.handlingQueue
  OBVIOUS
<1>2. PICK t : t = Admitted(s, d, b)
  OBVIOUS
<1>3. PICK r : r = t.handlingQueue
  OBVIOUS
<1>4. /\ t.isHandling = s.isHandling /\ t.beingPreHandled = NoDirective
      /\ r = q \/ (r = Append(q, d) /\ s.beingPreHandled = d)
      /\ q \in Seq(Directives)
  BY <1>1, <1>2, <1>3 DEF Admitted, Members
<1>5. /\ \A i \in DOMAIN q : q[i] \in H <=> (i = 1 /\ s.isHandling)
      /\ NoRepeats(q) /\ s.beingPreHandled \notin Elements(q) \cup H
      /\ s.isHandling => q # << >>
  BY <1>1 DEF FrontHolds
<1>6. NoDirective \notin Elements(r) \cup H
  <2>1. Elements(r) \subseteq Directives
    BY <1>4, AppendTypes, DequeTypes
  <2> QED BY <2>1, DirectiveAssumption
<1>7. /\ \A i \in DOMAIN r : r[i] \in H <=> (i = 1 /\ s.isHandling)
      /\ NoRepeats(r)
      /\ s.isHandling => r # << >>
  <2>1. CASE r = q
    BY <1>5, <2>1
  <2>2. CASE r = Append(q, d) /\ s.beingPreHandled = d
    <3>1. /\ Len(q) \in Nat /\ Len(r) = Len(q) + 1
          /\ DOMAIN r = 1 .. Len(r) /\ DOMAIN q = 1 .. Len(q)
          /\ \A i \in 1 .. Len(q) : r[i] = q[i]
          /\ r[Len(q) + 1] = d
          /\ q # << >> => Len(q) # 0
      BY <1>4, <2>2
    <3>2. \A i \in 1 .. Len(r) : i \in 1 .. Len(q) \/ i = Len(q) + 1
      BY <3>1
    <3>3. d \notin H /\ \A i \in 1 .. Len(q) : q[i] # d
      BY <1>5, <2>2, <3>1 DEF Elements
    <3>4. NoRepeats(r)
      BY <1>5, <3>1, <3>2, <3>3 DEF NoRepeats
    <3>5. ASSUME NEW i \in 1 .. Len(r) PROVE r[i] \in H <=> (i = 1 /\ s.isHandling)
      <4>1. CASE i \in 1 .. Len(q)
        BY <1>5, <3>1, <4>1
      <4>2. CASE i = Len(q) + 1
        BY <1>5, <3>1, <3>3, <4>2
      <4> QED BY <3>2, <4>1, <4>2
    <3> QED BY <3>1, <3>4, <3>5
  <2> QED BY <1>4, <2>1, <2>2
<1> QED BY <1>2, <1>3, <1>4, <1>6, <1>7 DEF FrontHolds

\* What the calls have in common with the members: only offered directives are queued,
\* handled or being pre-handled; the marked front is the directive of the processing thread
\* while it calls the handler.
CallsAgree ==
  /\ Elements(dp.handlingQueue) \cup handled \cup ({dp.beingPreHandled} \ {NoDirective})
       \subseteq Elements(offered)
  /\ proc.pc = "handling" /\ dp.isHandling => Head(dp.handlingQueue) = proc.directive

FrontInv == FrontHolds(dp, handled) /\ CallsAgree /\ PreHandledIsReceived(dp)

\* A critical section that ends at s keeps the invariant when s shrinks the queue.
LEMMA FrontKept ==
  ASSUME TypeInv, FrontInv, NEW s \in Members, Release(s), UNCHANGED <<rx, handled, offered>>,
         FrontHolds(s, handled), Shrinks(dp, s)
  PROVE  FrontInv'
<1>1. /\ dp'.handlingQueue = s.handlingQueue /\ dp'.beingPreHandled = s.beingPreHandled
      /\ dp'.isHandling = s.isHandling
  BY DEF Release, Members
<1>2. FrontHolds(dp, handled)'
  BY <1>1 DEF FrontHolds
<1>3. proc'.pc = "handling" => proc.pc = "handling" /\ proc'.directive = proc.directive
  BY ReleaseType
<1> QED BY <1>1, <1>2, <1>3 DEF FrontInv, CallsAgree, PreHandledIsReceived, Shrinks

LEMMA FrontStep == TypeInv /\ FrontInv /\ [Next]_vars => FrontInv'
<1> SUFFICES ASSUME TypeInv, FrontInv, [Next]_vars PROVE FrontInv'
  OBVIOUS
<1>0. /\ dp \in Members /\ handled \in SUBSET Directives
      /\ FrontHolds(dp, handled) /\ CallsAgree /\ PreHandledIsReceived(dp)
  BY DEF TypeInv, TypeOK, FrontInv
<1>1. ASSUME NEW id \in Ids, SetDialogRequestId(id) PROVE FrontInv'
  <2>1. WithDialog(dp, id) \in Members
    BY <1>0, WithDialogType
  <2>2. FrontHolds(WithDialog(dp, id), handled) /\ Shrinks(dp, WithDialog(dp, id))
    BY <1>0, WithDialogFront
  <2>3. Release(WithDialog(dp, id)) /\ UNCHANGED <<rx, handled, offered>>
    BY <1>1 DEF SetDialogRequestId
  <2> QED BY <2>1, <2>2, <2>3, FrontKept
<1>2. CASE Disable
  <2> DEFINE u == AllForCancellation(dp)
             t == [u EXCEPT !.isEnabled = FALSE, !.notify = TRUE]
  <2>1. u \in Members /\ FrontHolds(u, handled) /\ Shrinks(dp, u)
    BY <1>0, AllForCancellationType, LockedFunctionsFront
  <2>2. Release(t) /\ UNCHANGED <<rx, handled, offered>>
    BY <1>2 DEF Disable, calls
  <2> HIDE DEF u
  <2>3. t \in Members /\ FrontHolds(t, handled) /\ Shrinks(dp, t)
    BY <2>1 DEF Members, FrontHolds, Shrinks
  <2> QED BY <2>2, <2>3, FrontKept
<1>3. CASE QueueAll
  <2> DEFINE u == AllForCancellation(dp)
             t == [u EXCEPT !.isShuttingDown = TRUE, !.notify = TRUE]
  <2>1. u \in Members /\ FrontHolds(u, handled) /\ Shrinks(dp, u)
    BY <1>0, AllForCancellationType, LockedFunctionsFront
  <2>2. Release(t) /\ UNCHANGED <<rx, handled, offered>>
    BY <1>3 DEF QueueAll, calls
  <2> HIDE DEF u
  <2>3. t \in Members /\ FrontHolds(t, handled) /\ Shrinks(dp, t)
    BY <2>1 DEF Members, FrontHolds, Shrinks
  <2> QED BY <2>2, <2>3, FrontKept
<1>4. CASE Enable
  <2> DEFINE t == [dp EXCEPT !.isEnabled = TRUE]
  <2>1. t \in Members /\ FrontHolds(t, handled) /\ Shrinks(dp, t)
    BY <1>0 DEF Members, FrontHolds, Shrinks
  <2>2. Release(t) /\ UNCHANGED <<rx, handled, offered>>
    BY <1>4 DEF Enable, calls
  <2> QED BY <2>1, <2>2, FrontKept
<1>5. ASSUME NEW d \in Directives, Accept(d) PROVE FrontInv'
  <2>1. /\ dp'.handlingQueue = dp.handlingQueue /\ dp'.beingPreHandled = d
        /\ dp'.isHandling = dp.isHandling
    BY <1>0, <1>5 DEF Accept, Release, Members
  <2>2. Elements(offered') = Elements(offered) \cup {d} /\ handled' = handled /\ d \notin Elements(offered)
    BY <1>5, AppendTypes DEF Accept, TypeInv, TypeOK
  <2>3. FrontHolds(dp, handled)'
    BY <1>0, <2>1, <2>2, DirectiveAssumption DEF FrontHolds, CallsAgree
  <2>4. rx'.pc = "routing" /\ rx'.directive = d
    BY <1>5 DEF Accept
  <2>5. proc'.pc = "handling" => proc.pc = "handling" /\ proc'.directive = proc.directive
    BY <1>5 DEF Accept, Release, TypeInv, TypeOK
  <2> QED BY <1>0, <2>1, <2>2, <2>3, <2>4, <2>5 DEF FrontInv, CallsAgree, PreHandledIsReceived
<1>6. CASE EnterPreHandle
  BY <1>0, <1>6 DEF EnterPreHandle, TypeInv, TypeOK, FrontInv, FrontHolds, CallsAgree, PreHandledIsReceived
<1>7. ASSUME NEW b \in BOOLEAN, ReturnPreHandle(b) PROVE FrontInv'
  <2> DEFINE d == rx.directive
             t == Admitted(dp, d, b)
  <2>1. d \in Directives /\ d \in Elements(offered)
    BY <1>7, DequeTypes DEF ReturnPreHandle, TypeInv, TypeOK, ThreadsHoldDirectives
  <2>2. t \in Members
    BY <1>0, <2>1, AdmittedType
  <2>3. FrontHolds(t, handled)
    BY <1>0, <2>1, AdmittedFront DEF PreHandledIsReceived
  <2>4. /\ t.beingPreHandled = NoDirective /\ t.isHandling = dp.isHandling
        /\ t.handlingQueue \in {dp.handlingQueue, Append(dp.handlingQueue, d)}
    BY <1>0 DEF Admitted, Members
  <2>5. /\ dp'.handlingQueue = t.handlingQueue /\ dp'.beingPreHandled = NoDirective
        /\ dp'.isHandling = dp.isHandling
    BY <1>7, <2>2, <2>4 DEF ReturnPreHandle, Release, Members
  <2>6. UNCHANGED <<handled, offered>>
    BY <1>7 DEF ReturnPreHandle, calls
  <2> HIDE DEF t
  <2>7. FrontHolds(dp, handled)'
    BY <2>3, <2>4, <2>5, <2>6 DEF FrontHolds
  <2>8. Elements(t.handlingQueue) \subseteq Elements(dp.handlingQueue) \cup {d}
    BY <1>0, <2>1, <2>4, AppendTypes DEF Members
  <2>9. dp.isHandling => Head(t.handlingQueue) = Head(dp.handlingQueue)
    BY <1>0, <2>1, <2>4 DEF FrontHolds, Members
  <2>10. proc'.pc = "handling" => proc.pc = "handling" /\ proc'.directive = proc.directive
    BY <1>7 DEF ReturnPreHandle, Release, TypeInv, TypeOK
  <2> QED BY <1>0, <2>1, <2>5, <2>6, <2>7, <2>8, <2>9, <2>10 DEF FrontInv, CallsAgree, PreHandledIsReceived
<1>8. ASSUME NEW d \in Directives, SetCompleted(d) PROVE FrontInv'
  <2> DEFINE t == IF isRegistered THEN Removed(dp, d) ELSE dp
  <2>1. t \in Members /\ FrontHolds(t, handled) /\ Shrinks(dp, t)
    BY <1>0, RemovedType, LockedFunctionsFront DEF Shrinks
  <2>2. Release(t) /\ UNCHANGED <<rx, handled, offered>>
    BY <1>8 DEF SetCompleted
  <2> QED BY <2>1, <2>2, FrontKept
<1>9. ASSUME NEW d \in Directives, SetFailed(d) PROVE FrontInv'
  <2> DEFINE u == Removed(dp, d)
             v == Scrubbed(u, DialogOf[d])
             t == IF isRegistered THEN v ELSE dp
  <2>1. u \in Members /\ FrontHolds(u, handled) /\ Shrinks(dp, u)
    BY <1>0, RemovedType, LockedFunctionsFront
  <2>2. v \in Members /\ FrontHolds(v, handled) /\ Shrinks(u, v)
    BY <1>0, <2>1, ScrubbedType, LockedFunctionsFront
  <2>3. Release(t) /\ UNCHANGED <<rx, handled, offered>>
    BY <1>9 DEF SetFailed
  <2>4. t \in Members /\ FrontHolds(t, handled) /\ Shrinks(dp, t)
    <3> HIDE DEF u, v
    <3> QED BY <1>0, <2>1, <2>2 DEF Shrinks
  <2> QED BY <2>3, <2>4, FrontKept
<1>10. CASE StartHandling
  <2> DEFINE q == dp.handlingQueue
             d == Head(q)
  <2>1. q \in Seq(Directives) /\ q # << >> /\ dp.isHandling = FALSE
    BY <1>0, <1>10 DEF StartHandling, Members
  <2>2. 1 \in DOMAIN q /\ d = q[1] /\ d \in Elements(q)
    BY <2>1 DEF Elements
  <2>3. /\ dp'.handlingQueue = q /\ dp'.beingPreHandled = dp.beingPreHandled
        /\ dp'.isHandling = TRUE /\ handled' = handled \cup {d}
        /\ proc'.directive = d /\ UNCHANGED <<rx, offered>>
    BY <1>0, <1>10 DEF StartHandling, Members, TypeInv, TypeOK
  <2>4. \A i \in DOMAIN q : q[i] \in handled' <=> i = 1
    BY <1>0, <2>1, <2>2, <2>3 DEF FrontHolds, NoRepeats
  <2> HIDE DEF q, d
  <2>5. FrontHolds(dp, handled)'
    BY <1>0, <2>1, <2>2, <2>3, <2>4 DEF FrontHolds, q
  <2> QED BY <1>0, <2>2, <2>3, <2>5 DEF FrontInv, CallsAgree, PreHandledIsReceived, q, d
<1>11. ASSUME NEW reply \in Replies, ReturnHandle(reply) PROVE FrontInv'
  <2> DEFINE d == proc.directive
             u == Popped(dp, d)
             v == Scrubbed(u, DialogOf[d])
             t == Handled(dp, d, reply)
  <2>1. d \in handled /\ dp.isHandling => Head(dp.handlingQueue) = d
    BY <1>0, <1>11 DEF ReturnHandle, CallsAgree, TypeInv, ThreadsHoldDirectives
  <2>2. u \in Members /\ FrontHolds(u, handled)
    BY <1>0, <1>11, <2>1, PoppedType, PoppedFront DEF ReturnHandle, TypeInv, ThreadsHoldDirectives
  <2>3. v \in Members /\ FrontHolds(v, handled) /\ Shrinks(u, v)
    BY <1>0, <2>2, ScrubbedType, LockedFunctionsFront
  <2>4. /\ u.handlingQueue \in {dp.handlingQueue, Tail(dp.handlingQueue)}
        /\ u.handlingQueue # dp.handlingQueue => dp.handlingQueue # << >>
        /\ u.beingPreHandled = dp.beingPreHandled /\ u.isHandling = FALSE
    BY <1>0 DEF Popped, Members
  <2>5. Elements(u.handlingQueue) \subseteq Elements(dp.handlingQueue)
    BY <1>0, <2>4 DEF Elements, Members
  <2>6. t = dp \/ t = u \/ t = v
    BY DEF Handled, Replies
  <2>7. /\ dp' = [t EXCEPT !.notify = FALSE] /\ UNCHANGED <<rx, handled, offered>>
        /\ proc'.pc # "handling"
    BY <1>11 DEF ReturnHandle, TypeInv, TypeOK
  <2> HIDE DEF t, u, v
  <2>8. /\ t \in Members /\ FrontHolds(t, handled)
        /\ Elements(t.handlingQueue) \subseteq Elements(dp.handlingQueue)
        /\ t.beingPreHandled \in {dp.beingPreHandled, NoDirective}
    BY <1>0, <2>2, <2>3, <2>4, <2>5, <2>6 DEF Shrinks
  <2>9. /\ dp'.handlingQueue = t.handlingQueue /\ dp'.beingPreHandled = t.beingPreHandled
        /\ dp'.isHandling = t.isHandling
    BY <2>7, <2>8 DEF Members
  <2>10. FrontHolds(dp, handled)'
    BY <2>7, <2>8, <2>9 DEF FrontHolds
  <2> QED BY <1>0, <2>7, <2>8, <2>9, <2>10 DEF FrontInv, CallsAgree, PreHandledIsReceived
<1>12. CASE TakeCancelingQueue
  <2>1. /\ dp'.handlingQueue = dp.handlingQueue /\ dp'.beingPreHandled = dp.beingPreHandled
        /\ dp'.isHandling = dp.isHandling /\ UNCHANGED <<rx, handled, offered>>
        /\ proc'.pc = "canceling"
    BY <1>0, <1>12 DEF TakeCancelingQueue, Members, calls, TypeInv, TypeOK
  <2> QED BY <1>0, <2>1 DEF FrontInv, FrontHolds, CallsAgree, PreHandledIsReceived
<1>13. ASSUME UNCHANGED <<dp, rx, handled, offered>>,
              proc'.pc = "handling" => proc' = proc
       PROVE  FrontInv'
  BY <1>0, <1>13 DEF FrontInv, FrontHolds, CallsAgree, PreHandledIsReceived
<1>14. CASE Sleep \/ Cancel \/ Exit
  <2>1. UNCHANGED <<dp, rx, handled, offered>> /\ proc'.pc # "handling"
    BY <1>14 DEF Sleep, Cancel, Exit, calls, TypeInv, TypeOK
  <2> QED BY <1>13, <2>1
<1>15. CASE EraseHandle \/ Join \/ UNCHANGED vars \/ \E d \in Directives : Refuse(d)
  BY <1>13, <1>15 DEF EraseHandle, Join, Refuse, vars, calls
<1> QED BY <1>1, <1>2, <1>3, <1>4, <1>5, <1>6, <1>7, <1>8, <1>9, <1>10, <1>11, <1>12, <1>14, <1>15
        DEF Next, Client, Receiving, Handler, Processing, Shutdown

LEMMA FrontInit == Init => FrontInv
BY DirectiveAssumption DEF Init, FrontInv, FrontHolds, CallsAgree, PreHandledIsReceived, Elements, NoRepeats

\* For every number of directives: the mark m_isHandlingDirective says exactly that the
\* front directive was passed to its handler, so none is handled twice or skipped.
THEOREM MarkIsFront == Spec => []FrontIsHandled
<1>1. Init => TypeInv /\ FrontInv
  BY TypeInit, FrontInit
<1>2. TypeInv /\ FrontInv /\ [Next]_vars => TypeInv' /\ FrontInv'
  BY TypeStep, FrontStep
<1>3. FrontInv => FrontIsHandled
  BY DEF FrontInv, FrontHolds, FrontIsHandled
<1> QED BY <1>1, <1>2, <1>3, PTL DEF Spec

-----------------------------------------------------------------------------
(* Disabling *)

\* DisabledQueuesNothing, of a value of the members.
DisabledHolds(s) ==
  ~s.isEnabled => Elements(s.handlingQueue) = {} /\ s.beingPreHandled = NoDirective

\* t has nothing that can still be handled but what s has.
Loses(s, t) ==
  /\ Elements(t.handlingQueue) \subseteq Elements(s.handlingQueue)
  /\ t.beingPreHandled \in {s.beingPreHandled, NoDirective}
  /\ t.isEnabled = s.isEnabled

\* What only loses directives keeps a disabled processor empty.
LEMMA LosesKeeps ==
  ASSUME NEW s, NEW t, DisabledHolds(s), Loses(s, t)
  PROVE  DisabledHolds(t)
BY DEF DisabledHolds, Loses

\* Scrubs, removals and the end of handling only lose directives.
LEMMA LockedFunctionsLose ==
  ASSUME NEW s \in Members, NEW x
  PROVE  /\ Loses(s, Scrubbed(s, x))
         /\ Loses(s, Removed(s, x))
         /\ Loses(s, WithDialog(s, x))
         /\ Loses(s, Popped(s, x))
<1>1. ASSUME NEW y PROVE Loses(s, Scrubbed(s, y))
  <2> PICK t : t = Scrubbed(s, y)
    OBVIOUS
  <2>1. t.handlingQueue = Without(s.handlingQueue, OfDialog(y)) /\ t.isEnabled = s.isEnabled
    BY DEF Scrubbed, Members
  <2>2. t.beingPreHandled \in {s.beingPreHandled, NoDirective}
    BY DEF Scrubbed, Members
  <2> QED BY <2>1, <2>2, DequeTypes DEF Loses, Members
<1>2. Loses(s, Removed(s, x))
  <2> PICK t : t = Removed(s, x)
    OBVIOUS
  <2>1. t.handlingQueue = Without(s.handlingQueue, {x}) /\ t.isEnabled = s.isEnabled
    BY DEF Removed, Members
  <2>2. t.beingPreHandled \in {s.beingPreHandled, NoDirective}
    BY DEF Removed, Members
  <2> QED BY <2>1, <2>2, DequeTypes DEF Loses, Members
<1>3. Loses(s, WithDialog(s, x))
  <2> PICK u : u = Scrubbed(s, s.dialogRequestId)
    OBVIOUS
  <2>1. Loses(s, u) /\ u \in Members
    BY <1>1, ScrubbedType
  <2>2. WithDialog(s, x) = IF x = s.dialogRequestId THEN s ELSE [u EXCEPT !.dialogRequestId = x]
    BY DEF WithDialog
  <2>3. Loses(s, s) /\ Loses(s, [u EXCEPT !.dialogRequestId = x])
    BY <2>1 DEF Loses, Members
  <2> QED BY <2>2, <2>3
<1>4. Loses(s, Popped(s, x))
  <2> PICK t : t = Popped(s, x)
    OBVIOUS
  <2>1. /\ t.handlingQueue \in {s.handlingQueue, Tail(s.handlingQueue)}
        /\ t.handlingQueue # s.handlingQueue => s.handlingQueue # << >>
        /\ t.beingPreHandled = s.beingPreHandled /\ t.isEnabled = s.isEnabled
    BY DEF Popped, Members
  <2>2. Elements(t.handlingQueue) \subseteq Elements(s.handlingQueue)
    BY <2>1 DEF Elements, Members
  <2> QED BY <2>1, <2>2 DEF Loses
<1> QED BY <1>1, <1>2, <1>3, <1>4

\* The invariant of the members at which a critical section ends is the invariant after it.
LEMMA DisabledKept ==
  ASSUME NEW s \in Members, dp' = [s EXCEPT !.notify = FALSE], DisabledHolds(s)
  PROVE  DisabledHolds(dp)'
BY DEF DisabledHolds, Members

LEMMA DisabledStep == TypeInv /\ DisabledHolds(dp) /\ [Next]_vars => DisabledHolds(dp)'
<1> SUFFICES ASSUME TypeInv, DisabledHolds(dp), [Next]_vars PROVE DisabledHolds(dp)'
  OBVIOUS
<1>0. dp \in Members
  BY DEF TypeInv, TypeOK
<1>1. ASSUME NEW s \in Members, dp' = [s EXCEPT !.notify = FALSE], Loses(dp, s) PROVE DisabledHolds(dp)'
  BY <1>1, LosesKeeps, DisabledKept
<1>2. ASSUME NEW id \in Ids, SetDialogRequestId(id) PROVE DisabledHolds(dp)'
  <2> PICK t : t = WithDialog(dp, id)
    OBVIOUS
  <2>1. t \in Members /\ Loses(dp, t) /\ dp' = [t EXCEPT !.notify = FALSE]
    BY <1>0, <1>2, WithDialogType, LockedFunctionsLose DEF SetDialogRequestId, Release
  <2> QED BY <1>1, <2>1
<1>3. CASE Disable \/ QueueAll
  <2> PICK t : t = AllForCancellation(dp)
    OBVIOUS
  <2>1. t \in Members /\ t.handlingQueue = << >> /\ t.beingPreHandled = NoDirective
    BY <1>0, AllForCancellationType DEF AllForCancellation, Members
  <2>2. \/ dp' = [[t EXCEPT !.isEnabled = FALSE, !.notify = TRUE] EXCEPT !.notify = FALSE]
        \/ dp' = [[t EXCEPT !.isShuttingDown = TRUE, !.notify = TRUE] EXCEPT !.notify = FALSE]
    BY <1>3 DEF Disable, QueueAll, Release
  <2>3. dp'.handlingQueue = << >> /\ dp'.beingPreHandled = NoDirective
    BY <2>1, <2>2 DEF Members
  <2> QED BY <2>3 DEF DisabledHolds, Elements
<1>4. CASE Enable
  BY <1>0, <1>4 DEF Enable, Release, DisabledHolds, Members
<1>5. ASSUME NEW d \in Directives, Accept(d) PROVE DisabledHolds(dp)'
  BY <1>0, <1>5 DEF Accept, Acceptable, Release, DisabledHolds, Members
<1>6. ASSUME NEW wasHandled \in BOOLEAN, ReturnPreHandle(wasHandled) PROVE DisabledHolds(dp)'
  <2> PICK t : t = Admitted(dp, rx.directive, wasHandled)
    OBVIOUS
  <2>1. /\ dp' = [t EXCEPT !.notify = FALSE]
        /\ t.isEnabled = dp.isEnabled /\ t.beingPreHandled = NoDirective
        /\ dp.beingPreHandled = NoDirective => t.handlingQueue = dp.handlingQueue
    BY <1>0, <1>6 DEF ReturnPreHandle, Release, Admitted, Members
  <2>2. /\ dp'.isEnabled = dp.isEnabled /\ dp'.beingPreHandled = NoDirective
        /\ dp.beingPreHandled = NoDirective => dp'.handlingQueue = dp.handlingQueue
    BY <1>0, <2>1 DEF Admitted, Members
  <2> QED BY <2>2 DEF DisabledHolds
<1>7. ASSUME NEW d \in Directives, SetCompleted(d) \/ SetFailed(d) PROVE DisabledHolds(dp)'
  <2> PICK u : u = Removed(dp, d)
    OBVIOUS
  <2>1. u \in Members /\ Loses(dp, u)
    BY <1>0, RemovedType, LockedFunctionsLose
  <2> PICK t : t = Scrubbed(u, DialogOf[d])
    OBVIOUS
  <2>2. t \in Members /\ Loses(u, t)
    BY <2>1, ScrubbedType, LockedFunctionsLose
  <2>3. Loses(dp, t) /\ Loses(dp, dp)
    BY <2>1, <2>2 DEF Loses
  <2>4. \E s \in {dp, u, t} : dp' = [s EXCEPT !.notify = FALSE]
    BY <1>7 DEF SetCompleted, SetFailed, Release
  <2> QED BY <1>0, <1>1, <2>1, <2>2, <2>3, <2>4
<1>8. ASSUME NEW reply \in Replies, ReturnHandle(reply) PROVE DisabledHolds(dp)'
  <2> PICK d : d = proc.directive
    OBVIOUS
  <2> PICK u : u = Popped(dp, d)
    OBVIOUS
  <2>1. u \in Members /\ Loses(dp, u)
    BY <1>0, PoppedType, LockedFunctionsLose
  <2> PICK t : t = Scrubbed(u, DialogOf[d])
    OBVIOUS
  <2>2. t \in Members /\ Loses(u, t)
    BY <2>1, ScrubbedType, LockedFunctionsLose
  <2>3. Loses(dp, t) /\ Loses(dp, dp)
    BY <2>1, <2>2 DEF Loses
  <2>4. \E s \in {dp, u, t} : dp' = [s EXCEPT !.notify = FALSE]
    BY <1>8 DEF ReturnHandle, Handled, Replies
  <2> QED BY <1>0, <1>1, <2>1, <2>2, <2>3, <2>4
<1>9. CASE TakeCancelingQueue \/ StartHandling
  BY <1>0, <1>9 DEF TakeCancelingQueue, StartHandling, DisabledHolds, Members
<1>10. CASE UNCHANGED dp
  BY <1>10 DEF DisabledHolds
<1>11. CASE \/ EnterPreHandle \/ Sleep \/ Cancel \/ Exit \/ EraseHandle \/ Join
            \/ UNCHANGED vars \/ \E d \in Directives : Refuse(d)
  BY <1>10, <1>11 DEF EnterPreHandle, Sleep, Cancel, Exit, EraseHandle, Join, Refuse, vars
<1> QED BY <1>2, <1>3, <1>4, <1>5, <1>6, <1>7, <1>8, <1>9, <1>11
        DEF Next, Client, Receiving, Handler, Processing, Shutdown

\* For every number of directives: nothing is left to be handled in a disabled processor,
\* in whatever call of onDirective() disable() came.
THEOREM DisabledIsEmpty == Spec => []DisabledQueuesNothing
<1>1. Init => TypeInv /\ DisabledHolds(dp)
  BY TypeInit DEF Init, DisabledHolds
<1>2. TypeInv /\ DisabledHolds(dp) /\ [Next]_vars => TypeInv' /\ DisabledHolds(dp)'
  BY TypeStep, DisabledStep
<1>3. DisabledHolds(dp) => DisabledQueuesNothing
  BY DEF DisabledHolds, DisabledQueuesNothing, Queued
<1> QED BY <1>1, <1>2, <1>3, PTL DEF Spec

-----------------------------------------------------------------------------
(* Which directives a step moves *)

\* The directive that is marked as being handled, if any.
Front(s) == IF s.isHandling THEN Head(s.handlingQueue) ELSE NoDirective

\* r has its elements in the order in which q has them.
InOrderOf(r, q) ==
  \A k, l \in DOMAIN r : k < l => \E i, j \in DOMAIN q : i < j /\ r[k] = q[i] /\ r[l] = q[j]

\* From s to t the directives of X are taken out, and of the others those of D that were
\* active are queued for cancellation.
Moves(s, t, X, D) ==
  /\ Elements(t.handlingQueue) = Elements(s.handlingQueue) \ (X \cup D)
  /\ Elements(t.cancelingQueue) =
       (Elements(s.cancelingQueue) \cup ((Elements(s.handlingQueue) \cup {s.beingPreHandled}) \cap D)) \ X
  /\ t.beingPreHandled = IF s.beingPreHandled \in X \cup D THEN NoDirective ELSE s.beingPreHandled
  /\ Front(t) = IF Front(s) \in X \cup D THEN NoDirective ELSE Front(s)
  /\ InOrderOf(t.handlingQueue, s.handlingQueue)

\* Concatenation joins the elements.
LEMMA ConcatElements ==
  ASSUME NEW p \in Seq(Directives), NEW q \in Seq(Directives)
  PROVE  p \o q \in Seq(Directives) /\ Elements(p \o q) = Elements(p) \cup Elements(q)
<1>1. PICK r : r = p \o q
  OBVIOUS
<1>2. /\ r \in Seq(Directives) /\ Len(p) \in Nat /\ Len(q) \in Nat
      /\ DOMAIN p = 1 .. Len(p) /\ DOMAIN q = 1 .. Len(q) /\ DOMAIN r = 1 .. (Len(p) + Len(q))
      /\ \A i \in 1 .. Len(p) : r[i] = p[i]
      /\ \A i \in 1 .. Len(q) : r[Len(p) + i] = q[i]
  BY <1>1
<1>3. Elements(r) \subseteq Elements(p) \cup Elements(q)
  <2> SUFFICES ASSUME NEW i \in 1 .. (Len(p) + Len(q)) PROVE r[i] \in Elements(p) \cup Elements(q)
    BY <1>2 DEF Elements
  <2>1. CASE i \in 1 .. Len(p)
    BY <1>2, <2>1 DEF Elements
  <2>2. CASE i \notin 1 .. Len(p)
    <3>1. i - Len(p) \in 1 .. Len(q) /\ i = Len(p) + (i - Len(p))
      BY <1>2, <2>2
    <3>2. r[i] = q[i - Len(p)]
      BY <1>2, <3>1
    <3> QED BY <1>2, <3>1, <3>2 DEF Elements
  <2> QED BY <2>1, <2>2
<1>4. Elements(p) \subseteq Elements(r)
  BY <1>2 DEF Elements
<1>5. Elements(q) \subseteq Elements(r)
  <2> SUFFICES ASSUME NEW i \in 1 .. Len(q) PROVE q[i] \in Elements(r)
    BY <1>2 DEF Elements
  <2>1. Len(p) + i \in 1 .. (Len(p) + Len(q))
    BY <1>2
  <2> QED BY <1>2, <2>1 DEF Elements
<1> QED BY <1>1, <1>2, <1>3, <1>4, <1>5

\* A subsequence of a subsequence is in the same order.
LEMMA InOrderTransitive ==
  ASSUME NEW p, NEW q, NEW r, InOrderOf(p, q), InOrderOf(q, r)
  PROVE  InOrderOf(p, r)
<1> SUFFICES ASSUME NEW k \in DOMAIN p, NEW l \in DOMAIN p, k < l
             PROVE  \E i, j \in DOMAIN r : i < j /\ p[k] = r[i] /\ p[l] = r[j]
  BY DEF InOrderOf
<1>1. PICK i, j \in DOMAIN q : i < j /\ p[k] = q[i] /\ p[l] = q[j]
  BY DEF InOrderOf
<1> QED BY <1>1 DEF InOrderOf

\* Keep and Without keep the order; so does taking the front away.
LEMMA DequeOrder ==
  ASSUME NEW q \in Seq(Directives), NEW D
  PROVE  InOrderOf(q, q) /\ InOrderOf(Keep(q, D), q) /\ (q # << >> => InOrderOf(Tail(q), q))
<1>1. InOrderOf(Keep(q, D), q)
  <2>1. PICK r : r = Keep(q, D)
    OBVIOUS
  <2>2. r \in Seq(Directives) /\ DOMAIN r = 1 .. Len(r) /\ DOMAIN q = 1 .. Len(q)
    BY <2>1, DequeTypes
  <2>3. PICK h : Embeds(r, q, Len(q), D, h)
    BY <2>1, KeepEmbeds
  <2> SUFFICES ASSUME NEW k \in 1 .. Len(r), NEW l \in 1 .. Len(r), k < l
               PROVE  \E i, j \in 1 .. Len(q) : i < j /\ r[k] = q[i] /\ r[l] = q[j]
    BY <2>1, <2>2 DEF InOrderOf
  <2>4. h[k] \in 1 .. Len(q) /\ h[l] \in 1 .. Len(q) /\ h[k] < h[l] /\ r[k] = q[h[k]] /\ r[l] = q[h[l]]
    BY <2>3 DEF Embeds
  <2> QED BY <2>4
<1>2. ASSUME q # << >> PROVE InOrderOf(Tail(q), q)
  <2>1. PICK r : r = Tail(q)
    OBVIOUS
  <2>2. /\ Len(q) \in Nat /\ DOMAIN r = 1 .. (Len(q) - 1) /\ DOMAIN q = 1 .. Len(q)
        /\ \A i \in 1 .. (Len(q) - 1) : r[i] = q[i + 1]
    BY <1>2, <2>1
  <2> SUFFICES ASSUME NEW k \in 1 .. (Len(q) - 1), NEW l \in 1 .. (Len(q) - 1), k < l
               PROVE  \E i, j \in 1 .. Len(q) : i < j /\ r[k] = q[i] /\ r[l] = q[j]
    BY <2>1, <2>2 DEF InOrderOf
  <2>3. k + 1 \in 1 .. Len(q) /\ l + 1 \in 1 .. Len(q) /\ k + 1 < l + 1 /\ r[k] = q[k + 1] /\ r[l] = q[l + 1]
    BY <2>2
  <2> QED BY <2>3
<1> QED BY <1>1, <1>2 DEF InOrderOf

\* The mark of t when it is that of s but for a front in D.
LEMMA FrontAfter ==
  ASSUME NEW s \in Members, NEW t \in Members, NEW D, D \subseteq Directives, NEW H, FrontHolds(s, H),
         Shrinks(s, t), t.isHandling = (s.isHandling /\ ~FrontIn(s, D))
  PROVE  Front(t) = IF Front(s) \in D THEN NoDirective ELSE Front(s)
<1>1. s.isHandling \in BOOLEAN /\ t.isHandling \in BOOLEAN /\ NoDirective \notin D
  BY DirectiveAssumption DEF Members
<1>2. s.isHandling => s.handlingQueue # << >>
  BY DEF FrontHolds
<1>3. t.isHandling => s.isHandling /\ Head(t.handlingQueue) = Head(s.handlingQueue)
  BY DEF Shrinks
<1>4. t.isHandling <=> (s.isHandling /\ Head(s.handlingQueue) \notin D)
  BY <1>1, <1>2 DEF FrontIn
<1>5. CASE s.isHandling
  BY <1>1, <1>3, <1>4, <1>5 DEF Front
<1>6. CASE ~s.isHandling
  BY <1>1, <1>4, <1>6 DEF Front
<1> QED BY <1>5, <1>6

\* scrubDialogRequestIdLocked() moves the directives of the dialog.
LEMMA ScrubbedMoves ==
  ASSUME NEW s \in Members, NEW H \in SUBSET Directives, FrontHolds(s, H), NEW id
  PROVE  Moves(s, Scrubbed(s, id), {}, OfDialog(id))
<1>1. PICK D : D = OfDialog(id)
  OBVIOUS
<1>2. PICK t : t = Scrubbed(s, id)
  OBVIOUS
<1>3. PICK m : m = Moved(s, D)
  OBVIOUS
<1>4. t \in Members /\ Shrinks(s, t) /\ D \subseteq Directives
  BY <1>1, <1>2, ScrubbedType, LockedFunctionsFront DEF OfDialog
<1>5. /\ t.handlingQueue = Without(s.handlingQueue, D) /\ t.cancelingQueue = s.cancelingQueue \o m
      /\ t.beingPreHandled = IF s.beingPreHandled \in D THEN NoDirective ELSE s.beingPreHandled
      /\ t.isHandling = (s.isHandling /\ ~FrontIn(s, D))
  BY <1>1, <1>2, <1>3 DEF Scrubbed, Members
<1>6. /\ s.handlingQueue \in Seq(Directives) /\ s.cancelingQueue \in Seq(Directives)
      /\ s.beingPreHandled \in Directives \cup {NoDirective}
  BY DEF Members
<1>7. m \in Seq(Directives) /\ Elements(m) = (Elements(s.handlingQueue) \cup {s.beingPreHandled}) \cap D
  <2>1. PICK k : k = Keep(s.handlingQueue, D)
    OBVIOUS
  <2>2. k \in Seq(Directives) /\ Elements(k) = Elements(s.handlingQueue) \cap D
    BY <1>6, <2>1, DequeTypes
  <2>3. CASE s.beingPreHandled \in D
    <3>1. PICK p : p = <<s.beingPreHandled>>
      OBVIOUS
    <3>2. p \in Seq(Directives) /\ Elements(p) = {s.beingPreHandled} /\ m = p \o k
      BY <1>3, <1>4, <2>1, <2>3, <3>1 DEF Moved, Elements
    <3> QED BY <2>2, <2>3, <3>2, ConcatElements
  <2>4. CASE s.beingPreHandled \notin D
    <3>1. PICK p : p = << >>
      OBVIOUS
    <3>2. p \in Seq(Directives) /\ Elements(p) = {} /\ m = p \o k
      BY <1>3, <2>1, <2>4, <3>1 DEF Moved, Elements
    <3> QED BY <2>2, <2>4, <3>2, ConcatElements
  <2> QED BY <2>3, <2>4
<1>8. Elements(t.cancelingQueue) =
        Elements(s.cancelingQueue) \cup ((Elements(s.handlingQueue) \cup {s.beingPreHandled}) \cap D)
  BY <1>5, <1>6, <1>7, ConcatElements
<1>9. Elements(t.handlingQueue) = Elements(s.handlingQueue) \ D
  BY <1>5, <1>6, DequeTypes
<1>10. InOrderOf(t.handlingQueue, s.handlingQueue)
  BY <1>5, <1>6, DequeOrder DEF Without
<1>11. Front(t) = IF Front(s) \in D THEN NoDirective ELSE Front(s)
  BY <1>4, <1>5, FrontAfter
<1>12. Moves(s, t, {}, D)
  BY <1>5, <1>8, <1>9, <1>10, <1>11 DEF Moves
<1> QED BY <1>1, <1>2, <1>12

\* removeDirectiveLocked() takes the directive out.
LEMMA RemovedMoves ==
  ASSUME NEW s \in Members, NEW H \in SUBSET Directives, FrontHolds(s, H), NEW d \in Directives
  PROVE  Moves(s, Removed(s, d), {d}, {})
<1>2. PICK t : t = Removed(s, d)
  OBVIOUS
<1>4. t \in Members /\ Shrinks(s, t)
  BY <1>2, RemovedType, LockedFunctionsFront
<1>5. /\ t.handlingQueue = Without(s.handlingQueue, {d}) /\ t.cancelingQueue = Without(s.cancelingQueue, {d})
      /\ t.beingPreHandled = IF s.beingPreHandled = d THEN NoDirective ELSE s.beingPreHandled
      /\ t.isHandling = (s.isHandling /\ ~FrontIn(s, {d}))
  BY <1>2 DEF Removed, Members
<1>6. s.handlingQueue \in Seq(Directives) /\ s.cancelingQueue \in Seq(Directives)
  BY DEF Members
<1>7. /\ Elements(t.handlingQueue) = Elements(s.handlingQueue) \ {d}
      /\ Elements(t.cancelingQueue) = Elements(s.cancelingQueue) \ {d}
  BY <1>5, <1>6, DequeTypes
<1>8. InOrderOf(t.handlingQueue, s.handlingQueue)
  BY <1>5, <1>6, DequeOrder DEF Without
<1>9. Front(t) = IF Front(s) \in {d} THEN NoDirective ELSE Front(s)
  BY <1>4, <1>5, FrontAfter
<1>10. Moves(s, t, {d}, {})
  BY <1>5, <1>7, <1>8, <1>9 DEF Moves
<1> QED BY <1>2, <1>10

\* queueAllDirectivesForCancellationLocked() moves every directive.
LEMMA AllForCancellationMoves ==
  ASSUME NEW s \in Members, s.isHandling => s.handlingQueue # << >>,
         NEW t \in Members, NEW u, u = AllForCancellation(s),
         t.handlingQueue = u.handlingQueue, t.cancelingQueue = u.cancelingQueue,
         t.beingPreHandled = u.beingPreHandled, t.isHandling = u.isHandling
  PROVE  Moves(s, t, {}, Directives)
<1>1. PICK a : a = All(s)
  OBVIOUS
<1>2. /\ t.handlingQueue = << >> /\ t.cancelingQueue = s.cancelingQueue \o a
      /\ t.beingPreHandled = NoDirective /\ t.isHandling = FALSE
  BY <1>1 DEF AllForCancellation, Members
<1>3. /\ s.handlingQueue \in Seq(Directives) /\ s.cancelingQueue \in Seq(Directives)
      /\ s.beingPreHandled \in Directives \cup {NoDirective}
      /\ s.isHandling \in BOOLEAN
  BY DEF Members
<1>4. /\ a \in Seq(Directives)
      /\ Elements(a) = (Elements(s.handlingQueue) \cup {s.beingPreHandled}) \cap Directives
  <2>1. Elements(s.handlingQueue) \subseteq Directives
    BY <1>3, DequeTypes
  <2>2. CASE s.beingPreHandled = NoDirective
    BY <1>1, <1>3, <2>1, <2>2, DirectiveAssumption DEF All
  <2>3. CASE s.beingPreHandled \in Directives
    <3>1. a = Append(s.handlingQueue, s.beingPreHandled)
      BY <1>1, <2>3, DirectiveAssumption DEF All
    <3> QED BY <1>3, <2>1, <2>3, <3>1, AppendTypes
  <2> QED BY <1>3, <2>2, <2>3
<1>5. Elements(t.cancelingQueue) =
        Elements(s.cancelingQueue) \cup ((Elements(s.handlingQueue) \cup {s.beingPreHandled}) \cap Directives)
  BY <1>2, <1>3, <1>4, ConcatElements
<1>6. Elements(t.handlingQueue) = {} /\ InOrderOf(t.handlingQueue, s.handlingQueue)
  BY <1>2 DEF Elements, InOrderOf
<1>7. Elements(s.handlingQueue) \subseteq Directives
  BY <1>3, DequeTypes
<1>8. t.beingPreHandled = IF s.beingPreHandled \in Directives THEN NoDirective ELSE s.beingPreHandled
  BY <1>2, <1>3
<1>9. Front(s) \in Directives \cup {NoDirective} /\ Front(t) = NoDirective
  BY <1>2, <1>3 DEF Front
<1>10. Front(t) = IF Front(s) \in Directives THEN NoDirective ELSE Front(s)
  BY <1>9
<1> QED BY <1>2, <1>5, <1>6, <1>7, <1>8, <1>10 DEF Moves

\* Taking a directive out, and then canceling those of D.
LEMMA MovesCompose ==
  ASSUME NEW s, NEW u, NEW t, NEW d, d # NoDirective, NEW D, NoDirective \notin D,
         Moves(s, u, {d}, {}), Moves(u, t, {}, D)
  PROVE  Moves(s, t, {d}, D)
<1>1. InOrderOf(t.handlingQueue, s.handlingQueue)
  BY InOrderTransitive DEF Moves
<1>2. Elements(t.handlingQueue) = Elements(s.handlingQueue) \ ({d} \cup D)
  BY DEF Moves
<1>3. Elements(t.cancelingQueue) =
        (Elements(s.cancelingQueue) \cup ((Elements(s.handlingQueue) \cup {s.beingPreHandled}) \cap D)) \ {d}
  BY DEF Moves
<1>4. /\ t.beingPreHandled = IF s.beingPreHandled \in {d} \cup D THEN NoDirective ELSE s.beingPreHandled
      /\ Front(t) = IF Front(s) \in {d} \cup D THEN NoDirective ELSE Front(s)
  BY DEF Moves
<1> QED BY <1>1, <1>2, <1>3, <1>4 DEF Moves

\* The end of the handling of d takes d out when it is the marked front, and changes nothing
\* when another thread has taken it out or queued it for cancellation meanwhile.
LEMMA PoppedMoves ==
  ASSUME NEW s \in Members, NEW H \in SUBSET Directives, FrontHolds(s, H), NEW d \in H,
         s.isHandling => Head(s.handlingQueue) = d,
         s.isHandling => d \notin Elements(s.cancelingQueue),
         NEW X, X = IF s.isHandling THEN {d} ELSE {}
  PROVE  Moves(s, Popped(s, d), X, {})
<1>1. PICK q : q = s.handlingQueue
  OBVIOUS
<1>2. PICK t : t = Popped(s, d)
  OBVIOUS
<1>3. /\ t.isHandling = FALSE /\ t.beingPreHandled = s.beingPreHandled /\ q \in Seq(Directives)
      /\ t.handlingQueue = (IF q # << >> /\ Head(q) = d THEN Tail(q) ELSE q)
      /\ t.cancelingQueue = s.cancelingQueue
  BY <1>1, <1>2 DEF Popped, Members
<1>4. /\ s.isHandling => q # << >>
      /\ \A i \in DOMAIN q : q[i] \in H <=> (i = 1 /\ s.isHandling)
      /\ NoRepeats(q) /\ s.beingPreHandled # d
  BY <1>1 DEF FrontHolds
<1>5. Front(t) = NoDirective
  BY <1>3 DEF Front
<1>6. CASE s.isHandling
  <2>1. PICK r : r = t.handlingQueue
    OBVIOUS
  <2>2. q # << >> /\ Head(q) = d /\ r = Tail(q) /\ X = {d}
    BY <1>1, <1>3, <1>4, <1>6, <2>1
  <2>3. /\ Len(q) \in Nat \ {0} /\ DOMAIN q = 1 .. Len(q) /\ DOMAIN r = 1 .. (Len(q) - 1)
        /\ \A i \in 1 .. (Len(q) - 1) : r[i] = q[i + 1] /\ i + 1 \in 1 .. Len(q) /\ i + 1 # 1
        /\ q[1] = d /\ 1 \in 1 .. Len(q)
    BY <1>3, <2>2
  <2>4. \A i \in 1 .. (Len(q) - 1) : r[i] \in Elements(q) \ {d}
    BY <1>4, <2>3 DEF NoRepeats, Elements
  <2>5. ASSUME NEW i \in 1 .. Len(q), q[i] # d PROVE q[i] \in Elements(r)
    <3>1. i # 1 /\ i - 1 \in 1 .. (Len(q) - 1) /\ (i - 1) + 1 = i
      BY <2>3, <2>5
    <3>2. r[i - 1] = q[i]
      BY <2>3, <3>1
    <3> QED BY <2>3, <3>1, <3>2 DEF Elements
  <2>6. Elements(r) = Elements(q) \ {d}
    BY <2>3, <2>4, <2>5 DEF Elements
  <2>7. InOrderOf(r, q)
    BY <1>3, <2>2, DequeOrder
  <2>8. Front(s) = d
    BY <1>1, <1>6, <2>2 DEF Front
  <2> QED BY <1>1, <1>2, <1>3, <1>4, <1>5, <1>6, <2>1, <2>2, <2>6, <2>7, <2>8 DEF Moves
<1>7. CASE ~s.isHandling
  <2>1. t.handlingQueue = q
    <3>1. q # << >> => 1 \in DOMAIN q /\ Head(q) = q[1]
      BY <1>3
    <3> QED BY <1>3, <1>4, <1>7, <3>1
  <2>2. Front(s) = NoDirective /\ X = {}
    BY <1>7 DEF Front
  <2>3. InOrderOf(q, q)
    BY DEF InOrderOf
  <2> QED BY <1>1, <1>2, <1>3, <1>5, <2>1, <2>2, <2>3 DEF Moves
<1> QED BY <1>6, <1>7

\* Moves speaks of the members that Release leaves alone.
LEMMA ReleasedMoves ==
  ASSUME NEW s, NEW t \in Members, NEW X, NEW D, Moves(s, t, X, D), NEW u, u = [t EXCEPT !.notify = FALSE]
  PROVE  Moves(s, u, X, D)
<1>1. /\ u.handlingQueue = t.handlingQueue /\ u.cancelingQueue = t.cancelingQueue
      /\ u.beingPreHandled = t.beingPreHandled /\ u.isHandling = t.isHandling
  BY DEF Members
<1> QED BY <1>1 DEF Moves, Front

\* Nothing moves.
LEMMA NothingMoves ==
  ASSUME NEW s, NEW t, t.handlingQueue = s.handlingQueue, t.cancelingQueue = s.cancelingQueue,
         t.beingPreHandled = s.beingPreHandled, t.isHandling = s.isHandling
  PROVE  Moves(s, t, {}, {})
BY DEF Moves, Front, InOrderOf

-----------------------------------------------------------------------------
(* The kinds of steps *)

\* The directives that the processing thread is about to cancel; the one it is passing to its
\* handler; and the one for which the router looks for a handler.
ToCancel == Elements(proc.temp)
InHand == IF proc.pc = "handling" THEN {proc.directive} ELSE {}
Routed == IF rx.pc = "routing" THEN {rx.directive} ELSE {}

\* Where a directive can be, and who has heard of it.
PlacesInv ==
  /\ (Queued \cup {dp.beingPreHandled}) \cap (Canceling \cup ToCancel) = {}
  /\ Canceling \cup ToCancel \subseteq Elements(offered)
  /\ proc.pc # "canceling" => proc.temp = << >>
  /\ preHandled \subseteq Elements(offered) /\ Routed \cap preHandled = {}
  /\ blocking \subseteq handled /\ InHand \cap blocking = {}

\* The sets of directives that can be taken out, and canceled, together.
EndTogether(X, D) ==
  /\ X \subseteq Elements(offered)
  /\ X = {} \/ \E d \in Directives : X = {d}
  /\ \/ D = {}
     \/ D = Directives /\ X = {}
     \/ \E id \in Dialogs : D = OfDialog(id) /\ \A d \in X : DialogOf[d] = id

\* A step that only takes the directives of X out and cancels those of D.
Settles(X, D) ==
  /\ Moves(dp, dp', X, D)
  /\ EndTogether(X, D)
  /\ UNCHANGED <<offered, preHandled, handled, canceled>>
  /\ reported \subseteq reported'
  /\ proc'.temp = proc.temp /\ (proc.pc = "canceling" <=> proc'.pc = "canceling")
  /\ Routed' \subseteq Routed
  /\ blocking \subseteq blocking' /\ blocking' \cup InHand' \subseteq blocking \cup InHand
  /\ blocking' \cap InHand' = {}
  /\ X \cap (preHandled \cup Routed') \subseteq handled \cup reported'
  /\ X \cap (blocking' \cup InHand') \subseteq reported'

\* The directive that was being pre-handled is queued.
Queues ==
  /\ ReturnPreHandle(TRUE) /\ dp.beingPreHandled # NoDirective

OtherSteps ==
  \/ (\E d \in Directives : Accept(d)) \/ EnterPreHandle \/ Queues
  \/ TakeCancelingQueue \/ Cancel \/ StartHandling

\* A critical section of a client or of shutdown() that cancels the directives of D.
LEMMA ReleaseSettles ==
  ASSUME TypeInv, PlacesInv, NEW s \in Members, NEW X, NEW D, Release(s), Moves(dp, s, X, D),
         EndTogether(X, D), X \subseteq reported',
         UNCHANGED <<rx, offered, preHandled, handled, blocking, canceled>>, reported \subseteq reported'
  PROVE  Settles(X, D)
<1>1. Moves(dp, dp', X, D)
  BY ReleasedMoves DEF Release
<1>2. /\ proc'.temp = proc.temp /\ (proc.pc = "canceling" <=> proc'.pc = "canceling")
      /\ proc'.pc = "handling" => proc.pc = "handling" /\ proc'.directive = proc.directive
  BY DEF Release, TypeInv, TypeOK
<1>3. InHand' \subseteq InHand /\ Routed' = Routed
  BY <1>2 DEF InHand, Routed
<1> QED BY <1>1, <1>2, <1>3 DEF Settles, PlacesInv

\* The directives of a dialog end together; there are none of the empty dialogRequestId.
LEMMA DialogEndsTogether ==
  ASSUME NEW id \in Ids, NEW X, X \subseteq Elements(offered), X = {} \/ \E d \in Directives : X = {d},
         \A d \in X : DialogOf[d] = id
  PROVE  EndTogether(X, OfDialog(id)) /\ OfDialog(id) \subseteq Directives /\ NoDirective \notin OfDialog(id)
<1>1. id \in Dialogs \/ OfDialog(id) = {}
  BY DEF Ids, OfDialog
<1> QED BY <1>1, DirectiveAssumption DEF EndTogether, OfDialog

\* Every step settles directives, or is one of the others.
LEMMA StepKinds ==
  ASSUME TypeInv, FrontInv, PlacesInv, [Next]_vars
  PROVE  OtherSteps \/ \E X, D \in SUBSET Directives : Settles(X, D)
<1> DEFINE Goal == \E X, D \in SUBSET Directives : Settles(X, D)
<1>0. /\ dp \in Members /\ handled \in SUBSET Directives /\ FrontHolds(dp, handled)
      /\ offered \in Seq(Directives) /\ Elements(offered) \subseteq Directives
  BY DequeTypes DEF TypeInv, TypeOK, FrontInv
<1>e. EndTogether({}, {}) /\ EndTogether({}, Directives)
  BY DEF EndTogether
<1>1. ASSUME NEW id \in Ids, SetDialogRequestId(id) PROVE Goal
  <2>1. Release(WithDialog(dp, id)) /\ WithDialog(dp, id) \in Members
    BY <1>0, <1>1, WithDialogType DEF SetDialogRequestId
  <2>2. UNCHANGED <<rx, offered, preHandled, handled, blocking, canceled, reported>>
    BY <1>1 DEF SetDialogRequestId
  <2>3. CASE id = dp.dialogRequestId
    <3>1. WithDialog(dp, id) = dp
      BY <2>3 DEF WithDialog
    <3>2. Moves(dp, dp, {}, {})
      BY NothingMoves
    <3>3. Settles({}, {})
      BY <1>0, <1>e, <2>1, <2>2, <3>1, <3>2, ReleaseSettles
    <3> QED BY <3>3
  <2>4. CASE id # dp.dialogRequestId
    <3>1. PICK u : u = Scrubbed(dp, dp.dialogRequestId)
      OBVIOUS
    <3>2. PICK t : t = WithDialog(dp, id)
      OBVIOUS
    <3>3. PICK D : D = OfDialog(dp.dialogRequestId)
      OBVIOUS
    <3>4. u \in Members /\ t = [u EXCEPT !.dialogRequestId = id]
      BY <1>0, <2>4, <3>1, <3>2, ScrubbedType DEF WithDialog
    <3>5. Moves(dp, u, {}, D)
      BY <1>0, <3>1, <3>3, ScrubbedMoves
    <3>6. /\ t.handlingQueue = u.handlingQueue /\ t.cancelingQueue = u.cancelingQueue
          /\ t.beingPreHandled = u.beingPreHandled /\ t.isHandling = u.isHandling
      BY <3>4 DEF Members
    <3>7. Moves(dp, t, {}, D)
      BY <3>5, <3>6 DEF Moves, Front
    <3>8. dp.dialogRequestId \in Ids
      BY <1>0 DEF Members
    <3>9. EndTogether({}, D) /\ D \in SUBSET Directives
      BY <3>3, <3>8, DialogEndsTogether
    <3>10. Settles({}, D)
      BY <2>1, <2>2, <3>2, <3>7, <3>9, ReleaseSettles
    <3> QED BY <3>9, <3>10
  <2> QED BY <2>3, <2>4
<1>2. CASE Disable \/ QueueAll
  <2>1. PICK u : u = AllForCancellation(dp)
    OBVIOUS
  <2>2. u \in Members
    BY <1>0, <2>1, AllForCancellationType
  <2>3. PICK t : /\ t \in {[u EXCEPT !.isEnabled = FALSE, !.notify = TRUE],
                           [u EXCEPT !.isShuttingDown = TRUE, !.notify = TRUE]}
                 /\ Release(t)
    BY <1>2, <2>1 DEF Disable, QueueAll
  <2>4. t \in Members /\ t.handlingQueue = u.handlingQueue /\ t.cancelingQueue = u.cancelingQueue
        /\ t.beingPreHandled = u.beingPreHandled /\ t.isHandling = u.isHandling
    BY <2>2, <2>3 DEF Members
  <2>5. Moves(dp, t, {}, Directives)
    BY <1>0, <2>1, <2>4, AllForCancellationMoves DEF FrontHolds
  <2>6. UNCHANGED <<rx, offered, preHandled, handled, blocking, canceled, reported>>
    BY <1>2 DEF Disable, QueueAll, calls
  <2>7. Settles({}, Directives)
    BY <1>e, <2>3, <2>4, <2>5, <2>6, ReleaseSettles
  <2> QED BY <2>7
<1>3. CASE Enable
  <2>1. PICK t : t = [dp EXCEPT !.isEnabled = TRUE]
    OBVIOUS
  <2>2. t \in Members /\ t.handlingQueue = dp.handlingQueue /\ t.cancelingQueue = dp.cancelingQueue
        /\ t.beingPreHandled = dp.beingPreHandled /\ t.isHandling = dp.isHandling
    BY <1>0, <2>1 DEF Members
  <2>3. Moves(dp, t, {}, {})
    BY <2>2, NothingMoves
  <2>4. Release(t) /\ UNCHANGED <<rx, offered, preHandled, handled, blocking, canceled, reported>>
    BY <1>3, <2>1 DEF Enable, calls
  <2>5. Settles({}, {})
    BY <1>e, <2>2, <2>3, <2>4, ReleaseSettles
  <2> QED BY <2>5
<1>4. ASSUME NEW b \in BOOLEAN, ReturnPreHandle(b), ~Queues PROVE Goal
  <2>1. PICK t : t = Admitted(dp, rx.directive, b)
    OBVIOUS
  <2>2. PICK X : X = {dp.beingPreHandled} \ {NoDirective}
    OBVIOUS
  <2>3. rx.directive \in Elements(offered) /\ rx.pc # "idle"
    BY <1>4 DEF ReturnPreHandle, TypeInv, ThreadsHoldDirectives
  <2>4. ~(dp.beingPreHandled # NoDirective /\ b)
    BY <1>4 DEF Queues
  <2>5. /\ t \in Members /\ t.handlingQueue = dp.handlingQueue /\ t.cancelingQueue = dp.cancelingQueue
        /\ t.beingPreHandled = NoDirective /\ t.isHandling = dp.isHandling
    BY <1>0, <2>1, <2>3, <2>4, AdmittedType DEF Admitted, Members
  <2>6. /\ dp.beingPreHandled \notin Elements(dp.handlingQueue) \cup Elements(dp.cancelingQueue) \cup handled
        /\ dp.beingPreHandled \in {NoDirective, rx.directive}
    BY <1>0 DEF FrontHolds, PlacesInv, FrontInv, PreHandledIsReceived, Queued, Canceling
  <2>7. dp.isHandling => Front(dp) \in handled
    BY <1>0 DEF FrontHolds, Front, Members
  <2>8. Moves(dp, t, X, {})
    <3>1. Front(t) = Front(dp) /\ (Front(dp) \in X => FALSE)
      BY <2>2, <2>5, <2>6, <2>7 DEF Front
    <3>2. InOrderOf(t.handlingQueue, dp.handlingQueue)
      BY <2>5 DEF InOrderOf
    <3> QED BY <2>2, <2>5, <2>6, <3>1, <3>2 DEF Moves
  <2>9. Moves(dp, dp', X, {})
    BY <1>4, <2>1, <2>5, <2>8, ReleasedMoves DEF ReturnPreHandle, Release
  <2>10. X \in SUBSET Directives /\ EndTogether(X, {})
    BY <1>0, <2>2, <2>3, <2>6 DEF EndTogether
  <2>11. /\ UNCHANGED calls /\ rx'.pc = "idle"
         /\ proc'.temp = proc.temp /\ (proc.pc = "canceling" <=> proc'.pc = "canceling")
         /\ proc'.pc = "handling" => proc.pc = "handling" /\ proc'.directive = proc.directive
    BY <1>4 DEF ReturnPreHandle, Release, TypeInv, TypeOK
  <2>12. Routed' = {} /\ InHand' \subseteq InHand /\ InHand \subseteq handled
    BY <2>11 DEF Routed, InHand, TypeInv, ThreadsHoldDirectives
  <2>13. X \cap preHandled = {}
    <3>1. X # {} => b = FALSE /\ rx.pc = "routing" /\ X = {rx.directive}
      BY <1>4, <2>2, <2>4, <2>6 DEF ReturnPreHandle
    <3> QED BY <3>1 DEF PlacesInv, Routed
  <2>14. X \cap (blocking' \cup InHand') = {}
    BY <2>2, <2>6, <2>11, <2>12 DEF PlacesInv, calls
  <2>15. Settles(X, {})
    BY <2>9, <2>10, <2>11, <2>12, <2>13, <2>14 DEF Settles, calls, PlacesInv
  <2> QED BY <2>10, <2>15
<1>5. ASSUME NEW d \in Directives, SetCompleted(d) \/ SetFailed(d) PROVE Goal
  <2>1. /\ d \in Elements(offered) /\ d \in reported' /\ reported \subseteq reported'
        /\ UNCHANGED <<rx, offered, preHandled, handled, blocking, canceled>>
    BY <1>5 DEF SetCompleted, SetFailed, Report, PlacesInv
  <2>2. PICK u : u = Removed(dp, d)
    OBVIOUS
  <2>3. u \in Members /\ FrontHolds(u, handled) /\ Moves(dp, u, {d}, {})
    BY <1>0, <2>2, RemovedType, LockedFunctionsFront, RemovedMoves
  <2>4. CASE Release(dp)
    <3>1. Settles({}, {})
      BY <1>0, <1>e, <2>1, <2>4, NothingMoves, ReleaseSettles
    <3> QED BY <3>1
  <2>5. CASE Release(u)
    <3>1. EndTogether({d}, {})
      BY <2>1 DEF EndTogether
    <3>2. Settles({d}, {})
      BY <2>1, <2>3, <2>5, <3>1, ReleaseSettles
    <3> QED BY <3>2
  <2>6. CASE Release(Scrubbed(u, DialogOf[d]))
    <3>1. PICK t : t = Scrubbed(u, DialogOf[d])
      OBVIOUS
    <3>2. PICK D : D = OfDialog(DialogOf[d])
      OBVIOUS
    <3>3. t \in Members /\ Moves(u, t, {}, D)
      BY <1>0, <2>3, <3>1, <3>2, ScrubbedType, ScrubbedMoves
    <3>4. DialogOf[d] \in Ids
      BY DialogAssumption DEF Ids
    <3>5. EndTogether({d}, D) /\ D \in SUBSET Directives /\ NoDirective \notin D
      BY <2>1, <3>2, <3>4, DialogEndsTogether
    <3>6. Moves(dp, t, {d}, D)
      BY <2>3, <3>3, <3>5, MovesCompose, DirectiveAssumption
    <3>7. Settles({d}, D)
      BY <2>1, <2>6, <3>1, <3>3, <3>5, <3>6, ReleaseSettles
    <3> QED BY <3>5, <3>7
  <2> QED BY <1>5, <2>2, <2>4, <2>5, <2>6 DEF SetCompleted, SetFailed
<1>6. ASSUME NEW reply \in Replies, ReturnHandle(reply) PROVE Goal
  <2>1. PICK d : d = proc.directive
    OBVIOUS
  <2>2. PICK u : u = Popped(dp, d)
    OBVIOUS
  <2>3. PICK X : X = IF dp.isHandling THEN {d} ELSE {}
    OBVIOUS
  <2>4. d \in handled /\ d \in Directives /\ d \in Elements(offered) /\ InHand = {d}
    BY <1>0, <1>6, <2>1 DEF ReturnHandle, TypeInv, ThreadsHoldDirectives, FrontInv, CallsAgree, InHand
  <2>5. dp.isHandling => Head(dp.handlingQueue) = d /\ d \notin Elements(dp.cancelingQueue)
    <3>1. dp.isHandling => Head(dp.handlingQueue) = d /\ dp.handlingQueue # << >>
      BY <1>0, <1>6, <2>1 DEF ReturnHandle, FrontInv, CallsAgree, FrontHolds
    <3>2. dp.isHandling => d \in Queued
      BY <1>0, <3>1 DEF Members, Queued, Elements
    <3> QED BY <3>1, <3>2 DEF PlacesInv, Canceling
  <2>6. u \in Members /\ FrontHolds(u, handled) /\ Moves(dp, u, X, {})
    BY <1>0, <2>2, <2>3, <2>4, <2>5, PoppedType, PoppedFront, PoppedMoves
  <2>7. /\ dp' = [Handled(dp, d, reply) EXCEPT !.notify = FALSE]
        /\ blocking' = IF reply = "blocking" THEN blocking \cup {d} ELSE blocking
        /\ UNCHANGED <<rx, offered, preHandled, handled, canceled, reported>>
        /\ proc'.temp = proc.temp /\ proc'.pc = "loop" /\ proc.pc = "handling"
    BY <1>6, <2>1 DEF ReturnHandle, TypeInv, TypeOK
  <2>8. InHand' = {} /\ Routed' = Routed /\ InHand \cap blocking = {}
    BY <2>7 DEF InHand, Routed, PlacesInv
  <2>9. ASSUME NEW Y \in SUBSET X, NEW D \in SUBSET Directives, NEW t \in Members,
               Moves(dp, t, Y, D), EndTogether(Y, D), dp' = [t EXCEPT !.notify = FALSE],
               Y # {} => reply # "blocking"
        PROVE  Goal
    <3>1. Moves(dp, dp', Y, D)
      BY <2>9, ReleasedMoves
    <3>2. Y \in SUBSET Directives /\ Y \subseteq handled /\ Y \cap (blocking' \cup InHand') = {}
      BY <2>3, <2>4, <2>7, <2>8, <2>9
    <3>3. Settles(Y, D)
      BY <2>4, <2>7, <2>8, <2>9, <3>1, <3>2 DEF Settles
    <3> QED BY <3>2, <3>3
  <2>10. CASE reply = "blocking"
    <3>1. Handled(dp, d, reply) = dp /\ Moves(dp, dp, {}, {})
      BY <2>10, NothingMoves DEF Handled
    <3> QED BY <1>0, <1>e, <2>7, <2>9, <3>1
  <2>11. EndTogether(X, {}) /\ X \in SUBSET Directives /\ \A e \in X : e = d
    BY <2>3, <2>4 DEF EndTogether
  <2>12. CASE reply = "nonBlocking"
    <3>1. Handled(dp, d, reply) = u
      BY <2>2, <2>12 DEF Handled
    <3> QED BY <2>6, <2>7, <2>9, <2>11, <2>12, <3>1
  <2>13. CASE reply = "rejected"
    <3>1. PICK t : t = Scrubbed(u, DialogOf[d])
      OBVIOUS
    <3>2. PICK D : D = OfDialog(DialogOf[d])
      OBVIOUS
    <3>3. t \in Members /\ Moves(u, t, {}, D) /\ Handled(dp, d, reply) = t
      BY <1>0, <2>2, <2>6, <2>13, <3>1, <3>2, ScrubbedType, ScrubbedMoves DEF Handled
    <3>4. DialogOf[d] \in Ids
      BY <2>4, DialogAssumption DEF Ids
    <3>5. EndTogether(X, D) /\ D \in SUBSET Directives /\ NoDirective \notin D
      BY <2>3, <2>4, <3>2, <3>4, DialogEndsTogether
    <3>6. Moves(dp, t, X, D)
      <4>1. CASE X = {d}
        BY <2>4, <2>6, <3>3, <3>5, <4>1, MovesCompose, DirectiveAssumption
      <4>2. CASE X = {}
        <5>1. /\ Elements(u.handlingQueue) = Elements(dp.handlingQueue)
              /\ Elements(u.cancelingQueue) = Elements(dp.cancelingQueue)
              /\ u.beingPreHandled = dp.beingPreHandled /\ Front(u) = Front(dp)
              /\ InOrderOf(u.handlingQueue, dp.handlingQueue)
          BY <2>6, <4>2 DEF Moves
        <5>2. InOrderOf(t.handlingQueue, dp.handlingQueue)
          BY <3>3, <5>1, InOrderTransitive DEF Moves
        <5> QED BY <3>3, <4>2, <5>1, <5>2 DEF Moves
      <4> QED BY <2>3, <4>1, <4>2
    <3> QED BY <2>7, <2>9, <2>13, <3>3, <3>5, <3>6
  <2> QED BY <2>10, <2>12, <2>13 DEF Replies
<1>7. ASSUME UNCHANGED <<dp, calls>>, Routed' \subseteq Routed, proc'.temp = proc.temp,
             proc.pc = "canceling" <=> proc'.pc = "canceling", InHand' \subseteq InHand
      PROVE  Goal
  <2>1. Moves(dp, dp', {}, {})
    BY <1>7, NothingMoves
  <2>2. Settles({}, {})
    BY <1>e, <1>7, <2>1 DEF Settles, calls, PlacesInv
  <2> QED BY <2>2
<1>8. CASE Sleep \/ Exit
  <2>1. UNCHANGED <<dp, rx, calls>> /\ proc'.temp = proc.temp /\ proc.pc = "loop" /\ proc'.pc \in {"asleep", "exited"}
    BY <1>8 DEF Sleep, Exit, TypeInv, TypeOK
  <2>2. Routed' = Routed /\ InHand' = {}
    BY <2>1 DEF Routed, InHand
  <2> QED BY <1>7, <2>1, <2>2
<1>9. CASE EraseHandle \/ Join \/ UNCHANGED vars \/ \E d \in Directives : Refuse(d)
  <2>1. UNCHANGED <<dp, rx, proc, calls>>
    BY <1>9 DEF EraseHandle, Join, Refuse, vars
  <2>2. Routed' = Routed /\ InHand' = InHand
    BY <2>1 DEF Routed, InHand
  <2> QED BY <1>7, <2>1, <2>2
<1> QED BY <1>1, <1>2, <1>3, <1>4, <1>5, <1>6, <1>8, <1>9
        DEF Next, Client, Receiving, Handler, Processing, Shutdown, OtherSteps

\* What the other steps do with the queues.
LEMMA AcceptPlaces ==
  ASSUME TypeInv, NEW d \in Directives, Accept(d)
  PROVE  /\ dp'.handlingQueue = dp.handlingQueue /\ dp'.cancelingQueue = dp.cancelingQueue
         /\ dp'.isHandling = dp.isHandling /\ dp'.beingPreHandled = d
         /\ offered' = Append(offered, d) /\ Elements(offered') = Elements(offered) \cup {d}
         /\ d \notin Elements(offered) /\ rx.pc = "idle" /\ rx'.pc = "routing" /\ rx'.directive = d
         /\ proc'.temp = proc.temp /\ (proc.pc = "canceling" <=> proc'.pc = "canceling")
         /\ InHand' \subseteq InHand
         /\ UNCHANGED <<preHandled, handled, blocking, canceled, reported>>
<1>1. /\ dp'.handlingQueue = dp.handlingQueue /\ dp'.cancelingQueue = dp.cancelingQueue
      /\ dp'.isHandling = dp.isHandling /\ dp'.beingPreHandled = d
  BY DEF Accept, Release, TypeInv, TypeOK, Members
<1>2. Elements(offered') = Elements(offered) \cup {d}
  BY AppendTypes DEF Accept, TypeInv, TypeOK
<1>3. /\ proc'.temp = proc.temp /\ (proc.pc = "canceling" <=> proc'.pc = "canceling")
      /\ proc'.pc = "handling" => proc.pc = "handling" /\ proc'.directive = proc.directive
  BY DEF Accept, Release, TypeInv, TypeOK
<1>4. InHand' \subseteq InHand
  BY <1>3 DEF InHand
<1> QED BY <1>1, <1>2, <1>3, <1>4 DEF Accept, OnDirective

LEMMA QueuesPlaces ==
  ASSUME TypeInv, FrontInv, Queues, NEW d, d = rx.directive
  PROVE  /\ dp.beingPreHandled = d /\ d \in Directives /\ d \notin Queued
         /\ dp'.handlingQueue = Append(dp.handlingQueue, d)
         /\ Elements(dp'.handlingQueue) = Queued \cup {d}
         /\ dp'.cancelingQueue = dp.cancelingQueue
         /\ dp'.isHandling = dp.isHandling /\ dp'.beingPreHandled = NoDirective
         /\ Front(dp') = Front(dp)
         /\ rx.pc = "inHandler" /\ rx'.pc = "idle"
         /\ proc'.temp = proc.temp /\ (proc.pc = "canceling" <=> proc'.pc = "canceling")
         /\ InHand' \subseteq InHand
         /\ UNCHANGED calls
<1>1. dp.beingPreHandled = d /\ d \in Directives /\ d \notin Queued /\ dp \in Members
  BY DEF Queues, FrontInv, PreHandledIsReceived, FrontHolds, TypeInv, TypeOK, Members, Queued
<1>2. PICK t : t = Admitted(dp, d, TRUE)
  OBVIOUS
<1>3. dp' = [t EXCEPT !.notify = FALSE]
  BY <1>2 DEF Queues, ReturnPreHandle, Release
<1>4. /\ dp'.handlingQueue = Append(dp.handlingQueue, d) /\ dp'.cancelingQueue = dp.cancelingQueue
      /\ dp'.isHandling = dp.isHandling /\ dp'.beingPreHandled = NoDirective
  BY <1>1, <1>2, <1>3 DEF Queues, Admitted, Members
<1>5. dp.handlingQueue \in Seq(Directives)
  BY <1>1 DEF Members
<1>6. Elements(dp'.handlingQueue) = Queued \cup {d}
  BY <1>1, <1>4, <1>5, AppendTypes DEF Queued
<1>7. dp.isHandling => Head(dp'.handlingQueue) = Head(dp.handlingQueue)
  BY <1>1, <1>4, <1>5 DEF FrontInv, FrontHolds
<1>8. /\ proc'.temp = proc.temp /\ (proc.pc = "canceling" <=> proc'.pc = "canceling")
      /\ proc'.pc = "handling" => proc.pc = "handling" /\ proc'.directive = proc.directive
  BY DEF Queues, ReturnPreHandle, Release, TypeInv, TypeOK
<1>9. rx.pc = "inHandler" /\ rx'.pc = "idle" /\ UNCHANGED calls
  BY DEF Queues, ReturnPreHandle
<1>10. InHand' \subseteq InHand /\ Front(dp') = Front(dp)
  BY <1>4, <1>7, <1>8 DEF InHand, Front
<1> QED BY <1>1, <1>4, <1>6, <1>8, <1>9, <1>10

LEMMA TakePlaces ==
  ASSUME TypeInv, TakeCancelingQueue
  PROVE  /\ dp'.handlingQueue = dp.handlingQueue /\ Elements(dp'.cancelingQueue) = {}
         /\ dp'.isHandling = dp.isHandling /\ dp'.beingPreHandled = dp.beingPreHandled
         /\ ToCancel' = Canceling /\ proc.pc = "loop" /\ proc'.pc = "canceling"
         /\ UNCHANGED <<rx, calls>>
BY DEF TakeCancelingQueue, TypeInv, TypeOK, Members, ToCancel, Canceling, Elements

LEMMA CancelPlaces ==
  ASSUME TypeInv, Cancel
  PROVE  /\ UNCHANGED dp /\ canceled' = canceled \cup {Head(proc.temp)}
         /\ Head(proc.temp) \in ToCancel /\ ToCancel \subseteq ToCancel' \cup {Head(proc.temp)}
         /\ ToCancel' \subseteq ToCancel /\ proc.pc = "canceling"
         /\ proc'.pc # "canceling" => proc'.temp = << >>
         /\ proc'.pc # "handling"
         /\ UNCHANGED <<rx, offered, preHandled, handled, blocking, reported>>
<1>1. /\ proc.temp \in Seq(Directives) /\ proc.temp # << >> /\ proc'.temp = Tail(proc.temp)
      /\ proc'.pc \in {"loop", "canceling"} /\ (proc'.pc # "canceling" => proc'.temp = << >>)
  BY DEF Cancel, TypeInv, TypeOK, ThreadsHoldDirectives
<1>2. PICK q : q = proc.temp
  OBVIOUS
<1>3. /\ Len(q) \in Nat \ {0} /\ DOMAIN q = 1 .. Len(q) /\ DOMAIN Tail(q) = 1 .. (Len(q) - 1)
      /\ \A i \in 1 .. (Len(q) - 1) : Tail(q)[i] = q[i + 1] /\ i + 1 \in 1 .. Len(q)
      /\ Head(q) = q[1] /\ 1 \in 1 .. Len(q)
  BY <1>1, <1>2
<1>4. Elements(Tail(q)) \subseteq Elements(q) /\ Head(q) \in Elements(q)
  BY <1>3 DEF Elements
<1>5. ASSUME NEW i \in 1 .. Len(q), i # 1 PROVE q[i] \in Elements(Tail(q))
  <2>1. i - 1 \in 1 .. (Len(q) - 1) /\ (i - 1) + 1 = i
    BY <1>3, <1>5
  <2>2. Tail(q)[i - 1] = q[i]
    BY <1>3, <2>1
  <2> QED BY <1>3, <2>1, <2>2 DEF Elements
<1>6. Elements(q) \subseteq Elements(Tail(q)) \cup {Head(q)}
  BY <1>3, <1>5 DEF Elements
<1> QED BY <1>1, <1>2, <1>4, <1>6 DEF Cancel, ToCancel

LEMMA StartPlaces ==
  ASSUME TypeInv, FrontInv, StartHandling, NEW d, d = Head(dp.handlingQueue)
  PROVE  /\ dp'.handlingQueue = dp.handlingQueue /\ dp'.cancelingQueue = dp.cancelingQueue
         /\ dp'.beingPreHandled = dp.beingPreHandled
         /\ dp.isHandling = FALSE /\ dp'.isHandling = TRUE /\ Front(dp') = d /\ Front(dp) = NoDirective
         /\ d \in Queued \ handled /\ d \in Directives /\ InHand' = {d} /\ InHand = {}
         /\ handled' = handled \cup {d} /\ proc'.temp = proc.temp
         /\ proc.pc = "loop" /\ proc'.pc = "handling" 
         /\ UNCHANGED <<rx, offered, preHandled, blocking, canceled, reported>>
<1>1. /\ dp'.handlingQueue = dp.handlingQueue /\ dp'.cancelingQueue = dp.cancelingQueue
      /\ dp'.beingPreHandled = dp.beingPreHandled
      /\ dp.isHandling = FALSE /\ dp'.isHandling = TRUE
  BY DEF StartHandling, TypeInv, TypeOK, Members
<1>2. /\ proc'.temp = proc.temp /\ proc.pc = "loop" /\ proc'.pc = "handling" /\ proc'.directive = d
      /\ handled' = handled \cup {d}
      /\ UNCHANGED <<rx, offered, preHandled, blocking, canceled, reported>>
  BY DEF StartHandling, TypeInv, TypeOK
<1>3. PICK q : q = dp.handlingQueue
  OBVIOUS
<1>4. q \in Seq(Directives) /\ q # << >> /\ 1 \in DOMAIN q /\ d = q[1] /\ d \in Directives
  BY <1>3 DEF StartHandling, TypeInv, TypeOK, Members
<1>5. d \notin handled
  BY <1>1, <1>3, <1>4 DEF FrontInv, FrontHolds
<1>6. d \in Queued
  BY <1>3, <1>4 DEF Queued, Elements
<1>7. InHand = {} /\ InHand' = {d} /\ Front(dp') = d /\ Front(dp) = NoDirective
  BY <1>1, <1>2, <1>3, <1>4 DEF InHand, Front
<1> QED BY <1>1, <1>2, <1>4, <1>5, <1>6, <1>7

\* Every step keeps the places of a directive apart.
LEMMA PlacesStep ==
  ASSUME TypeInv, FrontInv, PlacesInv, [Next]_vars
  PROVE  PlacesInv'
<1>0. /\ Queued \subseteq Elements(offered) /\ handled \subseteq Elements(offered)
      /\ dp.beingPreHandled # NoDirective => dp.beingPreHandled \in Elements(offered)
      /\ NoDirective \notin Elements(offered)
      /\ InHand \subseteq handled
  <2>1. Elements(offered) \subseteq Directives
    BY DequeTypes DEF TypeInv, TypeOK
  <2> QED BY <2>1, DirectiveAssumption DEF FrontInv, CallsAgree, Queued, InHand, TypeInv, ThreadsHoldDirectives
<1>1. ASSUME NEW X \in SUBSET Directives, NEW D \in SUBSET Directives, Settles(X, D) PROVE PlacesInv'
  <2>1. /\ Queued' = Queued \ (X \cup D)
        /\ Canceling' = (Canceling \cup ((Queued \cup {dp.beingPreHandled}) \cap D)) \ X
        /\ dp'.beingPreHandled = IF dp.beingPreHandled \in X \cup D THEN NoDirective ELSE dp.beingPreHandled
        /\ ToCancel' = ToCancel
    BY <1>1 DEF Settles, Moves, Queued, Canceling, ToCancel
  <2>2. NoDirective \notin D /\ offered' = offered
    BY <1>1, DirectiveAssumption DEF Settles
  <2>3. (Queued' \cup {dp'.beingPreHandled}) \cap (Canceling' \cup ToCancel') = {}
    <3>1. Queued' \cap (Canceling' \cup ToCancel') = {}
      BY <2>1 DEF PlacesInv
    <3>2. dp'.beingPreHandled \notin Canceling' \cup ToCancel'
      BY <1>0, <2>1, <2>2 DEF PlacesInv
    <3> QED BY <3>1, <3>2
  <2>4. Canceling' \cup ToCancel' \subseteq Elements(offered')
    BY <1>0, <2>1, <2>2 DEF PlacesInv
  <2>5. proc'.pc # "canceling" => proc'.temp = << >>
    BY <1>1 DEF PlacesInv, Settles
  <2>6. preHandled' \subseteq Elements(offered') /\ Routed' \cap preHandled' = {}
    BY <1>1 DEF PlacesInv, Settles
  <2>7. blocking' \subseteq handled' /\ InHand' \cap blocking' = {}
    BY <1>0, <1>1 DEF PlacesInv, Settles
  <2> QED BY <2>3, <2>4, <2>5, <2>6, <2>7 DEF PlacesInv
<1>2. ASSUME NEW d \in Directives, Accept(d) PROVE PlacesInv'
  <2>1. Queued' = Queued /\ Canceling' = Canceling /\ ToCancel' = ToCancel
    BY <1>2, AcceptPlaces DEF Queued, Canceling, ToCancel
  <2>2. Routed' = {d}
    BY <1>2, AcceptPlaces DEF Routed
  <2> QED BY <1>0, <1>2, <2>1, <2>2, AcceptPlaces DEF PlacesInv
<1>3. CASE EnterPreHandle
  <2>1. /\ UNCHANGED <<dp, proc, offered, handled, blocking>> /\ rx'.pc = "inHandler"
        /\ preHandled' = preHandled \cup {rx.directive} /\ rx.directive \in Elements(offered)
    BY <1>3 DEF EnterPreHandle, TypeInv, TypeOK, ThreadsHoldDirectives
  <2>2. Queued' = Queued /\ Canceling' = Canceling /\ ToCancel' = ToCancel /\ Routed' = {} /\ InHand' = InHand
    BY <2>1 DEF Queued, Canceling, ToCancel, Routed, InHand
  <2> QED BY <2>1, <2>2 DEF PlacesInv
<1>4. CASE Queues
  <2>1. Queued' = Queued \cup {dp.beingPreHandled} /\ Canceling' = Canceling /\ ToCancel' = ToCancel
    BY <1>4, QueuesPlaces DEF Queued, Canceling, ToCancel
  <2>2. Routed' = {}
    BY <1>4, QueuesPlaces DEF Routed
  <2> QED BY <1>0, <1>4, <2>1, <2>2, QueuesPlaces DEF PlacesInv, calls
<1>5. CASE TakeCancelingQueue
  <2>1. Queued' = Queued /\ Canceling' = {} /\ ToCancel' = Canceling /\ Routed' = Routed /\ InHand' = {}
    BY <1>5, TakePlaces DEF Queued, Canceling, Routed, InHand
  <2> QED BY <1>5, <2>1, TakePlaces DEF PlacesInv, calls
<1>6. CASE Cancel
  <2>1. Queued' = Queued /\ Canceling' = Canceling /\ Routed' = Routed /\ InHand' = {}
    BY <1>6, CancelPlaces DEF Queued, Canceling, Routed, InHand
  <2> QED BY <1>6, <2>1, CancelPlaces DEF PlacesInv
<1>7. CASE StartHandling
  <2> PICK d : d = Head(dp.handlingQueue)
    OBVIOUS
  <2>1. Queued' = Queued /\ Canceling' = Canceling /\ ToCancel' = ToCancel /\ Routed' = Routed
    BY <1>7, StartPlaces DEF Queued, Canceling, ToCancel, Routed
  <2> QED BY <1>0, <1>7, <2>1, StartPlaces DEF PlacesInv
<1> QED BY <1>1, <1>2, <1>3, <1>4, <1>5, <1>6, <1>7, StepKinds DEF OtherSteps

LEMMA PlacesInit == Init => PlacesInv
BY DEF Init, PlacesInv, Queued, Canceling, ToCancel, Routed, InHand, Elements

-----------------------------------------------------------------------------
(* Nothing is forgotten *)

\* Every directive that a handler holds, or is about to, is in one of the places, or its
\* handler was asked, or has reported.
KeptInv ==
  \A d \in preHandled \cup Routed :
    \/ d \in {dp.beingPreHandled} \cup Pending \cup ToCancel
    \/ d \in handled \cup canceled \cup reported

\* No step loses a directive that a handler holds or is about to.
LEMMA KeptStep ==
  ASSUME TypeInv, FrontInv, PlacesInv, KeptInv, [Next]_vars
  PROVE  KeptInv'
<1>1. ASSUME NEW X \in SUBSET Directives, NEW D \in SUBSET Directives, Settles(X, D) PROVE KeptInv'
  <2>1. /\ Pending' = (Queued \ (X \cup D))
                      \cup ((Canceling \cup ((Queued \cup {dp.beingPreHandled}) \cap D)) \ X)
        /\ dp'.beingPreHandled = IF dp.beingPreHandled \in X \cup D THEN NoDirective ELSE dp.beingPreHandled
        /\ ToCancel' = ToCancel
    BY <1>1 DEF Settles, Moves, Queued, Canceling, ToCancel, Pending
  <2>2. /\ preHandled' \cup Routed' \subseteq preHandled \cup Routed
        /\ handled \subseteq handled' /\ canceled \subseteq canceled' /\ reported \subseteq reported'
        /\ X \cap (preHandled' \cup Routed') \subseteq handled' \cup reported'
    BY <1>1 DEF Settles
  <2> QED BY <2>1, <2>2 DEF KeptInv, Pending
<1>2. ASSUME NEW d \in Directives, Accept(d) PROVE KeptInv'
  <2>1. Pending' = Pending /\ ToCancel' = ToCancel
    BY <1>2, AcceptPlaces DEF Queued, Canceling, ToCancel, Pending
  <2>2. Routed' = {d} /\ dp'.beingPreHandled = d
    BY <1>2, AcceptPlaces DEF Routed
  <2>3. dp.beingPreHandled = NoDirective
    BY <1>2 DEF Accept, OnDirective, FrontInv, PreHandledIsReceived
  <2>4. NoDirective \notin preHandled
    BY DirectiveAssumption DEF TypeInv, TypeOK
  <2> QED BY <1>2, <2>1, <2>2, <2>3, <2>4, AcceptPlaces DEF KeptInv
<1>3. CASE EnterPreHandle
  <2>1. /\ UNCHANGED <<dp, proc, handled, canceled, reported>>
        /\ preHandled' \cup Routed' = preHandled \cup Routed
    BY <1>3 DEF EnterPreHandle, TypeInv, TypeOK, Routed
  <2>2. Pending' = Pending /\ ToCancel' = ToCancel
    BY <2>1 DEF Pending, Queued, Canceling, ToCancel
  <2> QED BY <2>1, <2>2 DEF KeptInv
<1>4. CASE Queues
  <2>1. Queued' = Queued \cup {dp.beingPreHandled} /\ Canceling' = Canceling /\ ToCancel' = ToCancel
    BY <1>4, QueuesPlaces DEF Queued, Canceling, ToCancel
  <2>2. Routed' = {} /\ UNCHANGED calls
    BY <1>4, QueuesPlaces DEF Routed
  <2> QED BY <2>1, <2>2 DEF KeptInv, calls, Pending
<1>5. CASE TakeCancelingQueue
  <2>1. Queued' = Queued /\ Canceling' = {} /\ ToCancel' = Canceling /\ Routed' = Routed
    BY <1>5, TakePlaces DEF Queued, Canceling, Routed
  <2>2. ToCancel = {}
    BY <1>5, TakePlaces DEF PlacesInv, ToCancel, Elements
  <2> QED BY <1>5, <2>1, <2>2, TakePlaces DEF KeptInv, calls, Pending
<1>6. CASE Cancel
  <2>1. Pending' = Pending /\ Routed' = Routed
    BY <1>6, CancelPlaces DEF Pending, Queued, Canceling, Routed
  <2> QED BY <1>6, <2>1, CancelPlaces DEF KeptInv
<1>7. CASE StartHandling
  <2> PICK d : d = Head(dp.handlingQueue)
    OBVIOUS
  <2>1. Pending' = Pending /\ ToCancel' = ToCancel /\ Routed' = Routed
    BY <1>7, StartPlaces DEF Pending, Queued, Canceling, ToCancel, Routed
  <2> QED BY <1>7, <2>1, StartPlaces DEF KeptInv
<1> QED BY <1>1, <1>2, <1>3, <1>4, <1>5, <1>6, <1>7, StepKinds DEF OtherSteps

\* For every number of directives: whatever calls overlap, a directive that a handler holds is
\* on its way to be handled or canceled, or the handler was asked, or has reported.
THEOREM NothingIsForgotten == Spec => []NothingForgotten
<1>1. Init => TypeInv /\ FrontInv /\ PlacesInv /\ KeptInv
  BY TypeInit, FrontInit, PlacesInit DEF Init, KeptInv, Routed
<1>2. TypeInv /\ FrontInv /\ PlacesInv /\ KeptInv /\ [Next]_vars
        => TypeInv' /\ FrontInv' /\ PlacesInv' /\ KeptInv'
  BY TypeStep, FrontStep, PlacesStep, KeptStep
<1>3. TypeInv /\ FrontInv /\ KeptInv => NothingForgotten
  BY DirectiveAssumption DEF KeptInv, NothingForgotten, FrontInv, PreHandledIsReceived, TypeInv, TypeOK, ToCancel
<1> QED BY <1>1, <1>2, <1>3, PTL DEF Spec

-----------------------------------------------------------------------------
(* Blocking *)

\* What is being handled under BlockingPolicy::BLOCKING, or may turn out to be, is the marked
\* front until it is reported or to be canceled.
HeldInv ==
  \A d \in blocking \cup InHand :
    d = Front(dp) \/ d \in reported \cup Canceling \cup ToCancel \cup canceled

\* What holds up the queue leaves the front only when it is reported or canceled.
LEMMA HeldStep ==
  ASSUME TypeInv, FrontInv, PlacesInv, HeldInv, [Next]_vars
  PROVE  HeldInv'
<1>1. ASSUME NEW X \in SUBSET Directives, NEW D \in SUBSET Directives, Settles(X, D) PROVE HeldInv'
  <2>1. /\ Canceling' = (Canceling \cup ((Queued \cup {dp.beingPreHandled}) \cap D)) \ X
        /\ Front(dp') = IF Front(dp) \in X \cup D THEN NoDirective ELSE Front(dp)
        /\ ToCancel' = ToCancel
    BY <1>1 DEF Settles, Moves, Queued, Canceling, ToCancel
  <2>2. /\ blocking' \cup InHand' \subseteq blocking \cup InHand /\ canceled' = canceled
        /\ reported \subseteq reported' /\ X \cap (blocking' \cup InHand') \subseteq reported'
    BY <1>1 DEF Settles
  <2>3. Front(dp) \in Queued \cup {NoDirective}
    BY DEF Front, Queued, Elements, FrontInv, FrontHolds, TypeInv, TypeOK, Members
  <2>4. NoDirective \notin blocking \cup InHand
    BY DirectiveAssumption DEF InHand, TypeInv, TypeOK, ThreadsHoldDirectives
  <2> HIDE DEF Front
  <2> QED BY <2>1, <2>2, <2>3, <2>4 DEF HeldInv
<1>2. ASSUME NEW d \in Directives, Accept(d) PROVE HeldInv'
  <2>1. Canceling' = Canceling /\ ToCancel' = ToCancel /\ Front(dp') = Front(dp)
    BY <1>2, AcceptPlaces DEF Canceling, ToCancel, Front
  <2> QED BY <1>2, <2>1, AcceptPlaces DEF HeldInv
<1>3. CASE EnterPreHandle
  BY <1>3 DEF EnterPreHandle, HeldInv, InHand, Front, Canceling, ToCancel
<1>4. CASE Queues
  <2>1. Canceling' = Canceling /\ ToCancel' = ToCancel
    BY <1>4, QueuesPlaces DEF Canceling, ToCancel
  <2> QED BY <1>4, <2>1, QueuesPlaces DEF HeldInv, calls
<1>5. CASE TakeCancelingQueue
  <2>1. Canceling' = {} /\ ToCancel' = Canceling /\ InHand' = {} /\ Front(dp') = Front(dp)
    BY <1>5, TakePlaces DEF Canceling, InHand, Front
  <2>2. ToCancel = {}
    BY <1>5, TakePlaces DEF PlacesInv, ToCancel, Elements
  <2> QED BY <1>5, <2>1, <2>2, TakePlaces DEF HeldInv, calls
<1>6. CASE Cancel
  <2>1. Canceling' = Canceling /\ InHand' = {} /\ Front(dp') = Front(dp)
    BY <1>6, CancelPlaces DEF Canceling, InHand, Front
  <2> QED BY <1>6, <2>1, CancelPlaces DEF HeldInv
<1>7. CASE StartHandling
  <2> PICK d : d = Head(dp.handlingQueue)
    OBVIOUS
  <2>1. Canceling' = Canceling /\ ToCancel' = ToCancel
    BY <1>7, StartPlaces DEF Canceling, ToCancel
  <2>2. NoDirective \notin blocking
    BY DirectiveAssumption DEF TypeInv, TypeOK
  <2>3. /\ Front(dp') = d /\ Front(dp) = NoDirective /\ InHand' = {d}
        /\ UNCHANGED <<blocking, canceled, reported>>
    BY <1>7, StartPlaces
  <2>4. \A e \in blocking : e \in reported \cup Canceling \cup ToCancel \cup canceled
    BY <2>2, <2>3 DEF HeldInv
  <2> QED BY <2>1, <2>3, <2>4 DEF HeldInv
<1> QED BY <1>1, <1>2, <1>3, <1>4, <1>5, <1>6, <1>7, StepKinds DEF OtherSteps

\* For every number of directives: a directive handled under BlockingPolicy::BLOCKING stays the
\* marked front of the queue, so that none is handled meanwhile, until it is reported or is
\* to be canceled.
THEOREM BlockingHolds == Spec => []BlockingHoldsQueue
<1>1. Init => TypeInv /\ FrontInv /\ PlacesInv /\ HeldInv
  BY TypeInit, FrontInit, PlacesInit DEF Init, HeldInv, InHand
<1>2. TypeInv /\ FrontInv /\ PlacesInv /\ HeldInv /\ [Next]_vars
        => TypeInv' /\ FrontInv' /\ PlacesInv' /\ HeldInv'
  BY TypeStep, FrontStep, PlacesStep, HeldStep
<1>3. TypeInv /\ HeldInv => BlockingHoldsQueue
  <2> SUFFICES ASSUME TypeInv, HeldInv, NEW d \in blocking \ reported
               PROVE  \/ dp.isHandling /\ Head(dp.handlingQueue) = d
                      \/ d \in Canceling \cup Elements(proc.temp) \cup canceled
    BY DEF BlockingHoldsQueue
  <2>1. d # NoDirective
    BY DirectiveAssumption DEF TypeInv, TypeOK
  <2> QED BY <2>1 DEF HeldInv, Front, ToCancel
<1> QED BY <1>1, <1>2, <1>3, PTL DEF Spec

-----------------------------------------------------------------------------
(* The order of handling *)

\* a was offered before b.
Before(a, b) == \E i, j \in DOMAIN offered : i < j /\ offered[i] = a /\ offered[j] = b

\* The queue is in the order of arrival, the directive being pre-handled came last, and what
\* arrived before a handled directive and is still there is handled, too.
OrderInv ==
  /\ NoRepeats(offered)
  /\ InOrderOf(dp.handlingQueue, offered)
  /\ dp.beingPreHandled # NoDirective => offered # << >> /\ dp.beingPreHandled = offered[Len(offered)]
  /\ \A a \in Queued \cup {dp.beingPreHandled} : \A b \in handled : Before(a, b) => a \in handled

\* The order of arrival is kept: only the directive that came last is appended.
LEMMA OrderStep ==
  ASSUME TypeInv, FrontInv, PlacesInv, OrderInv, [Next]_vars
  PROVE  OrderInv'
<1>0. /\ Queued \subseteq Elements(offered) /\ handled \subseteq Elements(offered)
      /\ Elements(offered) \subseteq Directives /\ offered \in Seq(Directives)
      /\ \A b : ~Before(NoDirective, b)
  <2>1. Elements(offered) \subseteq Directives /\ offered \in Seq(Directives)
    BY DequeTypes DEF TypeInv, TypeOK
  <2>2. \A a, b : Before(a, b) => a \in Elements(offered)
    BY DEF Before, Elements
  <2> QED BY <2>1, <2>2, DirectiveAssumption DEF FrontInv, CallsAgree, Queued
<1>1. /\ Len(offered) \in Nat /\ DOMAIN offered = 1 .. Len(offered)
  BY <1>0
<1>2. ASSUME UNCHANGED <<offered, handled>>, InOrderOf(dp'.handlingQueue, dp.handlingQueue),
             Queued' \subseteq Queued, dp'.beingPreHandled \in {dp.beingPreHandled, NoDirective}
      PROVE  OrderInv'
  <2>1. InOrderOf(dp'.handlingQueue, offered')
    BY <1>2, InOrderTransitive DEF OrderInv
  <2>2. \A a, b : Before(a, b)' <=> Before(a, b)
    BY <1>2 DEF Before
  <2>3. \A a \in Queued' \cup {dp'.beingPreHandled} : \A b \in handled' : Before(a, b)' => a \in handled'
    BY <1>0, <1>2, <2>2 DEF OrderInv
  <2> QED BY <1>2, <2>1, <2>3 DEF OrderInv
<1>3. InOrderOf(dp.handlingQueue, dp.handlingQueue)
  BY DEF InOrderOf
<1>4. ASSUME NEW X \in SUBSET Directives, NEW D \in SUBSET Directives, Settles(X, D) PROVE OrderInv'
  BY <1>2, <1>4 DEF Settles, Moves, Queued
<1>5. ASSUME NEW d \in Directives, Accept(d) PROVE OrderInv'
  <2>1. /\ offered' = Append(offered, d) /\ d \notin Elements(offered) /\ handled' = handled
        /\ dp'.handlingQueue = dp.handlingQueue /\ dp'.beingPreHandled = d /\ Queued' = Queued
    BY <1>5, AcceptPlaces DEF Queued
  <2>2. /\ Len(offered') = Len(offered) + 1 /\ DOMAIN offered' = 1 .. (Len(offered) + 1)
        /\ offered'[Len(offered) + 1] = d
        /\ \A i \in 1 .. Len(offered) : offered'[i] = offered[i] /\ offered[i] # d
    BY <1>0, <1>1, <2>1 DEF Elements
  <2>3. \A i \in 1 .. (Len(offered) + 1) : i \in 1 .. Len(offered) \/ i = Len(offered) + 1
    BY <1>1
  <2>4. NoRepeats(offered')
    BY <1>1, <2>2, <2>3 DEF OrderInv, NoRepeats
  <2>5. InOrderOf(dp'.handlingQueue, offered')
    <3>1. InOrderOf(offered, offered')
      BY <1>1, <2>2 DEF InOrderOf
    <3> QED BY <2>1, <3>1, InOrderTransitive DEF OrderInv
  <2>6. offered' # << >> /\ dp'.beingPreHandled = offered'[Len(offered')]
    BY <1>0, <2>1, <2>2
  <2>7. ASSUME NEW a, NEW b \in handled, Before(a, b)' PROVE Before(a, b)
    <3>1. PICK i, j \in 1 .. (Len(offered) + 1) : i < j /\ offered'[i] = a /\ offered'[j] = b
      BY <2>2, <2>7 DEF Before
    <3>2. j # Len(offered) + 1
      BY <1>0, <2>1, <2>2, <3>1
    <3>3. j \in 1 .. Len(offered) /\ i \in 1 .. Len(offered)
      BY <1>1, <3>1, <3>2
    <3> QED BY <1>1, <2>2, <3>1, <3>3 DEF Before
  <2>8. \A a \in Queued' \cup {dp'.beingPreHandled} : \A b \in handled' : Before(a, b)' => a \in handled'
    <3>1. \A b : ~Before(d, b)
      BY <2>1 DEF Before, Elements
    <3> QED BY <2>1, <2>7, <3>1 DEF OrderInv
  <2> QED BY <2>4, <2>5, <2>6, <2>8 DEF OrderInv
<1>6. CASE EnterPreHandle \/ TakeCancelingQueue \/ Cancel
  <2>1. /\ UNCHANGED <<offered, handled>> /\ dp'.handlingQueue = dp.handlingQueue
        /\ dp'.beingPreHandled = dp.beingPreHandled
    BY <1>6, TakePlaces, CancelPlaces DEF EnterPreHandle, calls
  <2> QED BY <1>2, <1>3, <2>1 DEF Queued
<1>7. CASE Queues
  <2> PICK d : d = rx.directive
    OBVIOUS
  <2> PICK q : q = dp.handlingQueue
    OBVIOUS
  <2>1. /\ dp.beingPreHandled = d /\ d \in Directives /\ d \notin Queued
        /\ dp'.handlingQueue = Append(q, d) /\ dp'.beingPreHandled = NoDirective
        /\ Queued' = Queued \cup {d} /\ UNCHANGED <<offered, handled>>
    BY <1>7, QueuesPlaces DEF calls, Queued
  <2>2. d = offered[Len(offered)] /\ Len(offered) \in 1 .. Len(offered)
    BY <1>0, <2>1, DirectiveAssumption DEF OrderInv
  <2>3. q \in Seq(Directives) /\ Elements(q) = Queued
    BY DEF TypeInv, TypeOK, Members, Queued
  <2>4. InOrderOf(dp'.handlingQueue, offered)
    <3> PICK r : r = Append(q, d)
      OBVIOUS
    <3>1. /\ Len(q) \in Nat /\ DOMAIN r = 1 .. (Len(q) + 1) /\ DOMAIN q = 1 .. Len(q)
          /\ r[Len(q) + 1] = d /\ \A i \in 1 .. Len(q) : r[i] = q[i]
      BY <2>1, <2>3
    <3> SUFFICES ASSUME NEW k \in 1 .. (Len(q) + 1), NEW l \in 1 .. (Len(q) + 1), k < l
                 PROVE  \E i, j \in DOMAIN offered : i < j /\ r[k] = offered[i] /\ r[l] = offered[j]
      BY <2>1, <3>1 DEF InOrderOf
    <3>2. k \in 1 .. Len(q) /\ r[k] = q[k] /\ r[k] \in Queued
      BY <2>3, <3>1 DEF Elements
    <3>3. CASE l \in 1 .. Len(q)
      BY <3>1, <3>2, <3>3 DEF OrderInv, InOrderOf
    <3>4. CASE l = Len(q) + 1
      <4>1. PICK i \in 1 .. Len(offered) : offered[i] = r[k]
        BY <1>0, <1>1, <3>2 DEF Elements
      <4>2. i < Len(offered)
        BY <1>1, <2>1, <2>2, <3>2, <4>1
      <4> QED BY <1>1, <2>2, <3>1, <3>4, <4>1, <4>2
    <3> QED BY <3>1, <3>3, <3>4
  <2>5. \A a, b : Before(a, b)' <=> Before(a, b)
    BY <2>1 DEF Before
  <2>6. \A a \in Queued' \cup {dp'.beingPreHandled} : \A b \in handled' : Before(a, b)' => a \in handled'
    BY <1>0, <2>1, <2>5 DEF OrderInv
  <2> QED BY <2>1, <2>4, <2>6 DEF OrderInv
<1>8. CASE StartHandling
  <2> PICK d : d = Head(dp.handlingQueue)
    OBVIOUS
  <2> PICK q : q = dp.handlingQueue
    OBVIOUS
  <2>1. /\ dp'.handlingQueue = q /\ dp'.beingPreHandled = dp.beingPreHandled /\ Queued' = Queued
        /\ d \in Queued /\ handled' = handled \cup {d} /\ offered' = offered
    BY <1>8, StartPlaces DEF Queued
  <2>2. q \in Seq(Directives) /\ Elements(q) = Queued /\ DOMAIN q = 1 .. Len(q)
    BY DEF TypeInv, TypeOK, Members, Queued
  <2>3. q # << >> /\ d = q[1] /\ 1 \in 1 .. Len(q)
    BY <2>1, <2>2 DEF Elements
  <2>4. \A a, b : Before(a, b)' <=> Before(a, b)
    BY <2>1 DEF Before
  <2>5. ASSUME NEW a \in Queued \cup {dp.beingPreHandled}, Before(a, d) PROVE a = d
    <3>1. PICK i, j \in 1 .. Len(offered) : i < j /\ offered[i] = a /\ offered[j] = d
      BY <1>1, <2>5 DEF Before
    <3>2. CASE a \in Queued
      <4>1. PICK k \in 1 .. Len(q) : a = q[k]
        BY <2>2, <3>2 DEF Elements
      <4>2. CASE k # 1
        <5>1. 1 < k
          BY <4>2
        <5>2. PICK m, n \in 1 .. Len(offered) : m < n /\ d = offered[m] /\ a = offered[n]
          BY <1>1, <2>2, <2>3, <4>1, <5>1 DEF OrderInv, InOrderOf
        <5>3. m = j /\ n = i
          BY <1>1, <3>1, <5>2 DEF OrderInv, NoRepeats
        <5> QED BY <3>1, <5>2, <5>3
      <4> QED BY <2>3, <4>1, <4>2
    <3>3. CASE a = dp.beingPreHandled /\ a # NoDirective
      <4>1. a = offered[Len(offered)] /\ Len(offered) \in 1 .. Len(offered)
        BY <1>1, <3>1, <3>3 DEF OrderInv
      <4>2. i = Len(offered)
        BY <1>1, <3>1, <4>1 DEF OrderInv, NoRepeats
      <4> QED BY <1>1, <3>1, <4>2
    <3> QED BY <1>0, <2>5, <3>2, <3>3
  <2>6. \A a \in Queued' \cup {dp'.beingPreHandled} : \A b \in handled' : Before(a, b)' => a \in handled'
    BY <2>1, <2>4, <2>5 DEF OrderInv
  <2> QED BY <2>1, <2>6 DEF OrderInv
<1> QED BY <1>4, <1>5, <1>6, <1>7, <1>8, StepKinds DEF OtherSteps

LEMMA OrderInit == Init => OrderInv
BY DEF Init, OrderInv, NoRepeats, InOrderOf, Queued, Elements

\* What becomes handled was queued.
LEMMA NewlyHandled ==
  ASSUME TypeInv, FrontInv, PlacesInv, [Next]_vars, NEW d \in handled' \ handled
  PROVE  d \in Queued
<1>1. StartHandling
  <2>1. \A X, D : Settles(X, D) => handled' = handled
    BY DEF Settles
  <2>2. (\E e \in Directives : Accept(e)) => handled' = handled
    BY AcceptPlaces
  <2>3. EnterPreHandle \/ Queues \/ TakeCancelingQueue \/ Cancel => handled' = handled
    BY DEF EnterPreHandle, Queues, ReturnPreHandle, TakeCancelingQueue, Cancel, calls
  <2> QED BY <2>1, <2>2, <2>3, StepKinds DEF OtherSteps
<1> QED BY <1>1, StartPlaces

\* For every number of directives: no directive is passed to its handler after one that
\* arrived later, whatever is canceled, reported or rejected meanwhile.
THEOREM HandledInOrderOfArrival == Spec => HandledInOrder
<1>1. Init => TypeInv /\ FrontInv /\ PlacesInv /\ OrderInv
  BY TypeInit, FrontInit, PlacesInit, OrderInit
<1>2. TypeInv /\ FrontInv /\ PlacesInv /\ OrderInv /\ [Next]_vars
        => TypeInv' /\ FrontInv' /\ PlacesInv' /\ OrderInv'
  BY TypeStep, FrontStep, PlacesStep, OrderStep
<1>3. TypeInv /\ FrontInv /\ PlacesInv /\ OrderInv /\ [Next]_vars
        => [\A i, j \in DOMAIN offered :
              i < j /\ offered[i] \in handled' \ handled => offered[j] \notin handled]_vars
  <2> SUFFICES ASSUME TypeInv, FrontInv, PlacesInv, OrderInv, [Next]_vars,
                      NEW i \in DOMAIN offered, NEW j \in DOMAIN offered, i < j,
                      offered[i] \in handled' \ handled, offered[j] \in handled
               PROVE  FALSE
    OBVIOUS
  <2>1. offered[i] \in Queued
    BY NewlyHandled
  <2>2. Before(offered[i], offered[j])
    BY DEF Before
  <2> QED BY <2>1, <2>2 DEF OrderInv
<1> QED BY <1>1, <1>2, <1>3, PTL DEF Spec, HandledInOrder

-----------------------------------------------------------------------------
(* The life of a directive *)

\* Phase, of the sets of directives that it depends on.
PhaseOf(e, off, pre, queued, front, canceling) ==
  IF e \notin Elements(off) THEN "new"
  ELSE IF e = pre THEN "offered"
  ELSE IF e \in queued THEN (IF front = e THEN "handling" ELSE "pending")
  ELSE IF e \in canceling THEN "canceling"
  ELSE "over"

\* The phase of a directive is a function of the queues alone.
LEMMA PhaseIs ==
  ASSUME NEW e, e # NoDirective
  PROVE  Phase(e) = PhaseOf(e, offered, dp.beingPreHandled, Queued, Front(dp), Canceling \cup ToCancel)
BY DEF Phase, PhaseOf, Front, ToCancel

\* What a step does that takes the directives of X out and cancels those of D, seen as phases.
\* A directive that the processing thread is about to cancel stays in that phase.
LEMMA SettlesPhases ==
  ASSUME TypeInv, FrontInv, PlacesInv, NEW X \in SUBSET Directives, NEW D \in SUBSET Directives,
         Settles(X, D), NEW e \in Directives
  PROVE  Phase(e)' = IF e \in X \ ToCancel THEN "over"
                     ELSE IF e \in D /\ Phase(e) \in {"offered", "pending", "handling"} THEN "canceling"
                     ELSE Phase(e)
<1>1. /\ Queued' = Queued \ (X \cup D)
      /\ Canceling' = (Canceling \cup ((Queued \cup {dp.beingPreHandled}) \cap D)) \ X
      /\ dp'.beingPreHandled = IF dp.beingPreHandled \in X \cup D THEN NoDirective ELSE dp.beingPreHandled
      /\ Front(dp') = IF Front(dp) \in X \cup D THEN NoDirective ELSE Front(dp)
      /\ ToCancel' = ToCancel /\ offered' = offered /\ X \subseteq Elements(offered)
  BY DEF Settles, Moves, EndTogether, Queued, Canceling, ToCancel
<1>2. e # NoDirective
  BY DirectiveAssumption
<1>3. /\ (Queued \cup {dp.beingPreHandled}) \cap (Canceling \cup ToCancel) = {}
      /\ Queued \cup Canceling \cup ToCancel \subseteq Elements(offered)
      /\ dp.beingPreHandled # NoDirective => dp.beingPreHandled \in Elements(offered)
      /\ dp.beingPreHandled \notin Queued
  BY DEF PlacesInv, FrontInv, FrontHolds, CallsAgree, Queued
<1>4. Phase(e) = PhaseOf(e, offered, dp.beingPreHandled, Queued, Front(dp), Canceling \cup ToCancel)
  BY <1>2, PhaseIs
<1>5. Phase(e)' = PhaseOf(e, offered', dp'.beingPreHandled, Queued', Front(dp'), Canceling' \cup ToCancel')
  BY <1>2 DEF Phase, PhaseOf, Front, ToCancel
<1> HIDE DEF Front, Phase
<1> QED BY <1>1, <1>2, <1>3, <1>4, <1>5 DEF PhaseOf

\* One directive advances from a phase to another, the others stay where they are.
LEMMA Advances ==
  ASSUME NEW d \in Directives, NEW from, NEW to, Phase(d) = from, Phase(d)' = to,
         \A e \in Directives \ {d} : Phase(e)' = Phase(e)
  PROVE  Lifecycle!Advance(d, from, to)
BY DEF Lifecycle!Advance

\* A step of the processor is a step of the abstract specification, or none.
LEMMA LifeStep ==
  ASSUME TypeInv, FrontInv, PlacesInv, [Next]_vars
  PROVE  [Lifecycle!Next]_[d \in Directives |-> Phase(d)]
<1> DEFINE Goal == [Lifecycle!Next]_[d \in Directives |-> Phase(d)]
<1>0. \A e \in Directives : e # NoDirective
  BY DirectiveAssumption
<1>1. /\ (Queued \cup {dp.beingPreHandled}) \cap (Canceling \cup ToCancel) = {}
      /\ Queued \cup Canceling \cup ToCancel \subseteq Elements(offered)
      /\ dp.beingPreHandled # NoDirective => dp.beingPreHandled \in Elements(offered)
      /\ dp.beingPreHandled \notin Queued
  BY DEF PlacesInv, FrontInv, FrontHolds, CallsAgree, Queued
<1>2. \A e \in Directives :
        Phase(e) = PhaseOf(e, offered, dp.beingPreHandled, Queued, Front(dp), Canceling \cup ToCancel)
  BY <1>0, PhaseIs
<1>3. \A e \in Directives :
        Phase(e)' = PhaseOf(e, offered', dp'.beingPreHandled, Queued', Front(dp'), Canceling' \cup ToCancel')
  <2> SUFFICES ASSUME NEW e \in Directives
               PROVE Phase(e)' = PhaseOf(e, offered', dp'.beingPreHandled, Queued', Front(dp'), Canceling' \cup ToCancel')
    OBVIOUS
  <2>1. e # NoDirective
    BY <1>0
  <2> QED BY <2>1 DEF Phase, PhaseOf, Front, ToCancel
<1>4. ASSUME \A e \in Directives : Phase(e)' = Phase(e) PROVE Goal
  BY <1>4
<1> HIDE DEF Goal
<1>5. ASSUME NEW X \in SUBSET Directives, NEW D \in SUBSET Directives, Settles(X, D) PROVE Goal
  <2> PICK Y : Y = X \ ToCancel
    OBVIOUS
  <2>1. \A e \in Directives :
          Phase(e)' = IF e \in Y THEN "over"
                      ELSE IF e \in D /\ Phase(e) \in {"offered", "pending", "handling"} THEN "canceling"
                      ELSE Phase(e)
    BY <1>5, SettlesPhases
  <2>2. Lifecycle!End(Y, D)
    BY <2>1 DEF Lifecycle!End, Lifecycle!Active
  <2>3. \A d \in X : Phase(d) # "new"
    BY <1>2, <1>5 DEF Settles, EndTogether, PhaseOf
  <2>4. /\ X = {} \/ \E d \in Directives : X = {d}
        /\ \/ D = {}
           \/ D = Directives /\ X = {}
           \/ \E id \in Dialogs : D = OfDialog(id) /\ \A d \in X : DialogOf[d] = id
    BY <1>5 DEF Settles, EndTogether
  <2>5. \A id \in Dialogs : OfDialog(id) = {e \in Directives : DialogOf[e] = id}
    BY DialogAssumption DEF OfDialog
  <2>6. CASE Y = {}
    <3>1. CASE D = {}
      BY <1>4, <2>1, <2>6, <3>1
    <3>2. CASE D = Directives
      <4>1. Lifecycle!CancelAll
        BY <2>2, <2>6, <3>2 DEF Lifecycle!CancelAll
      <4> QED BY <4>1 DEF Goal, Lifecycle!Next
    <3>3. CASE \E id \in Dialogs : D = OfDialog(id)
      <4>1. PICK id \in Dialogs : D = OfDialog(id)
        BY <3>3
      <4>2. Lifecycle!CancelDialog(id)
        BY <2>2, <2>5, <2>6, <4>1 DEF Lifecycle!CancelDialog
      <4> QED BY <4>2 DEF Goal, Lifecycle!Next
    <3> QED BY <2>4, <3>1, <3>2, <3>3
  <2>7. CASE Y # {}
    <3>1. PICK d \in Directives : X = {d} /\ Y = {d} /\ Phase(d) # "new"
      BY <2>3, <2>4, <2>7
    <3>2. CASE D = {}
      <4>1. Lifecycle!Finish(d)
        BY <2>2, <3>1, <3>2 DEF Lifecycle!Finish
      <4> QED BY <4>1 DEF Goal, Lifecycle!Next
    <3>3. CASE \E id \in Dialogs : D = OfDialog(id) /\ DialogOf[d] = id
      <4>1. DialogOf[d] \in Dialogs /\ D = {e \in Directives : DialogOf[e] = DialogOf[d]}
        BY <2>5, <3>3
      <4>2. Lifecycle!Fail(d)
        BY <2>2, <3>1, <4>1 DEF Lifecycle!Fail
      <4> QED BY <4>1, <4>2 DEF Goal, Lifecycle!Next
    <3> QED BY <2>4, <3>1, <3>2, <3>3
  <2> QED BY <2>6, <2>7
<1>6. ASSUME NEW d \in Directives, Accept(d) PROVE Goal
  <2>1. /\ Elements(offered') = Elements(offered) \cup {d} /\ d \notin Elements(offered)
        /\ dp'.beingPreHandled = d /\ Queued' = Queued /\ Canceling' = Canceling
        /\ ToCancel' = ToCancel /\ Front(dp') = Front(dp) /\ rx.pc = "idle"
    BY <1>6, AcceptPlaces DEF Queued, Canceling, ToCancel, Front
  <2>2. dp.beingPreHandled = NoDirective
    BY <2>1 DEF FrontInv, PreHandledIsReceived
  <2>3. Phase(d) = "new" /\ Phase(d)' = "offered"
    BY <1>2, <1>3, <2>1 DEF PhaseOf
  <2>4. \A e \in Directives \ {d} : Phase(e)' = Phase(e)
    BY <1>0, <1>2, <1>3, <2>1, <2>2 DEF PhaseOf
  <2>5. Lifecycle!InPhase("offered") = {}
    BY <1>0, <1>2, <2>2 DEF PhaseOf, Lifecycle!InPhase
  <2>6. Lifecycle!Offer(d)
    BY <2>3, <2>4, <2>5, Advances DEF Lifecycle!Offer
  <2> QED BY <2>6 DEF Goal, Lifecycle!Next
<1>7. CASE EnterPreHandle
  <2>1. UNCHANGED <<dp, proc, offered>>
    BY <1>7 DEF EnterPreHandle
  <2> QED BY <1>4, <2>1 DEF Phase, Queued, Canceling
<1>8. CASE Queues
  <2> PICK d : d = dp.beingPreHandled
    OBVIOUS
  <2>1. /\ d \in Directives /\ d \notin Queued /\ Queued' = Queued \cup {d} /\ Canceling' = Canceling
        /\ ToCancel' = ToCancel /\ Front(dp') = Front(dp) /\ offered' = offered
        /\ dp'.beingPreHandled = NoDirective
    BY <1>8, QueuesPlaces DEF Queued, Canceling, ToCancel, calls
  <2>2. Front(dp) # d
    BY <1>0, <2>1 DEF FrontInv, FrontHolds, Front, Queued, Elements, TypeInv, TypeOK, Members
  <2>3. Phase(d) = "offered" /\ Phase(d)' = "pending"
    BY <1>0, <1>1, <1>2, <1>3, <2>1, <2>2 DEF PhaseOf
  <2>4. \A e \in Directives \ {d} : Phase(e)' = Phase(e)
    BY <1>0, <1>2, <1>3, <2>1 DEF PhaseOf
  <2>5. Lifecycle!Admit(d)
    BY <2>1, <2>3, <2>4, Advances DEF Lifecycle!Admit
  <2> QED BY <2>1, <2>5 DEF Goal, Lifecycle!Next
<1>9. CASE TakeCancelingQueue
  <2>1. /\ Queued' = Queued /\ Canceling' = {} /\ ToCancel' = Canceling
        /\ Front(dp') = Front(dp) /\ offered' = offered
        /\ dp'.beingPreHandled = dp.beingPreHandled
    BY <1>9, TakePlaces DEF Queued, Canceling, Front, calls
  <2>2. ToCancel = {}
    BY <1>9, TakePlaces DEF PlacesInv, ToCancel, Elements
  <2>3. Canceling \cup ToCancel = Canceling' \cup ToCancel'
    BY <2>1, <2>2
  <2> QED BY <1>2, <1>3, <1>4, <2>1, <2>3
<1>10. CASE Cancel
  <2> PICK d : d = Head(proc.temp)
    OBVIOUS
  <2>1. /\ Queued' = Queued /\ Canceling' = Canceling /\ d \in ToCancel
        /\ ToCancel' \subseteq ToCancel /\ ToCancel \subseteq ToCancel' \cup {d}
        /\ Front(dp') = Front(dp) /\ offered' = offered
        /\ dp'.beingPreHandled = dp.beingPreHandled
    BY <1>10, CancelPlaces DEF Queued, Canceling, Front
  <2>2. d \in Directives /\ d \in Elements(offered)
    BY <1>1, <2>1, DequeTypes DEF TypeInv, TypeOK
  <2>3. \A e \in Directives \ {d} : Phase(e)' = Phase(e)
    BY <1>2, <1>3, <2>1 DEF PhaseOf
  <2>4. CASE d \in Canceling' \cup ToCancel'
    <3>1. Canceling \cup ToCancel = Canceling' \cup ToCancel'
      BY <2>1, <2>4
    <3>2. d \notin Queued /\ d # dp.beingPreHandled
      BY <1>1, <2>1
    <3>3. Phase(d) = "canceling" /\ Phase(d)' = "canceling"
      BY <1>2, <1>3, <2>1, <2>2, <2>4, <3>1, <3>2 DEF PhaseOf
    <3> QED BY <1>4, <2>3, <3>3
  <2>5. CASE d \notin Canceling' \cup ToCancel'
    <3>1. Phase(d) # "new" /\ Phase(d)' = "over"
      BY <1>1, <1>2, <1>3, <2>1, <2>2, <2>5 DEF PhaseOf
    <3>2. Lifecycle!Finish(d)
      BY <2>2, <2>3, <3>1 DEF Lifecycle!Finish, Lifecycle!End
    <3> QED BY <2>2, <3>2 DEF Goal, Lifecycle!Next
  <2> QED BY <2>4, <2>5
<1>11. CASE StartHandling
  <2> PICK d : d = Head(dp.handlingQueue)
    OBVIOUS
  <2>1. /\ Queued' = Queued /\ Canceling' = Canceling /\ ToCancel' = ToCancel
        /\ Front(dp) = NoDirective /\ Front(dp') = d /\ offered' = offered
        /\ dp'.beingPreHandled = dp.beingPreHandled /\ d \in Directives /\ d \in Queued
    BY <1>11, StartPlaces DEF Queued, Canceling, ToCancel
  <2>2. Phase(d) = "pending" /\ Phase(d)' = "handling"
    <3>1. d \in Elements(offered) /\ d # dp.beingPreHandled /\ d # NoDirective
      BY <1>0, <1>1, <2>1
    <3> QED BY <1>2, <1>3, <2>1, <3>1 DEF PhaseOf
  <2>3. \A e \in Directives \ {d} : Phase(e)' = Phase(e)
    BY <1>0, <1>2, <1>3, <2>1 DEF PhaseOf
  <2>4. Lifecycle!InPhase("handling") = {}
    <3>1. \A e \in Directives : Phase(e) # "handling"
      BY <1>0, <1>2, <2>1 DEF PhaseOf
    <3> QED BY <3>1 DEF Lifecycle!InPhase
  <2>5. Lifecycle!Begin(d)
    BY <2>1, <2>2, <2>3, <2>4, Advances DEF Lifecycle!Begin
  <2> QED BY <2>1, <2>5 DEF Goal, Lifecycle!Next
<1> QED BY <1>5, <1>6, <1>7, <1>8, <1>9, <1>10, <1>11, StepKinds DEF OtherSteps, Goal

\* For every number of directives and dialogs: the processor implements the abstract life of a
\* directive.  Every critical section and every return of a call is one abstract step or none.
THEOREM LifecycleImplemented == Spec => ImplementsLifecycle
<1>1. Init => TypeInv /\ FrontInv /\ PlacesInv
  BY TypeInit, FrontInit, PlacesInit
<1>2. TypeInv /\ FrontInv /\ PlacesInv /\ [Next]_vars => TypeInv' /\ FrontInv' /\ PlacesInv'
  BY TypeStep, FrontStep, PlacesStep
<1>3. Init => Lifecycle!Init
  <2> SUFFICES ASSUME Init, NEW d \in Directives PROVE Phase(d) = "new"
    BY DEF Lifecycle!Init
  <2> QED BY DEF Init, Phase, Elements
<1>4. TypeInv /\ FrontInv /\ PlacesInv /\ [Next]_vars => [Lifecycle!Next]_[d \in Directives |-> Phase(d)]
  BY LifeStep
<1> QED BY <1>1, <1>2, <1>3, <1>4, PTL DEF Spec, ImplementsLifecycle, Lifecycle!Spec

-----------------------------------------------------------------------------
(* Nobody sleeps who has something to do *)

\* What the processing thread waits for, in a value of the guarded members.
Wakes(s) ==
  \/ s.cancelingQueue # << >>
  \/ s.handlingQueue # << >> /\ ~s.isHandling
  \/ s.isShuttingDown

\* From s to t the thread is notified when there has come to be something to wait for.
Notifies(s, t) == (s.notify => t.notify) /\ (Wakes(t) => Wakes(s) \/ t.notify)

\* scrubDialogRequestIdLocked() notifies whenever it moves a directive to the canceling queue.
LEMMA ScrubbedNotifies ==
  ASSUME NEW s \in Members, NEW id, NEW t, t = Scrubbed(s, id)
  PROVE  Notifies(s, t)
<1> DEFINE D == OfDialog(id)
           q == s.handlingQueue
<1>1. /\ t.notify = (s.notify \/ Moved(s, D) # << >>) /\ t.isShuttingDown = s.isShuttingDown
      /\ t.handlingQueue = Without(q, D) /\ t.isHandling = (s.isHandling /\ ~FrontIn(s, D))
      /\ t.cancelingQueue = s.cancelingQueue \o Moved(s, D)
  BY DEF Scrubbed, Members
<1>2. q \in Seq(Directives) /\ s.cancelingQueue \in Seq(Directives)
  BY DEF Members
<1>3. Keep(q, D) \in Seq(Directives) /\ Elements(Keep(q, D)) = Elements(q) \cap D
      /\ Elements(Without(q, D)) = Elements(q) \ D /\ Without(q, D) \in Seq(Directives)
  BY <1>2, DequeTypes
<1> HIDE DEF D, q
<1>4. Keep(q, D) # << >> => Moved(s, D) # << >>
  BY <1>3 DEF Moved, q
<1>5. FrontIn(s, D) => Keep(q, D) # << >>
  <2> SUFFICES ASSUME FrontIn(s, D), Keep(q, D) = << >> PROVE FALSE
    OBVIOUS
  <2>1. q # << >> /\ Head(q) \in D
    BY DEF FrontIn, q
  <2>2. Head(q) \in Elements(q)
    BY <1>2, <2>1 DEF Elements
  <2>3. Elements(Keep(q, D)) = {}
    BY DEF Elements
  <2> QED BY <1>3, <2>1, <2>2, <2>3
<1>6. Without(q, D) # << >> => q # << >>
  <2> SUFFICES ASSUME Without(q, D) # << >>, q = << >> PROVE FALSE
    OBVIOUS
  <2>1. Elements(q) = {}
    BY DEF Elements
  <2>2. Head(Without(q, D)) \in Elements(Without(q, D))
    BY <1>3 DEF Elements
  <2> QED BY <1>3, <2>1, <2>2
<1>7. t.cancelingQueue # << >> => s.cancelingQueue # << >> \/ Moved(s, D) # << >>
  BY <1>1
<1> QED BY <1>1, <1>4, <1>5, <1>6, <1>7 DEF Notifies, Wakes, q

\* So does every other function that runs with the mutex held, as far as it has to.
LEMMA LockedFunctionsNotify ==
  ASSUME NEW s \in Members
  PROVE  /\ \A id \in Ids : Notifies(s, WithDialog(s, id))
         /\ \A d \in Directives : Notifies(s, Removed(s, d))
         /\ Notifies(s, AllForCancellation(s))
         /\ \A d \in Directives, b \in BOOLEAN : ~s.notify => Notifies(s, Admitted(s, d, b))
<1>1. ASSUME NEW id \in Ids PROVE Notifies(s, WithDialog(s, id))
  <2> DEFINE u == Scrubbed(s, s.dialogRequestId)
  <2>1. Notifies(s, u) /\ u \in Members
    BY ScrubbedNotifies, ScrubbedType DEF Members
  <2>2. WithDialog(s, id) \in {s, [u EXCEPT !.dialogRequestId = id]}
    BY DEF WithDialog
  <2> HIDE DEF u
  <2>3. Notifies(s, s) /\ Notifies(s, [u EXCEPT !.dialogRequestId = id])
    BY <2>1 DEF Notifies, Wakes, Members
  <2> QED BY <2>2, <2>3
<1>2. ASSUME NEW d \in Directives PROVE Notifies(s, Removed(s, d))
  BY DEF Notifies, Wakes, Removed, Members
<1>3. Notifies(s, AllForCancellation(s))
  <2> DEFINE t == AllForCancellation(s)
  <2>1. /\ t.cancelingQueue = s.cancelingQueue \o All(s) /\ t.notify = (s.notify \/ All(s) # << >>)
        /\ t.handlingQueue = << >> /\ t.isShuttingDown = s.isShuttingDown
    BY DEF AllForCancellation, Members
  <2>2. s.cancelingQueue \in Seq(Directives)
    BY DEF Members
  <2>3. t.cancelingQueue # << >> => s.cancelingQueue # << >> \/ All(s) # << >>
    BY <2>1, <2>2
  <2> HIDE DEF t
  <2>4. Notifies(s, t)
    BY <2>1, <2>3 DEF Notifies, Wakes
  <2> QED BY <2>4 DEF t
<1>4. ASSUME NEW d \in Directives, NEW b \in BOOLEAN, ~s.notify PROVE Notifies(s, Admitted(s, d, b))
  <2> DEFINE t == Admitted(s, d, b)
  <2>1. /\ t.cancelingQueue = s.cancelingQueue /\ t.isHandling = s.isHandling
        /\ t.isShuttingDown = s.isShuttingDown
        /\ t.handlingQueue = s.handlingQueue \/ t.notify
    BY DEF Admitted, Members
  <2> HIDE DEF t
  <2>2. Notifies(s, t)
    BY <1>4, <2>1 DEF Notifies, Wakes
  <2> QED BY <2>2 DEF t
<1> QED BY <1>1, <1>2, <1>3, <1>4

\* A critical section that notifies leaves nobody asleep who has something to do.
LEMMA ReleaseWakes ==
  ASSUME TypeInv, SleepsOnlyIdle, NEW s \in Members, Notifies(dp, s), Release(s)
  PROVE  SleepsOnlyIdle'
<1>1. dp'.cancelingQueue = s.cancelingQueue /\ dp'.handlingQueue = s.handlingQueue
      /\ dp'.isHandling = s.isHandling /\ dp'.isShuttingDown = s.isShuttingDown
  BY DEF Release, Members
<1>2. proc'.pc = "asleep" => proc.pc = "asleep" /\ ~s.notify
  BY DEF Release, TypeInv, TypeOK
<1> QED BY <1>1, <1>2 DEF SleepsOnlyIdle, Wake, Wakes, Notifies

\* Each action of the processor keeps the sleeping thread idle and leaves no notification open.
LEMMA SleepStep ==
  ASSUME TypeInv, SleepsOnlyIdle, ~dp.notify, [Next]_vars
  PROVE  SleepsOnlyIdle' /\ ~dp'.notify
<1>0. dp \in Members
  BY DEF TypeInv, TypeOK
<1>1. ASSUME NEW s \in Members, Notifies(dp, s), Release(s) PROVE SleepsOnlyIdle' /\ ~dp'.notify
  BY <1>1, ReleaseWakes DEF Release, Members
<1>2. ASSUME NEW s \in Members, Release(s),
             s.notify \/ (/\ s.cancelingQueue = dp.cancelingQueue /\ s.handlingQueue = dp.handlingQueue
                          /\ s.isHandling = dp.isHandling /\ s.isShuttingDown = dp.isShuttingDown)
      PROVE  SleepsOnlyIdle' /\ ~dp'.notify
  BY <1>1, <1>2 DEF Notifies, Wakes
<1>3. ASSUME NEW id \in Ids, SetDialogRequestId(id) PROVE SleepsOnlyIdle' /\ ~dp'.notify
  BY <1>0, <1>1, <1>3, LockedFunctionsNotify, WithDialogType DEF SetDialogRequestId
<1>4. CASE Disable \/ QueueAll
  <2>1. AllForCancellation(dp) \in Members
    BY <1>0, AllForCancellationType
  <2> DEFINE u == AllForCancellation(dp)
             s == [u EXCEPT !.isEnabled = FALSE, !.notify = TRUE]
             t == [u EXCEPT !.isShuttingDown = TRUE, !.notify = TRUE]
  <2>2. Release(s) \/ Release(t)
    BY <1>4 DEF Disable, QueueAll
  <2> HIDE DEF u
  <2>3. s \in Members /\ s.notify /\ t \in Members /\ t.notify
    BY <2>1 DEF Members, u
  <2> HIDE DEF s, t
  <2> QED BY <1>2, <2>2, <2>3
<1>5. CASE Enable \/ \E d \in Directives : Accept(d)
  <2> DEFINE Same(s) == /\ s.cancelingQueue = dp.cancelingQueue /\ s.handlingQueue = dp.handlingQueue
                        /\ s.isHandling = dp.isHandling /\ s.isShuttingDown = dp.isShuttingDown
  <2>1. CASE Enable
    <3>1. [dp EXCEPT !.isEnabled = TRUE] \in Members /\ Same([dp EXCEPT !.isEnabled = TRUE])
      BY <1>0 DEF Members
    <3> QED BY <1>2, <2>1, <3>1 DEF Enable
  <2>2. ASSUME NEW d \in Directives, Accept(d) PROVE SleepsOnlyIdle' /\ ~dp'.notify
    <3>1. [dp EXCEPT !.beingPreHandled = d] \in Members /\ Same([dp EXCEPT !.beingPreHandled = d])
      BY <1>0 DEF Members
    <3> QED BY <1>2, <2>2, <3>1 DEF Accept
  <2> QED BY <1>5, <2>1, <2>2
<1>6. ASSUME NEW b \in BOOLEAN, ReturnPreHandle(b) PROVE SleepsOnlyIdle' /\ ~dp'.notify
  <2>1. rx.directive \in Directives
    BY <1>6, DequeTypes DEF ReturnPreHandle, TypeInv, TypeOK, ThreadsHoldDirectives
  <2> DEFINE s == Admitted(dp, rx.directive, b)
  <2>2. Release(s)
    BY <1>6 DEF ReturnPreHandle
  <2>3. s \in Members /\ Notifies(dp, s)
    BY <1>0, <2>1, LockedFunctionsNotify, AdmittedType
  <2> HIDE DEF s
  <2> QED BY <1>1, <2>2, <2>3
<1>7. ASSUME NEW d \in Directives, SetCompleted(d) PROVE SleepsOnlyIdle' /\ ~dp'.notify
  <2>1. Release(IF isRegistered THEN Removed(dp, d) ELSE dp)
    BY <1>7 DEF SetCompleted
  <2>2. Notifies(dp, dp)
    BY DEF Notifies
  <2> QED BY <1>0, <1>1, <2>1, <2>2, LockedFunctionsNotify, RemovedType
<1>8. ASSUME NEW d \in Directives, SetFailed(d) PROVE SleepsOnlyIdle' /\ ~dp'.notify
  <2> DEFINE u == Removed(dp, d)
             v == Scrubbed(u, DialogOf[d])
  <2>1. Release(IF isRegistered THEN v ELSE dp)
    BY <1>8 DEF SetFailed
  <2>2. u \in Members /\ Notifies(dp, u)
    BY <1>0, LockedFunctionsNotify, RemovedType
  <2>3. v \in Members /\ Notifies(u, v)
    BY <2>2, ScrubbedNotifies, ScrubbedType
  <2> HIDE DEF u, v
  <2>4. Notifies(dp, v) /\ Notifies(dp, dp)
    BY <2>2, <2>3 DEF Notifies
  <2> QED BY <1>0, <1>1, <2>1, <2>3, <2>4
<1>9. CASE Sleep
  BY <1>9 DEF Sleep, SleepsOnlyIdle, Wake
<1>10. CASE TakeCancelingQueue \/ Cancel \/ StartHandling \/ Exit \/ \E reply \in Replies : ReturnHandle(reply)
  <2>1. proc'.pc # "asleep"
    BY <1>10 DEF TakeCancelingQueue, Cancel, StartHandling, Exit, ReturnHandle, TypeInv, TypeOK
  <2>2. dp' = dp \/ ~dp'.notify
    <3>1. CASE \E reply \in Replies : ReturnHandle(reply)
      <4>1. PICK reply \in Replies : ReturnHandle(reply)
        BY <3>1
      <4>2. proc.directive \in Directives
        BY <4>1 DEF ReturnHandle, TypeInv, TypeOK, ThreadsHoldDirectives
      <4>3. Handled(dp, proc.directive, reply) \in Members
        BY <1>0, <4>1, <4>2, HandledType
      <4> QED BY <4>1, <4>3 DEF ReturnHandle, Members
    <3> QED BY <1>0, <1>10, <3>1 DEF TakeCancelingQueue, Cancel, StartHandling, Exit, Members
  <2> QED BY <2>1, <2>2 DEF SleepsOnlyIdle
<1>11. CASE EnterPreHandle \/ EraseHandle \/ Join \/ UNCHANGED vars \/ \E d \in Directives : Refuse(d)
  BY <1>11 DEF EnterPreHandle, EraseHandle, Join, Refuse, vars, SleepsOnlyIdle, Wake
<1> QED BY <1>3, <1>4, <1>5, <1>6, <1>7, <1>8, <1>9, <1>10, <1>11
        DEF Next, Client, Receiving, Handler, Processing, Shutdown

\* For every number of directives and dialogs: the processing thread does not sleep through
\* anything that it has to do, so that no notify_one() is missing.
THEOREM NoWakeUpIsLost == Spec => []SleepsOnlyIdle
<1>1. Init => TypeInv /\ SleepsOnlyIdle /\ ~dp.notify
  BY TypeInit DEF Init, SleepsOnlyIdle
<1>2. TypeInv /\ (SleepsOnlyIdle /\ ~dp.notify) /\ [Next]_vars => TypeInv' /\ (SleepsOnlyIdle /\ ~dp.notify)'
  BY TypeStep, SleepStep
<1> QED BY <1>1, <1>2, PTL DEF Spec

-----------------------------------------------------------------------------
(* The sequencer: what is asked and queued was pre-handled *)

\* What the steps do that are not the receiving thread's.
LEMMA ReceiverSteps ==
  ASSUME [Next]_vars
  PROVE  \/ \E d \in Directives : Accept(d)
         \/ EnterPreHandle
         \/ \E wasHandled \in BOOLEAN : ReturnPreHandle(wasHandled)
         \/ UNCHANGED <<rx, offered, preHandled>>
<1>1. Client => UNCHANGED <<rx, offered, preHandled>>
  BY DEF Client, Disable, Enable, SetDialogRequestId, calls
<1>2. Handler => UNCHANGED <<rx, offered, preHandled>>
  BY DEF Handler, SetCompleted, SetFailed, calls
<1>3. Processing => UNCHANGED <<rx, offered, preHandled>>
  BY DEF Processing, Sleep, TakeCancelingQueue, Cancel, StartHandling, Exit, ReturnHandle, calls
<1>4. Shutdown => UNCHANGED <<rx, offered, preHandled>>
  BY DEF Shutdown, EraseHandle, QueueAll, Join, calls
<1>5. ASSUME NEW d \in Directives, Refuse(d) PROVE UNCHANGED <<rx, offered, preHandled>>
  BY <1>5 DEF Refuse, vars, calls
<1>6. UNCHANGED vars => UNCHANGED <<rx, offered, preHandled>>
  BY DEF vars, calls
<1> QED BY <1>1, <1>2, <1>3, <1>4, <1>5, <1>6 DEF Next, Receiving

\* Only directives that a handler was given to pre-handle are queued and handled.
ReceivedInv ==
  /\ Queued \cup handled \subseteq preHandled
  /\ rx.pc = "inHandler" => rx.directive \in preHandled

\* Only the return from a handler that was entered queues a directive.
LEMMA ReceivedStep ==
  ASSUME TypeInv, FrontInv, PlacesInv, ReceivedInv, [Next]_vars
  PROVE  ReceivedInv'
<1>1. preHandled \subseteq preHandled' /\ (rx'.pc = "inHandler" => rx'.directive \in preHandled')
  <2>1. ASSUME NEW d \in Directives, Accept(d)
        PROVE  preHandled' = preHandled /\ rx'.pc = "routing"
    BY <2>1 DEF Accept
  <2>2. EnterPreHandle => preHandled' = preHandled \cup {rx.directive} /\ rx'.directive = rx.directive
    BY DEF EnterPreHandle, TypeInv, TypeOK
  <2>3. ASSUME NEW w \in BOOLEAN, ReturnPreHandle(w)
        PROVE  preHandled' = preHandled /\ rx'.pc = "idle"
    BY <2>3 DEF ReturnPreHandle, calls
  <2> QED BY <2>1, <2>2, <2>3, ReceiverSteps DEF ReceivedInv
<1>2. ASSUME NEW X \in SUBSET Directives, NEW D \in SUBSET Directives, Settles(X, D)
      PROVE  Queued' \cup handled' \subseteq preHandled
  BY <1>2 DEF Settles, Moves, Queued, ReceivedInv
<1>3. ASSUME NEW d \in Directives, Accept(d) PROVE Queued' \cup handled' \subseteq preHandled
  <2>1. handled' = handled /\ Queued' = Queued
    BY <1>3, AcceptPlaces DEF Queued
  <2> QED BY <2>1 DEF ReceivedInv
<1>4. EnterPreHandle => Queued' \cup handled' \subseteq preHandled
  BY DEF EnterPreHandle, Queued, ReceivedInv
<1>5. Queues => Queued' \cup handled' \subseteq preHandled'
  <2> SUFFICES ASSUME Queues PROVE Queued' \cup handled' \subseteq preHandled'
    OBVIOUS
  <2>1. Queued' = Queued \cup {rx.directive} /\ handled' = handled /\ rx.pc = "inHandler"
    BY QueuesPlaces DEF Queued, Queues, ReturnPreHandle, calls
  <2> QED BY <1>1, <2>1 DEF ReceivedInv
<1>6. TakeCancelingQueue \/ Cancel => Queued' \cup handled' \subseteq preHandled
  BY DEF TakeCancelingQueue, Cancel, Queued, ReceivedInv, TypeInv, TypeOK, Members, calls
<1>7. StartHandling => Queued' \cup handled' \subseteq preHandled
  BY StartPlaces DEF Queued, ReceivedInv
<1>8. Queued' \cup handled' \subseteq preHandled'
  BY <1>1, <1>2, <1>3, <1>4, <1>5, <1>6, <1>7, StepKinds DEF OtherSteps
<1> QED BY <1>1, <1>8 DEF ReceivedInv

-----------------------------------------------------------------------------
(* The sequencer: every directive is answered once *)

\* The directive that the receiving thread holds, and how many it has taken.
Holds == recv.pc \in {"taken", "processor"}
TakenCount == Len(arrived) - Len(seq.receivingQueue)

\* Answers other than the processor's.
Answers == immediate \cup dropped \cup sent

\* What is still waiting came last, what was answered came before it, and the receiving
\* thread holds the directive in between, which has no answer yet.
ArrivalInv ==
  /\ TakenCount \in Nat
  /\ \A i \in DOMAIN seq.receivingQueue : seq.receivingQueue[i] = arrived[TakenCount + i]
  /\ NoRepeats(arrived)
  /\ Answers \cup Elements(offered) \subseteq {arrived[i] : i \in 1 .. TakenCount}
  /\ rx.pc # "idle" => recv.pc = "processor" /\ recv.directive = rx.directive
  /\ Holds => /\ TakenCount > 0 /\ recv.directive = arrived[TakenCount]
              /\ recv.directive \notin Answers
              /\ rx.pc = "idle" => recv.directive \notin Elements(offered)

SeqInv == SeqTypeOK /\ TypeInv /\ FrontInv /\ PlacesInv /\ ReceivedInv /\ ArrivalInv

\* The queue is a part of what arrived, so the directive in hand is one of them.
LEMMA InHandArrived ==
  ASSUME SeqTypeOK, ArrivalInv, Holds
  PROVE  recv.directive \in Directives /\ TakenCount \in DOMAIN arrived
<1>1. TakenCount \in 1 .. Len(arrived)
  BY DEF SeqTypeOK, ArrivalInv, TakenCount
<1> QED BY <1>1 DEF SeqTypeOK, ArrivalInv

\* Every step of the sequencer is a step of the processor.
LEMMA SequencerStepsProcessor ==
  ASSUME SeqTypeOK, ArrivalInv, [SeqNext]_allVars
  PROVE  [Next]_vars
<1>1. CASE SeqClient
  <2>1. ASSUME NEW d \in Directives, DirectiveArrives(d) PROVE UNCHANGED vars
    BY <2>1 DEF DirectiveArrives
  <2>2. ASSUME NEW id \in Ids, ChangeDialog(id) PROVE Next
    BY <2>2 DEF ChangeDialog, Next, Client
  <2>3. BeginDisable => Next
    BY DEF BeginDisable, Next, Client, Ids
  <2>4. EnableAll => Next
    BY DEF EnableAll, Next, Client
  <2>5. BeginShutdown => UNCHANGED vars
    BY DEF BeginShutdown
  <2> QED BY <1>1, <2>1, <2>2, <2>3, <2>4, <2>5 DEF SeqClient
<1>2. CASE EndDisable
  BY <1>2 DEF EndDisable, Next, Client
<1>3. CASE RecvStep
  <2>1. RecvSleep \/ RecvExit \/ Take \/ HandleImmediately \/ CallProcessor => UNCHANGED vars
    BY DEF RecvSleep, RecvExit, Take, HandleImmediately, CallProcessor
  <2>2. ProcessorRefuses => UNCHANGED vars
    BY DEF ProcessorRefuses, Refuse
  <2>3. ProcessorAccepts => \E d \in Directives : Accept(d)
    BY InHandArrived DEF ProcessorAccepts, Holds
  <2>4. ASSUME NEW w \in BOOLEAN, ProcessorReturns(w) PROVE Next
    BY <2>4 DEF ProcessorReturns, Next, Receiving
  <2> QED BY <1>3, <2>1, <2>2, <2>3, <2>4 DEF RecvStep, Next, Receiving
<1>4. CASE Handler /\ UNCHANGED seqVars
  BY <1>4 DEF Next
<1>5. CASE Processing /\ UNCHANGED seqVars
  BY <1>5 DEF Next
<1>6. CASE ShutdownStep
  BY <1>6 DEF ShutdownStep, ShutdownProcessor, ProcessorShutdown, Next, Shutdown
<1>7. CASE UNCHANGED allVars
  BY <1>7 DEF allVars
<1> QED BY <1>1, <1>2, <1>3, <1>4, <1>5, <1>6, <1>7 DEF SeqNext

-----------------------------------------------------------------------------
\* The receiving thread at most lets go of its directive, and no answer is given.
Quiet ==
  /\ UNCHANGED <<arrived, immediate, dropped, sent, offered>>
  /\ seq'.receivingQueue = seq.receivingQueue
  /\ \/ recv'.pc \notin {"taken", "processor"} /\ rx'.pc = "idle"
     \/ /\ recv'.directive = recv.directive /\ rx'.directive = rx.directive
        /\ rx'.pc = "idle" <=> rx.pc = "idle"
        /\ recv'.pc \in {"taken", "processor"} => recv.pc \in {"taken", "processor"}
        /\ recv.pc = "processor" => recv'.pc = "processor"
  /\ preHandled' \subseteq preHandled \cup (IF rx.pc = "idle" THEN {} ELSE {rx.directive})

\* The receiving thread answers the directive it holds, without the processor or because the
\* processor found no handler, and takes another.
Answer ==
  /\ Holds /\ (rx.pc = "idle" \/ rx.pc = "routing") /\ rx'.pc = "idle" /\ recv' = Finished
  /\ UNCHANGED <<arrived, offered, preHandled>> /\ seq'.receivingQueue = seq.receivingQueue
  /\ \/ rx.pc = "idle" /\ immediate' = immediate \cup {recv.directive} /\ UNCHANGED <<dropped, sent>>
     \/ rx.pc = "idle" /\ dropped' = dropped \cup {recv.directive} /\ UNCHANGED <<immediate, sent>>
     \/ sent' = sent \cup {recv.directive} /\ UNCHANGED <<immediate, dropped>>

\* The kinds of steps that the sequencer takes.
LEMMA SequencerSteps ==
  ASSUME SeqTypeOK, TypeInv, ArrivalInv, [SeqNext]_allVars
  PROVE  \/ \E d \in Directives : DirectiveArrives(d)
         \/ Take
         \/ ProcessorAccepts
         \/ Answer
         \/ Quiet
<1>0. /\ seq \in [isEnabled : BOOLEAN, isShuttingDown : BOOLEAN, receivingQueue : Seq(Directives),
              holder : {"none", "disabling"}]
      /\ recv \in [pc : RecvPcs, directive : Directives \cup {NoDirective}]
      /\ rx \in [pc : ReceivePcs, directive : Directives \cup {NoDirective}]
      /\ rx.pc # "idle" => recv.pc = "processor"
  BY DEF SeqTypeOK, TypeInv, TypeOK, ArrivalInv
<1>1. /\ Woken(recv).directive = recv.directive
      /\ Woken(recv).pc \in {"taken", "processor"} => recv.pc \in {"taken", "processor"}
      /\ recv.pc = "processor" => Woken(recv).pc = "processor"
  BY <1>0 DEF Woken
<1>2. ASSUME UNCHANGED <<arrived, immediate, dropped, sent, offered, rx, preHandled>>,
             seq'.receivingQueue = seq.receivingQueue, recv' \in {recv, Woken(recv)}
      PROVE  Quiet
  BY <1>1, <1>2 DEF Quiet
<1>3. Client => UNCHANGED <<rx, offered, preHandled>>
  BY DEF Client, Disable, Enable, SetDialogRequestId, calls
<1>4. Handler => UNCHANGED <<rx, offered, preHandled>>
  BY DEF Handler, SetCompleted, SetFailed, calls
<1>5. Processing => UNCHANGED <<rx, offered, preHandled>>
  BY DEF Processing, Sleep, TakeCancelingQueue, Cancel, StartHandling, Exit, ReturnHandle, calls
<1>6. Shutdown => UNCHANGED <<rx, offered, preHandled>>
  BY DEF Shutdown, EraseHandle, QueueAll, Join, calls
<1>7. ASSUME NEW id \in Ids, ChangeDialog(id) PROVE Quiet
  BY <1>2, <1>3, <1>7 DEF ChangeDialog, Client, seqVars
<1>8. BeginDisable \/ EndDisable \/ EnableAll => Quiet
  BY <1>0, <1>2, <1>3 DEF BeginDisable, EndDisable, EnableAll, Client, Ids
<1>9. BeginShutdown => Quiet
  BY <1>0, <1>2 DEF BeginShutdown, vars, calls
<1>10. RecvSleep \/ RecvExit => Quiet
  BY <1>0 DEF RecvSleep, RecvExit, RecvLoop, Quiet, vars, calls
<1>11. HandleImmediately => Answer
  BY <1>0 DEF HandleImmediately, Answer, Holds, vars, calls
<1>12. CallProcessor => Quiet
  BY <1>0 DEF CallProcessor, Quiet, vars, calls
<1>13. ProcessorRefuses => Answer
  BY <1>0 DEF ProcessorRefuses, Refuse, OnDirective, Answer, Holds, vars, calls
<1>14. ASSUME NEW w \in BOOLEAN, ProcessorReturns(w) PROVE Answer \/ Quiet
  <2>1. /\ recv.pc = "processor" /\ rx'.pc = "idle" /\ recv' = Finished
        /\ UNCHANGED <<arrived, offered, preHandled, immediate, dropped>> /\ seq' = seq
    BY <1>14 DEF ProcessorReturns, ReturnPreHandle, calls
  <2>2. CASE w
    BY <1>14, <2>1, <2>2 DEF ProcessorReturns, Answered, Quiet, Finished
  <2>3. CASE ~w
    BY <1>14, <2>1, <2>3 DEF ProcessorReturns, ReturnPreHandle, Answered, Answer, Holds
  <2> QED BY <2>2, <2>3
<1>15. EnterPreHandle /\ UNCHANGED seqVars => Quiet
  BY <1>0 DEF EnterPreHandle, seqVars, Quiet
<1>16. (Handler \/ Processing \/ Shutdown) /\ UNCHANGED seqVars => Quiet
  BY <1>2, <1>4, <1>5, <1>6 DEF seqVars
<1>17. ShutdownStep => Quiet
  BY <1>16 DEF ShutdownStep, ShutdownProcessor, ProcessorShutdown, Shutdown
<1>18. UNCHANGED allVars => Quiet
  BY <1>2 DEF allVars, seqVars, vars, calls
<1> QED
  BY <1>7, <1>8, <1>9, <1>10, <1>11, <1>12, <1>13, <1>14, <1>15, <1>16, <1>17, <1>18
  DEF SeqNext, SeqClient, RecvStep

\* What is waiting and what arrived, in numbers.
LEMMA ArrivalNumbers ==
  ASSUME SeqTypeOK, ArrivalInv
  PROVE  /\ Len(arrived) \in Nat /\ DOMAIN arrived = 1 .. Len(arrived)
         /\ DOMAIN seq.receivingQueue = 1 .. Len(seq.receivingQueue)
         /\ Len(seq.receivingQueue) \in Nat
         /\ TakenCount + Len(seq.receivingQueue) = Len(arrived) /\ TakenCount \in Nat
BY DEF SeqTypeOK, ArrivalInv, TakenCount

\* Every step keeps the types of the sequencer's variables.
LEMMA SeqTypeStep ==
  ASSUME SeqTypeOK, TypeOK', ArrivalInv, [SeqNext]_allVars
  PROVE  SeqTypeOK'
<1>0. /\ seq \in [isEnabled : BOOLEAN, isShuttingDown : BOOLEAN, receivingQueue : Seq(Directives),
              holder : {"none", "disabling"}]
      /\ recv \in [pc : RecvPcs, directive : Directives \cup {NoDirective}]
      /\ arrived \in Seq(Directives)
      /\ immediate \subseteq Directives /\ dropped \subseteq Directives /\ sent \subseteq Directives
      /\ Holds => recv.directive \in Directives
  BY InHandArrived DEF SeqTypeOK
<1> DEFINE Goal == SeqTypeOK'
<1>1. ASSUME UNCHANGED seqVars PROVE Goal
  BY <1>0, <1>1 DEF seqVars, SeqTypeOK
<1>2. /\ Woken(recv) \in [pc : RecvPcs, directive : Directives \cup {NoDirective}]
      /\ Finished \in [pc : RecvPcs, directive : Directives \cup {NoDirective}]
  BY <1>0 DEF Woken, Finished, RecvPcs
<1>3. ASSUME NEW d \in Directives, DirectiveArrives(d) PROVE Goal
  <2>1. PICK q : q = Append(seq.receivingQueue, d)
    OBVIOUS
  <2>2. q \in Seq(Directives) /\ Append(arrived, d) \in Seq(Directives)
    BY <1>0, <2>1
  <2> QED BY <1>0, <1>2, <1>3, <2>1, <2>2 DEF DirectiveArrives, SeqTypeOK
<1>4. ASSUME NEW id \in Ids, ChangeDialog(id) PROVE Goal
  BY <1>1, <1>4 DEF ChangeDialog
<1>5. BeginDisable \/ EndDisable \/ EnableAll \/ BeginShutdown => Goal
  BY <1>0, <1>2 DEF BeginDisable, EndDisable, EnableAll, BeginShutdown, SeqTypeOK
<1>6. RecvSleep \/ RecvExit => Goal
  BY <1>0 DEF RecvSleep, RecvExit, RecvPcs, SeqTypeOK
<1>7. CASE Take
  <2>1. PICK q : q = seq.receivingQueue
    OBVIOUS
  <2>2. q \in Seq(Directives) /\ q # << >> /\ Head(q) \in Directives /\ Tail(q) \in Seq(Directives)
    BY <1>0, <1>7, <2>1 DEF Take
  <2> QED BY <1>0, <1>7, <2>1, <2>2 DEF Take, RecvPcs, SeqTypeOK
<1>8. HandleImmediately \/ ProcessorRefuses => Goal
  BY <1>0, <1>2 DEF HandleImmediately, ProcessorRefuses, Holds, SeqTypeOK
<1>9. CallProcessor => Goal
  BY <1>0 DEF CallProcessor, RecvPcs, SeqTypeOK
<1>10. ASSUME NEW w \in BOOLEAN, ProcessorReturns(w) PROVE Goal
  BY <1>0, <1>2, <1>10 DEF ProcessorReturns, Holds, SeqTypeOK
<1>11. ProcessorAccepts \/ ShutdownStep => Goal
  BY <1>1 DEF ProcessorAccepts, ShutdownStep, ShutdownProcessor, ProcessorShutdown
<1>12. UNCHANGED allVars => Goal
  BY <1>1 DEF allVars
<1> QED
  BY <1>1, <1>3, <1>4, <1>5, <1>6, <1>7, <1>8, <1>9, <1>10, <1>11, <1>12
  DEF SeqNext, SeqClient, RecvStep

\* A step that leaves both ends of the sequence of arrivals alone keeps the part of the
\* invariant that says where the waiting directives are.
LEMMA QuietKeepsArrivals ==
  ASSUME SeqTypeOK, TypeInv, ArrivalInv, Quiet PROVE ArrivalInv'
<1>1. TakenCount' = TakenCount /\ Answers' = Answers
  BY DEF Quiet, TakenCount, Answers
<1>2. /\ rx'.pc # "idle" => recv'.pc = "processor" /\ recv'.directive = rx'.directive
      /\ Holds' => Holds /\ recv'.directive = recv.directive
      /\ Holds' /\ rx'.pc = "idle" => rx.pc = "idle"
  BY DEF Quiet, Holds, ArrivalInv
<1> QED BY <1>1, <1>2 DEF Quiet, ArrivalInv

\* So does a step that answers the directive in hand ...
LEMMA AnswerKeepsArrivals ==
  ASSUME SeqTypeOK, TypeInv, ArrivalInv, Answer PROVE ArrivalInv'
<1>1. /\ TakenCount' = TakenCount /\ TakenCount \in Nat
      /\ Answers' = Answers \cup {recv.directive} /\ offered' = offered
      /\ arrived' = arrived /\ seq'.receivingQueue = seq.receivingQueue
  BY DEF Answer, TakenCount, Answers, ArrivalInv
<1>2. TakenCount \in 1 .. TakenCount /\ recv.directive = arrived[TakenCount]
  BY DEF Answer, ArrivalInv
<1>3. ~Holds' /\ rx'.pc = "idle"
  BY DEF Answer, Finished, Holds
<1>4. Answers' \cup Elements(offered') \subseteq {arrived'[i] : i \in 1 .. TakenCount'}
  BY <1>1, <1>2 DEF ArrivalInv
<1> QED BY <1>1, <1>3, <1>4 DEF ArrivalInv

\* ... one that offers it to the processor ...
LEMMA AcceptKeepsArrivals ==
  ASSUME SeqTypeOK, TypeInv, ArrivalInv, ProcessorAccepts PROVE ArrivalInv'
<1> PICK d : d = recv.directive
  OBVIOUS
<1>1. /\ recv.pc = "processor" /\ UNCHANGED seqVars /\ d \in Directives /\ Accept(d)
      /\ TakenCount \in 1 .. TakenCount /\ d = arrived[TakenCount] /\ TakenCount \in Nat
  BY InHandArrived DEF ProcessorAccepts, Holds, ArrivalInv
<1>2. /\ Elements(offered') = Elements(offered) \cup {d} /\ rx'.pc = "routing" /\ rx'.directive = d
  BY <1>1, AcceptPlaces
<1>3. TakenCount' = TakenCount /\ Answers' = Answers /\ recv' = recv
      /\ arrived' = arrived /\ seq' = seq
  BY <1>1 DEF seqVars, TakenCount, Answers
<1>4. Answers' \cup Elements(offered') \subseteq {arrived'[i] : i \in 1 .. TakenCount'}
  BY <1>1, <1>2, <1>3 DEF ArrivalInv
<1> QED BY <1>1, <1>2, <1>3, <1>4 DEF ArrivalInv, Holds

\* ... an arrival, which makes the queue longer at its end ...
LEMMA ArrivesKeepsArrivals ==
  ASSUME SeqTypeOK, TypeInv, ArrivalInv, NEW d \in Directives, DirectiveArrives(d)
  PROVE  ArrivalInv'
<1>0. ~Holds \/ recv' = recv
  BY DEF DirectiveArrives, Woken, Holds, SeqTypeOK
<1>1. PICK q : q = seq.receivingQueue
  OBVIOUS
<1>2. PICK n : n = Len(arrived)
  OBVIOUS
<1>3. PICK t : t = TakenCount
  OBVIOUS
<1>4. PICK m : m = Len(q)
  OBVIOUS
<1>5. /\ q \in Seq(Directives) /\ arrived \in Seq(Directives)
      /\ n \in Nat /\ m \in Nat /\ t \in Nat /\ t + m = n /\ DOMAIN arrived = 1 .. n /\ DOMAIN q = 1 .. m
      /\ \A i \in 1 .. m : q[i] = arrived[t + i]
  BY <1>1, <1>2, <1>3, <1>4, ArrivalNumbers DEF SeqTypeOK, ArrivalInv
<1>6. PICK a : a = Append(arrived, d)
  OBVIOUS
<1>7. PICK r : r = Append(q, d)
  OBVIOUS
<1>8. /\ arrived' = a /\ seq'.receivingQueue = r
      /\ UNCHANGED <<vars, immediate, dropped, sent>> /\ d \notin Elements(arrived)
  BY <1>1, <1>6, <1>7 DEF DirectiveArrives, SeqTypeOK
<1>9. /\ Len(a) = n + 1 /\ DOMAIN a = 1 .. (n + 1) /\ a[n + 1] = d
      /\ \A i \in 1 .. n : a[i] = arrived[i] /\ a[i] # d
      /\ Len(r) = m + 1 /\ DOMAIN r = 1 .. (m + 1) /\ r[m + 1] = d /\ \A i \in 1 .. m : r[i] = q[i]
  <2>1. Len(a) = n + 1 /\ DOMAIN a = 1 .. (n + 1) /\ a[n + 1] = d /\ \A i \in 1 .. n : a[i] = arrived[i]
    BY <1>2, <1>5, <1>6
  <2>2. Len(r) = m + 1 /\ DOMAIN r = 1 .. (m + 1) /\ r[m + 1] = d /\ \A i \in 1 .. m : r[i] = q[i]
    BY <1>4, <1>5, <1>7
  <2>3. \A i \in 1 .. n : arrived[i] # d
    BY <1>5, <1>8 DEF Elements
  <2> QED BY <2>1, <2>2, <2>3
<1>10. TakenCount' = t
  BY <1>5, <1>8, <1>9 DEF TakenCount
<1>11. \A i \in DOMAIN r : r[i] = a[t + i]
  <2> SUFFICES ASSUME NEW i \in 1 .. (m + 1) PROVE r[i] = a[t + i]
    BY <1>9
  <2>1. CASE i = m + 1
    BY <1>5, <1>9, <2>1
  <2>2. CASE i \in 1 .. m
    <3>1. t + i \in 1 .. n
      BY <1>5, <2>2
    <3> QED BY <1>5, <1>9, <2>2, <3>1
  <2> QED BY <1>5, <2>1, <2>2
<1>12. NoRepeats(a)
  <2> SUFFICES ASSUME NEW i \in 1 .. (n + 1), NEW j \in 1 .. (n + 1), a[i] = a[j] PROVE i = j
    BY <1>9 DEF NoRepeats
  <2>1. (i \in 1 .. n \/ i = n + 1) /\ (j \in 1 .. n \/ j = n + 1)
    BY <1>5
  <2> QED BY <1>5, <1>9, <2>1 DEF ArrivalInv, NoRepeats
<1>13. {arrived[i] : i \in 1 .. t} = {a[i] : i \in 1 .. t}
  <2>1. \A i \in 1 .. t : i \in 1 .. n
    BY <1>5
  <2> QED BY <1>9, <2>1
<1>14. Answers' = Answers /\ Elements(offered') = Elements(offered) /\ rx' = rx
  BY <1>8 DEF Answers, vars, calls
<1>15. Answers' \cup Elements(offered') \subseteq {arrived'[i] : i \in 1 .. TakenCount'}
  BY <1>3, <1>8, <1>10, <1>13, <1>14 DEF ArrivalInv
<1>16. Holds' => Holds /\ recv' = recv
  BY <1>0 DEF DirectiveArrives, Woken, Holds, SeqTypeOK
<1>17. Holds => t > 0 /\ recv.directive = a[t] /\ t \in Nat
  <2>1. Holds => t > 0 /\ recv.directive = arrived[t]
    BY <1>3 DEF ArrivalInv
  <2>2. t > 0 => t \in 1 .. n
    BY <1>5
  <2> QED BY <1>5, <1>9, <2>1, <2>2
<1>18. rx'.pc # "idle" => recv'.pc = "processor" /\ recv'.directive = rx'.directive
  BY <1>0, <1>14 DEF ArrivalInv, Holds
<1>19. Holds' => /\ TakenCount' > 0 /\ recv'.directive = arrived'[TakenCount']
                 /\ recv'.directive \notin Answers'
                 /\ rx'.pc = "idle" => recv'.directive \notin Elements(offered')
  BY <1>8, <1>10, <1>14, <1>16, <1>17 DEF ArrivalInv
<1> QED BY <1>5, <1>8, <1>10, <1>11, <1>12, <1>15, <1>18, <1>19 DEF ArrivalInv

\* ... and the taking of the first directive that waits.
LEMMA TakeKeepsArrivals ==
  ASSUME SeqTypeOK, TypeInv, ArrivalInv, Take PROVE ArrivalInv'
<1>1. PICK q : q = seq.receivingQueue
  OBVIOUS
<1>2. PICK t : t = TakenCount
  OBVIOUS
<1>3. PICK m : m = Len(q)
  OBVIOUS
<1>4. PICK n : n = Len(arrived)
  OBVIOUS
<1>5. /\ q \in Seq(Directives) /\ q # << >> /\ arrived \in Seq(Directives)
      /\ n \in Nat /\ m \in Nat \ {0} /\ t \in Nat /\ t + m = n /\ DOMAIN arrived = 1 .. n
      /\ DOMAIN q = 1 .. m /\ \A i \in 1 .. m : q[i] = arrived[t + i]
  BY <1>1, <1>2, <1>3, <1>4, ArrivalNumbers DEF SeqTypeOK, ArrivalInv, Take
<1>6. PICK r : r = Tail(q)
  OBVIOUS
<1>7. Len(r) = m - 1 /\ DOMAIN r = 1 .. (m - 1) /\ \A i \in 1 .. (m - 1) : r[i] = q[i + 1]
      /\ Head(q) = q[1]
  BY <1>3, <1>5, <1>6
<1>8. /\ seq'.receivingQueue = r /\ recv' = [pc |-> "taken", directive |-> q[1]]
      /\ UNCHANGED <<vars, arrived, immediate, dropped, sent>> /\ recv.pc = "loop"
  BY <1>1, <1>6, <1>7 DEF Take, RecvLoop, SeqTypeOK
<1>9. TakenCount' = t + 1
  BY <1>4, <1>5, <1>7, <1>8 DEF TakenCount
<1>10. \A i \in DOMAIN r : r[i] = arrived[(t + 1) + i]
  <2> SUFFICES ASSUME NEW i \in 1 .. (m - 1) PROVE r[i] = arrived[(t + 1) + i]
    BY <1>7
  <2>1. i + 1 \in 1 .. m /\ t + (i + 1) = (t + 1) + i
    BY <1>5
  <2> QED BY <1>5, <1>7, <2>1
<1>11. /\ Answers' = Answers /\ offered' = offered /\ rx' = rx
       /\ Answers \cup Elements(offered) \subseteq {arrived[i] : i \in 1 .. t}
  BY <1>2, <1>8 DEF Answers, vars, calls, ArrivalInv
<1>12. {arrived[i] : i \in 1 .. t} \subseteq {arrived[i] : i \in 1 .. (t + 1)}
  <2>1. \A i \in 1 .. t : i \in 1 .. (t + 1)
    BY <1>5
  <2> QED BY <2>1
<1>13. q[1] = arrived[t + 1] /\ t + 1 > 0 /\ t + 1 \in Nat
  <2>1. 1 \in 1 .. m /\ t + 1 > 0 /\ t + 1 \in Nat
    BY <1>5
  <2> QED BY <1>5, <2>1
<1>14. q[1] \notin {arrived[i] : i \in 1 .. t}
  <2> SUFFICES ASSUME NEW i \in 1 .. t, arrived[i] = arrived[t + 1] PROVE FALSE
    BY <1>13
  <2>1. i \in 1 .. n /\ t + 1 \in 1 .. n /\ i # t + 1
    BY <1>5
  <2> QED BY <1>5, <2>1 DEF ArrivalInv, NoRepeats
<1>15. rx.pc = "idle"
  BY <1>8 DEF ArrivalInv
<1>16. Answers' \cup Elements(offered') \subseteq {arrived'[i] : i \in 1 .. TakenCount'}
  BY <1>8, <1>9, <1>11, <1>12
<1> QED BY <1>8, <1>9, <1>10, <1>11, <1>13, <1>14, <1>15, <1>16 DEF ArrivalInv, Holds

LEMMA ReceivedInit == Init => ReceivedInv
BY DEF Init, ReceivedInv, Queued, Elements

LEMMA SeqInvInit == SeqInit => SeqInv
<1> SUFFICES ASSUME SeqInit PROVE SeqInv
  OBVIOUS
<1>1. TypeInv /\ FrontInv /\ PlacesInv /\ ReceivedInv
  BY TypeInit, FrontInit, PlacesInit, ReceivedInit DEF SeqInit
<1>2. SeqTypeOK
  BY <1>1 DEF SeqInit, SeqTypeOK, RecvPcs, TypeInv
<1>3. ArrivalInv
  <2>1. Elements(offered) = {} /\ rx.pc = "idle" /\ Answers = {}
    BY DEF SeqInit, Init, Elements, Answers
  <2>2. TakenCount = 0
    BY DEF SeqInit, TakenCount
  <2> QED BY <2>1, <2>2 DEF SeqInit, ArrivalInv, NoRepeats, Holds
<1> QED BY <1>1, <1>2, <1>3 DEF SeqInv

\* Every step of the sequencer keeps its invariant.
LEMMA SeqInvStep == SeqInv /\ [SeqNext]_allVars => SeqInv'
<1> SUFFICES ASSUME SeqInv, [SeqNext]_allVars PROVE SeqInv'
  OBVIOUS
<1>1. [Next]_vars
  BY SequencerStepsProcessor DEF SeqInv
<1>2. TypeInv' /\ FrontInv' /\ PlacesInv' /\ ReceivedInv'
  BY <1>1, TypeStep, FrontStep, PlacesStep, ReceivedStep DEF SeqInv
<1>3. SeqTypeOK'
  BY <1>2, SeqTypeStep DEF SeqInv, TypeInv
<1>4. ArrivalInv'
  BY SequencerSteps, QuietKeepsArrivals, AnswerKeepsArrivals, AcceptKeepsArrivals,
     ArrivesKeepsArrivals, TakeKeepsArrivals DEF SeqInv
<1> QED BY <1>2, <1>3, <1>4 DEF SeqInv

\* A directive is answered only while it is in hand and has no answer.
LEMMA AnswersStep == SeqInv /\ OneAnswer /\ [SeqNext]_allVars => OneAnswer'
<1> SUFFICES ASSUME SeqInv, OneAnswer, [SeqNext]_allVars PROVE OneAnswer'
  OBVIOUS
<1> USE DEF SeqInv
<1>1. handled \subseteq preHandled /\ handled' \subseteq preHandled'
  BY SeqInvStep DEF ReceivedInv
<1>2. preHandled \subseteq Elements(offered)
  BY DEF PlacesInv
<1>3. ASSUME UNCHANGED <<immediate, dropped, sent, preHandled, offered>> PROVE OneAnswer'
  BY <1>1, <1>3 DEF OneAnswer
<1>4. ASSUME NEW d \in Directives, DirectiveArrives(d) PROVE OneAnswer'
  BY <1>3, <1>4 DEF DirectiveArrives, vars, calls
<1>5. Take => OneAnswer'
  BY <1>3 DEF Take, vars, calls
<1>6. CASE ProcessorAccepts
  <2> PICK d : d = recv.directive
    OBVIOUS
  <2>1. d \in Directives /\ Accept(d) /\ UNCHANGED seqVars /\ Holds /\ d \notin Answers
    BY <1>6, InHandArrived DEF ProcessorAccepts, Holds, ArrivalInv
  <2>2. Elements(offered') = Elements(offered) \cup {d} /\ preHandled' = preHandled
    BY <2>1, AcceptPlaces
  <2>3. UNCHANGED <<immediate, dropped, sent>>
    BY <2>1 DEF seqVars
  <2> QED BY <1>1, <2>1, <2>2, <2>3 DEF OneAnswer, Answers
<1>7. CASE Answer
  <2> PICK d : d = recv.directive
    OBVIOUS
  <2>1. d \notin Answers /\ (rx.pc = "idle" => d \notin Elements(offered)) /\ d \notin preHandled
    BY <1>2, <1>7 DEF Answer, ArrivalInv, PlacesInv, Routed
  <2> QED BY <1>1, <1>2, <1>7, <2>1 DEF Answer, OneAnswer, Answers
<1>8. CASE Quiet
  <2>1. rx.pc # "idle" => rx.directive \notin Answers
    BY DEF ArrivalInv, Holds
  <2> QED BY <1>1, <1>8, <2>1 DEF Quiet, OneAnswer, Answers
<1> QED BY <1>4, <1>5, <1>6, <1>7, <1>8, SequencerSteps

\* No directive gets two answers, and none that some handler was given is answered with an
\* exception, for any number of directives and dialogs: the directive that the receiving
\* thread holds has no answer yet, and what it took before has been answered by it, or was
\* offered to the processor in an earlier round.
THEOREM AnsweredOnceOnly == SeqSpec => []OneAnswer
<1>1. SeqInit => SeqInv /\ OneAnswer
  BY SeqInvInit DEF SeqInit, Init, OneAnswer
<1>2. (SeqInv /\ OneAnswer) /\ [SeqNext]_allVars => (SeqInv /\ OneAnswer)'
  BY SeqInvStep, AnswersStep
<1> QED BY <1>1, <1>2, PTL DEF SeqSpec

-----------------------------------------------------------------------------
(* The sequencer: the order of arrival *)

\* Directives are offered to the processor in the order in which they arrived.
LEMMA OfferedStep ==
  ASSUME SeqInv, InOrderOf(offered, arrived), [SeqNext]_allVars
  PROVE  InOrderOf(offered, arrived)'
<1> USE DEF SeqInv
<1>1. ASSUME NEW d \in Directives, DirectiveArrives(d) PROVE InOrderOf(offered', arrived')
  <2>1. \A i \in DOMAIN arrived : i \in DOMAIN arrived' /\ arrived'[i] = arrived[i]
    <3>1. arrived' = Append(arrived, d) /\ arrived \in Seq(Directives)
      BY <1>1 DEF DirectiveArrives, SeqTypeOK
    <3> QED BY <3>1
  <2>2. offered' = offered
    BY <1>1 DEF DirectiveArrives, vars, calls
  <2> QED BY <2>1, <2>2 DEF InOrderOf
<1>2. Take \/ Answer \/ Quiet => InOrderOf(offered', arrived')
  BY DEF Take, Answer, Quiet, vars, calls
<1>3. CASE ProcessorAccepts
  <2> PICK d : d = recv.directive
    OBVIOUS
  <2> PICK t : t = TakenCount
    OBVIOUS
  <2>1. /\ d \in Directives /\ Accept(d) /\ UNCHANGED seqVars /\ rx.pc = "idle"
        /\ t \in DOMAIN arrived /\ d = arrived[t] /\ d \notin Elements(offered)
        /\ Elements(offered) \subseteq {arrived[i] : i \in 1 .. t}
        /\ DOMAIN arrived = 1 .. Len(arrived) /\ Len(arrived) \in Nat
    BY <1>3, InHandArrived, ArrivalNumbers DEF ProcessorAccepts, Holds, ArrivalInv, Accept, OnDirective
  <2>2. offered' = Append(offered, d) /\ arrived' = arrived
    BY <2>1, AcceptPlaces DEF seqVars
  <2> PICK o : o = offered'
    OBVIOUS
  <2>3. /\ DOMAIN o = 1 .. (Len(offered) + 1) /\ DOMAIN offered = 1 .. Len(offered)
        /\ o[Len(offered) + 1] = d /\ \A i \in 1 .. Len(offered) : o[i] = offered[i]
        /\ Len(offered) \in Nat
    BY <2>2 DEF TypeInv, TypeOK
  <2>4. SUFFICES ASSUME NEW k \in DOMAIN o, NEW l \in DOMAIN o, k < l
                 PROVE  \E i, j \in DOMAIN arrived : i < j /\ o[k] = arrived[i] /\ o[l] = arrived[j]
    BY <2>2 DEF InOrderOf
  <2>5. k \in 1 .. Len(offered) /\ (l \in 1 .. Len(offered) \/ l = Len(offered) + 1)
    BY <2>3, <2>4
  <2>6. CASE l \in 1 .. Len(offered)
    BY <2>3, <2>4, <2>5, <2>6 DEF InOrderOf
  <2>7. CASE l = Len(offered) + 1
    <3>1. o[k] \in Elements(offered)
      BY <2>3, <2>5 DEF Elements
    <3>2. PICK i \in 1 .. t : o[k] = arrived[i]
      BY <2>1, <3>1
    <3>3. o[k] # arrived[t]
      BY <2>1, <3>1
    <3>4. i < t /\ i \in DOMAIN arrived
      BY <2>1, <3>2, <3>3
    <3> QED BY <2>1, <2>3, <2>7, <3>2, <3>4
  <2> QED BY <2>5, <2>6, <2>7
<1> QED BY <1>1, <1>2, <1>3, SequencerSteps

\* Directives reach handleDirective() in the order in which they arrived at the sequencer,
\* across both queues and both threads: they are offered in that order, and handled in the
\* order in which they were offered.
THEOREM HandledAsArrived == SeqSpec => HandledInArrivalOrder
<1> DEFINE Inv == SeqInv /\ OrderInv /\ InOrderOf(offered, arrived)
<1>1. SeqInit => Inv
  <2>1. SeqInit => InOrderOf(offered, arrived)
    BY DEF SeqInit, Init, InOrderOf
  <2> QED BY <2>1, SeqInvInit, OrderInit DEF SeqInit
<1>2. Inv /\ [SeqNext]_allVars => Inv'
  <2> SUFFICES ASSUME Inv, [SeqNext]_allVars PROVE Inv'
    OBVIOUS
  <2>1. [Next]_vars
    BY SequencerStepsProcessor DEF SeqInv
  <2>2. SeqInv'
    BY SeqInvStep
  <2>3. OrderInv'
    BY <2>1, OrderStep DEF SeqInv
  <2>4. InOrderOf(offered, arrived)'
    BY OfferedStep
  <2> QED BY <2>2, <2>3, <2>4
<1>3. Inv /\ [SeqNext]_allVars
        => [\A i, j \in DOMAIN arrived :
              i < j /\ arrived[i] \in handled' \ handled => arrived[j] \notin handled]_allVars
  <2> SUFFICES ASSUME Inv, [SeqNext]_allVars,
                      NEW i \in DOMAIN arrived, NEW j \in DOMAIN arrived, i < j,
                      arrived[i] \in handled' \ handled, arrived[j] \in handled
               PROVE  FALSE
    OBVIOUS
  <2>0. [Next]_vars
    BY SequencerStepsProcessor DEF SeqInv
  <2>1. arrived[i] \in Elements(offered) /\ arrived[j] \in Elements(offered)
    <3>1. arrived[i] \in Queued
      BY <2>0, NewlyHandled DEF SeqInv
    <3> QED BY <3>1 DEF SeqInv, FrontInv, CallsAgree, Queued
  <2>2. PICK k \in DOMAIN offered, l \in DOMAIN offered : offered[k] = arrived[i] /\ offered[l] = arrived[j]
    BY <2>1 DEF Elements
  <2>3. k \in Nat /\ l \in Nat /\ i \in Nat /\ j \in Nat
    BY ArrivalNumbers DEF SeqInv, TypeInv, TypeOK
  <2>4. k # l
    BY <2>2
  <2>5. ~(l < k)
    <3> SUFFICES ASSUME l < k PROVE FALSE
      OBVIOUS
    <3>1. PICK x \in DOMAIN arrived, y \in DOMAIN arrived :
                 x < y /\ offered[l] = arrived[x] /\ offered[k] = arrived[y]
      BY DEF InOrderOf
    <3>2. x = j /\ y = i
      BY <2>2, <3>1 DEF SeqInv, ArrivalInv, NoRepeats
    <3> QED BY <2>3, <3>1, <3>2
  <2>6. k < l
    BY <2>3, <2>4, <2>5
  <2>7. Before(arrived[i], arrived[j])
    BY <2>2, <2>6 DEF Before
  <2>8. arrived[i] \in Queued
    BY <2>0, NewlyHandled DEF SeqInv
  <2> QED BY <2>7, <2>8 DEF OrderInv
<1> QED BY <1>1, <1>2, <1>3, PTL DEF SeqSpec, HandledInArrivalOrder

\* Every behaviour of the sequencer is, as far as the processor's members and threads go, a
\* behaviour of the processor: what the theorems about DirectiveProcessor say holds in it.
THEOREM SequencerRunsProcessor == SeqSpec => Spec
<1>1. SeqInit => Init
  BY DEF SeqInit
<1>2. SeqInv /\ [SeqNext]_allVars => [Next]_vars
  BY SequencerStepsProcessor DEF SeqInv
<1> QED BY <1>1, <1>2, SeqInvInit, SeqInvStep, PTL DEF SeqSpec, Spec

-----------------------------------------------------------------------------
(* The sequencer: shutdown *)

\* shutdown() of the processor runs when the receiving thread was joined, and returns when
\* the processing thread was.
ExitInv ==
  /\ shutdownPc # "none" => recv.pc = "exited"
  /\ shutdownPc = "done" => proc.pc = "exited"

\* Threads that exited stay so, and shutdown() waits for both.
LEMMA ExitStep ==
  ASSUME SeqInv, ExitInv, [SeqNext]_allVars
  PROVE  ExitInv'
<1>1. recv \in [pc : RecvPcs, directive : Directives \cup {NoDirective}]
      /\ proc \in [pc : ProcessPcs, directive : Directives \cup {NoDirective}, temp : Seq(Directives)]
  BY DEF SeqInv, SeqTypeOK, TypeOK
<1>2. recv.pc = "exited" => recv'.pc = "exited"
  BY <1>1 DEF SeqNext, SeqClient, RecvStep, ShutdownStep, DirectiveArrives, ChangeDialog, BeginDisable,
     EndDisable, EnableAll, BeginShutdown, Woken, RecvSleep, RecvExit, RecvLoop, Take,
     HandleImmediately, CallProcessor, ProcessorAccepts, ProcessorRefuses, ProcessorReturns,
     ShutdownProcessor, ProcessorShutdown, seqVars, allVars
<1>3. [Next]_vars
  BY SequencerStepsProcessor DEF SeqInv
<1>4. proc.pc = "exited" => proc'.pc = "exited"
  <2>1. Client \/ Handler \/ Shutdown => proc' = proc \/ proc.pc = "asleep"
    BY DEF Client, Disable, Enable, SetDialogRequestId, Handler, SetCompleted, SetFailed,
           Shutdown, EraseHandle, QueueAll, Join, Release
  <2>2. Receiving => proc' = proc \/ proc.pc = "asleep"
    BY DEF Receiving, Refuse, Accept, EnterPreHandle, ReturnPreHandle, Release, vars
  <2>3. Processing => proc.pc # "exited"
    BY DEF Processing, Sleep, TakeCancelingQueue, Cancel, StartHandling, Exit, ReturnHandle
  <2> QED BY <1>1, <1>3, <2>1, <2>2, <2>3 DEF Next, vars
<1>5. shutdownPc' # "none" => shutdownPc # "none" \/ recv.pc = "exited"
  <2>1. SeqNext /\ ~ShutdownStep => UNCHANGED shutdownPc
    BY DEF SeqNext, SeqClient, RecvStep, DirectiveArrives, ChangeDialog, BeginDisable,
     EndDisable, EnableAll, BeginShutdown, RecvSleep, RecvExit, Take,
     HandleImmediately, CallProcessor, ProcessorAccepts, ProcessorRefuses, ProcessorReturns, Handler,
     Disable, Enable, SetDialogRequestId, SetCompleted, SetFailed,
       Refuse, Accept, EnterPreHandle, ReturnPreHandle,
       Processing, Sleep, TakeCancelingQueue, Cancel, StartHandling, Exit, ReturnHandle, vars
  <2>2. ShutdownStep => shutdownPc # "none" \/ recv.pc = "exited"
    BY DEF ShutdownStep, ShutdownProcessor, ProcessorShutdown, QueueAll, Join
  <2> QED BY <2>1, <2>2 DEF allVars, vars
<1>6. shutdownPc' = "done" => shutdownPc = "done" \/ proc.pc = "exited"
  BY <1>3 DEF Next, Client, Disable, Enable, SetDialogRequestId, Handler, SetCompleted, SetFailed,
       Receiving, Refuse, Accept, EnterPreHandle, ReturnPreHandle, Shutdown, EraseHandle, QueueAll, Join,
       Processing, Sleep, TakeCancelingQueue, Cancel, StartHandling, Exit, ReturnHandle, vars
<1> QED BY <1>2, <1>4, <1>5, <1>6 DEF ExitInv

\* After the processor's shutdown() returned, no handler is called again by any thread: the
\* receiving thread was joined before it, the processing thread in it.
THEOREM SilentAfterShutdown == SeqSpec => NothingAfterShutdown
<1>1. SeqInit => SeqInv /\ ExitInv
  BY SeqInvInit DEF SeqInit, Init, ExitInv
<1>2. SeqInv /\ ExitInv /\ [SeqNext]_allVars => SeqInv' /\ ExitInv'
  BY SeqInvStep, ExitStep
<1>3. SeqInv /\ ExitInv /\ [SeqNext]_allVars
        => [shutdownPc = "done" => UNCHANGED <<immediate, preHandled, handled, canceled>>]_allVars
  <2> SUFFICES ASSUME SeqInv, ExitInv, SeqNext, shutdownPc = "done"
               PROVE  UNCHANGED <<immediate, preHandled, handled, canceled>>
    OBVIOUS
  <2>1. proc.pc = "exited" /\ recv.pc = "exited" /\ rx.pc = "idle"
    BY DEF ExitInv, SeqInv, ArrivalInv
  <2>2. UNCHANGED immediate
    BY <2>1 DEF SeqNext, SeqClient, RecvStep, ShutdownStep, DirectiveArrives, ChangeDialog, BeginDisable,
     EndDisable, EnableAll, BeginShutdown, RecvSleep, RecvExit, Take,
     HandleImmediately, CallProcessor, ProcessorAccepts, ProcessorRefuses, ProcessorReturns,
     ShutdownProcessor, ProcessorShutdown, seqVars
  <2>3. [Next]_vars
    BY SequencerStepsProcessor DEF SeqInv
  <2>4. UNCHANGED <<preHandled, handled, canceled>>
    BY <2>1, <2>3 DEF Next, Client, Disable, Enable, SetDialogRequestId, Handler, SetCompleted, SetFailed,
       Receiving, Refuse, Accept, EnterPreHandle, ReturnPreHandle, Shutdown, EraseHandle, QueueAll, Join,
       Processing, Sleep, TakeCancelingQueue, Cancel, StartHandling, Exit, ReturnHandle, vars, calls
  <2> QED BY <2>2, <2>4
<1> QED BY <1>1, <1>2, <1>3, PTL DEF SeqSpec, NothingAfterShutdown

\* No step of the processor touches the receiving thread's queue, and whatever fills it or ends
\* it wakes the thread.
LEMMA ReceiverStep ==
  ASSUME SeqTypeOK, ReceiverSleepsOnlyIdle, [SeqNext]_allVars
  PROVE  ReceiverSleepsOnlyIdle'
<1>0. Woken(recv).pc # "asleep" /\ Finished.pc # "asleep"
  BY DEF Woken, Finished, SeqTypeOK
<1>1. CASE SeqClient \/ EndDisable
  BY <1>0, <1>1 DEF SeqClient, EndDisable, DirectiveArrives, ChangeDialog, BeginDisable, EnableAll, BeginShutdown,
     seqVars, ReceiverSleepsOnlyIdle, SeqTypeOK
<1>2. CASE RecvStep
  BY <1>0, <1>2 DEF RecvStep, RecvSleep, RecvExit, Take, HandleImmediately, CallProcessor, ProcessorAccepts,
     ProcessorRefuses, ProcessorReturns, seqVars, ReceiverSleepsOnlyIdle, SeqTypeOK
<1>3. CASE UNCHANGED seqVars
  BY <1>3 DEF seqVars, ReceiverSleepsOnlyIdle
<1> QED BY <1>1, <1>2, <1>3 DEF SeqNext, ShutdownStep, ShutdownProcessor, ProcessorShutdown, allVars

\* The receiving thread does not sleep while a directive waits or the sequencer shuts down,
\* for any directives and clients.
THEOREM NoArrivalIsMissed == SeqSpec => []ReceiverSleepsOnlyIdle
<1>1. SeqInit => SeqInv /\ ReceiverSleepsOnlyIdle
  BY SeqInvInit DEF SeqInit, ReceiverSleepsOnlyIdle
<1>2. SeqInv /\ ReceiverSleepsOnlyIdle /\ [SeqNext]_allVars => SeqInv' /\ ReceiverSleepsOnlyIdle'
  BY SeqInvStep, ReceiverStep DEF SeqInv
<1> QED BY <1>1, <1>2, PTL DEF SeqSpec
=============================================================================
