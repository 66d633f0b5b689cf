----------------------- MODULE SharedDataStreamProofs -----------------------
(* What SharedDataStream.tla promises for any number of readers, any size of *)
(* buffer and any sequence of calls: the barrier, the sleepers, the words.    *)
EXTENDS SharedDataStream, TLAPS

(* The inductive invariant *)

ReaderRecords ==
  [pc : Pcs, then : {"idle", "success", "disabling", "none"}, orElse : {"idle", "leaving", "disabling"},
   cursor : Indexes, closeIndex : Indexes \cup {Unlimited}, isEnabled : BOOLEAN,
   to : Indexes, limit : Indexes \cup {Unlimited}, id : 1 .. MaxReaders + 1,
   found : Indexes \cup {Unlimited}, intact : BOOLEAN, behind : BOOLEAN]

ScanPcs == {"scanning", "taking"}
BlockingPcs == {"reading", "waiting", "asleep", "woken"}

\* What the place of a reader's thread says of its locals and of the mutexes.
ReaderFits(r) ==
  /\ readers[r].pc \in ScanPcs <=> seekMutex = r
  /\ readers[r].pc \notin ScanPcs => readers[r].id = 1 /\ readers[r].found = Unlimited
  /\ readers[r].pc = "taking" => readers[r].id \in Ids
  /\ readers[r].pc = "waiting" => dataMutex = r
  /\ readers[r].pc \in BlockingPcs => readers[r].cursor < readers[r].limit
  /\ readers[r].pc \in {"copying", "copied"} => readers[r].cursor + readers[r].to <= writeStart
  /\ readers[r].pc = "found" => readers[r].to <= writeStart
  /\ readers[r].pc \notin {"none", "constructed"} /\ readers[r].then # "none" => readers[r].isEnabled
  /\ readers[r].then \in {"success", "none"} => readers[r].pc \in ScanPcs \cup {"updating"}
ReadersFit == \A r \in Ids : ReaderFits(r)

\* After the writer was closed nobody is about to sleep either.
Awake(r) == beenClosed => readers[r].pc \notin {"waiting", "asleep"}
AllAwake == \A r \in Ids : Awake(r)

SleepsWhenFull == writer.pc = "asleep" => ~Room

\* A reader of which the barrier has to take account.
Tracked(r) == readers[r].isEnabled /\ ~readers[r].behind

\* What the scan of s has found is not ahead of any reader that it has passed.
NotAhead(s, r) ==
  ~raced /\ readers[s].pc \in ScanPcs /\ r < readers[s].id /\ Tracked(r) => readers[r].cursor >= readers[s].found
ScansSeeAll == \A s, r \in Ids : NotAhead(s, r)

BarrierBefore(r) == ~raced /\ Tracked(r) => readers[r].cursor >= oldest

Keeps == writer.policy # "NONBLOCKABLE" /\ MaxWrite <= DataSize

WritesFit == Keeps => writeEnd <= oldest + DataSize /\ writeEnd - writeStart <= DataSize

\* The words that readers have not consumed are in their slots.
WordsStay == Keeps => \A i \in oldest .. writeStart - 1 : data[i % DataSize] = i

HasCopied(r) == readers[r].pc \in {"copied", "success"} \/ readers[r].then = "success"
CopyIntact(r) == Keeps /\ ~raced /\ HasCopied(r) /\ ~readers[r].behind => readers[r].intact

StreamInv ==
  /\ TypeOK /\ ReadersFit /\ AllAwake /\ SleepsWhenFull
  /\ ScansSeeAll /\ \A r \in Ids : BarrierBefore(r)
  /\ WritesFit /\ WordsStay /\ \A r \in Ids : CopyIntact(r)

-----------------------------------------------------------------------------
LEMMA ReadersType ==
  /\ TypeOK => readers \in [Ids -> ReaderRecords]
  /\ NoReader \in ReaderRecords
  /\ None \notin Ids
<1>1. MaxReaders \in Nat /\ MaxReaders >= 1 /\ MaxIndex \in Nat /\ None \notin Nat
  BY StreamAssumption
<1> QED
  BY <1>1 DEF TypeOK, ReaderRecords, NoReader, Pcs, Indexes, Ids, Unlimited

LEMMA InitInv == Init => StreamInv
<1> SUFFICES ASSUME Init PROVE StreamInv
  OBVIOUS
<1>1. /\ MaxReaders \in Nat /\ MaxReaders >= 1 /\ MaxIndex \in Nat /\ DataSize \in Nat /\ None \notin Nat
  BY StreamAssumption
<1>2. readers \in [Ids -> ReaderRecords] /\ None \notin Ids
  BY <1>1, ReadersType DEF Init
<1>3. TypeOK
  <2>1. writer \in [pc : WriterPcs, policy : Policies]
    BY DEF Init, WriterPcs
  <2>2. 0 \in Indexes /\ 0 \in 0 .. MaxIndex
    BY <1>1 DEF Indexes
  <2> QED
    BY <1>2, <2>1, <2>2 DEF Init, TypeOK, ReaderRecords
<1>4. ReadersFit /\ AllAwake /\ SleepsWhenFull
  BY <1>1, <1>2 DEF Init, ReadersFit, ReaderFits, AllAwake, Awake, SleepsWhenFull, NoReader, ScanPcs, BlockingPcs
<1>5. ScansSeeAll /\ \A r \in Ids : BarrierBefore(r) /\ CopyIntact(r)
  BY <1>1, <1>2 DEF Init, ScansSeeAll, NotAhead, BarrierBefore, CopyIntact, Tracked, HasCopied, NoReader, ScanPcs
<1>6. WritesFit /\ WordsStay
  BY <1>1 DEF Init, WritesFit, WordsStay
<1> QED
  BY <1>3, <1>4, <1>5, <1>6 DEF StreamInv

-----------------------------------------------------------------------------
(* Steps of one reader *)

\* A step of reader r leaves the others and the stream alone.
OfReader(r) ==
  /\ UNCHANGED <<header, writer>>
  /\ readers' \in [Ids -> ReaderRecords] /\ \A q \in Ids \ {r} : readers'[q] = readers[q]
  /\ raced' \in BOOLEAN /\ (raced => raced')
  /\ {seekMutex', dataMutex', enableMutex'} \subseteq Ids \cup {None}
  /\ seekMutex' # seekMutex => {seekMutex, seekMutex'} \subseteq {r, None}
  /\ dataMutex' # dataMutex => {dataMutex, dataMutex'} \subseteq {r, None}

\* It preserves the invariant if it does so for r itself, and no scan is ahead of where r goes.
LEMMA ReaderStep ==
  ASSUME StreamInv, NEW r \in Ids, OfReader(r),
         ReaderFits(r)', Awake(r)', BarrierBefore(r)', CopyIntact(r)',
         \A q \in Ids : NotAhead(q, r)' /\ NotAhead(r, q)'
  PROVE  StreamInv'
<1>0. TypeOK /\ ReadersFit /\ None \notin Ids
  BY ReadersType DEF StreamInv
<1>1. TypeOK'
  BY <1>0 DEF OfReader, TypeOK, header, ReaderRecords
<1>2. ASSUME NEW q \in Ids \ {r} PROVE ReaderFits(q)' /\ Awake(q)' /\ BarrierBefore(q)' /\ CopyIntact(q)'
  <2>1. readers'[q] = readers[q] /\ UNCHANGED <<writeStart, beenClosed, oldest, writer>> /\ (raced => raced')
    BY DEF OfReader, header
  <2>2. (seekMutex' = q <=> seekMutex = q) /\ (dataMutex = q => dataMutex' = q)
    BY <1>0 DEF OfReader
  <2>3. ReaderFits(q)'
    BY <1>0, <2>1, <2>2 DEF ReadersFit, ReaderFits
  <2>4. Awake(q)' /\ BarrierBefore(q)' /\ CopyIntact(q)'
    BY <2>1 DEF StreamInv, AllAwake, Awake, BarrierBefore, CopyIntact, Tracked, HasCopied, Keeps
  <2> QED
    BY <2>3, <2>4
<1>3. ASSUME NEW s \in Ids \ {r}, NEW q \in Ids \ {r} PROVE NotAhead(s, q)'
  BY DEF OfReader, StreamInv, ScansSeeAll, NotAhead, Tracked
<1>4. ReadersFit' /\ AllAwake' /\ ScansSeeAll' /\ \A q \in Ids : BarrierBefore(q)' /\ CopyIntact(q)'
  BY <1>2, <1>3 DEF ReadersFit, AllAwake, ScansSeeAll
<1>5. SleepsWhenFull' /\ WritesFit' /\ WordsStay'
  BY DEF StreamInv, OfReader, header, SleepsWhenFull, Room, WritesFit, WordsStay, Keeps
<1> QED
  BY <1>1, <1>4, <1>5 DEF StreamInv

\* A step in which r does not scan, nor becomes harder to pass, and takes no mutex for it.
Quietly(r) ==
  /\ OfReader(r) /\ UNCHANGED <<seekMutex, raced>>
  /\ readers'[r].pc \notin ScanPcs
  /\ Tracked(r)' => Tracked(r) /\ readers'[r].cursor >= readers[r].cursor
  /\ ReaderFits(r)' /\ Awake(r)' /\ CopyIntact(r)'

LEMMA QuietStep == ASSUME StreamInv, NEW r \in Ids, Quietly(r) PROVE StreamInv'
<1> USE DEF Quietly
<1>0. /\ readers \in [Ids -> ReaderRecords] /\ readers' \in [Ids -> ReaderRecords]
      /\ oldest' = oldest /\ oldest \in Indexes
  BY ReadersType DEF StreamInv, TypeOK, OfReader, header
<1>1. BarrierBefore(r)'
  <2>1. readers[r].cursor \in Nat /\ readers'[r].cursor \in Nat /\ oldest \in Nat
    BY <1>0, StreamAssumption DEF ReaderRecords, Indexes
  <2> QED
    BY <1>0, <2>1 DEF StreamInv, BarrierBefore
<1>2. ASSUME NEW q \in Ids PROVE NotAhead(q, r)' /\ NotAhead(r, q)'
  <2>1. NotAhead(r, q)'
    BY DEF NotAhead
  <2>2. NotAhead(q, r)'
    <3>1. CASE q = r
      BY <2>1, <3>1
    <3>2. CASE q # r
      <4>1. readers'[q] = readers[q] /\ NotAhead(q, r)
        BY <3>2 DEF OfReader, StreamInv, ScansSeeAll
      <4>2. readers[r].cursor \in Nat /\ readers'[r].cursor \in Nat /\ readers[q].found \in Nat
        BY <1>0, StreamAssumption DEF ReaderRecords, Indexes, Unlimited
      <4> QED
        BY <4>1, <4>2 DEF NotAhead
    <3> QED
      BY <3>1, <3>2
  <2> QED
    BY <2>1, <2>2
<1> QED
  BY <1>1, <1>2, ReaderStep

LEMMA AtOne ==
  ASSUME StreamInv, NEW r \in Ids
  PROVE  /\ readers[r] \in ReaderRecords /\ ReaderFits(r) /\ Awake(r) /\ BarrierBefore(r) /\ CopyIntact(r)
         /\ readers[r].pc \notin ScanPcs => seekMutex # r
         /\ seekMutex \in Ids \cup {None} /\ dataMutex \in Ids \cup {None} /\ enableMutex \in Ids \cup {None} /\ r # None
         /\ raced \in BOOLEAN /\ readers \in [Ids -> ReaderRecords]
         /\ writeStart \in Nat /\ oldest \in Nat /\ writeEnd \in Nat /\ writeStart <= writeEnd
         /\ writeStart <= MaxIndex
  BY ReadersType, StreamAssumption DEF StreamInv, TypeOK, ReadersFit, AllAwake, ReaderFits, Indexes

LEMMA CloseReaderInv == ASSUME StreamInv, NEW r \in Ids, NEW i \in Indexes, CloseReader(r, i) PROVE StreamInv'
<1>1. /\ readers' = [readers EXCEPT ![r].closeIndex = i] /\ UNCHANGED <<header, writer, mutexes, raced>>
  BY DEF CloseReader
<1>2. /\ readers' \in [Ids -> ReaderRecords] /\ readers'[r] = [readers[r] EXCEPT !.closeIndex = i]
      /\ \A q \in Ids \ {r} : readers'[q] = readers[q]
  BY <1>1, AtOne DEF ReaderRecords
<1>3. OfReader(r)
  BY <1>1, <1>2, AtOne DEF OfReader, mutexes
<1>4. ReaderFits(r)' /\ Awake(r)' /\ BarrierBefore(r)' /\ CopyIntact(r)'
  BY <1>1, <1>2, AtOne
     DEF ReaderFits, Awake, BarrierBefore, CopyIntact, Tracked, HasCopied, Keeps, header, mutexes, ReaderRecords
<1>5. ASSUME NEW q \in Ids PROVE NotAhead(q, r)' /\ NotAhead(r, q)'
  BY <1>1, <1>2, AtOne DEF StreamInv, ScansSeeAll, NotAhead, Tracked, ReaderRecords
<1> QED
  BY <1>3, <1>4, <1>5, ReaderStep

LEMMA LeastIs ==
  ASSUME NEW a \in Int, NEW b \in Int
  PROVE  Least(a, b) \in {a, b} /\ Least(a, b) <= a /\ Least(a, b) <= b
  BY DEF Least

\* What a thread remembers when a call is over.
LEMMA ResumedIs ==
  ASSUME NEW x \in ReaderRecords, NEW pc \in Pcs
  PROVE  /\ Resumed(x, pc) \in ReaderRecords
         /\ Resumed(x, pc).pc = pc /\ Resumed(x, pc).cursor = x.cursor /\ Resumed(x, pc).isEnabled = x.isEnabled
         /\ Resumed(x, pc).behind = x.behind /\ Resumed(x, pc).intact = x.intact
         /\ Resumed(x, pc).then = "idle" /\ Resumed(x, pc).id = 1 /\ Resumed(x, pc).found = Unlimited
         /\ Resumed(x, pc).to = 0 /\ Resumed(x, pc).closeIndex = x.closeIndex
<1>1. NoReader \in ReaderRecords
  BY ReadersType
<1>2. Resumed(x, pc) \in ReaderRecords
  BY <1>1 DEF Resumed, ReaderRecords
<1>3. /\ NoReader.then = "idle" /\ NoReader.id = 1 /\ NoReader.found = Unlimited /\ NoReader.to = 0
  BY DEF NoReader
<1> QED
  BY <1>1, <1>2, <1>3 DEF Resumed, ReaderRecords

\* What a reader's thread does at its place is quiet, but for scans and seeks.
LEMMA CallsQuietly ==
  ASSUME StreamInv, NEW r \in Ids,
         \/ Destroy(r) \/ FindOldData(r) \/ ReadBlocking(r) \/ FindsEnd(r) \/ ReadTimesOut(r)
         \/ FindsNothing(r) \/ FallAsleep(r) \/ Return(r) \/ Construct(r) \/ DisableReader(r)
  PROVE  Quietly(r)
<1>0. /\ readers[r] \in ReaderRecords /\ ReaderFits(r) /\ Awake(r) /\ CopyIntact(r)
      /\ seekMutex \in Ids \cup {None} /\ dataMutex \in Ids \cup {None} /\ enableMutex \in Ids \cup {None} /\ r # None
      /\ raced \in BOOLEAN /\ readers \in [Ids -> ReaderRecords]
      /\ writeStart \in Nat /\ writeStart <= MaxIndex /\ MaxIndex \in Nat /\ DataSize \in Nat /\ MaxReaders \in Nat
  BY AtOne, StreamAssumption
<1>1. CASE Destroy(r)
  <2>1. /\ readers[r].pc = "idle"
        /\ readers'[r] = [readers[r] EXCEPT !.pc = "leaving"]
        /\ \A q \in Ids \ {r} : readers'[q] = readers[q]
        /\ DOMAIN readers' = Ids /\ readers' = [q \in Ids |-> readers'[q]]
        /\ UNCHANGED <<header, writer, mutexes, raced>>
    BY <1>0, <1>1 DEF Destroy, At, Goes
  <2>2. readers'[r] \in ReaderRecords
    BY <1>0, <2>1 DEF ReaderRecords, Pcs, Indexes, Unlimited
  <2>3. OfReader(r)
    BY <1>0, <2>1, <2>2 DEF OfReader, mutexes
  <2>4. ReaderFits(r)' /\ Awake(r)' /\ CopyIntact(r)'
    BY <1>0, <2>1, <2>2 DEF ReaderFits, Awake, CopyIntact, HasCopied, Keeps, header, mutexes, ReaderRecords,
                            ScanPcs, BlockingPcs, Indexes, Unlimited
  <2>5. readers'[r].pc \notin ScanPcs /\ (Tracked(r)' => Tracked(r) /\ readers'[r].cursor >= readers[r].cursor)
    BY <1>0, <2>1 DEF ScanPcs, Tracked, ReaderRecords, Indexes
  <2> QED
    BY <2>1, <2>3, <2>4, <2>5 DEF Quietly, mutexes
<1>2. CASE FindOldData(r)
  <2>1. /\ readers[r].pc = "created"
        /\ readers'[r] = [readers[r] EXCEPT !.to = Least(DataSize, writeStart), !.pc = "found"]
        /\ \A q \in Ids \ {r} : readers'[q] = readers[q]
        /\ DOMAIN readers' = Ids /\ readers' = [q \in Ids |-> readers'[q]]
        /\ UNCHANGED <<header, writer, mutexes, raced>>
    BY <1>0, <1>2 DEF FindOldData, At
  <2>2. readers'[r] \in ReaderRecords
    <3>1. Least(DataSize, writeStart) \in Indexes
      BY <1>0, LeastIs DEF Indexes
    <3> QED
      BY <1>0, <2>1, <3>1 DEF ReaderRecords, Pcs
  <2>3. OfReader(r)
    BY <1>0, <2>1, <2>2 DEF OfReader, mutexes
  <2>4. ReaderFits(r)' /\ Awake(r)' /\ CopyIntact(r)'
    BY <1>0, <2>1, <2>2, LeastIs DEF ReaderFits, Awake, CopyIntact, HasCopied, Keeps, header, mutexes, ReaderRecords,
                            ScanPcs, BlockingPcs, Indexes, Unlimited
  <2>5. readers'[r].pc \notin ScanPcs /\ (Tracked(r)' => Tracked(r) /\ readers'[r].cursor >= readers[r].cursor)
    BY <1>0, <2>1 DEF ScanPcs, Tracked, ReaderRecords, Indexes
  <2> QED
    BY <2>1, <2>3, <2>4, <2>5 DEF Quietly, mutexes
<1>3. CASE ReadBlocking(r)
  <2>1. /\ readers[r].pc = "idle" /\ readers[r].cursor < readers[r].closeIndex
        /\ readers'[r] = [readers[r] EXCEPT !.limit = readers[r].closeIndex, !.pc = "reading"]
        /\ \A q \in Ids \ {r} : readers'[q] = readers[q]
        /\ DOMAIN readers' = Ids /\ readers' = [q \in Ids |-> readers'[q]]
        /\ UNCHANGED <<header, writer, mutexes, raced>>
    BY <1>0, <1>3 DEF ReadBlocking, At, Readable
  <2>2. readers'[r] \in ReaderRecords
    BY <1>0, <2>1 DEF ReaderRecords, Pcs, Indexes, Unlimited
  <2>3. OfReader(r)
    BY <1>0, <2>1, <2>2 DEF OfReader, mutexes
  <2>4. ReaderFits(r)' /\ Awake(r)' /\ CopyIntact(r)'
    BY <1>0, <2>1, <2>2 DEF ReaderFits, Awake, CopyIntact, HasCopied, Keeps, header, mutexes, ReaderRecords,
                            ScanPcs, BlockingPcs, Indexes, Unlimited
  <2>5. readers'[r].pc \notin ScanPcs /\ (Tracked(r)' => Tracked(r) /\ readers'[r].cursor >= readers[r].cursor)
    BY <1>0, <2>1 DEF ScanPcs, Tracked, ReaderRecords, Indexes
  <2> QED
    BY <2>1, <2>3, <2>4, <2>5 DEF Quietly, mutexes
<1>4. CASE FindsEnd(r)
  <2>1. /\ readers[r].pc \in {"reading", "woken"}
        /\ readers'[r] = Resumed(readers[r], "idle")
        /\ \A q \in Ids \ {r} : readers'[q] = readers[q]
        /\ DOMAIN readers' = Ids /\ readers' = [q \in Ids |-> readers'[q]]
        /\ UNCHANGED <<header, writer, mutexes, raced>>
    BY <1>0, <1>4 DEF FindsEnd, AtDataMutex, At, Resumes
  <2>2. readers'[r] \in ReaderRecords
    BY <1>0, <2>1, ResumedIs DEF Pcs
  <2>r. /\ readers'[r].pc = "idle" /\ readers'[r].cursor = readers[r].cursor
        /\ readers'[r].isEnabled = readers[r].isEnabled /\ readers'[r].behind = readers[r].behind
        /\ readers'[r].intact = readers[r].intact
        /\ readers'[r].then = "idle" /\ readers'[r].id = 1 /\ readers'[r].found = Unlimited
    BY <1>0, <2>1, ResumedIs DEF Pcs
  <2>3. OfReader(r)
    BY <1>0, <2>1, <2>2 DEF OfReader, mutexes
  <2>4. ReaderFits(r)' /\ Awake(r)' /\ CopyIntact(r)'
    BY <1>0, <2>1, <2>2, <2>r DEF ReaderFits, Awake, CopyIntact, HasCopied, Keeps, header, mutexes, ReaderRecords,
                            ScanPcs, BlockingPcs, Indexes, Unlimited
  <2>5. readers'[r].pc \notin ScanPcs /\ (Tracked(r)' => Tracked(r) /\ readers'[r].cursor >= readers[r].cursor)
    BY <1>0, <2>1, <2>r DEF ScanPcs, Tracked, ReaderRecords, Indexes
  <2> QED
    BY <2>1, <2>3, <2>4, <2>5 DEF Quietly, mutexes
<1>5. CASE ReadTimesOut(r)
  <2>1. /\ readers[r].pc = "asleep"
        /\ readers'[r] = Resumed(readers[r], "idle")
        /\ \A q \in Ids \ {r} : readers'[q] = readers[q]
        /\ DOMAIN readers' = Ids /\ readers' = [q \in Ids |-> readers'[q]]
        /\ UNCHANGED <<header, writer, mutexes, raced>>
    BY <1>0, <1>5 DEF ReadTimesOut, At, Resumes
  <2>2. readers'[r] \in ReaderRecords
    BY <1>0, <2>1, ResumedIs DEF Pcs
  <2>r. /\ readers'[r].pc = "idle" /\ readers'[r].cursor = readers[r].cursor
        /\ readers'[r].isEnabled = readers[r].isEnabled /\ readers'[r].behind = readers[r].behind
        /\ readers'[r].intact = readers[r].intact
        /\ readers'[r].then = "idle" /\ readers'[r].id = 1 /\ readers'[r].found = Unlimited
    BY <1>0, <2>1, ResumedIs DEF Pcs
  <2>3. OfReader(r)
    BY <1>0, <2>1, <2>2 DEF OfReader, mutexes
  <2>4. ReaderFits(r)' /\ Awake(r)' /\ CopyIntact(r)'
    BY <1>0, <2>1, <2>2, <2>r DEF ReaderFits, Awake, CopyIntact, HasCopied, Keeps, header, mutexes, ReaderRecords,
                            ScanPcs, BlockingPcs, Indexes, Unlimited
  <2>5. readers'[r].pc \notin ScanPcs /\ (Tracked(r)' => Tracked(r) /\ readers'[r].cursor >= readers[r].cursor)
    BY <1>0, <2>1, <2>r DEF ScanPcs, Tracked, ReaderRecords, Indexes
  <2> QED
    BY <2>1, <2>3, <2>4, <2>5 DEF Quietly, mutexes
<1>6. CASE FindsNothing(r)
  <2>1. /\ readers[r].pc \in {"reading", "woken"} /\ ~beenClosed
        /\ readers'[r] = [readers[r] EXCEPT !.pc = "waiting"]
        /\ \A q \in Ids \ {r} : readers'[q] = readers[q]
        /\ DOMAIN readers' = Ids /\ readers' = [q \in Ids |-> readers'[q]]
        /\ UNCHANGED <<header, writer, seekMutex, enableMutex, raced>> /\ dataMutex = None /\ dataMutex' = r
    BY <1>0, <1>6 DEF FindsNothing, AtDataMutex, At, Goes
  <2>2. readers'[r] \in ReaderRecords
    BY <1>0, <2>1 DEF ReaderRecords, Pcs, Indexes, Unlimited
  <2>3. OfReader(r)
    BY <1>0, <2>1, <2>2 DEF OfReader, mutexes
  <2>4. ReaderFits(r)' /\ Awake(r)' /\ CopyIntact(r)'
    BY <1>0, <2>1, <2>2 DEF ReaderFits, Awake, CopyIntact, HasCopied, Keeps, header, mutexes, ReaderRecords,
                            ScanPcs, BlockingPcs, Indexes, Unlimited
  <2>5. readers'[r].pc \notin ScanPcs /\ (Tracked(r)' => Tracked(r) /\ readers'[r].cursor >= readers[r].cursor)
    BY <1>0, <2>1 DEF ScanPcs, Tracked, ReaderRecords, Indexes
  <2> QED
    BY <2>1, <2>3, <2>4, <2>5 DEF Quietly, mutexes
<1>7. CASE FallAsleep(r)
  <2>1. /\ readers[r].pc = "waiting"
        /\ readers'[r] = [readers[r] EXCEPT !.pc = "asleep"]
        /\ \A q \in Ids \ {r} : readers'[q] = readers[q]
        /\ DOMAIN readers' = Ids /\ readers' = [q \in Ids |-> readers'[q]]
        /\ UNCHANGED <<header, writer, seekMutex, enableMutex, raced>> /\ dataMutex = r /\ dataMutex' = None
    BY <1>0, <1>7 DEF FallAsleep, At, Goes, ReaderFits
  <2>2. readers'[r] \in ReaderRecords
    BY <1>0, <2>1 DEF ReaderRecords, Pcs, Indexes, Unlimited
  <2>3. OfReader(r)
    BY <1>0, <2>1, <2>2 DEF OfReader, mutexes
  <2>4. ReaderFits(r)' /\ Awake(r)' /\ CopyIntact(r)'
    BY <1>0, <2>1, <2>2 DEF ReaderFits, Awake, CopyIntact, HasCopied, Keeps, header, mutexes, ReaderRecords,
                            ScanPcs, BlockingPcs, Indexes, Unlimited
  <2>5. readers'[r].pc \notin ScanPcs /\ (Tracked(r)' => Tracked(r) /\ readers'[r].cursor >= readers[r].cursor)
    BY <1>0, <2>1 DEF ScanPcs, Tracked, ReaderRecords, Indexes
  <2> QED
    BY <2>1, <2>3, <2>4, <2>5 DEF Quietly, mutexes
<1>8. CASE Return(r)
  <2>1. /\ readers[r].pc = "success"
        /\ readers'[r] = [readers[r] EXCEPT !.intact = TRUE, !.pc = "idle"]
        /\ \A q \in Ids \ {r} : readers'[q] = readers[q]
        /\ DOMAIN readers' = Ids /\ readers' = [q \in Ids |-> readers'[q]]
        /\ UNCHANGED <<header, writer, mutexes, raced>>
    BY <1>0, <1>8 DEF Return, At
  <2>2. readers'[r] \in ReaderRecords
    BY <1>0, <2>1 DEF ReaderRecords, Pcs, Indexes, Unlimited
  <2>3. OfReader(r)
    BY <1>0, <2>1, <2>2 DEF OfReader, mutexes
  <2>4. ReaderFits(r)' /\ Awake(r)' /\ CopyIntact(r)'
    BY <1>0, <2>1, <2>2 DEF ReaderFits, Awake, CopyIntact, HasCopied, Keeps, header, mutexes, ReaderRecords,
                            ScanPcs, BlockingPcs, Indexes, Unlimited
  <2>5. readers'[r].pc \notin ScanPcs /\ (Tracked(r)' => Tracked(r) /\ readers'[r].cursor >= readers[r].cursor)
    BY <1>0, <2>1 DEF ScanPcs, Tracked, ReaderRecords, Indexes
  <2> QED
    BY <2>1, <2>3, <2>4, <2>5 DEF Quietly, mutexes
<1>9. CASE Construct(r)
  <2>1. /\ readers[r].pc = "none"
        /\ readers'[r] = [NoReader EXCEPT !.pc = "constructed", !.cursor = writeStart, !.closeIndex = Unlimited]
        /\ \A q \in Ids \ {r} : readers'[q] = readers[q]
        /\ DOMAIN readers' = Ids /\ readers' = [q \in Ids |-> readers'[q]]
        /\ UNCHANGED <<header, writer, seekMutex, dataMutex, raced>> /\ enableMutex' = r
    BY <1>0, <1>9 DEF Construct, At
  <2>2. readers'[r] \in ReaderRecords
    <3>1. NoReader \in ReaderRecords /\ writeStart \in Indexes /\ "constructed" \in Pcs
      BY <1>0, ReadersType DEF Indexes, Pcs
    <3> QED
      BY <2>1, <3>1 DEF ReaderRecords
  <2>3. OfReader(r)
    BY <1>0, <2>1, <2>2 DEF OfReader, mutexes
  <2>4. ReaderFits(r)' /\ Awake(r)' /\ CopyIntact(r)'
    BY <1>0, <2>1, <2>2 DEF ReaderFits, Awake, CopyIntact, HasCopied, Keeps, header, mutexes, ReaderRecords,
                            ScanPcs, BlockingPcs, Indexes, Unlimited, NoReader
  <2>5. readers'[r].pc \notin ScanPcs /\ (Tracked(r)' => Tracked(r) /\ readers'[r].cursor >= readers[r].cursor)
    BY <1>0, <2>1 DEF ScanPcs, Tracked, ReaderRecords, Indexes, NoReader
  <2> QED
    BY <2>1, <2>3, <2>4, <2>5 DEF Quietly, mutexes
<1>10. CASE DisableReader(r)
  <2>1. /\ readers[r].pc = "disabling"
        /\ readers'[r] = [readers[r] EXCEPT !.isEnabled = FALSE, !.then = "none", !.pc = "updating"]
        /\ \A q \in Ids \ {r} : readers'[q] = readers[q]
        /\ DOMAIN readers' = Ids /\ readers' = [q \in Ids |-> readers'[q]]
        /\ UNCHANGED <<header, writer, seekMutex, dataMutex, raced>> /\ enableMutex' = r
    BY <1>0, <1>10 DEF DisableReader, At
  <2>2. readers'[r] \in ReaderRecords
    BY <1>0, <2>1 DEF ReaderRecords, Pcs, Indexes, Unlimited
  <2>3. OfReader(r)
    BY <1>0, <2>1, <2>2 DEF OfReader, mutexes
  <2>4. ReaderFits(r)' /\ Awake(r)' /\ CopyIntact(r)'
    BY <1>0, <2>1, <2>2 DEF ReaderFits, Awake, CopyIntact, HasCopied, Keeps, header, mutexes, ReaderRecords,
                            ScanPcs, BlockingPcs, Indexes, Unlimited
  <2>5. readers'[r].pc \notin ScanPcs /\ (Tracked(r)' => Tracked(r) /\ readers'[r].cursor >= readers[r].cursor)
    BY <1>0, <2>1 DEF ScanPcs, Tracked, ReaderRecords, Indexes
  <2> QED
    BY <2>1, <2>3, <2>4, <2>5 DEF Quietly, mutexes
<1> QED
  BY <1>1, <1>2, <1>3, <1>4, <1>5, <1>6, <1>7, <1>8, <1>9, <1>10

\* What is copied ends where the writer's data end.
LEMMA ToCopyQuietly ==
  ASSUME StreamInv, NEW r \in Ids, NEW n \in 1 .. DataSize, NEW limit \in Indexes \cup {Unlimited},
         readers[r].pc \in {"idle", "reading", "woken"}, readers[r].cursor < limit, Available(r) > 0,
         ToCopy(r, n, limit), UNCHANGED <<header, writer, mutexes, raced>>
  PROVE  Quietly(r)
<1>0. /\ readers[r] \in ReaderRecords /\ ReaderFits(r) /\ Awake(r) /\ CopyIntact(r) /\ BarrierBefore(r)
      /\ seekMutex \in Ids \cup {None} /\ dataMutex \in Ids \cup {None} /\ enableMutex \in Ids \cup {None} /\ r # None
      /\ raced \in BOOLEAN /\ readers \in [Ids -> ReaderRecords]
      /\ writeStart \in Nat /\ writeStart <= MaxIndex /\ MaxIndex \in Nat /\ DataSize \in Nat /\ MaxReaders \in Nat
  BY AtOne, StreamAssumption
<1>1. PICK k : k = Least(Least(n, Available(r)), limit - readers[r].cursor)
  OBVIOUS
<1>2. k \in Indexes /\ 0 \in Indexes /\ readers[r].cursor + k <= writeStart
  <2>1. /\ readers[r].cursor \in Nat /\ limit \in Nat /\ n \in Nat
        /\ Available(r) = writeStart - readers[r].cursor /\ Available(r) \in Nat
    BY <1>0 DEF Available, ReaderRecords, Indexes, Unlimited
  <2>2. Least(n, Available(r)) \in {n, Available(r)} /\ Least(n, Available(r)) <= Available(r)
    BY <2>1, LeastIs
  <2>3. k \in {Least(n, Available(r)), limit - readers[r].cursor} /\ k <= Least(n, Available(r))
    BY <1>1, <2>1, <2>2, LeastIs
  <2> QED
    BY <1>0, <2>1, <2>2, <2>3 DEF Indexes
<1>3. /\ readers'[r] = [readers[r] EXCEPT !.pc = "copying", !.to = k, !.limit = 0]
      /\ \A q \in Ids \ {r} : readers'[q] = readers[q]
      /\ DOMAIN readers' = Ids /\ readers' = [q \in Ids |-> readers'[q]]
  BY <1>0, <1>1 DEF ToCopy
<1>4. readers'[r] \in ReaderRecords
  BY <1>0, <1>2, <1>3 DEF ReaderRecords, Pcs
<1>5. OfReader(r)
  BY <1>0, <1>3, <1>4 DEF OfReader, mutexes
<1>6. ReaderFits(r)' /\ Awake(r)' /\ CopyIntact(r)'
  BY <1>0, <1>2, <1>3, <1>4 DEF ReaderFits, Awake, CopyIntact, HasCopied, Keeps, header, mutexes, ReaderRecords,
                                ScanPcs, BlockingPcs
<1>7. readers'[r].pc \notin ScanPcs /\ (Tracked(r)' => Tracked(r) /\ readers'[r].cursor >= readers[r].cursor)
  BY <1>0, <1>3 DEF ScanPcs, Tracked, ReaderRecords, Indexes
<1> QED
  BY <1>5, <1>6, <1>7 DEF Quietly, mutexes

\* The words that a tracked reader copies are those of their indexes.
LEMMA CopyQuietly == ASSUME StreamInv, NEW r \in Ids, Copy(r) PROVE Quietly(r)
<1>0. /\ readers[r] \in ReaderRecords /\ ReaderFits(r) /\ Awake(r) /\ CopyIntact(r) /\ BarrierBefore(r)
      /\ seekMutex \in Ids \cup {None} /\ dataMutex \in Ids \cup {None} /\ enableMutex \in Ids \cup {None} /\ r # None
      /\ raced \in BOOLEAN /\ readers \in [Ids -> ReaderRecords]
      /\ writeStart \in Nat /\ writeStart <= MaxIndex /\ MaxIndex \in Nat /\ DataSize \in Nat /\ MaxReaders \in Nat
  BY AtOne, StreamAssumption
<1>1. PICK b \in BOOLEAN : b = Intact(r)
  BY DEF Intact
<1>2. /\ readers[r].pc = "copying" /\ readers'[r] = [readers[r] EXCEPT !.intact = b, !.pc = "copied"]
      /\ \A q \in Ids \ {r} : readers'[q] = readers[q]
      /\ DOMAIN readers' = Ids /\ readers' = [q \in Ids |-> readers'[q]]
      /\ UNCHANGED <<header, writer, mutexes, raced>>
  BY <1>0, <1>1 DEF Copy, At
<1>3. readers'[r] \in ReaderRecords
  BY <1>0, <1>1, <1>2 DEF ReaderRecords, Pcs
<1>4. OfReader(r)
  BY <1>0, <1>2, <1>3 DEF OfReader, mutexes
<1>5. ReaderFits(r)' /\ Awake(r)'
  BY <1>0, <1>2, <1>3 DEF ReaderFits, Awake, header, mutexes, ReaderRecords, ScanPcs, BlockingPcs
<1>6. Keeps /\ ~raced /\ ~readers[r].behind => b
  <2> SUFFICES ASSUME Keeps, ~raced, ~readers[r].behind PROVE Intact(r)
    BY <1>1
  <2>1. readers[r].isEnabled
    BY <1>0, <1>2 DEF ReaderFits, ScanPcs, ReaderRecords
  <2>2. /\ readers[r].cursor >= oldest /\ readers[r].cursor + readers[r].to <= writeStart
        /\ readers[r].cursor \in Nat /\ readers[r].to \in Nat /\ oldest \in Nat
    BY <1>0, <1>2, <2>1, AtOne DEF BarrierBefore, Tracked, ReaderFits, ReaderRecords, Indexes
  <2>3. \A i \in oldest .. writeStart - 1 : data[i % DataSize] = i
    BY DEF StreamInv, WordsStay
  <2> QED
    BY <1>0, <2>2, <2>3 DEF Intact
<1>7. CopyIntact(r)'
  BY <1>0, <1>2, <1>6 DEF CopyIntact, Keeps, ReaderRecords
<1>8. readers'[r].pc \notin ScanPcs /\ (Tracked(r)' => Tracked(r) /\ readers'[r].cursor >= readers[r].cursor)
  BY <1>0, <1>2 DEF ScanPcs, Tracked, ReaderRecords, Indexes
<1> QED
  BY <1>2, <1>4, <1>5, <1>7, <1>8 DEF Quietly, mutexes

LEMMA AdvanceCursorQuietly == ASSUME StreamInv, NEW r \in Ids, AdvanceCursor(r) PROVE Quietly(r)
<1>0. /\ readers[r] \in ReaderRecords /\ ReaderFits(r) /\ Awake(r) /\ CopyIntact(r) /\ BarrierBefore(r)
      /\ seekMutex \in Ids \cup {None} /\ dataMutex \in Ids \cup {None} /\ enableMutex \in Ids \cup {None} /\ r # None
      /\ raced \in BOOLEAN /\ readers \in [Ids -> ReaderRecords]
      /\ writeStart \in Nat /\ writeStart <= MaxIndex /\ MaxIndex \in Nat /\ DataSize \in Nat /\ MaxReaders \in Nat
  BY AtOne, StreamAssumption
<1>1. PICK c, then : c = readers[r].cursor + readers[r].to /\ then = IF writeEnd - c > DataSize THEN "idle" ELSE "success"
  OBVIOUS
<1>2. /\ readers[r].pc = "copied"
      /\ readers'[r] = [readers[r] EXCEPT !.cursor = c, !.to = 0, !.pc = "updating", !.then = then]
      /\ \A q \in Ids \ {r} : readers'[q] = readers[q]
      /\ DOMAIN readers' = Ids /\ readers' = [q \in Ids |-> readers'[q]]
      /\ UNCHANGED <<header, writer, mutexes, raced>>
  BY <1>0, <1>1 DEF AdvanceCursor, At
<1>3. c \in Indexes /\ 0 \in Indexes /\ c >= readers[r].cursor /\ then \in {"idle", "success"}
  BY <1>0, <1>1, <1>2 DEF ReaderFits, ReaderRecords, Indexes
<1>4. readers'[r] \in ReaderRecords
  BY <1>0, <1>2, <1>3 DEF ReaderRecords, Pcs
<1>5. OfReader(r)
  BY <1>0, <1>2, <1>4 DEF OfReader, mutexes
<1>6. ReaderFits(r)' /\ Awake(r)' /\ CopyIntact(r)'
  BY <1>0, <1>2, <1>3, <1>4 DEF ReaderFits, Awake, CopyIntact, HasCopied, Keeps, header, mutexes, ReaderRecords,
                                ScanPcs, BlockingPcs
<1>7. readers'[r].pc \notin ScanPcs /\ (Tracked(r)' => Tracked(r) /\ readers'[r].cursor >= readers[r].cursor)
  BY <1>0, <1>2, <1>3 DEF ScanPcs, Tracked, ReaderRecords
<1> QED
  BY <1>2, <1>5, <1>6, <1>7 DEF Quietly, mutexes

-----------------------------------------------------------------------------
(* Seeks, and readers that appear *)

\* r is placed at index i, behind if the barrier or a scan has passed it.
LEMMA PlacedStep ==
  ASSUME StreamInv, NEW r \in Ids, OfReader(r), UNCHANGED raced,
         readers[r].pc \notin ScanPcs,
         \/ UNCHANGED seekMutex /\ readers'[r].pc \notin ScanPcs
         \/ seekMutex = None /\ readers'[r].id = 1,
         ~raced /\ Tracked(r)' =>
           readers'[r].cursor >= oldest /\ (Unseen(r) => Tracked(r) /\ readers'[r].cursor >= readers[r].cursor),
         ReaderFits(r)', Awake(r)', CopyIntact(r)'
  PROVE  StreamInv'
<1>1. BarrierBefore(r)'
  BY DEF BarrierBefore, OfReader, header
<1>2. ASSUME NEW q \in Ids PROVE NotAhead(r, q)'
  BY <1>2, AtOne DEF NotAhead, Ids
<1>3. ASSUME NEW q \in Ids PROVE NotAhead(q, r)'
  <2>1. CASE q = r
    BY <1>2, <2>1
  <2>2. CASE q # r
    <3>1. readers'[q] = readers[q] /\ NotAhead(q, r) /\ ReaderFits(q)
      BY <2>2 DEF OfReader, StreamInv, ScansSeeAll, ReadersFit
    <3> SUFFICES ASSUME ~raced, readers[q].pc \in ScanPcs, r < readers[q].id, Tracked(r)'
                 PROVE  readers'[r].cursor >= readers[q].found
      BY <3>1 DEF NotAhead
    <3>2. seekMutex = q /\ Unseen(r)
      BY <3>1, AtOne DEF ReaderFits, Unseen
    <3>3. Tracked(r) /\ readers'[r].cursor >= readers[r].cursor
      BY <3>2
    <3>4. readers[r].cursor >= readers[q].found
      BY <3>1, <3>3 DEF NotAhead
    <3>5. readers[r].cursor \in Nat /\ readers'[r].cursor \in Nat /\ readers[q].found \in Nat
      BY AtOne, StreamAssumption DEF OfReader, ReaderRecords, Indexes, Unlimited
    <3> QED
      BY <3>3, <3>4, <3>5
  <2> QED
    BY <2>1, <2>2
<1> QED
  BY <1>1, <1>2, <1>3, ReaderStep

\* A call that ends where it began, or goes on elsewhere without its locals.
LEMMA ResumesQuietly ==
  ASSUME StreamInv, NEW r \in Ids, readers[r].pc \in {"idle", "found", "leaving", "seeking"},
         NEW pc \in {"idle", "leaving", "disabling"}, Resumes(r, pc), UNCHANGED <<header, writer, mutexes, raced>>
  PROVE  Quietly(r)
<1>0. /\ readers[r] \in ReaderRecords /\ ReaderFits(r) /\ Awake(r) /\ CopyIntact(r) /\ BarrierBefore(r)
      /\ seekMutex \in Ids \cup {None} /\ dataMutex \in Ids \cup {None} /\ enableMutex \in Ids \cup {None} /\ r # None
      /\ raced \in BOOLEAN /\ readers \in [Ids -> ReaderRecords]
      /\ MaxIndex \in Nat /\ MaxReaders \in Nat /\ oldest \in Nat
  BY AtOne, StreamAssumption
<1>1. /\ readers'[r] = Resumed(readers[r], pc)
      /\ \A q \in Ids \ {r} : readers'[q] = readers[q]
      /\ DOMAIN readers' = Ids /\ readers' = [q \in Ids |-> readers'[q]]
  BY <1>0 DEF Resumes
<1>2. readers'[r] \in ReaderRecords
  BY <1>0, <1>1, ResumedIs DEF Pcs
<1>3. /\ readers'[r].pc = pc /\ readers'[r].cursor = readers[r].cursor
      /\ readers'[r].isEnabled = readers[r].isEnabled /\ readers'[r].behind = readers[r].behind
      /\ readers'[r].then = "idle" /\ readers'[r].id = 1 /\ readers'[r].found = Unlimited
  BY <1>0, <1>1, ResumedIs DEF Pcs
<1>4. OfReader(r)
  BY <1>0, <1>1, <1>2 DEF OfReader, mutexes
<1>5. ReaderFits(r)' /\ Awake(r)' /\ CopyIntact(r)'
  BY <1>0, <1>2, <1>3 DEF ReaderFits, Awake, CopyIntact, HasCopied, Keeps, header, mutexes, ReaderRecords,
                            ScanPcs, BlockingPcs
<1>6. readers'[r].pc \notin ScanPcs /\ (Tracked(r)' => Tracked(r) /\ readers'[r].cursor >= readers[r].cursor)
  BY <1>0, <1>3 DEF ScanPcs, Tracked, ReaderRecords, Indexes
<1> QED
  BY <1>4, <1>5, <1>6 DEF Quietly, mutexes

LEMMA SeekToInv ==
  ASSUME StreamInv, NEW r \in Ids, NEW i \in Indexes,
         NEW then \in {"idle", "disabling"}, NEW orElse \in {"idle", "leaving", "disabling"},
         readers[r].pc \in {"idle", "found", "leaving"}, SeekTo(r, i, then, orElse),
         UNCHANGED <<header, writer, mutexes, raced>>
  PROVE  StreamInv'
<1>0. /\ readers[r] \in ReaderRecords /\ ReaderFits(r) /\ Awake(r) /\ CopyIntact(r) /\ BarrierBefore(r)
      /\ seekMutex \in Ids \cup {None} /\ dataMutex \in Ids \cup {None} /\ enableMutex \in Ids \cup {None} /\ r # None
      /\ raced \in BOOLEAN /\ readers \in [Ids -> ReaderRecords]
      /\ MaxIndex \in Nat /\ MaxReaders \in Nat /\ oldest \in Nat
  BY AtOne, StreamAssumption
<1>1. ASSUME readers' = [readers EXCEPT ![r].to = i, ![r].then = then, ![r].orElse = orElse, ![r].pc = "seeking"]
      PROVE  StreamInv'
  <2>1. /\ readers'[r] = [readers[r] EXCEPT !.to = i, !.then = then, !.orElse = orElse, !.pc = "seeking"]
        /\ \A q \in Ids \ {r} : readers'[q] = readers[q]
        /\ DOMAIN readers' = Ids /\ readers' = [q \in Ids |-> readers'[q]]
    BY <1>0, <1>1
  <2>2. readers'[r] \in ReaderRecords
    BY <1>0, <2>1 DEF ReaderRecords, Pcs
  <2>3. OfReader(r)
    BY <1>0, <2>1, <2>2 DEF OfReader, mutexes
  <2>4. ReaderFits(r)' /\ Awake(r)' /\ CopyIntact(r)'
    BY <1>0, <2>1, <2>2 DEF ReaderFits, Awake, CopyIntact, HasCopied, Keeps, header, mutexes, ReaderRecords,
                            ScanPcs, BlockingPcs
  <2>5. readers'[r].pc \notin ScanPcs /\ (Tracked(r)' => Tracked(r) /\ readers'[r].cursor >= readers[r].cursor)
    BY <1>0, <2>1 DEF ScanPcs, Tracked, ReaderRecords, Indexes
  <2> QED
    BY <2>3, <2>4, <2>5, QuietStep DEF Quietly, mutexes
<1>2. ASSUME i >= readers[r].cursor,
             readers' = [readers EXCEPT ![r].cursor = i, ![r].behind = Behind(r, i), ![r].to = 0,
                                        ![r].then = then, ![r].pc = "updating"]
      PROVE  StreamInv'
  <2>0. PICK b \in BOOLEAN : b = Behind(r, i)
    BY DEF Behind
  <2>1. /\ readers'[r] = [readers[r] EXCEPT !.cursor = i, !.behind = b, !.to = 0, !.then = then, !.pc = "updating"]
        /\ \A q \in Ids \ {r} : readers'[q] = readers[q]
        /\ DOMAIN readers' = Ids /\ readers' = [q \in Ids |-> readers'[q]]
    BY <1>0, <1>2, <2>0
  <2>2. readers'[r] \in ReaderRecords
    <3>1. 0 \in Indexes
      BY <1>0 DEF Indexes
    <3> QED
      BY <1>0, <2>0, <2>1, <3>1 DEF ReaderRecords, Pcs
  <2>3. OfReader(r)
    BY <1>0, <2>1, <2>2 DEF OfReader, mutexes
  <2>4. ReaderFits(r)' /\ Awake(r)' /\ CopyIntact(r)'
    BY <1>0, <2>1, <2>2 DEF ReaderFits, Awake, CopyIntact, HasCopied, Keeps, header, mutexes, ReaderRecords,
                            ScanPcs, BlockingPcs
  <2>5. Tracked(r)' => readers'[r].cursor >= oldest /\ (Unseen(r) => Tracked(r) /\ readers'[r].cursor >= readers[r].cursor)
    BY <1>0, <1>2, <2>0, <2>1 DEF Tracked, Behind, ReaderRecords, Indexes
  <2>6. readers[r].pc \notin ScanPcs /\ readers'[r].pc \notin ScanPcs
    BY <1>0, <2>1 DEF ScanPcs, ReaderRecords
  <2> QED
    BY <2>3, <2>4, <2>5, <2>6, PlacedStep DEF mutexes
<1>3. ASSUME Resumes(r, orElse) PROVE StreamInv'
  BY <1>3, ResumesQuietly, QuietStep
<1> QED
  BY <1>1, <1>2, <1>3 DEF SeekTo

LEMMA SeekBackInv == ASSUME StreamInv, NEW r \in Ids, SeekBack(r) PROVE StreamInv'
<1>0. /\ readers[r] \in ReaderRecords /\ ReaderFits(r) /\ Awake(r) /\ CopyIntact(r) /\ BarrierBefore(r)
      /\ seekMutex \in Ids \cup {None} /\ dataMutex \in Ids \cup {None} /\ enableMutex \in Ids \cup {None} /\ r # None
      /\ raced \in BOOLEAN /\ readers \in [Ids -> ReaderRecords]
      /\ MaxIndex \in Nat /\ MaxReaders \in Nat /\ oldest \in Nat
  BY AtOne, StreamAssumption
<1>1. readers[r].pc = "seeking" /\ seekMutex = None /\ UNCHANGED <<header, writer, dataMutex, enableMutex, raced>>
  BY DEF SeekBack, At
<1>2. ASSUME Resumes(r, readers[r].orElse), UNCHANGED seekMutex PROVE StreamInv'
  <2>1. readers[r].orElse \in {"idle", "leaving", "disabling"}
    BY <1>0 DEF ReaderRecords
  <2> QED
    BY <1>1, <1>2, <2>1, ResumesQuietly, QuietStep DEF mutexes
<1>3. ASSUME NEW i \in Indexes, seekMutex' = r,
             readers' = [readers EXCEPT ![r].cursor = i, ![r].behind = Behind(r, i), ![r].to = 0,
                                        ![r].orElse = "idle", ![r].pc = "scanning"]
      PROVE  StreamInv'
  <2>0. PICK b \in BOOLEAN : b = Behind(r, i)
    BY DEF Behind
  <2>1. /\ readers'[r] = [readers[r] EXCEPT !.cursor = i, !.behind = b, !.to = 0, !.orElse = "idle", !.pc = "scanning"]
        /\ \A q \in Ids \ {r} : readers'[q] = readers[q]
        /\ DOMAIN readers' = Ids /\ readers' = [q \in Ids |-> readers'[q]]
    BY <1>0, <1>3, <2>0
  <2>2. readers'[r] \in ReaderRecords
    <3>1. 0 \in Indexes
      BY <1>0 DEF Indexes
    <3> QED
      BY <1>0, <2>0, <2>1, <3>1 DEF ReaderRecords, Pcs
  <2>3. OfReader(r)
    BY <1>0, <1>1, <1>3, <2>1, <2>2 DEF OfReader
  <2>4. ReaderFits(r)' /\ Awake(r)' /\ CopyIntact(r)'
    BY <1>0, <1>1, <1>3, <2>1, <2>2 DEF ReaderFits, Awake, CopyIntact, HasCopied, Keeps, header, mutexes, ReaderRecords,
                            ScanPcs, BlockingPcs
  <2>5. Tracked(r)' => readers'[r].cursor >= oldest /\ ~Unseen(r)
    BY <1>0, <1>1, <2>0, <2>1 DEF Tracked, Behind, Unseen, ReaderRecords, Indexes
  <2>6. readers[r].pc \notin ScanPcs /\ readers'[r].id = 1
    BY <1>0, <1>1, <2>1 DEF ScanPcs, ReaderFits, ReaderRecords
  <2> QED
    BY <1>1, <2>3, <2>4, <2>5, <2>6, PlacedStep
<1>4. readers[r].to \in Indexes
  BY <1>0 DEF ReaderRecords
<1> QED
  BY <1>2, <1>3, <1>4 DEF SeekBack

LEMMA EnableReaderInv == ASSUME StreamInv, NEW r \in Ids, NEW new \in BOOLEAN, EnableReader(r, new) PROVE StreamInv'
<1>0. /\ readers[r] \in ReaderRecords /\ ReaderFits(r) /\ Awake(r) /\ CopyIntact(r) /\ BarrierBefore(r)
      /\ seekMutex \in Ids \cup {None} /\ dataMutex \in Ids \cup {None} /\ enableMutex \in Ids \cup {None} /\ r # None
      /\ raced \in BOOLEAN /\ readers \in [Ids -> ReaderRecords]
      /\ MaxIndex \in Nat /\ MaxReaders \in Nat /\ oldest \in Nat
  BY AtOne, StreamAssumption
<1>1. PICK b \in BOOLEAN, pc \in {"updating", "created"} :
        b = (readers[r].cursor < oldest \/ Unseen(r)) /\ pc = IF new THEN "updating" ELSE "created"
  BY DEF Unseen
<1>2. /\ readers[r].pc = "constructed"
      /\ readers'[r] = [readers[r] EXCEPT !.isEnabled = TRUE, !.then = "idle", !.behind = b, !.pc = pc]
      /\ \A q \in Ids \ {r} : readers'[q] = readers[q]
      /\ DOMAIN readers' = Ids /\ readers' = [q \in Ids |-> readers'[q]]
      /\ enableMutex' = None /\ UNCHANGED <<header, writer, seekMutex, dataMutex, raced>>
  BY <1>0, <1>1 DEF EnableReader, At
<1>3. readers'[r] \in ReaderRecords
  BY <1>0, <1>1, <1>2 DEF ReaderRecords, Pcs
<1>4. OfReader(r)
  BY <1>0, <1>2, <1>3 DEF OfReader
<1>5. ReaderFits(r)' /\ Awake(r)' /\ CopyIntact(r)'
  BY <1>0, <1>1, <1>2, <1>3 DEF ReaderFits, Awake, CopyIntact, HasCopied, Keeps, header, mutexes, ReaderRecords,
                            ScanPcs, BlockingPcs
<1>6. Tracked(r)' => readers'[r].cursor >= oldest /\ ~Unseen(r)
  <2>1. readers'[r].behind = b /\ readers'[r].cursor = readers[r].cursor /\ readers[r].cursor \in Nat
    BY <1>0, <1>2 DEF ReaderRecords, Indexes
  <2>2. ~b => ~(readers[r].cursor < oldest) /\ ~Unseen(r)
    BY <1>1 DEF Unseen
  <2> QED
    BY <1>0, <2>1, <2>2 DEF Tracked
<1>7. readers[r].pc \notin ScanPcs /\ readers'[r].pc \notin ScanPcs
  BY <1>0, <1>1, <1>2 DEF ScanPcs, ReaderRecords
<1> QED
  BY <1>2, <1>4, <1>5, <1>6, <1>7, PlacedStep

-----------------------------------------------------------------------------
(* updateOldestUnconsumedCursor() *)

LEMMA UpdateInv == ASSUME StreamInv, NEW r \in Ids, Update(r) PROVE StreamInv'
<1>0. /\ readers[r] \in ReaderRecords /\ ReaderFits(r) /\ Awake(r) /\ CopyIntact(r) /\ BarrierBefore(r)
      /\ seekMutex \in Ids \cup {None} /\ dataMutex \in Ids \cup {None} /\ enableMutex \in Ids \cup {None} /\ r # None
      /\ raced \in BOOLEAN /\ readers \in [Ids -> ReaderRecords]
      /\ MaxIndex \in Nat /\ MaxReaders \in Nat /\ oldest \in Nat
  BY AtOne, StreamAssumption
<1>1. /\ readers[r].pc = "updating" /\ seekMutex = None /\ seekMutex' = r
      /\ readers'[r] = [readers[r] EXCEPT !.pc = "scanning"]
      /\ \A q \in Ids \ {r} : readers'[q] = readers[q]
      /\ DOMAIN readers' = Ids /\ readers' = [q \in Ids |-> readers'[q]]
      /\ UNCHANGED <<header, writer, dataMutex, enableMutex, raced>>
  BY <1>0 DEF Update, At
<1>2. readers'[r] \in ReaderRecords
  BY <1>0, <1>1 DEF ReaderRecords, Pcs
<1>3. OfReader(r)
  BY <1>0, <1>1, <1>2 DEF OfReader
<1>4. ReaderFits(r)' /\ Awake(r)' /\ CopyIntact(r)'
  BY <1>0, <1>1, <1>2 DEF ReaderFits, Awake, CopyIntact, HasCopied, Keeps, header, mutexes, ReaderRecords,
                            ScanPcs, BlockingPcs
<1>5. ~raced /\ Tracked(r)' => readers'[r].cursor >= oldest /\ ~Unseen(r)
  BY <1>0, <1>1 DEF Tracked, Unseen, BarrierBefore, ReaderRecords
<1>6. readers[r].pc \notin ScanPcs /\ readers'[r].id = 1
  BY <1>0, <1>1 DEF ScanPcs, ReaderFits, ReaderRecords
<1> QED
  BY <1>1, <1>3, <1>4, <1>5, <1>6, PlacedStep

\* The scan goes on past one more reader.  What it has found is not ahead of that one, nor, as
\* it has only moved back, of those before.
LEMMA ScanStep ==
  ASSUME StreamInv, NEW r \in Ids, OfReader(r), UNCHANGED mutexes,
         readers[r].pc \in ScanPcs, readers'[r].pc \in ScanPcs,
         readers'[r].pc = "taking" => readers'[r].id \in Ids,
         readers'[r].then = readers[r].then, readers'[r].cursor = readers[r].cursor,
         readers'[r].isEnabled = readers[r].isEnabled, readers'[r].behind = readers[r].behind,
         readers'[r].intact = readers[r].intact,
         ~raced' => readers'[r].found <= readers[r].found,
         \A q \in Ids : q < readers'[r].id =>
           q < readers[r].id \/ (~raced' /\ Tracked(q) => readers[q].cursor >= readers'[r].found)
  PROVE  StreamInv'
<1>0. /\ readers[r] \in ReaderRecords /\ ReaderFits(r) /\ Awake(r) /\ CopyIntact(r) /\ BarrierBefore(r)
      /\ seekMutex \in Ids \cup {None} /\ dataMutex \in Ids \cup {None} /\ enableMutex \in Ids \cup {None} /\ r # None
      /\ raced \in BOOLEAN /\ readers \in [Ids -> ReaderRecords]
      /\ MaxIndex \in Nat /\ MaxReaders \in Nat /\ oldest \in Nat
  BY AtOne, StreamAssumption
<1>1. /\ \A q \in Ids \ {r} : readers'[q] = readers[q]
      /\ readers'[r] \in ReaderRecords /\ (raced => raced') /\ UNCHANGED <<header, writer>>
  BY DEF OfReader
<1>4. ReaderFits(r)' /\ Awake(r)' /\ CopyIntact(r)' /\ BarrierBefore(r)'
  BY <1>0, <1>1 DEF BarrierBefore, Tracked, ReaderFits, Awake, CopyIntact, HasCopied, Keeps, header, mutexes, ReaderRecords,
                            ScanPcs, BlockingPcs
<1>5. \A q \in Ids : /\ readers'[q].cursor = readers[q].cursor /\ (Tracked(q)' <=> Tracked(q))
                     /\ readers[q].cursor \in Nat
  BY <1>0, <1>1 DEF Tracked, ReaderRecords, Indexes
<1>6. ASSUME NEW q \in Ids PROVE NotAhead(r, q)'
  <2> SUFFICES ASSUME ~raced', q < readers'[r].id, Tracked(q) PROVE readers[q].cursor >= readers'[r].found
    BY <1>5 DEF NotAhead
  <2>1. readers'[r].found \in Nat /\ readers[r].found \in Nat
    BY <1>0, <1>1 DEF ReaderRecords, Indexes, Unlimited
  <2>2. NotAhead(r, q) /\ ~raced
    BY <1>1 DEF StreamInv, ScansSeeAll
  <2>3. CASE q < readers[r].id
    BY <1>5, <2>1, <2>2, <2>3 DEF NotAhead
  <2>4. CASE ~(q < readers[r].id)
    BY <2>4
  <2> QED
    BY <2>3, <2>4
<1>7. ASSUME NEW q \in Ids PROVE NotAhead(q, r)'
  <2>1. CASE q = r
    BY <1>6, <2>1
  <2>2. CASE q # r
    BY <1>1, <1>5, <2>2 DEF StreamInv, ScansSeeAll, NotAhead
  <2> QED
    BY <2>1, <2>2
<1> QED
  BY <1>4, <1>6, <1>7, ReaderStep

LEMMA CompareInv == ASSUME StreamInv, NEW r \in Ids, Compare(r) PROVE StreamInv'
<1>0. /\ readers[r] \in ReaderRecords /\ ReaderFits(r) /\ Awake(r) /\ CopyIntact(r) /\ BarrierBefore(r)
      /\ seekMutex \in Ids \cup {None} /\ dataMutex \in Ids \cup {None} /\ enableMutex \in Ids \cup {None} /\ r # None
      /\ raced \in BOOLEAN /\ readers \in [Ids -> ReaderRecords]
      /\ MaxIndex \in Nat /\ MaxReaders \in Nat /\ oldest \in Nat
  BY AtOne, StreamAssumption
<1>1. PICK k, f : k = readers[r].id /\ f = readers[r].found
  OBVIOUS
<1>2. /\ readers[r].pc = "scanning" /\ k \in Ids /\ k + 1 \in 1 .. MaxReaders + 1 /\ k \in Nat
      /\ f \in Indexes \cup {Unlimited} /\ f \in Nat /\ UNCHANGED <<header, writer, mutexes, raced>>
  BY <1>0, <1>1 DEF Compare, At, Ids, ReaderRecords, Indexes, Unlimited
<1>3. \A q \in Ids : q < k + 1 => q < k \/ q = k
  BY <1>2 DEF Ids
<1>4. readers[k].cursor \in Nat /\ readers[r].cursor \in Indexes
  BY <1>0, <1>2 DEF ReaderRecords, Indexes
<1>5. CASE ~Older(r)
  <2>1. /\ readers'[r] = [readers[r] EXCEPT !.id = k + 1]
        /\ \A q \in Ids \ {r} : readers'[q] = readers[q]
        /\ DOMAIN readers' = Ids /\ readers' = [q \in Ids |-> readers'[q]]
    BY <1>0, <1>1, <1>2, <1>5 DEF Compare
  <2>2. readers'[r] \in ReaderRecords
    BY <1>0, <1>2, <2>1 DEF ReaderRecords
  <2>3. OfReader(r)
    BY <1>0, <1>2, <2>1, <2>2 DEF OfReader, mutexes
  <2>4. Tracked(k) => readers[k].cursor >= f
    BY <1>1, <1>2, <1>4, <1>5 DEF Older, Scanned, Tracked
  <2>5. /\ readers'[r].id = k + 1 /\ readers'[r].found = f /\ readers'[r].pc = "scanning"
        /\ readers'[r].then = readers[r].then /\ readers'[r].cursor = readers[r].cursor
        /\ readers'[r].isEnabled = readers[r].isEnabled /\ readers'[r].behind = readers[r].behind
        /\ readers'[r].intact = readers[r].intact
    BY <1>0, <1>1, <1>2, <2>1 DEF ReaderRecords
  <2>6. f <= f
    BY <1>2
  <2>7. \A q \in Ids : q < k + 1 => q < k \/ (Tracked(q) => readers[q].cursor >= f)
    BY <1>3, <2>4
  <2> QED
    BY <1>1, <1>2, <2>3, <2>5, <2>6, <2>7, ScanStep DEF ScanPcs
<1>6. CASE Older(r) /\ k = r
  <2>1. /\ readers'[r] = [readers[r] EXCEPT !.found = readers[r].cursor, !.id = k + 1]
        /\ \A q \in Ids \ {r} : readers'[q] = readers[q]
        /\ DOMAIN readers' = Ids /\ readers' = [q \in Ids |-> readers'[q]]
    BY <1>0, <1>1, <1>2, <1>6 DEF Compare
  <2>2. readers'[r] \in ReaderRecords
    BY <1>0, <1>2, <1>4, <2>1 DEF ReaderRecords
  <2>3. OfReader(r)
    BY <1>0, <1>2, <2>1, <2>2 DEF OfReader, mutexes
  <2>4. readers[r].cursor <= f /\ readers[k].cursor >= readers[r].cursor
    BY <1>1, <1>2, <1>4, <1>6 DEF Older, Scanned
  <2>5. /\ readers'[r].id = k + 1 /\ readers'[r].found = readers[r].cursor /\ readers'[r].pc = "scanning"
        /\ readers'[r].then = readers[r].then /\ readers'[r].cursor = readers[r].cursor
        /\ readers'[r].isEnabled = readers[r].isEnabled /\ readers'[r].behind = readers[r].behind
        /\ readers'[r].intact = readers[r].intact
    BY <1>0, <1>1, <1>2, <2>1 DEF ReaderRecords
  <2>7. \A q \in Ids : q < k + 1 => q < k \/ (Tracked(q) => readers[q].cursor >= readers[r].cursor)
    BY <1>3, <2>4
  <2> QED
    BY <1>1, <1>2, <2>3, <2>4, <2>5, <2>7, ScanStep DEF ScanPcs
<1>7. CASE Older(r) /\ k # r
  <2>1. /\ readers'[r] = [readers[r] EXCEPT !.pc = "taking"]
        /\ \A q \in Ids \ {r} : readers'[q] = readers[q]
        /\ DOMAIN readers' = Ids /\ readers' = [q \in Ids |-> readers'[q]]
    BY <1>0, <1>1, <1>2, <1>7 DEF Compare, Goes
  <2>2. readers'[r] \in ReaderRecords
    BY <1>0, <2>1 DEF ReaderRecords, Pcs
  <2>3. OfReader(r)
    BY <1>0, <1>2, <2>1, <2>2 DEF OfReader, mutexes
  <2>5. /\ readers'[r].id = k /\ readers'[r].found = f /\ readers'[r].pc = "taking"
        /\ readers'[r].then = readers[r].then /\ readers'[r].cursor = readers[r].cursor
        /\ readers'[r].isEnabled = readers[r].isEnabled /\ readers'[r].behind = readers[r].behind
        /\ readers'[r].intact = readers[r].intact
    BY <1>0, <1>1, <1>2, <2>1 DEF ReaderRecords
  <2>6. f <= f
    BY <1>2
  <2> QED
    BY <1>1, <1>2, <2>3, <2>5, <2>6, ScanStep DEF ScanPcs
<1> QED
  BY <1>5, <1>6, <1>7

\* The cursor is read again: if it has moved ahead of what was found, the scan is "raced".
LEMMA TakeInv == ASSUME StreamInv, NEW r \in Ids, Take(r) PROVE StreamInv'
<1>0. /\ readers[r] \in ReaderRecords /\ ReaderFits(r) /\ Awake(r) /\ CopyIntact(r) /\ BarrierBefore(r)
      /\ seekMutex \in Ids \cup {None} /\ dataMutex \in Ids \cup {None} /\ enableMutex \in Ids \cup {None} /\ r # None
      /\ raced \in BOOLEAN /\ readers \in [Ids -> ReaderRecords]
      /\ MaxIndex \in Nat /\ MaxReaders \in Nat /\ oldest \in Nat
  BY AtOne, StreamAssumption
<1>1. PICK k, f : k = readers[r].id /\ f = readers[k].cursor
  OBVIOUS
<1>2. /\ readers[r].pc = "taking" /\ k \in Ids
  BY <1>0, <1>1 DEF Take, At, ReaderFits
<1>3. k \in Nat /\ k + 1 \in 1 .. MaxReaders + 1
  BY <1>0, <1>2 DEF Ids
<1>4. f \in Indexes /\ f \in Nat /\ readers[r].found \in Nat
  <2>1. readers[k] \in ReaderRecords
    BY <1>0, <1>2
  <2> QED
    BY <1>0, <1>1, <2>1 DEF ReaderRecords, Indexes, Unlimited
<1>5. /\ readers'[r] = [readers[r] EXCEPT !.found = f, !.id = k + 1, !.pc = "scanning"]
      /\ \A q \in Ids \ {r} : readers'[q] = readers[q]
      /\ DOMAIN readers' = Ids /\ readers' = [q \in Ids |-> readers'[q]]
      /\ UNCHANGED <<header, writer, mutexes>>
      /\ raced' = (raced \/ f > readers[r].found)
  BY <1>0, <1>1 DEF Take, Scanned
<1>6. readers'[r] \in ReaderRecords
  BY <1>0, <1>3, <1>4, <1>5 DEF ReaderRecords, Pcs
<1>7. raced' \in BOOLEAN /\ (raced => raced')
  BY <1>0, <1>5
<1>8. ~raced' => f <= readers[r].found
  <2>1. f > readers[r].found => raced'
    BY <1>5, Zenon
  <2> QED
    BY <1>4, <2>1
<1>9. OfReader(r)
  BY <1>0, <1>5, <1>6, <1>7 DEF OfReader, mutexes
<1>10. /\ readers'[r].id = k + 1 /\ readers'[r].found = f /\ readers'[r].pc = "scanning"
       /\ readers'[r].then = readers[r].then /\ readers'[r].cursor = readers[r].cursor
       /\ readers'[r].isEnabled = readers[r].isEnabled /\ readers'[r].behind = readers[r].behind
       /\ readers'[r].intact = readers[r].intact
  BY <1>0, <1>5 DEF ReaderRecords
<1>11. \A q \in Ids : q < k + 1 => q < k \/ readers[q].cursor >= f
  BY <1>1, <1>3, <1>4 DEF Ids
<1>12. \A q \in Ids : q < readers'[r].id =>
         q < readers[r].id \/ (~raced' /\ Tracked(q) => readers[q].cursor >= readers'[r].found)
  BY <1>1, <1>10, <1>11
<1>13. ~raced' => readers'[r].found <= readers[r].found
  BY <1>8, <1>10
<1>14. readers[r].pc \in ScanPcs /\ readers'[r].pc \in ScanPcs /\ readers'[r].pc # "taking"
  BY <1>2, <1>10 DEF ScanPcs
<1> QED
  BY <1>5, <1>9, <1>10, <1>12, <1>13, <1>14, ScanStep

\* The barrier is moved to what the scan has found, which is ahead of no reader.
LEMMA EndUpdateInv == ASSUME StreamInv, NEW r \in Ids, EndUpdate(r) PROVE StreamInv'
<1>0. /\ readers[r] \in ReaderRecords /\ ReaderFits(r) /\ CopyIntact(r)
      /\ r # None /\ raced \in BOOLEAN /\ readers \in [Ids -> ReaderRecords]
      /\ writeStart \in Indexes /\ writeStart \in Nat /\ oldest \in Nat /\ oldest \in Indexes
      /\ MaxIndex \in Nat /\ MaxReaders \in Nat /\ writer \in [pc : WriterPcs, policy : Policies] /\ TypeOK
  BY AtOne, StreamAssumption DEF StreamInv, TypeOK
<1>1. /\ readers[r].pc = "scanning" /\ readers[r].id \notin Ids /\ seekMutex = r /\ seekMutex' = None
      /\ enableMutex' \in {None, enableMutex} /\ UNCHANGED <<writeStart, writeEnd, enabled, beenClosed, data, dataMutex, raced>>
  BY <1>0 DEF EndUpdate, At, ReaderFits, ScanPcs
<1>2. \A q \in Ids : q < readers[r].id
  BY <1>0, <1>1 DEF ReaderRecords, Ids
<1>3. \/ oldest' = Oldest(r) /\ Oldest(r) > oldest /\ writer' = WriterNotified
      \/ UNCHANGED <<oldest, writer>>
  BY DEF EndUpdate, Advance
<1>4. Oldest(r) \in Indexes /\ Oldest(r) \in Nat
  BY <1>0 DEF Oldest, ReaderRecords, Indexes
<1>5. oldest' \in Indexes /\ oldest' \in Nat /\ oldest' >= oldest
  BY <1>0, <1>3, <1>4
<1>6. /\ writer' \in [pc : WriterPcs, policy : Policies] /\ writer'.policy = writer.policy
      /\ writer'.pc = "asleep" => writer.pc = "asleep" /\ oldest' = oldest
  BY <1>0, <1>3 DEF WriterNotified, WriterAt, WriterPcs
<1>7. PICK then : then = readers[r].then
  OBVIOUS
<1>8. then \in {"idle", "success", "disabling", "none"}
  BY <1>0, <1>7 DEF ReaderRecords
<1>9. /\ readers'[r] = IF then = "none" THEN NoReader ELSE Resumed(readers[r], then)
      /\ \A q \in Ids \ {r} : readers'[q] = readers[q]
      /\ DOMAIN readers' = Ids /\ readers' = [q \in Ids |-> readers'[q]]
  BY <1>0, <1>7 DEF EndUpdate, Resumes
<1>10. /\ readers'[r] \in ReaderRecords /\ readers'[r].pc = then /\ readers'[r].then = "idle"
       /\ readers'[r].id = 1 /\ readers'[r].found = Unlimited
       /\ Tracked(r)' => Tracked(r) /\ readers'[r].cursor = readers[r].cursor
       /\ then # "none" => /\ readers'[r].isEnabled = readers[r].isEnabled /\ readers'[r].behind = readers[r].behind
                           /\ readers'[r].intact = readers[r].intact
  <2>1. CASE then = "none"
    BY <1>9, <2>1, ReadersType DEF NoReader, Tracked
  <2>2. CASE then # "none"
    BY <1>0, <1>8, <1>9, <2>2, ResumedIs DEF Pcs, Tracked
  <2> QED
    BY <2>1, <2>2
<1>11. readers' \in [Ids -> ReaderRecords]
  BY <1>0, <1>9, <1>10
<1>12. TypeOK'
  BY <1>0, <1>1, <1>5, <1>6, <1>11 DEF TypeOK, ReaderRecords
<1>13. ASSUME NEW q \in Ids PROVE ReaderFits(q)' /\ Awake(q)' /\ CopyIntact(q)' /\ readers'[q].pc \notin ScanPcs
  <2>1. CASE q = r
    BY <1>0, <1>1, <1>6, <1>7, <1>8, <1>10, <2>1
       DEF ReaderFits, Awake, CopyIntact, HasCopied, Keeps, ScanPcs, BlockingPcs, ReaderRecords
  <2>2. CASE q # r
    <3>1. ReaderFits(q) /\ Awake(q) /\ CopyIntact(q) /\ q # None
      BY AtOne
    <3> QED
      BY <1>1, <1>6, <1>9, <2>2, <3>1 DEF ReaderFits, Awake, CopyIntact, HasCopied, Keeps
  <2> QED
    BY <2>1, <2>2
<1>14. ASSUME NEW q \in Ids PROVE BarrierBefore(q)'
  <2> SUFFICES ASSUME ~raced, Tracked(q)' PROVE readers'[q].cursor >= oldest'
    BY <1>1 DEF BarrierBefore
  <2>1. Tracked(q) /\ readers'[q].cursor = readers[q].cursor /\ readers[q].cursor \in Indexes
    BY <1>0, <1>9, <1>10 DEF Tracked, ReaderRecords
  <2>2. NotAhead(r, q) /\ BarrierBefore(q)
    BY DEF StreamInv, ScansSeeAll
  <2>3. readers[q].cursor >= readers[r].found
    BY <1>1, <1>2, <2>1, <2>2 DEF NotAhead, ScanPcs
  <2>4. readers[r].found # Unlimited
    BY <1>0, <2>1, <2>3 DEF Indexes, Unlimited
  <2>5. Oldest(r) = readers[r].found
    BY <2>4 DEF Oldest
  <2> QED
    BY <1>3, <2>1, <2>2, <2>3, <2>5 DEF BarrierBefore
<1>15. SleepsWhenFull'
  BY <1>1, <1>6 DEF StreamInv, SleepsWhenFull, Room
<1>16. WritesFit' /\ WordsStay'
  <2>1. DataSize \in Nat /\ writeEnd \in Nat
    BY <1>0, StreamAssumption DEF TypeOK, Indexes
  <2>2. WritesFit /\ WordsStay /\ (Keeps' <=> Keeps)
    BY <1>6 DEF StreamInv, Keeps
  <2>3. WritesFit'
    <3> SUFFICES ASSUME Keeps PROVE writeEnd <= oldest' + DataSize /\ writeEnd - writeStart <= DataSize
      BY <1>1, <2>2 DEF WritesFit
    <3>1. writeEnd <= oldest + DataSize /\ writeEnd - writeStart <= DataSize
      BY <2>2 DEF WritesFit
    <3>2. ASSUME NEW before \in Nat, NEW after \in Nat, after >= before, writeEnd <= before + DataSize
          PROVE  writeEnd <= after + DataSize
      BY <2>1, <3>2
    <3>3. oldest \in Nat /\ oldest' \in Nat /\ oldest' >= oldest
      BY <1>0, <1>5
    <3> QED
      BY <3>1, <3>2, <3>3
  <2>4. \A i \in oldest' .. writeStart - 1 : i \in oldest .. writeStart - 1
    BY <1>0, <1>5
  <2>5. WordsStay'
    BY <1>1, <2>2, <2>4 DEF WordsStay
  <2> QED
    BY <2>3, <2>5
<1>17. ReadersFit' /\ AllAwake' /\ ScansSeeAll'
  BY <1>13 DEF ReadersFit, AllAwake, ScansSeeAll, NotAhead
<1> QED
  BY <1>12, <1>13, <1>14, <1>15, <1>16, <1>17 DEF StreamInv

-----------------------------------------------------------------------------
(* The Writer *)

\* A step of the writer's thread, which may notify the readers that sleep.
LEMMA WriterStep ==
  ASSUME StreamInv, UNCHANGED <<oldest, mutexes, raced>>, readers' \in {readers, ReadersNotified},
         writeStart' \in Indexes, writeStart' >= writeStart, writeEnd' \in writeStart' .. MaxIndex,
         enabled' \in BOOLEAN, beenClosed' \in BOOLEAN,
         writer' \in [pc : WriterPcs, policy : Policies], writer'.policy = writer.policy,
         data' \in [0 .. DataSize - 1 -> Indexes \cup {Torn}],
         AllAwake', SleepsWhenFull', WritesFit', WordsStay'
  PROVE  StreamInv'
<1>a. TypeOK /\ MaxIndex \in Nat
  BY StreamAssumption DEF StreamInv
<1>0. readers \in [Ids -> ReaderRecords] /\ TypeOK /\ writeStart \in Nat /\ MaxIndex \in Nat
  BY <1>a, ReadersType DEF TypeOK, Indexes
<1>1. \A q \in Ids : readers'[q] \in {readers[q], [readers[q] EXCEPT !.pc = "woken"]}
                     /\ (readers'[q] # readers[q] => readers[q].pc = "asleep")
  BY <1>0 DEF ReadersNotified, At
<1>2. readers' \in [Ids -> ReaderRecords]
  <2>1. readers' = [q \in Ids |-> readers'[q]]
    BY <1>0 DEF ReadersNotified
  <2>2. \A q \in Ids : readers'[q] \in ReaderRecords
    BY <1>0, <1>1 DEF ReaderRecords, Pcs
  <2> QED
    BY <2>1, <2>2
<1>3. ASSUME NEW q \in Ids
      PROVE  /\ readers'[q].pc = readers[q].pc \/ (readers[q].pc = "asleep" /\ readers'[q].pc = "woken")
             /\ readers'[q].then = readers[q].then /\ readers'[q].cursor = readers[q].cursor
             /\ readers'[q].isEnabled = readers[q].isEnabled /\ readers'[q].behind = readers[q].behind
             /\ readers'[q].intact = readers[q].intact /\ readers'[q].id = readers[q].id
             /\ readers'[q].found = readers[q].found /\ readers'[q].limit = readers[q].limit
             /\ readers'[q].to = readers[q].to /\ readers[q].to \in Nat /\ readers[q].cursor \in Nat
  <2>1. readers[q] \in ReaderRecords
    BY <1>0
  <2> QED
    BY <1>0, <1>1, <2>1 DEF ReaderRecords, Indexes
<1>4. TypeOK'
  BY <1>0, <1>2 DEF TypeOK, ReaderRecords, mutexes
<1>5. ASSUME NEW q \in Ids PROVE ReaderFits(q)'
  <2>1. ReaderFits(q)
    BY DEF StreamInv, ReadersFit
  <2> QED
    BY <1>0, <1>3, <2>1 DEF ReaderFits, mutexes, ScanPcs, BlockingPcs, Indexes
<1>6. ASSUME NEW q \in Ids PROVE BarrierBefore(q)' /\ CopyIntact(q)'
  BY <1>3 DEF StreamInv, BarrierBefore, CopyIntact, HasCopied, Keeps, Tracked
<1>7. ASSUME NEW q \in Ids, NEW p \in Ids PROVE NotAhead(q, p)'
  <2>1. NotAhead(q, p)
    BY DEF StreamInv, ScansSeeAll
  <2> QED
    BY <1>3, <2>1 DEF NotAhead, Tracked, ScanPcs
<1> QED
  BY <1>4, <1>5, <1>6, <1>7 DEF StreamInv, ReadersFit, ScansSeeAll

\* Indexes that are less than the size of the buffer apart have different slots.
LEMMA SlotsApart ==
  ASSUME NEW i \in Nat, NEW k \in Nat, i < k, k - i < DataSize
  PROVE  i % DataSize # k % DataSize
<1>0. DataSize \in Nat /\ DataSize > 0
  BY StreamAssumption
<1>1. i = DataSize * (i \div DataSize) + (i % DataSize) /\ k = DataSize * (k \div DataSize) + (k % DataSize)
  BY <1>0
<1>2. PICK p, q : p = i \div DataSize /\ q = k \div DataSize
  OBVIOUS
<1>3. p \in Nat /\ q \in Nat /\ i % DataSize \in Nat /\ k % DataSize \in Nat
  BY <1>0, <1>2
<1> SUFFICES ASSUME i % DataSize = k % DataSize PROVE FALSE
  OBVIOUS
<1>4. k - i = DataSize * (q - p)
  BY <1>0, <1>1, <1>2, <1>3
<1>5. CASE q - p <= 0
  <2>1. DataSize * (q - p) <= 0
    BY <1>0, <1>3, <1>5
  <2> QED
    BY <1>4, <2>1
<1>6. CASE q - p >= 1
  <2>1. DataSize * (q - p) >= DataSize
    BY <1>0, <1>3, <1>6
  <2> QED
    BY <1>0, <1>4, <2>1
<1> QED
  BY <1>3, <1>5, <1>6

LEMMA SlotIs == ASSUME NEW i \in Nat PROVE i % DataSize \in 0 .. DataSize - 1
  BY StreamAssumption

\* The slots of the next words are none of those of the words that are kept.
LEMMA ClaimedApart ==
  ASSUME NEW end \in Nat, NEW n \in Nat, writeStart \in Nat, oldest \in Nat, writeStart + n <= end,
         end <= oldest + DataSize, NEW i \in oldest .. writeStart - 1
  PROVE  ~\E k \in 0 .. n - 1 : (writeStart + k) % DataSize = i % DataSize
<1> SUFFICES ASSUME NEW k \in 0 .. n - 1 PROVE (writeStart + k) % DataSize # i % DataSize
  OBVIOUS
<1>1. i \in Nat /\ writeStart + k \in Nat /\ i < writeStart + k /\ (writeStart + k) - i < DataSize
  BY StreamAssumption
<1> QED
  BY <1>1, SlotsApart

LEMMA StreamTypes ==
  ASSUME StreamInv
  PROVE  /\ writeStart \in Nat /\ writeEnd \in Nat /\ oldest \in Nat /\ MaxIndex \in Nat /\ DataSize \in Nat /\ DataSize > 0
         /\ MaxWrite \in Nat /\ writeStart <= writeEnd /\ writeEnd <= MaxIndex /\ writeStart \in Indexes
         /\ writer \in [pc : WriterPcs, policy : Policies] /\ enabled \in BOOLEAN /\ beenClosed \in BOOLEAN
         /\ data \in [0 .. DataSize - 1 -> Indexes \cup {Torn}]
         /\ writeEnd \in writeStart .. MaxIndex
         /\ AllAwake /\ WritesFit /\ WordsStay /\ SleepsWhenFull
<1>1. TypeOK /\ AllAwake /\ WritesFit /\ WordsStay /\ SleepsWhenFull
  BY DEF StreamInv
<1> QED
  BY <1>1, StreamAssumption DEF TypeOK, Indexes

LEMMA ClaimInv ==
  ASSUME StreamInv, NEW n \in Nat, Claim(n), Keeps => writeStart + n <= oldest + DataSize /\ n <= DataSize
  PROVE  StreamInv'
<1>0. PICK end, copied : end = writeStart + n /\ copied = Least(n, DataSize)
  OBVIOUS
<1>1. /\ end <= MaxIndex /\ writeEnd' = end /\ writer' = [writer EXCEPT !.pc = "copying"]
      /\ data' = [s \in DOMAIN data |->
                    IF \E k \in 0 .. copied - 1 : (writeStart + k) % DataSize = s THEN Torn ELSE data[s]]
      /\ UNCHANGED <<writeStart, oldest, enabled, beenClosed, readers, mutexes, raced>>
  BY <1>0 DEF Claim, WriterGoes
<1>2. end \in Nat /\ copied \in Nat /\ copied <= n
  BY <1>0, StreamTypes, LeastIs
<1>3. writer' \in [pc : WriterPcs, policy : Policies] /\ writer'.policy = writer.policy /\ writer'.pc = "copying"
  BY <1>1, StreamTypes DEF WriterPcs
<1>4. data' \in [0 .. DataSize - 1 -> Indexes \cup {Torn}]
  BY <1>1, StreamTypes
<1>5. AllAwake' /\ SleepsWhenFull' /\ (Keeps' <=> Keeps)
  BY <1>1, <1>3, StreamTypes DEF AllAwake, Awake, SleepsWhenFull, Keeps
<1>6. WritesFit'
  BY <1>0, <1>1, <1>3, StreamTypes DEF WritesFit, Keeps
<1>7. WordsStay'
  <2> SUFFICES ASSUME Keeps, NEW i \in oldest .. writeStart - 1 PROVE data'[i % DataSize] = i
    BY <1>1, <1>5 DEF WordsStay
  <2>1. data[i % DataSize] = i /\ i \in Nat /\ i % DataSize \in 0 .. DataSize - 1
    BY StreamTypes, SlotIs DEF WordsStay
  <2>2. ~\E k \in 0 .. copied - 1 : (writeStart + k) % DataSize = i % DataSize
    <3>1. writeStart \in Nat /\ oldest \in Nat /\ writeStart + copied <= end /\ end <= oldest + DataSize
      BY <1>0, <1>2, StreamTypes
    <3> QED
      BY <1>2, <3>1, ClaimedApart
  <2> QED
    BY <1>1, <2>1, <2>2, StreamTypes
<1>8. writeEnd' \in writeStart' .. MaxIndex
  BY <1>0, <1>1, <1>2, StreamTypes
<1> QED
  BY <1>1, <1>3, <1>4, <1>5, <1>6, <1>7, <1>8, StreamTypes, WriterStep

LEMMA WriteInv ==
  ASSUME StreamInv, NEW n \in 1 .. MaxWrite, WriteNonblockable(n) \/ WriteAllOrNothing(n) \/ WriteBlocking(n)
  PROVE  StreamInv'
<1>0. n \in Nat /\ n <= MaxWrite /\ MaxWrite \in Nat /\ DataSize \in Nat /\ writeStart \in Nat /\ oldest \in Nat
  BY StreamTypes
<1>1. CASE WriteNonblockable(n)
  <2>1. PICK m : m = Least(n, DataSize)
    OBVIOUS
  <2>2. m \in Nat /\ Claim(m) /\ ~Keeps
    BY <1>0, <1>1, <2>1, LeastIs DEF WriteNonblockable, Keeps
  <2> QED
    BY <2>2, ClaimInv
<1>2. CASE WriteAllOrNothing(n)
  <2>1. Claim(n) /\ (Keeps => writeStart + n <= oldest + DataSize /\ n <= DataSize)
    BY <1>0, <1>2 DEF WriteAllOrNothing, Fits, Keeps
  <2> QED
    BY <1>0, <2>1, ClaimInv
<1>3. CASE WriteBlocking(n)
  <2>1. PICK m : m = Least(n, Space)
    OBVIOUS
  <2>2. Claim(m) /\ Room
    BY <1>3, <2>1 DEF WriteBlocking
  <2>3. Space \in Nat /\ Space <= DataSize /\ writeStart + Space <= oldest + DataSize
    BY <1>0, <2>2 DEF Space, Room
  <2>4. m \in Nat /\ m <= Space
    BY <1>0, <2>1, <2>3, LeastIs
  <2>5. writeStart + m <= oldest + DataSize /\ m <= DataSize
    BY <1>0, <2>3, <2>4
  <2> QED
    BY <2>2, <2>4, <2>5, ClaimInv
<1> QED
  BY <1>1, <1>2, <1>3

\* What is left of the writer's calls copies nothing.
LEMMA WriterCallsInv ==
  ASSUME StreamInv, CreateWriter \/ WaitForSpace \/ WriteTimesOut \/ BeginClose \/ NotifyReaders
  PROVE  StreamInv'
<1>0. /\ writeStart \in Nat /\ writeEnd \in Nat /\ oldest \in Nat /\ DataSize \in Nat /\ MaxIndex \in Nat
      /\ writer \in [pc : WriterPcs, policy : Policies]
  BY StreamTypes
<1>1. /\ UNCHANGED <<writeStart, oldest, data, beenClosed, mutexes, raced>>
      /\ readers' \in {readers, ReadersNotified} /\ enabled' \in BOOLEAN
      /\ writeEnd' \in {writeStart, writeEnd}
  BY StreamTypes DEF CreateWriter, WaitForSpace, WriteTimesOut, BeginClose, NotifyReaders, header
<1>2. PICK pc \in {"idle", "asleep", "closing"} : writer' = [writer EXCEPT !.pc = pc] /\ (pc = "asleep" => ~Room)
  BY DEF CreateWriter, WaitForSpace, WriteTimesOut, BeginClose, NotifyReaders, WriterGoes
<1>3. writer' \in [pc : WriterPcs, policy : Policies] /\ writer'.policy = writer.policy /\ writer'.pc = pc
  BY <1>0, <1>2 DEF WriterPcs
<1>4. SleepsWhenFull' /\ (Keeps' <=> Keeps)
  BY <1>1, <1>2, <1>3 DEF SleepsWhenFull, Room, Keeps
<1>5. AllAwake'
  <2> SUFFICES ASSUME NEW q \in Ids, beenClosed PROVE readers'[q].pc \notin {"waiting", "asleep"}
    BY <1>1 DEF AllAwake, Awake
  <2>1. readers[q].pc \notin {"waiting", "asleep"} /\ readers[q] \in ReaderRecords
    BY AtOne DEF Awake
  <2>2. readers'[q] \in {readers[q], [readers[q] EXCEPT !.pc = "woken"]}
    BY <1>1 DEF ReadersNotified
  <2> QED
    BY <2>1, <2>2 DEF ReaderRecords
<1>6. WritesFit'
  <2> SUFFICES ASSUME Keeps PROVE writeEnd' <= oldest + DataSize /\ writeEnd' - writeStart <= DataSize
    BY <1>1, <1>4 DEF WritesFit
  <2>1. writeStart <= writeEnd /\ writeEnd <= oldest + DataSize /\ writeEnd - writeStart <= DataSize
    BY StreamTypes DEF WritesFit
  <2>2. CASE writeEnd' = writeEnd
    BY <2>1, <2>2
  <2>3. CASE writeEnd' = writeStart
    <3>1. writeStart <= oldest + DataSize /\ writeStart - writeStart <= DataSize
      BY <1>0, <2>1
    <3> QED
      BY <2>3, <3>1
  <2> QED
    BY <1>1, <2>2, <2>3
<1>7. writeEnd' \in writeStart' .. MaxIndex
  BY <1>0, <1>1, StreamTypes
<1>8. WordsStay'
  BY <1>1, <1>4, StreamTypes DEF WordsStay
<1> QED
  BY <1>1, <1>3, <1>4, <1>5, <1>6, <1>7, <1>8, StreamTypes, WriterStep

\* No reader is between its predicate and its sleep while dataAvailableMutex is free.
LEMMA EndCloseInv == ASSUME StreamInv, EndClose PROVE StreamInv'
<1>1. /\ UNCHANGED <<writeStart, writeEnd, oldest, enabled, data, mutexes, raced>> /\ dataMutex = None
      /\ beenClosed' = TRUE /\ readers' = ReadersNotified /\ writer' = [writer EXCEPT !.pc = "none"]
  BY DEF EndClose, WriterGoes
<1>2. writer' \in [pc : WriterPcs, policy : Policies] /\ writer'.policy = writer.policy /\ writer'.pc = "none"
  BY <1>1, StreamTypes DEF WriterPcs
<1>3. SleepsWhenFull' /\ WritesFit' /\ WordsStay'
  BY <1>1, <1>2, StreamTypes DEF SleepsWhenFull, WritesFit, WordsStay, Keeps
<1>4. AllAwake'
  <2> SUFFICES ASSUME NEW q \in Ids PROVE readers'[q].pc \notin {"waiting", "asleep"}
    BY DEF AllAwake, Awake
  <2>1. readers[q] \in ReaderRecords /\ readers[q].pc # "waiting"
    BY <1>1, AtOne DEF ReaderFits
  <2>2. readers'[q] = IF readers[q].pc = "asleep" THEN [readers[q] EXCEPT !.pc = "woken"] ELSE readers[q]
    BY <1>1 DEF ReadersNotified, At
  <2> QED
    BY <2>1, <2>2 DEF ReaderRecords
<1> QED
  BY <1>1, <1>2, <1>3, <1>4, StreamTypes, WriterStep

\* The index of the word that a write of "copied" words has put into slot s.
LEMMA WordIs ==
  ASSUME StreamInv, NEW s, NEW copied \in Nat, copied <= writeEnd - writeStart,
         NEW k \in 0 .. copied - 1, (writeStart + k) % DataSize = s
  PROVE  LET i == CHOOSE i \in writeEnd - copied .. writeEnd - 1 :
                    (i - (writeEnd - copied) + writeStart) % DataSize = s
         IN /\ i \in writeEnd - copied .. writeEnd - 1 /\ i \in Indexes
            /\ (i - (writeEnd - copied) + writeStart) % DataSize = s
<1>0. writeStart \in Nat /\ writeEnd \in Nat /\ writeEnd <= MaxIndex /\ MaxIndex \in Nat /\ k \in Nat /\ k < copied
  BY StreamTypes
<1>1. PICK j : j = writeEnd - copied + k
  OBVIOUS
<1>2. j \in writeEnd - copied .. writeEnd - 1 /\ j - (writeEnd - copied) + writeStart = writeStart + k
  BY <1>0, <1>1
<1>3. \E i \in writeEnd - copied .. writeEnd - 1 : (i - (writeEnd - copied) + writeStart) % DataSize = s
  BY <1>2
<1>4. writeEnd - copied .. writeEnd - 1 \subseteq Indexes
  BY <1>0 DEF Indexes
<1> QED
  BY <1>3, <1>4

LEMMA PublishInv == ASSUME StreamInv, Publish PROVE StreamInv'
<1>0. /\ writeStart \in Nat /\ writeEnd \in Nat /\ oldest \in Nat /\ DataSize \in Nat /\ MaxIndex \in Nat
      /\ writeStart <= writeEnd /\ writeEnd <= MaxIndex /\ data \in [0 .. DataSize - 1 -> Indexes \cup {Torn}]
  BY StreamTypes
<1>1. PICK copied : copied = Least(writeEnd - writeStart, DataSize)
  OBVIOUS
<1>2. copied \in Nat /\ copied <= writeEnd - writeStart
  BY <1>0, <1>1, LeastIs
<1> DEFINE Claimed(s) == \E k \in 0 .. copied - 1 : (writeStart + k) % DataSize = s
           Word(s) == CHOOSE i \in writeEnd - copied .. writeEnd - 1 :
                        (i - (writeEnd - copied) + writeStart) % DataSize = s
<1>3. /\ data' = [s \in 0 .. DataSize - 1 |-> IF Claimed(s) THEN Word(s) ELSE data[s]]
      /\ writeStart' = writeEnd /\ writer' = [writer EXCEPT !.pc = "notifying"]
      /\ UNCHANGED <<writeEnd, oldest, enabled, beenClosed, readers, mutexes, raced>>
  BY <1>0, <1>1 DEF Publish, WriterGoes
<1>4. \A s : Claimed(s) => /\ Word(s) \in writeEnd - copied .. writeEnd - 1 /\ Word(s) \in Indexes
                           /\ (Word(s) - (writeEnd - copied) + writeStart) % DataSize = s
  BY <1>2, WordIs
<1> HIDE DEF Word
<1>5. data' \in [0 .. DataSize - 1 -> Indexes \cup {Torn}]
  <2>1. \A s \in 0 .. DataSize - 1 : (IF Claimed(s) THEN Word(s) ELSE data[s]) \in Indexes \cup {Torn}
    BY <1>0, <1>4
  <2> HIDE DEF Claimed
  <2> QED
    BY <1>3, <2>1
<1>6. writer' \in [pc : WriterPcs, policy : Policies] /\ writer'.policy = writer.policy /\ writer'.pc = "notifying"
  BY <1>3, StreamTypes DEF WriterPcs
<1>7. AllAwake' /\ SleepsWhenFull' /\ (Keeps' <=> Keeps)
  BY <1>3, <1>6, StreamTypes DEF AllAwake, Awake, SleepsWhenFull, Keeps
<1>8. WritesFit'
  <2> SUFFICES ASSUME Keeps PROVE writeEnd <= oldest + DataSize /\ writeEnd - writeEnd <= DataSize
    BY <1>3, <1>7 DEF WritesFit
  <2> QED
    BY <1>0, StreamTypes DEF WritesFit
<1>9. WordsStay'
  <2> SUFFICES ASSUME Keeps, NEW i \in oldest .. writeEnd - 1 PROVE data'[i % DataSize] = i
    BY <1>3, <1>7 DEF WordsStay
  <2>1. writeEnd <= oldest + DataSize /\ writeEnd - writeStart <= DataSize
    BY StreamTypes DEF WritesFit
  <2>2. copied = writeEnd - writeStart
    BY <1>0, <1>1, <2>1 DEF Least
  <2>3. i \in Nat /\ i % DataSize \in 0 .. DataSize - 1
    BY <1>0, SlotIs
  <2>4. data'[i % DataSize] = IF Claimed(i % DataSize) THEN Word(i % DataSize) ELSE data[i % DataSize]
    BY <1>3, <2>3
  <2>5. CASE i < writeStart
    <3>1. i \in oldest .. writeStart - 1
      BY <1>0, <2>3, <2>5
    <3>2. ~Claimed(i % DataSize)
      <4>1. writeStart + copied <= writeEnd
        BY <1>0, <1>2
      <4> QED
        BY <1>0, <1>2, <2>1, <3>1, <4>1, ClaimedApart
    <3>3. data[i % DataSize] = i
      BY <3>1, StreamTypes DEF WordsStay
    <3> QED
      BY <2>4, <3>2, <3>3
  <2>6. CASE i >= writeStart
    <3>1. Claimed(i % DataSize)
      <4>1. i - writeStart \in 0 .. copied - 1 /\ writeStart + (i - writeStart) = i
        BY <1>0, <2>2, <2>3, <2>6
      <4> QED
        BY <4>1
    <3>2. PICK j : j = Word(i % DataSize)
      OBVIOUS
    <3>3. j \in writeEnd - copied .. writeEnd - 1 /\ (j - (writeEnd - copied) + writeStart) % DataSize = i % DataSize
      BY <1>4, <3>1, <3>2
    <3>4. j \in Nat /\ j >= writeStart /\ j < writeEnd /\ j - (writeEnd - copied) + writeStart = j
      BY <1>0, <2>2, <3>3
    <3>5. j % DataSize = i % DataSize
      BY <3>3, <3>4
    <3>6. i < j => j - i < DataSize
      BY <1>0, <2>1, <2>3, <2>6, <3>4
    <3>7. j < i => i - j < DataSize
      BY <1>0, <2>1, <2>3, <3>4
    <3>8. ~(i < j) /\ ~(j < i)
      BY <2>3, <3>4, <3>5, <3>6, <3>7, SlotsApart
    <3> QED
      BY <2>3, <2>4, <3>1, <3>2, <3>4, <3>8
  <2> QED
    BY <1>0, <2>3, <2>5, <2>6
<1>10. writeStart' \in Indexes /\ writeStart' >= writeStart /\ writeEnd' \in writeStart' .. MaxIndex
  BY <1>0, <1>3 DEF Indexes
<1> QED
  BY <1>3, <1>5, <1>6, <1>7, <1>8, <1>9, <1>10, StreamTypes, WriterStep

-----------------------------------------------------------------------------
(* The theorems *)

LEMMA ReaderInv == ASSUME StreamInv, NEW r \in Ids, ReaderCalls(r) \/ ReaderGoesOn(r) PROVE StreamInv'
<1>0. /\ readers[r] \in ReaderRecords /\ ReaderFits(r) /\ writeStart \in Indexes /\ writeStart \in Nat
      /\ MaxIndex \in Nat
  BY AtOne, StreamTypes
<1>1. ASSUME NEW i \in Indexes, Seek(r, i) PROVE StreamInv'
  <2>1. readers[r].pc = "idle" /\ SeekTo(r, i, "idle", "idle") /\ UNCHANGED <<header, writer, mutexes, raced>>
    BY <1>1 DEF Seek, At
  <2> QED
    BY <2>1, SeekToInv
<1>2. ASSUME SeekOldData(r) PROVE StreamInv'
  <2>1. /\ readers[r].pc = "found" /\ SeekTo(r, writeStart - readers[r].to, "idle", "leaving")
        /\ UNCHANGED <<header, writer, mutexes, raced>>
    BY <1>2 DEF SeekOldData, At
  <2>2. writeStart - readers[r].to \in Indexes
    BY <1>0, <2>1 DEF ReaderFits, ReaderRecords, Indexes
  <2> QED
    BY <2>1, <2>2, SeekToInv
<1>3. ASSUME Leave(r) PROVE StreamInv'
  <2>1. /\ readers[r].pc = "leaving" /\ SeekTo(r, writeStart, "disabling", "disabling")
        /\ UNCHANGED <<header, writer, mutexes, raced>>
    BY <1>3 DEF Leave, At
  <2> QED
    BY <1>0, <2>1, SeekToInv
<1>4. ASSUME NEW n \in 1 .. DataSize, ReadNonblocking(r, n) PROVE StreamInv'
  <2>1. /\ readers[r].pc = "idle" /\ readers[r].cursor < readers[r].closeIndex /\ Available(r) > 0
        /\ ToCopy(r, n, readers[r].closeIndex) /\ UNCHANGED <<header, writer, mutexes, raced>>
    BY <1>4 DEF ReadNonblocking, Readable, At
  <2>2. readers[r].closeIndex \in Indexes \cup {Unlimited}
    BY <1>0 DEF ReaderRecords
  <2> QED
    BY <2>1, <2>2, ToCopyQuietly, QuietStep
<1>5. ASSUME NEW n \in 1 .. DataSize, FindsData(r, n) PROVE StreamInv'
  <2>1. /\ readers[r].pc \in {"reading", "woken"} /\ Available(r) > 0
        /\ ToCopy(r, n, readers[r].limit) /\ UNCHANGED <<header, writer, mutexes, raced>>
    BY <1>5 DEF FindsData, AtDataMutex, At
  <2>2. readers[r].limit \in Indexes \cup {Unlimited} /\ readers[r].cursor < readers[r].limit
    BY <1>0, <2>1 DEF ReaderRecords, ReaderFits, BlockingPcs
  <2> QED
    BY <2>1, <2>2, ToCopyQuietly, QuietStep
<1>6. ASSUME \/ Destroy(r) \/ FindOldData(r) \/ ReadBlocking(r) \/ FindsEnd(r) \/ ReadTimesOut(r)
             \/ FindsNothing(r) \/ FallAsleep(r) \/ Return(r) \/ Construct(r) \/ DisableReader(r)
             \/ Copy(r) \/ AdvanceCursor(r)
      PROVE  StreamInv'
  BY <1>6, CallsQuietly, CopyQuietly, AdvanceCursorQuietly, QuietStep
<1> QED
  BY <1>1, <1>2, <1>3, <1>4, <1>5, <1>6, CloseReaderInv, EnableReaderInv, SeekBackInv,
     UpdateInv, CompareInv, TakeInv, EndUpdateInv
  DEF ReaderCalls, ReaderGoesOn

LEMMA StepInv == StreamInv /\ [Next]_vars => StreamInv'
<1> SUFFICES ASSUME StreamInv, [Next]_vars PROVE StreamInv'
  OBVIOUS
<1>1. CASE WriterCalls
  BY <1>1, WriteInv, WriterCallsInv DEF WriterCalls
<1>2. CASE WriterGoesOn
  BY <1>2, PublishInv, WriterCallsInv, EndCloseInv DEF WriterGoesOn
<1>3. CASE \E r \in Ids : ReaderCalls(r) \/ ReaderGoesOn(r)
  BY <1>3, ReaderInv
<1>4. CASE UNCHANGED vars
  BY <1>4 DEF vars, header, mutexes, StreamInv, TypeOK, ReadersFit, ReaderFits, AllAwake, Awake, SleepsWhenFull, Room,
              ScansSeeAll, NotAhead, BarrierBefore, Tracked, WritesFit, WordsStay, Keeps, CopyIntact, HasCopied
<1> QED
  BY <1>1, <1>2, <1>3, <1>4 DEF Next

LEMMA Invariant == Spec => []StreamInv
  BY InitInv, StepInv, PTL DEF Spec

\* Every cursor, local, mutex and word has its type: in particular writeStartCursor does not
\* pass writeEndCursor, and the slots hold indexes of words or torn ones.
THEOREM TypeCorrect == Spec => []TypeOK
<1>1. StreamInv => TypeOK
  BY DEF StreamInv
<1> QED
  BY <1>1, Invariant, PTL

\* oldestUnconsumedCursor is ahead of no reader that it has to take account of, while readers
\* come and go, are moved by their seeks and the writer writes, unless a scan has raced.
THEOREM BarrierIsBehind == Spec => []BarrierHolds
<1>1. StreamInv => BarrierHolds
  BY DEF StreamInv, BarrierBefore, BarrierHolds, Tracked
<1> QED
  BY <1>1, Invariant, PTL

\* A writer that waits for space in a blocking write() is woken when there is some.
THEOREM WriterIsWoken == Spec => []WriterSleepsWhenFull
<1>1. StreamInv => WriterSleepsWhenFull
  BY DEF StreamInv, SleepsWhenFull, WriterSleepsWhenFull, WriterAt
<1> QED
  BY <1>1, Invariant, PTL

\* A reader that waits for data in a blocking read() is woken by Writer::close(), wherever the
\* close falls between the reader's predicate and its sleep.
THEOREM ReadersAreWoken == Spec => []NobodySleepsAfterClose
<1>1. StreamInv => NobodySleepsAfterClose
  BY DEF StreamInv, AllAwake, Awake, NobodySleepsAfterClose, At
<1> QED
  BY <1>1, Invariant, PTL

\* What read() returns is what write() put there, with the policies that do not overwrite, if
\* no write is larger than the buffer.
THEOREM WordsAreIntact == ASSUME MaxWrite <= DataSize PROVE Spec => []ReadsAreIntact
<1>1. StreamInv => ReadsAreIntact
  <2> SUFFICES ASSUME StreamInv, writer.policy # "NONBLOCKABLE", ~raced,
                      NEW r \in Ids, At(r, "success"), ~readers[r].behind
               PROVE  readers[r].intact
    BY DEF ReadsAreIntact
  <2>1. CopyIntact(r)
    BY DEF StreamInv
  <2> QED
    BY <2>1 DEF CopyIntact, Keeps, HasCopied, At
<1> QED
  BY <1>1, Invariant, PTL
=============================================================================
