-------------------------- MODULE SharedDataStream --------------------------
(***************************************************************************)
(* AVSCommon/Utils/include/AVSCommon/Utils/SDS: a ring buffer with one     *)
(* Writer and several Readers, each used by a thread of its own.  Cursors  *)
(* are atomic variables; dataAvailableMutex and backwardSeekMutex are held *)
(* across some of their uses, and the actions below are what happens       *)
(* between two points at which another thread can tell the difference.     *)
(*                                                                         *)
(* A word of data is the index it was written at.  While it is being       *)
(* written, reading it is a data race.  Invalid parameters, the attaching  *)
(* of other processes and forceReplacement are left out.                   *)
(***************************************************************************)
EXTENDS Integers

CONSTANTS
  MaxReaders, \* readers in the header's arrays
  DataSize,   \* words in the buffer
  Policies,   \* the writer policies to be used
  MaxIndex,   \* bound: words that are ever written, and how far a reader seeks
  MaxWrite,   \* bound: nWords of a write()
  MaxCalls,   \* bound: calls of the readers
  None        \* nobody holds the mutex

ASSUME StreamAssumption ==
  /\ MaxReaders \in Nat \ {0} /\ DataSize \in Nat \ {0} /\ MaxIndex \in Nat /\ MaxWrite \in Nat /\ MaxCalls \in Nat
  /\ Policies \subseteq {"NONBLOCKABLE", "ALL_OR_NOTHING", "BLOCKING"}
  /\ None \notin Nat

VARIABLES
  writeStart, writeEnd, \* writeStartCursor, writeEndCursor
  oldest,       \* oldestUnconsumedCursor
  enabled,      \* isWriterEnabled
  beenClosed,   \* hasWriterBeenClosed
  writer,       \* the writer's thread: its place, and the policy of the stream's Writers
  readers,      \* the readers' threads: their places, cursors and locals
  seekMutex, dataMutex, enableMutex, \* who holds backwardSeekMutex, dataAvailableMutex, readerEnableMutex
  data,         \* the words in the buffer
  raced,        \* history: a scan took a cursor that had moved since it was compared
  calls         \* calls of the readers so far

header == <<writeStart, writeEnd, oldest, enabled, beenClosed, data>>
mutexes == <<seekMutex, dataMutex, enableMutex>>
vars == <<header, writer, readers, mutexes, raced, calls>>

Ids == 1 .. MaxReaders
Indexes == 0 .. MaxIndex
Unlimited == MaxIndex + 1
Torn == -1

\* then, orElse: what follows a seek, or an update of oldest; id, found: its scan; to: the target
\* of a seek, or the words to copy; limit: the closeIndex that read() has seen;
\* intact: whether the words copied were those of their indexes; behind: the reader was placed
\* behind oldest, which does not move back, or where a scan in progress does not see it.
NoReader == [pc |-> "none", then |-> "idle", orElse |-> "idle", cursor |-> 0, closeIndex |-> 0, isEnabled |-> FALSE,
             to |-> 0, limit |-> 0, id |-> 1, found |-> Unlimited, intact |-> TRUE, behind |-> FALSE]

Init ==
  /\ writeStart = 0 /\ writeEnd = 0 /\ oldest = 0
  /\ enabled = FALSE /\ beenClosed = FALSE
  /\ writer \in [pc : {"none"}, policy : Policies]
  /\ readers = [r \in Ids |-> NoReader]
  /\ seekMutex = None /\ dataMutex = None /\ enableMutex = None
  /\ data = [s \in 0 .. DataSize - 1 |-> Torn]
  /\ raced = FALSE /\ calls = 0

At(r, pc) == readers[r].pc = pc
\* The call is over, or goes on elsewhere: its locals are forgotten.
Resumed(x, pc) ==
  [NoReader EXCEPT !.pc = pc, !.cursor = x.cursor, !.closeIndex = x.closeIndex, !.isEnabled = x.isEnabled,
                   !.intact = x.intact, !.behind = x.behind]
Resumes(r, pc) ==
  readers' = [readers EXCEPT ![r] = IF pc = "none" THEN NoReader ELSE Resumed(@, pc)]
Goes(r, pc) == readers' = [readers EXCEPT ![r].pc = pc]
WriterAt(pc) == writer.pc = pc
WriterGoes(pc) == writer' = [writer EXCEPT !.pc = pc]
Least(a, b) == IF a < b THEN a ELSE b

\* notify_all() of dataAvailableConditionVariable, and of spaceAvailableConditionVariable.
ReadersNotified ==
  [r \in Ids |-> IF At(r, "asleep") THEN [readers[r] EXCEPT !.pc = "woken"] ELSE readers[r]]
WriterNotified == IF WriterAt("asleep") THEN [writer EXCEPT !.pc = "woken"] ELSE writer

-----------------------------------------------------------------------------
(* The Writer *)

CreateWriter ==
  /\ WriterAt("none") /\ WriterGoes("idle")
  /\ enabled' = TRUE /\ writeEnd' = writeStart
  /\ UNCHANGED <<writeStart, oldest, beenClosed, data, readers, mutexes, raced, calls>>

\* write() of n words sets writeEndCursor, and from then on copies them.  Of more words than the
\* buffer holds, the last ones are copied to where the first would be.
Claim(n) ==
  LET end == writeStart + n
      copied == Least(n, DataSize)
  IN /\ end <= MaxIndex
     /\ writeEnd' = end
     /\ data' = [s \in DOMAIN data |->
                   IF \E k \in 0 .. copied - 1 : (writeStart + k) % DataSize = s THEN Torn ELSE data[s]]
     /\ WriterGoes("copying")
     /\ UNCHANGED <<writeStart, oldest, enabled, beenClosed, readers, mutexes, raced, calls>>

WriteNonblockable(n) ==
  /\ WriterAt("idle") /\ writer.policy = "NONBLOCKABLE" /\ enabled
  /\ Claim(Least(n, DataSize))

\* Fault: a write may end where the oldest word is that was not read.
FitsAlmost(n) == writeStart + n < oldest \/ writeStart + n - oldest <= DataSize + 1

Fits(n) == writeStart + n < oldest \/ writeStart + n - oldest <= DataSize

\* With backwardSeekMutex; otherwise the result is WOULDBLOCK.
WriteAllOrNothing(n) ==
  /\ WriterAt("idle") /\ writer.policy = "ALL_OR_NOTHING" /\ enabled
  /\ seekMutex = None /\ Fits(n)
  /\ Claim(n)

Room == writeStart < oldest \/ writeStart - oldest < DataSize
Space == IF writeStart >= oldest THEN DataSize - (writeStart - oldest) ELSE DataSize

WriteBlocking(n) ==
  /\ (WriterAt("idle") /\ enabled) \/ WriterAt("woken")
  /\ writer.policy = "BLOCKING" /\ seekMutex = None
  /\ Room
  /\ Claim(Least(n, Space))

\* The predicate is evaluated with backwardSeekMutex held, which the wait lets go of.
WaitForSpace ==
  /\ (WriterAt("idle") /\ enabled) \/ WriterAt("woken")
  /\ writer.policy = "BLOCKING" /\ seekMutex = None
  /\ ~Room
  /\ WriterGoes("asleep")
  /\ UNCHANGED <<header, readers, mutexes, raced, calls>>

WriteTimesOut ==
  /\ WriterAt("asleep") /\ WriterGoes("idle")
  /\ UNCHANGED <<header, readers, mutexes, raced, calls>>

\* The words are there, and writeStartCursor is advanced: with dataAvailableMutex if, and only
\* if, the policy is NONBLOCKABLE.
Publish ==
  /\ WriterAt("copying")
  /\ writer.policy = "NONBLOCKABLE" => dataMutex = None
  /\ LET copied == Least(writeEnd - writeStart, DataSize)
     IN data' = [s \in DOMAIN data |->
                   IF \E k \in 0 .. copied - 1 : (writeStart + k) % DataSize = s
                   THEN CHOOSE i \in writeEnd - copied .. writeEnd - 1 :
                          (i - (writeEnd - copied) + writeStart) % DataSize = s
                   ELSE data[s]]
  /\ writeStart' = writeEnd
  /\ WriterGoes("notifying")
  /\ UNCHANGED <<writeEnd, oldest, enabled, beenClosed, readers, mutexes, raced, calls>>

NotifyReaders ==
  /\ WriterAt("notifying") /\ WriterGoes("idle")
  /\ readers' = ReadersNotified
  /\ UNCHANGED <<header, mutexes, raced, calls>>

\* close() in two steps, for it locks dataAvailableMutex half-way.
BeginClose ==
  /\ WriterAt("idle") /\ enabled
  /\ enabled' = FALSE /\ WriterGoes("closing")
  /\ UNCHANGED <<writeStart, writeEnd, oldest, beenClosed, data, readers, mutexes, raced, calls>>

\* Fault: the readers that sleep are not woken.
EndCloseSilently ==
  /\ WriterAt("closing") /\ dataMutex = None
  /\ beenClosed' = TRUE
  /\ WriterGoes("none")
  /\ UNCHANGED <<writeStart, writeEnd, oldest, enabled, data, readers, mutexes, raced, calls>>

EndClose ==
  /\ WriterAt("closing") /\ dataMutex = None
  /\ beenClosed' = TRUE /\ readers' = ReadersNotified
  /\ WriterGoes("none")
  /\ UNCHANGED <<writeStart, writeEnd, oldest, enabled, data, mutexes, raced, calls>>

-----------------------------------------------------------------------------
(* updateOldestUnconsumedCursor(), by the thread of reader r, which then goes to "then" *)

Update(r) ==
  /\ At(r, "updating") /\ seekMutex = None
  /\ seekMutex' = r
  /\ readers' = [readers EXCEPT ![r].pc = "scanning"]
  /\ UNCHANGED <<header, writer, dataMutex, enableMutex, raced, calls>>

Scanned(r) == readers[readers[r].id]
Older(r) == Scanned(r).isEnabled /\ Scanned(r).cursor < readers[r].found

\* One iteration of the loop compares a cursor; that of r itself stays where it is, ...
Compare(r) ==
  /\ At(r, "scanning") /\ readers[r].id \in Ids
  /\ IF ~Older(r) THEN readers' = [readers EXCEPT ![r].id = @ + 1]
     ELSE IF readers[r].id = r
     THEN readers' = [readers EXCEPT ![r].found = readers[r].cursor, ![r].id = @ + 1]
     ELSE Goes(r, "taking")
  /\ UNCHANGED <<header, writer, mutexes, raced, calls>>

\* ... and another's is read again.
Take(r) ==
  /\ At(r, "taking")
  /\ readers' = [readers EXCEPT ![r].found = Scanned(r).cursor, ![r].id = @ + 1, ![r].pc = "scanning"]
  /\ raced' = (raced \/ Scanned(r).cursor > readers[r].found)
  /\ UNCHANGED <<header, writer, mutexes, calls>>

\* Fault: the barrier is that of the last reader, whatever the others have read.
OldestOfOwn(r) == IF readers[r].isEnabled THEN readers[r].cursor ELSE writeStart

Oldest(r) == IF readers[r].found = Unlimited THEN writeStart ELSE readers[r].found

\* Fault: the writer is not told that there is room.
AdvanceSilently(i) == oldest' = i /\ UNCHANGED writer

\* oldestUnconsumedCursor never moves back.
Advance(i) == oldest' = i /\ writer' = WriterNotified

\* A reader that is destroyed lets go of readerEnableMutex now.
EndUpdate(r) ==
  /\ At(r, "scanning") /\ readers[r].id \notin Ids
  /\ IF Oldest(r) > oldest THEN Advance(Oldest(r)) ELSE UNCHANGED <<oldest, writer>>
  /\ seekMutex' = None
  /\ enableMutex' = IF readers[r].then = "none" THEN None ELSE enableMutex
  /\ Resumes(r, readers[r].then)
  /\ UNCHANGED <<writeStart, writeEnd, enabled, beenClosed, data, dataMutex, raced, calls>>

-----------------------------------------------------------------------------
(* A Reader: created, moved, closed and destroyed *)

Calls == calls < MaxCalls /\ calls' = calls + 1

\* createReader(), with readerEnableMutex: the cursor is set ...
Construct(r) ==
  /\ Calls
  /\ At(r, "none") /\ enableMutex = None
  /\ enableMutex' = r
  /\ readers' = [readers EXCEPT ![r] = [NoReader EXCEPT !.pc = "constructed", !.cursor = writeStart,
                                                        !.closeIndex = Unlimited]]
  /\ UNCHANGED <<header, writer, seekMutex, dataMutex, raced>>

Unseen(r) == seekMutex # None /\ readers[seekMutex].id > r

\* ... and then the reader is enabled.  Unless it is to start with new data, it looks for what
\* is left of the old.
EnableReader(r, startWithNewData) ==
  /\ At(r, "constructed")
  /\ enableMutex' = None
  /\ readers' = [readers EXCEPT ![r].isEnabled = TRUE, ![r].then = "idle",
                   ![r].behind = readers[r].cursor < oldest \/ Unseen(r),
                   ![r].pc = IF startWithNewData THEN "updating" ELSE "created"]
  /\ UNCHANGED <<header, writer, seekMutex, dataMutex, raced, calls>>

Behind(r, i) == i < oldest \/ (readers[r].behind /\ Unseen(r))
Overwritten(i) == writeEnd >= i /\ writeEnd - i > DataSize

\* seek() to index i, with what follows if it succeeds and if it fails.
SeekTo(r, i, then, orElse) ==
  \/ /\ i <= readers[r].closeIndex /\ i < readers[r].cursor
     /\ readers' = [readers EXCEPT ![r].to = i, ![r].then = then, ![r].orElse = orElse, ![r].pc = "seeking"]
  \/ /\ i <= readers[r].closeIndex /\ i >= readers[r].cursor /\ ~Overwritten(i)
     /\ readers' = [readers EXCEPT ![r].cursor = i, ![r].behind = Behind(r, i), ![r].to = 0,
                                   ![r].then = then, ![r].pc = "updating"]
  \/ /\ i > readers[r].closeIndex \/ (i >= readers[r].cursor /\ Overwritten(i))
     /\ Resumes(r, orElse)

FindOldData(r) ==
  /\ At(r, "created")
  /\ readers' = [readers EXCEPT ![r].to = Least(DataSize, writeStart), ![r].pc = "found"]
  /\ UNCHANGED <<header, writer, mutexes, raced, calls>>

\* A reader that cannot go there is destroyed, and createReader() returns nullptr.
SeekOldData(r) ==
  /\ At(r, "found")
  /\ SeekTo(r, writeStart - readers[r].to, "idle", "leaving")
  /\ UNCHANGED <<header, writer, mutexes, raced, calls>>

Seek(r, i) ==
  /\ Calls
  /\ At(r, "idle")
  /\ SeekTo(r, i, "idle", "idle")
  /\ UNCHANGED <<header, writer, mutexes, raced>>

\* Backwards, with backwardSeekMutex, which is kept for the scan.
SeekBack(r) ==
  /\ At(r, "seeking") /\ seekMutex = None
  /\ LET i == readers[r].to
     IN IF Overwritten(i)
        THEN Resumes(r, readers[r].orElse) /\ UNCHANGED seekMutex
        ELSE /\ readers' = [readers EXCEPT ![r].cursor = i, ![r].behind = Behind(r, i), ![r].to = 0,
                                           ![r].orElse = "idle", ![r].pc = "scanning"]
             /\ seekMutex' = r
  /\ UNCHANGED <<header, writer, dataMutex, enableMutex, raced, calls>>

\* Reader::close(), by any thread: at the reader's position, or at the writer's.
CloseReader(r, i) ==
  /\ Calls
  /\ readers[r].isEnabled /\ i \in {readers[r].cursor, writeStart}
  /\ readers' = [readers EXCEPT ![r].closeIndex = i]
  /\ UNCHANGED <<header, writer, mutexes, raced>>

Destroy(r) ==
  /\ Calls
  /\ At(r, "idle") /\ Goes(r, "leaving")
  /\ UNCHANGED <<header, writer, mutexes, raced>>

\* The destructor moves the cursor to the writer's, if it can, ...
Leave(r) ==
  /\ At(r, "leaving")
  /\ SeekTo(r, writeStart, "disabling", "disabling")
  /\ UNCHANGED <<header, writer, mutexes, raced, calls>>

\* ... and then disables the reader, with readerEnableMutex.
DisableReader(r) ==
  /\ At(r, "disabling") /\ enableMutex = None
  /\ enableMutex' = r
  /\ readers' = [readers EXCEPT ![r].isEnabled = FALSE, ![r].then = "none", ![r].pc = "updating"]
  /\ UNCHANGED <<header, writer, seekMutex, dataMutex, raced, calls>>

-----------------------------------------------------------------------------
(* A Reader: read() *)

\* Data between the cursor and the writer; a reader in the future has none.
Available(r) == IF writeStart >= readers[r].cursor THEN writeStart - readers[r].cursor ELSE 0

\* A read that is not closed, and whose words have not been overwritten yet.
Readable(r) == readers[r].cursor < readers[r].closeIndex /\ ~Overwritten(readers[r].cursor)

\* Up to n words are to be copied.
ToCopy(r, n, limit) ==
  readers' = [readers EXCEPT ![r].pc = "copying",
                ![r].to = Least(Least(n, Available(r)), limit - readers[r].cursor), ![r].limit = 0]

ReadNonblocking(r, n) ==
  /\ Calls
  /\ At(r, "idle") /\ Readable(r) /\ Available(r) > 0
  /\ ToCopy(r, n, readers[r].closeIndex)
  /\ UNCHANGED <<header, writer, mutexes, raced>>

ReadBlocking(r) ==
  /\ Calls
  /\ At(r, "idle") /\ Readable(r)
  /\ readers' = [readers EXCEPT ![r].limit = readers[r].closeIndex, ![r].pc = "reading"]
  /\ UNCHANGED <<header, writer, mutexes, raced>>

AtDataMutex(r) == (At(r, "reading") \/ At(r, "woken")) /\ dataMutex = None

FindsData(r, n) ==
  /\ AtDataMutex(r) /\ Available(r) > 0
  /\ ToCopy(r, n, readers[r].limit)
  /\ UNCHANGED <<header, writer, mutexes, raced, calls>>

\* Without a writer, a stream that was written to has ended; so has one whose writer was closed.
FindsEnd(r) ==
  /\ AtDataMutex(r) /\ Available(r) = 0
  /\ beenClosed \/ (At(r, "reading") /\ writeEnd > 0 /\ ~enabled)
  /\ Resumes(r, "idle")
  /\ UNCHANGED <<header, writer, mutexes, raced, calls>>

\* The predicate is false, and dataAvailableMutex held, ...
FindsNothing(r) ==
  /\ AtDataMutex(r) /\ Available(r) = 0
  /\ ~beenClosed /\ ~(At(r, "reading") /\ writeEnd > 0 /\ ~enabled)
  /\ dataMutex' = r /\ Goes(r, "waiting")
  /\ UNCHANGED <<header, writer, seekMutex, enableMutex, raced, calls>>

\* ... until the reader waits to be notified.
FallAsleep(r) ==
  /\ At(r, "waiting")
  /\ dataMutex' = None /\ Goes(r, "asleep")
  /\ UNCHANGED <<header, writer, seekMutex, enableMutex, raced, calls>>

ReadTimesOut(r) ==
  /\ At(r, "asleep") /\ Resumes(r, "idle")
  /\ UNCHANGED <<header, writer, mutexes, raced, calls>>

Intact(r) ==
  \A i \in readers[r].cursor .. readers[r].cursor + readers[r].to - 1 : data[i % DataSize] = i

Copy(r) ==
  /\ At(r, "copying")
  /\ readers' = [readers EXCEPT ![r].intact = Intact(r), ![r].pc = "copied"]
  /\ UNCHANGED <<header, writer, mutexes, raced, calls>>

\* The check for an overrun is of the cursor that was advanced.
AdvanceCursor(r) ==
  /\ At(r, "copied")
  /\ LET cursor == readers[r].cursor + readers[r].to
     IN readers' = [readers EXCEPT ![r].cursor = cursor, ![r].to = 0, ![r].pc = "updating",
                      ![r].then = IF writeEnd - cursor > DataSize THEN "idle" ELSE "success"]
  /\ UNCHANGED <<header, writer, mutexes, raced, calls>>

Return(r) ==
  /\ At(r, "success")
  /\ readers' = [readers EXCEPT ![r].intact = TRUE, ![r].pc = "idle"]
  /\ UNCHANGED <<header, writer, mutexes, raced, calls>>

-----------------------------------------------------------------------------
WriterCalls ==
  \/ CreateWriter
  \/ \E n \in 1 .. MaxWrite : WriteNonblockable(n) \/ WriteAllOrNothing(n) \/ WriteBlocking(n)
  \/ WaitForSpace \/ WriteTimesOut \/ BeginClose

WriterGoesOn == Publish \/ NotifyReaders \/ EndClose

ReaderCalls(r) ==
  \/ Construct(r) \/ Destroy(r)
  \/ \E i \in Indexes : Seek(r, i) \/ CloseReader(r, i)
  \/ \E n \in 1 .. DataSize : ReadNonblocking(r, n)
  \/ ReadBlocking(r) \/ ReadTimesOut(r)

ReaderGoesOn(r) ==
  \/ \E new \in BOOLEAN : EnableReader(r, new)
  \/ FindOldData(r) \/ SeekOldData(r) \/ SeekBack(r) \/ Leave(r) \/ DisableReader(r)
  \/ \E n \in 1 .. DataSize : FindsData(r, n)
  \/ FindsEnd(r) \/ FindsNothing(r) \/ FallAsleep(r)
  \/ Copy(r) \/ AdvanceCursor(r) \/ Return(r)
  \/ Update(r) \/ Compare(r) \/ Take(r) \/ EndUpdate(r)

Next ==
  \/ WriterCalls \/ WriterGoesOn
  \/ \E r \in Ids : ReaderCalls(r) \/ ReaderGoesOn(r)

Spec == Init /\ [][Next]_vars

-----------------------------------------------------------------------------
(* Properties *)

Pcs == {"none", "constructed", "created", "found", "idle", "seeking", "leaving", "disabling",
        "updating", "scanning", "taking", "reading", "waiting", "asleep", "woken", "copying",
        "copied", "success"}
WriterPcs == {"none", "idle", "asleep", "woken", "copying", "notifying", "closing"}

TypeOK ==
  /\ writeStart \in Indexes /\ writeEnd \in writeStart .. MaxIndex /\ oldest \in Indexes
  /\ enabled \in BOOLEAN /\ beenClosed \in BOOLEAN /\ raced \in BOOLEAN
  /\ writer \in [pc : WriterPcs, policy : Policies]
  /\ readers \in [Ids -> [pc : Pcs, then : {"idle", "success", "disabling", "none"},
                          orElse : {"idle", "leaving", "disabling"},
                          cursor : Indexes, closeIndex : Indexes \cup {Unlimited}, isEnabled : BOOLEAN,
                          to : Indexes, limit : Indexes \cup {Unlimited}, id : 1 .. MaxReaders + 1,
                          found : Indexes \cup {Unlimited}, intact : BOOLEAN, behind : BOOLEAN]]
  /\ {seekMutex, dataMutex, enableMutex} \subseteq Ids \cup {None}
  /\ data \in [0 .. DataSize - 1 -> Indexes \cup {Torn}]

\* The argument of updateOldestUnconsumedCursorLocked(): "we have to be careful not to ever move
\* it ahead of any readers".  While cursors move, readers are created and destroyed and the
\* writer writes, the barrier passes no reader, but for one that was placed behind it, which it
\* does not go back to, and for the one way in which the argument fails: a cursor that moves
\* between the two times that the scan reads it.
BarrierHolds ==
  ~raced => \A r \in Ids : readers[r].isEnabled /\ ~readers[r].behind => readers[r].cursor >= oldest

\* Both policies that do not overwrite "unconsumed data" keep their promise: what a read returns
\* is what was written there, although it is copied without any mutex.
ReadsAreIntact ==
  writer.policy # "NONBLOCKABLE" /\ ~raced =>
    \A r \in Ids : At(r, "success") /\ ~readers[r].behind => readers[r].intact

\* No notification is missed by the writer: it sleeps only while there is no room, or while
\* somebody who found some is about to say so.
WriterSleepsWhenFull == WriterAt("asleep") /\ seekMutex = None => ~Room

\* "Readers will return 0 when they catch up with the Writer" (Writer.h): no reader sleeps on
\* once the writer was closed, although isWriterEnabled is reset without dataAvailableMutex.
NobodySleepsAfterClose == beenClosed => \A r \in Ids : ~At(r, "asleep")

\* "we should always lock the dataAvailableConditionVariable mutex while moving
\* writeStartCursor" (Writer.h), so that no reader misses a notification; NONBLOCKABLE writers
\* need not.
NoMissedNotification ==
  \A r \in Ids : At(r, "asleep") /\ Available(r) > 0 /\ writer.policy # "NONBLOCKABLE"
    => WriterAt("notifying")
=============================================================================
