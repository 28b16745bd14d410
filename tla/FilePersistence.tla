--------------------------- MODULE FilePersistence ---------------------------
(***************************************************************************)
(* The JSON Lines store (src/src/eventful/persistence/                     *)
(* file_persistence.py): append with its flush and rotation, replay as a   *)
(* generator, close, and what a crash leaves for the next process.         *)
(*                                                                         *)
(* A record reaches the disk in two fragments, "head" and "tail", the tail *)
(* with its newline; a write that fails or a process that dies leaves a    *)
(* prefix of the fragments.  Files are numbered in the order of their      *)
(* creation, and the directory says which one has which name: 0 is the     *)
(* active file, k the backup ".k".  A name without a file has number 0.    *)
(*                                                                         *)
(* The lock is re-entrant.  A thread holds it during an append or a close  *)
(* and from the first step of an iterator to its end, so the consumer of   *)
(* an iterator can append and close in between, and no other thread can.   *)
(***************************************************************************)
EXTENDS Integers, FiniteSets, SequencesExt

CONSTANTS
    Threads,
    BackupCount,    \* backup_count
    MaxSize,        \* max_size, in fragments
    Starts,         \* the values of start_id in use
    Batches,        \* the values of batch in use
    MaxRecords,     \* bound: appends of one behaviour
    MaxFaults       \* bound: I/O errors and crashes of one behaviour

ASSUME FileAssumption ==
    /\ BackupCount \in Nat \ {0}
    /\ MaxSize \in Nat \ {0}
    /\ Starts \subseteq Nat
    /\ Batches \subseteq Nat \ {0}
    /\ MaxRecords \in Nat
    /\ MaxFaults \in Nat

VARIABLES
    content,    \* the files ever made, each a sequence of fragments
    dir,        \* the directory: [0..BackupCount -> file number or 0]
    handle,     \* _file: not open, open, or closed by a close() that raised
    buffer,     \* fragments written to _file that have not reached the disk
    size,       \* _current_size
    closed,     \* _closed
    op,         \* the append or close that each thread runs
    iter,       \* the replay iterator of each thread
    count,      \* appends so far (MaxRecords bounds it): the next record's number
    acked,      \* history: the records whose append returned
    faults      \* I/O errors and crashes so far (MaxFaults bounds it)

disk == <<content, dir>>
store == <<handle, buffer, size, closed>>
vars == <<disk, store, op, iter, count, acked, faults>>

Ids == 1..MaxRecords
Names == 0..BackupCount
Fragments == [id : Ids, part : {"head", "tail"}]

Record(i) == << [id |-> i, part |-> "head"], [id |-> i, part |-> "tail"] >>

\* An append flushes, then rotates by closing the file, unlinking the oldest
\* backup and renaming the others, "from" downwards; a close flushes.
Ops ==
    [ pc   : {"idle", "flush", "close", "unlink", "rename", "closing"},
      rec  : Nat,
      from : Nat ]

Idle == [pc |-> "idle", rec |-> 0, from |-> 0]

\* An iterator opens the names "left" - 1 down to 0, reads lines, and waits for
\* its consumer after each event it yields.
Iterators ==
    [ pc     : {"none", "open", "read", "yielded"},
      left   : 0..(BackupCount + 1),
      file   : Nat,
      pos    : Nat,         \* fragments read of the file
      offset : Nat,         \* lines read of all files
      start  : Nat,
      batch  : Nat,
      out    : Seq(Ids),    \* the events yielded
      mixed  : BOOLEAN ]    \* history: its consumer appended or closed in between

NoIterator ==
    [pc |-> "none", left |-> 0, file |-> 0, pos |-> 0, offset |-> 0,
     start |-> 0, batch |-> 0, out |-> <<>>, mixed |-> FALSE]

-----------------------------------------------------------------------------
\* The lock is free or t holds it already.
Available(t) ==
    \A u \in Threads \ {t} : op[u].pc = "idle" /\ iter[u].pc = "none"

\* Application code is running on t.
InApp(t) == op[t].pc = "idle" /\ iter[t].pc \in {"none", "yielded"}

\* A public call begins on t: it has the lock and the store is open.
Enters(t) == InApp(t) /\ Available(t) /\ ~closed

Fault ==
    /\ faults < MaxFaults
    /\ faults' = faults + 1

At(t, pc) == op[t].pc = pc

Goes(t, pc) == op' = [op EXCEPT ![t].pc = pc]

\* The call is over, whether it returns or raises.
Leaves(t) == op' = [op EXCEPT ![t] = Idle]

Acknowledges(t) ==
    /\ Leaves(t)
    /\ acked' = acked \union {op[t].rec}

Active == content[dir[0]]

Init ==
    /\ content = <<>>
    /\ dir = [k \in Names |-> 0]
    /\ handle = "none"
    /\ buffer = <<>>
    /\ size = 0
    /\ closed = FALSE
    /\ op = [t \in Threads |-> Idle]
    /\ iter = [t \in Threads |-> NoIterator]
    /\ count = 0
    /\ acked = {}
    /\ faults = 0

\* A call that writes, on behalf of the consumer if t has an iterator.
Mixes(t) == iter' = [iter EXCEPT ![t].mixed = iter[t].pc = "yielded"]

(* Append.                                                                 *)

\* Mutant: the file is opened with mode "w".
MutContinueFile ==
    /\ content' = [content EXCEPT ![dir[0]] = <<>>]
    /\ size' = 0
    /\ dir' = dir

ContinueFile == size' = Len(Active) /\ UNCHANGED disk

\* _open_for_append: an existing file is continued and its size taken over.
OpenForAppend ==
    /\ handle' = "open"
    /\ IF handle = "open" THEN UNCHANGED <<disk, size>>
       ELSE IF dir[0] = 0
            THEN /\ content' = Append(content, <<>>)
                 /\ dir' = [dir EXCEPT ![0] = Len(content) + 1]
                 /\ size' = 0
       ELSE ContinueFile

\* The record is handed to the file object.  An event that cannot be encoded, a
\* file that cannot be opened and a handle that is closed make append raise
\* before it changed anything.
AppendRecord(t) ==
    /\ Enters(t)
    /\ handle # "dead"
    /\ count < MaxRecords
    /\ count' = count + 1
    /\ OpenForAppend
    /\ buffer' = buffer \o Record(count + 1)
    /\ op' = [op EXCEPT ![t] = [pc |-> "flush", rec |-> count + 1, from |-> 0]]
    /\ Mixes(t)
    /\ UNCHANGED <<closed, acked, faults>>

\* A flush moves the buffer to the disk.
WriteFragment(t) ==
    /\ At(t, "flush") \/ At(t, "closing")
    /\ buffer # <<>>
    /\ content' = [content EXCEPT ![dir[0]] = Append(@, Head(buffer))]
    /\ buffer' = Tail(buffer)
    /\ UNCHANGED <<dir, handle, size, closed, op, iter, count, acked, faults>>

\* append raises; what was not written stays in the buffer.
FlushFails(t) ==
    /\ At(t, "flush")
    /\ buffer # <<>>
    /\ Fault
    /\ Leaves(t)
    /\ UNCHANGED <<disk, store, iter, count, acked>>

\* Mutant: the record is not flushed.
MutAllWritten == TRUE

AllWritten == buffer = <<>>

\* Only the size of this record is counted.
Flushed(t) ==
    /\ At(t, "flush")
    /\ AllWritten
    /\ size' = size + 2
    /\ IF size + 2 >= MaxSize THEN Goes(t, "close") /\ acked' = acked
       ELSE Acknowledges(t)
    /\ UNCHANGED <<disk, handle, buffer, closed, iter, count, faults>>

(* Rotation.                                                               *)

\* Mutant: the file object is kept.
MutCloseActive(t) ==
    /\ At(t, "close")
    /\ Goes(t, "unlink")
    /\ UNCHANGED <<disk, store, iter, count, acked, faults>>

CloseActive(t) ==
    /\ At(t, "close")
    /\ handle' = "none"
    /\ Goes(t, "unlink")
    /\ UNCHANGED <<disk, buffer, size, closed, iter, count, acked, faults>>

\* close() raises and _file keeps the object, which is closed all the same.
CloseActiveFails(t) ==
    /\ At(t, "close")
    /\ Fault
    /\ handle' = "dead"
    /\ Leaves(t)
    /\ UNCHANGED <<disk, buffer, size, closed, iter, count, acked>>

\* Mutant: the renames begin one backup too low.
MutFirstSource == IF BackupCount > 1 THEN BackupCount - 2 ELSE 0

FirstSource == BackupCount - 1

UnlinkOldest(t) ==
    /\ At(t, "unlink")
    /\ dir' = [dir EXCEPT ![BackupCount] = 0]
    /\ op' = [op EXCEPT ![t].pc = "rename", ![t].from = FirstSource]
    /\ UNCHANGED <<content, store, iter, count, acked, faults>>

\* Mutant: the backups stay where they are and the active file takes a free name.
MutRenamed(k) ==
    IF k > 0 THEN dir
    ELSE [dir EXCEPT ![IF dir[1] = 0 THEN 1 ELSE BackupCount] = dir[0], ![0] = 0]

\* A file moves to the next name, over whatever has it.
Renamed(k) == IF dir[k] = 0 THEN dir ELSE [dir EXCEPT ![k + 1] = dir[k], ![k] = 0]

Rename(t) ==
    /\ At(t, "rename")
    /\ LET k == op[t].from
       IN /\ dir' = Renamed(k)
          /\ IF k > 0
             THEN op' = [op EXCEPT ![t].from = k - 1] /\ UNCHANGED <<size, acked>>
             ELSE size' = 0 /\ Acknowledges(t)
    /\ UNCHANGED <<content, handle, buffer, closed, iter, count, faults>>

\* append raises half-way through the rotation.
RotationFails(t) ==
    /\ At(t, "unlink") \/ At(t, "rename")
    /\ Fault
    /\ Leaves(t)
    /\ UNCHANGED <<disk, store, iter, count, acked>>

-----------------------------------------------------------------------------
(* Replay.                                                                 *)

\* Mutant: the newline is forgotten.
MutEndsLine(fragment) == FALSE

EndsLine(fragment) == fragment.part = "tail"

\* The end of the line that begins after position pos of a file.
LineEnd(file, pos) ==
    CHOOSE e \in (pos + 1)..Len(file) :
        /\ e = Len(file) \/ EndsLine(file[e])
        /\ \A m \in (pos + 1)..(e - 1) : ~EndsLine(file[m])

\* Fragments from + 1 to end are the whole of one record, hence an event.
IsEvent(file, from, end) ==
    /\ end = from + 2
    /\ SubSeq(file, from + 1, end) = Record(file[end].id)

IterAt(t, pc) == iter[t].pc = pc

\* A step of the iterator of t.
Iterates(t, it) ==
    /\ iter' = [iter EXCEPT ![t] = it]
    /\ UNCHANGED <<disk, store, op, count, acked>>

\* The first step of an iterator takes the lock.
StartReplay(t, start, batch) ==
    /\ Enters(t)
    /\ IterAt(t, "none")
    /\ Iterates(t, [NoIterator EXCEPT !.pc = "open", !.left = BackupCount + 1,
                                      !.start = start, !.batch = batch])
    /\ UNCHANGED faults

\* Mutant: the newest file is read first.
MutNameOf(it) == BackupCount + 1 - it.left

\* _paths_oldest_first
NameOf(it) == it.left - 1

\* Mutant: the same file is opened again.
MutNextFile(it) == [it EXCEPT !.pc = "open"]

NextFile(it) == [it EXCEPT !.pc = "open", !.left = @ - 1]

\* The next name is opened, unless no file has it.
OpenNext(t) ==
    /\ IterAt(t, "open")
    /\ iter[t].left > 0
    /\ LET it == iter[t]
           f == dir[NameOf(it)]
       IN Iterates(t, IF f = 0 THEN NextFile(it)
                      ELSE [it EXCEPT !.pc = "read", !.file = f, !.pos = 0])
    /\ UNCHANGED faults

\* Mutant: a start_id skips one line more.
MutWanted(it) == it.offset > it.start

Wanted(it) == it.offset >= it.start

\* A line is skipped or yielded; one that is not an event takes an offset too.
ReadLine(t) ==
    /\ IterAt(t, "read")
    /\ iter[t].pos < Len(content[iter[t].file])
    /\ LET it == iter[t]
           file == content[it.file]
           end == LineEnd(file, it.pos)
           read == [it EXCEPT !.pos = end, !.offset = @ + 1]
       IN Iterates(t, IF Wanted(it) /\ IsEvent(file, it.pos, end)
                      THEN [read EXCEPT !.pc = "yielded",
                                        !.out = Append(@, file[end].id)]
                      ELSE read)
    /\ UNCHANGED faults

EndOfFile(t) ==
    /\ IterAt(t, "read")
    /\ iter[t].pos = Len(content[iter[t].file])
    /\ Iterates(t, NextFile(iter[t]))
    /\ UNCHANGED faults

\* The consumer asks for the next event: only now does a full batch end.
Resume(t) ==
    /\ InApp(t)
    /\ IterAt(t, "yielded")
    /\ Iterates(t, IF Len(iter[t].out) >= iter[t].batch THEN NoIterator
                   ELSE [iter[t] EXCEPT !.pc = "read"])
    /\ UNCHANGED faults

\* Every file has been read.
Exhausted(t) ==
    /\ IterAt(t, "open")
    /\ iter[t].left = 0
    /\ Iterates(t, NoIterator)
    /\ UNCHANGED faults

\* The consumer closes the iterator.
CloseIterator(t) ==
    /\ InApp(t)
    /\ IterAt(t, "yielded")
    /\ Iterates(t, NoIterator)
    /\ UNCHANGED faults

\* A file that cannot be opened, read or decoded.
ReadFails(t) ==
    /\ (IterAt(t, "open") /\ iter[t].left > 0) \/ IterAt(t, "read")
    /\ Fault
    /\ Iterates(t, NoIterator)

-----------------------------------------------------------------------------
(* Close, crash and restart.                                               *)

Close(t) ==
    /\ Enters(t)
    /\ closed' = TRUE
    /\ IF handle = "open" THEN Goes(t, "closing") /\ handle' = handle
       ELSE handle' = "none" /\ op' = op
    /\ Mixes(t)
    /\ UNCHANGED <<disk, buffer, size, count, acked, faults>>

\* The file object is closed: the buffer is on the disk, or what is left of it
\* is lost and close raises.
CloseEnds(t) ==
    /\ At(t, "closing")
    /\ IF buffer = <<>> THEN faults' = faults ELSE Fault
    /\ buffer' = <<>>
    /\ handle' = "none"
    /\ Leaves(t)
    /\ UNCHANGED <<disk, size, closed, iter, count, acked>>

\* A new FilePersistence for the same path.
Fresh ==
    /\ handle' = "none"
    /\ buffer' = <<>>
    /\ size' = 0
    /\ closed' = FALSE
    /\ op' = [t \in Threads |-> Idle]
    /\ iter' = [t \in Threads |-> NoIterator]
    /\ UNCHANGED <<disk, count, acked>>

\* The application replaces a closed store.
Reopen ==
    /\ closed
    /\ \A t \in Threads : op[t].pc = "idle" /\ IterAt(t, "none")
    /\ Fresh
    /\ UNCHANGED faults

\* The process dies, and a new one opens the store.
Crash ==
    /\ Fault
    /\ Fresh

-----------------------------------------------------------------------------
\* Steps of the store itself.
StoreStep(t) ==
    \/ WriteFragment(t) \/ Flushed(t)
    \/ CloseActive(t) \/ UnlinkOldest(t) \/ Rename(t)
    \/ OpenNext(t) \/ ReadLine(t) \/ EndOfFile(t) \/ Exhausted(t)
    \/ CloseEnds(t)

StepFails(t) ==
    FlushFails(t) \/ CloseActiveFails(t) \/ RotationFails(t) \/ ReadFails(t)

Consume(t) == Resume(t) \/ CloseIterator(t)

Call(t) ==
    \/ AppendRecord(t)
    \/ \E s \in Starts, b \in Batches : StartReplay(t, s, b)
    \/ Close(t)

Next ==
    \/ \E t \in Threads : StoreStep(t) \/ StepFails(t) \/ Consume(t) \/ Call(t)
    \/ Reopen
    \/ Crash

Spec == Init /\ [][Next]_vars

\* Threads are scheduled, and consumers take the next event or close the iterator.
Fairness == \A t \in Threads : WF_vars(StoreStep(t)) /\ WF_vars(Consume(t))

FairSpec == Spec /\ Fairness
-----------------------------------------------------------------------------
(* Properties.                                                             *)

\* The variables keep their types; the directory names files that exist, an open
\* handle has its file and only an open handle has a buffer (FilePersistence).
TypeOK ==
    /\ content \in Seq(Seq(Fragments))
    /\ dir \in [Names -> 0..Len(content)]
    /\ handle \in {"none", "open", "dead"}
    /\ buffer \in Seq(Fragments)
    /\ size \in Nat
    /\ closed \in BOOLEAN
    /\ op \in [Threads -> Ops]
    /\ iter \in [Threads -> Iterators]
    /\ count \in 0..MaxRecords
    /\ acked \subseteq Ids
    /\ faults \in 0..MaxFaults
    /\ handle = "open" => dir[0] # 0
    /\ buffer # <<>> => handle = "open"

Retained == { dir[k] : k \in Names } \ {0}

FileOf(k) == IF dir[k] = 0 THEN <<>> ELSE content[dir[k]]

\* Fragment a was handed to the file object before fragment b.
WrittenBefore(a, b) ==
    a.id < b.id \/ (a.id = b.id /\ a.part = "head" /\ b.part = "tail")

\* The retained fragments stay in the order in which they were written, none of
\* them twice, at every step of a rotation and after every failure or crash
\* (FilePersistence._rotate).
OrderKept ==
    \A k, m \in Names : \A p \in DOMAIN FileOf(k), q \in DOMAIN FileOf(m) :
        k > m \/ (k = m /\ p < q) => WrittenBefore(FileOf(k)[p], FileOf(m)[q])

\* Record i is whole, in one retained file.
OnDisk(i) ==
    \E f \in Retained : \E p \in 1..(Len(content[f]) - 1) :
        SubSeq(content[f], p, p + 1) = Record(i)

\* Only rotation loses an acknowledged record, and then everything older is gone
\* too and a whole newer record is there (FilePersistence.append, _rotate).
AckedRetained ==
    \A i \in acked :
        \/ OnDisk(i)
        \/ /\ \E j \in Ids : j > i /\ OnDisk(j)
           /\ \A f \in Retained : \A p \in DOMAIN content[f] : content[f][p].id > i

\* Once a file was dropped, BackupCount files are left but for one for each
\* fault: a rotation that is cut short leaves a gap between the backups, and the
\* next one unlinks the oldest all the same (FilePersistence._rotate).
RetentionBound ==
    (1..Len(content)) \ Retained # {} => Cardinality(Retained) >= BackupCount - faults

\* A line of a retained file holds exactly record i.
Replayable(i) ==
    \E f \in Retained : \E p \in 1..(Len(content[f]) - 1) :
        /\ SubSeq(content[f], p, p + 1) = Record(i)
        /\ EndsLine(content[f][p + 1])
        /\ p > 1 => EndsLine(content[f][p - 1])

\* A fault costs the replay of at most one acknowledged record, that which is
\* appended to the line the fault left unfinished (FilePersistence.append).
DamageBounded ==
    Cardinality({ i \in acked : OnDisk(i) /\ ~Replayable(i) }) <= faults

\* An iterator yields events in the order of their appends and none twice, also
\* when its consumer appends and rotates between two events
\* (FilePersistence._replay).
ReplayOrdered ==
    \A t \in Threads : \A m, n \in DOMAIN iter[t].out :
        m < n => iter[t].out[m] < iter[t].out[n]

\* The lines of the files that have a name, by name and last fragment.  A line ends
\* with a tail or with its file.
LineEnds(k) ==
    { e \in DOMAIN FileOf(k) : e = Len(FileOf(k)) \/ EndsLine(FileOf(k)[e]) }
Lines == UNION { {k} \X LineEnds(k) : k \in Names }

\* The number of lines before line l, in all files from the oldest on.
Offset(l) ==
    Cardinality({ m \in Lines : m[1] > l[1] \/ (m[1] = l[1] /\ m[2] < l[2]) })

\* Line l holds exactly record i.
Holds(l, i) == Replayable(i) /\ FileOf(l[1])[l[2]] = [id |-> i, part |-> "tail"]

\* The events from offset start on.
EventsFrom(start) ==
    { i \in Ids : \E l \in Lines : Offset(l) >= start /\ Holds(l, i) }

\* The iterator of t comes to the end of the last file.
Exhausts(t) ==
    /\ IterAt(t, "open")
    /\ iter[t].left = 0
    /\ iter'[t].pc = "none"
    /\ faults' = faults

\* An iterator that ends by itself, and whose consumer did not write meanwhile,
\* has yielded every event from its start on (FilePersistence._replay).
ReplayComplete ==
    [][ \A t \in Threads :
          Exhausts(t) /\ ~iter[t].mixed
            => ToSet(iter[t].out) = EventsFrom(iter[t].start) ]_vars

\* Every call and every iterator releases the lock again (FilePersistence).
LockReleased ==
    \A t \in Threads :
        (op[t].pc # "idle" \/ iter[t].pc # "none")
          ~> (op[t].pc = "idle" /\ iter[t].pc = "none")

\* The records that are whole.
WholeRecords == { i \in Ids : OnDisk(i) }

\* The store is a bounded log (BoundedLog).
Log == INSTANCE BoundedLog WITH Ids <- Ids, log <- WholeRecords, acked <- acked
LogSpec == Log!Spec
-----------------------------------------------------------------------------
(* What the documentation says and the code does not keep.                 *)

\* docs/file-persistence.md: every successfully written record remains
\* replayable.  The first record after a write that was cut short is appended to
\* the unfinished line (FilePersistence.append).
WrittenIsReplayable == \A i \in acked : OnDisk(i) => Replayable(i)
=============================================================================
