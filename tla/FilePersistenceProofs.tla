------------------------- MODULE FilePersistenceProofs -------------------------
(***************************************************************************)
(* Theorems about the file store, for every number of threads, backups,    *)
(* records and faults and every size of a file.                            *)
(***************************************************************************)
EXTENDS FilePersistence, Extremes, SequenceTheorems, FiniteSetTheorems, TLAPS

\* The lock is held by one thread at most.
Exclusive ==
    \A t, u \in Threads :
        t # u /\ ~(op[t].pc = "idle" /\ iter[t].pc = "none")
          => op[u].pc = "idle" /\ iter[u].pc = "none"

\* What an append or a close has reached says what is open and what is buffered.
OpOK(o) ==
    /\ o.pc \notin {"idle", "closing"} => o.rec \in Ids
    /\ o.pc \in {"flush", "close", "closing"} => handle = "open"
    /\ o.pc \in {"close", "unlink", "rename"} => buffer = <<>>
    /\ o.pc \in {"unlink", "rename"} => handle = "none"
    /\ o.pc = "rename" => o.from \in 0..(BackupCount - 1)

\* An iterator that has a file is within it.
IterOK(it) ==
    it.pc \in {"read", "yielded"} =>
        /\ it.left >= 1
        /\ it.file \in 1..Len(content)
        /\ it.pos <= Len(content[it.file])

\* Whatever was written to a file came after everything in the older files.
FilesOrdered ==
    \A f, g \in 1..Len(content) :
        \A p \in 1..Len(content[f]), q \in 1..Len(content[g]) :
            f < g \/ (f = g /\ p < q) => WrittenBefore(content[f][p], content[g][q])

\* The buffer comes after every file, and the next record after both.
BufferLast ==
    /\ \A q \in 1..Len(buffer) :
          /\ buffer[q].id <= count
          /\ \A p \in 1..Len(buffer) : p < q => WrittenBefore(buffer[p], buffer[q])
    /\ \A f \in 1..Len(content) : \A p \in 1..Len(content[f]) :
          /\ content[f][p].id <= count
          /\ \A q \in 1..Len(buffer) : WrittenBefore(content[f][p], buffer[q])

\* A higher name has an older file, and the active file is the newest of all.
NamesOrdered ==
    /\ \A k, m \in Names : k > m /\ dir[k] # 0 /\ dir[m] # 0 => dir[k] < dir[m]
    /\ dir[0] # 0 => dir[0] = Len(content)

OrderInv == FilesOrdered /\ BufferLast /\ NamesOrdered

ThreadOK(t) == OpOK(op[t]) /\ IterOK(iter[t])

Inv == TypeOK /\ Exclusive /\ (\A t \in Threads : ThreadOK(t)) /\ OrderInv

-----------------------------------------------------------------------------
(* Sequences of fragments.                                                 *)

LEMMA RecordProperties ==
    ASSUME NEW i \in Ids
    PROVE  /\ Record(i) \in Seq(Fragments)
           /\ Len(Record(i)) = 2
           /\ Record(i)[1] = [id |-> i, part |-> "head"]
           /\ Record(i)[2] = [id |-> i, part |-> "tail"]
<1> DEFINE h == [id |-> i, part |-> "head"]
           l == [id |-> i, part |-> "tail"]
<1>1. h \in Fragments /\ l \in Fragments
  BY DEF Fragments
<1>2. Record(i) = <<h, l>>
  BY DEF Record
<1> HIDE DEF h, l
<1>3. <<h, l>> \in Seq(Fragments) /\ Len(<<h, l>>) = 2
  BY <1>1
<1> QED
  BY <1>2, <1>3 DEF h, l

\* A line that begins before the end of a file ends in it, where its first line end is.
LEMMA LineEndProperties ==
    ASSUME NEW file \in Seq(Fragments), NEW pos \in Nat, pos < Len(file)
    PROVE  /\ LineEnd(file, pos) \in (pos + 1)..Len(file)
           /\ LineEnd(file, pos) = Len(file) \/ EndsLine(file[LineEnd(file, pos)])
           /\ \A m \in (pos + 1)..(LineEnd(file, pos) - 1) : ~EndsLine(file[m])
<1> DEFINE P(e) == e = Len(file) \/ EndsLine(file[e])
           E == { e \in (pos + 1)..Len(file) : P(e) }
<1>1. Len(file) \in Nat
  BY LenProperties
<1>2. Len(file) \in E
  BY <1>1
<1>3. E \subseteq Nat /\ E # {}
  BY <1>1, <1>2
<1>4. PICK e \in E : \A m \in E : e <= m
  <2> HIDE DEF E
  <2> QED
    BY <1>3, Minimum
<1>5. \A m \in E : ~(m < e)
  BY <1>3, <1>4
<1>6. e \in (pos + 1)..Len(file) /\ P(e)
  OBVIOUS
<1>7. ASSUME NEW m \in (pos + 1)..(e - 1) PROVE ~EndsLine(file[m])
  <2>1. m \in (pos + 1)..Len(file) /\ m < e
    BY <1>1, <1>6
  <2> QED
    BY <1>5, <2>1
<1> QED
  BY <1>6, <1>7 DEF LineEnd

-----------------------------------------------------------------------------
(* The lock.                                                               *)

\* Whoever has begun something has the lock.
LEMMA HolderHasLock ==
    ASSUME Exclusive, NEW t \in Threads, op[t].pc # "idle" \/ iter[t].pc # "none"
    PROVE  Available(t)
BY DEF Exclusive, Available

\* A step of the holder keeps the others idle and, if it keeps what its own calls
\* need, that of every thread.
LEMMA HolderStep ==
    ASSUME NEW t \in Threads, Available(t), ThreadOK(t)',
           \A u \in Threads \ {t} : op'[u] = op[u] /\ iter'[u] = iter[u]
    PROVE  Exclusive' /\ (\A u \in Threads : ThreadOK(u))'
<1>1. \A u \in Threads \ {t} : op'[u].pc = "idle" /\ iter'[u].pc = "none"
  BY DEF Available
<1>2. Exclusive'
  BY <1>1 DEF Exclusive
<1>3. \A u \in Threads \ {t} : ThreadOK(u)'
  BY <1>1 DEF ThreadOK, OpOK, IterOK
<1> QED
  BY <1>2, <1>3

-----------------------------------------------------------------------------
(* The order of the fragments.                                             *)

\* A step that writes nothing only has to keep the order of the names, and may
\* drop the buffer.
LEMMA NothingWritten ==
    ASSUME OrderInv, NamesOrdered', UNCHANGED <<content, count>>,
           buffer' = buffer \/ buffer' = <<>>
    PROVE  OrderInv'
<1>1. FilesOrdered'
  BY DEF OrderInv, FilesOrdered
<1>2. BufferLast'
  <2>1. CASE buffer' = buffer
    BY <2>1 DEF OrderInv, BufferLast
  <2>2. CASE buffer' = <<>>
    <3>1. Len(buffer') = 0
      BY <2>2
    <3>2. 1..0 = {}
      OBVIOUS
    <3> QED
      BY <3>1, <3>2 DEF OrderInv, BufferLast
  <2> QED
    BY <2>1, <2>2
<1> QED
  BY <1>1, <1>2 DEF OrderInv

LEMMA OrderUnchanged ==
    ASSUME OrderInv, UNCHANGED <<content, dir, buffer, count>>
    PROVE  OrderInv'
BY DEF OrderInv, FilesOrdered, BufferLast, NamesOrdered

-----------------------------------------------------------------------------
(* The steps of an iterator.                                               *)

LEMMA IteratorStep ==
    ASSUME Inv, NEW t \in Threads, NEW it \in Iterators, Iterates(t, it),
           Available(t), IterOK(it), faults' \in 0..MaxFaults
    PROVE  Inv'
<1>1. UNCHANGED <<disk, store, op, count, acked>> /\ iter' = [iter EXCEPT ![t] = it]
  BY DEF Iterates
<1>2. TypeOK'
  BY <1>1 DEF Inv, TypeOK, disk, store
<1>3. iter'[t] = it /\ \A u \in Threads \ {t} : iter'[u] = iter[u]
  BY <1>1 DEF Inv, TypeOK
<1>4. ThreadOK(t)'
  BY <1>1, <1>3 DEF Inv, ThreadOK, OpOK, IterOK, disk, store
<1>5. Exclusive' /\ (\A u \in Threads : ThreadOK(u))'
  BY <1>1, <1>3, <1>4, HolderStep
<1>6. OrderInv'
  BY <1>1, OrderUnchanged DEF Inv, disk, store
<1> QED
  BY <1>2, <1>5, <1>6 DEF Inv

LEMMA NoIteratorOK == NoIterator \in Iterators /\ IterOK(NoIterator)
<1>1. <<>> \in Seq(Ids)
  OBVIOUS
<1>2. 0 \in 0..(BackupCount + 1)
  BY FileAssumption
<1> QED
  BY <1>1, <1>2 DEF NoIterator, Iterators, IterOK

LEMMA FaultBounded ==
    ASSUME TypeOK, Fault \/ faults' = faults
    PROVE  faults' \in 0..MaxFaults
BY FileAssumption DEF TypeOK, Fault

\* The iterator has the lock and the file it reads.
LEMMA Reading ==
    ASSUME Inv, NEW t \in Threads, iter[t].pc \in {"open", "read", "yielded"}
    PROVE  iter[t] \in Iterators /\ IterOK(iter[t]) /\ Available(t)
BY HolderHasLock DEF Inv, TypeOK, ThreadOK

LEMMA NextFileOK ==
    ASSUME NEW it \in Iterators, it.left >= 1
    PROVE  NextFile(it) \in Iterators /\ IterOK(NextFile(it))
<1>1. it.left - 1 \in 0..(BackupCount + 1)
  BY FileAssumption DEF Iterators
<1> QED
  BY <1>1 DEF NextFile, Iterators, IterOK

LEMMA OpenNextInv ==
    ASSUME Inv, NEW t \in Threads, OpenNext(t)
    PROVE  Inv'
<1> DEFINE it == iter[t]
           f == dir[NameOf(it)]
<1>1. it \in Iterators /\ Available(t) /\ it.left >= 1 /\ faults' \in 0..MaxFaults
  <2>1. it.pc = "open" /\ it.left > 0
    BY DEF OpenNext, IterAt
  <2>2. it \in Iterators /\ Available(t)
    BY <2>1, Reading
  <2>3. it.left \in Int
    BY <2>2, FileAssumption DEF Iterators
  <2> QED
    BY <2>1, <2>2, <2>3, FaultBounded DEF OpenNext, Inv
<1>2. CASE f = 0
  BY <1>1, <1>2, NextFileOK, IteratorStep DEF OpenNext
<1>3. CASE f # 0
  <2> DEFINE r == [it EXCEPT !.pc = "read", !.file = f, !.pos = 0]
  <2>1. NameOf(it) \in Names
    BY SMTT(30), <1>1, FileAssumption DEF NameOf, Names, Iterators
  <2>2. f \in 1..Len(content) /\ Len(content) \in Nat
    <3>1. Len(content) \in Nat
      BY LenProperties DEF Inv, TypeOK
    <3>2. f \in 0..Len(content)
      BY <2>1 DEF Inv, TypeOK
    <3> QED
      BY <1>3, <3>1, <3>2
  <2>3. Len(content[f]) \in Nat
    BY <2>2, ElementOfSeq, LenProperties DEF Inv, TypeOK
  <2>4. r \in Iterators /\ IterOK(r)
    <3> HIDE DEF f
    <3>1. f \in Nat
      BY <2>2
    <3>2. r \in Iterators
      BY <1>1, <3>1 DEF Iterators
    <3>3. r.file = f /\ r.pos = 0 /\ r.left = it.left
      BY <1>1 DEF Iterators
    <3> HIDE DEF r, it
    <3> QED
      BY <1>1, <2>2, <2>3, <3>2, <3>3 DEF IterOK
  <2> HIDE DEF r
  <2>5. Iterates(t, r)
    BY <1>3 DEF OpenNext, r
  <2> QED
    BY <1>1, <2>4, <2>5, IteratorStep
<1> QED
  BY <1>2, <1>3

LEMMA ReadLineInv ==
    ASSUME Inv, NEW t \in Threads, ReadLine(t)
    PROVE  Inv'
<1> DEFINE it == iter[t]
           file == content[it.file]
           end == LineEnd(file, it.pos)
           read == [it EXCEPT !.pos = end, !.offset = @ + 1]
           event == [read EXCEPT !.pc = "yielded", !.out = Append(@, file[end].id)]
<1>1. it \in Iterators /\ IterOK(it) /\ Available(t) /\ it.pc = "read"
  BY Reading DEF ReadLine, IterAt
<1>2. it.file \in 1..Len(content) /\ it.left >= 1 /\ it.pos < Len(file)
  BY <1>1 DEF IterOK, ReadLine
<1>3. faults' \in 0..MaxFaults
  BY FaultBounded DEF ReadLine, Inv
<1>4. file \in Seq(Fragments) /\ it.pos \in Nat /\ Len(file) \in Nat
  BY <1>1, <1>2, ElementOfSeq, LenProperties DEF Inv, TypeOK, Iterators
<1>5. end \in (it.pos + 1)..Len(file)
  <2> HIDE DEF file
  <2> QED
    BY <1>2, <1>4, LineEndProperties
<1>6. end \in Nat /\ end <= Len(file) /\ end \in 1..Len(file)
  BY <1>4, <1>5
<1>7. read \in Iterators /\ IterOK(read) /\ read.out \in Seq(Ids)
      /\ read.file = it.file /\ read.left >= 1 /\ read.pos <= Len(content[read.file])
  <2> HIDE DEF end
  <2>1. read \in Iterators
    <3>1. it \in Iterators /\ end \in Nat
      BY <1>1, <1>6
    <3>2. it.offset + 1 \in Nat
      BY <3>1 DEF Iterators
    <3> HIDE DEF it
    <3> QED
      BY <3>1, <3>2 DEF Iterators
  <2>2. read.out = it.out /\ read.file = it.file /\ read.left = it.left /\ read.pos = end
    BY <1>1 DEF Iterators
  <2>3. it.out \in Seq(Ids)
    BY SMTT(30), <1>1 DEF Iterators
  <2> HIDE DEF read, it
  <2> QED
    BY <1>2, <1>6, <2>1, <2>2, <2>3 DEF IterOK
<1>8. event \in Iterators /\ IterOK(event)
  <2>1. file[end] \in Fragments
    <3> HIDE DEF file, end
    <3> QED
      BY <1>4, <1>6, ElementOfSeq
  <2> DEFINE id == file[end].id
  <2>2. id \in Ids
    BY <2>1 DEF Fragments
  <2> HIDE DEF id, read
  <2>3. Append(read.out, id) \in Seq(Ids)
    BY <1>7, <2>2, AppendProperties
  <2> DEFINE e == [read EXCEPT !.pc = "yielded", !.out = Append(@, id)]
  <2>4. e \in Iterators /\ e.file = read.file /\ e.left = read.left /\ e.pos = read.pos
    BY <1>7, <2>3 DEF Iterators
  <2>5. IterOK(e)
    <3> HIDE DEF e
    <3> QED
      BY <1>2, <1>7, <2>4 DEF IterOK
  <2> QED
    BY <2>4, <2>5 DEF id
<1>9. Iterates(t, read) \/ Iterates(t, event)
  BY DEF ReadLine
<1> QED
  <2> HIDE DEF read, event
  <2> QED
    BY <1>1, <1>3, <1>7, <1>8, <1>9, IteratorStep

\* The steps that end a file, an iterator or a wait for the consumer.
LEMMA IterationInv ==
    ASSUME Inv, NEW t \in Threads,
           \/ EndOfFile(t) \/ Resume(t) \/ Exhausted(t)
           \/ CloseIterator(t) \/ ReadFails(t)
    PROVE  Inv'
<1> DEFINE it == iter[t]
           resumed == [it EXCEPT !.pc = "read"]
<1>1. it.pc \in {"open", "read", "yielded"}
  BY DEF EndOfFile, Resume, Exhausted, CloseIterator, ReadFails, IterAt
<1>2. it \in Iterators /\ IterOK(it) /\ Available(t)
  BY <1>1, Reading
<1>3. faults' \in 0..MaxFaults
  BY FaultBounded DEF EndOfFile, Resume, Exhausted, CloseIterator, ReadFails, Inv
<1>4. CASE Iterates(t, NoIterator)
  BY <1>2, <1>3, <1>4, NoIteratorOK, IteratorStep
<1>5. CASE EndOfFile(t)
  <2>1. it.left >= 1
    BY <1>2, <1>5 DEF EndOfFile, IterAt, IterOK
  <2> QED
    BY <1>2, <1>3, <1>5, <2>1, NextFileOK, IteratorStep DEF EndOfFile
<1>6. CASE Resume(t) /\ Iterates(t, resumed)
  <2>1. resumed \in Iterators /\ IterOK(resumed)
    BY <1>2, <1>6 DEF Resume, IterAt, Iterators, IterOK
  <2> HIDE DEF resumed
  <2> QED
    BY <1>2, <1>3, <1>6, <2>1, IteratorStep
<1> QED
  BY <1>4, <1>5, <1>6 DEF Resume, Exhausted, CloseIterator, ReadFails

LEMMA StartReplayInv ==
    ASSUME Inv, NEW t \in Threads, NEW start \in Starts, NEW batch \in Batches,
           StartReplay(t, start, batch)
    PROVE  Inv'
<1> DEFINE it == [NoIterator EXCEPT !.pc = "open", !.left = BackupCount + 1,
                                    !.start = start, !.batch = batch]
<1>1. BackupCount + 1 \in 0..(BackupCount + 1) /\ start \in Nat /\ batch \in Nat
  BY FileAssumption
<1>2. <<>> \in Seq(Ids)
  OBVIOUS
<1>3. it \in Iterators /\ IterOK(it)
  BY <1>1, <1>2 DEF NoIterator, Iterators, IterOK
<1>4. Available(t) /\ faults' \in 0..MaxFaults
  BY FaultBounded DEF StartReplay, Enters, Inv
<1>5. Iterates(t, it)
  BY DEF StartReplay
<1> QED
  <2> HIDE DEF it
  <2> QED
    BY <1>3, <1>4, <1>5, IteratorStep

-----------------------------------------------------------------------------
(* The steps of an append and of a close that write nothing.               *)

LEMMA IdleOK == Idle \in Ops /\ OpOK(Idle)
BY DEF Idle, Ops, OpOK

\* The thread whose append or close has begun.
LEMMA Running ==
    ASSUME Inv, NEW t \in Threads, op[t].pc # "idle"
    PROVE  /\ op[t] \in Ops /\ OpOK(op[t]) /\ Available(t)
           /\ iter[t] \in Iterators /\ IterOK(iter[t])
BY HolderHasLock DEF Inv, TypeOK, ThreadOK

\* What remains to show of a step of the holder that leaves the iterators alone.
LEMMA OperationStep ==
    ASSUME Inv, NEW t \in Threads, Available(t), NEW o,
           op' = [op EXCEPT ![t] = o], UNCHANGED <<content, iter>>,
           TypeOK', OpOK(op[t])', OrderInv'
    PROVE  Inv'
<1>1. \A u \in Threads \ {t} : op'[u] = op[u] /\ iter'[u] = iter[u]
  BY DEF Inv, TypeOK
<1>2. IterOK(iter[t])'
  BY DEF Inv, ThreadOK, IterOK
<1>3. ThreadOK(t)'
  BY <1>2 DEF ThreadOK
<1> QED
  BY <1>1, <1>3, HolderStep DEF Inv

\* The call is over.
LEMMA LeavesInv ==
    ASSUME Inv, NEW t \in Threads, op[t].pc # "idle", Leaves(t),
           UNCHANGED <<content, iter>>, TypeOK', OrderInv'
    PROVE  Inv'
<1>1. op'[t] = Idle
  BY DEF Leaves, Inv, TypeOK
<1>2. OpOK(op[t])'
  BY <1>1 DEF OpOK, Idle
<1> QED
  BY <1>2, Running, OperationStep DEF Leaves

LEMMA FlushFailsInv ==
    ASSUME Inv, NEW t \in Threads, FlushFails(t) \/ RotationFails(t)
    PROVE  Inv'
<1>1. /\ op[t].pc # "idle" /\ Leaves(t)
      /\ UNCHANGED <<disk, store, iter, count, acked>>
  BY DEF FlushFails, RotationFails, At
<1>2. faults' \in 0..MaxFaults
  BY FaultBounded DEF FlushFails, RotationFails, Inv
<1>3. TypeOK'
  BY <1>1, <1>2, IdleOK DEF Inv, TypeOK, Leaves, disk, store
<1>4. OrderInv'
  BY <1>1, OrderUnchanged DEF Inv, disk, store
<1> QED
  BY <1>1, <1>3, <1>4, LeavesInv DEF disk

LEMMA FlushedInv ==
    ASSUME Inv, NEW t \in Threads, Flushed(t)
    PROVE  Inv'
<1> DEFINE o == op[t]
           closing == [o EXCEPT !.pc = "close"]
<1>1. o \in Ops /\ OpOK(o) /\ Available(t) /\ o.pc = "flush" /\ buffer = <<>>
  BY Running DEF Flushed, At, AllWritten
<1>2. UNCHANGED <<disk, handle, buffer, closed, iter, count, faults>> /\ size' = size + 2
  BY DEF Flushed
<1>3. OrderInv'
  BY <1>2, OrderUnchanged DEF Inv, disk
<1>4. size' \in Nat
  BY <1>2 DEF Inv, TypeOK
<1>5. CASE Goes(t, "close") /\ acked' = acked
  <2>1. closing \in Ops /\ closing.pc = "close" /\ closing.rec = o.rec
    BY <1>1 DEF Ops
  <2>2. op' = [op EXCEPT ![t] = closing]
    BY <1>5 DEF Goes
  <2> HIDE DEF closing
  <2>3. TypeOK'
    BY <1>2, <1>4, <1>5, <2>1, <2>2 DEF Inv, TypeOK, disk
  <2>4. op'[t] = closing
    BY <2>2 DEF Inv, TypeOK
  <2>5. OpOK(op[t])'
    BY <1>1, <1>2, <2>1, <2>4 DEF OpOK
  <2> QED
    BY <1>1, <1>2, <1>3, <2>2, <2>3, <2>5, OperationStep DEF disk
<1>6. CASE Acknowledges(t)
  <2>1. acked' \subseteq Ids
    BY <1>1, <1>6 DEF Acknowledges, OpOK, Inv, TypeOK
  <2>2. TypeOK'
    BY <1>2, <1>4, <1>6, <2>1, IdleOK DEF Acknowledges, Leaves, Inv, TypeOK, disk
  <2> QED
    BY <1>1, <1>2, <1>3, <1>6, <2>2, LeavesInv DEF Acknowledges, disk
<1> QED
  BY <1>5, <1>6 DEF Flushed

LEMMA CloseActiveInv ==
    ASSUME Inv, NEW t \in Threads, CloseActive(t) \/ CloseActiveFails(t)
    PROVE  Inv'
<1> DEFINE o == op[t]
           next == [o EXCEPT !.pc = "unlink"]
<1>1. o \in Ops /\ OpOK(o) /\ Available(t) /\ o.pc = "close" /\ buffer = <<>>
  BY Running DEF CloseActive, CloseActiveFails, At, OpOK
<1>2. UNCHANGED <<disk, buffer, size, closed, iter, count, acked>>
  BY DEF CloseActive, CloseActiveFails
<1>3. OrderInv'
  BY <1>2, OrderUnchanged DEF Inv, disk
<1>4. CASE CloseActive(t)
  <2>1. handle' = "none" /\ op' = [op EXCEPT ![t] = next] /\ faults' = faults
    BY <1>4 DEF CloseActive, Goes
  <2>2. next \in Ops /\ next.pc = "unlink" /\ next.rec = o.rec
    BY <1>1 DEF Ops
  <2> HIDE DEF next
  <2>3. TypeOK'
    BY <1>1, <1>2, <2>1, <2>2 DEF Inv, TypeOK, disk
  <2>4. op'[t] = next
    BY <2>1 DEF Inv, TypeOK
  <2>5. OpOK(op[t])'
    BY <1>1, <1>2, <2>1, <2>2, <2>4 DEF OpOK
  <2> QED
    BY <1>1, <1>2, <1>3, <2>1, <2>3, <2>5, OperationStep DEF disk
<1>5. CASE CloseActiveFails(t)
  <2>1. faults' \in 0..MaxFaults
    BY <1>5, FaultBounded DEF CloseActiveFails, Inv
  <2>2. TypeOK'
    BY <1>1, <1>2, <1>5, <2>1, IdleOK DEF CloseActiveFails, Leaves, Inv, TypeOK, disk
  <2> QED
    BY <1>1, <1>2, <1>3, <1>5, <2>2, LeavesInv DEF CloseActiveFails, disk
<1> QED
  BY <1>4, <1>5

-----------------------------------------------------------------------------
(* The rotation.                                                           *)

\* The oldest name gives up its file, which no name follows.
LEMMA UnlinkInv ==
    ASSUME Inv, NEW t \in Threads, UnlinkOldest(t)
    PROVE  Inv'
<1> DEFINE o == op[t]
           next == [o EXCEPT !.pc = "rename", !.from = FirstSource]
<1>1. o \in Ops /\ OpOK(o) /\ Available(t) /\ o.pc = "unlink" /\ buffer = <<>> /\ handle = "none"
  BY Running DEF UnlinkOldest, At, OpOK
<1>2. UNCHANGED <<content, store, iter, count, acked, faults>>
  BY DEF UnlinkOldest
<1>3. FirstSource \in 0..(BackupCount - 1) /\ FirstSource \in Nat /\ BackupCount \in Names
  BY FileAssumption DEF FirstSource, Names
<1>4. next \in Ops /\ next.pc = "rename" /\ next.rec = o.rec /\ next.from = FirstSource
  BY <1>1, <1>3 DEF Ops
<1>5. op' = [op EXCEPT ![t] = next]
  BY DEF UnlinkOldest
<1>6. dir' = [dir EXCEPT ![BackupCount] = 0]
  BY DEF UnlinkOldest
<1>7. dir' \in [Names -> 0..Len(content)]
  <2>1. Len(content) \in Nat /\ dir \in [Names -> 0..Len(content)]
    BY LenProperties DEF Inv, TypeOK
  <2>2. 0 \in 0..Len(content)
    BY <2>1
  <2> QED
    BY <1>6, <2>1, <2>2
<1> HIDE DEF next
<1>8. TypeOK'
  BY <1>1, <1>2, <1>4, <1>5, <1>7 DEF Inv, TypeOK, store
<1>9. NamesOrdered'
  <2>1. \A k \in Names : dir'[k] # 0 => dir'[k] = dir[k]
    BY <1>6 DEF Inv, TypeOK
  <2>2. 0 \in Names
    BY FileAssumption DEF Names
  <2> QED
    BY <1>2, <2>1, <2>2 DEF Inv, OrderInv, NamesOrdered
<1>10. OrderInv'
  BY <1>2, <1>9, NothingWritten DEF Inv, store
<1>11. op'[t] = next
  BY <1>5 DEF Inv, TypeOK
<1>12. OpOK(op[t])'
  BY <1>1, <1>2, <1>3, <1>4, <1>11 DEF OpOK, store
<1> QED
  BY <1>1, <1>2, <1>5, <1>8, <1>10, <1>12, OperationStep

\* A renamed file stays between its neighbours.
LEMMA RenamedOrdered ==
    ASSUME TypeOK, NamesOrdered, NEW k \in 0..(BackupCount - 1),
           dir' = Renamed(k), content' = content
    PROVE  dir' \in [Names -> 0..Len(content)] /\ NamesOrdered'
<1>1. k \in Names /\ k + 1 \in Names /\ 0 \in Names /\ k \in Nat
  BY FileAssumption DEF Names
<1>2. CASE dir[k] = 0
  BY <1>2 DEF Renamed, TypeOK, NamesOrdered
<1>3. CASE dir[k] # 0
  <2>1. dir' = [dir EXCEPT ![k + 1] = dir[k], ![k] = 0]
    BY <1>3 DEF Renamed
  <2>2. Len(content) \in Nat
    BY LenProperties DEF TypeOK
  <2>3. dir' \in [Names -> 0..Len(content)]
    BY SMTT(30), <1>1, <2>1, <2>2 DEF TypeOK
  <2>4. \A j \in Names : dir'[j] = IF j = k THEN 0 ELSE IF j = k + 1 THEN dir[k] ELSE dir[j]
    BY <1>1, <2>1 DEF TypeOK
  <2>5. ASSUME NEW j \in Names, NEW m \in Names, j > m, dir'[j] # 0, dir'[m] # 0
        PROVE  dir'[j] < dir'[m]
    <3>1. j # k /\ m # k
      BY <2>4, <2>5
    <3>2. j \in Int /\ m \in Int
      BY FileAssumption DEF Names
    <3>3. CASE j = k + 1
      <4>1. m # k + 1 /\ m < k
        BY <1>1, <2>5, <3>1, <3>2, <3>3
      <4>2. dir'[j] = dir[k] /\ dir'[m] = dir[m]
        BY <2>4, <3>1, <3>3, <4>1
      <4> QED
        BY <1>1, <1>3, <2>5, <4>1, <4>2 DEF NamesOrdered
    <3>4. CASE m = k + 1
      <4>1. j # k + 1 /\ j > k
        BY <1>1, <2>5, <3>1, <3>2, <3>4
      <4>2. dir'[j] = dir[j] /\ dir'[m] = dir[k]
        BY <2>4, <3>1, <3>4, <4>1
      <4> QED
        BY <1>1, <1>3, <2>5, <4>1, <4>2 DEF NamesOrdered
    <3>5. CASE j # k + 1 /\ m # k + 1
      <4>1. dir'[j] = dir[j] /\ dir'[m] = dir[m]
        BY <2>4, <3>1, <3>5
      <4> QED
        BY <2>5, <4>1 DEF NamesOrdered
    <3> QED
      BY <3>3, <3>4, <3>5
  <2>6. dir'[0] # 0 => dir'[0] = Len(content)
    <3>1. k + 1 # 0
      BY <1>1
    <3> QED
      BY <1>1, <2>4, <3>1 DEF NamesOrdered
  <2> QED
    BY <2>3, <2>5, <2>6 DEF NamesOrdered
<1> QED
  BY <1>2, <1>3

LEMMA RenameInv ==
    ASSUME Inv, NEW t \in Threads, Rename(t)
    PROVE  Inv'
<1> DEFINE o == op[t]
           k == o.from
           next == [o EXCEPT !.from = k - 1]
<1>1. /\ o \in Ops /\ OpOK(o) /\ Available(t)
      /\ o.pc = "rename" /\ buffer = <<>> /\ handle = "none"
      /\ k \in 0..(BackupCount - 1)
  BY Running DEF Rename, At, OpOK
<1>2. UNCHANGED <<content, handle, buffer, closed, iter, count, faults>> /\ dir' = Renamed(k)
  BY DEF Rename
<1>3. dir' \in [Names -> 0..Len(content)] /\ NamesOrdered'
  BY <1>1, <1>2, RenamedOrdered DEF Inv, OrderInv
<1>4. OrderInv'
  BY <1>2, <1>3, NothingWritten DEF Inv
<1>5. CASE k > 0
  <2>1. op' = [op EXCEPT ![t] = next] /\ UNCHANGED <<size, acked>>
    BY <1>5 DEF Rename
  <2>2. k - 1 \in 0..(BackupCount - 1) /\ k - 1 \in Nat
    BY <1>1, <1>5, FileAssumption
  <2>3. next \in Ops
    BY <1>1, <2>2 DEF Ops
  <2>4. next.pc = "rename" /\ next.from = k - 1 /\ next.rec = o.rec
    BY <1>1 DEF Ops
  <2> HIDE DEF next
  <2>5. OpOK(op[t])'
    <3>1. op'[t] = next
      BY <2>1 DEF Inv, TypeOK
    <3> QED
      BY <1>1, <1>2, <2>2, <2>4, <3>1 DEF OpOK
  <2>6. TypeOK'
    BY <1>1, <1>2, <1>3, <2>1, <2>3 DEF Inv, TypeOK
  <2> QED
    BY <1>1, <1>2, <1>4, <2>1, <2>5, <2>6, OperationStep
<1>6. CASE ~(k > 0)
  <2>1. size' = 0 /\ Acknowledges(t)
    BY <1>6 DEF Rename
  <2>2. acked' \subseteq Ids
    BY <1>1, <2>1 DEF Acknowledges, OpOK, Inv, TypeOK
  <2>3. TypeOK'
    BY <1>1, <1>2, <1>3, <2>1, <2>2, IdleOK DEF Acknowledges, Leaves, Inv, TypeOK
  <2> QED
    BY <1>1, <1>2, <1>4, <2>1, <2>3, LeavesInv DEF Acknowledges
<1> QED
  BY <1>5, <1>6

-----------------------------------------------------------------------------
(* The steps that write.                                                   *)

\* The files keep what they have: an iterator stays within its file.
LEMMA IteratorKept ==
    ASSUME NEW t \in Threads, IterOK(iter[t]),
           content \in Seq(Seq(Fragments)), content' \in Seq(Seq(Fragments)),
           iter[t].pos \in Nat,
           Len(content) <= Len(content'),
           \A f \in 1..Len(content) : Len(content[f]) <= Len(content'[f]),
           iter'[t].pc = iter[t].pc, iter'[t].left = iter[t].left,
           iter'[t].file = iter[t].file, iter'[t].pos = iter[t].pos
    PROVE  IterOK(iter[t])'
<1> DEFINE f == iter[t].file
<1>1. SUFFICES ASSUME iter[t].pc \in {"read", "yielded"}
               PROVE  /\ iter[t].left >= 1
                      /\ f \in 1..Len(content')
                      /\ iter[t].pos <= Len(content'[f])
  BY DEF IterOK
<1>2. iter[t].left >= 1 /\ f \in 1..Len(content) /\ iter[t].pos <= Len(content[f])
  BY <1>1 DEF IterOK
<1>3. Len(content) \in Nat /\ Len(content') \in Nat
  BY LenProperties
<1>4. f \in 1..Len(content')
  BY <1>2, <1>3
<1>5. Len(content[f]) \in Nat /\ Len(content'[f]) \in Nat
  BY <1>2, <1>4, ElementOfSeq, LenProperties
<1>6. Len(content[f]) <= Len(content'[f])
  BY <1>2
<1> HIDE DEF f
<1> QED
  BY SMTT(30), <1>2, <1>4, <1>5, <1>6

\* What is opened for an append: the active file, or a new one.
LEMMA OpenForAppendKeeps ==
    ASSUME TypeOK, OrderInv, OpenForAppend, handle # "dead"
    PROVE  /\ content' \in Seq(Seq(Fragments))
           /\ dir' \in [Names -> 0..Len(content')]
           /\ dir'[0] # 0
           /\ handle' = "open"
           /\ size' \in Nat
           /\ Len(content) <= Len(content')
           /\ \A f \in 1..Len(content) : content'[f] = content[f]
           /\ \A f \in 1..Len(content') : f \notin 1..Len(content) => content'[f] = <<>>
           /\ NamesOrdered'
<1>1. 0 \in Names /\ Len(content) \in Nat /\ content \in Seq(Seq(Fragments))
  BY FileAssumption, LenProperties DEF Names, TypeOK
<1>2. CASE UNCHANGED <<content, dir>> /\ dir[0] # 0 /\ size' \in Nat /\ handle' = "open"
  BY <1>1, <1>2 DEF TypeOK, OrderInv, NamesOrdered
<1>3. CASE handle = "open"
  BY <1>2, <1>3 DEF OpenForAppend, TypeOK, disk
<1>4. CASE handle # "open" /\ dir[0] # 0
  <2>1. UNCHANGED <<content, dir>> /\ size' = Len(Active) /\ handle' = "open"
    BY <1>4 DEF OpenForAppend, ContinueFile, disk
  <2>2. dir[0] \in 1..Len(content)
    <3>1. dir[0] \in 0..Len(content)
      BY <1>1 DEF TypeOK
    <3> QED
      BY <1>1, <1>4, <3>1
  <2>3. Len(Active) \in Nat
    BY <1>1, <2>2, ElementOfSeq, LenProperties DEF Active
  <2> QED
    BY <1>2, <1>4, <2>1, <2>3
<1>5. CASE handle # "open" /\ dir[0] = 0
  <2> DEFINE n == Len(content) + 1
  <2>1. /\ content' = Append(content, <<>>) /\ dir' = [dir EXCEPT ![0] = n]
        /\ size' = 0 /\ handle' = "open"
    BY <1>5 DEF OpenForAppend
  <2>2. <<>> \in Seq(Fragments)
    BY EmptySeq
  <2>3. /\ content' \in Seq(Seq(Fragments))
        /\ Len(content') = n
        /\ \A f \in 1..Len(content) : content'[f] = content[f]
        /\ content'[n] = <<>>
    BY <1>1, <2>1, <2>2, AppendProperties
  <2>4. \A f \in 1..n : f \notin 1..Len(content) => f = n
    BY <1>1
  <2>5. dir \in [Names -> 0..Len(content)]
    BY DEF TypeOK
  <2>6. n \in 1..n /\ 0..Len(content) \subseteq 0..n /\ n # 0
    BY <1>1
  <2> HIDE DEF n
  <2>7. dir' \in [Names -> 0..n] /\ dir'[0] = n
    BY <1>1, <2>1, <2>5, <2>6
  <2>8. \A k \in Names : k # 0 => dir'[k] = dir[k]
    BY <2>1, <2>5
  <2>9. NamesOrdered'
    <3>1. ASSUME NEW k \in Names, NEW m \in Names, k > m, dir'[k] # 0, dir'[m] # 0
          PROVE  dir'[k] < dir'[m]
      <4>1. k # 0
        BY <3>1, FileAssumption DEF Names
      <4>2. dir'[k] = dir[k] /\ dir[k] \in 0..Len(content)
        BY <2>5, <2>8, <4>1
      <4>3. CASE m = 0
        BY <1>1, <2>7, <4>2, <4>3 DEF n
      <4>4. CASE m # 0
        BY <2>8, <3>1, <4>2, <4>4 DEF OrderInv, NamesOrdered
      <4> QED
        BY <4>3, <4>4
    <3> QED
      BY <2>3, <2>7, <3>1 DEF NamesOrdered
  <2> QED
    BY <1>1, <2>1, <2>3, <2>4, <2>6, <2>7, <2>9 DEF n
<1> QED
  BY <1>3, <1>4, <1>5

\* A new record comes after everything that was written.
LEMMA RecordIsLast ==
    ASSUME TypeOK, OrderInv, NEW i \in Ids, i = count + 1,
           count' = i, buffer' = buffer \o Record(i),
           content' \in Seq(Seq(Fragments)),
           \A f \in 1..Len(content) : content'[f] = content[f],
           \A f \in 1..Len(content') : f \notin 1..Len(content) => content'[f] = <<>>
    PROVE  FilesOrdered' /\ BufferLast' /\ buffer' \in Seq(Fragments)
<1> DEFINE r == Record(i)
           n == Len(buffer)
<1>1. /\ r \in Seq(Fragments) /\ Len(r) = 2
      /\ r[1].id = i /\ r[2].id = i /\ r[1].part = "head" /\ r[2].part = "tail"
  <2>1. /\ r \in Seq(Fragments) /\ Len(r) = 2
        /\ r[1] = [id |-> i, part |-> "head"] /\ r[2] = [id |-> i, part |-> "tail"]
    BY RecordProperties
  <2> HIDE DEF r
  <2> QED
    BY <2>1
<1>2. buffer \in Seq(Fragments) /\ n \in Nat /\ count \in Nat /\ i \in Nat
  BY FileAssumption, LenProperties DEF TypeOK, Ids
<1>3. FilesOrdered /\ BufferLast
  BY DEF OrderInv
<1> HIDE DEF r
<1>4. /\ buffer' \in Seq(Fragments)
      /\ Len(buffer') = n + 2
      /\ \A q \in 1..n : buffer'[q] = buffer[q]
      /\ buffer'[n + 1] = r[1] /\ buffer'[n + 2] = r[2]
  <2>1. buffer' = buffer \o r
    BY DEF r
  <2>2. /\ buffer \o r \in Seq(Fragments)
        /\ Len(buffer \o r) = n + Len(r)
        /\ \A q \in 1..(n + Len(r)) : (buffer \o r)[q] = IF q <= n THEN buffer[q] ELSE r[q - n]
    <3>1. buffer \in Seq(Fragments) /\ r \in Seq(Fragments)
      BY <1>1, <1>2
    <3> QED
      BY <3>1, ConcatProperties
  <2> HIDE DEF n
  <2>3. n + 1 \in 1..(n + 2) /\ n + 2 \in 1..(n + 2) /\ ~(n + 1 <= n) /\ ~(n + 2 <= n)
        /\ (n + 1) - n = 1 /\ (n + 2) - n = 2
    BY <1>2
  <2>4. \A q \in 1..n : q \in 1..(n + 2) /\ q <= n
    BY <1>2
  <2>5. Len(r) = 2
    BY <1>1
  <2>6. buffer' \in Seq(Fragments) /\ Len(buffer') = n + 2
    BY <2>1, <2>2, <2>5
  <2>7. \A q \in 1..(n + 2) : buffer'[q] = IF q <= n THEN buffer[q] ELSE r[q - n]
    BY <2>1, <2>2, <2>5
  <2>8. \A q \in 1..n : buffer'[q] = buffer[q]
    BY <2>4, <2>7
  <2>9. buffer'[n + 1] = r[(n + 1) - n] /\ buffer'[n + 2] = r[(n + 2) - n]
    BY <2>3, <2>7
  <2>10. buffer'[n + 1] = r[1] /\ buffer'[n + 2] = r[2]
    BY <2>3, <2>9
  <2> QED
    BY <2>6, <2>8, <2>10
<1>5. \A q \in 1..Len(buffer') : q \in 1..n \/ q = n + 1 \/ q = n + 2
  <2> HIDE DEF n
  <2> QED
    BY <1>2, <1>4
<1>6. \A f \in 1..Len(content') : \A p \in 1..Len(content'[f]) :
         f \in 1..Len(content) /\ content'[f] = content[f] /\ p \in 1..Len(content[f])
  <2> SUFFICES ASSUME NEW f \in 1..Len(content'), NEW p \in 1..Len(content'[f])
               PROVE  f \in 1..Len(content) /\ content'[f] = content[f]
                      /\ p \in 1..Len(content[f])
    OBVIOUS
  <2>1. CASE f \notin 1..Len(content)
    <3>1. Len(content'[f]) = 0
      BY <2>1, EmptySeq
    <3>2. 1..0 = {}
      OBVIOUS
    <3> QED
      BY <3>1, <3>2
  <2>2. CASE f \in 1..Len(content)
    BY <2>2
  <2> QED
    BY <2>1, <2>2
<1>7. FilesOrdered'
  BY <1>3, <1>6 DEF FilesOrdered
<1>8. \A q \in 1..n : buffer[q] \in Fragments /\ buffer[q].id \in Nat /\ buffer[q].id <= count
  <2> SUFFICES ASSUME NEW q \in 1..n
               PROVE  buffer[q] \in Fragments /\ buffer[q].id \in Nat /\ buffer[q].id <= count
    OBVIOUS
  <2>1. buffer[q] \in Fragments
    BY <1>2, ElementOfSeq
  <2>2. buffer[q].id <= count
    BY <1>3 DEF BufferLast
  <2> QED
    BY <2>1, <2>2 DEF Fragments, Ids
<1>9. \A f \in 1..Len(content) : \A p \in 1..Len(content[f]) :
         content[f][p].id \in Nat /\ content[f][p].id <= count
  <2> SUFFICES ASSUME NEW f \in 1..Len(content), NEW p \in 1..Len(content[f])
               PROVE  content[f][p].id \in Nat /\ content[f][p].id <= count
    OBVIOUS
  <2>1. content[f] \in Seq(Fragments)
    BY ElementOfSeq DEF TypeOK
  <2>2. content[f][p] \in Fragments
    BY <2>1, ElementOfSeq
  <2> QED
    BY <1>3, <2>2 DEF BufferLast, Fragments, Ids
<1> HIDE DEF n
<1>10. ASSUME NEW q \in 1..Len(buffer'), NEW p \in 1..Len(buffer'), p < q
       PROVE  WrittenBefore(buffer'[p], buffer'[q])
  <2>1. CASE q \in 1..n
    <3>1. p \in 1..n
      BY <1>2, <1>5, <1>10, <2>1
    <3> QED
      BY <1>3, <1>4, <1>10, <2>1, <3>1 DEF BufferLast, n
  <2>2. CASE q \notin 1..n /\ p \in 1..n
    <3>1. buffer'[q].id = i /\ buffer'[p].id \in Nat /\ buffer'[p].id <= count
      BY <1>1, <1>4, <1>5, <1>8, <2>2
    <3> QED
      BY SMTT(30), <1>2, <3>1 DEF WrittenBefore
  <2>3. CASE q \notin 1..n /\ p \notin 1..n
    <3>1. p = n + 1 /\ q = n + 2
      BY <1>2, <1>5, <1>10, <2>3
    <3> QED
      BY <1>1, <1>4, <3>1 DEF WrittenBefore
  <2> QED
    BY <2>1, <2>2, <2>3
<1>11. \A q \in 1..Len(buffer') : buffer'[q].id <= count'
  <2> SUFFICES ASSUME NEW q \in 1..Len(buffer') PROVE buffer'[q].id <= count'
    OBVIOUS
  <2>1. CASE q \in 1..n
    <3>1. buffer'[q] = buffer[q] /\ buffer[q].id \in Nat /\ buffer[q].id <= count
      BY <1>4, <1>8, <2>1
    <3> QED
      BY <1>2, <3>1
  <2>2. CASE q \notin 1..n
    <3>1. buffer'[q].id = i
      BY <1>1, <1>4, <1>5, <2>2
    <3> QED
      BY <1>2, <3>1
  <2> QED
    BY <2>1, <2>2
<1>12. ASSUME NEW f \in 1..Len(content'), NEW p \in 1..Len(content'[f])
       PROVE  /\ content'[f][p].id <= count'
              /\ \A q \in 1..Len(buffer') : WrittenBefore(content'[f][p], buffer'[q])
  <2> DEFINE a == content[f][p]
  <2>1. f \in 1..Len(content) /\ p \in 1..Len(content[f]) /\ content'[f][p] = a
    BY <1>6
  <2>2. a.id \in Nat /\ a.id <= count
    BY <1>9, <2>1
  <2>3. \A q \in 1..n : WrittenBefore(a, buffer[q])
    BY <1>3, <2>1 DEF BufferLast, n
  <2> HIDE DEF a
  <2>4. \A q \in 1..Len(buffer') : WrittenBefore(a, buffer'[q])
    <3> SUFFICES ASSUME NEW q \in 1..Len(buffer') PROVE WrittenBefore(a, buffer'[q])
      OBVIOUS
    <3>1. CASE q \in 1..n
      BY <1>4, <2>3, <3>1
    <3>2. CASE q \notin 1..n
      <4>1. buffer'[q].id = i
        BY <1>1, <1>4, <1>5, <3>2
      <4> QED
        BY SMTT(30), <1>2, <2>2, <4>1 DEF WrittenBefore
    <3> QED
      BY <3>1, <3>2
  <2>5. a.id <= count'
    BY <1>2, <2>2
  <2> QED
    BY <2>1, <2>4, <2>5
<1> QED
  BY <1>4, <1>7, <1>10, <1>11, <1>12 DEF BufferLast

LEMMA AppendRecordInv ==
    ASSUME Inv, NEW t \in Threads, AppendRecord(t)
    PROVE  Inv'
<1> DEFINE i == count + 1
           o == [pc |-> "flush", rec |-> i, from |-> 0]
           it == [iter[t] EXCEPT !.mixed = iter[t].pc = "yielded"]
<1>1. /\ Available(t) /\ handle # "dead" /\ count < MaxRecords
      /\ count' = i /\ OpenForAppend /\ buffer' = buffer \o Record(i)
      /\ op' = [op EXCEPT ![t] = o] /\ iter' = [iter EXCEPT ![t] = it]
      /\ UNCHANGED <<closed, acked, faults>>
  BY DEF AppendRecord, Enters, Mixes
<1>2. TypeOK /\ OrderInv
  BY DEF Inv
<1>3. i \in Ids /\ i \in 0..MaxRecords /\ i \in Nat
  BY SMTT(30), <1>1, <1>2, FileAssumption DEF TypeOK, Ids
<1>4. o \in Ops /\ o.pc = "flush" /\ o.rec = i
  BY <1>3 DEF Ops
<1>5. iter[t] \in Iterators /\ IterOK(iter[t])
  BY DEF Inv, TypeOK, ThreadOK
<1>6. /\ it \in Iterators /\ it.pc = iter[t].pc /\ it.left = iter[t].left
      /\ it.file = iter[t].file /\ it.pos = iter[t].pos
  BY <1>5 DEF Iterators
<1> HIDE DEF i, o, it
<1>7. /\ content' \in Seq(Seq(Fragments)) /\ dir' \in [Names -> 0..Len(content')]
      /\ dir'[0] # 0 /\ handle' = "open" /\ size' \in Nat
      /\ Len(content) <= Len(content')
      /\ \A f \in 1..Len(content) : content'[f] = content[f]
      /\ \A f \in 1..Len(content') : f \notin 1..Len(content) => content'[f] = <<>>
      /\ NamesOrdered'
  BY <1>1, <1>2, OpenForAppendKeeps
<1>8. FilesOrdered' /\ BufferLast' /\ buffer' \in Seq(Fragments)
  BY <1>1, <1>2, <1>3, <1>7, RecordIsLast DEF i
<1>9. TypeOK'
  <2>1. count' \in 0..MaxRecords
    BY <1>1, <1>3
  <2>2. op' \in [Threads -> Ops] /\ iter' \in [Threads -> Iterators]
    BY <1>1, <1>2, <1>4, <1>6 DEF TypeOK
  <2> QED
    BY <1>1, <1>2, <1>7, <1>8, <2>1, <2>2 DEF TypeOK
<1>10. op'[t] = o /\ iter'[t] = it
       /\ \A u \in Threads \ {t} : op'[u] = op[u] /\ iter'[u] = iter[u]
  BY <1>1, <1>2 DEF TypeOK
<1>11. IterOK(iter[t])'
  <2>1. content \in Seq(Seq(Fragments)) /\ iter[t].pos \in Nat
    BY <1>2, <1>5 DEF TypeOK, Iterators
  <2>2. \A f \in 1..Len(content) : Len(content[f]) <= Len(content'[f])
    <3> SUFFICES ASSUME NEW f \in 1..Len(content) PROVE Len(content[f]) <= Len(content'[f])
      OBVIOUS
    <3>1. Len(content[f]) \in Nat
      BY <2>1, ElementOfSeq, LenProperties
    <3> QED
      BY <1>7, <3>1
  <2> QED
    BY <1>5, <1>6, <1>7, <1>10, <2>1, <2>2, IteratorKept
<1>12. OpOK(op[t])'
  BY <1>3, <1>4, <1>7, <1>10 DEF OpOK
<1>13. Exclusive' /\ (\A u \in Threads : ThreadOK(u))'
  BY <1>1, <1>10, <1>11, <1>12, HolderStep DEF ThreadOK
<1> QED
  BY <1>7, <1>8, <1>9, <1>13 DEF Inv, OrderInv

\* The fragment that reaches the disk ends the newest file and was the first of
\* the buffer.
LEMMA WriteFragmentInv ==
    ASSUME Inv, NEW t \in Threads, WriteFragment(t)
    PROVE  Inv'
<1> DEFINE d == dir[0]
           c == content[d]
           n == Len(c)
           h == Head(buffer)
           b == Tail(buffer)
<1>1. /\ buffer # <<>> /\ content' = [content EXCEPT ![d] = Append(c, h)] /\ buffer' = b
      /\ UNCHANGED <<dir, handle, size, closed, op, iter, count, acked, faults>>
  BY DEF WriteFragment
<1>2. OpOK(op[t]) /\ Available(t) /\ iter[t] \in Iterators /\ IterOK(iter[t])
      /\ op[t].pc \in {"flush", "closing"}
  BY Running DEF WriteFragment, At
<1>3. content \in Seq(Seq(Fragments)) /\ buffer \in Seq(Fragments) /\ handle = "open"
      /\ Len(content) \in Nat /\ Len(buffer) \in Nat \ {0}
  BY <1>1, <1>2, EmptySeq, LenProperties DEF Inv, TypeOK
<1>4. d \in 1..Len(content) /\ d = Len(content)
  <2>1. d # 0 /\ 0 \in Names
    BY <1>3, FileAssumption DEF Inv, TypeOK, Names
  <2>2. d = Len(content)
    BY <2>1 DEF Inv, OrderInv, NamesOrdered
  <2> HIDE DEF d
  <2> QED
    BY <1>3, <2>1, <2>2
<1>5. c \in Seq(Fragments) /\ n \in Nat
  BY <1>3, <1>4, ElementOfSeq, LenProperties
<1>6. h \in Fragments /\ h = buffer[1] /\ b \in Seq(Fragments) /\ Len(b) = Len(buffer) - 1
      /\ \A q \in 1..Len(b) : b[q] = buffer[q + 1]
  BY <1>1, <1>3, HeadTailProperties
<1> HIDE DEF d, h, b
<1> DEFINE a == Append(c, h)
<1>7. /\ a \in Seq(Fragments) /\ Len(a) = n + 1
      /\ \A p \in 1..n : a[p] = c[p]
      /\ a[n + 1] = h
  BY <1>5, <1>6, AppendProperties
<1> HIDE DEF a
<1>8. /\ content' \in Seq(Seq(Fragments))
      /\ Len(content') = Len(content)
      /\ \A f \in 1..Len(content) : content'[f] = IF f = d THEN a ELSE content[f]
  <2>1. content' = [content EXCEPT ![d] = a]
    BY <1>1 DEF a
  <2> QED
    BY <1>3, <1>4, <1>7, <2>1, ExceptSeq
<1>9. ASSUME NEW f \in 1..Len(content'), NEW p \in 1..Len(content'[f])
      PROVE  /\ f \in 1..Len(content)
             /\ \/ p \in 1..Len(content[f]) /\ content'[f][p] = content[f][p]
                \/ f = d /\ p = n + 1 /\ content'[f][p] = h
  <2>1. CASE f = d
    <3>1. content'[f] = a /\ content[f] = c /\ p \in 1..(n + 1)
      BY <1>7, <1>8, <2>1
    <3>2. p \in 1..n \/ p = n + 1
      BY <1>5, <3>1
    <3> QED
      BY <1>7, <1>8, <2>1, <3>1, <3>2
  <2>2. CASE f # d
    BY <1>8, <2>2
  <2> QED
    BY <2>1, <2>2
<1>10. FilesOrdered /\ BufferLast
  BY DEF Inv, OrderInv
<1>11. 1 \in 1..Len(buffer) /\ \A q \in 1..Len(b) : q + 1 \in 1..Len(buffer) /\ 1 < q + 1
  BY <1>3, <1>6
<1>12. FilesOrdered'
  <2> SUFFICES ASSUME NEW f \in 1..Len(content'), NEW g \in 1..Len(content'),
                      NEW p \in 1..Len(content'[f]), NEW q \in 1..Len(content'[g]),
                      f < g \/ (f = g /\ p < q)
               PROVE  WrittenBefore(content'[f][p], content'[g][q])
    BY DEF FilesOrdered
  <2>1. CASE /\ p \in 1..Len(content[f]) /\ content'[f][p] = content[f][p]
             /\ q \in 1..Len(content[g]) /\ content'[g][q] = content[g][q]
    BY <1>9, <1>10, <2>1 DEF FilesOrdered
  <2>2. CASE /\ p \in 1..Len(content[f]) /\ content'[f][p] = content[f][p]
             /\ content'[g][q] = h
    BY <1>6, <1>9, <1>10, <1>11, <2>2 DEF BufferLast
  <2>3. CASE f = d /\ p = n + 1
    <3>1. ~(f < g)
      BY <1>3, <1>4, <1>8, <2>3
    <3>2. f = g
      BY <3>1
    <3>3. q \in 1..(n + 1)
      BY <1>7, <1>8, <1>9, <2>3, <3>2
    <3>4. ~(p < q)
      BY <1>5, <2>3, <3>3
    <3> QED
      BY <3>1, <3>4
  <2> QED
    BY <1>9, <2>1, <2>2, <2>3
<1>13. BufferLast'
  <2>1. \A q \in 1..Len(b) :
           /\ b[q].id <= count
           /\ \A p \in 1..Len(b) : p < q => WrittenBefore(b[p], b[q])
    <3> SUFFICES ASSUME NEW q \in 1..Len(b)
                 PROVE  /\ b[q].id <= count
                        /\ \A p \in 1..Len(b) : p < q => WrittenBefore(b[p], b[q])
      OBVIOUS
    <3>1. b[q].id <= count
      BY <1>6, <1>10, <1>11 DEF BufferLast
    <3>2. ASSUME NEW p \in 1..Len(b), p < q PROVE WrittenBefore(b[p], b[q])
      <4>1. p + 1 < q + 1
        BY <3>2
      <4> QED
        BY <1>6, <1>10, <1>11, <4>1 DEF BufferLast
    <3> QED
      BY <3>1, <3>2
  <2>2. ASSUME NEW f \in 1..Len(content'), NEW p \in 1..Len(content'[f])
        PROVE  /\ content'[f][p].id <= count
               /\ \A q \in 1..Len(b) : WrittenBefore(content'[f][p], b[q])
    <3>1. CASE p \in 1..Len(content[f]) /\ content'[f][p] = content[f][p]
      BY <1>6, <1>9, <1>10, <1>11, <3>1 DEF BufferLast
    <3>2. CASE content'[f][p] = h
      BY <1>6, <1>10, <1>11, <3>2 DEF BufferLast
    <3> QED
      BY <1>9, <2>2, <3>1, <3>2
  <2> QED
    BY <1>1, <2>1, <2>2 DEF BufferLast
<1>14. TypeOK'
  <2>1. dir' \in [Names -> 0..Len(content')]
    BY <1>1, <1>8 DEF Inv, TypeOK
  <2> QED
    BY <1>1, <1>3, <1>6, <1>8, <2>1 DEF Inv, TypeOK
<1>15. NamesOrdered'
  BY <1>1, <1>8 DEF Inv, OrderInv, NamesOrdered
<1>16. IterOK(iter[t])'
  <2>1. \A f \in 1..Len(content) : Len(content[f]) <= Len(content'[f])
    <3> SUFFICES ASSUME NEW f \in 1..Len(content) PROVE Len(content[f]) <= Len(content'[f])
      OBVIOUS
    <3>1. Len(content[f]) \in Nat
      BY <1>3, ElementOfSeq, LenProperties
    <3>2. CASE f = d
      BY <1>5, <1>7, <1>8, <3>2
    <3>3. CASE f # d
      BY <1>8, <3>1, <3>3
    <3> QED
      BY <3>2, <3>3
  <2>2. iter[t].pos \in Nat /\ Len(content) <= Len(content')
    BY <1>2, <1>3, <1>8 DEF Iterators
  <2> QED
    BY <1>1, <1>2, <1>3, <1>8, <2>1, <2>2, IteratorKept
<1>17. OpOK(op[t])'
  BY <1>1, <1>2 DEF OpOK
<1>18. Exclusive' /\ (\A u \in Threads : ThreadOK(u))'
  BY <1>1, <1>2, <1>16, <1>17, HolderStep DEF ThreadOK
<1> QED
  BY <1>12, <1>13, <1>14, <1>15, <1>18 DEF Inv, OrderInv

-----------------------------------------------------------------------------
(* Close, crash and restart.                                               *)

LEMMA CloseInv ==
    ASSUME Inv, NEW t \in Threads, Close(t)
    PROVE  Inv'
<1> DEFINE it == [iter[t] EXCEPT !.mixed = iter[t].pc = "yielded"]
           o == [op[t] EXCEPT !.pc = "closing"]
<1>1. /\ Available(t) /\ op[t].pc = "idle" /\ closed' = TRUE /\ iter' = [iter EXCEPT ![t] = it]
      /\ UNCHANGED <<disk, buffer, size, count, acked, faults>>
  BY DEF Close, Enters, InApp, Mixes
<1>2. iter[t] \in Iterators /\ IterOK(iter[t]) /\ op[t] \in Ops
  BY DEF Inv, TypeOK, ThreadOK
<1>3. /\ it \in Iterators /\ it.pc = iter[t].pc /\ it.left = iter[t].left
      /\ it.file = iter[t].file /\ it.pos = iter[t].pos
  BY <1>2 DEF Iterators
<1>4. o \in Ops /\ o.pc = "closing"
  BY <1>2 DEF Ops
<1>5. \/ handle = "open" /\ handle' = "open" /\ op' = [op EXCEPT ![t] = o]
      \/ handle # "open" /\ handle' = "none" /\ op' = op
  BY DEF Close, Goes
<1> HIDE DEF it, o
<1>6. iter'[t] = it /\ \A u \in Threads \ {t} : op'[u] = op[u] /\ iter'[u] = iter[u]
  BY <1>1, <1>5 DEF Inv, TypeOK
<1>7. OpOK(op[t])'
  <2>1. CASE handle = "open"
    <3>1. op'[t] = o /\ handle' = "open"
      BY <1>5, <2>1 DEF Inv, TypeOK
    <3> QED
      BY <1>4, <3>1 DEF OpOK
  <2>2. CASE handle # "open"
    <3>1. op'[t].pc = "idle"
      BY <1>1, <1>5, <2>2
    <3> QED
      BY <3>1 DEF OpOK
  <2> QED
    BY <2>1, <2>2
<1>8. IterOK(iter[t])'
  BY <1>1, <1>2, <1>3, <1>6 DEF IterOK, disk
<1>9. Exclusive' /\ (\A u \in Threads : ThreadOK(u))'
  BY <1>1, <1>6, <1>7, <1>8, HolderStep DEF ThreadOK
<1>10. OrderInv'
  BY <1>1, OrderUnchanged DEF Inv, disk
<1>11. TypeOK'
  <2>1. op' \in [Threads -> Ops] /\ iter' \in [Threads -> Iterators]
    BY <1>1, <1>3, <1>4, <1>5 DEF Inv, TypeOK
  <2> QED
    BY <1>1, <1>5, <2>1 DEF Inv, TypeOK, disk
<1> QED
  BY <1>9, <1>10, <1>11 DEF Inv

LEMMA CloseEndsInv ==
    ASSUME Inv, NEW t \in Threads, CloseEnds(t)
    PROVE  Inv'
<1>1. /\ op[t].pc # "idle" /\ buffer' = <<>> /\ handle' = "none" /\ Leaves(t)
      /\ UNCHANGED <<disk, size, closed, iter, count, acked>>
  BY DEF CloseEnds, At
<1>2. faults' \in 0..MaxFaults
  BY FaultBounded DEF CloseEnds, Inv
<1>3. buffer' \in Seq(Fragments)
  BY <1>1, EmptySeq
<1>4. TypeOK'
  BY <1>1, <1>2, <1>3, IdleOK DEF Inv, TypeOK, Leaves, disk
<1>5. OrderInv'
  <2>1. NamesOrdered'
    BY <1>1 DEF Inv, OrderInv, NamesOrdered, disk
  <2> QED
    BY <1>1, <2>1, NothingWritten DEF Inv, disk
<1> QED
  BY <1>1, <1>4, <1>5, LeavesInv DEF disk

LEMMA FreshInv ==
    ASSUME Inv, Fresh, Fault \/ UNCHANGED faults
    PROVE  Inv'
<1>1. /\ handle' = "none" /\ buffer' = <<>> /\ size' = 0 /\ closed' = FALSE
      /\ op' = [t \in Threads |-> Idle] /\ iter' = [t \in Threads |-> NoIterator]
      /\ UNCHANGED <<content, dir, count, acked>>
  BY DEF Fresh, disk
<1>2. faults' \in 0..MaxFaults
  BY FaultBounded DEF Inv
<1>3. buffer' \in Seq(Fragments)
  BY <1>1, EmptySeq
<1>4. TypeOK'
  BY <1>1, <1>2, <1>3, IdleOK, NoIteratorOK DEF Inv, TypeOK
<1>5. OrderInv'
  <2>1. NamesOrdered'
    BY <1>1 DEF Inv, OrderInv, NamesOrdered
  <2> QED
    BY <1>1, <2>1, NothingWritten DEF Inv
<1>6. \A t \in Threads : op'[t].pc = "idle" /\ iter'[t].pc = "none"
  BY <1>1 DEF Idle, NoIterator
<1>7. Exclusive' /\ (\A t \in Threads : ThreadOK(t))'
  BY <1>6 DEF Exclusive, ThreadOK, OpOK, IterOK
<1> QED
  BY <1>4, <1>5, <1>7 DEF Inv

-----------------------------------------------------------------------------
(* The inductive invariant.                                                *)

LEMMA InitInv == Init => Inv
<1> SUFFICES ASSUME Init PROVE Inv
  OBVIOUS
<1>1. <<>> \in Seq(Seq(Fragments)) /\ <<>> \in Seq(Fragments) /\ Len(<<>>) = 0 /\ 1..0 = {}
  BY EmptySeq
<1>2. 0 \in 0..MaxRecords /\ 0 \in 0..MaxFaults /\ 0 \in Names /\ 0 \in 0..0
  BY FileAssumption DEF Names
<1>3. dir \in [Names -> 0..Len(content)] /\ \A k \in Names : dir[k] = 0
  BY <1>1, <1>2 DEF Init
<1>4. TypeOK
  BY <1>1, <1>2, <1>3, IdleOK, NoIteratorOK DEF Init, TypeOK
<1>5. OrderInv
  BY <1>1, <1>2, <1>3 DEF Init, OrderInv, FilesOrdered, BufferLast, NamesOrdered
<1>6. \A t \in Threads : op[t].pc = "idle" /\ iter[t].pc = "none"
  BY DEF Init, Idle, NoIterator
<1>7. Exclusive /\ \A t \in Threads : ThreadOK(t)
  BY <1>6 DEF Exclusive, ThreadOK, OpOK, IterOK
<1> QED
  BY <1>4, <1>5, <1>7 DEF Inv

LEMMA InvStep == Inv /\ [Next]_vars => Inv'
<1> SUFFICES ASSUME Inv, [Next]_vars PROVE Inv'
  OBVIOUS
<1>1. ASSUME NEW t \in Threads, StoreStep(t) PROVE Inv'
  BY <1>1, WriteFragmentInv, FlushedInv, CloseActiveInv, UnlinkInv, RenameInv,
     OpenNextInv, ReadLineInv, IterationInv, CloseEndsInv DEF StoreStep
<1>2. ASSUME NEW t \in Threads, StepFails(t) PROVE Inv'
  BY <1>2, FlushFailsInv, CloseActiveInv, IterationInv DEF StepFails
<1>3. ASSUME NEW t \in Threads, Consume(t) PROVE Inv'
  BY <1>3, IterationInv DEF Consume
<1>4. ASSUME NEW t \in Threads, Call(t) PROVE Inv'
  BY <1>4, AppendRecordInv, StartReplayInv, CloseInv DEF Call
<1>5. CASE Reopen \/ Crash
  BY <1>5, FreshInv DEF Reopen, Crash
<1>6. CASE UNCHANGED vars
  <2>1. UNCHANGED <<content, dir, handle, buffer, size, closed, op, iter, count, acked, faults>>
    BY <1>6 DEF vars, disk, store
  <2>2. TypeOK'
    BY <2>1 DEF Inv, TypeOK
  <2>3. Exclusive' /\ (\A t \in Threads : ThreadOK(t))'
    BY <2>1 DEF Inv, Exclusive, ThreadOK, OpOK, IterOK
  <2> QED
    BY <2>1, <2>2, <2>3, OrderUnchanged DEF Inv
<1> QED
  BY <1>1, <1>2, <1>3, <1>4, <1>5, <1>6 DEF Next

\* The inductive invariant of the file store: types, the lock, what each call has
\* reached, and the order of whatever was written (FilePersistence).
THEOREM InvHolds == Spec => []Inv
  BY InitInv, InvStep, PTL DEF Spec

-----------------------------------------------------------------------------
(* Theorems.                                                               *)

\* The store's variables keep their types; an open file has a name, and only an
\* open file has a buffer, through every fault and crash (FilePersistence).
THEOREM TypeCorrect == Spec => []TypeOK
<1>1. Inv => TypeOK
  BY DEF Inv
<1> QED
  BY <1>1, InvHolds, PTL

\* The append, close or replay of one thread excludes those of all the others
\* (FilePersistence._lock).
THEOREM LockIsExclusive == Spec => []Exclusive
<1>1. Inv => Exclusive
  BY DEF Inv
<1> QED
  BY <1>1, InvHolds, PTL

\* The files, from the oldest backup to the active one, hold what was written in
\* the order of writing and none of it twice, wherever a rotation is
\* interrupted, whatever write fails and whenever the process dies, for any
\* number of backups (FilePersistence._rotate).
THEOREM OrderIsKept == Spec => []OrderKept
<1>1. Inv => OrderKept
  <2> SUFFICES ASSUME Inv, NEW k \in Names, NEW m \in Names,
                      NEW p \in DOMAIN FileOf(k), NEW q \in DOMAIN FileOf(m),
                      k > m \/ (k = m /\ p < q)
               PROVE  WrittenBefore(FileOf(k)[p], FileOf(m)[q])
    BY DEF OrderKept
  <2>1. Len(content) \in Nat /\ content \in Seq(Seq(Fragments))
    BY LenProperties DEF Inv, TypeOK
  <2>2. ASSUME NEW j \in Names, NEW x \in DOMAIN FileOf(j)
        PROVE  /\ dir[j] \in 1..Len(content) /\ dir[j] # 0
               /\ FileOf(j) = content[dir[j]]
               /\ x \in 1..Len(content[dir[j]])
    <3>1. dir[j] # 0
      <4>1. DOMAIN <<>> = {}
        OBVIOUS
      <4> QED
        BY <2>2, <4>1 DEF FileOf
    <3>2. dir[j] \in 0..Len(content)
      BY DEF Inv, TypeOK
    <3>3. dir[j] \in 1..Len(content)
      BY <2>1, <3>1, <3>2
    <3>4. FileOf(j) = content[dir[j]]
      BY <3>1 DEF FileOf
    <3>5. content[dir[j]] \in Seq(Fragments)
      BY <2>1, <3>3, ElementOfSeq
    <3> QED
      BY <2>2, <3>1, <3>3, <3>4, <3>5, LenProperties
  <2>3. /\ dir[k] \in 1..Len(content) /\ dir[k] # 0 /\ FileOf(k) = content[dir[k]]
        /\ p \in 1..Len(content[dir[k]])
    BY <2>2
  <2>4. /\ dir[m] \in 1..Len(content) /\ dir[m] # 0 /\ FileOf(m) = content[dir[m]]
        /\ q \in 1..Len(content[dir[m]])
    BY <2>2
  <2>5. dir[k] < dir[m] \/ (dir[k] = dir[m] /\ p < q)
    BY <2>3, <2>4 DEF Inv, OrderInv, NamesOrdered
  <2> QED
    BY <2>3, <2>4, <2>5 DEF Inv, OrderInv, FilesOrdered
<1> QED
  BY <1>1, InvHolds, PTL

-----------------------------------------------------------------------------
(* What the files hold.                                                    *)

Files == 1..Len(content)
HeadOf(i) == [id |-> i, part |-> "head"]
TailOf(i) == [id |-> i, part |-> "tail"]
Has(f, x) == \E p \in 1..Len(content[f]) : content[f][p] = x

\* A tail follows its head, on the disk and on its way there, and a head that is
\* buffered has its tail behind it.
Paired ==
    /\ \A f \in Files : \A p \in 1..Len(content[f]) :
          content[f][p].part = "tail" => p > 1 /\ content[f][p - 1] = HeadOf(content[f][p].id)
    /\ \A q \in 1..Len(buffer) :
          /\ buffer[q].part = "tail" /\ q > 1 => buffer[q - 1] = HeadOf(buffer[q].id)
          /\ buffer[q].part = "tail" /\ q = 1 =>
                Len(Active) > 0 /\ Active[Len(Active)] = HeadOf(buffer[q].id)
          /\ buffer[q].part = "head" => q < Len(buffer) /\ buffer[q + 1] = TailOf(buffer[q].id)

\* The tail of the head at position p of file f comes next, or would come next.
Completed(f, p) ==
    \/ p < Len(content[f]) /\ content[f][p + 1] = TailOf(content[f][p].id)
    \/ /\ p = Len(content[f]) /\ f = dir[0]
       /\ buffer # <<>> /\ buffer[1] = TailOf(content[f][p].id)

\* A record is torn for good only by a fault.
Torn == { i \in Ids : \E f \in Files : \E p \in 1..Len(content[f]) :
                        content[f][p] = HeadOf(i) /\ ~Completed(f, p) }
TornBounded == Cardinality(Torn) <= faults

AckedWritten == \A i \in acked : \E f \in Files : Has(f, TailOf(i))

Kept(f) == \E k \in Names : dir[k] = f
HasRecord(f) == \E i \in Ids : Has(f, TailOf(i))

\* What was dropped is older than all that is kept, of which some is a whole record.
OldestDropped ==
    \A f \in Files : ~Kept(f) =>
        /\ \A k \in Names : dir[k] # 0 => f < dir[k]
        /\ \E k \in Names : dir[k] # 0 /\ HasRecord(dir[k])

\* Names below m without a file.  A rotation that goes on, or has just ended, leaves one
\* of them, and a fault may leave it for good.
Gaps(m) == { k \in Names : k < m /\ dir[k] = 0 }
Slack == IF dir[0] = 0 \/ (\E t \in Threads : op[t].pc = "rename") THEN 1 ELSE 0

GapsBounded ==
    /\ \A m \in Names : dir[m] # 0 => Cardinality(Gaps(m)) <= faults + Slack
    /\ (\E f \in Files : ~Kept(f)) => Cardinality(Gaps(BackupCount + 1)) <= faults + Slack
    /\ \A t \in Threads : op[t].pc = "rename" =>
          \A m \in Names : m <= op[t].from /\ dir[m] # 0 => Cardinality(Gaps(m)) <= faults

\* The record of an append is on its way to the active file until it is whole there, and
\* is acknowledged afterwards; a rename finds its target free.
RecOK(t) ==
    /\ op[t].pc \in {"flush", "close", "unlink", "rename"} => dir[0] # 0 /\ op[t].rec \notin acked
    /\ op[t].pc = "flush" => IF buffer = <<>> THEN Has(dir[0], TailOf(op[t].rec))
                             ELSE buffer[Len(buffer)] = TailOf(op[t].rec)
    /\ op[t].pc \in {"close", "unlink", "rename"} => Has(dir[0], TailOf(op[t].rec))
    /\ op[t].pc = "rename" => dir[op[t].from + 1] = 0

\* What an iterator yielded is behind it, in order; the names it has still to open have
\* newer files.
Ahead(it, k) == k < it.left - 1 \/ (k = it.left - 1 /\ it.pc = "open")
ReplayOK(it) ==
    /\ it.file \in 0..Len(content)
    /\ \A k \in Names : dir[k] # 0 /\ Ahead(it, k) => it.file < dir[k]
    /\ \A n \in 1..Len(it.out) : \E f \in Files : \E p \in 1..Len(content[f]) :
          (f < it.file \/ (f = it.file /\ p <= it.pos)) /\ content[f][p] = TailOf(it.out[n])
    /\ \A m, n \in 1..Len(it.out) : m < n => it.out[m] < it.out[n]

ClosedOK == closed /\ handle = "open" => \E t \in Threads : op[t].pc = "closing"

DataInv ==
    /\ Paired /\ TornBounded /\ AckedWritten /\ OldestDropped /\ GapsBounded /\ ClosedOK
    /\ \A t \in Threads : RecOK(t) /\ ReplayOK(iter[t])

-----------------------------------------------------------------------------
(* Fragments, one by one.                                                  *)

LEMMA FragmentForms ==
    /\ \A x \in Fragments :
          /\ x.id \in Ids /\ x.id \in Nat
          /\ \/ x.part = "head" /\ x = HeadOf(x.id)
             \/ x.part = "tail" /\ x = TailOf(x.id)
    /\ \A i \in Ids : /\ HeadOf(i) \in Fragments /\ HeadOf(i).id = i /\ HeadOf(i).part = "head"
                      /\ TailOf(i) \in Fragments /\ TailOf(i).id = i /\ TailOf(i).part = "tail"
BY DEF Fragments, HeadOf, TailOf, Ids

LEMMA Fragmentwise ==
    ASSUME TypeOK
    PROVE  /\ Len(content) \in Nat
           /\ \A f \in Files :
                 /\ Len(content[f]) \in Nat
                 /\ \A p \in 1..Len(content[f]) : content[f][p] \in Fragments
           /\ Len(buffer) \in Nat
           /\ (buffer = <<>>) <=> (Len(buffer) = 0)
           /\ \A q \in 1..Len(buffer) : buffer[q] \in Fragments
           /\ \A k \in Names : dir[k] \in 0..Len(content)
           /\ 0 \in Names
           /\ faults \in Nat
<1>1. content \in Seq(Seq(Fragments)) /\ buffer \in Seq(Fragments)
  BY DEF TypeOK
<1>2. ASSUME NEW f \in Files
      PROVE  /\ Len(content[f]) \in Nat
             /\ \A p \in 1..Len(content[f]) : content[f][p] \in Fragments
  <2>1. content[f] \in Seq(Fragments)
    BY <1>1, ElementOfSeq DEF Files
  <2> QED
    BY <2>1, ElementOfSeq, LenProperties
<1>3. Len(content) \in Nat /\ Len(buffer) \in Nat /\ ((buffer = <<>>) <=> (Len(buffer) = 0))
  BY <1>1, LenProperties, EmptySeq
<1>4. \A q \in 1..Len(buffer) : buffer[q] \in Fragments
  BY <1>1, ElementOfSeq
<1> QED
  BY <1>2, <1>3, <1>4, FileAssumption DEF TypeOK, Names

-----------------------------------------------------------------------------
(* What each action does to the files, the directory, the buffer, the calls *)
(* and the acknowledgements.                                               *)

DiskSame == content' = content /\ dir' = dir
OthersStay(t) == \A u \in Threads \ {t} : op'[u] = op[u]
ItersStay ==
    \A u \in Threads :
        /\ iter'[u].pc = iter[u].pc /\ iter'[u].left = iter[u].left
        /\ iter'[u].file = iter[u].file /\ iter'[u].pos = iter[u].pos
        /\ iter'[u].out = iter[u].out

NewFile ==
    /\ dir[0] = 0 /\ buffer = <<>>
    /\ Len(content') = Len(content) + 1
    /\ \A f \in Files : content'[f] = content[f]
    /\ Len(content'[Len(content) + 1]) = 0
    /\ dir'[0] = Len(content) + 1
    /\ \A k \in Names : k # 0 => dir'[k] = dir[k]

AppendEffect(t) ==
    /\ DiskSame \/ NewFile
    /\ dir'[0] # 0
    /\ count + 1 \in Ids
    /\ Len(buffer') = Len(buffer) + 2
    /\ \A q \in 1..Len(buffer) : buffer'[q] = buffer[q]
    /\ buffer'[Len(buffer) + 1] = HeadOf(count + 1)
    /\ buffer'[Len(buffer) + 2] = TailOf(count + 1)
    /\ \A u \in Threads : op[u].pc = "idle"
    /\ op'[t].pc = "flush" /\ op'[t].rec = count + 1 /\ OthersStay(t)
    /\ ItersStay /\ acked' = acked /\ faults' = faults
    /\ closed' = FALSE

Longer ==
    /\ Len(content') = Len(content)
    /\ \A f \in Files : f # dir[0] => content'[f] = content[f]
    /\ Len(content'[dir[0]]) = Len(content[dir[0]]) + 1
    /\ \A p \in 1..Len(content[dir[0]]) : content'[dir[0]][p] = content[dir[0]][p]
    /\ content'[dir[0]][Len(content[dir[0]]) + 1] = buffer[1]

WriteEffect ==
    /\ buffer # <<>> /\ dir[0] \in Files /\ dir' = dir
    /\ Longer
    /\ Len(buffer') = Len(buffer) - 1
    /\ \A q \in 1..Len(buffer') : buffer'[q] = buffer[q + 1]
    /\ op' = op /\ ItersStay /\ acked' = acked /\ faults' = faults
    /\ closed' = closed /\ handle' = handle

\* A call that fails, except at its end.
FailEffect(t) ==
    /\ DiskSame /\ buffer' = buffer
    /\ op[t].pc \in {"flush", "close", "unlink", "rename"}
    /\ op'[t].pc = "idle" /\ OthersStay(t)
    /\ ItersStay /\ acked' = acked /\ faults' = faults + 1
    /\ closed' = closed /\ handle' \in {handle, "dead"}

FlushedEffect(t) ==
    /\ DiskSame /\ buffer = <<>> /\ buffer' = buffer
    /\ op[t].pc = "flush" /\ OthersStay(t)
    /\ \/ op'[t].pc = "close" /\ op'[t].rec = op[t].rec /\ acked' = acked
       \/ op'[t].pc = "idle" /\ acked' = acked \union {op[t].rec}
    /\ ItersStay /\ faults' = faults
    /\ closed' = closed /\ handle' = handle

CloseActiveEffect(t) ==
    /\ DiskSame /\ buffer = <<>> /\ buffer' = buffer
    /\ op[t].pc = "close" /\ op'[t].pc = "unlink" /\ op'[t].rec = op[t].rec /\ OthersStay(t)
    /\ ItersStay /\ acked' = acked /\ faults' = faults
    /\ closed' = closed /\ handle' = "none"

UnlinkEffect(t) ==
    /\ content' = content /\ buffer = <<>> /\ buffer' = buffer
    /\ \A j \in Names : dir'[j] = IF j = BackupCount THEN 0 ELSE dir[j]
    /\ op[t].pc = "unlink" /\ op'[t].pc = "rename" /\ op'[t].rec = op[t].rec
    /\ op'[t].from = BackupCount - 1 /\ OthersStay(t)
    /\ ItersStay /\ acked' = acked /\ faults' = faults
    /\ closed' = closed /\ handle' = handle

\* The target of a rename is free.
RenameEffect(t) ==
    /\ content' = content /\ buffer = <<>> /\ buffer' = buffer
    /\ op[t].pc = "rename" /\ op[t].from \in 0..(BackupCount - 1)
    /\ \A j \in Names :
          dir'[j] = IF j = op[t].from THEN 0
                    ELSE IF j = op[t].from + 1 THEN dir[op[t].from] ELSE dir[j]
    /\ \/ /\ op[t].from > 0
          /\ op'[t].pc = "rename" /\ op'[t].rec = op[t].rec /\ op'[t].from = op[t].from - 1
          /\ acked' = acked
       \/ op[t].from = 0 /\ op'[t].pc = "idle" /\ acked' = acked \union {op[t].rec}
    /\ OthersStay(t)
    /\ ItersStay /\ faults' = faults
    /\ closed' = closed /\ handle' = handle

CloseEffect(t) ==
    /\ DiskSame /\ buffer' = buffer
    /\ op[t].pc = "idle"
    /\ \/ op' = op /\ handle' = "none"
       \/ op'[t].pc = "closing" /\ OthersStay(t)
    /\ ItersStay /\ acked' = acked /\ faults' = faults

\* What is in the buffer is lost by a fault.
Loses ==
    /\ buffer' = <<>>
    /\ \/ buffer = <<>> /\ faults' \in {faults, faults + 1}
       \/ faults' = faults + 1

CloseEndsEffect(t) ==
    /\ DiskSame /\ Loses
    /\ op[t].pc = "closing" /\ op'[t].pc = "idle" /\ OthersStay(t)
    /\ ItersStay /\ acked' = acked
    /\ handle' = "none"

\* A new process or a new store.
FreshEffect ==
    /\ DiskSame /\ Loses
    /\ \A u \in Threads : op'[u].pc = "idle" /\ iter'[u] = NoIterator
    /\ \/ faults' = faults + 1
       \/ faults' = faults /\ \A u \in Threads : op[u].pc = "idle"
    /\ acked' = acked
    /\ handle' = "none"

\* A step of an iterator.
IterEffect(t) ==
    /\ DiskSame /\ buffer' = buffer
    /\ op' = op /\ acked' = acked /\ faults' \in {faults, faults + 1}
    /\ \A u \in Threads \ {t} : iter'[u] = iter[u]
    /\ closed' = closed /\ handle' = handle

IterStep(t) ==
    \/ OpenNext(t) \/ ReadLine(t) \/ EndOfFile(t) \/ Exhausted(t) \/ ReadFails(t)
    \/ Consume(t)
    \/ \E s \in Starts, b \in Batches : StartReplay(t, s, b)

NothingEffect == UNCHANGED <<content, dir, handle, buffer, closed, op, iter, acked, faults>>

CallEffect(t) ==
    \/ AppendEffect(t) \/ WriteEffect \/ FailEffect(t) \/ FlushedEffect(t)
    \/ CloseActiveEffect(t) \/ UnlinkEffect(t) \/ RenameEffect(t)
    \/ CloseEffect(t) \/ CloseEndsEffect(t)

Effects ==
    \/ \E t \in Threads : CallEffect(t) \/ (IterStep(t) /\ IterEffect(t))
    \/ FreshEffect
    \/ NothingEffect

LEMMA MixesStays ==
    ASSUME TypeOK, NEW t \in Threads, Mixes(t)
    PROVE  ItersStay
<1>1. iter \in [Threads -> Iterators]
  BY DEF TypeOK
<1>2. iter' = [iter EXCEPT ![t].mixed = iter[t].pc = "yielded"]
  BY DEF Mixes
<1>3. \A u \in Threads \ {t} : iter'[u] = iter[u]
  BY <1>1, <1>2
<1>4. iter[t] \in Iterators /\ iter'[t] = [iter[t] EXCEPT !.mixed = iter[t].pc = "yielded"]
  BY <1>1, <1>2
<1>5. /\ iter'[t].pc = iter[t].pc /\ iter'[t].left = iter[t].left
      /\ iter'[t].file = iter[t].file /\ iter'[t].pos = iter[t].pos
      /\ iter'[t].out = iter[t].out
  BY <1>4 DEF Iterators
<1> QED
  BY <1>3, <1>5 DEF ItersStay

LEMMA AppendIsEffect ==
    ASSUME Inv, NEW t \in Threads, AppendRecord(t)
    PROVE  AppendEffect(t)
<1> DEFINE i == count + 1
           n == Len(buffer)
           r == Record(i)
<1>1. /\ Enters(t) /\ handle # "dead" /\ count < MaxRecords
      /\ OpenForAppend /\ buffer' = buffer \o r
      /\ op' = [op EXCEPT ![t] = [pc |-> "flush", rec |-> i, from |-> 0]]
      /\ Mixes(t) /\ UNCHANGED <<closed, acked, faults>>
  BY DEF AppendRecord
<1>2. TypeOK /\ OrderInv
  BY DEF Inv
<1>3. i \in Ids
  BY SMTT(30), <1>1, <1>2, FileAssumption DEF TypeOK, Ids
<1>4. \A u \in Threads : op[u].pc = "idle"
  BY <1>1 DEF Enters, InApp, Available
<1>5. op'[t].pc = "flush" /\ op'[t].rec = i /\ OthersStay(t)
  BY <1>1, <1>2 DEF TypeOK, OthersStay
<1>6. ItersStay
  BY <1>1, <1>2, MixesStays
<1>7. Len(content) \in Nat /\ 0 \in Names /\ content \in Seq(Seq(Fragments))
      /\ dir \in [Names -> 0..Len(content)]
  BY <1>2, Fragmentwise DEF TypeOK
<1>8. dir'[0] # 0
  BY <1>1, <1>2, OpenForAppendKeeps
<1>9. DiskSame \/ NewFile
  <2>1. CASE UNCHANGED <<content, dir>>
    BY <2>1 DEF DiskSame
  <2>2. CASE /\ handle # "open" /\ dir[0] = 0
             /\ content' = Append(content, <<>>) /\ dir' = [dir EXCEPT ![0] = Len(content) + 1]
    <3>1. buffer = <<>>
      BY <1>2, <2>2 DEF TypeOK
    <3>2. <<>> \in Seq(Fragments) /\ Len(<<>>) = 0
      BY EmptySeq
    <3>3. /\ Len(content') = Len(content) + 1
          /\ \A f \in 1..Len(content) : content'[f] = content[f]
          /\ content'[Len(content) + 1] = <<>>
      BY <1>7, <2>2, <3>2, AppendProperties
    <3>4. dir'[0] = Len(content) + 1 /\ \A k \in Names : k # 0 => dir'[k] = dir[k]
      BY <1>7, <2>2
    <3> QED
      BY <2>2, <3>1, <3>2, <3>3, <3>4 DEF NewFile, Files
  <2> QED
    BY <1>1, <2>1, <2>2 DEF OpenForAppend, ContinueFile, disk
<1>10. buffer \in Seq(Fragments) /\ n \in Nat
  BY <1>2, Fragmentwise DEF TypeOK
<1>11. r \in Seq(Fragments) /\ Len(r) = 2 /\ r[1] = HeadOf(i) /\ r[2] = TailOf(i)
  BY <1>3, RecordProperties DEF HeadOf, TailOf
<1> HIDE DEF r, n
<1>12. /\ Len(buffer') = n + 2
       /\ \A q \in 1..n : buffer'[q] = buffer[q]
       /\ buffer'[n + 1] = r[1] /\ buffer'[n + 2] = r[2]
  <2>1. /\ Len(buffer \o r) = n + Len(r)
        /\ \A q \in 1..(n + Len(r)) : (buffer \o r)[q] = IF q <= n THEN buffer[q] ELSE r[q - n]
    BY <1>10, <1>11, ConcatProperties DEF n
  <2>2. /\ Len(buffer') = n + 2
        /\ \A q \in 1..(n + 2) : buffer'[q] = IF q <= n THEN buffer[q] ELSE r[q - n]
    BY <1>1, <1>11, <2>1
  <2>3. /\ n + 1 \in 1..(n + 2) /\ n + 2 \in 1..(n + 2) /\ ~(n + 1 <= n) /\ ~(n + 2 <= n)
        /\ (n + 1) - n = 1 /\ (n + 2) - n = 2
        /\ \A q \in 1..n : q \in 1..(n + 2) /\ q <= n
    BY <1>10
  <2>4. \A q \in 1..n : buffer'[q] = buffer[q]
    BY <2>2, <2>3
  <2>5. buffer'[n + 1] = r[(n + 1) - n] /\ buffer'[n + 2] = r[(n + 2) - n]
    BY <2>2, <2>3
  <2>6. buffer'[n + 1] = r[1] /\ buffer'[n + 2] = r[2]
    BY <2>3, <2>5
  <2> QED
    BY <2>2, <2>4, <2>6
<1>13. closed' = FALSE
  BY <1>1, <1>2 DEF Enters, TypeOK
<1> QED
  BY <1>1, <1>3, <1>4, <1>5, <1>6, <1>8, <1>9, <1>11, <1>12, <1>13 DEF AppendEffect, n

LEMMA WriteIsEffect ==
    ASSUME Inv, NEW t \in Threads, WriteFragment(t)
    PROVE  WriteEffect
<1> DEFINE d == dir[0]
           c == content[d]
           h == Head(buffer)
<1>1. /\ buffer # <<>> /\ content' = [content EXCEPT ![d] = Append(c, h)]
      /\ buffer' = Tail(buffer)
      /\ UNCHANGED <<dir, handle, size, closed, op, iter, count, acked, faults>>
  BY DEF WriteFragment
<1>2. content \in Seq(Seq(Fragments)) /\ buffer \in Seq(Fragments) /\ Len(content) \in Nat
  BY Fragmentwise DEF Inv, TypeOK
<1>3. d \in Files
  <2>1. d # 0 /\ d \in 0..Len(content)
    BY <1>1, Fragmentwise DEF Inv, TypeOK
  <2> QED
    BY <1>2, <2>1 DEF Files
<1>4. c \in Seq(Fragments) /\ Len(c) \in Nat
  BY <1>2, <1>3, ElementOfSeq, LenProperties DEF Files
<1>5. h \in Fragments /\ h = buffer[1] /\ Len(buffer') = Len(buffer) - 1
      /\ \A q \in 1..Len(buffer') : buffer'[q] = buffer[q + 1]
  BY <1>1, <1>2, HeadTailProperties
<1> DEFINE a == Append(c, h)
<1>6. /\ a \in Seq(Fragments) /\ Len(a) = Len(c) + 1
      /\ \A p \in 1..Len(c) : a[p] = c[p]
      /\ a[Len(c) + 1] = h
  <2> HIDE DEF c, h
  <2> QED
    BY <1>4, <1>5, AppendProperties
<1>7. Len(content') = Len(content)
      /\ \A f \in 1..Len(content) : content'[f] = IF f = d THEN a ELSE content[f]
  <2>1. content' = [content EXCEPT ![d] = a] /\ d \in 1..Len(content)
    BY <1>1, <1>3 DEF Files
  <2> HIDE DEF a, d
  <2> QED
    BY <1>2, <1>6, <2>1, ExceptSeq
<1>8. Longer
  <2>1. content'[d] = a /\ \A f \in Files : f # d => content'[f] = content[f]
    BY <1>3, <1>7 DEF Files
  <2> HIDE DEF a, h
  <2> QED
    BY <1>5, <1>6, <1>7, <2>1 DEF Longer
<1>9. ItersStay
  BY <1>1 DEF ItersStay
<1> QED
  BY <1>1, <1>3, <1>5, <1>8, <1>9 DEF WriteEffect

\* What a step of one thread's call does to the others.
LEMMA OthersUntouched ==
    ASSUME TypeOK, NEW t \in Threads, NEW o, op' = [op EXCEPT ![t] = o]
    PROVE  op'[t] = o /\ OthersStay(t)
BY DEF TypeOK, OthersStay

LEMMA LeavesIdle ==
    ASSUME TypeOK, NEW t \in Threads, Leaves(t)
    PROVE  op'[t].pc = "idle" /\ OthersStay(t)
BY DEF TypeOK, OthersStay, Leaves, Idle

LEMMA FailIsEffect ==
    ASSUME Inv, NEW t \in Threads, FlushFails(t) \/ RotationFails(t) \/ CloseActiveFails(t)
    PROVE  FailEffect(t)
<1>1. /\ Leaves(t) /\ Fault /\ UNCHANGED <<content, dir, buffer, iter, acked, closed>>
      /\ handle' \in {handle, "dead"}
      /\ op[t].pc \in {"flush", "close", "unlink", "rename"}
  BY DEF FlushFails, RotationFails, CloseActiveFails, disk, store, At
<1>2. op'[t].pc = "idle" /\ OthersStay(t)
  BY <1>1, LeavesIdle DEF Inv
<1> QED
  BY <1>1, <1>2 DEF FailEffect, DiskSame, ItersStay, Fault

LEMMA FlushedIsEffect ==
    ASSUME Inv, NEW t \in Threads, Flushed(t)
    PROVE  FlushedEffect(t)
<1>1. /\ op[t].pc = "flush" /\ buffer = <<>>
      /\ UNCHANGED <<content, dir, handle, buffer, closed, iter, faults>>
      /\ \/ Goes(t, "close") /\ acked' = acked
         \/ Acknowledges(t)
  BY DEF Flushed, At, AllWritten, disk
<1>2. op[t] \in Ops
  BY DEF Inv, TypeOK
<1>3. CASE Goes(t, "close") /\ acked' = acked
  <2>1. op'[t] = [op[t] EXCEPT !.pc = "close"] /\ OthersStay(t)
    BY <1>3, OthersUntouched DEF Goes, Inv
  <2>2. op'[t].pc = "close" /\ op'[t].rec = op[t].rec
    BY <1>2, <2>1 DEF Ops
  <2> QED
    BY <1>1, <1>3, <2>1, <2>2 DEF FlushedEffect, DiskSame, ItersStay
<1>4. CASE Acknowledges(t)
  <2>1. op'[t].pc = "idle" /\ OthersStay(t) /\ acked' = acked \union {op[t].rec}
    BY <1>4, LeavesIdle DEF Acknowledges, Inv
  <2> QED
    BY <1>1, <2>1 DEF FlushedEffect, DiskSame, ItersStay
<1> QED
  BY <1>1, <1>3, <1>4

LEMMA CloseActiveIsEffect ==
    ASSUME Inv, NEW t \in Threads, CloseActive(t)
    PROVE  CloseActiveEffect(t)
<1>1. /\ op[t].pc = "close" /\ Goes(t, "unlink") /\ handle' = "none"
      /\ UNCHANGED <<content, dir, buffer, closed, iter, acked, faults>>
  BY DEF CloseActive, At, disk
<1>2. op[t] \in Ops /\ buffer = <<>>
  BY <1>1 DEF Inv, TypeOK, ThreadOK, OpOK
<1>3. op'[t] = [op[t] EXCEPT !.pc = "unlink"] /\ OthersStay(t)
  BY <1>1, OthersUntouched DEF Goes, Inv
<1>4. op'[t].pc = "unlink" /\ op'[t].rec = op[t].rec
  BY <1>2, <1>3 DEF Ops
<1> QED
  BY <1>1, <1>2, <1>3, <1>4 DEF CloseActiveEffect, DiskSame, ItersStay

LEMMA UnlinkIsEffect ==
    ASSUME Inv, NEW t \in Threads, UnlinkOldest(t)
    PROVE  UnlinkEffect(t)
<1>1. /\ op[t].pc = "unlink" /\ dir' = [dir EXCEPT ![BackupCount] = 0]
      /\ op' = [op EXCEPT ![t] = [@ EXCEPT !.pc = "rename", !.from = FirstSource]]
      /\ UNCHANGED <<content, buffer, handle, closed, iter, acked, faults>>
  BY DEF UnlinkOldest, At, store
<1>2. op[t] \in Ops /\ buffer = <<>> /\ dir \in [Names -> 0..Len(content)]
  BY <1>1 DEF Inv, TypeOK, ThreadOK, OpOK
<1>3. op'[t] = [op[t] EXCEPT !.pc = "rename", !.from = FirstSource] /\ OthersStay(t)
  BY <1>1, OthersUntouched DEF Inv
<1>4. op'[t].pc = "rename" /\ op'[t].rec = op[t].rec /\ op'[t].from = BackupCount - 1
  BY <1>2, <1>3 DEF Ops, FirstSource
<1>5. \A j \in Names : dir'[j] = IF j = BackupCount THEN 0 ELSE dir[j]
  BY <1>1, <1>2
<1> QED
  BY <1>1, <1>2, <1>3, <1>4, <1>5 DEF UnlinkEffect, ItersStay

LEMMA RenameIsEffect ==
    ASSUME Inv, NEW t \in Threads, RecOK(t), Rename(t)
    PROVE  RenameEffect(t)
<1> DEFINE k == op[t].from
<1>1. /\ op[t].pc = "rename" /\ dir' = Renamed(k)
      /\ UNCHANGED <<content, buffer, handle, closed, iter, faults>>
      /\ \/ k > 0 /\ op' = [op EXCEPT ![t].from = k - 1] /\ acked' = acked
         \/ ~(k > 0) /\ Acknowledges(t)
  BY DEF Rename, At
<1>2. op[t] \in Ops /\ buffer = <<>> /\ dir \in [Names -> 0..Len(content)]
      /\ k \in 0..(BackupCount - 1)
  BY <1>1 DEF Inv, TypeOK, ThreadOK, OpOK
<1>3. k \in Names /\ k + 1 \in Names /\ k \in Nat /\ k # k + 1 /\ dir[k + 1] = 0
  BY <1>1, <1>2, FileAssumption DEF Names, RecOK
<1>4. \A j \in Names : dir'[j] = IF j = k THEN 0 ELSE IF j = k + 1 THEN dir[k] ELSE dir[j]
  <2> HIDE DEF k
  <2>1. CASE dir[k] = 0
    BY <1>1, <1>2, <1>3, <2>1 DEF Renamed
  <2>2. CASE dir[k] # 0
    <3>1. dir' = [dir EXCEPT ![k + 1] = dir[k], ![k] = 0]
      BY <1>1, <2>2 DEF Renamed
    <3> QED
      BY <1>2, <1>3, <3>1
  <2> QED
    BY <2>1, <2>2
<1>5. CASE k > 0 /\ op' = [op EXCEPT ![t].from = k - 1] /\ acked' = acked
  <2>1. op'[t] = [op[t] EXCEPT !.from = k - 1] /\ OthersStay(t)
    BY <1>5, OthersUntouched DEF Inv
  <2>2. op'[t].pc = "rename" /\ op'[t].rec = op[t].rec /\ op'[t].from = k - 1
    BY <1>1, <1>2, <2>1 DEF Ops
  <2> QED
    BY <1>1, <1>2, <1>4, <1>5, <2>1, <2>2 DEF RenameEffect, ItersStay
<1>6. CASE ~(k > 0) /\ Acknowledges(t)
  <2>1. op'[t].pc = "idle" /\ OthersStay(t) /\ acked' = acked \union {op[t].rec}
    BY <1>6, LeavesIdle DEF Acknowledges, Inv
  <2>2. k = 0
    BY <1>3, <1>6
  <2> QED
    BY <1>1, <1>2, <1>4, <2>1, <2>2 DEF RenameEffect, ItersStay
<1> QED
  BY <1>1, <1>5, <1>6

LEMMA CloseIsEffect ==
    ASSUME Inv, NEW t \in Threads, Close(t)
    PROVE  CloseEffect(t)
<1>1. /\ op[t].pc = "idle" /\ Mixes(t)
      /\ UNCHANGED <<content, dir, buffer, acked, faults>>
      /\ (Goes(t, "closing") \/ (handle' = "none" /\ op' = op))
  BY DEF Close, Enters, InApp, disk
<1>2. ItersStay
  BY <1>1, MixesStays DEF Inv
<1>3. CASE Goes(t, "closing")
  <2>1. op'[t] = [op[t] EXCEPT !.pc = "closing"] /\ OthersStay(t) /\ op[t] \in Ops
    BY <1>3, OthersUntouched DEF Goes, Inv, TypeOK
  <2>2. op'[t].pc = "closing"
    BY <2>1 DEF Ops
  <2> QED
    BY <1>1, <1>2, <2>1, <2>2 DEF CloseEffect, DiskSame
<1> QED
  BY <1>1, <1>2, <1>3 DEF CloseEffect, DiskSame

LEMMA CloseEndsIsEffect ==
    ASSUME Inv, NEW t \in Threads, CloseEnds(t)
    PROVE  CloseEndsEffect(t)
<1>1. /\ op[t].pc = "closing" /\ Leaves(t) /\ handle' = "none" /\ buffer' = <<>>
      /\ UNCHANGED <<content, dir, iter, acked>>
      /\ IF buffer = <<>> THEN faults' = faults ELSE Fault
  BY DEF CloseEnds, At, disk
<1>2. op'[t].pc = "idle" /\ OthersStay(t)
  BY <1>1, LeavesIdle DEF Inv
<1> QED
  BY <1>1, <1>2 DEF CloseEndsEffect, DiskSame, ItersStay, Loses, Fault

\* A store that is closed and at rest has nothing in its buffer.
LEMMA FreshIsEffect ==
    ASSUME Inv, ClosedOK, Reopen \/ Crash
    PROVE  FreshEffect
<1>1. Fresh
  BY DEF Reopen, Crash
<1>2. /\ UNCHANGED <<content, dir, acked>> /\ buffer' = <<>> /\ handle' = "none"
      /\ \A u \in Threads : op'[u].pc = "idle" /\ iter'[u] = NoIterator
  BY <1>1 DEF Fresh, disk, Idle
<1>3. CASE Reopen
  <2>1. closed /\ (\A u \in Threads : op[u].pc = "idle") /\ faults' = faults
    BY <1>3 DEF Reopen
  <2>2. handle # "open"
    BY <2>1 DEF ClosedOK
  <2>3. buffer = <<>>
    BY <2>2 DEF Inv, TypeOK
  <2> QED
    BY <1>2, <2>1, <2>3 DEF FreshEffect, DiskSame, Loses
<1>4. CASE Crash
  BY <1>2, <1>4 DEF FreshEffect, DiskSame, Loses, Crash, Fault
<1> QED
  BY <1>3, <1>4

LEMMA IterIsEffect ==
    ASSUME Inv, NEW t \in Threads, IterStep(t)
    PROVE  IterEffect(t)
<1>1. \E it : Iterates(t, it)
  BY DEF IterStep, OpenNext, ReadLine, EndOfFile, Exhausted, ReadFails, Consume, Resume,
         CloseIterator, StartReplay
<1>2. UNCHANGED faults \/ Fault
  BY DEF IterStep, OpenNext, ReadLine, EndOfFile, Exhausted, ReadFails, Consume, Resume,
         CloseIterator, StartReplay
<1>3. PICK it : Iterates(t, it)
  BY <1>1
<1>4. \A u \in Threads \ {t} : iter'[u] = iter[u]
  BY <1>3 DEF Iterates, Inv, TypeOK
<1> QED
  BY <1>2, <1>3, <1>4 DEF IterEffect, Iterates, DiskSame, disk, store, Fault

LEMMA StepEffects ==
    ASSUME Inv, ClosedOK, \A t \in Threads : RecOK(t), [Next]_vars
    PROVE  Effects
<1>1. ASSUME NEW t \in Threads, StoreStep(t) \/ StepFails(t) \/ Consume(t) \/ Call(t)
      PROVE  CallEffect(t) \/ (IterStep(t) /\ IterEffect(t))
  <2>1. CASE IterStep(t)
    BY <2>1, IterIsEffect
  <2>2. CASE AppendRecord(t) \/ Close(t) \/ CloseEnds(t) \/ WriteFragment(t)
    BY <2>2, AppendIsEffect, CloseIsEffect, CloseEndsIsEffect, WriteIsEffect DEF CallEffect
  <2>3. CASE FlushFails(t) \/ RotationFails(t) \/ CloseActiveFails(t) \/ Flushed(t)
    BY <2>3, FailIsEffect, FlushedIsEffect DEF CallEffect
  <2>4. CASE CloseActive(t) \/ UnlinkOldest(t) \/ Rename(t)
    BY <2>4, CloseActiveIsEffect, UnlinkIsEffect, RenameIsEffect DEF CallEffect
  <2> QED
    BY <1>1, <2>1, <2>2, <2>3, <2>4 DEF StoreStep, StepFails, Call, IterStep
<1>2. CASE Reopen \/ Crash
  BY <1>2, FreshIsEffect DEF Effects
<1>3. CASE UNCHANGED vars
  BY <1>3 DEF vars, disk, store, Effects, NothingEffect
<1> QED
  BY <1>1, <1>2, <1>3 DEF Next, Effects

-----------------------------------------------------------------------------
(* Heads and tails.                                                        *)

\* A step that neither appends nor writes keeps the buffer and its file, or loses it.
BufferStays ==
    /\ content' = content /\ buffer' = buffer
    /\ buffer = <<>> \/ dir'[0] = dir[0]
    /\ faults' \in {faults, faults + 1}

LEMMA BufferCases ==
    ASSUME Effects
    PROVE  \/ \E t \in Threads : AppendEffect(t)
           \/ WriteEffect
           \/ BufferStays
           \/ DiskSame /\ Loses
<1>1. CASE FreshEffect \/ NothingEffect
  BY <1>1 DEF FreshEffect, NothingEffect, BufferStays
<1>2. ASSUME NEW t \in Threads,
             \/ FailEffect(t) \/ FlushedEffect(t) \/ CloseActiveEffect(t) \/ UnlinkEffect(t)
             \/ RenameEffect(t) \/ CloseEffect(t) \/ IterEffect(t)
      PROVE  BufferStays
  BY <1>2 DEF FailEffect, FlushedEffect, CloseActiveEffect, UnlinkEffect, RenameEffect,
              CloseEffect, IterEffect, BufferStays, DiskSame
<1>3. ASSUME NEW t \in Threads, CloseEndsEffect(t) PROVE DiskSame /\ Loses
  BY <1>3 DEF CloseEndsEffect
<1> QED
  BY <1>1, <1>2, <1>3 DEF Effects, CallEffect

\* The files only grow.
LEMMA ContentGrows ==
    ASSUME TypeOK, Effects
    PROVE  /\ Len(content) <= Len(content')
           /\ \A f \in Files : /\ f \in Files'
                               /\ \A p \in 1..Len(content[f]) :
                                     /\ p \in 1..Len(content'[f])
                                     /\ content'[f][p] = content[f][p]
<1>1. /\ Len(content) \in Nat
      /\ \A f \in Files : Len(content[f]) \in Nat
  BY Fragmentwise
<1>2. CASE content' = content
  BY <1>1, <1>2 DEF Files
<1>3. CASE NewFile
  BY <1>1, <1>3 DEF Files, NewFile
<1>4. CASE WriteEffect
  <2>1. Len(content') = Len(content) /\ Longer
    BY <1>4 DEF WriteEffect, Longer
  <2> SUFFICES ASSUME NEW f \in Files, NEW p \in 1..Len(content[f])
               PROVE  /\ p \in 1..Len(content'[f])
                      /\ content'[f][p] = content[f][p]
    BY <1>1, <2>1 DEF Files
  <2>2. CASE f = dir[0]
    BY <1>1, <2>1, <2>2 DEF Longer
  <2>3. CASE f # dir[0]
    BY <2>1, <2>3 DEF Longer
  <2> QED
    BY <2>2, <2>3
<1> QED
  BY <1>2, <1>3, <1>4, BufferCases DEF AppendEffect, BufferStays, DiskSame

\* A fragment of a file was there, or is the one that was just written.
LEMMA ContentOrigin ==
    ASSUME TypeOK, Effects, NEW f \in Files', NEW p \in 1..Len(content'[f])
    PROVE  /\ f \in Files
           /\ \/ p \in 1..Len(content[f]) /\ content'[f][p] = content[f][p]
              \/ /\ WriteEffect /\ f = dir[0]
                 /\ p = Len(content[f]) + 1 /\ content'[f][p] = buffer[1]
<1>1. /\ Len(content) \in Nat
      /\ \A g \in Files : Len(content[g]) \in Nat
  BY Fragmentwise
<1>2. CASE content' = content
  BY <1>1, <1>2 DEF Files
<1>3. CASE NewFile
  <2>1. f \in Files \/ f = Len(content) + 1
    BY <1>1, <1>3 DEF Files, NewFile
  <2>2. f # Len(content) + 1
    BY <1>3 DEF NewFile
  <2> QED
    BY <1>3, <2>1, <2>2 DEF NewFile
<1>4. CASE WriteEffect
  <2>1. Len(content') = Len(content) /\ Longer
    BY <1>4 DEF WriteEffect, Longer
  <2>2. f \in Files
    BY <2>1 DEF Files
  <2>3. CASE f = dir[0]
    <3>1. Len(content'[f]) = Len(content[f]) + 1 /\ Len(content[f]) \in Nat
      BY <1>1, <2>1, <2>2, <2>3 DEF Longer
    <3>2. p \in 1..Len(content[f]) \/ p = Len(content[f]) + 1
      BY <3>1
    <3> QED
      BY <1>4, <2>1, <2>2, <2>3, <3>2 DEF Longer
  <2>4. CASE f # dir[0]
    BY <2>1, <2>2, <2>4 DEF Longer
  <2> QED
    BY <2>3, <2>4
<1> QED
  BY <1>2, <1>3, <1>4, BufferCases DEF AppendEffect, BufferStays, DiskSame

LEMMA PairedStep ==
    ASSUME Inv, Paired, Effects
    PROVE  Paired'
<1> DEFINE InFiles == \A f \in Files : \A p \in 1..Len(content[f]) :
                content[f][p].part = "tail"
                  => p > 1 /\ content[f][p - 1] = HeadOf(content[f][p].id)
           InBuffer == \A q \in 1..Len(buffer) :
                /\ buffer[q].part = "tail" /\ q > 1 => buffer[q - 1] = HeadOf(buffer[q].id)
                /\ buffer[q].part = "tail" /\ q = 1 =>
                      Len(Active) > 0 /\ Active[Len(Active)] = HeadOf(buffer[q].id)
                /\ buffer[q].part = "head" => q < Len(buffer) /\ buffer[q + 1] = TailOf(buffer[q].id)
<1>1. /\ Len(content) \in Nat /\ Len(buffer) \in Nat
      /\ ((buffer = <<>>) <=> (Len(buffer) = 0))
      /\ \A f \in Files : Len(content[f]) \in Nat
      /\ \A q \in 1..Len(buffer) : buffer[q] \in Fragments
  BY Fragmentwise DEF Inv
<1>2. TypeOK /\ InFiles /\ InBuffer
  BY DEF Inv, Paired
<1> SUFFICES InFiles' /\ InBuffer'
  BY DEF Paired
<1>3. InFiles'
  <2> SUFFICES ASSUME NEW f \in Files', NEW p \in 1..Len(content'[f]),
                      content'[f][p].part = "tail"
               PROVE  p > 1 /\ content'[f][p - 1] = HeadOf(content'[f][p].id)
    BY DEF InFiles
  <2>1. f \in Files
    BY <1>2, ContentOrigin
  <2>2. \A r \in 1..Len(content[f]) : content'[f][r] = content[f][r]
    BY <1>2, <2>1, ContentGrows
  <2>3. CASE p \in 1..Len(content[f]) /\ content'[f][p] = content[f][p]
    <3>1. p > 1 /\ content[f][p - 1] = HeadOf(content[f][p].id)
      BY <1>2, <2>1, <2>3
    <3>2. p - 1 \in 1..Len(content[f])
      BY <1>1, <2>1, <2>3, <3>1
    <3> QED
      BY <2>2, <2>3, <3>1, <3>2
  <2>4. CASE /\ WriteEffect /\ f = dir[0]
             /\ p = Len(content[f]) + 1 /\ content'[f][p] = buffer[1]
    <3>1. 1 \in 1..Len(buffer)
      BY <1>1, <2>4 DEF WriteEffect
    <3>2. Len(content[f]) > 0 /\ content[f][Len(content[f])] = HeadOf(buffer[1].id)
      BY <1>2, <2>4, <3>1 DEF Active
    <3>3. p - 1 = Len(content[f]) /\ p - 1 \in 1..Len(content[f]) /\ p > 1
      BY <1>1, <2>1, <2>4, <3>2
    <3> QED
      BY <2>2, <2>4, <3>2, <3>3
  <2> QED
    BY <1>2, <2>3, <2>4, ContentOrigin
<1>4. InBuffer'
  <2>1. CASE \E t \in Threads : AppendEffect(t)
    <3> DEFINE n == Len(buffer)
               i == count + 1
    <3>1. /\ DiskSame \/ NewFile
          /\ i \in Ids /\ Len(buffer') = n + 2
          /\ \A q \in 1..n : buffer'[q] = buffer[q]
          /\ buffer'[n + 1] = HeadOf(i) /\ buffer'[n + 2] = TailOf(i)
      BY <2>1 DEF AppendEffect
    <3>2. /\ HeadOf(i).part = "head" /\ HeadOf(i).id = i
          /\ TailOf(i).part = "tail" /\ TailOf(i).id = i
      BY <3>1, FragmentForms
    <3> SUFFICES ASSUME NEW q \in 1..Len(buffer')
                 PROVE  /\ buffer'[q].part = "tail" /\ q > 1
                             => buffer'[q - 1] = HeadOf(buffer'[q].id)
                        /\ buffer'[q].part = "tail" /\ q = 1 =>
                              Len(Active') > 0 /\ Active'[Len(Active')] = HeadOf(buffer'[q].id)
                        /\ buffer'[q].part = "head"
                             => q < Len(buffer') /\ buffer'[q + 1] = TailOf(buffer'[q].id)
      BY DEF InBuffer
    <3> HIDE DEF n, i
    <3>3. n \in Nat
      BY <1>1 DEF n
    <3>4. q \in 1..n \/ q = n + 1 \/ q = n + 2
      BY <3>1, <3>3
    <3>5. CASE q \in 1..n
      <4>1. DiskSame
        BY <1>1, <3>1, <3>3, <3>5 DEF NewFile, n
      <4>2. Active' = Active
        BY <4>1 DEF Active, DiskSame
      <4>3. q > 1 => q - 1 \in 1..n
        BY <3>3, <3>5
      <4>4. q < n => q + 1 \in 1..n
        BY <3>3, <3>5
      <4>5. q < Len(buffer')
        BY <3>1, <3>3, <3>5
      <4> QED
        BY <1>2, <3>1, <3>5, <4>2, <4>3, <4>4, <4>5 DEF n
    <3>6. CASE q = n + 1
      <4>1. q < Len(buffer') /\ q + 1 = n + 2
        BY <3>1, <3>3, <3>6
      <4> QED
        BY <3>1, <3>2, <3>6, <4>1
    <3>7. CASE q = n + 2
      <4>1. q > 1 /\ q - 1 = n + 1
        BY <3>3, <3>7
      <4> QED
        BY <3>1, <3>2, <3>7, <4>1
    <3> QED
      BY <3>4, <3>5, <3>6, <3>7
  <2>2. CASE WriteEffect
    <3> DEFINE c == content[dir[0]]
    <3>1. /\ Longer /\ dir' = dir /\ dir[0] \in Files
          /\ Len(buffer') = Len(buffer) - 1 /\ Len(buffer) # 0
          /\ \A q \in 1..Len(buffer') : buffer'[q] = buffer[q + 1]
      BY <1>1, <2>2 DEF WriteEffect
    <3>2. Len(c) \in Nat
      BY <1>1, <3>1
    <3>3. Active' = content'[dir[0]]
      BY <3>1 DEF Active
    <3>4. Len(Active') = Len(c) + 1 /\ Active'[Len(c) + 1] = buffer[1]
      BY <3>1, <3>3 DEF Longer
    <3> SUFFICES ASSUME NEW q \in 1..Len(buffer')
                 PROVE  /\ buffer'[q].part = "tail" /\ q > 1
                             => buffer'[q - 1] = HeadOf(buffer'[q].id)
                        /\ buffer'[q].part = "tail" /\ q = 1 =>
                              Len(Active') > 0 /\ Active'[Len(Active')] = HeadOf(buffer'[q].id)
                        /\ buffer'[q].part = "head"
                             => q < Len(buffer') /\ buffer'[q + 1] = TailOf(buffer'[q].id)
      BY DEF InBuffer
    <3> HIDE DEF c, InFiles
    <3>5. /\ q + 1 \in 1..Len(buffer) /\ q + 1 > 1 /\ (q + 1) - 1 = q
          /\ (q > 1 => q - 1 \in 1..Len(buffer') /\ (q - 1) + 1 = q)
          /\ (q + 1 < Len(buffer) => q < Len(buffer') /\ q + 1 \in 1..Len(buffer'))
      BY <1>1, <3>1
    <3>6. buffer'[q] = buffer[q + 1]
      BY <3>1
    <3>7. buffer'[q].part = "tail" => buffer[q] = HeadOf(buffer'[q].id)
      BY <1>2, <3>5, <3>6
    <3>8. buffer'[q].part = "tail" /\ q > 1 => buffer'[q - 1] = HeadOf(buffer'[q].id)
      BY <3>1, <3>5, <3>7
    <3>9. buffer'[q].part = "tail" /\ q = 1 =>
             Len(Active') > 0 /\ Active'[Len(Active')] = HeadOf(buffer'[q].id)
      BY <3>2, <3>4, <3>7
    <3>10. buffer'[q].part = "head" => q < Len(buffer') /\ buffer'[q + 1] = TailOf(buffer'[q].id)
      BY <1>2, <3>1, <3>5, <3>6
    <3> QED
      BY <3>8, <3>9, <3>10
  <2>3. CASE BufferStays
    <3>1. CASE buffer = <<>>
      <4>1. Len(buffer') = 0
        BY <1>1, <2>3, <3>1 DEF BufferStays
      <4> QED
        BY <4>1
    <3>2. CASE buffer # <<>>
      <4>1. Active' = Active /\ buffer' = buffer
        BY <2>3, <3>2 DEF BufferStays, Active
      <4> QED
        BY <1>2, <4>1
    <3> QED
      BY <3>1, <3>2
  <2>4. CASE Loses
    <3>1. Len(buffer') = 0
      BY <2>4, EmptySeq DEF Loses
    <3> QED
      BY <3>1
  <2> QED
    BY <2>1, <2>2, <2>3, <2>4, BufferCases
<1> QED
  BY <1>3, <1>4

\* A record stays on its way to be whole, unless the buffer is lost.
LEMMA CompletedStays ==
    ASSUME TypeOK, Effects, ~(DiskSame /\ Loses),
           NEW f \in Files, NEW p \in 1..Len(content[f]), Completed(f, p)
    PROVE  Completed(f, p)'
<1>1. /\ Len(content[f]) \in Nat /\ Len(buffer) \in Nat
      /\ ((buffer = <<>>) <=> (Len(buffer) = 0))
  BY Fragmentwise
<1>2. /\ p \in 1..Len(content'[f]) /\ content'[f][p] = content[f][p]
      /\ \A r \in 1..Len(content[f]) : r \in 1..Len(content'[f]) /\ content'[f][r] = content[f][r]
  BY ContentGrows
<1>3. CASE p < Len(content[f]) /\ content[f][p + 1] = TailOf(content[f][p].id)
  <2>1. p + 1 \in 1..Len(content[f])
    BY <1>1, <1>3
  <2>2. p + 1 \in 1..Len(content'[f]) /\ content'[f][p + 1] = TailOf(content'[f][p].id)
    BY <1>2, <1>3, <2>1
  <2>3. Len(content'[f]) \in Nat
    <3>1. CASE WriteEffect
      BY <1>1, <3>1 DEF WriteEffect, Longer
    <3>2. CASE content'[f] = content[f]
      BY <1>1, <3>2
    <3> QED
      BY <3>1, <3>2, BufferCases DEF AppendEffect, NewFile, DiskSame, BufferStays
  <2>4. p < Len(content'[f])
    BY <2>2, <2>3
  <2> QED
    BY <2>2, <2>4 DEF Completed
<1>4. CASE /\ p = Len(content[f]) /\ f = dir[0]
           /\ buffer # <<>> /\ buffer[1] = TailOf(content[f][p].id)
  <2>1. CASE \E t \in Threads : AppendEffect(t)
    <3>1. DiskSame /\ Len(buffer') = Len(buffer) + 2
          /\ \A q \in 1..Len(buffer) : buffer'[q] = buffer[q]
      BY <1>4, <2>1 DEF AppendEffect, NewFile
    <3>2. buffer'[1] = buffer[1] /\ Len(buffer') # 0
      BY <1>1, <1>4, <3>1
    <3>3. buffer' # <<>>
      BY <3>2, EmptySeq
    <3> QED
      BY <1>4, <3>1, <3>2, <3>3 DEF Completed, DiskSame
  <2>2. CASE WriteEffect
    <3>1. Len(content'[f]) = Len(content[f]) + 1 /\ content'[f][p + 1] = buffer[1]
      BY <1>4, <2>2 DEF WriteEffect, Longer
    <3>2. p < Len(content'[f])
      BY <1>1, <1>4, <3>1
    <3> QED
      BY <1>2, <1>4, <3>1, <3>2 DEF Completed
  <2>3. CASE BufferStays
    BY <1>4, <2>3 DEF BufferStays, Completed
  <2> QED
    BY <2>1, <2>2, <2>3, BufferCases
<1> QED
  BY <1>3, <1>4 DEF Completed

\* A step tears no record, or is a fault and tears one.
LEMMA TornStep ==
    ASSUME Inv, Paired, TornBounded, Effects, faults' \in {faults, faults + 1}
    PROVE  TornBounded'
<1>1. /\ TypeOK
      /\ Len(buffer) \in Nat /\ ((buffer = <<>>) <=> (Len(buffer) = 0))
      /\ \A f \in Files : Len(content[f]) \in Nat
      /\ \A q \in 1..Len(buffer) : buffer[q] \in Fragments
      /\ faults \in Nat
  BY Fragmentwise DEF Inv
<1>2. IsFiniteSet(Ids) /\ Torn \subseteq Ids /\ Torn' \subseteq Ids
  BY FileAssumption, FS_Interval DEF Ids, Torn
<1>3. IsFiniteSet(Torn) /\ Cardinality(Torn) \in Nat /\ Cardinality(Torn) <= faults
  BY <1>2, FS_Subset, FS_CardinalityType DEF TornBounded
<1>4. CASE Torn' \subseteq Torn
  <2>1. Cardinality(Torn') \in Nat /\ Cardinality(Torn') <= Cardinality(Torn)
    BY <1>2, <1>3, <1>4, FS_Subset, FS_CardinalityType
  <2> QED
    BY <1>1, <1>3, <2>1 DEF TornBounded
<1>5. ASSUME NEW i \in Ids, Torn' \subseteq Torn \union {i}, faults' = faults + 1
      PROVE  TornBounded'
  <2>1. /\ IsFiniteSet(Torn \union {i})
        /\ Cardinality(Torn \union {i}) = IF i \in Torn THEN Cardinality(Torn)
                                          ELSE Cardinality(Torn) + 1
    BY <1>3, FS_AddElement
  <2>2. Cardinality(Torn') \in Nat /\ Cardinality(Torn') <= Cardinality(Torn \union {i})
    BY <1>2, <1>5, <2>1, FS_Subset, FS_CardinalityType
  <2> QED
    BY <1>1, <1>3, <1>5, <2>1, <2>2 DEF TornBounded
<1>6. CASE ~(DiskSame /\ Loses)
  <2>1. ASSUME NEW i \in Torn' PROVE i \in Torn
    <3>0. PICK f \in Files' : \E p \in 1..Len(content'[f]) :
             content'[f][p] = HeadOf(i) /\ ~Completed(f, p)'
      BY DEF Torn
    <3>1. PICK p \in 1..Len(content'[f]) : content'[f][p] = HeadOf(i) /\ ~Completed(f, p)'
      BY <3>0
    <3>2. f \in Files
      BY <1>1, ContentOrigin
    <3>3. CASE p \in 1..Len(content[f]) /\ content'[f][p] = content[f][p]
      <4>1. ~Completed(f, p)
        BY <1>1, <1>6, <3>1, <3>2, <3>3, CompletedStays
      <4> QED
        BY <1>2, <3>1, <3>2, <3>3, <4>1 DEF Torn
    <3>4. CASE /\ WriteEffect /\ f = dir[0]
               /\ p = Len(content[f]) + 1 /\ content'[f][p] = buffer[1]
      <4>1. 1 \in 1..Len(buffer)
        BY <1>1, <3>4 DEF WriteEffect
      <4>2. buffer[1].part = "head" /\ buffer[1].id = i
        <5>1. i \in Ids
          BY <1>2
        <5> QED
          BY <3>1, <3>4, <5>1, FragmentForms
      <4>3. 1 < Len(buffer) /\ buffer[2] = TailOf(i)
        BY <4>1, <4>2 DEF Paired
      <4>4. buffer' # <<>> /\ buffer'[1] = buffer[2]
        <5>1. /\ Len(buffer') = Len(buffer) - 1
              /\ \A q \in 1..Len(buffer') : buffer'[q] = buffer[q + 1]
          BY <3>4 DEF WriteEffect
        <5>2. 1 \in 1..Len(buffer') /\ Len(buffer') # 0
          BY <1>1, <4>3, <5>1
        <5> QED
          BY <5>1, <5>2, EmptySeq
      <4>5. p = Len(content'[f]) /\ f = dir'[0]
        BY <3>4 DEF WriteEffect, Longer
      <4>6. content'[f][p].id = i
        BY <3>4, <4>2
      <4>7. Completed(f, p)'
        BY <4>3, <4>4, <4>5, <4>6 DEF Completed
      <4> QED
        BY <3>1, <4>7
    <3> QED
      BY <1>1, <3>3, <3>4, ContentOrigin
  <2> QED
    BY <1>4, <2>1
<1>7. CASE DiskSame /\ Loses
  <2>1. CASE buffer = <<>>
    <3>1. Torn' \subseteq Torn
      BY <1>7, <2>1 DEF Torn, Completed, DiskSame, Loses, Files
    <3> QED
      BY <1>4, <3>1
  <2>2. CASE buffer # <<>>
    <3> DEFINE last == Active[Len(Active)].id
    <3>1. faults' = faults + 1 /\ buffer' = <<>>
      BY <1>7, <2>2 DEF Loses
    <3>2. ASSUME NEW i \in Torn', i \notin Torn PROVE i = last
      <4>0. PICK f \in Files' : \E p \in 1..Len(content'[f]) :
               content'[f][p] = HeadOf(i) /\ ~Completed(f, p)'
        BY DEF Torn
      <4>1. PICK p \in 1..Len(content'[f]) : content'[f][p] = HeadOf(i) /\ ~Completed(f, p)'
        BY <4>0
      <4>2. f \in Files /\ p \in 1..Len(content[f]) /\ content[f][p] = HeadOf(i)
        BY <1>7, <4>1 DEF DiskSame, Files
      <4>3. Completed(f, p)
        BY <1>2, <3>2, <4>2 DEF Torn
      <4>4. p = Len(content[f]) /\ f = dir[0]
        BY <1>7, <4>1, <4>3 DEF Completed, DiskSame
      <4>5. i \in Ids /\ HeadOf(i).id = i
        BY <1>2, FragmentForms
      <4> QED
        BY <4>2, <4>4, <4>5 DEF Active
    <3>3. CASE Torn' \subseteq Torn
      BY <1>4, <3>3
    <3>4. CASE ~(Torn' \subseteq Torn)
      <4>1. Torn' \subseteq Torn \union {last} /\ last \in Ids
        BY <1>2, <3>2, <3>4
      <4> QED
        <5> HIDE DEF last
        <5> QED
          BY <1>5, <3>1, <4>1
    <3> QED
      BY <3>3, <3>4
  <2> QED
    BY <2>1, <2>2
<1> QED
  BY <1>6, <1>7

-----------------------------------------------------------------------------
(* What was acknowledged, and what was dropped.                            *)

LEMMA HasStays ==
    ASSUME TypeOK, Effects, NEW f \in Files, NEW x, Has(f, x)
    PROVE  f \in Files' /\ Has(f, x)'
BY ContentGrows DEF Has

LEMMA AckedStep ==
    ASSUME TypeOK, AckedWritten, \A t \in Threads : RecOK(t), Effects
    PROVE  AckedWritten'
<1>1. ASSUME NEW i, \E f \in Files : Has(f, TailOf(i))
      PROVE  \E f \in Files' : Has(f, TailOf(i))'
  BY <1>1, HasStays
<1>2. CASE acked' = acked
  BY <1>1, <1>2 DEF AckedWritten
<1>3. ASSUME NEW t \in Threads, acked' = acked \union {op[t].rec},
             dir[0] # 0, Has(dir[0], TailOf(op[t].rec))
      PROVE  AckedWritten'
  <2>1. dir[0] \in Files
    BY <1>3, Fragmentwise DEF Files
  <2> SUFFICES ASSUME NEW i \in acked' PROVE \E f \in Files' : Has(f, TailOf(i))'
    BY DEF AckedWritten
  <2>2. CASE i \in acked
    BY <1>1, <2>2 DEF AckedWritten
  <2>3. CASE i = op[t].rec
    <3>1. \E f \in Files : Has(f, TailOf(i))
      BY <1>3, <2>1, <2>3
    <3> QED
      BY <1>1, <3>1
  <2> QED
    BY <1>3, <2>2, <2>3
<1>4. ASSUME NEW t \in Threads, FlushedEffect(t) \/ RenameEffect(t) PROVE AckedWritten'
  BY <1>2, <1>3, <1>4 DEF FlushedEffect, RenameEffect, RecOK
<1>5. ASSUME NEW t \in Threads,
             \/ AppendEffect(t) \/ WriteEffect \/ FailEffect(t) \/ CloseActiveEffect(t)
             \/ UnlinkEffect(t) \/ CloseEffect(t) \/ CloseEndsEffect(t) \/ IterEffect(t)
      PROVE  AckedWritten'
  <2>1. acked' = acked
    BY <1>5 DEF AppendEffect, WriteEffect, FailEffect, CloseActiveEffect, UnlinkEffect,
                CloseEffect, CloseEndsEffect, IterEffect
  <2> QED
    BY <1>2, <2>1
<1>6. CASE FreshEffect \/ NothingEffect
  BY <1>2, <1>6 DEF FreshEffect, NothingEffect
<1> QED
  BY <1>4, <1>5, <1>6 DEF Effects, CallEffect

\* A step that is not an append, an unlink or a rename keeps the directory.
LEMMA DirCases ==
    ASSUME Effects
    PROVE  \/ \E t \in Threads : AppendEffect(t)
           \/ \E t \in Threads : UnlinkEffect(t)
           \/ \E t \in Threads : RenameEffect(t)
           \/ dir' = dir /\ Len(content') = Len(content)
<1>1. CASE FreshEffect \/ NothingEffect
  BY <1>1 DEF FreshEffect, NothingEffect, DiskSame
<1>2. ASSUME NEW t \in Threads,
             \/ FailEffect(t) \/ FlushedEffect(t) \/ CloseActiveEffect(t) \/ WriteEffect
             \/ CloseEffect(t) \/ CloseEndsEffect(t) \/ IterEffect(t)
      PROVE  dir' = dir /\ Len(content') = Len(content)
  BY <1>2 DEF FailEffect, FlushedEffect, CloseActiveEffect, WriteEffect, Longer,
              CloseEffect, CloseEndsEffect, IterEffect, DiskSame
<1> QED
  BY <1>1, <1>2 DEF Effects, CallEffect

LEMMA RenameNames ==
    ASSUME NEW t \in Threads, RenameEffect(t)
    PROVE  op[t].from \in Names /\ op[t].from + 1 \in Names
           /\ op[t].from # op[t].from + 1 /\ op[t].from \in Nat
BY FileAssumption DEF RenameEffect, Names

\* Only an unlink drops a file: the oldest, when the newest holds a whole record.
LEMMA DroppedStep ==
    ASSUME Inv, OldestDropped, \A t \in Threads : RecOK(t), Effects
    PROVE  OldestDropped'
<1>1. /\ TypeOK /\ Len(content) \in Nat /\ 0 \in Names
      /\ \A k \in Names : dir[k] \in 0..Len(content)
  BY Fragmentwise DEF Inv
<1>2. ASSUME NEW k \in Names, dir[k] # 0
      PROVE  dir[k] \in Files
  BY <1>1, <1>2 DEF Files
<1>3. ASSUME NEW f \in Files, HasRecord(f)
      PROVE  HasRecord(f)'
  BY <1>1, <1>3, HasStays DEF HasRecord
<1>4. CASE dir' = dir /\ Len(content') = Len(content)
  <2> SUFFICES ASSUME NEW f \in Files', ~Kept(f)'
               PROVE  /\ \A k \in Names : dir'[k] # 0 => f < dir'[k]
                      /\ \E k \in Names : dir'[k] # 0 /\ HasRecord(dir[k])'
    BY DEF OldestDropped
  <2>1. f \in Files /\ ~Kept(f)
    BY <1>4 DEF Files, Kept
  <2>2. PICK k \in Names : dir[k] # 0 /\ HasRecord(dir[k])
    BY <2>1 DEF OldestDropped
  <2>3. PICK g : g = dir[k]
    OBVIOUS
  <2>4. HasRecord(g)'
    BY <1>2, <1>3, <2>2, <2>3
  <2>5. HasRecord(dir[k])'
    BY <1>4, <2>3, <2>4 DEF HasRecord, Has
  <2> QED
    BY <1>4, <2>1, <2>2, <2>5 DEF OldestDropped
<1>5. ASSUME NEW t \in Threads, AppendEffect(t) PROVE OldestDropped'
  <2>1. CASE DiskSame
    BY <1>4, <2>1 DEF DiskSame
  <2>2. CASE NewFile
    <3> SUFFICES ASSUME NEW f \in Files', ~Kept(f)'
                 PROVE  /\ \A k \in Names : dir'[k] # 0 => f < dir'[k]
                        /\ \E k \in Names : dir'[k] # 0 /\ HasRecord(dir[k])'
      BY DEF OldestDropped
    <3>1. f # Len(content) + 1
      BY <1>1, <2>2 DEF NewFile, Kept
    <3>2. f \in Files /\ f < Len(content) + 1
      BY <1>1, <2>2, <3>1 DEF NewFile, Files
    <3>3. ~Kept(f)
      BY <1>1, <2>2, <3>2 DEF Kept, NewFile, Files
    <3>4. PICK k \in Names : dir[k] # 0 /\ HasRecord(dir[k])
      BY <3>2, <3>3 DEF OldestDropped
    <3>5. PICK g : g = dir[k]
      OBVIOUS
    <3>6. HasRecord(g)' /\ dir'[k] = dir[k]
      BY <1>2, <1>3, <2>2, <3>4, <3>5 DEF NewFile
    <3>7. HasRecord(dir[k])'
      BY <3>5, <3>6 DEF HasRecord, Has
    <3> QED
      BY <2>2, <3>2, <3>3, <3>4, <3>6, <3>7 DEF OldestDropped, NewFile
  <2> QED
    BY <1>5, <2>1, <2>2 DEF AppendEffect
<1>6. ASSUME NEW t \in Threads, UnlinkEffect(t) PROVE OldestDropped'
  <2>1. /\ content' = content /\ op[t].pc = "unlink"
        /\ \A j \in Names : dir'[j] = IF j = BackupCount THEN 0 ELSE dir[j]
    BY <1>6 DEF UnlinkEffect
  <2>2. BackupCount \in Names /\ BackupCount # 0 /\ \A j \in Names : j <= BackupCount /\ j \in Nat
    BY FileAssumption DEF Names
  <2>3. dir[0] # 0 /\ Has(dir[0], TailOf(op[t].rec)) /\ dir'[0] = dir[0]
    BY <1>1, <2>1, <2>2 DEF RecOK
  <2>4. op[t].rec \in Ids
    BY <2>1 DEF Inv, ThreadOK, OpOK
  <2>5. HasRecord(dir[0])'
    BY <2>1, <2>3, <2>4 DEF HasRecord, Has
  <2> SUFFICES ASSUME NEW f \in Files', ~Kept(f)'
               PROVE  \A k \in Names : dir'[k] # 0 => f < dir'[k]
    BY <1>1, <2>3, <2>5 DEF OldestDropped
  <2>6. f \in Files
    BY <2>1 DEF Files
  <2>7. CASE ~Kept(f)
    BY <2>1, <2>6, <2>7 DEF OldestDropped
  <2>8. CASE Kept(f)
    <3>1. dir[BackupCount] = f /\ f # 0
      BY <1>1, <2>1, <2>2, <2>6, <2>8 DEF Kept, Files
    <3> SUFFICES ASSUME NEW k \in Names, dir'[k] # 0 PROVE f < dir'[k]
      OBVIOUS
    <3>2. k # BackupCount /\ dir'[k] = dir[k] /\ k < BackupCount
      <4>1. k # BackupCount
        BY <2>1
      <4> QED
        BY <2>1, <2>2, <4>1
    <3> QED
      BY <2>2, <3>1, <3>2 DEF Inv, OrderInv, NamesOrdered
  <2> QED
    BY <2>7, <2>8
<1>7. ASSUME NEW t \in Threads, RenameEffect(t) PROVE OldestDropped'
  <2> DEFINE k == op[t].from
  <2>1. /\ content' = content /\ op[t].pc = "rename"
        /\ \A j \in Names : dir'[j] = IF j = k THEN 0 ELSE IF j = k + 1 THEN dir[k] ELSE dir[j]
    BY <1>7 DEF RenameEffect
  <2>2. k \in Names /\ k + 1 \in Names /\ k # k + 1 /\ dir[k + 1] = 0
    BY <1>7, <2>1, RenameNames DEF RecOK
  <2> HIDE DEF k
  <2>3. \A j \in Names : dir[j] # 0 => \E m \in Names : dir'[m] = dir[j]
    BY <2>1, <2>2
  <2>4. \A j \in Names : dir'[j] # 0 => \E m \in Names : dir'[j] = dir[m]
    BY <2>1, <2>2
  <2> SUFFICES ASSUME NEW f \in Files', ~Kept(f)'
               PROVE  /\ \A j \in Names : dir'[j] # 0 => f < dir'[j]
                      /\ \E j \in Names : dir'[j] # 0 /\ HasRecord(dir[j])'
    BY DEF OldestDropped
  <2>5. f \in Files /\ f # 0
    BY <1>1, <2>1 DEF Files
  <2>6. ~Kept(f)
    BY <2>3, <2>5 DEF Kept
  <2>7. PICK j \in Names : dir[j] # 0 /\ HasRecord(dir[j])
    BY <2>5, <2>6 DEF OldestDropped
  <2>8. PICK m \in Names : dir'[m] = dir[j]
    BY <2>3, <2>7
  <2>9. HasRecord(dir[m])'
    BY <2>1, <2>7, <2>8 DEF HasRecord, Has
  <2>10. \A j2 \in Names : dir'[j2] # 0 => f < dir'[j2]
    BY <2>4, <2>5, <2>6 DEF OldestDropped
  <2> QED
    BY <2>7, <2>8, <2>9, <2>10
<1> QED
  BY <1>4, <1>5, <1>6, <1>7, DirCases

-----------------------------------------------------------------------------
(* The gaps between the backups.                                           *)

LEMMA GapsFinite ==
    ASSUME NEW m
    PROVE  /\ IsFiniteSet(Gaps(m)) /\ Cardinality(Gaps(m)) \in Nat
           /\ IsFiniteSet(Gaps(m)') /\ Cardinality(Gaps(m)') \in Nat
<1>1. IsFiniteSet(Names)
  BY FileAssumption, FS_Interval DEF Names
<1>2. Gaps(m) \subseteq Names /\ Gaps(m)' \subseteq Names
  BY DEF Gaps
<1> QED
  BY <1>1, <1>2, FS_Subset, FS_CardinalityType

LEMMA AtMostOneMore ==
    ASSUME NEW S, IsFiniteSet(S), NEW x
    PROVE  /\ IsFiniteSet(S \union {x})
           /\ Cardinality(S \union {x}) \in Nat
           /\ Cardinality(S \union {x}) <= Cardinality(S) + 1
<1>1. /\ IsFiniteSet(S \union {x})
      /\ Cardinality(S \union {x}) = IF x \in S THEN Cardinality(S) ELSE Cardinality(S) + 1
  BY FS_AddElement
<1>2. Cardinality(S) \in Nat
  BY FS_CardinalityType
<1> QED
  BY <1>1, <1>2

\* Fewer gaps are counted as fewer.
LEMMA FewerGaps ==
    ASSUME NEW m, NEW n, Gaps(n)' \subseteq Gaps(m)
    PROVE  Cardinality(Gaps(n)') <= Cardinality(Gaps(m))
BY GapsFinite, FS_Subset

LEMMA OneMoreGap ==
    ASSUME NEW m, NEW n, NEW k, Gaps(n)' \subseteq Gaps(m) \union {k}
    PROVE  Cardinality(Gaps(n)') <= Cardinality(Gaps(m)) + 1
<1>1. /\ IsFiniteSet(Gaps(m) \union {k})
      /\ Cardinality(Gaps(m) \union {k}) \in Nat
      /\ Cardinality(Gaps(m) \union {k}) <= Cardinality(Gaps(m)) + 1
  BY GapsFinite, AtMostOneMore
<1>2. Cardinality(Gaps(n)') <= Cardinality(Gaps(m) \union {k})
  BY <1>1, FS_Subset
<1> QED
  BY <1>1, <1>2, GapsFinite

LEMMA OneGapLess ==
    ASSUME NEW m, NEW n, NEW k \in Gaps(m), Gaps(n)' \subseteq Gaps(m) \ {k}
    PROVE  Cardinality(Gaps(n)') + 1 <= Cardinality(Gaps(m))
<1>1. /\ IsFiniteSet(Gaps(m) \ {k})
      /\ Cardinality(Gaps(m) \ {k}) = Cardinality(Gaps(m)) - 1
      /\ Cardinality(Gaps(m) \ {k}) \in Nat
  BY GapsFinite, FS_RemoveElement, FS_CardinalityType
<1>2. Cardinality(Gaps(n)') <= Cardinality(Gaps(m) \ {k})
  BY <1>1, FS_Subset
<1> QED
  BY <1>1, <1>2, GapsFinite

\* A gap that moves counts as before.
LEMMA MovedGap ==
    ASSUME NEW m, NEW k, NEW j \in Gaps(m), Gaps(m)' \subseteq (Gaps(m) \ {j}) \union {k}
    PROVE  Cardinality(Gaps(m)') <= Cardinality(Gaps(m))
<1>1. /\ IsFiniteSet(Gaps(m) \ {j})
      /\ Cardinality(Gaps(m) \ {j}) = Cardinality(Gaps(m)) - 1
      /\ Cardinality(Gaps(m) \ {j}) \in Nat
  BY GapsFinite, FS_RemoveElement, FS_CardinalityType
<1>2. /\ IsFiniteSet((Gaps(m) \ {j}) \union {k})
      /\ Cardinality((Gaps(m) \ {j}) \union {k}) \in Nat
      /\ Cardinality((Gaps(m) \ {j}) \union {k}) <= Cardinality(Gaps(m) \ {j}) + 1
  BY <1>1, AtMostOneMore
<1>3. Cardinality(Gaps(m)') <= Cardinality((Gaps(m) \ {j}) \union {k})
  BY <1>2, FS_Subset
<1> QED
  BY <1>1, <1>2, <1>3, GapsFinite

\* A step that keeps the directory, and ends a rotation half-way only with a fault.
LEMMA GapsQuiet ==
    ASSUME GapsBounded, dir' = dir, Len(content') = Len(content),
           faults \in Nat, faults' \in {faults, faults + 1},
           \A u \in Threads : op'[u].pc = "rename" => op'[u] = op[u],
           \/ dir[0] = 0
           \/ faults' = faults + 1
           \/ \A u \in Threads : op[u].pc = "rename" => op'[u].pc = "rename"
    PROVE  GapsBounded'
<1>1. faults + Slack <= faults' + Slack' /\ faults <= faults' /\ faults' \in Nat
      /\ Slack \in {0, 1} /\ Slack' \in {0, 1}
  BY DEF Slack
<1>2. \A m : Gaps(m)' = Gaps(m)
  BY DEF Gaps
<1>3. \A m : Cardinality(Gaps(m)) \in Nat
  BY GapsFinite
<1>4. Files' = Files /\ \A f : Kept(f)' <=> Kept(f)
  BY DEF Files, Kept
<1> DEFINE before == faults + Slack
           after == faults' + Slack'
<1>0. before \in Nat /\ after \in Nat /\ before <= after
  <2>1. \A f \in Nat, s \in {0, 1} : f + s \in Nat
    OBVIOUS
  <2>2. before \in Nat
    BY <1>1, <2>1
  <2>3. after \in Nat
    BY <1>1, <2>1
  <2> QED
    BY <1>1, <2>2, <2>3
<1> HIDE DEF before, after
<1>5. \A m \in Names : dir'[m] # 0 => Cardinality(Gaps(m)') <= faults' + Slack'
  <2> SUFFICES ASSUME NEW m \in Names, dir[m] # 0
               PROVE  Cardinality(Gaps(m)') <= faults' + Slack'
    OBVIOUS
  <2>1. Cardinality(Gaps(m)') = Cardinality(Gaps(m)) /\ Cardinality(Gaps(m)) <= before
    BY <1>2 DEF GapsBounded, before
  <2>2. Cardinality(Gaps(m)') <= after
    BY <1>0, <1>3, <2>1
  <2> QED
    BY <2>2 DEF after
<1>6. (\E f \in Files' : ~Kept(f)') => Cardinality(Gaps(BackupCount + 1)') <= faults' + Slack'
  <2> SUFFICES ASSUME NEW f \in Files, ~Kept(f)
               PROVE  Cardinality(Gaps(BackupCount + 1)') <= faults' + Slack'
    BY <1>4
  <2> DEFINE m == BackupCount + 1
  <2>1. Cardinality(Gaps(m)) <= before
    BY DEF GapsBounded, before
  <2> HIDE DEF m
  <2>2. Cardinality(Gaps(m)') = Cardinality(Gaps(m))
    BY <1>2
  <2>3. Cardinality(Gaps(m)') <= after
    BY <1>0, <1>3, <2>1, <2>2
  <2> QED
    BY <2>3 DEF m, after
<1>7. \A t \in Threads : op'[t].pc = "rename" =>
         \A m \in Names : m <= op'[t].from /\ dir'[m] # 0 => Cardinality(Gaps(m)') <= faults'
  BY <1>1, <1>2, <1>3 DEF GapsBounded
<1> QED
  BY <1>5, <1>6, <1>7 DEF GapsBounded

\* An append fills the first gap.
LEMMA GapsAppend ==
    ASSUME Inv, GapsBounded, NEW t \in Threads, AppendEffect(t)
    PROVE  GapsBounded'
<1>1. /\ Len(content) \in Nat /\ 0 \in Names /\ faults \in Nat
      /\ \A k \in Names : dir[k] \in 0..Len(content)
  BY Fragmentwise DEF Inv
<1>2. /\ \A u \in Threads : op[u].pc # "rename" /\ op'[u].pc # "rename"
      /\ faults' = faults
  BY DEF AppendEffect, OthersStay
<1>3. CASE DiskSame
  BY <1>1, <1>2, <1>3, GapsQuiet DEF DiskSame
<1>4. CASE NewFile
  <2>1. Slack = 1 /\ Slack' = 0
    BY <1>2, <1>4 DEF Slack, NewFile, AppendEffect
  <2>2. \A m : Cardinality(Gaps(m)) \in Nat /\ Cardinality(Gaps(m)') \in Nat
    BY GapsFinite
  <2>3. ASSUME NEW m \in Nat, m > 0, Cardinality(Gaps(m)) <= faults + Slack
        PROVE  Cardinality(Gaps(m)') <= faults' + Slack'
    <3>1. 0 \in Gaps(m)
      BY <1>1, <1>4, <2>3 DEF Gaps, NewFile
    <3>2. Gaps(m)' \subseteq Gaps(m) \ {0}
      BY <1>1, <1>4 DEF Gaps, NewFile
    <3>3. Cardinality(Gaps(m)') + 1 <= Cardinality(Gaps(m))
      BY <3>1, <3>2, OneGapLess
    <3> QED
      BY <1>1, <1>2, <2>1, <2>2, <2>3, <3>3
  <2>4. ASSUME NEW m \in Names, dir'[m] # 0 PROVE Cardinality(Gaps(m)') <= faults' + Slack'
    <3>1. m \in Nat
      BY FileAssumption DEF Names
    <3>2. CASE m = 0
      <4>1. Gaps(m)' = {}
        BY <3>2, FileAssumption DEF Gaps, Names
      <4>2. Cardinality(Gaps(m)') = 0
        BY <4>1, FS_EmptySet
      <4> QED
        BY <1>1, <1>2, <2>1, <4>2
    <3>3. CASE m # 0
      <4>1. dir[m] # 0 /\ m > 0
        BY <1>4, <2>4, <3>1, <3>3 DEF NewFile
      <4> QED
        BY <2>3, <3>1, <4>1 DEF GapsBounded
    <3> QED
      BY <3>2, <3>3
  <2>5. ASSUME NEW f \in Files', ~Kept(f)'
        PROVE  Cardinality(Gaps(BackupCount + 1)') <= faults' + Slack'
    <3>1. f # Len(content) + 1
      BY <1>1, <1>4, <2>5 DEF NewFile, Kept
    <3>2. f \in Files
      BY <1>1, <1>4, <3>1 DEF NewFile, Files
    <3>3. ~Kept(f)
      BY <1>1, <1>4, <2>5, <3>2 DEF Kept, NewFile, Files
    <3>4. BackupCount + 1 \in Nat /\ BackupCount + 1 > 0
      BY FileAssumption
    <3> QED
      BY <2>3, <3>2, <3>3, <3>4 DEF GapsBounded
  <2> QED
    BY <1>2, <2>4, <2>5 DEF GapsBounded
<1> QED
  BY <1>3, <1>4 DEF AppendEffect

\* An unlink makes one gap where there was a file, or nothing was dropped.
LEMMA GapsUnlink ==
    ASSUME Inv, GapsBounded, NEW t \in Threads, RecOK(t), UnlinkEffect(t)
    PROVE  GapsBounded'
<1> DEFINE B == BackupCount
<1>1. /\ Len(content) \in Nat /\ 0 \in Names /\ faults \in Nat
      /\ \A k \in Names : dir[k] \in 0..Len(content)
  BY Fragmentwise DEF Inv
<1>2. /\ \A j \in Names : dir'[j] = IF j = B THEN 0 ELSE dir[j]
      /\ content' = content /\ faults' = faults
      /\ op'[t].pc = "rename" /\ op'[t].from = B - 1 /\ op[t].pc = "unlink"
      /\ \A u \in Threads \ {t} : op'[u] = op[u]
  BY DEF UnlinkEffect, OthersStay
<1>3. \A u \in Threads \ {t} : op[u].pc = "idle"
  BY <1>2 DEF Inv, Exclusive
<1>4. dir[0] # 0
  BY <1>2 DEF RecOK
<1>5. Slack = 0 /\ Slack' = 1
  BY <1>2, <1>3, <1>4 DEF Slack
<1>6. \A m : Cardinality(Gaps(m)) \in Nat /\ Cardinality(Gaps(m)') \in Nat
  BY GapsFinite
<1>7. B \in Names /\ B \in Nat /\ \A j \in Names : j \in Nat /\ j <= B
  BY FileAssumption DEF Names
<1> HIDE DEF B
<1>8. ASSUME NEW m \in Names, dir'[m] # 0
      PROVE  Cardinality(Gaps(m)') <= faults
  <2>1. m # B /\ dir[m] # 0 /\ m < B
    BY <1>2, <1>7, <1>8
  <2>2. Gaps(m)' \subseteq Gaps(m)
    <3> SUFFICES ASSUME NEW j \in Gaps(m)' PROVE j \in Gaps(m)
      OBVIOUS
    <3>1. j \in Names /\ j < m /\ dir'[j] = 0
      BY DEF Gaps
    <3>2. j # B
      BY <1>7, <2>1, <3>1
    <3> QED
      BY <1>2, <3>1, <3>2 DEF Gaps
  <2>3. Cardinality(Gaps(m)') <= Cardinality(Gaps(m))
    BY <2>2, FewerGaps
  <2>4. Cardinality(Gaps(m)) <= faults
    BY <1>1, <1>5, <2>1 DEF GapsBounded
  <2> QED
    BY <1>1, <1>6, <2>3, <2>4
<1>9. ASSUME NEW f \in Files', ~Kept(f)'
      PROVE  Cardinality(Gaps(B + 1)') <= faults + 1
  <2>1. CASE dir[B] = 0
    <3>1. f \in Files /\ ~Kept(f)
      BY <1>1, <1>2, <1>9, <2>1 DEF Files, Kept
    <3>2. Cardinality(Gaps(B + 1)) <= faults
      BY <1>1, <1>5, <3>1 DEF GapsBounded, B
    <3>3. Gaps(B + 1)' \subseteq Gaps(B + 1)
      BY <1>2, <2>1 DEF Gaps
    <3> QED
      BY <1>1, <1>6, <3>2, <3>3, FewerGaps
  <2>2. CASE dir[B] # 0
    <3>1. Cardinality(Gaps(B)) <= faults
      BY <1>1, <1>5, <1>7, <2>2 DEF GapsBounded
    <3>2. Gaps(B + 1)' \subseteq Gaps(B) \union {B}
      <4> SUFFICES ASSUME NEW j \in Gaps(B + 1)', j # B PROVE j \in Gaps(B)
        OBVIOUS
      <4>1. j \in Names /\ dir'[j] = 0
        BY DEF Gaps
      <4>2. j < B
        BY <1>7, <4>1
      <4> QED
        BY <1>2, <4>1, <4>2 DEF Gaps
    <3>3. Cardinality(Gaps(B + 1)') <= Cardinality(Gaps(B)) + 1
      BY <3>2, OneMoreGap
    <3> QED
      BY <1>1, <1>6, <3>1, <3>3
  <2> QED
    BY <2>1, <2>2
<1>10. \A m \in Names : dir'[m] # 0 => Cardinality(Gaps(m)') <= faults' + Slack'
  BY <1>1, <1>2, <1>5, <1>6, <1>8
<1>11. \A u \in Threads : op'[u].pc = "rename" =>
          \A m \in Names : m <= op'[u].from /\ dir'[m] # 0 => Cardinality(Gaps(m)') <= faults'
  BY <1>2, <1>8
<1> QED
  BY <1>2, <1>5, <1>9, <1>10, <1>11 DEF GapsBounded, B

\* A rename moves one gap down.
LEMMA GapsRename ==
    ASSUME Inv, GapsBounded, NEW t \in Threads, RecOK(t), RenameEffect(t)
    PROVE  GapsBounded'
<1> DEFINE k == op[t].from
<1>1. /\ Len(content) \in Nat /\ 0 \in Names /\ faults \in Nat
      /\ \A j \in Names : dir[j] \in 0..Len(content)
  BY Fragmentwise DEF Inv
<1>2. /\ \A j \in Names : dir'[j] = IF j = k THEN 0 ELSE IF j = k + 1 THEN dir[k] ELSE dir[j]
      /\ content' = content /\ faults' = faults
      /\ op[t].pc = "rename"
      /\ \/ k > 0 /\ op'[t].pc = "rename" /\ op'[t].from = k - 1
         \/ k = 0 /\ op'[t].pc = "idle"
      /\ \A u \in Threads \ {t} : op'[u] = op[u]
  BY DEF RenameEffect, OthersStay
<1>3. /\ k \in Names /\ k + 1 \in Names /\ k \in Nat /\ dir[k + 1] = 0 /\ k + 1 <= BackupCount
      /\ \A j \in Names : j \in Nat /\ j <= BackupCount
  BY <1>2, RenameNames, FileAssumption DEF RecOK, Names
<1>4. \A u \in Threads \ {t} : op[u].pc = "idle"
  BY <1>2 DEF Inv, Exclusive
<1>5. dir[0] # 0 /\ Slack = 1
  BY <1>2 DEF RecOK, Slack
<1>6. Slack' = 1
  BY <1>1, <1>2, <1>3 DEF Slack
<1>7. \A m : Cardinality(Gaps(m)) \in Nat /\ Cardinality(Gaps(m)') \in Nat
  BY GapsFinite
<1>8. \A m \in Names : m <= k /\ dir[m] # 0 => Cardinality(Gaps(m)) <= faults
  BY <1>2 DEF GapsBounded
<1> HIDE DEF k
<1>9. ASSUME NEW m \in Nat, m <= BackupCount + 1, m > k + 1,
             Cardinality(Gaps(m)) <= faults + 1
      PROVE  Cardinality(Gaps(m)') <= faults + 1
  <2>1. k + 1 \in Gaps(m)
    BY <1>3, <1>9 DEF Gaps
  <2>2. CASE dir[k] # 0
    <3>1. Gaps(m)' \subseteq (Gaps(m) \ {k + 1}) \union {k}
      BY <1>2, <1>3, <2>2 DEF Gaps
    <3>2. Cardinality(Gaps(m)') <= Cardinality(Gaps(m))
      BY <2>1, <3>1, MovedGap
    <3> QED
      BY <1>1, <1>7, <1>9, <3>2
  <2>3. CASE dir[k] = 0
    <3>1. Gaps(m)' \subseteq Gaps(m)
      BY <1>2, <1>3, <2>3 DEF Gaps
    <3>2. Cardinality(Gaps(m)') <= Cardinality(Gaps(m))
      BY <3>1, FewerGaps
    <3> QED
      BY <1>1, <1>7, <1>9, <3>2
  <2> QED
    BY <2>2, <2>3
<1>10. ASSUME NEW m \in Names, m < k, dir'[m] # 0
       PROVE  Cardinality(Gaps(m)') <= faults
  <2>0. m # k /\ m # k + 1 /\ m <= k /\ m \in Nat
    BY <1>3, <1>10
  <2>1. dir[m] # 0 /\ m <= k
    BY <1>2, <1>10, <2>0
  <2>2. Gaps(m)' \subseteq Gaps(m)
    <3> SUFFICES ASSUME NEW j \in Gaps(m)' PROVE j \in Gaps(m)
      OBVIOUS
    <3>1. j \in Names /\ j < m /\ dir'[j] = 0
      BY DEF Gaps
    <3>2. j # k /\ j # k + 1
      BY <1>3, <1>10, <2>0, <3>1
    <3> QED
      BY <1>2, <3>1, <3>2 DEF Gaps
  <2>3. Cardinality(Gaps(m)') <= Cardinality(Gaps(m))
    BY <2>2, FewerGaps
  <2> QED
    BY <1>1, <1>7, <1>8, <2>1, <2>3
<1>11. ASSUME NEW m \in Names, dir'[m] # 0
       PROVE  Cardinality(Gaps(m)') <= faults + 1
  <2>1. m # k
    BY <1>2, <1>11
  <2>2. CASE m < k
    BY <1>1, <1>7, <1>10, <1>11, <2>2
  <2>3. CASE m = k + 1
    <3>1. dir[k] # 0
      BY <1>2, <1>3, <1>11, <2>3
    <3>2. Gaps(m)' \subseteq Gaps(k) \union {k}
      <4> SUFFICES ASSUME NEW j \in Gaps(m)', j # k PROVE j \in Gaps(k)
        OBVIOUS
      <4>1. j \in Names /\ j < m /\ dir'[j] = 0
        BY DEF Gaps
      <4>2. j < k /\ j # k + 1
        BY <1>3, <2>3, <4>1
      <4> QED
        BY <1>2, <4>1, <4>2 DEF Gaps
    <3>3. Cardinality(Gaps(m)') <= Cardinality(Gaps(k)) + 1
      BY <3>2, OneMoreGap
    <3>4. Cardinality(Gaps(k)) <= faults
      BY <1>3, <1>8, <3>1
    <3> QED
      BY <1>1, <1>7, <3>3, <3>4
  <2>4. CASE m > k + 1
    <3>1. dir[m] # 0 /\ m \in Nat /\ m <= BackupCount + 1
      BY <1>2, <1>3, <1>11, <2>4, FileAssumption
    <3>2. Cardinality(Gaps(m)) <= faults + 1
      BY <1>5, <3>1 DEF GapsBounded
    <3> QED
      BY <1>9, <2>4, <3>1, <3>2
  <2> QED
    BY <1>3, <2>1, <2>2, <2>3, <2>4
<1>12. ASSUME NEW f \in Files', ~Kept(f)'
       PROVE  Cardinality(Gaps(BackupCount + 1)') <= faults + 1
  <2>1. f \in Files /\ f # 0
    BY <1>1, <1>2 DEF Files
  <2>2. ~Kept(f)
    BY <1>2, <1>3, <1>12, <2>1 DEF Kept
  <2>3. Cardinality(Gaps(BackupCount + 1)) <= faults + 1
    BY <1>5, <2>1, <2>2 DEF GapsBounded
  <2>4. BackupCount + 1 \in Nat /\ BackupCount + 1 > k + 1 /\ BackupCount + 1 <= BackupCount + 1
    BY <1>3, FileAssumption
  <2> QED
    BY <1>9, <2>3, <2>4
<1>13. \A u \in Threads : op'[u].pc = "rename" =>
          \A m \in Names : m <= op'[u].from /\ dir'[m] # 0 => Cardinality(Gaps(m)') <= faults'
  <2> SUFFICES ASSUME NEW u \in Threads, op'[u].pc = "rename", NEW m \in Names,
                      m <= op'[u].from, dir'[m] # 0
               PROVE  Cardinality(Gaps(m)') <= faults
    BY <1>2
  <2>1. u = t /\ op'[t].from = k - 1
    BY <1>2, <1>4
  <2>2. m <= k - 1 /\ m \in Nat
    BY <1>3, <2>1
  <2>3. m < k
    BY <1>3, <2>2
  <2> QED
    BY <1>10, <2>3
<1> QED
  BY <1>2, <1>6, <1>11, <1>12, <1>13 DEF GapsBounded

LEMMA GapsStep ==
    ASSUME Inv, GapsBounded, \A t \in Threads : RecOK(t), Effects
    PROVE  GapsBounded'
<1>1. faults \in Nat
  BY Fragmentwise DEF Inv
<1>2. ASSUME NEW t \in Threads,
             \/ FailEffect(t) \/ FlushedEffect(t) \/ CloseActiveEffect(t) \/ WriteEffect
             \/ CloseEffect(t) \/ CloseEndsEffect(t) \/ IterEffect(t)
      PROVE  GapsBounded'
  <2>1. dir' = dir /\ Len(content') = Len(content) /\ faults' \in {faults, faults + 1}
    BY <1>2 DEF FailEffect, FlushedEffect, CloseActiveEffect, WriteEffect, Longer,
                CloseEffect, CloseEndsEffect, IterEffect, DiskSame, Loses
  <2>2. \A u \in Threads : op'[u].pc = "rename" => op'[u] = op[u]
    BY <1>2 DEF FailEffect, FlushedEffect, CloseActiveEffect, WriteEffect,
                CloseEffect, CloseEndsEffect, IterEffect, OthersStay
  <2>3. \/ faults' = faults + 1
        \/ \A u \in Threads : op[u].pc = "rename" => op'[u].pc = "rename"
    BY <1>2 DEF FailEffect, FlushedEffect, CloseActiveEffect, WriteEffect,
                CloseEffect, CloseEndsEffect, IterEffect, OthersStay
  <2> QED
    BY <1>1, <2>1, <2>2, <2>3, GapsQuiet
<1>3. CASE FreshEffect \/ NothingEffect
  <2>1. dir' = dir /\ Len(content') = Len(content) /\ faults' \in {faults, faults + 1}
    BY <1>3 DEF FreshEffect, NothingEffect, DiskSame
  <2>2. \A u \in Threads : op'[u].pc = "rename" => op'[u] = op[u]
    BY <1>3 DEF FreshEffect, NothingEffect
  <2>3. \/ faults' = faults + 1
        \/ \A u \in Threads : op[u].pc = "rename" => op'[u].pc = "rename"
    BY <1>3 DEF FreshEffect, NothingEffect
  <2> QED
    BY <1>1, <2>1, <2>2, <2>3, GapsQuiet
<1> QED
  BY <1>2, <1>3, GapsAppend, GapsUnlink, GapsRename DEF Effects, CallEffect

-----------------------------------------------------------------------------
(* What the calls have reached.                                            *)

\* Whoever is in a call is alone in it.
LEMMA Alone ==
    ASSUME Inv, NEW t \in Threads, op[t].pc # "idle"
    PROVE  \A u \in Threads \ {t} : op[u].pc = "idle"
BY DEF Inv, Exclusive

LEMMA ClosedStep ==
    ASSUME Inv, ClosedOK, Effects
    PROVE  ClosedOK'
<1>1. CASE FreshEffect \/ NothingEffect
  BY <1>1 DEF FreshEffect, NothingEffect, ClosedOK
<1>2. ASSUME NEW t \in Threads,
             AppendEffect(t) \/ CloseActiveEffect(t) \/ CloseEffect(t) \/ CloseEndsEffect(t)
      PROVE  ClosedOK'
  BY <1>2 DEF AppendEffect, CloseActiveEffect, CloseEffect, CloseEndsEffect, ClosedOK
<1>3. ASSUME NEW t \in Threads, WriteEffect \/ IterEffect(t)
      PROVE  ClosedOK'
  BY <1>3 DEF WriteEffect, IterEffect, ClosedOK
<1>4. ASSUME NEW t \in Threads,
             FailEffect(t) \/ FlushedEffect(t) \/ UnlinkEffect(t) \/ RenameEffect(t)
      PROVE  ClosedOK'
  <2>1. /\ op[t].pc \in {"flush", "close", "unlink", "rename"}
        /\ closed' = closed /\ handle' \in {handle, "dead"}
    BY <1>4 DEF FailEffect, FlushedEffect, UnlinkEffect, RenameEffect
  <2>2. \A u \in Threads : op[u].pc # "closing"
    BY <2>1, Alone
  <2> QED
    BY <2>1, <2>2 DEF ClosedOK
<1> QED
  BY <1>1, <1>2, <1>3, <1>4 DEF Effects, CallEffect

\* A new record has a number that none before it has.
LEMMA NewRecord ==
    ASSUME Inv, AckedWritten, count + 1 \in Ids
    PROVE  count + 1 \notin acked
<1> SUFFICES ASSUME count + 1 \in acked PROVE FALSE
  OBVIOUS
<1>1. PICK f \in Files : Has(f, TailOf(count + 1))
  BY DEF AckedWritten
<1>2. PICK p \in 1..Len(content[f]) : content[f][p] = TailOf(count + 1)
  BY <1>1 DEF Has
<1>3. content[f][p].id <= count
  BY DEF Inv, OrderInv, BufferLast, Files
<1>4. content[f][p].id = count + 1
  BY <1>2, FragmentForms
<1>5. count \in Nat
  BY FileAssumption DEF Inv, TypeOK
<1> QED
  BY <1>3, <1>4, <1>5

LEMMA RecStep ==
    ASSUME Inv, TypeOK', AckedWritten, \A t \in Threads : RecOK(t), Effects,
           NEW u \in Threads
    PROVE  RecOK(u)'
<1>1. /\ TypeOK
      /\ Len(content) \in Nat /\ 0 \in Names
      /\ \A f \in Files : Len(content[f]) \in Nat
      /\ Len(buffer) \in Nat /\ ((buffer = <<>>) <=> (Len(buffer) = 0))
      /\ \A k \in Names : dir[k] \in 0..Len(content)
  BY Fragmentwise DEF Inv
<1>2. Len(buffer') \in Nat /\ ((buffer' = <<>>) <=> (Len(buffer') = 0))
  BY EmptySeq, LenProperties DEF TypeOK
<1>3. CASE op'[u].pc \in {"idle", "closing"}
  BY <1>3 DEF RecOK
<1>4. CASE /\ DiskSame /\ op'[u] = op[u] /\ acked' = acked /\ buffer' = buffer
  BY <1>4 DEF RecOK, DiskSame, Has
<1>5. ASSUME NEW t \in Threads, AppendEffect(t), u = t
      PROVE  RecOK(u)'
  <2>1. /\ dir'[0] # 0 /\ acked' = acked /\ count + 1 \in Ids
        /\ op'[t].pc = "flush" /\ op'[t].rec = count + 1
        /\ Len(buffer') = Len(buffer) + 2 /\ buffer'[Len(buffer) + 2] = TailOf(count + 1)
    BY <1>5 DEF AppendEffect
  <2>2. buffer' # <<>>
    BY <1>1, <1>2, <2>1
  <2>3. count + 1 \notin acked
    BY <2>1, NewRecord
  <2> QED
    BY <1>5, <2>1, <2>2, <2>3 DEF RecOK
<1>6. CASE WriteEffect
  <2>1. /\ op' = op /\ acked' = acked /\ dir' = dir /\ dir[0] \in Files
        /\ Len(buffer') = Len(buffer) - 1 /\ Len(buffer) # 0 /\ buffer # <<>>
        /\ \A q \in 1..Len(buffer') : buffer'[q] = buffer[q + 1]
    BY <1>1, <1>6 DEF WriteEffect
  <2>2. CASE op[u].pc = "flush"
    <3>1. /\ dir[0] # 0 /\ op[u].rec \notin acked
          /\ buffer[Len(buffer)] = TailOf(op[u].rec)
      BY <2>1, <2>2 DEF RecOK
    <3>2. CASE buffer' = <<>>
      <4>1. Len(buffer) = 1
        BY <1>1, <1>2, <2>1, <3>2
      <4>2. Len(content[dir[0]]) + 1 \in 1..Len(content'[dir[0]])
            /\ content'[dir[0]][Len(content[dir[0]]) + 1] = TailOf(op[u].rec)
        BY <1>1, <1>6, <2>1, <3>1, <4>1 DEF WriteEffect, Longer
      <4> QED
        BY <2>1, <2>2, <3>1, <3>2, <4>2 DEF RecOK, Has
    <3>3. CASE buffer' # <<>>
      <4>1. Len(buffer') \in 1..Len(buffer') /\ Len(buffer') + 1 = Len(buffer)
        BY <1>1, <1>2, <2>1, <3>3
      <4>2. buffer'[Len(buffer')] = TailOf(op[u].rec)
        BY <2>1, <3>1, <4>1
      <4> QED
        BY <2>1, <2>2, <3>1, <3>3, <4>2 DEF RecOK
    <3> QED
      BY <3>2, <3>3
  <2>3. CASE op[u].pc # "flush"
    <3>1. op[u].pc \notin {"close", "unlink", "rename"}
      BY <2>1 DEF Inv, ThreadOK, OpOK
    <3> QED
      BY <2>1, <2>3, <3>1 DEF RecOK
  <2> QED
    BY <2>2, <2>3
<1>7. ASSUME NEW t \in Threads, FlushedEffect(t) \/ CloseActiveEffect(t), u = t
      PROVE  RecOK(u)'
  <2>1. CASE op'[t].pc = "idle"
    BY <1>3, <1>7, <2>1
  <2>2. CASE op'[t].pc # "idle"
    <3>1. /\ DiskSame /\ acked' = acked /\ buffer' = buffer /\ buffer = <<>>
          /\ op[t].pc \in {"flush", "close"} /\ op'[t].rec = op[t].rec
          /\ op'[t].pc \in {"close", "unlink"}
      BY <1>7, <2>2 DEF FlushedEffect, CloseActiveEffect
    <3>2. dir[0] # 0 /\ op[t].rec \notin acked /\ Has(dir[0], TailOf(op[t].rec))
      BY <3>1 DEF RecOK
    <3>3. dir'[0] # 0 /\ op'[t].rec \notin acked' /\ Has(dir[0], TailOf(op[t].rec))'
      BY <3>1, <3>2 DEF DiskSame, Has
    <3> QED
      BY <1>7, <3>1, <3>3 DEF RecOK
  <2> QED
    BY <2>1, <2>2
<1>8. ASSUME NEW t \in Threads, UnlinkEffect(t), u = t
      PROVE  RecOK(u)'
  <2>1. /\ content' = content /\ acked' = acked
        /\ \A j \in Names : dir'[j] = IF j = BackupCount THEN 0 ELSE dir[j]
        /\ op[t].pc = "unlink" /\ op'[t].pc = "rename" /\ op'[t].rec = op[t].rec
        /\ op'[t].from = BackupCount - 1
    BY <1>8 DEF UnlinkEffect
  <2>2. BackupCount \in Names /\ BackupCount # 0 /\ op'[t].from + 1 = BackupCount
    BY <2>1, FileAssumption DEF Names
  <2>3. dir'[0] = dir[0] /\ dir'[op'[t].from + 1] = 0
    BY <1>1, <2>1, <2>2
  <2>4. dir[0] # 0 /\ op[t].rec \notin acked /\ Has(dir[0], TailOf(op[t].rec))
    BY <2>1 DEF RecOK
  <2>5. Has(dir[0], TailOf(op[t].rec))'
    BY <2>1, <2>3, <2>4 DEF Has
  <2> QED
    BY <1>8, <2>1, <2>3, <2>4, <2>5 DEF RecOK
<1>9. ASSUME NEW t \in Threads, RenameEffect(t), u = t
      PROVE  RecOK(u)'
  <2> DEFINE k == op[t].from
  <2>1. /\ content' = content
        /\ \A j \in Names : dir'[j] = IF j = k THEN 0 ELSE IF j = k + 1 THEN dir[k] ELSE dir[j]
        /\ op[t].pc = "rename"
        /\ \/ /\ k > 0 /\ op'[t].pc = "rename" /\ op'[t].rec = op[t].rec
              /\ op'[t].from = k - 1 /\ acked' = acked
           \/ op'[t].pc = "idle"
    BY <1>9 DEF RenameEffect
  <2>2. k \in Names /\ k + 1 \in Names /\ k # k + 1 /\ k \in Nat
    BY <1>9, RenameNames
  <2>3. CASE op'[t].pc = "idle"
    BY <1>3, <1>9, <2>3
  <2>4. CASE op'[t].pc # "idle"
    <3> HIDE DEF k
    <3>1. /\ k > 0 /\ op'[t].pc = "rename" /\ op'[t].rec = op[t].rec
          /\ op'[t].from = k - 1 /\ acked' = acked
      BY <2>1, <2>4
    <3>2. (k - 1) + 1 = k /\ 0 # k /\ 0 # k + 1
      BY <2>2, <3>1
    <3>3. dir'[op'[t].from + 1] = 0 /\ dir'[0] = dir[0]
      BY <1>1, <2>1, <2>2, <3>1, <3>2
    <3>4. dir[0] # 0 /\ op[t].rec \notin acked /\ Has(dir[0], TailOf(op[t].rec))
      BY <2>1 DEF RecOK
    <3>5. Has(dir[0], TailOf(op[t].rec))'
      BY <2>1, <3>1, <3>3, <3>4 DEF Has
    <3> QED
      BY <1>9, <3>1, <3>3, <3>4, <3>5 DEF RecOK
  <2> QED
    BY <2>3, <2>4
<1>10. ASSUME NEW t \in Threads, CallEffect(t), ~WriteEffect, u # t
       PROVE  RecOK(u)'
  <2>1. OthersStay(t) \/ op' = op
    BY <1>10 DEF CallEffect, AppendEffect, FailEffect, FlushedEffect, CloseActiveEffect,
                 UnlinkEffect, RenameEffect, CloseEffect, CloseEndsEffect
  <2>2. op'[u] = op[u]
    BY <1>10, <2>1 DEF OthersStay
  <2>3. CASE CloseEffect(t)
    BY <1>4, <2>2, <2>3 DEF CloseEffect
  <2>4. CASE ~CloseEffect(t)
    <3>1. op[u].pc = "idle"
      <4>1. AppendEffect(t) \/ op[t].pc # "idle"
        BY <1>10, <2>4 DEF CallEffect, FailEffect, FlushedEffect, CloseActiveEffect,
                           UnlinkEffect, RenameEffect, CloseEndsEffect
      <4> QED
        BY <1>10, <4>1, Alone DEF AppendEffect
    <3> QED
      BY <1>3, <2>2, <3>1
  <2> QED
    BY <2>3, <2>4
<1>11. ASSUME NEW t \in Threads,
              FailEffect(t) \/ CloseEndsEffect(t) \/ CloseEffect(t), u = t
       PROVE  RecOK(u)'
  <2>1. op'[t].pc \in {"idle", "closing"}
    BY <1>11 DEF FailEffect, CloseEndsEffect, CloseEffect
  <2> QED
    BY <1>3, <1>11, <2>1
<1>12. ASSUME NEW t \in Threads, IterEffect(t) PROVE RecOK(u)'
  BY <1>4, <1>12 DEF IterEffect
<1>13. CASE FreshEffect \/ NothingEffect
  BY <1>3, <1>4, <1>13 DEF FreshEffect, NothingEffect, DiskSame
<1> QED
  BY <1>5, <1>6, <1>7, <1>8, <1>9, <1>10, <1>11, <1>12, <1>13 DEF Effects, CallEffect

-----------------------------------------------------------------------------
(* Replay.                                                                 *)

\* A record lies in a file as a head with its tail behind it.
LEMMA RecordAt ==
    ASSUME NEW file \in Seq(Fragments), NEW i \in Ids, NEW p \in 1..(Len(file) - 1)
    PROVE  SubSeq(file, p, p + 1) = Record(i) <=> file[p] = HeadOf(i) /\ file[p + 1] = TailOf(i)
<1> DEFINE s == SubSeq(file, p, p + 1)
           r == Record(i)
<1>1. Len(file) \in Nat /\ p \in Int /\ p + 1 \in Int /\ p <= p + 1
      /\ (p + 1) - p + 1 = 2 /\ p + 1 - 1 = p /\ p + 2 - 1 = p + 1
  BY LenProperties
<1>2. \A q \in p..(p + 1) : file[q] \in Fragments
  <2> SUFFICES ASSUME NEW q \in p..(p + 1) PROVE file[q] \in Fragments
    OBVIOUS
  <2>1. q \in 1..Len(file)
    BY <1>1
  <2> QED
    BY <2>1, ElementOfSeq
<1>3. /\ s \in Seq(Fragments) /\ Len(s) = 2
      /\ \A q \in 1..2 : s[q] = file[p + q - 1]
  BY <1>1, <1>2, SubSeqProperties
<1>4. s[1] = file[p] /\ s[2] = file[p + 1]
  <2>1. s[1] = file[p + 1 - 1] /\ s[2] = file[p + 2 - 1]
    <3> HIDE DEF s
    <3> QED
      BY <1>3
  <2> QED
    BY <1>1, <2>1
<1>5. r \in Seq(Fragments) /\ Len(r) = 2 /\ r[1] = HeadOf(i) /\ r[2] = TailOf(i)
  BY RecordProperties DEF HeadOf, TailOf
<1> HIDE DEF s, r
<1>6. ASSUME s[1] = r[1], s[2] = r[2] PROVE s = r
  <2>1. \A q \in 1..Len(s) : s[q] = r[q]
    BY <1>3, <1>6
  <2> QED
    BY <1>3, <1>5, <2>1, SeqEqual
<1>7. s = r <=> file[p] = HeadOf(i) /\ file[p + 1] = TailOf(i)
  BY <1>4, <1>5, <1>6
<1> QED
  BY <1>7 DEF s, r

\* An iterator that goes on, with the same events behind it.
LEMMA ReplayMoved ==
    ASSUME NEW it, NEW r, ReplayOK(it),
           it.file \in Nat, it.pos \in Nat, r.pos \in Nat,
           r.out = it.out, r.file \in Nat, r.file \in 0..Len(content),
           it.file < r.file \/ (it.file = r.file /\ it.pos <= r.pos),
           \A k \in Names : dir[k] # 0 /\ Ahead(r, k) => r.file < dir[k]
    PROVE  ReplayOK(r)
<1> SUFFICES ASSUME NEW n \in 1..Len(it.out)
             PROVE  \E f \in Files : \E p \in 1..Len(content[f]) :
                       (f < r.file \/ (f = r.file /\ p <= r.pos)) /\ content[f][p] = TailOf(it.out[n])
  BY DEF ReplayOK
<1>1. PICK f \in Files : \E p \in 1..Len(content[f]) :
         (f < it.file \/ (f = it.file /\ p <= it.pos)) /\ content[f][p] = TailOf(it.out[n])
  BY DEF ReplayOK
<1>2. PICK p \in 1..Len(content[f]) :
         (f < it.file \/ (f = it.file /\ p <= it.pos)) /\ content[f][p] = TailOf(it.out[n])
  BY <1>1
<1>3. f \in Nat /\ p \in Nat
  BY DEF Files
<1>4. f < r.file \/ (f = r.file /\ p <= r.pos)
  BY <1>2, <1>3
<1> QED
  BY <1>2, <1>4

\* A step that leaves an iterator where it is.
LEMMA ReplayKept ==
    ASSUME TypeOK, Effects, NEW u \in Threads, ReplayOK(iter[u]),
           iter'[u].pc = iter[u].pc, iter'[u].left = iter[u].left,
           iter'[u].file = iter[u].file, iter'[u].pos = iter[u].pos,
           iter'[u].out = iter[u].out,
           \A k \in Names : dir'[k] # 0 /\ Ahead(iter[u], k) => iter[u].file < dir'[k]
    PROVE  ReplayOK(iter[u])'
<1>1. Len(content) \in Nat /\ Len(content) <= Len(content')
  BY ContentGrows, Fragmentwise
<1>2. PICK it : it = iter[u]
  OBVIOUS
<1>3. it.file \in 0..Len(content') /\ \A k \in Names : dir'[k] # 0 /\ Ahead(it, k) => it.file < dir'[k]
  BY <1>1, <1>2 DEF ReplayOK
<1>4. \A n \in 1..Len(it.out) : \E f \in Files' : \E p \in 1..Len(content'[f]) :
         (f < it.file \/ (f = it.file /\ p <= it.pos)) /\ content'[f][p] = TailOf(it.out[n])
  <2> SUFFICES ASSUME NEW n \in 1..Len(it.out)
               PROVE  \E f \in Files' : \E p \in 1..Len(content'[f]) :
                         /\ f < it.file \/ (f = it.file /\ p <= it.pos)
                         /\ content'[f][p] = TailOf(it.out[n])
    OBVIOUS
  <2>1. PICK f \in Files : \E p \in 1..Len(content[f]) :
           (f < it.file \/ (f = it.file /\ p <= it.pos)) /\ content[f][p] = TailOf(it.out[n])
    BY <1>2 DEF ReplayOK
  <2>2. PICK p \in 1..Len(content[f]) :
           (f < it.file \/ (f = it.file /\ p <= it.pos)) /\ content[f][p] = TailOf(it.out[n])
    BY <2>1
  <2>3. f \in Files' /\ p \in 1..Len(content'[f]) /\ content'[f][p] = content[f][p]
    BY ContentGrows
  <2> QED
    BY <2>2, <2>3
<1>5. \A m, n \in 1..Len(it.out) : m < n => it.out[m] < it.out[n]
  BY <1>2 DEF ReplayOK
<1>6. /\ iter'[u].pc = it.pc /\ iter'[u].left = it.left /\ iter'[u].file = it.file
      /\ iter'[u].pos = it.pos /\ iter'[u].out = it.out
  BY <1>2
<1> QED
  BY <1>3, <1>4, <1>5, <1>6 DEF ReplayOK, Ahead

\* The steps that are not of an iterator: the names ahead of it get no older file.
LEMMA ReplayCalls ==
    ASSUME Inv, Effects, ItersStay, NEW u \in Threads, ReplayOK(iter[u]),
           \A t \in Threads : RecOK(t)
    PROVE  ReplayOK(iter[u])'
<1>1. /\ TypeOK /\ Len(content) \in Nat /\ 0 \in Names
      /\ \A k \in Names : dir[k] \in 0..Len(content)
  BY Fragmentwise DEF Inv
<1>2. /\ iter'[u].pc = iter[u].pc /\ iter'[u].left = iter[u].left
      /\ iter'[u].file = iter[u].file /\ iter'[u].pos = iter[u].pos
      /\ iter'[u].out = iter[u].out
  BY DEF ItersStay
<1> DEFINE it == iter[u]
<1>3. /\ it.file \in 0..Len(content) /\ it.left \in Nat
      /\ \A k \in Names : dir[k] # 0 /\ Ahead(it, k) => it.file < dir[k]
  <2>1. it \in Iterators
    BY <1>1 DEF TypeOK
  <2>2. it.left \in Nat
    BY <2>1, FileAssumption DEF Iterators
  <2> QED
    BY <2>2 DEF ReplayOK
<1>4. \A k \in Names : dir'[k] # 0 /\ Ahead(it, k) => it.file < dir'[k]
  <2>1. CASE dir' = dir
    BY <1>3, <2>1
  <2>2. CASE NewFile
    <3> HIDE DEF it
    <3>1. it.file < Len(content) + 1
      BY <1>1, <1>3
    <3> QED
      BY <1>3, <2>2, <3>1 DEF NewFile
  <2>3. ASSUME NEW t \in Threads, UnlinkEffect(t)
        PROVE  \A k \in Names : dir'[k] # 0 /\ Ahead(it, k) => it.file < dir'[k]
    BY <1>3, <2>3 DEF UnlinkEffect
  <2>4. ASSUME NEW t \in Threads, RenameEffect(t)
        PROVE  \A k \in Names : dir'[k] # 0 /\ Ahead(it, k) => it.file < dir'[k]
    <3> DEFINE j == op[t].from
    <3>1. \A k \in Names : dir'[k] = IF k = j THEN 0 ELSE IF k = j + 1 THEN dir[j] ELSE dir[k]
      BY <2>4 DEF RenameEffect
    <3>2. j \in Names /\ j \in Nat
      BY <2>4, RenameNames
    <3> HIDE DEF j, it
    <3> SUFFICES ASSUME NEW k \in Names, dir'[k] # 0, Ahead(it, k)
                 PROVE  it.file < dir'[k]
      OBVIOUS
    <3>3. CASE k = j + 1
      <4>1. dir'[k] = dir[j] /\ dir[j] # 0
        BY <3>1, <3>2, <3>3
      <4>2. Ahead(it, j)
        BY <1>3, <3>2, <3>3 DEF Ahead
      <4> QED
        BY <1>3, <3>2, <4>1, <4>2
    <3>4. CASE k # j + 1
      BY <1>3, <3>1, <3>4
    <3> QED
      BY <3>3, <3>4
  <2> QED
    BY <2>1, <2>2, <2>3, <2>4, DirCases DEF AppendEffect, DiskSame
<1> QED
  BY <1>1, <1>2, <1>4, ReplayKept

\* What an iterator becomes decides what is behind it.
LEMMA ReplayBecomes ==
    ASSUME TypeOK, NEW t \in Threads, NEW r, Iterates(t, r), ReplayOK(r)
    PROVE  ReplayOK(iter[t])'
<1>1. iter'[t] = r /\ content' = content /\ dir' = dir
  BY DEF Iterates, TypeOK, disk
<1> QED
  BY <1>1 DEF ReplayOK, Ahead, Files

LEMMA ReplayBegins ==
    ASSUME TypeOK, NEW r, r.file = 0, r.out = <<>>
    PROVE  ReplayOK(r)
<1>1. Len(content) \in Nat /\ \A k \in Names : dir[k] \in 0..Len(content)
  BY Fragmentwise
<1>2. Len(r.out) = 0
  BY EmptySeq
<1> QED
  BY <1>1, <1>2 DEF ReplayOK

LEMMA ReplayNext ==
    ASSUME TypeOK, NEW it \in Iterators, ReplayOK(it)
    PROVE  ReplayOK(NextFile(it))
<1> DEFINE r == NextFile(it)
<1>1. /\ r.pc = "open" /\ r.left = it.left - 1 /\ r.file = it.file
      /\ r.pos = it.pos /\ r.out = it.out
  BY DEF NextFile, Iterators
<1>2. it.file \in Nat /\ it.pos \in Nat /\ it.left \in Nat
  BY FileAssumption DEF Iterators
<1>3. it.file \in 0..Len(content)
  BY DEF ReplayOK
<1> HIDE DEF r
<1>4. \A k \in Names : Ahead(r, k) => Ahead(it, k)
  <2> SUFFICES ASSUME NEW k \in Names, Ahead(r, k) PROVE k < it.left - 1
    BY DEF Ahead
  <2>1. k \in Nat
    BY FileAssumption DEF Names
  <2>2. k < it.left - 2 \/ k = it.left - 2
    BY <1>1, <1>2, <2>1 DEF Ahead
  <2> QED
    BY <1>2, <2>1, <2>2
<1>5. \A k \in Names : dir[k] # 0 /\ Ahead(r, k) => r.file < dir[k]
  BY <1>1, <1>4 DEF ReplayOK
<1>6. r.file \in 0..Len(content) /\ it.file = r.file /\ it.pos <= r.pos
      /\ r.file \in Nat /\ r.pos \in Nat
  BY <1>1, <1>2, <1>3
<1>7. ReplayOK(r)
  BY <1>1, <1>2, <1>5, <1>6, ReplayMoved
<1> QED
  BY <1>7 DEF r

\* The file that is opened is newer than the one before it, and older than those
\* that the lower names have.
LEMMA ReplayOpens ==
    ASSUME Inv, NEW it \in Iterators, ReplayOK(it), it.pc = "open", it.left > 0,
           dir[NameOf(it)] # 0
    PROVE  ReplayOK([it EXCEPT !.pc = "read", !.file = dir[NameOf(it)], !.pos = 0])
<1> DEFINE n == NameOf(it)
           r == [it EXCEPT !.pc = "read", !.file = dir[n], !.pos = 0]
<1>1. it.file \in Nat /\ it.pos \in Nat /\ it.left \in Nat /\ n = it.left - 1 /\ n \in Names
  <2>1. it.file \in Nat /\ it.pos \in Nat /\ it.left \in 0..(BackupCount + 1)
    BY DEF Iterators
  <2> QED
    BY SMTT(30), <2>1, FileAssumption DEF NameOf, Names
<1>2. dir[n] \in 0..Len(content) /\ Len(content) \in Nat
  BY <1>1, Fragmentwise DEF Inv
<1>3. /\ r.pc = "read" /\ r.left = it.left /\ r.file = dir[n] /\ r.pos = 0 /\ r.out = it.out
  <2> HIDE DEF n
  <2> QED
    BY DEF Iterators
<1> HIDE DEF r, n
<1>4. it.file < dir[n]
  <2>1. Ahead(it, n)
    BY <1>1 DEF Ahead
  <2> QED
    BY <1>1, <2>1 DEF ReplayOK, n
<1>5. \A k \in Names : dir[k] # 0 /\ Ahead(r, k) => r.file < dir[k]
  <2> SUFFICES ASSUME NEW k \in Names, dir[k] # 0, Ahead(r, k) PROVE dir[n] < dir[k]
    BY <1>3
  <2>1. k \in Nat
    BY FileAssumption DEF Names
  <2>2. k < n
    BY <1>1, <1>3, <2>1 DEF Ahead
  <2>3. dir[n] # 0
    BY DEF n
  <2> QED
    BY <1>1, <2>1, <2>2, <2>3 DEF Inv, OrderInv, NamesOrdered
<1>6. r.file \in Nat /\ r.file \in 0..Len(content) /\ it.file < r.file /\ r.pos \in Nat
  BY <1>2, <1>3, <1>4
<1>7. ReplayOK(r)
  BY <1>1, <1>3, <1>5, <1>6, ReplayMoved
<1> QED
  BY <1>7 DEF r, n

\* A line is behind the iterator when it has been read.
LEMMA ReplayReads ==
    ASSUME Inv, NEW t \in Threads, ReadLine(t), ReplayOK(iter[t])
    PROVE  ReplayOK(iter[t])'
<1> DEFINE it == iter[t]
           file == content[it.file]
           end == LineEnd(file, it.pos)
           read == [it EXCEPT !.pos = end, !.offset = @ + 1]
           event == [read EXCEPT !.pc = "yielded", !.out = Append(@, file[end].id)]
           id == file[end].id
<1>1. it \in Iterators /\ IterOK(it) /\ it.pc = "read" /\ TypeOK
  BY Reading DEF ReadLine, IterAt, Inv
<1>2. /\ it.file \in Files /\ it.file \in Nat /\ it.pos \in Nat /\ it.pos < Len(file)
      /\ it.file \in 0..Len(content)
  <2>1. it.file \in 1..Len(content) /\ it.pos < Len(file)
    BY <1>1 DEF IterOK, ReadLine
  <2>2. it.file \in Nat /\ it.pos \in Nat
    BY <1>1 DEF Iterators
  <2> QED
    BY <2>1, <2>2 DEF Files, ReplayOK
<1>3. file \in Seq(Fragments) /\ Len(file) \in Nat
  BY <1>1, <1>2, ElementOfSeq, LenProperties DEF TypeOK, Files
<1>4. end \in (it.pos + 1)..Len(file)
  <2> HIDE DEF file
  <2> QED
    BY <1>2, <1>3, LineEndProperties
<1>5. end \in Nat /\ it.pos < end /\ it.pos <= end /\ end \in 1..Len(file)
  <2> HIDE DEF file, end
  <2> QED
    BY <1>2, <1>3, <1>4
<1>6. id \in Ids /\ it.out \in Seq(Ids) /\ Len(it.out) \in Nat
  <2>1. file[end] \in Fragments
    <3> HIDE DEF file, end
    <3> QED
      BY <1>3, <1>5, ElementOfSeq
  <2>2. it.out \in Seq(Ids)
    BY SMTT(30), <1>1 DEF Iterators
  <2> QED
    BY <2>1, <2>2, LenProperties DEF Fragments
<1>7. /\ read.pc = "read" /\ read.left = it.left /\ read.file = it.file
      /\ read.pos = end /\ read.out = it.out
  <2> HIDE DEF end
  <2> QED
    BY <1>1 DEF Iterators
<1>8. /\ event.pc = "yielded" /\ event.left = it.left /\ event.file = it.file
      /\ event.pos = end /\ event.out = Append(it.out, id)
  <2> HIDE DEF end, id
  <2>1. event = [it EXCEPT !.pos = end, !.offset = @ + 1, !.pc = "yielded",
                           !.out = Append(@, id)]
    BY <1>1 DEF Iterators, id
  <2> HIDE DEF event
  <2> QED
    BY <1>1, <2>1 DEF Iterators
<1> HIDE DEF end, read, event, id
<1>9. \A k \in Names : /\ Ahead(read, k) => Ahead(it, k)
                       /\ Ahead(event, k) => Ahead(it, k)
  BY <1>1, <1>7, <1>8 DEF Ahead
<1>10. \A k \in Names : dir[k] # 0 /\ (Ahead(read, k) \/ Ahead(event, k)) => it.file < dir[k]
  BY <1>9 DEF ReplayOK
<1>11. ReplayOK(read)
  <2>1. read.pos \in Nat /\ read.file \in Nat /\ read.file \in 0..Len(content)
        /\ it.file = read.file /\ it.pos <= read.pos
    BY <1>2, <1>5, <1>7
  <2>2. \A k \in Names : dir[k] # 0 /\ Ahead(read, k) => read.file < dir[k]
    BY <1>7, <1>10
  <2> QED
    BY <1>2, <1>7, <2>1, <2>2, ReplayMoved
<1>12. ASSUME IsEvent(file, it.pos, end) PROVE ReplayOK(event)
  <2> DEFINE l == Len(it.out)
             c == it.pos
  <2>1. file[end] = TailOf(id)
    <3>1. end = c + 2 /\ SubSeq(file, c + 1, end) = Record(id)
      BY <1>12 DEF IsEvent, id
    <3>2. c \in Nat /\ c + 2 <= Len(file)
      BY <1>2, <1>5, <3>1
    <3> HIDE DEF file, c
    <3>3. c + 1 \in 1..(Len(file) - 1) /\ (c + 1) + 1 = c + 2
      BY <1>3, <3>2
    <3>4. SubSeq(file, c + 1, (c + 1) + 1) = Record(id)
      BY <3>1, <3>3
    <3>5. file[(c + 1) + 1] = TailOf(id)
      BY <1>3, <1>6, <3>3, <3>4, RecordAt
    <3> QED
      BY <3>1, <3>3, <3>5
  <2>2. /\ Len(event.out) = l + 1
        /\ \A n \in 1..l : event.out[n] = it.out[n]
        /\ event.out[l + 1] = id
    BY <1>6, <1>8, AppendProperties
  <2>3. \A n \in 1..Len(event.out) : n \in 1..l \/ n = l + 1
    BY <1>6, <2>2
  <2>4. ASSUME NEW n \in 1..l
        PROVE  \E f \in Files : \E p \in 1..Len(content[f]) :
                  /\ f < it.file \/ (f = it.file /\ p < end)
                  /\ content[f][p] = TailOf(it.out[n])
    <3>1. PICK f \in Files : \E p \in 1..Len(content[f]) :
             (f < it.file \/ (f = it.file /\ p <= it.pos)) /\ content[f][p] = TailOf(it.out[n])
      BY DEF ReplayOK
    <3>2. PICK p \in 1..Len(content[f]) :
             (f < it.file \/ (f = it.file /\ p <= it.pos)) /\ content[f][p] = TailOf(it.out[n])
      BY <3>1
    <3>3. f = it.file => p < end
      BY <1>2, <1>5, <3>2 DEF Files
    <3> QED
      BY <3>2, <3>3
  <2>5. ASSUME NEW n \in 1..Len(event.out)
        PROVE  \E f \in Files : \E p \in 1..Len(content[f]) :
                  /\ f < event.file \/ (f = event.file /\ p <= event.pos)
                  /\ content[f][p] = TailOf(event.out[n])
    <3>1. CASE n \in 1..l
      <4>1. PICK f \in Files : \E p \in 1..Len(content[f]) :
                  /\ f < it.file \/ (f = it.file /\ p < end)
                  /\ content[f][p] = TailOf(it.out[n])
        BY <2>4, <3>1
      <4>2. PICK p \in 1..Len(content[f]) :
                  /\ f < it.file \/ (f = it.file /\ p < end)
                  /\ content[f][p] = TailOf(it.out[n])
        BY <4>1
      <4>3. f < event.file \/ (f = event.file /\ p <= event.pos)
        BY <1>5, <1>8, <4>2
      <4> QED
        BY <2>2, <3>1, <4>2, <4>3
    <3>2. CASE n = l + 1
      <4>1. end <= end
        BY <1>5
      <4> QED
        BY <1>2, <1>5, <1>8, <2>1, <2>2, <3>2, <4>1
    <3> QED
      BY <2>3, <3>1, <3>2
  <2>6. ASSUME NEW m \in 1..Len(event.out), NEW n \in 1..Len(event.out), m < n
        PROVE  event.out[m] < event.out[n]
    <3>1. CASE n \in 1..l
      <4>1. m \in 1..l
        BY <1>6, <2>6, <3>1
      <4> QED
        BY <2>2, <2>6, <3>1, <4>1 DEF ReplayOK
    <3>2. CASE n = l + 1
      <4>1. m \in 1..l
        BY <1>6, <2>3, <2>6, <3>2
      <4>2. PICK f \in Files : \E p \in 1..Len(content[f]) :
                  /\ f < it.file \/ (f = it.file /\ p < end)
                  /\ content[f][p] = TailOf(it.out[m])
        BY <2>4, <4>1
      <4>3. PICK p \in 1..Len(content[f]) :
                  /\ f < it.file \/ (f = it.file /\ p < end)
                  /\ content[f][p] = TailOf(it.out[m])
        BY <4>2
      <4>4. WrittenBefore(TailOf(it.out[m]), TailOf(id))
        <5>1. content[it.file][end] = TailOf(id) /\ end \in 1..Len(content[it.file])
          BY <1>5, <2>1
        <5> QED
          BY <1>2, <4>3, <5>1 DEF Inv, OrderInv, FilesOrdered, Files
      <4>5. it.out[m] \in Ids
        BY <1>6, <4>1, ElementOfSeq
      <4>6. it.out[m] < id
        BY <1>6, <4>4, <4>5, FragmentForms DEF WrittenBefore
      <4> QED
        BY <2>2, <3>2, <4>1, <4>6
    <3> QED
      BY <2>3, <3>1, <3>2
  <2> QED
    BY <1>2, <1>8, <1>10, <2>5, <2>6 DEF ReplayOK
<1>13. Iterates(t, read) \/ (IsEvent(file, it.pos, end) /\ Iterates(t, event))
  BY DEF ReadLine, read, event, end
<1> QED
  BY <1>1, <1>11, <1>12, <1>13, ReplayBecomes

LEMMA ReplayIterates ==
    ASSUME Inv, NEW t \in Threads, IterStep(t), ReplayOK(iter[t])
    PROVE  ReplayOK(iter[t])'
<1> DEFINE it == iter[t]
           resumed == [it EXCEPT !.pc = "read"]
<1>1. TypeOK /\ it \in Iterators
  BY DEF Inv, TypeOK
<1>2. CASE Iterates(t, NoIterator)
  <2>1. ReplayOK(NoIterator)
    BY <1>1, ReplayBegins DEF NoIterator
  <2> QED
    BY <1>1, <1>2, <2>1, ReplayBecomes
<1>3. ASSUME NEW s \in Starts, NEW b \in Batches, StartReplay(t, s, b)
      PROVE  ReplayOK(iter[t])'
  <2> DEFINE r == [NoIterator EXCEPT !.pc = "open", !.left = BackupCount + 1,
                                     !.start = s, !.batch = b]
  <2>1. r.file = 0 /\ r.out = <<>>
    BY DEF NoIterator
  <2>2. Iterates(t, r)
    BY <1>3 DEF StartReplay
  <2> HIDE DEF r
  <2>3. ReplayOK(r)
    BY <1>1, <2>1, ReplayBegins
  <2> QED
    BY <1>1, <2>2, <2>3, ReplayBecomes
<1>4. CASE Iterates(t, NextFile(it))
  <2>1. ReplayOK(NextFile(it))
    BY <1>1, ReplayNext
  <2> QED
    BY <1>1, <1>4, <2>1, ReplayBecomes
<1>5. CASE Resume(t) /\ Iterates(t, resumed)
  <2>1. it.pc = "yielded"
    BY <1>5 DEF Resume, IterAt
  <2>2. /\ resumed.pc = "read" /\ resumed.left = it.left /\ resumed.file = it.file
        /\ resumed.pos = it.pos /\ resumed.out = it.out
    BY <1>1 DEF Iterators
  <2> HIDE DEF resumed
  <2>3. ReplayOK(resumed)
    BY <2>1, <2>2 DEF ReplayOK, Ahead
  <2> QED
    BY <1>1, <1>5, <2>3, ReplayBecomes
<1>6. CASE OpenNext(t)
  <2>1. it.pc = "open" /\ it.left > 0
    BY <1>6 DEF OpenNext, IterAt
  <2>2. CASE dir[NameOf(it)] = 0
    BY <1>4, <1>6, <2>2 DEF OpenNext
  <2>3. CASE dir[NameOf(it)] # 0
    <3> DEFINE r == [it EXCEPT !.pc = "read", !.file = dir[NameOf(it)], !.pos = 0]
    <3>1. ReplayOK(r)
      BY <1>1, <2>1, <2>3, ReplayOpens
    <3>2. Iterates(t, r)
      BY <1>6, <2>3 DEF OpenNext
    <3> HIDE DEF r
    <3> QED
      BY <1>1, <3>1, <3>2, ReplayBecomes
  <2> QED
    BY <2>2, <2>3
<1>7. CASE ReadLine(t)
  BY <1>7, ReplayReads
<1> QED
  BY <1>2, <1>3, <1>4, <1>5, <1>6, <1>7
     DEF IterStep, Consume, Resume, CloseIterator, Exhausted, ReadFails, EndOfFile

LEMMA ReplayStep ==
    ASSUME Inv, \A t \in Threads : RecOK(t), Effects, NEW u \in Threads, ReplayOK(iter[u])
    PROVE  ReplayOK(iter[u])'
<1>1. TypeOK
  BY DEF Inv
<1>2. CASE ItersStay
  BY <1>2, ReplayCalls
<1>3. ASSUME NEW t \in Threads, IterStep(t), IterEffect(t)
      PROVE  ReplayOK(iter[u])'
  <2>1. CASE u = t
    BY <1>3, <2>1, ReplayIterates
  <2>2. CASE u # t
    <3>1. iter'[u] = iter[u] /\ dir' = dir
      BY <1>3, <2>2 DEF IterEffect, DiskSame
    <3> QED
      BY <1>1, <3>1, ReplayKept DEF ReplayOK
  <2> QED
    BY <2>1, <2>2
<1>4. CASE FreshEffect
  <2>1. iter'[u] = NoIterator /\ content' = content /\ dir' = dir
    BY <1>4 DEF FreshEffect, DiskSame
  <2>2. ReplayOK(NoIterator)
    BY <1>1, ReplayBegins DEF NoIterator
  <2> QED
    BY <2>1, <2>2 DEF ReplayOK, Ahead, Files
<1>5. CASE NothingEffect
  <2>1. ItersStay
    BY <1>5 DEF NothingEffect, ItersStay
  <2> QED
    BY <1>2, <2>1
<1>6. ASSUME NEW t \in Threads, CallEffect(t) PROVE ItersStay
  BY <1>6 DEF CallEffect, AppendEffect, WriteEffect, FailEffect, FlushedEffect,
              CloseActiveEffect, UnlinkEffect, RenameEffect, CloseEffect, CloseEndsEffect
<1> QED
  BY <1>2, <1>3, <1>4, <1>5, <1>6 DEF Effects

-----------------------------------------------------------------------------
(* The second invariant.                                                   *)

LEMMA InitData == Init => DataInv
<1> SUFFICES ASSUME Init PROVE DataInv
  OBVIOUS
<1>1. /\ content = <<>> /\ buffer = <<>> /\ acked = {} /\ closed = FALSE /\ faults = 0
      /\ dir = [k \in Names |-> 0]
      /\ \A t \in Threads : op[t].pc = "idle" /\ iter[t] = NoIterator
  BY DEF Init, Idle
<1>2. Len(content) = 0 /\ Len(buffer) = 0 /\ Files = {} /\ TypeOK
  <2>1. Len(content) = 0 /\ Len(buffer) = 0
    BY <1>1, EmptySeq
  <2> QED
    BY <2>1, InitInv DEF Files, Inv
<1>3. Paired
  BY <1>2 DEF Paired
<1>4. TornBounded
  <2>1. Torn = {}
    BY <1>2 DEF Torn
  <2>2. Cardinality(Torn) = 0
    BY <2>1, FS_EmptySet
  <2> QED
    BY <1>1, <2>2 DEF TornBounded
<1>5. AckedWritten /\ OldestDropped /\ ClosedOK
  BY <1>1, <1>2 DEF AckedWritten, OldestDropped, ClosedOK
<1>6. GapsBounded
  BY <1>1, <1>2 DEF GapsBounded
<1>7. ASSUME NEW t \in Threads PROVE RecOK(t) /\ ReplayOK(iter[t])
  <2>1. ReplayOK(NoIterator)
    BY <1>2, ReplayBegins DEF NoIterator
  <2> QED
    BY <1>1, <2>1 DEF RecOK
<1> QED
  BY <1>3, <1>4, <1>5, <1>6, <1>7 DEF DataInv

LEMMA DataStep == Inv /\ Inv' /\ DataInv /\ [Next]_vars => DataInv'
<1> SUFFICES ASSUME Inv, Inv', DataInv, [Next]_vars PROVE DataInv'
  OBVIOUS
<1>1. /\ Paired /\ TornBounded /\ AckedWritten /\ OldestDropped /\ GapsBounded /\ ClosedOK
      /\ \A t \in Threads : RecOK(t) /\ ReplayOK(iter[t])
      /\ TypeOK /\ TypeOK'
  BY DEF DataInv, Inv
<1>2. Effects
  BY <1>1, StepEffects
<1>3. faults' \in {faults, faults + 1}
  BY <1>2, BufferCases DEF AppendEffect, WriteEffect, BufferStays, Loses
<1>4. Paired' /\ TornBounded' /\ AckedWritten' /\ OldestDropped' /\ GapsBounded' /\ ClosedOK'
  BY <1>1, <1>2, <1>3, PairedStep, TornStep, AckedStep, DroppedStep, GapsStep, ClosedStep
<1>5. \A t \in Threads : RecOK(t)' /\ ReplayOK(iter[t])'
  BY <1>1, <1>2, RecStep, ReplayStep
<1> QED
  BY <1>4, <1>5 DEF DataInv

\* What the files hold through every append, rotation, fault and crash: whole
\* records but for one for each fault, all that was acknowledged but what was
\* dropped, no gap without a fault, and behind an iterator whatever it yielded
\* (FilePersistence).
THEOREM DataInvHolds == Spec => []DataInv
  BY InitData, DataStep, InvHolds, PTL DEF Spec

-----------------------------------------------------------------------------
(* What the inductive invariants say of the records.                       *)

LEMMA RetainedFiles ==
    ASSUME TypeOK, NEW f
    PROVE  f \in Retained <=> f \in Files /\ Kept(f)
<1>1. \A k \in Names : dir[k] \in 0..Len(content)
  BY Fragmentwise
<1> QED
  BY <1>1, Fragmentwise DEF Retained, Files, Kept

\* No fragment is in two places.
LEMMA InOnePlace ==
    ASSUME TypeOK, FilesOrdered, NEW f \in Files, NEW g \in Files,
           NEW p \in 1..Len(content[f]), NEW q \in 1..Len(content[g]),
           content[f][p] = content[g][q]
    PROVE  f = g /\ p = q
<1>1. f \in Nat /\ g \in Nat /\ p \in Nat /\ q \in Nat /\ content[f][p] \in Fragments
  BY Fragmentwise DEF Files
<1>2. ~WrittenBefore(content[f][p], content[g][q]) /\ ~WrittenBefore(content[g][q], content[f][p])
  <2>1. ~WrittenBefore(content[f][p], content[f][p])
    BY <1>1, FragmentForms DEF WrittenBefore
  <2> QED
    BY <2>1
<1>3. ~(f < g \/ (f = g /\ p < q)) /\ ~(g < f \/ (g = f /\ q < p))
  BY <1>2 DEF FilesOrdered, Files
<1> QED
  BY <1>1, <1>3

\* A kept tail makes a whole record.
LEMMA WholeOnDisk ==
    ASSUME TypeOK, Paired, NEW f \in Files, Kept(f), NEW i \in Ids, Has(f, TailOf(i))
    PROVE  OnDisk(i)
<1>1. PICK p \in 1..Len(content[f]) : content[f][p] = TailOf(i)
  BY DEF Has
<1>2. content[f][p].part = "tail" /\ content[f][p].id = i
  BY <1>1, FragmentForms
<1>3. p > 1 /\ content[f][p - 1] = HeadOf(i)
  BY <1>2 DEF Paired
<1>4. content[f] \in Seq(Fragments) /\ Len(content[f]) \in Nat /\ f \in Retained
  BY ElementOfSeq, Fragmentwise, RetainedFiles DEF TypeOK, Files
<1>5. p - 1 \in 1..(Len(content[f]) - 1) /\ (p - 1) + 1 = p
  BY <1>3, <1>4
<1> DEFINE c == content[f]
           q == p - 1
<1>6. c[q] = HeadOf(i) /\ c[q + 1] = TailOf(i) /\ q \in 1..(Len(c) - 1)
  BY <1>1, <1>3, <1>5
<1>7. SubSeq(c, q, q + 1) = Record(i)
  <2> HIDE DEF c, q
  <2> QED
    BY <1>4, <1>6, RecordAt DEF c
<1> HIDE DEF q
<1> QED
  BY <1>4, <1>6, <1>7 DEF OnDisk

LEMMA AckedKept == TypeOK /\ OrderInv /\ DataInv => AckedRetained
<1> SUFFICES ASSUME TypeOK, OrderInv, DataInv, NEW i \in acked,
                    ~OnDisk(i)
             PROVE  /\ \E j \in Ids : j > i /\ OnDisk(j)
                    /\ \A f \in Retained : \A p \in DOMAIN content[f] : content[f][p].id > i
  BY DEF AckedRetained
<1>1. i \in Ids /\ i \in Nat
  BY DEF TypeOK, Ids
<1>2. PICK f \in Files : Has(f, TailOf(i))
  BY DEF DataInv, AckedWritten
<1>3. ~Kept(f)
  BY <1>1, <1>2, WholeOnDisk DEF DataInv
<1>4. /\ \A k \in Names : dir[k] # 0 => f < dir[k]
      /\ \E k \in Names : dir[k] # 0 /\ HasRecord(dir[k])
  BY <1>3 DEF DataInv, OldestDropped
<1>5. PICK p \in 1..Len(content[f]) : content[f][p] = TailOf(i)
  BY <1>2 DEF Has
<1>6. ASSUME NEW g \in Files, f < g, NEW q \in 1..Len(content[g])
      PROVE  content[g][q].id > i
  <2>1. WrittenBefore(TailOf(i), content[g][q])
    BY <1>5, <1>6 DEF OrderInv, FilesOrdered, Files
  <2>2. content[g][q].id \in Nat
    BY Fragmentwise, FragmentForms
  <2> QED
    BY <1>1, <2>1, <2>2, FragmentForms DEF WrittenBefore
<1>7. \E j \in Ids : j > i /\ OnDisk(j)
  <2>1. PICK k \in Names : dir[k] # 0 /\ HasRecord(dir[k])
    BY <1>4
  <2>2. PICK g : g = dir[k]
    OBVIOUS
  <2>3. g \in Files /\ f < g /\ Kept(g)
    BY <1>4, <2>1, <2>2, Fragmentwise DEF Files, Kept
  <2>4. PICK j \in Ids : Has(g, TailOf(j))
    BY <2>1, <2>2 DEF HasRecord
  <2>5. PICK q \in 1..Len(content[g]) : content[g][q] = TailOf(j)
    BY <2>4 DEF Has
  <2>6. j > i
    BY <1>6, <2>3, <2>5, FragmentForms
  <2>7. OnDisk(j)
    BY <2>3, <2>4, WholeOnDisk DEF DataInv
  <2> QED
    BY <2>6, <2>7
<1>8. ASSUME NEW g \in Retained, NEW q \in DOMAIN content[g]
      PROVE  content[g][q].id > i
  <2>1. g \in Files /\ Kept(g)
    BY RetainedFiles
  <2>2. content[g] \in Seq(Fragments)
    BY <2>1, ElementOfSeq DEF TypeOK, Files
  <2>3. q \in 1..Len(content[g])
    BY <2>2, LenProperties
  <2>4. f < g
    BY <1>4, <2>1, Fragmentwise DEF Kept, Files
  <2> QED
    BY <1>6, <2>1, <2>3, <2>4
<1> QED
  BY <1>7, <1>8

LEMMA EnoughKept == TypeOK /\ OrderInv /\ DataInv => RetentionBound
<1> SUFFICES ASSUME TypeOK, OrderInv, DataInv, (1..Len(content)) \ Retained # {}
             PROVE  Cardinality(Retained) >= BackupCount - faults
  BY DEF RetentionBound
<1> DEFINE G == Gaps(BackupCount + 1)
           F == Names \ G
           e == [k \in F |-> dir[k]]
<1>1. BackupCount \in Nat /\ faults \in Nat /\ Len(content) \in Nat
  BY FileAssumption, Fragmentwise
<1>2. IsFiniteSet(Names) /\ Cardinality(Names) = BackupCount + 1
  <2>1. 0 \in Int /\ BackupCount \in Int /\ ~(0 > BackupCount) /\ BackupCount - 0 + 1 = BackupCount + 1
    BY <1>1
  <2>2. /\ IsFiniteSet(0..BackupCount)
        /\ Cardinality(0..BackupCount) = IF 0 > BackupCount THEN 0 ELSE BackupCount - 0 + 1
    BY ONLY <2>1, FS_Interval
  <2> QED
    BY <2>1, <2>2 DEF Names
<1>3. Cardinality(G) <= faults + 1
  <2>1. \E f \in Files : ~Kept(f)
    BY RetainedFiles DEF Files
  <2>2. Cardinality(G) <= faults + Slack
    BY <2>1 DEF DataInv, GapsBounded
  <2>3. Slack \in {0, 1} /\ Cardinality(G) \in Nat
    BY GapsFinite DEF Slack
  <2> QED
    BY <1>1, <2>2, <2>3
<1>4. Cardinality(F) = BackupCount + 1 - Cardinality(G)
  <2>1. Names \cap G = G
    BY DEF Gaps
  <2>2. Cardinality(Names \ G) = Cardinality(Names) - Cardinality(Names \cap G)
    <3> HIDE DEF G
    <3> QED
      BY <1>2, FS_Difference
  <2> HIDE DEF G
  <2>3. Cardinality(F) = Cardinality(Names) - Cardinality(G)
    BY <2>1, <2>2
  <2> HIDE DEF F
  <2>4. Cardinality(G) \in Nat
    BY GapsFinite DEF G
  <2> QED
    BY <1>1, <1>2, <2>3, <2>4
<1>5. IsFiniteSet(Retained)
  <2>1. Retained \subseteq 1..Len(content)
    BY RetainedFiles DEF Files
  <2>2. IsFiniteSet(1..Len(content))
    BY <1>1, FS_Interval
  <2> QED
    BY <2>1, <2>2, FS_Subset
<1>6. e \in Injection(F, Retained)
  <2>1. \A k \in F : k \in Names /\ k \in Nat /\ dir[k] # 0
    BY <1>1 DEF Gaps, Names
  <2>2. e \in [F -> Retained]
    BY <2>1 DEF Retained
  <2>3. ASSUME NEW k \in F, NEW m \in F, dir[k] = dir[m] PROVE k = m
    <3>1. dir[k] \in Nat /\ dir[m] \in Nat
      BY <1>1, <2>1, Fragmentwise
    <3>2. ~(k > m) /\ ~(m > k)
      BY <2>1, <2>3, <3>1 DEF OrderInv, NamesOrdered
    <3> QED
      BY <2>1, <3>2
  <2> QED
    BY <2>2, <2>3 DEF Injection, IsInjective
<1>7. Cardinality(F) <= Cardinality(Retained) /\ Cardinality(Retained) \in Nat
  <2> HIDE DEF e, F
  <2> QED
    BY <1>5, <1>6, FS_Injection, FS_CardinalityType
<1>8. Cardinality(G) \in Nat
  BY GapsFinite
<1> HIDE DEF F, G
<1> QED
  BY <1>1, <1>3, <1>4, <1>7, <1>8

LEMMA DamageByTears == TypeOK /\ OrderInv /\ DataInv => DamageBounded
<1> SUFFICES ASSUME TypeOK, OrderInv, DataInv PROVE DamageBounded
  OBVIOUS
<1> DEFINE D == { i \in acked : OnDisk(i) /\ ~Replayable(i) }
           Follows(i, j) == \E f \in Files : \E p \in 1..Len(content[f]) :
                               /\ p > 1 /\ content[f][p] = HeadOf(i)
                               /\ content[f][p - 1] = HeadOf(j)
           w == [i \in D |-> CHOOSE j \in Torn : Follows(i, j)]
<1>1. ASSUME NEW i \in D PROVE \E j \in Torn : Follows(i, j)
  <2>1. i \in Ids
    BY DEF TypeOK
  <2>2. PICK f \in Retained : \E p \in 1..(Len(content[f]) - 1) :
           SubSeq(content[f], p, p + 1) = Record(i)
    BY DEF OnDisk
  <2>3. PICK p \in 1..(Len(content[f]) - 1) : SubSeq(content[f], p, p + 1) = Record(i)
    BY <2>2
  <2>4. f \in Files /\ content[f] \in Seq(Fragments) /\ Len(content[f]) \in Nat
    BY RetainedFiles, ElementOfSeq, Fragmentwise DEF TypeOK, Files
  <2>5. content[f][p] = HeadOf(i) /\ content[f][p + 1] = TailOf(i)
    BY <2>1, <2>3, <2>4, RecordAt
  <2>6. p > 1 /\ ~EndsLine(content[f][p - 1])
    <3>1. EndsLine(content[f][p + 1])
      BY <2>1, <2>5, FragmentForms DEF EndsLine
    <3>2. ~Replayable(i)
      OBVIOUS
    <3> QED
      BY <2>2, <2>3, <3>1, <3>2 DEF Replayable
  <2>7. p \in 1..Len(content[f]) /\ p - 1 \in 1..Len(content[f])
        /\ (p - 1) + 1 = p /\ p - 1 # Len(content[f])
    BY <2>4, <2>6
  <2>8. PICK j \in Ids : content[f][p - 1] = HeadOf(j)
    BY <2>4, <2>6, <2>7, Fragmentwise, FragmentForms DEF EndsLine
  <2>9. ~Completed(f, p - 1)
    <3>1. content[f][(p - 1) + 1] # TailOf(content[f][p - 1].id)
      BY <2>1, <2>5, <2>7, <2>8, FragmentForms
    <3> QED
      BY <2>7, <3>1 DEF Completed
  <2>10. j \in Torn
    BY <2>4, <2>7, <2>8, <2>9 DEF Torn
  <2> QED
    BY <2>4, <2>5, <2>6, <2>7, <2>8, <2>10
<1>2. ASSUME NEW i \in D, NEW m \in D, NEW j \in Torn, Follows(i, j), Follows(m, j)
      PROVE  i = m
  <2>1. PICK f \in Files : \E p \in 1..Len(content[f]) :
           p > 1 /\ content[f][p] = HeadOf(i) /\ content[f][p - 1] = HeadOf(j)
    BY <1>2
  <2>2. PICK p \in 1..Len(content[f]) :
           p > 1 /\ content[f][p] = HeadOf(i) /\ content[f][p - 1] = HeadOf(j)
    BY <2>1
  <2>3. PICK g \in Files : \E q \in 1..Len(content[g]) :
           q > 1 /\ content[g][q] = HeadOf(m) /\ content[g][q - 1] = HeadOf(j)
    BY <1>2
  <2>4. PICK q \in 1..Len(content[g]) :
           q > 1 /\ content[g][q] = HeadOf(m) /\ content[g][q - 1] = HeadOf(j)
    BY <2>3
  <2>5. p - 1 \in 1..Len(content[f]) /\ q - 1 \in 1..Len(content[g]) /\ p \in Nat /\ q \in Nat
    BY <2>2, <2>4, Fragmentwise
  <2>6. f = g /\ p - 1 = q - 1
    <3> DEFINE a == p - 1
               b == q - 1
    <3>1. a \in 1..Len(content[f]) /\ b \in 1..Len(content[g])
          /\ content[f][a] = content[g][b]
      BY <2>2, <2>4, <2>5
    <3> HIDE DEF a, b
    <3>2. f = g /\ a = b
      BY <3>1, InOnePlace DEF OrderInv
    <3> QED
      BY <3>2 DEF a, b
  <2>7. HeadOf(i) = HeadOf(m)
    BY <2>2, <2>4, <2>5, <2>6
  <2> QED
    BY <2>7 DEF HeadOf
<1>3. w \in Injection(D, Torn)
  <2>1. \A i \in D : w[i] \in Torn /\ Follows(i, w[i])
    <3> HIDE DEF D, Follows
    <3> QED
      BY <1>1
  <2>2. w \in [D -> Torn]
    <3> HIDE DEF D, Follows
    <3> QED
      BY <1>1
  <2>3. DOMAIN w = D
    OBVIOUS
  <2> HIDE DEF w, D, Follows
  <2>4. \A i, m \in D : w[i] = w[m] => i = m
    BY <1>2, <2>1
  <2> QED
    BY <2>2, <2>3, <2>4 DEF Injection, IsInjective
<1>4. IsFiniteSet(Torn) /\ faults \in Nat
  <2>1. MaxRecords \in Nat /\ Torn \subseteq Ids
    BY FileAssumption DEF Torn
  <2>2. IsFiniteSet(Ids)
    BY <2>1, FS_Interval DEF Ids
  <2> QED
    BY <2>1, <2>2, FS_Subset, Fragmentwise
<1>5. /\ IsFiniteSet(D) /\ Cardinality(D) <= Cardinality(Torn)
      /\ Cardinality(D) \in Nat /\ Cardinality(Torn) \in Nat
  <2> HIDE DEF w, D
  <2> QED
    BY <1>3, <1>4, FS_Injection, FS_CardinalityType
<1>6. Cardinality(Torn) <= faults
  BY DEF DataInv, TornBounded
<1>7. Cardinality(D) <= faults
  <2> HIDE DEF D
  <2> QED
    BY <1>4, <1>5, <1>6
<1> QED
  BY <1>7 DEF DamageBounded

LEMMA ReplayedInOrder == TypeOK /\ DataInv => ReplayOrdered
<1> SUFFICES ASSUME TypeOK, DataInv, NEW t \in Threads
             PROVE  \A m, n \in DOMAIN iter[t].out :
                       m < n => iter[t].out[m] < iter[t].out[n]
  BY DEF ReplayOrdered
<1>1. iter[t].out \in Seq(Ids)
  BY DEF TypeOK, Iterators
<1>2. DOMAIN iter[t].out = 1..Len(iter[t].out)
  BY <1>1, LenProperties
<1> QED
  BY <1>2 DEF DataInv, ReplayOK

\* An append that returned stays on the disk unless a rotation dropped its file,
\* and then all that is older is gone as well and a whole newer record is kept
\* (FilePersistence.append, _rotate).
THEOREM AckedRetainedHolds == Spec => []AckedRetained
<1>1. Inv /\ DataInv => AckedRetained
  BY AckedKept DEF Inv
<1> QED
  BY <1>1, InvHolds, DataInvHolds, PTL

\* Once a file was dropped, no more than one of the backups is missing for each
\* fault (FilePersistence._rotate).
THEOREM RetentionBoundHolds == Spec => []RetentionBound
<1>1. Inv /\ DataInv => RetentionBound
  BY EnoughKept DEF Inv
<1> QED
  BY <1>1, InvHolds, DataInvHolds, PTL

\* Each acknowledged record that is whole on the disk and is not replayed goes to
\* the account of a fault of its own (FilePersistence.append, _replay).
THEOREM DamageBoundedHolds == Spec => []DamageBounded
<1>1. Inv /\ DataInv => DamageBounded
  BY DamageByTears DEF Inv
<1> QED
  BY <1>1, InvHolds, DataInvHolds, PTL

\* An iterator yields in the order of the appends and nothing twice, whatever its
\* consumer writes in between (FilePersistence._replay).
THEOREM ReplayOrderedHolds == Spec => []ReplayOrdered
<1>1. Inv /\ DataInv => ReplayOrdered
  BY ReplayedInOrder DEF Inv
<1> QED
  BY <1>1, InvHolds, DataInvHolds, PTL

-----------------------------------------------------------------------------
(* The store is a bounded log.                                             *)

\* The whole records are those whose tail is in a file that has a name.
KeptTails == { i \in Ids : \E f \in Files : Kept(f) /\ Has(f, TailOf(i)) }
RecordsKept == WholeRecords = KeptTails

LEMMA KeptIsWhole == TypeOK /\ Paired => RecordsKept
<1> SUFFICES ASSUME TypeOK, Paired, NEW i \in Ids
             PROVE  OnDisk(i) <=> \E f \in Files : Kept(f) /\ Has(f, TailOf(i))
  BY DEF RecordsKept, WholeRecords, KeptTails
<1>1. ASSUME OnDisk(i) PROVE \E f \in Files : Kept(f) /\ Has(f, TailOf(i))
  <2>1. PICK f \in Retained : \E p \in 1..(Len(content[f]) - 1) :
           SubSeq(content[f], p, p + 1) = Record(i)
    BY <1>1 DEF OnDisk
  <2>2. PICK p \in 1..(Len(content[f]) - 1) : SubSeq(content[f], p, p + 1) = Record(i)
    BY <2>1
  <2>3. /\ f \in Files /\ Kept(f)
        /\ content[f] \in Seq(Fragments) /\ Len(content[f]) \in Nat
    BY RetainedFiles, ElementOfSeq, Fragmentwise DEF TypeOK, Files
  <2> DEFINE c == content[f]
  <2>4. p \in 1..(Len(c) - 1) /\ SubSeq(c, p, p + 1) = Record(i) /\ p + 1 \in 1..Len(c)
    BY <2>2, <2>3
  <2>5. c[p + 1] = TailOf(i)
    <3> HIDE DEF c
    <3> QED
      BY <2>3, <2>4, RecordAt DEF c
  <2> QED
    BY <2>3, <2>4, <2>5 DEF Has
<1> QED
  BY <1>1, WholeOnDisk

\* The same records are whole when the same tails are in the same kept files.
LEMMA SameRecords ==
    ASSUME RecordsKept, RecordsKept',
           \A f \in Files' : Kept(f)' => Kept(f) \/ \A i \in Ids : ~Has(f, TailOf(i))',
           \A f \in Files : Kept(f) => f \in Files' /\ Kept(f)',
           \A f \in Files, i \in Ids : Has(f, TailOf(i)) => Has(f, TailOf(i))',
           \A f \in Files', i \in Ids : Kept(f) /\ Has(f, TailOf(i))'
                                          => f \in Files /\ Has(f, TailOf(i))
    PROVE  WholeRecords' = WholeRecords
<1>1. KeptTails' = KeptTails
  BY DEF KeptTails
<1> QED
  BY <1>1 DEF RecordsKept

LEMMA DiskSameRecords ==
    ASSUME DiskSame
    PROVE  WholeRecords' = WholeRecords
BY DEF DiskSame, WholeRecords, OnDisk, Retained

LEMMA AppendKeepsRecords ==
    ASSUME TypeOK, TypeOK', RecordsKept, RecordsKept', Effects, NEW t \in Threads, AppendEffect(t)
    PROVE  WholeRecords' = WholeRecords
<1>1. CASE DiskSame
  BY <1>1, DiskSameRecords
<1>2. CASE NewFile
  <2>1. PICK n : n = Len(content) + 1
    OBVIOUS
  <2>2. /\ \A f \in Files : f \in Files' /\ content'[f] = content[f] /\ f # n
        /\ \A f \in Files' : f \in Files \/ f = n
        /\ \A k \in Names : dir[k] # n
    BY <1>2, <2>1, Fragmentwise DEF NewFile, Files
  <2>3. \A i \in Ids : ~Has(n, TailOf(i))'
    BY <1>2, <2>1 DEF NewFile, Has
  <2>4. \A f \in Files' : Kept(f)' => Kept(f) \/ \A i \in Ids : ~Has(f, TailOf(i))'
    <3> SUFFICES ASSUME NEW f \in Files', Kept(f)', f # n PROVE Kept(f)
      BY <2>3
    <3>1. PICK k \in Names : dir'[k] = f
      BY DEF Kept
    <3> QED
      BY <1>2, <2>1, <3>1 DEF NewFile, Kept
  <2>5. \A f \in Files : Kept(f) => f \in Files' /\ Kept(f)'
    BY <1>2, <2>1, <2>2 DEF NewFile, Kept, Files
  <2>6. \A f \in Files, i \in Ids : Has(f, TailOf(i)) <=> Has(f, TailOf(i))'
    BY <2>2 DEF Has
  <2>7. \A f \in Files', i \in Ids : Kept(f) /\ Has(f, TailOf(i))' => f \in Files /\ Has(f, TailOf(i))
    BY <2>2, <2>3, <2>6
  <2> QED
    BY <2>4, <2>5, <2>6, <2>7, SameRecords
<1> QED
  BY <1>1, <1>2 DEF AppendEffect

\* A tail of the buffer is newer than every tail on the disk.
LEMMA BufferedIsNewer ==
    ASSUME TypeOK, OrderInv, NEW f \in Files, NEW i \in Ids, Has(f, TailOf(i)),
           NEW n \in Ids, buffer # <<>>, buffer[1] = TailOf(n)
    PROVE  i < n
<1>1. PICK p \in 1..Len(content[f]) : content[f][p] = TailOf(i)
  BY DEF Has
<1>2. 1 \in 1..Len(buffer)
  BY Fragmentwise
<1>3. WrittenBefore(TailOf(i), TailOf(n))
  BY <1>1, <1>2 DEF OrderInv, BufferLast, Files
<1> QED
  BY <1>3, FragmentForms DEF WrittenBefore

LEMMA WriteIsLog ==
    ASSUME Inv, DataInv, RecordsKept, RecordsKept', Effects, WriteEffect
    PROVE  (WholeRecords' = WholeRecords /\ acked' = acked) \/ Log!Write
<1> DEFINE d == dir[0]
           n == Len(content[d])
<1>1. /\ TypeOK /\ OrderInv /\ Paired /\ AckedWritten
      /\ d \in Files /\ n \in Nat /\ 0 \in Names /\ acked \subseteq Ids
      /\ buffer # <<>> /\ 1 \in 1..Len(buffer) /\ buffer[1] \in Fragments
  BY Fragmentwise DEF Inv, DataInv, WriteEffect, TypeOK
<1>2. /\ dir' = dir /\ Files' = Files /\ acked' = acked
      /\ \A f \in Files : f # d => content'[f] = content[f]
      /\ Len(content'[d]) = n + 1
      /\ \A p \in 1..n : content'[d][p] = content[d][p]
      /\ content'[d][n + 1] = buffer[1]
  BY DEF WriteEffect, Longer, Files
<1>3. ASSUME NEW f \in Files, NEW i \in Ids
      PROVE  Has(f, TailOf(i))' <=> (Has(f, TailOf(i)) \/ (f = d /\ buffer[1] = TailOf(i)))
  <2>1. CASE f # d
    BY <1>2, <2>1 DEF Has
  <2>2. CASE f = d
    <3>1. \A p : p \in 1..(n + 1) <=> p \in 1..n \/ p = n + 1
      BY <1>1
    <3>2. (\E p \in 1..(n + 1) : content'[d][p] = TailOf(i))
             <=> (\E p \in 1..n : content[d][p] = TailOf(i)) \/ buffer[1] = TailOf(i)
      <4> HIDE DEF n, d
      <4> QED
        BY <1>2, <3>1
    <3> QED
      BY <1>2, <2>2, <3>2 DEF Has
  <2> QED
    BY <2>1, <2>2
<1>4. \A f : Kept(f)' <=> Kept(f)
  BY <1>2 DEF Kept
<1>5. Kept(d)
  BY <1>1 DEF Kept
<1> HIDE DEF d, n
<1>6. CASE buffer[1].part = "head"
  <2>1. \A i \in Ids : buffer[1] # TailOf(i)
    BY <1>6, FragmentForms
  <2>2. KeptTails' = KeptTails
    BY <1>2, <1>3, <1>4, <2>1 DEF KeptTails
  <2> QED
    BY <1>2, <2>2 DEF RecordsKept
<1>7. CASE buffer[1].part = "tail"
  <2>1. PICK i \in Ids : buffer[1] = TailOf(i)
    BY <1>1, <1>7, FragmentForms
  <2>2. \A j \in Ids : buffer[1] = TailOf(j) <=> j = i
    BY <2>1, FragmentForms
  <2>3. KeptTails' = KeptTails \union {i}
    BY <1>1, <1>2, <1>3, <1>4, <1>5, <2>2 DEF KeptTails
  <2>4. \A j \in KeptTails : j < i
    BY <1>1, <2>1, BufferedIsNewer DEF KeptTails
  <2>5. \A j \in acked : j < i
    BY <1>1, <2>1, BufferedIsNewer DEF AckedWritten
  <2>6. /\ \A j \in WholeRecords \union acked : j < i
        /\ WholeRecords' = WholeRecords \union {i}
    BY <2>3, <2>4, <2>5 DEF RecordsKept
  <2> QED
    BY <1>2, <2>6 DEF Log!Write
<1> QED
  BY <1>1, <1>6, <1>7, FragmentForms

\* An acknowledgement is of a whole record.
LEMMA AckIsLog ==
    ASSUME TypeOK, Paired, NEW i \in Ids, dir[0] # 0, Has(dir[0], TailOf(i)), i \notin acked,
           acked' = acked \union {i}, WholeRecords' = WholeRecords
    PROVE  Log!Acknowledge
<1>1. dir[0] \in Files /\ Kept(dir[0])
  BY Fragmentwise DEF Files, Kept
<1>2. i \in WholeRecords
  BY <1>1, WholeOnDisk DEF WholeRecords
<1> QED
  BY <1>2 DEF Log!Acknowledge

LEMMA FlushedIsLog ==
    ASSUME Inv, DataInv, NEW t \in Threads, FlushedEffect(t)
    PROVE  (WholeRecords' = WholeRecords /\ acked' = acked) \/ Log!Acknowledge
<1>1. WholeRecords' = WholeRecords
  BY DiskSameRecords DEF FlushedEffect
<1>2. TypeOK /\ Paired /\ RecOK(t) /\ OpOK(op[t]) /\ op[t].pc = "flush" /\ buffer = <<>>
  BY DEF Inv, DataInv, ThreadOK, FlushedEffect
<1>3. /\ op[t].rec \in Ids /\ dir[0] # 0 /\ op[t].rec \notin acked
      /\ Has(dir[0], TailOf(op[t].rec))
  BY <1>2 DEF RecOK, OpOK
<1> QED
  BY <1>1, <1>2, <1>3, AckIsLog DEF FlushedEffect

LEMMA RenameIsLog ==
    ASSUME Inv, DataInv, RecordsKept, RecordsKept', NEW t \in Threads, RenameEffect(t)
    PROVE  (WholeRecords' = WholeRecords /\ acked' = acked) \/ Log!Acknowledge
<1> DEFINE k == op[t].from
<1>1. /\ k \in Names /\ k + 1 \in Names /\ k # k + 1
      /\ content' = content
      /\ \A j \in Names : dir'[j] = IF j = k THEN 0
                                    ELSE IF j = k + 1 THEN dir[k] ELSE dir[j]
  BY RenameNames DEF RenameEffect
<1>2. TypeOK /\ Paired /\ RecOK(t) /\ OpOK(op[t]) /\ op[t].pc = "rename"
  BY DEF Inv, DataInv, ThreadOK, RenameEffect
<1>3. /\ dir[k + 1] = 0 /\ op[t].rec \in Ids /\ dir[0] # 0 /\ op[t].rec \notin acked
      /\ Has(dir[0], TailOf(op[t].rec))
  BY <1>2 DEF RecOK, OpOK
<1>4. \A f \in Files : f # 0
  BY DEF Files
<1> HIDE DEF k
<1>5. \A f \in Files : Kept(f)' <=> Kept(f)
  BY <1>1, <1>3, <1>4 DEF Kept
<1>6. KeptTails' = KeptTails
  BY <1>1, <1>5 DEF KeptTails, Files, Has
<1>7. WholeRecords' = WholeRecords
  BY <1>6 DEF RecordsKept
<1> QED
  BY <1>2, <1>3, <1>7, AckIsLog DEF RenameEffect

\* What an unlink drops is older than all that stays.
LEMMA UnlinkIsLog ==
    ASSUME Inv, DataInv, RecordsKept, RecordsKept', NEW t \in Threads, UnlinkEffect(t)
    PROVE  (WholeRecords' = WholeRecords /\ acked' = acked) \/ Log!Drop
<1> DEFINE b == BackupCount
           g == dir[b]
<1>1. /\ b \in Names /\ 0 \in Names /\ b # 0 /\ content' = content /\ acked' = acked
      /\ \A j \in Names : dir'[j] = IF j = b THEN 0 ELSE dir[j]
      /\ \A j \in Names : j # b => b > j
  BY FileAssumption DEF UnlinkEffect, Names
<1>2. /\ TypeOK /\ Paired /\ FilesOrdered /\ NamesOrdered
      /\ RecOK(t) /\ OpOK(op[t]) /\ op[t].pc = "unlink"
  BY DEF Inv, OrderInv, DataInv, ThreadOK, UnlinkEffect
<1>3. /\ op[t].rec \in Ids /\ dir[0] # 0 /\ Has(dir[0], TailOf(op[t].rec))
  BY <1>2 DEF RecOK, OpOK
<1>4. \A f \in Files : f # 0 /\ f \in Nat
  BY DEF Files
<1> HIDE DEF b
<1>5. ASSUME NEW f \in Files PROVE Kept(f)' <=> Kept(f) /\ f # g
  <2>1. ASSUME Kept(f)' PROVE Kept(f) /\ f # g
    <3>1. PICK j \in Names : dir'[j] = f
      BY <2>1 DEF Kept
    <3>2. j # b /\ dir[j] = f
      BY <1>1, <1>4, <3>1
    <3>3. f # g
      <4>1. CASE g = 0
        BY <1>4, <4>1
      <4>2. CASE g # 0
        <5>1. g < f
          BY <1>1, <1>2, <1>4, <3>2, <4>2 DEF NamesOrdered
        <5>2. g \in Nat
          BY <1>1, <1>2, Fragmentwise
        <5> QED
          BY <1>4, <5>1, <5>2
      <4> QED
        BY <4>1, <4>2
    <3> QED
      BY <3>2, <3>3 DEF Kept
  <2>2. ASSUME Kept(f), f # g PROVE Kept(f)'
    BY <1>1, <2>2 DEF Kept
  <2> QED
    BY <2>1, <2>2
<1>6. KeptTails' = { i \in Ids : \E f \in Files : Kept(f) /\ f # g /\ Has(f, TailOf(i)) }
  BY <1>1, <1>5 DEF KeptTails, Files, Has
<1>7. op[t].rec \in KeptTails'
  <2>1. dir[0] \in Files /\ dir[0] # g
    <3>1. dir[0] \in Files
      BY <1>2, <1>3, Fragmentwise DEF Files
    <3>2. g = 0 \/ g < dir[0]
      BY <1>1, <1>2, <1>3 DEF NamesOrdered
    <3> QED
      BY <1>1, <1>2, <1>3, <1>4, <3>1, <3>2, Fragmentwise
  <2>2. Kept(dir[0])
    BY <1>1 DEF Kept
  <2> QED
    BY <1>3, <1>6, <2>1, <2>2
<1>8. ASSUME NEW i \in Ids, NEW j \in Ids, i \in KeptTails', j \in KeptTails, j \notin KeptTails'
      PROVE  j < i
  <2>1. PICK f \in Files : Kept(f) /\ f # g /\ Has(f, TailOf(i))
    BY <1>6, <1>8
  <2>2. PICK h \in Files : Kept(h) /\ Has(h, TailOf(j))
    BY <1>8 DEF KeptTails
  <2>3. h = g
    BY <1>6, <1>8, <2>2
  <2>4. g < f
    <3>1. PICK m \in Names : dir[m] = f
      BY <2>1 DEF Kept
    <3>2. m # b /\ g # 0 /\ dir[m] # 0
      BY <1>4, <2>1, <2>3, <3>1
    <3> QED
      BY <1>1, <1>2, <3>1, <3>2 DEF NamesOrdered
  <2>5. PICK q \in 1..Len(content[h]) : content[h][q] = TailOf(j)
    BY <2>2 DEF Has
  <2>6. PICK p \in 1..Len(content[f]) : content[f][p] = TailOf(i)
    BY <2>1 DEF Has
  <2>7. WrittenBefore(TailOf(j), TailOf(i))
    BY <1>2, <2>3, <2>4, <2>5, <2>6 DEF FilesOrdered, Files
  <2> QED
    BY <2>7, FragmentForms DEF WrittenBefore
<1>9. KeptTails' \subseteq KeptTails /\ KeptTails' \subseteq Ids /\ Ids \subseteq Nat
  BY <1>6 DEF KeptTails, Ids
<1>10. PICK i \in KeptTails' : \A m \in KeptTails' : i <= m
  <2>1. KeptTails' \in SUBSET Nat /\ KeptTails' # {}
    BY <1>7, <1>9
  <2> QED
    BY <2>1, Minimum
<1>11. KeptTails' = { j \in KeptTails : i <= j }
  <2>1. ASSUME NEW j \in KeptTails, i <= j PROVE j \in KeptTails'
    <3>1. i \in Nat /\ j \in Nat /\ i \in Ids /\ j \in Ids
      BY <1>9, <1>10 DEF KeptTails
    <3> QED
      BY <1>8, <1>10, <2>1, <3>1
  <2> QED
    BY <1>9, <1>10, <2>1
<1>12. \E m \in WholeRecords : WholeRecords' = { j \in WholeRecords : m <= j }
  BY <1>9, <1>10, <1>11 DEF RecordsKept
<1> QED
  BY <1>1, <1>12 DEF Log!Drop

LEMMA StepIsLog ==
    Inv /\ Inv' /\ DataInv /\ RecordsKept /\ RecordsKept' /\ [Next]_vars => [Log!Next]_(Log!vars)
<1> SUFFICES ASSUME Inv, Inv', DataInv, RecordsKept, RecordsKept', [Next]_vars
             PROVE  [Log!Next]_(Log!vars)
  OBVIOUS
<1>1. TypeOK /\ TypeOK' /\ ClosedOK /\ (\A t \in Threads : RecOK(t))
  BY DEF Inv, DataInv
<1>2. Effects
  BY <1>1, StepEffects
<1>3. CASE WholeRecords' = WholeRecords /\ acked' = acked
  BY <1>3 DEF Log!vars
<1>4. CASE Log!Write \/ Log!Acknowledge \/ Log!Drop
  BY <1>4 DEF Log!Next
<1>5. ASSUME NEW t \in Threads,
             \/ FailEffect(t) \/ CloseActiveEffect(t) \/ CloseEffect(t)
             \/ CloseEndsEffect(t) \/ IterEffect(t)
      PROVE  WholeRecords' = WholeRecords /\ acked' = acked
  BY <1>5, DiskSameRecords DEF FailEffect, CloseActiveEffect, CloseEffect, CloseEndsEffect,
                               IterEffect
<1>6. CASE FreshEffect \/ NothingEffect
  <2>1. DiskSame /\ acked' = acked
    BY <1>6 DEF FreshEffect, NothingEffect, DiskSame
  <2> QED
    BY <1>3, <2>1, DiskSameRecords
<1>7. ASSUME NEW t \in Threads, AppendEffect(t)
      PROVE  WholeRecords' = WholeRecords /\ acked' = acked
  BY <1>1, <1>2, <1>7, AppendKeepsRecords DEF AppendEffect
<1>8. ASSUME NEW t \in Threads, CallEffect(t) PROVE [Log!Next]_(Log!vars)
  BY <1>2, <1>3, <1>4, <1>5, <1>7, <1>8, WriteIsLog, FlushedIsLog, RenameIsLog, UnlinkIsLog
     DEF CallEffect
<1> QED
  BY <1>2, <1>3, <1>5, <1>6, <1>8 DEF Effects

\* Through faults, crashes and half of a rotation the store is a log that grows at
\* its end and is dropped from its beginning (FilePersistence, BoundedLog).
THEOREM LogSpecHolds == Spec => LogSpec
<1>1. Init => Log!Init
  <2> SUFFICES ASSUME Init PROVE Log!Init
    OBVIOUS
  <2>1. acked = {} /\ \A k \in Names : dir[k] = 0
    BY DEF Init
  <2>2. Retained = {}
    BY <2>1 DEF Retained
  <2>3. WholeRecords = {}
    BY <2>2 DEF WholeRecords, OnDisk
  <2> QED
    BY <2>1, <2>3 DEF Log!Init
<1>2. Inv /\ DataInv => RecordsKept
  BY KeptIsWhole DEF Inv, DataInv
<1> QED
  BY <1>1, <1>2, StepIsLog, InvHolds, DataInvHolds, PTL DEF Spec, LogSpec, Log!Spec


-----------------------------------------------------------------------------
(* A replay is complete.                                                   *)

\* The lines up to position p of the file with name k, and those of the older files.
Before(k, p) == { l \in Lines : l[1] > k \/ (l[1] = k /\ l[2] <= p) }

Events(L, start) == { i \in Ids : \E l \in L : Offset(l) >= start /\ Holds(l, i) }

\* An iterator has counted the lines before position p of the file with name k, and has
\* yielded their events.
Caught(it, k, p) ==
    /\ it.offset = Cardinality(Before(k, p))
    /\ ToSet(it.out) = Events(Before(k, p), it.start)

\* An iterator whose consumer did not write is between two lines of the file that has
\* the name it works on.
CompleteOK(it) ==
    it.pc # "none" /\ ~it.mixed =>
        IF it.pc = "open" THEN Caught(it, it.left - 1, 0)
        ELSE /\ it.file = dir[it.left - 1]
             /\ it.pos = 0 \/ it.pos \in LineEnds(it.left - 1)
             /\ Caught(it, it.left - 1, it.pos)

\* Whoever is in a call while it iterates is a consumer that writes.
MixedOK(t) ==
    op[t].pc # "idle" /\ iter[t].pc # "none" => iter[t].pc = "yielded" /\ iter[t].mixed

ReplayInv == \A t \in Threads : MixedOK(t) /\ CompleteOK(iter[t])

LEMMA NamedFile ==
    ASSUME TypeOK, NEW k \in Names
    PROVE  /\ FileOf(k) \in Seq(Fragments) /\ Len(FileOf(k)) \in Nat
           /\ DOMAIN FileOf(k) = 1..Len(FileOf(k))
           /\ LineEnds(k) \subseteq 1..Len(FileOf(k))
           /\ dir[k] # 0 => FileOf(k) = content[dir[k]] /\ dir[k] \in Files
           /\ k \in Nat
<1>1. k \in Nat
  BY FileAssumption DEF Names
<1>2. dir[k] \in 0..Len(content) /\ Len(content) \in Nat
  BY Fragmentwise
<1>3. dir[k] # 0 => FileOf(k) = content[dir[k]] /\ dir[k] \in Files
  BY <1>2 DEF FileOf, Files
<1>4. FileOf(k) \in Seq(Fragments)
  <2>1. CASE dir[k] = 0
    <3>1. <<>> \in Seq(Fragments)
      OBVIOUS
    <3> QED
      BY <2>1, <3>1 DEF FileOf
  <2>2. CASE dir[k] # 0
    BY <1>3, <2>2, ElementOfSeq DEF TypeOK, Files
  <2> QED
    BY <2>1, <2>2
<1>5. Len(FileOf(k)) \in Nat /\ DOMAIN FileOf(k) = 1..Len(FileOf(k))
  BY <1>4, LenProperties
<1> QED
  BY <1>1, <1>3, <1>4, <1>5 DEF LineEnds

\* A line is a name and the end of one of its lines.
LEMMA LineForm ==
    /\ \A k \in Names : \A e \in LineEnds(k) : <<k, e>> \in Lines
    /\ \A l \in Lines : /\ l[1] \in Names /\ l[2] \in LineEnds(l[1])
                        /\ l = <<l[1], l[2]>>
<1>1. ASSUME NEW k \in Names, NEW e \in LineEnds(k) PROVE <<k, e>> \in Lines
  <2>1. <<k, e>> \in {k} \X LineEnds(k)
    OBVIOUS
  <2> QED
    BY <2>1 DEF Lines
<1>2. ASSUME NEW l \in Lines
      PROVE  l[1] \in Names /\ l[2] \in LineEnds(l[1]) /\ l = <<l[1], l[2]>>
  <2>1. PICK k \in Names : l \in {k} \X LineEnds(k)
    BY DEF Lines
  <2> QED
    BY <2>1
<1> QED
  BY <1>1, <1>2

LEMMA LinesFinite ==
    ASSUME TypeOK
    PROVE  /\ IsFiniteSet(Lines)
           /\ \A k, p : IsFiniteSet(Before(k, p))
<1> DEFINE f == [k \in Names |-> {k} \X LineEnds(k)]
           R == { f[k] : k \in Names }
<1>1. IsFiniteSet(R)
  <2>1. IsFiniteSet(Names)
    <3>1. 0 \in Int /\ BackupCount \in Int
      BY FileAssumption
    <3> QED
      BY <3>1, FS_Interval DEF Names
  <2>2. f \in Surjection(Names, R)
    BY DEF Surjection
  <2> HIDE DEF f, R
  <2> QED
    BY <2>1, <2>2, FS_Surjection
<1>2. \A T \in R : IsFiniteSet(T)
  <2> SUFFICES ASSUME NEW k \in Names PROVE IsFiniteSet({k} \X LineEnds(k))
    OBVIOUS
  <2>1. IsFiniteSet(LineEnds(k))
    <3>1. Len(FileOf(k)) \in Nat /\ LineEnds(k) \subseteq 1..Len(FileOf(k))
      BY NamedFile
    <3>2. IsFiniteSet(1..Len(FileOf(k)))
      BY <3>1, FS_Interval
    <3> QED
      BY <3>1, <3>2, FS_Subset
  <2>2. IsFiniteSet({k})
    BY FS_Singleton
  <2> QED
    BY <2>1, <2>2, FS_Product
<1>3. Lines = UNION R
  BY DEF Lines
<1>4. IsFiniteSet(Lines)
  <2> HIDE DEF R
  <2> QED
    BY <1>1, <1>2, <1>3, FS_UNION
<1>5. \A k, p : Before(k, p) \subseteq Lines
  BY DEF Before
<1> QED
  BY <1>4, <1>5, FS_Subset

\* Nothing comes before the oldest name, and the end of one file is the beginning of
\* the next.
LEMMA BeforeEdges ==
    ASSUME TypeOK
    PROVE  /\ Before(BackupCount, 0) = {}
           /\ Before(-1, 0) = Lines
           /\ \A k \in Names : Before(k, Len(FileOf(k))) = Before(k - 1, 0)
<1>1. \A l \in Lines : /\ l[1] \in Names /\ l[1] \in Nat /\ l[1] <= BackupCount
                       /\ l[2] \in 1..Len(FileOf(l[1])) /\ Len(FileOf(l[1])) \in Nat
  <2> SUFFICES ASSUME NEW l \in Lines
               PROVE  /\ l[1] \in Names /\ l[1] \in Nat /\ l[1] <= BackupCount
                      /\ l[2] \in 1..Len(FileOf(l[1])) /\ Len(FileOf(l[1])) \in Nat
    OBVIOUS
  <2>1. l[1] \in Names /\ l[2] \in LineEnds(l[1])
    BY LineForm
  <2> QED
    BY <2>1, NamedFile, FileAssumption DEF Names
<1>2. Before(BackupCount, 0) = {}
  BY <1>1, FileAssumption DEF Before
<1>3. Before(-1, 0) = Lines
  BY <1>1 DEF Before
<1>4. ASSUME NEW k \in Names PROVE Before(k, Len(FileOf(k))) = Before(k - 1, 0)
  <2>1. k \in Nat /\ Len(FileOf(k)) \in Nat
    BY NamedFile
  <2>2. ASSUME NEW l \in Lines
        PROVE  \/ l[1] > k \/ (l[1] = k /\ l[2] <= Len(FileOf(k)))
               <=> l[1] > k - 1 \/ (l[1] = k - 1 /\ l[2] <= 0)
    <3>1. CASE l[1] = k
      BY <1>1, <2>1, <3>1
    <3>2. CASE l[1] # k
      BY <1>1, <2>1, <3>2
    <3> QED
      BY <3>1, <3>2
  <2> QED
    BY <2>2 DEF Before
<1> QED
  BY <1>2, <1>3, <1>4

\* The next line of a file is one more, and its offset is the number of those before.
LEMMA NextLine ==
    ASSUME TypeOK, NEW k \in Names, NEW p \in Nat, p < Len(FileOf(k))
    PROVE  LET e == LineEnd(FileOf(k), p)
           IN  /\ e \in (p + 1)..Len(FileOf(k)) /\ e \in LineEnds(k)
               /\ Before(k, e) = Before(k, p) \union {<<k, e>>}
               /\ Offset(<<k, e>>) = Cardinality(Before(k, p))
               /\ Cardinality(Before(k, e)) = Cardinality(Before(k, p)) + 1
<1> DEFINE file == FileOf(k)
           e == LineEnd(file, p)
           l == <<k, e>>
<1>1. /\ file \in Seq(Fragments) /\ Len(file) \in Nat /\ k \in Nat
      /\ DOMAIN file = 1..Len(file) /\ p < Len(file)
  BY NamedFile
<1>2. /\ e \in (p + 1)..Len(file)
      /\ e = Len(file) \/ EndsLine(file[e])
      /\ \A m \in (p + 1)..(e - 1) : ~EndsLine(file[m])
  <2> HIDE DEF file
  <2> QED
    BY <1>1, LineEndProperties
<1>3. e \in Nat /\ p < e /\ e <= Len(file) /\ e \in 1..Len(file)
  <2>1. p \in Nat
    OBVIOUS
  <2> HIDE DEF file, e
  <2>2. PICK n \in Nat : n = Len(file)
    BY <1>1
  <2>3. e \in (p + 1)..n
    BY <1>2, <2>2
  <2>4. e \in Nat /\ p < e /\ e <= n /\ e \in 1..n
    BY <2>1, <2>3
  <2> QED
    BY <2>2, <2>4
<1>4. e \in LineEnds(k)
  BY <1>1, <1>2, <1>3 DEF LineEnds
<1>5. l \in Lines /\ l[1] = k /\ l[2] = e
  BY <1>4, LineForm
<1> HIDE DEF e
<1>6. \A m \in Lines : /\ m[1] \in Nat /\ m[2] \in Nat /\ m = <<m[1], m[2]>>
                       /\ m[1] = k /\ m[2] < e => m[2] <= p
  <2> SUFFICES ASSUME NEW m \in Lines
               PROVE  /\ m[1] \in Nat /\ m[2] \in Nat /\ m = <<m[1], m[2]>>
                      /\ m[1] = k /\ m[2] < e => m[2] <= p
    OBVIOUS
  <2>1. m[1] \in Names /\ m[2] \in LineEnds(m[1]) /\ m = <<m[1], m[2]>>
    BY LineForm
  <2>2. m[1] \in Nat /\ m[2] \in 1..Len(FileOf(m[1])) /\ Len(FileOf(m[1])) \in Nat
    BY <2>1, NamedFile
  <2>3. ASSUME m[1] = k, m[2] < e, ~(m[2] <= p) PROVE FALSE
    <3> DEFINE q == m[2]
    <3>1. q \in LineEnds(k) /\ q \in 1..Len(file)
      BY <2>1, <2>2, <2>3
    <3>2. q < e /\ ~(q <= p)
      BY <2>3
    <3> HIDE DEF q
    <3>3. q = Len(file) \/ EndsLine(file[q])
      BY <3>1 DEF LineEnds
    <3>4. q \in (p + 1)..(e - 1) /\ q # Len(file)
      <4>1. p \in Nat
        OBVIOUS
      <4> HIDE DEF file
      <4>2. PICK n \in Nat : n = Len(file)
        BY <1>1
      <4>3. q \in 1..n /\ e \in Nat /\ e <= n
        BY <1>3, <3>1, <4>2
      <4>4. q \in (p + 1)..(e - 1) /\ q # n
        BY <3>2, <4>1, <4>3
      <4> QED
        BY <4>2, <4>4
    <3> QED
      BY <1>2, <3>3, <3>4
  <2> QED
    BY <2>1, <2>2, <2>3
<1>7. Before(k, e) = Before(k, p) \union {l}
  <2>1. ASSUME NEW m \in Before(k, e) PROVE m \in Before(k, p) \union {l}
    <3>1. m \in Lines /\ (m[1] > k \/ (m[1] = k /\ m[2] <= e))
      BY DEF Before
    <3>2. CASE m[1] > k
      BY <3>1, <3>2 DEF Before
    <3>3. CASE m[1] = k /\ m[2] = e
      BY <1>6, <3>1, <3>3
    <3>4. CASE m[1] = k /\ m[2] < e
      BY <1>6, <3>1, <3>4 DEF Before
    <3> QED
      BY <1>3, <1>6, <3>1, <3>2, <3>3, <3>4
  <2>2. ASSUME NEW m \in Before(k, p) PROVE m \in Before(k, e)
    BY <1>3, <1>6 DEF Before
  <2>3. l \in Before(k, e)
    BY <1>3, <1>5 DEF Before
  <2> QED
    BY <2>1, <2>2, <2>3
<1>8. l \notin Before(k, p)
  BY <1>1, <1>3, <1>5 DEF Before
<1>9. Offset(l) = Cardinality(Before(k, p))
  <2>1. ASSUME NEW m \in Lines
        PROVE  m[1] > l[1] \/ (m[1] = l[1] /\ m[2] < l[2])
               <=> m[1] > k \/ (m[1] = k /\ m[2] <= p)
    BY <1>3, <1>5, <1>6
  <2>2. { m \in Lines : m[1] > l[1] \/ (m[1] = l[1] /\ m[2] < l[2]) } = Before(k, p)
    BY <2>1 DEF Before
  <2> QED
    BY <2>2 DEF Offset
<1>10. Cardinality(Before(k, e)) = Cardinality(Before(k, p)) + 1
  BY <1>7, <1>8, LinesFinite, FS_AddElement
<1> QED
  BY <1>2, <1>4, <1>7, <1>9, <1>10 DEF e

\* It holds a record exactly if the iterator takes it for an event.
LEMMA LineIsEvent ==
    ASSUME TypeOK, OrderInv, NEW k \in Names, NEW p \in Nat, p < Len(FileOf(k)),
           p = 0 \/ p \in LineEnds(k)
    PROVE  LET e == LineEnd(FileOf(k), p)
           IN  /\ FileOf(k)[e].id \in Ids
               /\ \A i \in Ids : Holds(<<k, e>>, i)
                                   <=> IsEvent(FileOf(k), p, e) /\ i = FileOf(k)[e].id
<1> DEFINE file == FileOf(k)
           e == LineEnd(file, p)
<1>1. /\ file \in Seq(Fragments) /\ Len(file) \in Nat /\ k \in Nat /\ p < Len(file)
      /\ dir[k] # 0 => file = content[dir[k]] /\ dir[k] \in Files
  BY NamedFile
<1>2. /\ e \in (p + 1)..Len(file)
      /\ \A m \in (p + 1)..(e - 1) : ~EndsLine(file[m])
  <2> HIDE DEF file
  <2> QED
    BY <1>1, LineEndProperties
<1>3. e \in Nat /\ p < e /\ e <= Len(file) /\ e \in 1..Len(file)
  <2>1. p \in Nat
    OBVIOUS
  <2> HIDE DEF file, e
  <2>2. PICK n \in Nat : n = Len(file)
    BY <1>1
  <2>3. e \in (p + 1)..n
    BY <1>2, <2>2
  <2>4. e \in Nat /\ p < e /\ e <= n /\ e \in 1..n
    BY <2>1, <2>3
  <2> QED
    BY <2>2, <2>4
<1>4. dir[k] # 0
  <2>1. Len(<<>>) = 0
    OBVIOUS
  <2> QED
    BY <1>1, <1>3, <2>1 DEF FileOf
<1>5. file = content[dir[k]] /\ dir[k] \in Files /\ dir[k] \in Retained
  BY <1>1, <1>4 DEF Retained
<1>6. p # 0 => EndsLine(file[p])
  BY <1>1 DEF LineEnds
<1> HIDE DEF e
<1>7. file[e] \in Fragments
  BY <1>1, <1>3, ElementOfSeq
<1>8. file[e].id \in Ids
  BY <1>7 DEF Fragments
<1>9. ASSUME NEW i \in Ids, IsEvent(file, p, e), i = file[e].id
      PROVE  Holds(<<k, e>>, i)
  <2>1. e = p + 2 /\ SubSeq(file, p + 1, p + 2) = Record(i)
    BY <1>9 DEF IsEvent
  <2>2. p + 1 \in 1..(Len(file) - 1) /\ (p + 1) + 1 = p + 2 /\ (p + 1) - 1 = p
    <3> HIDE DEF file
    <3> QED
      BY <1>1, <1>3, <2>1
  <2>3. file[p + 1] = HeadOf(i) /\ file[p + 2] = TailOf(i)
    <3> HIDE DEF file
    <3> QED
      BY <1>1, <2>1, <2>2, RecordAt
  <2>4. EndsLine(file[p + 2])
    BY <2>3 DEF EndsLine, TailOf
  <2>5. p + 1 > 1 => EndsLine(file[(p + 1) - 1])
    BY <1>6, <2>2
  <2>6. Replayable(i)
    BY <1>5, <2>1, <2>2, <2>4, <2>5 DEF Replayable
  <2> QED
    BY <2>1, <2>3, <2>6 DEF Holds, TailOf
<1>10. ASSUME NEW i \in Ids, Holds(<<k, e>>, i)
       PROVE  IsEvent(file, p, e) /\ i = file[e].id
  <2>1. Replayable(i) /\ file[e] = TailOf(i)
    BY <1>10 DEF Holds, TailOf
  <2>2. i = file[e].id
    BY <2>1 DEF TailOf
  <2>3. PICK f \in Retained : \E q \in 1..(Len(content[f]) - 1) :
           /\ SubSeq(content[f], q, q + 1) = Record(i)
           /\ EndsLine(content[f][q + 1])
           /\ q > 1 => EndsLine(content[f][q - 1])
    BY <2>1 DEF Replayable
  <2>4. PICK q \in 1..(Len(content[f]) - 1) :
           /\ SubSeq(content[f], q, q + 1) = Record(i)
           /\ EndsLine(content[f][q + 1])
           /\ q > 1 => EndsLine(content[f][q - 1])
    BY <2>3
  <2>5. f \in Files /\ content[f] \in Seq(Fragments) /\ Len(content[f]) \in Nat
    BY <2>3, RetainedFiles, ElementOfSeq, LenProperties DEF TypeOK, Files
  <2>6. content[f][q] = HeadOf(i) /\ content[f][q + 1] = TailOf(i)
    BY <2>4, <2>5, RecordAt
  <2>7. q \in Nat /\ q >= 1 /\ q + 1 \in 1..Len(content[f])
    BY <2>5
  <2>8. f = dir[k] /\ q + 1 = e
    <3>1. FilesOrdered
      BY DEF OrderInv
    <3>2. e \in 1..Len(content[dir[k]])
      BY <1>3, <1>5
    <3>3. content[f][q + 1] = content[dir[k]][e]
      BY <1>5, <2>1, <2>6
    <3> QED
      BY <1>5, <2>5, <2>7, <3>1, <3>2, <3>3, InOnePlace
  <2>9. q = e - 1 /\ file[q] = HeadOf(i)
    BY <1>3, <1>5, <2>6, <2>7, <2>8
  <2>10. p = q - 1
    <3>1. p # q
      <4>1. q # 0 /\ ~EndsLine(file[q])
        BY <2>7, <2>9 DEF EndsLine, HeadOf
      <4> QED
        BY <1>6, <4>1
    <3>2. ~(p < q - 1)
      <4>1. ASSUME p < q - 1 PROVE FALSE
        <5>1. q > 1 /\ q - 1 \in (p + 1)..(e - 1)
          BY <1>3, <2>7, <2>8, <4>1
        <5> QED
          BY <1>2, <1>5, <2>4, <2>8, <5>1
      <4> QED
        BY <4>1
    <3> QED
      BY <1>3, <2>7, <2>8, <3>1, <3>2
  <2>11. e = p + 2 /\ p + 1 = q /\ e = q + 1
    BY <1>3, <2>7, <2>8, <2>10
  <2>12. SubSeq(file, p + 1, e) = Record(i)
    BY <1>5, <2>4, <2>8, <2>11
  <2> QED
    BY <2>2, <2>11, <2>12 DEF IsEvent
<1> QED
  BY <1>8, <1>9, <1>10 DEF e

\* A line more in front of an iterator adds its event, if it holds one.
LEMMA EventsOfLine ==
    ASSUME NEW L, NEW l, NEW start
    PROVE  /\ Events({}, start) = {}
           /\ Events(L \union {l}, start)
                = Events(L, start) \union { i \in Ids : Offset(l) >= start /\ Holds(l, i) }
  BY DEF Events

LEMMA OutGrows ==
    /\ ToSet(<<>>) = {}
    /\ \A s \in Seq(Ids), i \in Ids : ToSet(Append(s, i)) = ToSet(s) \union {i}
<1>1. ToSet(<<>>) = {}
  BY EmptySeq DEF ToSet
<1>2. ASSUME NEW s \in Seq(Ids), NEW i \in Ids
      PROVE  ToSet(Append(s, i)) = ToSet(s) \union {i}
  <2> DEFINE n == Len(s)
             r == Append(s, i)
  <2>1. n \in Nat /\ DOMAIN s = 1..n /\ DOMAIN r = 1..(n + 1)
    BY LenProperties, AppendProperties
  <2>2. r[n + 1] = i /\ \A m \in 1..n : r[m] = s[m]
    BY AppendProperties
  <2> HIDE DEF n, r
  <2>3. 1..(n + 1) = 1..n \union {n + 1}
    BY <2>1
  <2>4. ToSet(r) = ToSet(s) \union {i}
    BY <2>1, <2>2, <2>3 DEF ToSet
  <2> QED
    BY <2>4 DEF r
<1> QED
  BY <1>1, <1>2

\* What an iterator has caught is a matter of the files and of their names.
LEMMA CompleteStays ==
    ASSUME NEW r, content' = content, dir' = dir, CompleteOK(r), NEW t, iter'[t] = r
    PROVE  CompleteOK(iter[t])'
<1>1. \A k : FileOf(k)' = FileOf(k)
  BY DEF FileOf
<1>2. \A k : LineEnds(k)' = LineEnds(k)
  BY <1>1 DEF LineEnds, EndsLine
<1>3. Lines' = Lines
  BY <1>2 DEF Lines
<1>4. \A k, p : Before(k, p)' = Before(k, p)
  BY <1>3 DEF Before
<1>5. \A l : Offset(l)' = Offset(l)
  BY <1>3 DEF Offset
<1>6. \A i : Replayable(i)' = Replayable(i)
  BY DEF Replayable, Retained, EndsLine, Record
<1>7. \A l, i : Holds(l, i)' = Holds(l, i)
  BY <1>1, <1>6 DEF Holds
<1>8. \A k, p : Caught(r, k, p)' = Caught(r, k, p)
  <2> TAKE k, p
  <2>1. Before(k, p)' = Before(k, p)
    BY <1>4
  <2>2. \A start : Events(Before(k, p), start)' = Events(Before(k, p), start)
    BY <1>5, <1>7, <2>1 DEF Events, Ids
  <2> QED
    BY <2>1, <2>2 DEF Caught
<1> QED
  BY <1>2, <1>8 DEF CompleteOK, Caught

LEMMA CompleteBecomes ==
    ASSUME TypeOK, NEW t \in Threads, NEW r, Iterates(t, r), CompleteOK(r)
    PROVE  CompleteOK(iter[t])'
<1>1. iter'[t] = r /\ content' = content /\ dir' = dir
  BY DEF Iterates, TypeOK, disk
<1> QED
  BY <1>1, CompleteStays

LEMMA CompleteBegins ==
    ASSUME TypeOK, NEW r, r.pc = "open", r.left = BackupCount + 1, r.offset = 0, r.out = <<>>
    PROVE  CompleteOK(r)
<1>1. r.left - 1 = BackupCount
  BY FileAssumption
<1>2. Before(r.left - 1, 0) = {}
  BY <1>1, BeforeEdges
<1>3. Caught(r, r.left - 1, 0)
  BY <1>2, EventsOfLine, OutGrows, FS_EmptySet DEF Caught
<1> QED
  BY <1>3 DEF CompleteOK

\* The name an iterator works on.
LEMMA NameRead ==
    ASSUME TypeOK, NEW it \in Iterators
    PROVE  /\ it.left > 0 => it.left - 1 \in Names /\ NameOf(it) = it.left - 1
           /\ IterOK(it) /\ it.pc \in {"read", "yielded"} => it.left > 0
<1>1. it.left \in 0..(BackupCount + 1) /\ BackupCount \in Nat
  BY FileAssumption DEF Iterators
<1>2. it.left > 0 => it.left - 1 \in Names /\ NameOf(it) = it.left - 1
  <2> DEFINE n == it.left
  <2>1. n \in 0..(BackupCount + 1)
    BY <1>1
  <2> HIDE DEF n
  <2>2. n > 0 => n - 1 \in 0..BackupCount
    BY <1>1, <2>1
  <2> QED
    BY <2>2 DEF n, Names, NameOf
<1>3. it.left >= 1 => it.left > 0
  BY <1>1
<1> QED
  BY <1>2, <1>3 DEF IterOK

\* A file that has been read, or that is not there, and the next one.
LEMMA CompleteNext ==
    ASSUME TypeOK, NEW it \in Iterators, it.pc # "none", it.left > 0,
           ~it.mixed => Caught(it, it.left - 1, Len(FileOf(it.left - 1)))
    PROVE  CompleteOK(NextFile(it))
<1> DEFINE r == NextFile(it)
           k == it.left - 1
<1>1. /\ r.pc = "open" /\ r.left = k /\ r.mixed = it.mixed
      /\ r.offset = it.offset /\ r.out = it.out /\ r.start = it.start
  BY DEF NextFile, Iterators
<1>2. k \in Names
  BY NameRead
<1>3. Before(k, Len(FileOf(k))) = Before(k - 1, 0)
  <2> HIDE DEF k
  <2> QED
    BY <1>2, BeforeEdges
<1>4. ~it.mixed => Caught(r, k - 1, 0)
  BY <1>1, <1>3 DEF Caught
<1> QED
  BY <1>1, <1>4 DEF CompleteOK

LEMMA CompleteOpens ==
    ASSUME TypeOK, NEW it \in Iterators, CompleteOK(it), it.pc = "open", it.left > 0
    PROVE  CompleteOK(IF dir[NameOf(it)] = 0 THEN NextFile(it)
                      ELSE [it EXCEPT !.pc = "read", !.file = dir[NameOf(it)], !.pos = 0])
<1> DEFINE k == it.left - 1
           r == [it EXCEPT !.pc = "read", !.file = dir[k], !.pos = 0]
<1>1. k \in Names /\ NameOf(it) = k
  BY NameRead
<1>2. ~it.mixed => Caught(it, k, 0)
  BY DEF CompleteOK
<1>3. CASE dir[k] = 0
  <2>1. Len(FileOf(k)) = 0
    BY <1>3, EmptySeq DEF FileOf
  <2>2. ~it.mixed => Caught(it, k, Len(FileOf(k)))
    BY <1>2, <2>1
  <2> QED
    BY <1>1, <1>3, <2>2, CompleteNext
<1>4. CASE dir[k] # 0
  <2>1. /\ r.pc = "read" /\ r.left = it.left /\ r.mixed = it.mixed /\ r.file = dir[k]
        /\ r.pos = 0 /\ r.offset = it.offset /\ r.out = it.out /\ r.start = it.start
    BY DEF Iterators
  <2>2. ~it.mixed => Caught(r, k, 0)
    BY <1>2, <2>1 DEF Caught
  <2>3. CompleteOK(r)
    BY <2>1, <2>2 DEF CompleteOK
  <2> QED
    BY <1>1, <1>4, <2>3
<1> QED
  BY <1>3, <1>4

\* An iterator whose consumer did not write reads the file with the name it works on.
LEMMA FileRead ==
    ASSUME TypeOK, NEW it \in Iterators, IterOK(it), CompleteOK(it),
           it.pc \in {"read", "yielded"}, ~it.mixed
    PROVE  LET k == it.left - 1
           IN  /\ k \in Names /\ content[it.file] = FileOf(k) /\ it.file = dir[k]
               /\ it.pos = 0 \/ it.pos \in LineEnds(k)
               /\ Caught(it, k, it.pos)
<1> DEFINE k == it.left - 1
<1>1. k \in Names
  BY NameRead
<1>2. it.file = dir[k] /\ (it.pos = 0 \/ it.pos \in LineEnds(k)) /\ Caught(it, k, it.pos)
  BY DEF CompleteOK
<1>3. dir[k] # 0
  <2>1. it.file \in 1..Len(content)
    BY DEF IterOK
  <2> QED
    BY <1>2, <2>1
<1> QED
  BY <1>1, <1>2, <1>3 DEF FileOf

LEMMA CompleteReads ==
    ASSUME Inv, NEW t \in Threads, ReadLine(t), CompleteOK(iter[t])
    PROVE  CompleteOK(iter[t])'
<1> DEFINE it == iter[t]
           file == content[it.file]
           end == LineEnd(file, it.pos)
           read == [it EXCEPT !.pos = end, !.offset = @ + 1]
           event == [read EXCEPT !.pc = "yielded", !.out = Append(@, file[end].id)]
           k == it.left - 1
           l == <<k, end>>
           id == file[end].id
<1>1. it \in Iterators /\ IterOK(it) /\ it.pc = "read" /\ TypeOK /\ OrderInv
  BY DEF ReadLine, IterAt, Inv, ThreadOK, TypeOK
<1>2. it.pos \in Nat /\ it.pos < Len(file) /\ it.offset \in Nat /\ it.out \in Seq(Ids)
  BY <1>1 DEF ReadLine, Iterators
<1>3. /\ read.pc = "read" /\ read.left = it.left /\ read.file = it.file /\ read.pos = end
      /\ read.offset = it.offset + 1 /\ read.start = it.start /\ read.out = it.out
      /\ read.mixed = it.mixed
  <2> HIDE DEF end
  <2> QED
    BY <1>1 DEF Iterators
<1>4. /\ event.pc = "yielded" /\ event.left = it.left /\ event.file = it.file
      /\ event.pos = end /\ event.offset = it.offset + 1 /\ event.start = it.start
      /\ event.out = Append(it.out, id) /\ event.mixed = it.mixed
  <2> HIDE DEF end, id
  <2>1. event = [it EXCEPT !.pos = end, !.offset = @ + 1, !.pc = "yielded",
                           !.out = Append(@, id)]
    BY <1>1 DEF Iterators, id
  <2> HIDE DEF event
  <2> QED
    BY <1>1, <2>1 DEF Iterators
<1>5. \/ Wanted(it) /\ IsEvent(file, it.pos, end) /\ Iterates(t, event)
      \/ ~(Wanted(it) /\ IsEvent(file, it.pos, end)) /\ Iterates(t, read)
  BY DEF ReadLine
<1>6. CASE it.mixed
  <2>1. CompleteOK(event) /\ CompleteOK(read)
    <3> HIDE DEF event, read
    <3> QED
      BY <1>3, <1>4, <1>6 DEF CompleteOK
  <2> QED
    BY <1>1, <1>5, <2>1, CompleteBecomes
<1>7. CASE ~it.mixed
  <2>1. /\ k \in Names /\ file = FileOf(k) /\ it.file = dir[k]
        /\ it.pos = 0 \/ it.pos \in LineEnds(k)
        /\ Caught(it, k, it.pos)
    BY <1>1, <1>7, FileRead
  <2> HIDE DEF file, k
  <2>2. /\ end \in LineEnds(k)
        /\ Before(k, end) = Before(k, it.pos) \union {l}
        /\ Offset(l) = Cardinality(Before(k, it.pos))
        /\ Cardinality(Before(k, end)) = Cardinality(Before(k, it.pos)) + 1
    BY <1>1, <1>2, <2>1, NextLine
  <2>3. /\ id \in Ids
        /\ \A i \in Ids : Holds(l, i) <=> IsEvent(file, it.pos, end) /\ i = id
    BY <1>1, <1>2, <2>1, LineIsEvent
  <2>4. it.offset = Offset(l) /\ it.offset + 1 = Cardinality(Before(k, end))
    BY <2>1, <2>2 DEF Caught
  <2>5. Events(Before(k, end), it.start)
          = ToSet(it.out) \union { i \in Ids : Offset(l) >= it.start /\ Holds(l, i) }
    BY <2>1, <2>2, EventsOfLine DEF Caught
  <2>6. Wanted(it) <=> Offset(l) >= it.start
    BY <2>4 DEF Wanted
  <2> HIDE DEF end, id, l, read, event
  <2>7. CASE Wanted(it) /\ IsEvent(file, it.pos, end)
    <3>1. { i \in Ids : Offset(l) >= it.start /\ Holds(l, i) } = {id}
      BY <2>3, <2>6, <2>7
    <3>2. ToSet(event.out) = ToSet(it.out) \union {id}
      BY <1>2, <1>4, <2>3, OutGrows
    <3>3. Caught(event, k, end)
      BY <1>4, <2>4, <2>5, <3>1, <3>2 DEF Caught
    <3>4. CompleteOK(event)
      BY <1>4, <2>1, <2>2, <3>3 DEF CompleteOK, k
    <3> QED
      BY <1>1, <1>5, <2>7, <3>4, CompleteBecomes
  <2>8. CASE ~(Wanted(it) /\ IsEvent(file, it.pos, end))
    <3>1. { i \in Ids : Offset(l) >= it.start /\ Holds(l, i) } = {}
      BY <2>3, <2>6, <2>8
    <3>2. Caught(read, k, end)
      BY <1>3, <2>4, <2>5, <3>1 DEF Caught
    <3>3. CompleteOK(read)
      BY <1>3, <2>1, <2>2, <3>2 DEF CompleteOK, k
    <3> QED
      BY <1>1, <1>5, <2>8, <3>3, CompleteBecomes
  <2> QED
    BY <2>7, <2>8
<1> QED
  BY <1>6, <1>7

LEMMA CompleteIterates ==
    ASSUME Inv, NEW t \in Threads, IterStep(t), CompleteOK(iter[t])
    PROVE  CompleteOK(iter[t])'
<1> DEFINE it == iter[t]
           resumed == [it EXCEPT !.pc = "read"]
<1>1. TypeOK /\ it \in Iterators /\ IterOK(it)
  BY DEF Inv, TypeOK, ThreadOK
<1>2. CASE Iterates(t, NoIterator)
  <2>1. CompleteOK(NoIterator)
    BY DEF NoIterator, CompleteOK
  <2> QED
    BY <1>1, <1>2, <2>1, CompleteBecomes
<1>3. ASSUME NEW s \in Starts, NEW b \in Batches, StartReplay(t, s, b)
      PROVE  CompleteOK(iter[t])'
  <2> DEFINE r == [NoIterator EXCEPT !.pc = "open", !.left = BackupCount + 1,
                                     !.start = s, !.batch = b]
  <2>1. r.pc = "open" /\ r.left = BackupCount + 1 /\ r.offset = 0 /\ r.out = <<>>
    BY DEF NoIterator
  <2>2. Iterates(t, r)
    BY <1>3 DEF StartReplay
  <2> HIDE DEF r
  <2>3. CompleteOK(r)
    BY <1>1, <2>1, CompleteBegins
  <2> QED
    BY <1>1, <2>2, <2>3, CompleteBecomes
<1>4. CASE EndOfFile(t)
  <2>1. it.pc = "read" /\ it.pos = Len(content[it.file]) /\ Iterates(t, NextFile(it))
    BY <1>4 DEF EndOfFile, IterAt
  <2>2. ~it.mixed => Caught(it, it.left - 1, Len(FileOf(it.left - 1)))
    BY <1>1, <2>1, FileRead
  <2>3. it.left > 0
    BY <1>1, <2>1, NameRead
  <2>4. CompleteOK(NextFile(it))
    BY <1>1, <2>1, <2>2, <2>3, CompleteNext
  <2> QED
    BY <1>1, <2>1, <2>4, CompleteBecomes
<1>5. CASE Resume(t) /\ Iterates(t, resumed)
  <2>1. it.pc = "yielded"
    BY <1>5 DEF Resume, IterAt
  <2>2. /\ resumed.pc = "read" /\ resumed.left = it.left /\ resumed.file = it.file
        /\ resumed.pos = it.pos /\ resumed.out = it.out /\ resumed.start = it.start
        /\ resumed.offset = it.offset /\ resumed.mixed = it.mixed
    BY <1>1 DEF Iterators
  <2> HIDE DEF resumed
  <2>3. CompleteOK(resumed)
    BY <2>1, <2>2 DEF CompleteOK, Caught
  <2> QED
    BY <1>1, <1>5, <2>3, CompleteBecomes
<1>6. CASE OpenNext(t)
  <2> DEFINE r == IF dir[NameOf(it)] = 0 THEN NextFile(it)
                  ELSE [it EXCEPT !.pc = "read", !.file = dir[NameOf(it)], !.pos = 0]
  <2>1. it.pc = "open" /\ it.left > 0 /\ Iterates(t, r)
    BY <1>6 DEF OpenNext, IterAt
  <2>2. CompleteOK(r)
    BY <1>1, <2>1, CompleteOpens
  <2> HIDE DEF r
  <2> QED
    BY <1>1, <2>1, <2>2, CompleteBecomes
<1>7. CASE ReadLine(t)
  BY <1>7, CompleteReads
<1> QED
  BY <1>2, <1>3, <1>4, <1>5, <1>6, <1>7
     DEF IterStep, Consume, Resume, CloseIterator, Exhausted, ReadFails

\* A step changes the files only when no other iterator is at work than that of a
\* consumer that writes.
Untouched(u) ==
    iter'[u].pc # "none" /\ ~iter'[u].mixed
        => iter'[u] = iter[u] /\ content' = content /\ dir' = dir

LEMMA HolderWrites ==
    ASSUME Inv, NEW t \in Threads, op[t].pc # "idle", MixedOK(t), iter' = iter,
           NEW u \in Threads
    PROVE  MixedOK(u)' /\ Untouched(u)
<1>1. CASE u = t
  BY <1>1 DEF MixedOK, Untouched
<1>2. CASE u # t
  <2>1. iter[u].pc = "none"
    BY <1>2 DEF Inv, Exclusive
  <2> QED
    BY <2>1 DEF MixedOK, Untouched
<1> QED
  BY <1>1, <1>2

LEMMA ConsumerWrites ==
    ASSUME Inv, NEW t \in Threads, Enters(t), Mixes(t), NEW u \in Threads
    PROVE  MixedOK(u)' /\ Untouched(u)
<1>1. CASE u = t
  <2>1. iter[t] \in Iterators /\ iter'[t] = [iter[t] EXCEPT !.mixed = iter[t].pc = "yielded"]
    BY DEF Mixes, Inv, TypeOK
  <2>2. iter'[t].pc = iter[t].pc /\ iter'[t].mixed = (iter[t].pc = "yielded")
    BY <2>1 DEF Iterators
  <2>3. iter[t].pc \in {"none", "yielded"}
    BY DEF Enters, InApp
  <2> QED
    BY <1>1, <2>2, <2>3 DEF MixedOK, Untouched
<1>2. CASE u # t
  <2>1. iter[u].pc = "none" /\ iter'[u] = iter[u]
    BY <1>2 DEF Enters, Available, Mixes, Inv, TypeOK
  <2> QED
    BY <2>1 DEF MixedOK, Untouched
<1> QED
  BY <1>1, <1>2

LEMMA ReaderReads ==
    ASSUME Inv, NEW t \in Threads, IterStep(t), MixedOK(t), NEW u \in Threads, MixedOK(u)
    PROVE  MixedOK(u)' /\ (u # t => Untouched(u))
<1>1. IterEffect(t)
  BY IterIsEffect DEF Inv
<1>2. op[t].pc = "idle"
  BY DEF IterStep, OpenNext, ReadLine, EndOfFile, Exhausted, ReadFails, Consume, Resume,
         CloseIterator, StartReplay, Enters, InApp, IterAt, MixedOK
<1>3. op' = op /\ content' = content /\ dir' = dir /\ (u # t => iter'[u] = iter[u])
  BY <1>1 DEF IterEffect, DiskSame
<1> QED
  BY <1>2, <1>3 DEF MixedOK, Untouched

LEMMA MixedStep ==
    ASSUME Inv, [Next]_vars, \A t \in Threads : MixedOK(t), NEW u \in Threads
    PROVE  MixedOK(u)' /\ (IterStep(u) \/ Untouched(u))
<1>1. ASSUME NEW t \in Threads,
             \/ WriteFragment(t) \/ FlushFails(t) \/ Flushed(t) \/ CloseActive(t)
             \/ CloseActiveFails(t) \/ UnlinkOldest(t) \/ Rename(t) \/ RotationFails(t)
             \/ CloseEnds(t)
      PROVE  MixedOK(u)' /\ Untouched(u)
  <2>1. op[t].pc # "idle" /\ iter' = iter
    BY <1>1 DEF WriteFragment, FlushFails, Flushed, CloseActive, CloseActiveFails,
                UnlinkOldest, Rename, RotationFails, CloseEnds, At
  <2> QED
    BY <2>1, HolderWrites
<1>2. ASSUME NEW t \in Threads, AppendRecord(t) \/ Close(t)
      PROVE  MixedOK(u)' /\ Untouched(u)
  <2>1. Enters(t) /\ Mixes(t)
    BY <1>2 DEF AppendRecord, Close
  <2> QED
    BY <2>1, ConsumerWrites
<1>3. ASSUME NEW t \in Threads, IterStep(t)
      PROVE  MixedOK(u)' /\ (IterStep(u) \/ Untouched(u))
  BY <1>3, ReaderReads
<1>4. CASE Reopen \/ Crash
  <2>1. iter'[u] = NoIterator
    BY <1>4 DEF Reopen, Crash, Fresh
  <2> QED
    BY <2>1 DEF NoIterator, MixedOK, Untouched
<1>5. CASE UNCHANGED vars
  BY <1>5 DEF vars, disk, MixedOK, Untouched
<1> QED
  BY <1>1, <1>2, <1>3, <1>4, <1>5 DEF Next, StoreStep, StepFails, Call, IterStep

LEMMA ReplayInvStep == Inv /\ ReplayInv /\ [Next]_vars => ReplayInv'
<1> SUFFICES ASSUME Inv, ReplayInv, [Next]_vars, NEW u \in Threads
             PROVE  MixedOK(u)' /\ CompleteOK(iter[u])'
  BY DEF ReplayInv
<1>1. CompleteOK(iter[u]) /\ (\A t \in Threads : MixedOK(t))
  BY DEF ReplayInv
<1>2. MixedOK(u)' /\ (IterStep(u) \/ Untouched(u))
  BY <1>1, MixedStep
<1>3. CASE IterStep(u)
  BY <1>1, <1>2, <1>3, CompleteIterates
<1>4. CASE Untouched(u)
  <2>1. CASE iter'[u].pc # "none" /\ ~iter'[u].mixed
    BY <1>1, <1>2, <1>4, <2>1, CompleteStays DEF Untouched
  <2>2. CASE ~(iter'[u].pc # "none" /\ ~iter'[u].mixed)
    BY <1>2, <2>2 DEF CompleteOK
  <2> QED
    BY <2>1, <2>2
<1> QED
  BY <1>2, <1>3, <1>4

\* Between two lines, an iterator whose consumer did not write has counted the lines
\* before it and yielded their events (FilePersistence._replay).
THEOREM ReplayInvHolds == Spec => []ReplayInv
<1>1. Init => ReplayInv
  BY DEF Init, ReplayInv, MixedOK, CompleteOK, Idle, NoIterator
<1> QED
  BY <1>1, ReplayInvStep, InvHolds, PTL DEF Spec

LEMMA EndIsComplete ==
    ASSUME Inv, ReplayInv, NEW t \in Threads, iter[t].pc = "open", iter[t].left = 0,
           ~iter[t].mixed
    PROVE  ToSet(iter[t].out) = EventsFrom(iter[t].start)
<1>1. Caught(iter[t], iter[t].left - 1, 0)
  BY DEF ReplayInv, CompleteOK
<1>2. iter[t].left - 1 = -1
  OBVIOUS
<1>3. Before(-1, 0) = Lines
  BY BeforeEdges DEF Inv
<1> QED
  BY <1>1, <1>2, <1>3 DEF Caught, Events, EventsFrom

\* An iterator that ends by itself, and whose consumer did not write meanwhile, has
\* yielded every event from its start on (FilePersistence._replay).
THEOREM ReplayCompleteHolds == Spec => ReplayComplete
<1>1. Inv /\ ReplayInv /\ [Next]_vars
        => [ \A t \in Threads :
               Exhausts(t) /\ ~iter[t].mixed
                 => ToSet(iter[t].out) = EventsFrom(iter[t].start) ]_vars
  BY EndIsComplete DEF Exhausts, IterAt
<1> QED
  BY <1>1, InvHolds, ReplayInvHolds, PTL DEF Spec, ReplayComplete

=============================================================================
