---------------------------- MODULE LoggerProofs ----------------------------
(***************************************************************************)
(* The invariants of Logger, for every number of threads, every capacity   *)
(* and every size: what was acknowledged survives, retention goes from the *)
(* oldest to the newest, the directory stays bounded and nothing is lost   *)
(* in silence.                                                             *)
(***************************************************************************)
EXTENDS Logger, SumsProofs, FiniteSetTheorems

Rec == [id : Nat, size : Nat]
ArchiveEntry == [number : Nat, size : Nat]
Call == [size : Nat, error : BOOLEAN, target : Nat]

CallStepName == {"idle", "admit", "spaceWait", "flushed", "flushWait"}
Live == {"check", "asleep", "window", "write", "rotate", "prune", "flush", "finish",
         "notify", "failed", "stopped"}
OpenStepName == {"none", "compact", "replace", "prune", "open", "destroy"}

\* The last sequence number given out, over all loggers.
Top == epoch + nextSeq - 1

\* Records in any file, buffered ones included, and those retention removed.
Stored == ArchiveIds \cup Ids(active) \cup retired
Kept == OnDisk \cup retired

DiskType ==
    /\ active \in Seq(Rec) /\ flushed \in 0 .. Len(active)
    /\ archives = [n \in DOMAIN archives |-> archives[n]]
    /\ \A n \in DOMAIN archives : archives[n] \in Seq(Rec)
    /\ retired \subseteq Nat /\ cut \subseteq Nat /\ acked \subseteq Nat

SharedType ==
    /\ queue \in Seq(Rec) /\ batch \in Seq(Rec) /\ written \in Nat
    /\ nextSeq \in Nat \ {0} /\ flushedSeq \in Nat /\ epoch \in Nat
    /\ stopping \in BOOLEAN /\ reported \in BOOLEAN
    /\ state \in {"Closed", "Running", "Failed", "Stopped"}
    /\ done \in [count : Nat, bytes : Nat, last : Nat]
    /\ wpc \in Live \cup {"none", "report", "exited"} /\ opc \in OpenStepName

CallType ==
    /\ pc \in [Thread -> CallStepName] /\ call \in [Thread -> Call]
    /\ \A t \in Thread : pc[t] \in {"flushed", "flushWait"} => call[t].target # 0

\* What opening leaves the writer, and what a writer leaves the next opening.
OpenPhase ==
    /\ opc \notin {"open", "destroy"} =>
         /\ queue = <<>> /\ batch = <<>> /\ done = NoBatch /\ flushed = Len(active)
         /\ state # "Running"
    /\ opc \in {"compact", "replace", "prune"} =>
         wpc = "none" /\ state = "Closed" /\ nextSeq = 1
    /\ opc = "none" =>
         /\ wpc \in {"none", "exited"}
         /\ state = "Stopped" => flushedSeq = nextSeq - 1
         /\ state = "Failed" => reported \/ nextSeq = 1

\* Where the writer is, and what it holds there.
WriterPhase ==
    opc \in {"open", "destroy"} =>
        /\ wpc # "none"
        /\ wpc \in Live => state = "Running"
        /\ wpc = "report" => state = "Failed"
        /\ wpc = "exited" =>
             \/ state = "Stopped" /\ flushedSeq = nextSeq - 1
             \/ state = "Failed" /\ reported
        /\ wpc \notin {"write", "rotate", "prune", "flush", "failed"} => batch = <<>>
        /\ wpc \in {"write", "rotate"} => written < Len(batch)
        /\ wpc = "prune" => batch # <<>> /\ written <= Len(batch)
        /\ wpc = "flush" => batch # <<>> /\ written = Len(batch)
        /\ wpc = "window" => queue # <<>>
        /\ wpc \in {"stopped", "report", "exited"} => queue = <<>>
        /\ wpc = "stopped" => stopping
        /\ wpc # "finish" => done = NoBatch

\* The list of archives is the directory: consecutive numbers, oldest first.
Catalogued ==
    /\ \E lo \in Nat \ {0}, hi \in Nat : DOMAIN archives = lo .. hi
    /\ opc # "none" =>
         /\ known \in Seq(ArchiveEntry) /\ nextArchive \in Nat /\ Len(known) < nextArchive
         /\ DOMAIN archives = nextArchive - Len(known) .. nextArchive - 1
         /\ \A i \in 1 .. Len(known) :
              /\ known[i].number = nextArchive - Len(known) + i - 1
              /\ known[i].size = SizeOf(archives[known[i].number])

\* Queue and batch hold consecutive numbers up to the last one given out.
Numbered ==
    /\ \A i \in 1 .. Len(queue) : queue[i].id = Top - Len(queue) + i
    /\ \A i \in 1 .. Len(batch) : batch[i].id = Top - Len(queue) - Len(batch) + i
    /\ flushedSeq + Len(queue) + Len(batch) <= nextSeq - 1

\* What is neither queued nor in the batch has been flushed.
Counted ==
    opc \in {"open", "destroy"} =>
        /\ wpc \in Live \ {"finish", "failed"} =>
             flushedSeq + Len(queue) + Len(batch) = nextSeq - 1
        /\ wpc = "finish" => done.last + Len(queue) = nextSeq - 1 /\ flushedSeq <= done.last

\* Files are in order, and everything in or removed from them is older than
\* what is still to be written.
Ordered ==
    /\ Ascending(active)
    /\ \A n \in DOMAIN archives : Ascending(archives[n])
    /\ \A n \in DOMAIN archives : \A i \in Ids(archives[n]), j \in Ids(active) : i < j
    /\ \A n, m \in DOMAIN archives : n < m =>
         \A i \in Ids(archives[n]), j \in Ids(archives[m]) : i < j
    /\ \A i \in retired \ cut, j \in ArchiveIds \cup Ids(active) : i < j
    /\ \A i \in cut, j \in Ids(active) : i < j

Frontier ==
    /\ \A i \in Stored \cup cut : i <= Top - Len(queue)
    /\ batch # <<>> => \A i \in Stored \cup cut : i <= Top - Len(queue) - Len(batch) + written

\* Flushed numbers are on disk or retired, written ones at least in a file.
Durable ==
    /\ acked \subseteq Kept
    /\ \A i \in acked : i <= epoch + flushedSeq
    /\ \A i \in epoch + 1 .. epoch + flushedSeq : i \in Kept

WriterDurable ==
    /\ wpc = "finish" => \A i \in epoch + 1 .. epoch + done.last : i \in Kept
    /\ wpc \in {"write", "rotate", "prune", "flush"} =>
         \A i \in 1 .. written : batch[i].id \in Stored

\* The sink's sums are those of the files,
SinkSums ==
    /\ maxTotal \in Nat /\ managed \in Nat /\ activeSize \in Nat
    /\ opc # "none" => activeSize = SizeOf(active) /\ managed = activeSize + SizeOf(known)

\* within the total size but for the record that is being written,
SinkBounded ==
    opc \in {"open", "destroy"} /\ wpc \in Live \ {"prune", "failed"} => managed <= maxTotal

\* and the logger's sums are those of the records it holds.
QueueSums ==
    /\ pendingRecords = Len(queue) + Len(batch) + done.count
    /\ pendingBytes = SizeOf(queue) + SizeOf(batch) + done.bytes
    /\ pendingBytes <= Capacity \/ pendingRecords = 1
    /\ wpc = "finish" => done.count # 0

LogInv ==
    /\ DiskType /\ SharedType /\ CallType
    /\ OpenPhase /\ WriterPhase /\ Catalogued
    /\ Numbered /\ Counted /\ Ordered /\ Frontier
    /\ Durable /\ WriterDurable /\ SinkSums /\ SinkBounded /\ QueueSums
-----------------------------------------------------------------------------
(* Sizes of sequences of sized things *)

SizesOf(s) == [i \in DOMAIN s |-> s[i].size]

LEMMA SizeEmpty == SizeOf(<<>>) = 0
BY SumZero DEF SizeOf

LEMMA SizeType ==
    ASSUME NEW S, \A e \in S : e.size \in Nat, NEW s \in Seq(S)
    PROVE  SizeOf(s) \in Nat
<1>1. \A i \in 1 .. Len(s) : SizesOf(s)[i] \in Nat
  BY DEF SizesOf
<1> QED BY <1>1, SumType DEF SizeOf, SizesOf

LEMMA SizeAppend ==
    ASSUME NEW S, \A e \in S : e.size \in Nat, NEW s \in Seq(S), NEW e \in S
    PROVE  SizeOf(Append(s, e)) = SizeOf(s) + e.size
<1> DEFINE a == Append(s, e)
<1>1. a \in Seq(S) /\ Len(a) = Len(s) + 1 /\ a[Len(s) + 1] = e
      /\ \A i \in 1 .. Len(s) : a[i] = s[i]
  OBVIOUS
<1> HIDE DEF a
<1>2. \A i \in 1 .. Len(s) : SizesOf(a)[i] = SizesOf(s)[i]
  BY <1>1 DEF SizesOf
<1>3. SumTo(SizesOf(a), Len(s) + 1) = SumTo(SizesOf(a), Len(s)) + SizesOf(a)[Len(s) + 1]
  BY SumStep
<1>4. SumTo(SizesOf(a), Len(s)) = SumTo(SizesOf(s), Len(s))
  BY <1>2, SumCongruent
<1>5. SizesOf(a)[Len(s) + 1] = e.size
  BY <1>1 DEF SizesOf
<1>6. SizeOf(a) = SumTo(SizesOf(a), Len(s) + 1) /\ SizeOf(s) = SumTo(SizesOf(s), Len(s))
  BY <1>1 DEF SizeOf, SizesOf
<1> QED BY <1>3, <1>4, <1>5, <1>6 DEF a

LEMMA SizeTail ==
    ASSUME NEW S, \A e \in S : e.size \in Nat, NEW s \in Seq(S), s # <<>>
    PROVE  SizeOf(s) = Head(s).size + SizeOf(Tail(s))
<1> DEFINE t == Tail(s)
<1>1. t \in Seq(S) /\ Len(s) = 1 + Len(t) /\ Head(s) = s[1] /\ s[1] \in S
      /\ \A i \in 1 .. Len(t) : t[i] = s[1 + i]
  OBVIOUS
<1> HIDE DEF t
<1>2. /\ \A i \in 1 .. Len(t) : SizesOf(t)[i] = SizesOf(s)[1 + i]
      /\ \A i \in 1 .. 1 + Len(t) : SizesOf(s)[i] \in Nat
      /\ SizesOf(s)[1] = Head(s).size
  BY <1>1 DEF SizesOf
<1>3. SumTo(SizesOf(s), 1 + Len(t)) = SumTo(SizesOf(s), 1) + SumTo(SizesOf(t), Len(t))
  <2> DEFINE f == SizesOf(s)  g == SizesOf(t)  n == Len(t)
  <2>1. n \in Nat /\ 1 \in Nat BY <1>1
  <2>2. (\A i \in 1 .. 1 + n : f[i] \in Nat) /\ \A i \in 1 .. n : g[i] = f[1 + i] BY <1>2
  <2> HIDE DEF f, g, n
  <2>3. SumTo(f, 1 + n) = SumTo(f, 1) + SumTo(g, n) BY <2>1, <2>2, SumSplit, SMTT(60)
  <2> QED BY <2>3 DEF f, g, n
<1>4. SumTo(SizesOf(s), 0 + 1) = SumTo(SizesOf(s), 0) + SizesOf(s)[0 + 1]
  BY SumStep
<1>5. SumTo(SizesOf(s), 1) = Head(s).size
  BY <1>1, <1>2, <1>4, SumZero
<1>6. SizeOf(s) = SumTo(SizesOf(s), Len(s)) /\ SizeOf(t) = SumTo(SizesOf(t), Len(t))
  BY DEF SizeOf, SizesOf
<1> QED BY <1>1, <1>3, <1>5, <1>6 DEF t

\* What a compaction keeps is a tail of the file.
LEMMA TailKept ==
    ASSUME NEW recs \in Seq(Rec), NEW n \in Nat
    PROVE  \E k \in 1 .. Len(recs) + 1 : TailWithin(recs, n) = SubSeq(recs, k, Len(recs))
<1> DEFINE fits == {i \in 1 .. Len(recs) + 1 : SizeOf(SubSeq(recs, i, Len(recs))) <= n}
<1>1. SubSeq(recs, Len(recs) + 1, Len(recs)) = <<>>
  OBVIOUS
<1>2. Len(recs) + 1 \in fits
  <2>1. SizeOf(SubSeq(recs, Len(recs) + 1, Len(recs))) = 0 BY <1>1, SizeEmpty
  <2>2. SizeOf(SubSeq(recs, Len(recs) + 1, Len(recs))) <= n BY <2>1
  <2>3. Len(recs) + 1 \in 1 .. Len(recs) + 1 OBVIOUS
  <2> QED BY <2>2, <2>3
<1>3. fits \subseteq Nat /\ fits \subseteq 1 .. Len(recs) + 1
  OBVIOUS
<1>4. TailWithin(recs, n) = SubSeq(recs, Min(fits), Len(recs))
  BY DEF TailWithin
<1> HIDE DEF fits
<1>5. \E x \in fits : \A y \in fits : x <= y
  BY <1>2, <1>3, LeastElement
<1>6. Min(fits) \in fits
  BY <1>5 DEF Min
<1> QED BY <1>3, <1>4, <1>6

-----------------------------------------------------------------------------
(* The scan of the directory *)

\* Consecutive numbers are sorted one by one.
LEMMA ScanSorts ==
    ASSUME NEW lo \in Nat \ {0}, NEW hi \in Nat, DOMAIN archives = lo .. hi,
           \A n \in DOMAIN archives : archives[n] \in Seq(Rec)
    PROVE  /\ SortedArchives \in Seq(ArchiveEntry)
           /\ Len(SortedArchives) = IF lo > hi THEN 0 ELSE hi - lo + 1
           /\ \A i \in 1 .. Len(SortedArchives) :
                 /\ SortedArchives[i].number = lo + i - 1
                 /\ SortedArchives[i].size = SizeOf(archives[lo + i - 1])
           /\ Max(DOMAIN archives \cup {0}) = IF lo > hi THEN 0 ELSE hi
<1> DEFINE ns == DOMAIN archives
           nth(i) == CHOOSE n \in ns : Cardinality({m \in ns : m <= n}) = i
           len == IF lo > hi THEN 0 ELSE hi - lo + 1
<1>1. Cardinality(ns) = len /\ len \in Nat
  BY FS_Interval
<1>2. ASSUME NEW n \in ns
      PROVE  Cardinality({m \in ns : m <= n}) = n - lo + 1
  <2>1. {m \in ns : m <= n} = lo .. n
    OBVIOUS
  <2>2. lo \in Int /\ n \in Int /\ lo <= n
    OBVIOUS
  <2>3. Cardinality(lo .. n) = n - lo + 1
    BY <2>2, FS_Interval
  <2> QED BY <2>1, <2>3
<1>3. ASSUME NEW i \in 1 .. len
      PROVE  nth(i) = lo + i - 1
  <2>1. lo + i - 1 \in ns
    OBVIOUS
  <2>2. \A n \in ns : Cardinality({m \in ns : m <= n}) = i <=> n = lo + i - 1
    BY <1>2
  <2> QED BY <2>1, <2>2
<1>4. SortedArchives = [i \in 1 .. Cardinality(ns) |->
                          [number |-> nth(i), size |-> SizeOf(archives[nth(i)])]]
  BY Zenon DEF SortedArchives
<1> HIDE DEF nth, len
<1>5. SortedArchives = [i \in 1 .. len |->
                          [number |-> lo + i - 1, size |-> SizeOf(archives[lo + i - 1])]]
  BY <1>1, <1>3, <1>4
<1>6. ASSUME NEW i \in 1 .. len
      PROVE  [number |-> lo + i - 1, size |-> SizeOf(archives[lo + i - 1])] \in ArchiveEntry
  <2>1. lo + i - 1 \in DOMAIN archives
    BY DEF len
  <2>2. archives[lo + i - 1] \in Seq(Rec)
    BY <2>1
  <2>3. SizeOf(archives[lo + i - 1]) \in Nat
    BY <2>2, SizeType DEF Rec
  <2> QED BY <2>3 DEF ArchiveEntry
<1>7. SortedArchives \in Seq(ArchiveEntry) /\ Len(SortedArchives) = len
  <2> DEFINE entry(i) == [number |-> lo + i - 1, size |-> SizeOf(archives[lo + i - 1])]
  <2>1. SortedArchives = [i \in 1 .. len |-> entry(i)] BY <1>5
  <2>2. \A i \in 1 .. len : entry(i) \in ArchiveEntry BY <1>6
  <2> HIDE DEF entry
  <2> QED BY <1>1, <2>1, <2>2
<1>8. Max(DOMAIN archives \cup {0}) = IF lo > hi THEN 0 ELSE hi
  <2>1. \E x \in DOMAIN archives \cup {0} : \A y \in DOMAIN archives \cup {0} : x >= y
    <3>1. CASE lo > hi
      BY <3>1
    <3>2. CASE lo <= hi
      BY <3>2
    <3> QED BY <3>1, <3>2
  <2> QED BY <2>1 DEF Max
<1> QED BY <1>5, <1>7, <1>8 DEF len
-----------------------------------------------------------------------------
USE DEF directory, sink, shared, writer, callers, bounds, history

(* A part of the invariant whose variables do not change stays *)

LEMMA KeepDiskType ==
    DiskType /\ UNCHANGED <<active, flushed, archives, retired, cut, acked>> => DiskType'
BY DEF DiskType

LEMMA KeepSharedType ==
    SharedType /\ UNCHANGED <<queue, batch, written, nextSeq, flushedSeq, epoch, stopping,
       reported, state, done, wpc, opc>> => SharedType'
BY DEF SharedType, Live, OpenStepName

LEMMA KeepCallType == CallType /\ UNCHANGED <<pc, call>> => CallType'
BY DEF CallType, CallStepName, Call

LEMMA KeepOpenPhase ==
    OpenPhase /\ UNCHANGED <<opc, queue, batch, done, flushed, active, state, wpc, nextSeq,
       flushedSeq, reported>> => OpenPhase'
BY DEF OpenPhase, NoBatch

LEMMA KeepWriterPhase ==
    WriterPhase /\ UNCHANGED <<opc, wpc, state, flushedSeq, nextSeq, reported, batch, written,
       queue, stopping, done>> => WriterPhase'
BY DEF WriterPhase, Live, NoBatch

LEMMA KeepCatalogued == Catalogued /\ UNCHANGED <<archives, known, nextArchive, opc>> => Catalogued'
BY DEF Catalogued

LEMMA KeepNumbered ==
    Numbered /\ UNCHANGED <<queue, batch, epoch, nextSeq, flushedSeq>> => Numbered'
BY DEF Numbered, Top

LEMMA KeepCounted ==
    Counted /\ UNCHANGED <<opc, wpc, flushedSeq, queue, batch, nextSeq, done>> => Counted'
BY DEF Counted, Live

LEMMA KeepOrdered == Ordered /\ UNCHANGED <<active, archives, retired, cut>> => Ordered'
BY DEF Ordered, Ascending, Ids, ArchiveIds

LEMMA KeepFrontier ==
    Frontier /\ UNCHANGED <<active, archives, retired, cut, epoch, nextSeq, queue, batch,
       written>> => Frontier'
BY DEF Frontier, Stored, ArchiveIds, Ids, Top

LEMMA KeepKept ==
    UNCHANGED <<active, flushed, archives, retired>> => Kept' = Kept /\ Stored' = Stored
<1> SUFFICES ASSUME UNCHANGED <<active, flushed, archives, retired>>
             PROVE  Kept' = Kept /\ Stored' = Stored
  OBVIOUS
<1>1. ArchiveIds' = ArchiveIds /\ Ids(active)' = Ids(active)
  BY DEF ArchiveIds, Ids
<1>2. SubSeq(active, 1, flushed)' = SubSeq(active, 1, flushed)
  OBVIOUS
<1>3. Ids(SubSeq(active, 1, flushed))' = Ids(SubSeq(active, 1, flushed))
  BY <1>2 DEF Ids
<1> QED BY <1>1, <1>3, Zenon DEF Kept, Stored, OnDisk

LEMMA KeepDurable ==
    Durable /\ UNCHANGED <<acked, active, flushed, archives, retired, epoch, flushedSeq>>
       => Durable'
BY KeepKept DEF Durable

LEMMA KeepWriterDurable ==
    WriterDurable /\ UNCHANGED <<wpc, epoch, done, active, flushed, archives, retired, written,
       batch>>
        => WriterDurable'
BY KeepKept DEF WriterDurable

LEMMA KeepSinkSums ==
    SinkSums /\ UNCHANGED <<maxTotal, opc, activeSize, active, managed, known>> => SinkSums'
BY DEF SinkSums

LEMMA KeepSinkBounded == SinkBounded /\ UNCHANGED <<opc, wpc, managed, maxTotal>> => SinkBounded'
BY DEF SinkBounded, Live

LEMMA KeepQueueSums ==
    QueueSums /\ UNCHANGED <<pendingRecords, pendingBytes, queue, batch, done, wpc>> => QueueSums'
BY DEF QueueSums

-----------------------------------------------------------------------------
(* Steps that change no record *)

\* The stream buffer is written.
LEMMA FlushAll ==
    ASSUME DiskType, flushed' = Len(active), UNCHANGED <<active, archives, retired>>
    PROVE  Kept \subseteq Kept' /\ Stored' = Stored /\ Kept' = Stored
<1>1. Stored' = Stored
  BY DEF Stored, ArchiveIds, Ids
<1>2. SubSeq(active, 1, Len(active)) = active
  BY DEF DiskType
<1>3. SubSeq(active, 1, flushed)' = active
  BY <1>2
<1>4. Ids(SubSeq(active, 1, flushed))' = Ids(active)
  BY <1>3 DEF Ids
<1>5. ArchiveIds' = ArchiveIds
  BY DEF ArchiveIds, Ids
<1>6. Kept' = Stored
  BY <1>4, <1>5, Zenon DEF Kept, Stored, OnDisk
<1>7. Ids(SubSeq(active, 1, flushed)) \subseteq Ids(active)
  BY DEF DiskType, Ids
<1> QED BY <1>1, <1>6, <1>7 DEF Kept, Stored, OnDisk

LEMMA LogStep ==
    ASSUME LogInv, NEW t \in Thread, NEW size \in Sizes, NEW level \in Level, Log(t, size, level)
    PROVE  LogInv'
<1> USE DEF LogInv, Log
<1>10. DiskType' /\ SharedType' /\ OpenPhase' /\ WriterPhase' /\ Catalogued' /\ Numbered'
       /\ Counted' /\ Ordered' /\ Frontier' /\ Durable' /\ WriterDurable' /\ SinkSums'
       /\ SinkBounded' /\ QueueSums'
  BY KeepDiskType, KeepSharedType, KeepOpenPhase, KeepWriterPhase, KeepCatalogued, KeepNumbered,
     KeepCounted, KeepOrdered, KeepFrontier, KeepDurable, KeepWriterDurable, KeepSinkSums,
     KeepSinkBounded, KeepQueueSums
<1>11. CallType'
  BY LoggerAssumption DEF CallType, CallStepName, Call
<1> QED
  BY <1>10, <1>11

LEMMA LogRefusedStep ==
    ASSUME LogInv, NEW t \in Thread, LogRefused(t)
    PROVE  LogInv'
<1> USE DEF LogInv, LogRefused, Return, NoCall
<1>10. DiskType' /\ SharedType' /\ OpenPhase' /\ WriterPhase' /\ Catalogued' /\ Numbered'
       /\ Counted' /\ Ordered' /\ Frontier' /\ Durable' /\ WriterDurable' /\ SinkSums'
       /\ SinkBounded' /\ QueueSums'
  BY KeepDiskType, KeepSharedType, KeepOpenPhase, KeepWriterPhase, KeepCatalogued, KeepNumbered,
     KeepCounted, KeepOrdered, KeepFrontier, KeepDurable, KeepWriterDurable, KeepSinkSums,
     KeepSinkBounded, KeepQueueSums
<1>11. CallType'
  BY DEF CallType, CallStepName, Call
<1> QED
  BY <1>10, <1>11

LEMMA BackpressureStep ==
    ASSUME LogInv, NEW t \in Thread, Backpressure(t)
    PROVE  LogInv'
<1> USE DEF LogInv, Backpressure
<1>10. DiskType' /\ SharedType' /\ OpenPhase' /\ WriterPhase' /\ Catalogued' /\ Numbered'
       /\ Counted' /\ Ordered' /\ Frontier' /\ Durable' /\ WriterDurable' /\ SinkSums'
       /\ SinkBounded' /\ QueueSums'
  BY KeepDiskType, KeepSharedType, KeepOpenPhase, KeepWriterPhase, KeepCatalogued, KeepNumbered,
     KeepCounted, KeepOrdered, KeepFrontier, KeepDurable, KeepWriterDurable, KeepSinkSums,
     KeepSinkBounded, KeepQueueSums
<1>11. CallType'
  BY DEF CallType, CallStepName, Call
<1> QED
  BY <1>10, <1>11

LEMMA FlushWaitStep ==
    ASSUME LogInv, NEW t \in Thread, FlushWait(t)
    PROVE  LogInv'
<1> USE DEF LogInv, FlushWait
<1>10. DiskType' /\ SharedType' /\ OpenPhase' /\ WriterPhase' /\ Catalogued' /\ Numbered'
       /\ Counted' /\ Ordered' /\ Frontier' /\ Durable' /\ WriterDurable' /\ SinkSums'
       /\ SinkBounded' /\ QueueSums'
  BY KeepDiskType, KeepSharedType, KeepOpenPhase, KeepWriterPhase, KeepCatalogued, KeepNumbered,
     KeepCounted, KeepOrdered, KeepFrontier, KeepDurable, KeepWriterDurable, KeepSinkSums,
     KeepSinkBounded, KeepQueueSums
<1>11. CallType'
  BY DEF CallType, CallStepName, Call
<1> QED
  BY <1>10, <1>11

LEMMA DrainStep ==
    ASSUME LogInv, NEW t \in Thread, Drain(t)
    PROVE  LogInv'
<1> USE DEF LogInv, Drain, WakeWriter
<1>10. DiskType' /\ Catalogued' /\ Numbered' /\ Ordered' /\ Frontier' /\ Durable' /\ SinkSums'
  BY KeepDiskType, KeepCatalogued, KeepNumbered, KeepOrdered, KeepFrontier, KeepDurable,
     KeepSinkSums
<1>11. SharedType'
  BY DEF SharedType, Live, OpenStepName
<1>12. CallType'
  BY DEF CallType, CallStepName, Call, SharedType
<1>13. OpenPhase'
  BY DEF OpenPhase, NoBatch
<1>14. WriterPhase'
  BY DEF WriterPhase, Live, NoBatch
<1>15. Counted'
  BY DEF Counted, Live
<1>16. WriterDurable'
  BY KeepKept DEF WriterDurable
<1>17. SinkBounded'
  BY DEF SinkBounded, Live
<1>18. QueueSums'
  BY DEF QueueSums
<1> QED
  BY <1>10, <1>11, <1>12, <1>13, <1>14, <1>15, <1>16, <1>17, <1>18

LEMMA WriterChecksStep ==
    ASSUME LogInv, WriterChecks
    PROVE  LogInv'
<1> USE DEF LogInv, WriterChecks, WriterAt
<1>10. DiskType' /\ CallType' /\ Catalogued' /\ Numbered' /\ Ordered' /\ Frontier' /\ Durable'
       /\ SinkSums'
  BY KeepDiskType, KeepCallType, KeepCatalogued, KeepNumbered, KeepOrdered, KeepFrontier,
     KeepDurable, KeepSinkSums
<1>11. SharedType'
  BY DEF SharedType, Live, OpenStepName
<1>12. OpenPhase'
  BY DEF OpenPhase, NoBatch
<1>13. WriterPhase'
  BY DEF WriterPhase, Live, NoBatch
<1>14. Counted'
  BY DEF Counted, Live
<1>15. WriterDurable'
  BY KeepKept DEF WriterDurable
<1>16. SinkBounded'
  BY DEF SinkBounded, Live
<1>17. QueueSums'
  BY DEF QueueSums
<1> QED
  BY <1>10, <1>11, <1>12, <1>13, <1>14, <1>15, <1>16, <1>17

LEMMA WriteTooLargeStep ==
    ASSUME LogInv, WriteTooLarge
    PROVE  LogInv'
<1> USE DEF LogInv, WriteTooLarge, WriterAt
<1>10. DiskType' /\ CallType' /\ Catalogued' /\ Numbered' /\ Ordered' /\ Frontier' /\ Durable'
       /\ SinkSums'
  BY KeepDiskType, KeepCallType, KeepCatalogued, KeepNumbered, KeepOrdered, KeepFrontier,
     KeepDurable, KeepSinkSums
<1>11. SharedType'
  BY DEF SharedType, Live, OpenStepName
<1>12. OpenPhase'
  BY DEF OpenPhase, NoBatch
<1>13. WriterPhase'
  BY DEF WriterPhase, Live, NoBatch
<1>14. Counted'
  BY DEF Counted, Live
<1>15. WriterDurable'
  BY KeepKept DEF WriterDurable
<1>16. SinkBounded'
  BY DEF SinkBounded, Live
<1>17. QueueSums'
  BY DEF QueueSums
<1> QED
  BY <1>10, <1>11, <1>12, <1>13, <1>14, <1>15, <1>16, <1>17

LEMMA PruneEndsStep ==
    ASSUME LogInv, PruneEnds
    PROVE  LogInv'
<1> USE DEF LogInv, PruneEnds, WriterAt, Excess
<1>1. wpc' = IF managed > maxTotal THEN "failed"
             ELSE IF written < Len(batch) THEN "write" ELSE "flush"
  BY DEF SinkSums
<1>10. DiskType' /\ CallType' /\ Catalogued' /\ Numbered' /\ Ordered' /\ Frontier' /\ Durable'
       /\ SinkSums'
  BY KeepDiskType, KeepCallType, KeepCatalogued, KeepNumbered, KeepOrdered, KeepFrontier,
     KeepDurable, KeepSinkSums
<1>11. SharedType'
  BY DEF SharedType, Live, OpenStepName
<1>12. OpenPhase'
  BY DEF OpenPhase, NoBatch
<1>13. WriterPhase'
  BY <1>1 DEF WriterPhase, Live, NoBatch, SharedType
<1>14. Counted'
  BY DEF Counted, Live
<1>15. WriterDurable'
  BY KeepKept DEF WriterDurable
<1>16. SinkBounded'
  BY <1>1 DEF SinkBounded, SinkSums
<1>17. QueueSums'
  BY DEF QueueSums
<1> QED
  BY <1>10, <1>11, <1>12, <1>13, <1>14, <1>15, <1>16, <1>17

LEMMA NotifyWaitersStep ==
    ASSUME LogInv, NotifyWaiters
    PROVE  LogInv'
<1> USE DEF LogInv, NotifyWaiters, WakeAll
<1>10. DiskType' /\ Catalogued' /\ Numbered' /\ Ordered' /\ Frontier' /\ Durable' /\ SinkSums'
  BY KeepDiskType, KeepCatalogued, KeepNumbered, KeepOrdered, KeepFrontier, KeepDurable,
     KeepSinkSums
<1>11. SharedType'
  BY DEF SharedType, Live, OpenStepName
<1>12. CallType'
  BY DEF CallType, CallStepName, Call
<1>13. OpenPhase'
  BY DEF OpenPhase, NoBatch
<1>14. WriterPhase'
  BY DEF WriterPhase, Live, NoBatch
<1>15. Counted'
  BY DEF Counted, Live
<1>16. WriterDurable'
  BY KeepKept DEF WriterDurable
<1>17. SinkBounded'
  BY DEF SinkBounded, Live
<1>18. QueueSums'
  BY DEF QueueSums
<1> QED
  BY <1>10, <1>11, <1>12, <1>13, <1>14, <1>15, <1>16, <1>17, <1>18

LEMMA SinkFailsStep ==
    ASSUME LogInv, SinkFails
    PROVE  LogInv'
<1> USE DEF LogInv, SinkFails, WriterAt
<1>10. DiskType' /\ CallType' /\ Catalogued' /\ Numbered' /\ Ordered' /\ Frontier' /\ Durable'
       /\ SinkSums'
  BY KeepDiskType, KeepCallType, KeepCatalogued, KeepNumbered, KeepOrdered, KeepFrontier,
     KeepDurable, KeepSinkSums
<1>11. SharedType'
  BY DEF SharedType, Live, OpenStepName
<1>12. OpenPhase'
  BY DEF OpenPhase, NoBatch
<1>13. WriterPhase'
  BY DEF WriterPhase, Live, NoBatch
<1>14. Counted'
  BY DEF Counted, Live
<1>15. WriterDurable'
  BY KeepKept DEF WriterDurable
<1>16. SinkBounded'
  BY DEF SinkBounded, Live
<1>17. QueueSums'
  BY DEF QueueSums
<1> QED
  BY <1>10, <1>11, <1>12, <1>13, <1>14, <1>15, <1>16, <1>17

LEMMA ReportFailureStep ==
    ASSUME LogInv, ReportFailure
    PROVE  LogInv'
<1> USE DEF LogInv, ReportFailure, WakeAll
<1>10. DiskType' /\ Catalogued' /\ Numbered' /\ Ordered' /\ Frontier' /\ Durable' /\ SinkSums'
  BY KeepDiskType, KeepCatalogued, KeepNumbered, KeepOrdered, KeepFrontier, KeepDurable,
     KeepSinkSums
<1>11. SharedType'
  BY DEF SharedType, Live, OpenStepName
<1>12. CallType'
  BY DEF CallType, CallStepName, Call
<1>13. OpenPhase'
  BY DEF OpenPhase, NoBatch
<1>14. WriterPhase'
  BY DEF WriterPhase, Live, NoBatch
<1>15. Counted'
  BY DEF Counted, Live
<1>16. WriterDurable'
  BY KeepKept DEF WriterDurable
<1>17. SinkBounded'
  BY DEF SinkBounded, Live
<1>18. QueueSums'
  BY DEF QueueSums
<1> QED
  BY <1>10, <1>11, <1>12, <1>13, <1>14, <1>15, <1>16, <1>17, <1>18

LEMMA WriterStopsStep ==
    ASSUME LogInv, WriterStops
    PROVE  LogInv'
<1> USE DEF LogInv, WriterStops, WakeAll
<1>10. DiskType' /\ Catalogued' /\ Numbered' /\ Ordered' /\ Frontier' /\ Durable' /\ SinkSums'
  BY KeepDiskType, KeepCatalogued, KeepNumbered, KeepOrdered, KeepFrontier, KeepDurable,
     KeepSinkSums
<1>11. SharedType'
  BY DEF SharedType, Live, OpenStepName
<1>12. CallType'
  BY DEF CallType, CallStepName, Call
<1>13. OpenPhase'
  BY DEF OpenPhase, NoBatch
<1>14. WriterPhase'
  BY DEF WriterPhase, Live, NoBatch, Counted, SharedType
<1>15. Counted'
  BY DEF Counted, Live
<1>16. WriterDurable'
  BY KeepKept DEF WriterDurable
<1>17. SinkBounded'
  BY DEF SinkBounded, Live
<1>18. QueueSums'
  BY DEF QueueSums
<1> QED
  BY <1>10, <1>11, <1>12, <1>13, <1>14, <1>15, <1>16, <1>17, <1>18

LEMMA CompactNothingStep ==
    ASSUME LogInv, CompactNothing
    PROVE  LogInv'
<1> USE DEF LogInv, CompactNothing, OpenAt
<1>10. DiskType' /\ CallType' /\ Numbered' /\ Ordered' /\ Frontier' /\ Durable' /\ WriterDurable'
       /\ QueueSums'
  BY KeepDiskType, KeepCallType, KeepNumbered, KeepOrdered, KeepFrontier, KeepDurable,
     KeepWriterDurable, KeepQueueSums
<1>11. SharedType'
  BY DEF SharedType, Live, OpenStepName
<1>12. OpenPhase'
  BY DEF OpenPhase, NoBatch
<1>13. WriterPhase'
  BY DEF WriterPhase, Live, NoBatch
<1>14. Catalogued'
  BY DEF Catalogued
<1>15. Counted'
  BY DEF Counted, Live
<1>16. SinkSums'
  BY DEF SinkSums
<1>17. SinkBounded'
  BY DEF SinkBounded, Live
<1> QED
  BY <1>10, <1>11, <1>12, <1>13, <1>14, <1>15, <1>16, <1>17

LEMMA CompactCopyStep ==
    ASSUME LogInv, CompactCopy
    PROVE  LogInv'
<1> USE DEF LogInv, CompactCopy, OpenAt
<1>10. DiskType' /\ CallType' /\ Numbered' /\ Ordered' /\ Frontier' /\ Durable' /\ WriterDurable'
       /\ QueueSums'
  BY KeepDiskType, KeepCallType, KeepNumbered, KeepOrdered, KeepFrontier, KeepDurable,
     KeepWriterDurable, KeepQueueSums
<1>11. SharedType'
  BY DEF SharedType, Live, OpenStepName
<1>12. OpenPhase'
  BY DEF OpenPhase, NoBatch
<1>13. WriterPhase'
  BY DEF WriterPhase, Live, NoBatch
<1>14. Catalogued'
  BY DEF Catalogued
<1>15. Counted'
  BY DEF Counted, Live
<1>16. SinkSums'
  BY DEF SinkSums
<1>17. SinkBounded'
  BY DEF SinkBounded, Live
<1> QED
  BY <1>10, <1>11, <1>12, <1>13, <1>14, <1>15, <1>16, <1>17

LEMMA OpenEndsStep ==
    ASSUME LogInv, OpenEnds
    PROVE  LogInv'
<1> USE DEF LogInv, OpenEnds, OpenAt
<1>10. DiskType' /\ CallType' /\ Numbered' /\ Ordered' /\ Frontier' /\ Durable'
  BY KeepDiskType, KeepCallType, KeepNumbered, KeepOrdered, KeepFrontier, KeepDurable
<1>11. SharedType'
  BY DEF SharedType, Live, OpenStepName
<1>12. OpenPhase'
  BY DEF OpenPhase, NoBatch
<1>13. WriterPhase'
  BY DEF WriterPhase, Live, NoBatch, OpenPhase
<1>14. Catalogued'
  BY DEF Catalogued
<1>15. Counted'
  BY DEF Counted, Live, OpenPhase, Numbered, SharedType
<1>16. WriterDurable'
  BY KeepKept DEF WriterDurable
<1>17. SinkSums'
  BY DEF SinkSums
<1>18. SinkBounded'
  BY DEF SinkBounded, Live
<1>19. QueueSums'
  BY DEF QueueSums
<1> QED
  BY <1>10, <1>11, <1>12, <1>13, <1>14, <1>15, <1>16, <1>17, <1>18, <1>19

LEMMA OpenFailsStep ==
    ASSUME LogInv, OpenFails
    PROVE  LogInv'
<1> USE DEF LogInv, OpenFails, OpenAt, SinkGone
<1>10. DiskType' /\ CallType' /\ Numbered' /\ Ordered' /\ Frontier' /\ Durable' /\ WriterDurable'
       /\ QueueSums'
  BY KeepDiskType, KeepCallType, KeepNumbered, KeepOrdered, KeepFrontier, KeepDurable,
     KeepWriterDurable, KeepQueueSums
<1>11. SharedType'
  BY DEF SharedType, Live, OpenStepName
<1>12. OpenPhase'
  BY DEF OpenPhase, NoBatch
<1>13. WriterPhase'
  BY DEF WriterPhase, Live, NoBatch
<1>14. Catalogued'
  BY DEF Catalogued
<1>15. Counted'
  BY DEF Counted, Live
<1>16. SinkSums'
  BY DEF SinkSums
<1>17. SinkBounded'
  BY DEF SinkBounded, Live
<1> QED
  BY <1>10, <1>11, <1>12, <1>13, <1>14, <1>15, <1>16, <1>17

LEMMA DestroyStep ==
    ASSUME LogInv, Destroy
    PROVE  LogInv'
<1> USE DEF LogInv, Destroy, OpenAt, WakeWriter
<1>10. DiskType' /\ CallType' /\ Numbered' /\ Ordered' /\ Frontier' /\ Durable'
  BY KeepDiskType, KeepCallType, KeepNumbered, KeepOrdered, KeepFrontier, KeepDurable
<1>11. SharedType'
  BY DEF SharedType, Live, OpenStepName
<1>12. OpenPhase'
  BY DEF OpenPhase, NoBatch
<1>13. WriterPhase'
  BY DEF WriterPhase, Live, NoBatch
<1>14. Catalogued'
  BY DEF Catalogued
<1>15. Counted'
  BY DEF Counted, Live
<1>16. WriterDurable'
  BY KeepKept DEF WriterDurable
<1>17. SinkSums'
  BY DEF SinkSums
<1>18. SinkBounded'
  BY DEF SinkBounded, Live
<1>19. QueueSums'
  BY DEF QueueSums
<1> QED
  BY <1>10, <1>11, <1>12, <1>13, <1>14, <1>15, <1>16, <1>17, <1>18, <1>19

LEMMA RotateFlushStep ==
    ASSUME LogInv, RotateFlush
    PROVE  LogInv'
<1> USE DEF LogInv, RotateFlush, WriterAt
<1>10. CallType' /\ Catalogued' /\ Numbered' /\ Ordered' /\ Frontier' /\ SinkSums'
  BY KeepCallType, KeepCatalogued, KeepNumbered, KeepOrdered, KeepFrontier, KeepSinkSums
<1>11. DiskType'
  BY DEF DiskType
<1>12. SharedType'
  BY DEF SharedType, Live, OpenStepName
<1>13. OpenPhase'
  BY DEF OpenPhase, NoBatch
<1>14. WriterPhase'
  BY DEF WriterPhase, Live, NoBatch
<1>15. Counted'
  BY DEF Counted, Live
<1>16. Durable'
  BY FlushAll DEF Durable
<1>17. WriterDurable'
  BY FlushAll DEF WriterDurable
<1>18. SinkBounded'
  BY DEF SinkBounded, Live
<1>19. QueueSums'
  BY DEF QueueSums
<1> QED
  BY <1>10, <1>11, <1>12, <1>13, <1>14, <1>15, <1>16, <1>17, <1>18, <1>19

-----------------------------------------------------------------------------
(* The records of a file *)

LEMMA IdsType == ASSUME NEW s \in Seq(Rec) PROVE Ids(s) \subseteq Nat
<1>1. ASSUME NEW i \in DOMAIN s PROVE s[i].id \in Nat
  <2>1. s[i] \in Rec OBVIOUS
  <2> QED BY <2>1 DEF Rec
<1> QED BY <1>1 DEF Ids

LEMMA StoredType == ASSUME DiskType PROVE Stored \cup cut \subseteq Nat
<1>1. Ids(active) \subseteq Nat
  BY IdsType DEF DiskType
<1>2. \A n \in DOMAIN archives : Ids(archives[n]) \subseteq Nat
  BY IdsType DEF DiskType
<1> QED BY <1>1, <1>2 DEF Stored, ArchiveIds, DiskType

LEMMA IdsEmpty == Ids(<<>>) = {}
BY DEF Ids

LEMMA IdsAppend ==
    ASSUME NEW s \in Seq(Rec), NEW r \in Rec
    PROVE  Ids(Append(s, r)) = Ids(s) \cup {r.id}
<1> DEFINE a == Append(s, r)
<1>1. a \in Seq(Rec) /\ Len(a) = Len(s) + 1 /\ a[Len(s) + 1] = r
      /\ \A i \in 1 .. Len(s) : a[i] = s[i]
  OBVIOUS
<1> HIDE DEF a
<1>2. \A x : x \in Ids(a) <=> x \in Ids(s) \cup {r.id}
  BY <1>1 DEF Ids
<1> QED BY <1>2 DEF a

LEMMA PrefixOf ==
    ASSUME NEW s \in Seq(Rec), NEW m \in 0 .. Len(s), NEW n \in m .. Len(s)
    PROVE  /\ SubSeq(s, 1, n) \in Seq(Rec) /\ Len(SubSeq(s, 1, n)) = n
           /\ SubSeq(SubSeq(s, 1, n), 1, m) = SubSeq(s, 1, m)
           /\ Ids(SubSeq(s, 1, m)) \subseteq Ids(SubSeq(s, 1, n))
           /\ Ids(SubSeq(s, 1, n)) \subseteq Ids(s)
           /\ Ascending(s) => Ascending(SubSeq(s, 1, n))
           /\ SubSeq(SubSeq(s, 1, n), 1, n) = SubSeq(s, 1, n)
<1> DEFINE p == SubSeq(s, 1, n)
<1>1. p \in Seq(Rec) /\ Len(p) = n /\ \A i \in 1 .. n : p[i] = s[i]
  OBVIOUS
<1>2. SubSeq(p, 1, m) = SubSeq(s, 1, m) /\ SubSeq(p, 1, n) = p
  OBVIOUS
<1>3. /\ Len(SubSeq(s, 1, m)) = m /\ SubSeq(s, 1, m) \in Seq(Rec)
      /\ \A i \in 1 .. m : SubSeq(s, 1, m)[i] = s[i]
  OBVIOUS
<1>4. Ids(SubSeq(s, 1, m)) \subseteq Ids(p)
  BY <1>1, <1>3 DEF Ids
<1> HIDE DEF p
<1>5. Ids(p) \subseteq Ids(s)
  BY <1>1 DEF Ids
<1>6. Ascending(s) => Ascending(p)
  BY <1>1 DEF Ascending
<1> QED BY <1>1, <1>2, <1>4, <1>5, <1>6 DEF p

-----------------------------------------------------------------------------
(* Callers *)

LEMMA FlushAnswerStep ==
    ASSUME LogInv, NEW t \in Thread, FlushAnswer(t)
    PROVE  LogInv'
<1> USE DEF LogInv, FlushAnswer, Return, NoCall
<1>1. /\ flushedSeq \in Nat /\ epoch \in Nat /\ call[t].target \in Nat \ {0}
      /\ call[t].error \in BOOLEAN
  BY DEF SharedType, CallType, Call
<1>2. \A i \in acked' : i \in acked \/ i \in epoch + 1 .. epoch + flushedSeq
  BY <1>1
<1>3. Kept' = Kept
  BY KeepKept
<1>10. SharedType' /\ OpenPhase' /\ WriterPhase' /\ Catalogued' /\ Numbered' /\ Counted'
       /\ Ordered' /\ Frontier' /\ WriterDurable' /\ SinkSums' /\ SinkBounded' /\ QueueSums'
  BY KeepSharedType, KeepOpenPhase, KeepWriterPhase, KeepCatalogued, KeepNumbered, KeepCounted,
     KeepOrdered, KeepFrontier, KeepWriterDurable, KeepSinkSums, KeepSinkBounded, KeepQueueSums
<1>11. DiskType'
  BY <1>1, <1>2 DEF DiskType
<1>12. CallType'
  BY DEF CallType, CallStepName, Call
<1>13. Durable'
  BY <1>1, <1>2, <1>3 DEF Durable
<1> QED
  BY <1>10, <1>11, <1>12, <1>13

LEMMA EnqueueStep ==
    ASSUME LogInv, NEW t \in Thread, Enqueue(t)
    PROVE  LogInv'
<1> USE DEF LogInv
<1> DEFINE r == [id |-> epoch + nextSeq, size |-> call[t].size]
<1>0. /\ pc[t] = "admit" /\ state = "Running" /\ ~stopping
      /\ pendingRecords = 0 \/ pendingBytes + call[t].size <= Capacity
      /\ queue' = Append(queue, r) /\ nextSeq' = nextSeq + 1
      /\ pendingRecords' = pendingRecords + 1 /\ pendingBytes' = pendingBytes + call[t].size
      /\ wpc' = IF wpc = "asleep" THEN "check" ELSE wpc
      /\ UNCHANGED <<active, flushed, archives, temporary, maxTotal, activeSize, managed, known>>
      /\ UNCHANGED <<nextArchive, state, stopping, flushedSeq, epoch, batch, written, done, opc>>
      /\ UNCHANGED <<acked, retired, cut, reported>>
  BY DEF Enqueue, WakeWriter, Running, HasSpace
<1>1. /\ epoch \in Nat /\ nextSeq \in Nat \ {0} /\ flushedSeq \in Nat
      /\ call[t].size \in Nat /\ queue \in Seq(Rec) /\ batch \in Seq(Rec) /\ written \in Nat
      /\ done.count \in Nat /\ done.bytes \in Nat /\ done.last \in Nat
      /\ Len(queue) \in Nat /\ Len(batch) \in Nat
  BY DEF SharedType, CallType, Call
<1>2. /\ r \in Rec /\ queue' \in Seq(Rec) /\ Len(queue') = Len(queue) + 1
      /\ \A i \in 1 .. Len(queue) : queue'[i] = queue[i]
      /\ queue'[Len(queue) + 1] = r /\ r.id = epoch + nextSeq
  <2>1. r \in Rec BY <1>1 DEF Rec
  <2> HIDE DEF r
  <2>2. /\ queue' \in Seq(Rec) /\ Len(queue') = Len(queue) + 1
        /\ \A i \in 1 .. Len(queue) : queue'[i] = queue[i]
        /\ queue'[Len(queue) + 1] = r
    BY <1>0, <1>1, <2>1
  <2>3. r.id = epoch + nextSeq
    BY DEF r
  <2> QED BY <2>1, <2>2, <2>3
<1> HIDE DEF r
<1>3. /\ opc \in {"open", "destroy"} /\ wpc \in Live \ {"stopped"}
      /\ wpc' \in Live \ {"stopped"} /\ (wpc' = wpc \/ (wpc = "asleep" /\ wpc' = "check"))
  <2>1. opc \in {"open", "destroy"}
    BY <1>0 DEF OpenPhase
  <2>2. wpc \in Live \ {"stopped"}
    BY <1>0, <2>1 DEF WriterPhase, SharedType
  <2> QED BY <1>0, <2>1, <2>2 DEF Live
<1>4. Top' = Top + 1 /\ Top' - Len(queue') = Top - Len(queue) /\ Top' = epoch + nextSeq
      /\ Top \in Nat
  BY <1>0, <1>1, <1>2 DEF Top
<1>7. Len(queue') = Len(queue) + 1
  BY <1>2
<1>8. UNCHANGED <<flushedSeq, batch, done, opc>> /\ nextSeq' = nextSeq + 1
  BY <1>0
<1>9. /\ nextSeq \in Nat /\ flushedSeq \in Nat /\ Len(queue) \in Nat /\ Len(batch) \in Nat
      /\ done.count \in Nat /\ done.bytes \in Nat /\ done.last \in Nat /\ call[t].size \in Nat
  BY <1>1
<1>5. /\ SizeOf(queue') = SizeOf(queue) + call[t].size
      /\ SizeOf(queue) \in Nat /\ SizeOf(batch) \in Nat
  <2>1. \A e \in Rec : e.size \in Nat BY DEF Rec
  <2>2. SizeOf(Append(queue, r)) = SizeOf(queue) + r.size
    BY <1>1, <1>2, <2>1, SizeAppend
  <2>3. SizeOf(queue) \in Nat /\ SizeOf(batch) \in Nat
    BY <1>1, <2>1, SizeType
  <2>4. r.size = call[t].size BY DEF r
  <2> QED BY <1>0, <2>2, <2>3, <2>4
<1>6. Kept' = Kept /\ Stored' = Stored
  BY <1>0, KeepKept
<1>10. DiskType' /\ Catalogued' /\ Ordered' /\ Durable' /\ SinkSums'
  BY <1>0, KeepDiskType, KeepCatalogued, KeepOrdered, KeepDurable, KeepSinkSums
<1>11. SharedType'
  BY <1>0, <1>1, <1>2, <1>3 DEF SharedType, Live
<1>12. CallType'
  <2>1. CASE call[t].error
    <3>1. pc' = [pc EXCEPT ![t] = "flushed"] /\ call' = [call EXCEPT ![t].target = nextSeq]
      BY <2>1 DEF Enqueue
    <3>2. call' \in [Thread -> Call]
      BY <3>1, <1>1 DEF CallType, Call
    <3>3. \A u \in Thread : u # t => call'[u] = call[u] /\ pc'[u] = pc[u]
      BY <3>1 DEF CallType
    <3>4. call'[t].target = nextSeq
      BY <3>1 DEF CallType, Call
    <3>5. pc' \in [Thread -> CallStepName] /\ nextSeq # 0
      BY <1>1, <3>1 DEF CallType, CallStepName
    <3> QED BY <3>2, <3>3, <3>4, <3>5 DEF CallType
  <2>2. CASE ~call[t].error
    <3>1. pc' = [pc EXCEPT ![t] = "idle"] /\ call' = [call EXCEPT ![t] = NoCall]
      BY <2>2 DEF Enqueue, Return
    <3> QED BY <3>1 DEF CallType, CallStepName, Call, NoCall
  <2> QED BY <2>1, <2>2
<1>13. OpenPhase'
  BY <1>0, <1>3 DEF OpenPhase
<1>14. WriterPhase'
  BY <1>0, <1>1, <1>2, <1>3 DEF WriterPhase, Live, NoBatch
<1>15. Numbered'
  <2>1. \A i \in 1 .. Len(queue') : queue'[i].id = Top' - Len(queue') + i
    <3> TAKE i \in 1 .. Len(queue')
    <3>1. CASE i = Len(queue) + 1
      <4>1. queue'[i].id = epoch + nextSeq BY <3>1, <1>2
      <4>2. Top' - Len(queue') + i = epoch + nextSeq
        <5>1. Top' - Len(queue') = Top - Len(queue) /\ Top + 1 = epoch + nextSeq
          BY <1>4
        <5>2. Top \in Nat /\ Len(queue) \in Nat
          BY <1>4, <1>9
        <5>3. Top - Len(queue) + (Len(queue) + 1) = Top + 1
          BY <5>2, SMTT(30)
        <5> QED BY <3>1, <5>1, <5>3
      <4> QED BY <4>1, <4>2
    <3>2. CASE i # Len(queue) + 1
      <4>1. i \in 1 .. Len(queue) BY <3>2, <1>2
      <4> QED BY <4>1, <1>2, <1>4 DEF Numbered
    <3> QED BY <3>1, <3>2
  <2>2. \A i \in 1 .. Len(batch') : batch'[i].id = Top' - Len(queue') - Len(batch') + i
    BY <1>0, <1>1, <1>2, <1>4 DEF Numbered
  <2>3. flushedSeq' + Len(queue') + Len(batch') <= nextSeq' - 1
    BY <1>0, <1>1, <1>2 DEF Numbered
  <2> QED BY <2>1, <2>2, <2>3 DEF Numbered
<1>16. Counted'
  <2>1. /\ wpc \in Live \ {"finish", "failed"} => flushedSeq + Len(queue) + Len(batch) = nextSeq - 1
        /\ wpc = "finish" => done.last + Len(queue) = nextSeq - 1 /\ flushedSeq <= done.last
    BY <1>3 DEF Counted
  <2>2. wpc' \in Live \ {"finish", "failed"} => flushedSeq + Len(queue') + Len(batch) = nextSeq' - 1
    BY <1>3, <1>7, <1>8, <1>9, <2>1 DEF Live
  <2>3. wpc' = "finish" => done.last + Len(queue') = nextSeq' - 1 /\ flushedSeq <= done.last
    BY <1>3, <1>7, <1>8, <1>9, <2>1, SMTT(60)
  <2> QED BY <1>8, <2>2, <2>3 DEF Counted
<1>17. Frontier'
  BY <1>0, <1>1, <1>2, <1>4, <1>6 DEF Frontier
<1>18. WriterDurable'
  BY <1>0, <1>3, <1>6 DEF WriterDurable
<1>19. SinkBounded'
  BY <1>0, <1>3 DEF SinkBounded
<1>20. QueueSums'
  <2>0. SizeOf(queue) \in Nat /\ SizeOf(batch) \in Nat
    BY <1>5
  <2>1. pendingBytes \in Nat /\ pendingRecords \in Nat
    BY <1>1, <2>0, SMTT(60) DEF QueueSums
  <2>2. pendingBytes' <= Capacity \/ pendingRecords' = 1
    BY <1>0, <1>1, <2>1
  <2>3. /\ pendingRecords' = Len(queue') + Len(batch') + done'.count
        /\ pendingBytes' = SizeOf(queue') + SizeOf(batch') + done'.bytes
    <3>1. /\ pendingRecords' = pendingRecords + 1 /\ pendingBytes' = pendingBytes + call[t].size
          /\ SizeOf(batch') = SizeOf(batch)
      BY <1>0
    <3>2. /\ pendingRecords = Len(queue) + Len(batch) + done.count
          /\ pendingBytes = SizeOf(queue) + SizeOf(batch) + done.bytes
      BY DEF QueueSums
    <3>3. pendingRecords' = Len(queue') + Len(batch) + done.count
      <4>1. \A a, b, c \in Nat : (a + b + c) + 1 = (a + 1) + b + c
        OBVIOUS
      <4>2. (Len(queue) + Len(batch) + done.count) + 1 = (Len(queue) + 1) + Len(batch) + done.count
        BY <4>1, <1>9
      <4> QED BY <1>7, <3>1, <3>2, <4>2
    <3>4. pendingBytes' = SizeOf(queue') + SizeOf(batch) + done.bytes
      <4>1. \A a, b, c, s \in Nat : (a + b + c) + s = (a + s) + b + c
        OBVIOUS
      <4>2. (SizeOf(queue) + SizeOf(batch) + done.bytes) + call[t].size
              = (SizeOf(queue) + call[t].size) + SizeOf(batch) + done.bytes
        BY <4>1, <1>9, <1>5
      <4> QED BY <4>2, <1>5, <3>1, <3>2
    <3> QED BY <1>8, <3>1, <3>3, <3>4
  <2>4. wpc' = "finish" => done'.count # 0
    BY <1>0, <1>3 DEF QueueSums
  <2> QED BY <2>2, <2>3, <2>4 DEF QueueSums
<1> QED
  BY <1>10, <1>11, <1>12, <1>13, <1>14, <1>15, <1>16, <1>17, <1>18, <1>19, <1>20

-----------------------------------------------------------------------------
(* The writer's batch *)

LEMMA TakeBatchStep ==
    ASSUME LogInv, TakeBatch
    PROVE  LogInv'
<1> USE DEF LogInv, TakeBatch, WriterAt
<1>1. /\ queue \in Seq(Rec) /\ batch = <<>> /\ queue # <<>> /\ nextSeq \in Nat \ {0}
      /\ flushedSeq \in Nat /\ epoch \in Nat /\ opc \in {"open", "destroy"}
      /\ done = NoBatch /\ state = "Running"
  BY DEF SharedType, OpenStepName, OpenPhase, WriterPhase, Live
<1>2. Len(batch) = 0 /\ Len(queue') = 0 /\ Len(queue) \in Nat \ {0} /\ Top' = Top /\ Top \in Nat
  BY <1>1 DEF Top
<1>3. Kept' = Kept /\ Stored' = Stored
  BY KeepKept
<1>10. DiskType' /\ CallType' /\ Catalogued' /\ Ordered' /\ Durable' /\ SinkSums'
  BY KeepDiskType, KeepCallType, KeepCatalogued, KeepOrdered, KeepDurable, KeepSinkSums
<1>11. SharedType'
  BY <1>1 DEF SharedType, Live
<1>12. OpenPhase'
  BY <1>1 DEF OpenPhase
<1>13. WriterPhase'
  BY <1>1, <1>2 DEF WriterPhase, Live
<1>14. Numbered'
  BY <1>1, <1>2 DEF Numbered
<1>15. Counted'
  BY <1>1, <1>2 DEF Counted, Live
<1>16. Frontier'
  <2>1. Stored \cup cut \subseteq Nat
    BY StoredType
  <2>2. /\ Top' - Len(queue') - Len(batch') + written' = Top - Len(queue)
        /\ Top - Len(queue) <= Top' - Len(queue')
    BY <1>1, <1>2
  <2>3. cut' = cut OBVIOUS
  <2>4. \A i \in Stored \cup cut : i <= Top - Len(queue)
    BY DEF Frontier
  <2>5. \A i \in Stored \cup cut : i <= Top
    BY <1>2, <2>1, <2>4
  <2> QED BY <1>2, <1>3, <2>2, <2>3, <2>4, <2>5 DEF Frontier
<1>17. WriterDurable'
  BY <1>1, <1>3 DEF WriterDurable
<1>18. SinkBounded'
  BY DEF SinkBounded, Live
<1>19. QueueSums'
  <2>1. SizeOf(<<>>) = 0 /\ SizeOf(queue) \in Nat
    <3>1. \A e \in Rec : e.size \in Nat BY DEF Rec
    <3> QED BY <1>1, <3>1, SizeType, SizeEmpty
  <2> QED BY <1>1, <1>2, <2>1 DEF QueueSums, NoBatch
<1> QED
  BY <1>10, <1>11, <1>12, <1>13, <1>14, <1>15, <1>16, <1>17, <1>18, <1>19

LEMMA WriterFailsStep ==
    ASSUME LogInv, WriterFails
    PROVE  LogInv'
<1> USE DEF LogInv, WriterFails, WriterAt
<1>1. /\ queue \in Seq(Rec) /\ batch \in Seq(Rec) /\ nextSeq \in Nat \ {0} /\ written \in Nat
      /\ flushedSeq \in Nat /\ epoch \in Nat /\ opc \in {"open", "destroy"}
      /\ done = NoBatch /\ state = "Running"
  BY DEF SharedType, OpenStepName, OpenPhase, WriterPhase, Live
<1>2. /\ Len(batch) \in Nat /\ Len(queue) \in Nat /\ Len(queue') = 0 /\ Len(batch') = 0
      /\ Top' = Top /\ Top \in Nat
  BY <1>1 DEF Top
<1>3. Kept' = Kept /\ Stored' = Stored
  BY KeepKept
<1>10. DiskType' /\ CallType' /\ Catalogued' /\ Ordered' /\ Durable' /\ SinkSums'
  BY KeepDiskType, KeepCallType, KeepCatalogued, KeepOrdered, KeepDurable, KeepSinkSums
<1>11. SharedType'
  BY <1>1 DEF SharedType, Live
<1>12. OpenPhase'
  BY <1>1 DEF OpenPhase
<1>13. WriterPhase'
  BY <1>1, <1>2 DEF WriterPhase, Live
<1>14. Numbered'
  BY <1>1, <1>2 DEF Numbered
<1>15. Counted'
  BY <1>1, <1>2 DEF Counted, Live
<1>16. Frontier'
  <2>1. Stored \cup cut \subseteq Nat
    BY StoredType
  <2>2. \A i \in Stored \cup cut : i <= Top
    BY <1>2, <2>1 DEF Frontier
  <2> QED BY <1>1, <1>2, <1>3, <2>2 DEF Frontier
<1>17. WriterDurable'
  BY <1>1, <1>3 DEF WriterDurable
<1>18. SinkBounded'
  BY DEF SinkBounded, Live
<1>19. QueueSums'
  BY <1>1, <1>2, SizeEmpty, LoggerAssumption DEF QueueSums, NoBatch
<1> QED
  BY <1>10, <1>11, <1>12, <1>13, <1>14, <1>15, <1>16, <1>17, <1>18, <1>19

LEMMA FlushBatchStep ==
    ASSUME LogInv, FlushBatch
    PROVE  LogInv'
<1> USE DEF LogInv, FlushBatch, WriterAt
<1> DEFINE b == Len(batch)
<1>1. /\ queue \in Seq(Rec) /\ batch \in Seq(Rec) /\ nextSeq \in Nat \ {0} /\ written = b
      /\ flushedSeq \in Nat /\ epoch \in Nat /\ opc \in {"open", "destroy"}
      /\ batch # <<>> /\ done = NoBatch /\ state = "Running"
  BY DEF SharedType, OpenStepName, OpenPhase, WriterPhase, Live
<1>2. /\ b \in Nat \ {0} /\ Len(queue) \in Nat /\ Len(batch') = 0
      /\ Top' = Top /\ Top \in Nat
  BY <1>1 DEF Top
<1>3. Kept \subseteq Kept' /\ Stored' = Stored /\ Kept' = Stored
  BY FlushAll
<1>4. flushedSeq + Len(queue) + b = nextSeq - 1
  BY <1>1 DEF Counted, Live
<1>5. \A i \in 1 .. b : batch[i].id = epoch + flushedSeq + i
  <2>1. \A i \in 1 .. b : batch[i].id = Top - Len(queue) - b + i
    BY DEF Numbered
  <2>2. Top - Len(queue) - b = epoch + flushedSeq
    BY <1>1, <1>2, <1>4 DEF Top
  <2> HIDE DEF b
  <2> QED BY <2>1, <2>2
<1>6. Last(batch) = batch[b]
  BY DEF Last
<1>7. Last(batch).id = epoch + flushedSeq + b /\ Last(batch).id - epoch = flushedSeq + b
  BY <1>1, <1>2, <1>5, <1>6
<1>8. SizeOf(batch) \in Nat /\ SizeOf(queue) \in Nat
  <2>1. \A e \in Rec : e.size \in Nat BY DEF Rec
  <2> QED BY <1>1, <2>1, SizeType
<1>9. done' = [count |-> b, bytes |-> SizeOf(batch), last |-> flushedSeq + b]
  BY <1>7
<1> HIDE DEF b
<1>10. CallType' /\ Catalogued' /\ Ordered' /\ SinkSums'
  BY KeepCallType, KeepCatalogued, KeepOrdered, KeepSinkSums
<1>11. DiskType'
  BY DEF DiskType
<1>12. SharedType'
  BY <1>1, <1>2, <1>8, <1>9 DEF SharedType, Live
<1>13. OpenPhase'
  BY <1>1 DEF OpenPhase
<1>14. WriterPhase'
  BY <1>1, <1>2 DEF WriterPhase, Live
<1>15. Numbered'
  BY <1>1, <1>2, <1>4 DEF Numbered
<1>16. Counted'
  BY <1>1, <1>2, <1>4, <1>9 DEF Counted, Live
<1>17. Frontier'
  <2>1. \A i \in Stored \cup cut : i <= Top - Len(queue)
    BY DEF Frontier
  <2> QED BY <1>1, <1>2, <1>3, <2>1 DEF Frontier
<1>18. Durable'
  BY <1>3 DEF Durable
<1>19. WriterDurable'
  <2>1. ASSUME NEW i \in epoch + 1 .. epoch + (flushedSeq + b) PROVE i \in Kept'
    <3>1. CASE i \in epoch + 1 .. epoch + flushedSeq
      BY <3>1, <1>3 DEF Durable
    <3>2. CASE i \notin epoch + 1 .. epoch + flushedSeq
      <4>1. i - epoch - flushedSeq \in 1 .. b
        BY <3>2, <1>1, <1>2
      <4>2. batch[i - epoch - flushedSeq].id = i
        BY <4>1, <1>1, <1>2, <1>5
      <4>3. batch[i - epoch - flushedSeq].id \in Stored
        BY <4>1, <1>1 DEF WriterDurable
      <4> QED BY <4>2, <4>3, <1>3
    <3> QED BY <3>1, <3>2
  <2> QED BY <2>1, <1>9 DEF WriterDurable
<1>20. SinkBounded'
  BY DEF SinkBounded, Live
<1>21. QueueSums'
  BY <1>1, <1>2, <1>8, <1>9, SizeEmpty DEF QueueSums, NoBatch, b
<1> QED
  BY <1>10, <1>11, <1>12, <1>13, <1>14, <1>15, <1>16, <1>17, <1>18, <1>19, <1>20, <1>21

LEMMA FinishBatchStep ==
    ASSUME LogInv, FinishBatch
    PROVE  LogInv'
<1> USE DEF LogInv, FinishBatch, WriterAt
<1>1. /\ queue \in Seq(Rec) /\ batch = <<>> /\ nextSeq \in Nat \ {0}
      /\ flushedSeq \in Nat /\ epoch \in Nat /\ opc \in {"open", "destroy"}
      /\ done.count \in Nat /\ done.bytes \in Nat /\ done.last \in Nat /\ state = "Running"
  BY DEF SharedType, OpenStepName, OpenPhase, WriterPhase, Live
<1>2. /\ Len(queue) \in Nat /\ Len(batch) = 0 /\ Top' = Top /\ Top \in Nat
      /\ done.last + Len(queue) = nextSeq - 1 /\ flushedSeq <= done.last
  BY <1>1 DEF Top, Counted
<1>3. Kept' = Kept /\ Stored' = Stored
  BY KeepKept
<1>4. SizeOf(queue) \in Nat /\ SizeOf(batch) = 0
  <2>1. \A e \in Rec : e.size \in Nat BY DEF Rec
  <2> QED BY <1>1, <2>1, SizeType, SizeEmpty
<1>10. DiskType' /\ CallType' /\ Catalogued' /\ Ordered' /\ Frontier' /\ SinkSums'
  BY KeepDiskType, KeepCallType, KeepCatalogued, KeepOrdered, KeepFrontier, KeepSinkSums
<1>11. SharedType'
  BY <1>1 DEF SharedType, Live, NoBatch
<1>12. OpenPhase'
  BY <1>1 DEF OpenPhase
<1>13. WriterPhase'
  BY <1>1 DEF WriterPhase, Live
<1>14. Numbered'
  BY <1>1, <1>2 DEF Numbered
<1>15. Counted'
  BY <1>1, <1>2 DEF Counted, Live
<1>16. Durable'
  <2>1. acked \subseteq Nat BY DEF DiskType
  <2> QED BY <1>1, <1>2, <1>3, <2>1 DEF Durable, WriterDurable
<1>17. WriterDurable'
  BY DEF WriterDurable
<1>18. SinkBounded'
  BY DEF SinkBounded, Live
<1>19. QueueSums'
  <2>1. /\ pendingRecords = Len(queue) + done.count
        /\ pendingBytes = SizeOf(queue) + done.bytes /\ done.count # 0
    BY <1>1, <1>2, <1>4 DEF QueueSums
  <2>2. pendingRecords' = Len(queue) /\ pendingBytes' = SizeOf(queue)
    BY <1>1, <1>2, <1>4, <2>1, SMTT(60)
  <2>3. SizeOf(queue) <= Capacity \/ Len(queue) = 1
    <3>1. CASE pendingBytes <= Capacity
      BY <1>1, <1>4, <2>1, <3>1, LoggerAssumption
    <3>2. CASE pendingRecords = 1
      <4>1. queue = <<>>
        BY <1>1, <1>2, <2>1, <3>2
      <4> QED BY <4>1, SizeEmpty, LoggerAssumption
    <3> QED BY <3>1, <3>2 DEF QueueSums
  <2>4. done'.count = 0 /\ done'.bytes = 0 /\ wpc' # "finish" /\ queue' = queue /\ batch' = batch
    BY DEF NoBatch
  <2> QED BY <1>2, <1>4, <2>2, <2>3, <2>4 DEF QueueSums
<1> QED
  BY <1>10, <1>11, <1>12, <1>13, <1>14, <1>15, <1>16, <1>17, <1>18, <1>19

-----------------------------------------------------------------------------
(* The files *)

\* A file that loses records stays in order.
LEMMA OrderedShrinks ==
    ASSUME Ordered, Ascending(active'), Ids(active') \subseteq Ids(active),
           UNCHANGED <<archives, retired, cut>>
    PROVE  Ordered'
<1>1. ArchiveIds' = ArchiveIds /\ \A n \in DOMAIN archives : Ids(archives'[n]) = Ids(archives[n])
  BY DEF ArchiveIds, Ids
<1>2. \A n \in DOMAIN archives : Ascending(archives'[n])
  BY DEF Ordered
<1> QED BY <1>1, <1>2 DEF Ordered

\* A file of which a prefix stays, the flushed one at least.
LEMMA Truncated ==
    ASSUME DiskType, Ordered, NEW n \in flushed .. Len(active), flushed' = n,
           active' = SubSeq(active, 1, n), UNCHANGED <<archives, retired, cut, acked>>
    PROVE  /\ DiskType' /\ Ordered' /\ flushed' = Len(active')
           /\ Kept \subseteq Kept' /\ Stored' \subseteq Stored
<1>1. active \in Seq(Rec) /\ flushed \in 0 .. Len(active) /\ n \in 0 .. Len(active)
  BY DEF DiskType
<1>2. /\ active' \in Seq(Rec) /\ Len(active') = n
      /\ Ids(SubSeq(active, 1, flushed)) \subseteq Ids(active')
      /\ Ids(active') \subseteq Ids(active)
      /\ Ascending(active) => Ascending(active')
      /\ SubSeq(active', 1, flushed') = active'
  BY <1>1, PrefixOf
<1>3. DiskType'
  BY <1>1, <1>2 DEF DiskType
<1>4. Ordered'
  <2>1. Ascending(active) BY DEF Ordered
  <2> QED BY <1>2, <2>1, OrderedShrinks
<1>5. ArchiveIds' = ArchiveIds
  BY DEF ArchiveIds, Ids
<1>6. Ids(SubSeq(active, 1, flushed))' = Ids(active')
  BY <1>2 DEF Ids
<1>7. Kept \subseteq Kept'
  BY <1>2, <1>5, <1>6 DEF Kept, OnDisk
<1>8. Stored' \subseteq Stored
  <2>1. Ids(active)' = Ids(active') BY DEF Ids
  <2> QED BY <1>2, <1>5, <2>1 DEF Stored
<1> QED BY <1>2, <1>3, <1>4, <1>7, <1>8

LEMMA WriteRecordStep ==
    ASSUME LogInv, WriteRecord \/ SpillFails
    PROVE  LogInv'
<1> USE DEF LogInv
<1>0. /\ wpc = "write" /\ active' = Append(active, batch[written + 1])
      /\ activeSize' = activeSize + batch[written + 1].size
      /\ managed' = managed + batch[written + 1].size
      /\ flushed' \in {flushed, Len(active')}
      /\ written' = written + 1 /\ wpc' \in {"prune", "failed"}
      /\ UNCHANGED <<archives, temporary, maxTotal, known, nextArchive, batch, done, opc, pc, call>>
      /\ UNCHANGED <<state, stopping, queue, pendingRecords, pendingBytes, nextSeq, flushedSeq,
         epoch>>
      /\ UNCHANGED <<acked, retired, cut, reported>>
  BY DEF WriteRecord, SpillFails, PutLine, Line, WriterAt
<1>1. /\ queue \in Seq(Rec) /\ batch \in Seq(Rec) /\ written \in Nat /\ written < Len(batch)
      /\ opc \in {"open", "destroy"} /\ active \in Seq(Rec) /\ flushed \in 0 .. Len(active)
  BY <1>0 DEF SharedType, OpenStepName, OpenPhase, WriterPhase, DiskType
<1>2. PICK l \in Rec : l = batch[written + 1]
  BY <1>1
<1>3. /\ active' = Append(active, l) /\ active' \in Seq(Rec) /\ Len(active') = Len(active) + 1
      /\ \A i \in 1 .. Len(active) : active'[i] = active[i]
      /\ active'[Len(active) + 1] = l
  BY <1>0, <1>1, <1>2
<1>4. Len(queue) \in Nat /\ Len(batch) \in Nat /\ written \in Nat /\ Top \in Nat /\ Top' = Top
      /\ written < Len(batch) /\ Len(active) \in Nat /\ l.id \in Nat /\ l.size \in Nat
  <2>1. Len(queue) \in Nat /\ Len(batch) \in Nat /\ Len(active) \in Nat BY <1>1
  <2>2. epoch \in Nat /\ nextSeq \in Nat \ {0} BY DEF SharedType
  <2>3. Top \in Nat BY <2>2 DEF Top
  <2>4. Top' = Top BY <1>0 DEF Top
  <2>5. l.id \in Nat /\ l.size \in Nat BY DEF Rec
  <2> QED BY <1>1, <2>1, <2>3, <2>4, <2>5
<1>5. l.id = Top - Len(queue) - Len(batch) + (written + 1)
  <2>1. written + 1 \in 1 .. Len(batch) BY <1>4
  <2> QED BY <1>2, <2>1 DEF Numbered
<1>6. Ids(active)' = Ids(active) \cup {l.id} /\ ArchiveIds' = ArchiveIds
  <2>1. Ids(active)' = Ids(active') BY DEF Ids
  <2>2. ArchiveIds' = ArchiveIds BY <1>0 DEF ArchiveIds, Ids
  <2> QED BY <1>1, <1>3, <2>1, <2>2, IdsAppend
<1>7. Stored' = Stored \cup {l.id}
  BY <1>0, <1>6 DEF Stored
<1>8. \A i \in Stored \cup cut : i \in Nat /\ i <= l.id - 1
  <2>1. Stored \cup cut \subseteq Nat BY StoredType
  <2>2. \A i \in Stored \cup cut : i <= Top - Len(queue) - Len(batch) + written
    BY <1>1 DEF Frontier
  <2> QED BY <1>4, <1>5, <2>1, <2>2
<1>9. flushed' \in flushed .. Len(active') /\ flushed' \in Nat
  BY <1>0, <1>1, <1>3, <1>4
<1>10. CallType' /\ Catalogued' /\ Numbered'
  BY <1>0, KeepCallType, KeepCatalogued, KeepNumbered
<1>11. DiskType'
  BY <1>0, <1>1, <1>3, <1>9 DEF DiskType
<1>12. SharedType'
  BY <1>0, <1>1 DEF SharedType, Live
<1>13. OpenPhase'
  BY <1>0, <1>1 DEF OpenPhase
<1>14. WriterPhase'
  BY <1>0, <1>1, <1>4 DEF WriterPhase, Live
<1>15. Counted'
  BY <1>0 DEF Counted, Live
<1>16. Ordered'
  <2>1. Ascending(active')
    <3> SUFFICES ASSUME NEW i \in 1 .. Len(active'), NEW j \in 1 .. Len(active'), i < j
                 PROVE  active'[i].id < active'[j].id
      BY <1>3 DEF Ascending
    <3>1. i \in 1 .. Len(active) /\ active'[i] = active[i]
      BY <1>3, <1>4
    <3>2. CASE j \in 1 .. Len(active)
      <4>1. active[i].id < active[j].id BY <1>1, <3>1, <3>2 DEF Ordered, Ascending
      <4> QED BY <3>1, <3>2, <4>1, <1>3
    <3>3. CASE j \notin 1 .. Len(active)
      <4>1. j = Len(active) + 1 BY <3>3, <1>3, <1>4
      <4>2. active[i].id \in Stored BY <1>1, <3>1 DEF Stored, Ids
      <4>3. active[i].id < l.id BY <1>4, <1>8, <4>2
      <4> QED BY <1>3, <3>1, <4>1, <4>3
    <3> QED BY <3>2, <3>3
  <2>2. \A n \in DOMAIN archives : Ids(archives'[n]) = Ids(archives[n])
          /\ Ids(archives[n]) \subseteq Stored
    BY <1>0 DEF Stored, ArchiveIds
  <2>3. \A i \in Stored \cup cut : i < l.id
    BY <1>4, <1>8
  <2>4. Ids(active') = Ids(active) \cup {l.id}
    BY <1>6 DEF Ids
  <2>5. ArchiveIds \subseteq Stored /\ retired \subseteq Stored
    BY DEF Stored
  <2>6. \A i \in retired' \ cut', j \in ArchiveIds' \cup Ids(active') : i < j
    BY <1>0, <1>6, <2>3, <2>4, <2>5 DEF Ordered
  <2>7. \A n \in DOMAIN archives' : \A i \in Ids(archives'[n]), j \in Ids(active') : i < j
    BY <1>0, <2>2, <2>3, <2>4 DEF Ordered
  <2>8. \A i \in cut', j \in Ids(active') : i < j
    BY <1>0, <2>3, <2>4 DEF Ordered
  <2> QED BY <1>0, <2>1, <2>2, <2>6, <2>7, <2>8 DEF Ordered
<1>17. Frontier'
  <2>1. \A i \in Stored' \cup cut' : i <= l.id /\ i \in Nat
    BY <1>0, <1>4, <1>7, <1>8
  <2>2. l.id = Top' - Len(queue') - Len(batch') + written' /\ l.id <= Top' - Len(queue')
    BY <1>0, <1>4, <1>5
  <2>3. Top' - Len(queue') \in Int
    BY <1>0, <1>4
  <2> QED BY <1>4, <2>1, <2>2, <2>3 DEF Frontier
<1>18. Durable'
  <2>1. Kept \subseteq Kept'
    <3>1. SubSeq(active', 1, flushed) = SubSeq(active, 1, flushed)
      BY <1>1, <1>3
    <3>2. Ids(SubSeq(active', 1, flushed)) \subseteq Ids(SubSeq(active', 1, flushed'))
      <4>1. flushed \in 0 .. Len(active') BY <1>1, <1>3, <1>4
      <4> QED BY <1>3, <1>9, <4>1, PrefixOf
    <3>3. Ids(SubSeq(active, 1, flushed))' = Ids(SubSeq(active', 1, flushed'))
      BY DEF Ids
    <3> QED BY <1>0, <1>6, <3>1, <3>2, <3>3 DEF Kept, OnDisk
  <2> QED BY <1>0, <2>1 DEF Durable
<1>19. WriterDurable'
  <2>1. ASSUME NEW i \in 1 .. written + 1 PROVE batch[i].id \in Stored'
    <3>1. CASE i = written + 1
      BY <3>1, <1>2, <1>7
    <3>2. CASE i # written + 1
      <4>1. i \in 1 .. written BY <3>2, <1>4
      <4> QED BY <4>1, <1>0, <1>7 DEF WriterDurable
    <3> QED BY <3>1, <3>2
  <2> QED BY <1>0, <2>1 DEF WriterDurable
<1>20. SinkSums'
  <2>1. SizeOf(active') = SizeOf(active) + l.size
    <3>1. \A e \in Rec : e.size \in Nat BY DEF Rec
    <3> QED BY <1>1, <1>3, <3>1, SizeAppend
  <2>2. activeSize = SizeOf(active) /\ managed = activeSize + SizeOf(known)
        /\ maxTotal \in Nat /\ managed \in Nat /\ activeSize \in Nat
    BY <1>1 DEF SinkSums
  <2>3. SizeOf(known) \in Nat
    <3>1. \A e \in ArchiveEntry : e.size \in Nat BY DEF ArchiveEntry
    <3>2. known \in Seq(ArchiveEntry) BY <1>1 DEF Catalogued
    <3> QED BY <3>1, <3>2, SizeType
  <2>4. activeSize' = activeSize + l.size /\ managed' = managed + l.size
        /\ maxTotal' = maxTotal /\ known' = known
    BY <1>0, <1>2
  <2>5. managed + l.size = (activeSize + l.size) + SizeOf(known)
    BY <1>4, <2>2, <2>3
  <2> QED BY <1>4, <2>1, <2>2, <2>4, <2>5, SMTT(60) DEF SinkSums
<1>21. SinkBounded'
  BY <1>0 DEF SinkBounded
<1>22. QueueSums'
  BY <1>0 DEF QueueSums
<1> QED
  BY <1>10, <1>11, <1>12, <1>13, <1>14, <1>15, <1>16, <1>17, <1>18, <1>19, <1>20, <1>21, <1>22

LEMMA RotateRenameStep ==
    ASSUME LogInv, RotateRename
    PROVE  LogInv'
<1> USE DEF LogInv
<1>0. /\ wpc = "rotate"
      /\ archives' = [m \in DOMAIN archives \cup {nextArchive} |->
                        IF m = nextArchive THEN active ELSE archives[m]]
      /\ known' = Append(known, [number |-> nextArchive, size |-> activeSize])
      /\ nextArchive' = nextArchive + 1
      /\ active' = <<>> /\ flushed' = 0 /\ activeSize' = 0 /\ wpc' = "write"
      /\ UNCHANGED <<temporary, maxTotal, managed, batch, written, done, opc, pc, call>>
      /\ UNCHANGED <<state, stopping, queue, pendingRecords, pendingBytes, nextSeq, flushedSeq,
         epoch>>
      /\ UNCHANGED <<acked, retired, cut, reported>>
  BY DEF RotateRename, WriterAt
<1>1. /\ active \in Seq(Rec) /\ flushed \in 0 .. Len(active) /\ opc \in {"open", "destroy"}
      /\ known \in Seq(ArchiveEntry) /\ nextArchive \in Nat /\ Len(known) < nextArchive
      /\ DOMAIN archives = nextArchive - Len(known) .. nextArchive - 1
      /\ activeSize \in Nat /\ Len(known) \in Nat
  BY <1>0 DEF SharedType, OpenStepName, OpenPhase, WriterPhase, DiskType, Catalogued, SinkSums
<1>2. /\ nextArchive \notin DOMAIN archives
      /\ DOMAIN archives' = DOMAIN archives \cup {nextArchive}
      /\ archives'[nextArchive] = active
      /\ \A n \in DOMAIN archives : archives'[n] = archives[n]
      /\ \A n \in DOMAIN archives : n < nextArchive
  BY <1>0, <1>1
<1>3. /\ Ids(active)' = {} /\ Ids(active') = {}
      /\ ArchiveIds' = ArchiveIds \cup Ids(active)
  <2>1. Ids(active') = {} /\ Ids(active)' = Ids(active') BY <1>0, IdsEmpty DEF Ids
  <2>2. ArchiveIds' = UNION {Ids(archives'[n]) : n \in DOMAIN archives'} BY DEF ArchiveIds, Ids
  <2>3. \A x : x \in ArchiveIds' <=> x \in ArchiveIds \cup Ids(active)
    BY <1>2, <2>2 DEF ArchiveIds
  <2> QED BY <2>1, <2>3
<1>4. Stored' = Stored
  BY <1>0, <1>3 DEF Stored
<1>5. Kept \subseteq Kept'
  <2>1. Ids(SubSeq(active, 1, flushed)) \subseteq Ids(active)
    BY <1>1, PrefixOf
  <2> QED BY <1>0, <1>3, <2>1 DEF Kept, OnDisk
<1>6. PICK e \in ArchiveEntry : e = [number |-> nextArchive, size |-> activeSize]
  BY <1>1 DEF ArchiveEntry
<1>7. /\ known' = Append(known, e) /\ known' \in Seq(ArchiveEntry) /\ Len(known') = Len(known) + 1
      /\ \A i \in 1 .. Len(known) : known'[i] = known[i]
      /\ known'[Len(known) + 1] = e
  BY <1>0, <1>1, <1>6
<1>8. activeSize = SizeOf(active) /\ managed = activeSize + SizeOf(known) /\ managed \in Nat
      /\ maxTotal \in Nat
  BY <1>1 DEF SinkSums
<1>10. CallType' /\ Numbered'
  BY <1>0, KeepCallType, KeepNumbered
<1>11. DiskType'
  <2>1. active' \in Seq(Rec) /\ flushed' \in 0 .. Len(active')
    BY <1>0
  <2>2. archives' = [n \in DOMAIN archives' |-> archives'[n]]
    BY <1>0
  <2>3. \A n \in DOMAIN archives' : archives'[n] \in Seq(Rec)
    BY <1>1, <1>2 DEF DiskType
  <2> QED BY <1>0, <2>1, <2>2, <2>3 DEF DiskType
<1>12. SharedType'
  BY <1>0 DEF SharedType, Live
<1>13. OpenPhase'
  BY <1>0, <1>1 DEF OpenPhase
<1>14. WriterPhase'
  BY <1>0, <1>1 DEF WriterPhase, Live
<1>15. Catalogued'
  <2>1. /\ nextArchive' \in Nat /\ Len(known') < nextArchive'
        /\ DOMAIN archives' = nextArchive' - Len(known') .. nextArchive' - 1
    BY <1>0, <1>1, <1>2, <1>7
  <2>2. nextArchive - Len(known) \in Nat \ {0}
          /\ DOMAIN archives' = nextArchive - Len(known) .. nextArchive
    BY <1>1, <1>2
  <2>3. ASSUME NEW i \in 1 .. Len(known')
        PROVE  /\ known'[i].number = nextArchive' - Len(known') + i - 1
               /\ known'[i].size = SizeOf(archives'[known'[i].number])
    <3>1. CASE i = Len(known) + 1
      <4>1. known'[i] = e /\ e.number = nextArchive /\ e.size = activeSize
        BY <3>1, <1>6, <1>7
      <4>2. nextArchive' - Len(known') + i - 1 = nextArchive
        BY <3>1, <1>0, <1>1, <1>7
      <4> QED BY <4>1, <4>2, <1>2, <1>8
    <3>2. CASE i # Len(known) + 1
      <4>1. i \in 1 .. Len(known)
        BY <3>2, <1>1, <1>7
      <4>2. /\ known[i].number = nextArchive - Len(known) + i - 1
            /\ known[i].size = SizeOf(archives[known[i].number])
        BY <4>1, <1>1 DEF Catalogued
      <4>3. nextArchive' - Len(known') + i - 1 = nextArchive - Len(known) + i - 1
        BY <1>0, <1>1, <1>7
      <4>4. known[i].number \in DOMAIN archives
        BY <4>1, <4>2, <1>1
      <4> QED BY <4>1, <4>2, <4>3, <4>4, <1>2, <1>7
    <3> QED BY <3>1, <3>2
  <2> QED BY <1>1, <1>7, <2>1, <2>2, <2>3 DEF Catalogued
<1>16. Counted'
  BY <1>0 DEF Counted, Live
<1>17. Ordered'
  <2>1. Ascending(active')
    BY <1>0 DEF Ascending
  <2>2. \A n \in DOMAIN archives' : Ascending(archives'[n])
    BY <1>2 DEF Ordered
  <2>3. ASSUME NEW n \in DOMAIN archives', NEW m \in DOMAIN archives', n < m,
               NEW i \in Ids(archives'[n]), NEW j \in Ids(archives'[m])
        PROVE  i < j
    <3>1. n \in DOMAIN archives /\ archives'[n] = archives[n]
      BY <2>3, <1>1, <1>2
    <3>2. CASE m = nextArchive
      BY <3>1, <3>2, <1>2 DEF Ordered
    <3>3. CASE m # nextArchive
      BY <3>1, <3>3, <2>3, <1>2 DEF Ordered
    <3> QED BY <3>2, <3>3
  <2>4. \A i \in retired' \ cut', j \in ArchiveIds' \cup Ids(active') : i < j
    BY <1>0, <1>3 DEF Ordered
  <2> QED BY <1>3, <2>1, <2>2, <2>3, <2>4 DEF Ordered
<1>18. Frontier'
  BY <1>0, <1>4 DEF Frontier, Top
<1>19. Durable'
  BY <1>0, <1>5 DEF Durable
<1>20. WriterDurable'
  BY <1>0, <1>4 DEF WriterDurable
<1>21. SinkSums'
  <2>1. SizeOf(known') = SizeOf(known) + e.size /\ e.size = activeSize
    <3>1. \A x \in ArchiveEntry : x.size \in Nat BY DEF ArchiveEntry
    <3> QED BY <1>1, <1>6, <1>7, <3>1, SizeAppend
  <2>2. SizeOf(known) \in Nat
    <3>1. \A x \in ArchiveEntry : x.size \in Nat BY DEF ArchiveEntry
    <3> QED BY <1>1, <3>1, SizeType
  <2>3. managed = 0 + SizeOf(known')
    BY <1>1, <1>8, <2>1, <2>2
  <2> QED BY <1>0, <1>8, <2>3, SizeEmpty DEF SinkSums
<1>22. SinkBounded'
  BY <1>0 DEF SinkBounded, Live
<1>23. QueueSums'
  BY <1>0 DEF QueueSums
<1> QED
  BY <1>10, <1>11, <1>12, <1>13, <1>14, <1>15, <1>16, <1>17, <1>18, <1>19, <1>20, <1>21, <1>22,
     <1>23

\* The oldest archive goes.
LEMMA RemoveOldestStep ==
    ASSUME LogInv, Excess, RemoveOldest, opc # "none", UNCHANGED <<opc, wpc, pc, call>>
    PROVE  LogInv'
<1> USE DEF LogInv
<1>0. /\ archives' = [m \in DOMAIN archives \ {Head(known).number} |-> archives[m]]
      /\ retired' = retired \cup Ids(archives[Head(known).number])
      /\ managed' = managed - Head(known).size /\ known' = Tail(known)
      /\ UNCHANGED <<active, flushed, maxTotal, activeSize, nextArchive>>
      /\ UNCHANGED <<batch, written, done, acked, cut, reported, opc, wpc, pc, call>>
      /\ UNCHANGED <<state, stopping, queue, pendingRecords, pendingBytes, nextSeq, flushedSeq,
         epoch>>
  BY DEF RemoveOldest
<1>1. /\ known \in Seq(ArchiveEntry) /\ nextArchive \in Nat /\ Len(known) < nextArchive
      /\ DOMAIN archives = nextArchive - Len(known) .. nextArchive - 1
      /\ \A i \in 1 .. Len(known) :
           /\ known[i].number = nextArchive - Len(known) + i - 1
           /\ known[i].size = SizeOf(archives[known[i].number])
      /\ known # <<>>
  BY DEF Catalogued, Excess
<1>2. PICK e \in ArchiveEntry : e = Head(known)
  BY <1>1
<1>3. /\ known[1] = e /\ Len(known) \in Nat \ {0}
      /\ known' \in Seq(ArchiveEntry) /\ Len(known') = Len(known) - 1
      /\ \A i \in 1 .. Len(known') : known'[i] = known[i + 1]
  BY <1>0, <1>1, <1>2
<1>20. Len(known) \in Nat \ {0} /\ nextArchive \in Nat /\ Len(known) < nextArchive
       /\ Len(known') = Len(known) - 1
  BY <1>1, <1>3
<1>4. PICK lo \in Nat \ {0} : lo = nextArchive - Len(known)
  BY <1>20
<1>5. e.number = lo /\ e.size = SizeOf(archives[lo])
  <2>1. known[1].number = nextArchive - Len(known) + 1 - 1 BY <1>1, <1>3
  <2>2. known[1].size = SizeOf(archives[known[1].number]) BY <1>1, <1>3
  <2> QED BY <1>3, <1>4, <2>1, <2>2
<1>6. /\ DOMAIN archives = lo .. nextArchive - 1 /\ lo \in DOMAIN archives
      /\ DOMAIN archives' = lo + 1 .. nextArchive - 1
      /\ \A n \in DOMAIN archives' : n \in DOMAIN archives /\ archives'[n] = archives[n] /\ lo < n
      /\ DOMAIN archives = DOMAIN archives' \cup {lo}
  <2>1. archives' = [m \in DOMAIN archives \ {lo} |-> archives[m]] BY <1>0, <1>2, <1>5
  <2>2. DOMAIN archives = lo .. nextArchive - 1 BY <1>1, <1>4
  <2>3. lo <= nextArchive - 1 BY <1>4, <1>20
  <2> QED BY <1>4, <1>20, <2>1, <2>2, <2>3
<1>7. retired' = retired \cup Ids(archives[lo])
  BY <1>0, <1>2, <1>5
<1>8. ArchiveIds = ArchiveIds' \cup Ids(archives[lo]) /\ Ids(active)' = Ids(active)
  <2>1. ArchiveIds' = UNION {Ids(archives'[n]) : n \in DOMAIN archives'} BY DEF ArchiveIds, Ids
  <2>2. \A x : x \in ArchiveIds <=> x \in ArchiveIds' \cup Ids(archives[lo])
    BY <1>6, <2>1 DEF ArchiveIds
  <2>3. Ids(active)' = Ids(active) BY <1>0 DEF Ids
  <2> QED BY <2>2, <2>3
<1>9. Stored' = Stored /\ Kept' = Kept
  <2>1. SubSeq(active, 1, flushed)' = SubSeq(active, 1, flushed) BY <1>0
  <2>2. Ids(SubSeq(active, 1, flushed))' = Ids(SubSeq(active, 1, flushed)) BY <2>1 DEF Ids
  <2>3. OnDisk' = ArchiveIds' \cup Ids(SubSeq(active, 1, flushed))
    BY <2>2, Zenon DEF OnDisk
  <2>4. Kept' = Kept BY <1>7, <1>8, <2>3 DEF Kept, OnDisk
  <2>5. Stored' = Stored BY <1>7, <1>8 DEF Stored
  <2> QED BY <2>4, <2>5
<1>10. CallType' /\ SharedType' /\ OpenPhase' /\ WriterPhase' /\ Numbered' /\ Counted' /\ QueueSums'
  BY <1>0, KeepCallType, KeepSharedType, KeepOpenPhase, KeepWriterPhase, KeepNumbered,
     KeepCounted, KeepQueueSums
<1>11. DiskType'
  <2>1. archives' = [n \in DOMAIN archives' |-> archives'[n]] BY <1>0
  <2>2. \A n \in DOMAIN archives' : archives'[n] \in Seq(Rec) BY <1>6 DEF DiskType
  <2>3. Ids(archives[lo]) \subseteq Nat
    <3>1. archives[lo] \in Seq(Rec) BY <1>6 DEF DiskType
    <3> QED BY <3>1, IdsType
  <2> QED BY <1>0, <1>7, <2>1, <2>2, <2>3 DEF DiskType
<1>12. Catalogued'
  <2>1. lo + 1 = nextArchive' - Len(known') /\ nextArchive' = nextArchive
        /\ Len(known') < nextArchive'
    <3>1. nextArchive' = nextArchive BY <1>0
    <3> QED BY <1>4, <1>20, <3>1
  <2>2. lo + 1 \in Nat \ {0} /\ nextArchive - 1 \in Nat
    BY <1>1, <1>3, <1>4
  <2>3. ASSUME NEW i \in 1 .. Len(known')
        PROVE  /\ known'[i].number = nextArchive' - Len(known') + i - 1
               /\ known'[i].size = SizeOf(archives'[known'[i].number])
    <3>1. i + 1 \in 1 .. Len(known) /\ known'[i] = known[i + 1]
      BY <1>3
    <3>2. /\ known[i + 1].number = nextArchive - Len(known) + (i + 1) - 1
          /\ known[i + 1].size = SizeOf(archives[known[i + 1].number])
      BY <1>1, <3>1
    <3>3. nextArchive - Len(known) + (i + 1) - 1 = nextArchive' - Len(known') + i - 1
          /\ nextArchive - Len(known) + (i + 1) - 1 \in lo + 1 .. nextArchive - 1
      BY <1>1, <1>3, <1>4, <2>1, <3>1
    <3> QED BY <1>6, <3>1, <3>2, <3>3
  <2>4. DOMAIN archives' = nextArchive' - Len(known') .. nextArchive' - 1
    BY <1>6, <2>1
  <2> QED BY <1>0, <1>1, <1>3, <1>6, <2>1, <2>2, <2>3, <2>4 DEF Catalogued
<1>13. Ordered'
  <2>1. \A n \in DOMAIN archives' : Ids(archives'[n]) = Ids(archives[n])
    BY <1>6
  <2>2. Ascending(active') /\ \A n \in DOMAIN archives' : Ascending(archives'[n])
    BY <1>0, <1>6 DEF Ordered
  <2>3. Ids(active') = Ids(active)
    BY <1>0
  <2>4. \A n \in DOMAIN archives' : \A i \in Ids(archives'[n]), j \in Ids(active') : i < j
    BY <1>6, <2>1, <2>3 DEF Ordered
  <2>5. \A n, m \in DOMAIN archives' : n < m =>
          \A i \in Ids(archives'[n]), j \in Ids(archives'[m]) : i < j
    BY <1>6, <2>1 DEF Ordered
  <2>6. \A i \in Ids(archives[lo]), j \in ArchiveIds' \cup Ids(active') : i < j
    <3>1. \A j \in ArchiveIds' : \E n \in DOMAIN archives' : j \in Ids(archives[n])
      BY <2>1 DEF ArchiveIds
    <3> QED BY <1>6, <2>3, <3>1 DEF Ordered
  <2>7. \A i \in retired' \ cut', j \in ArchiveIds' \cup Ids(active') : i < j
    BY <1>0, <1>7, <1>8, <2>3, <2>6 DEF Ordered
  <2>8. \A i \in cut', j \in Ids(active') : i < j
    BY <1>0, <2>3 DEF Ordered
  <2> QED BY <2>2, <2>4, <2>5, <2>7, <2>8 DEF Ordered
<1>14. Frontier'
  BY <1>0, <1>9 DEF Frontier, Top
<1>15. Durable'
  BY <1>0, <1>9 DEF Durable
<1>16. WriterDurable'
  BY <1>0, <1>9 DEF WriterDurable
<1>17. SinkSums'
  <2>1. SizeOf(known) = e.size + SizeOf(known')
    <3>1. \A x \in ArchiveEntry : x.size \in Nat BY DEF ArchiveEntry
    <3> QED BY <1>0, <1>1, <1>2, <3>1, SizeTail
  <2>2. SizeOf(known') \in Nat /\ e.size \in Nat
    <3>1. \A x \in ArchiveEntry : x.size \in Nat BY DEF ArchiveEntry
    <3> QED BY <1>3, <3>1, SizeType
  <2>3. maxTotal \in Nat /\ managed \in Nat /\ activeSize \in Nat
        /\ activeSize = SizeOf(active) /\ managed = activeSize + SizeOf(known)
    BY DEF SinkSums
  <2>4. managed' = managed - e.size
    BY <1>0, <1>2
  <2>5. managed' \in Nat /\ managed' = activeSize + SizeOf(known')
    BY <2>1, <2>2, <2>3, <2>4
  <2> QED BY <1>0, <2>3, <2>5 DEF SinkSums
<1>18. SinkBounded'
  <2>1. managed > maxTotal /\ maxTotal \in Nat /\ managed \in Nat BY DEF Excess, SinkSums
  <2> QED BY <1>0, <2>1 DEF SinkBounded
<1> QED
  BY <1>10, <1>11, <1>12, <1>13, <1>14, <1>15, <1>16, <1>17, <1>18

LEMMA PruneOneStep ==
    ASSUME LogInv, PruneOne
    PROVE  LogInv'
<1>1. opc # "none"
  BY DEF PruneOne, LogInv, OpenPhase
<1> QED BY <1>1, RemoveOldestStep DEF PruneOne, WriterAt

LEMMA OpenPrunesStep ==
    ASSUME LogInv, OpenPrunes
    PROVE  LogInv'
BY RemoveOldestStep DEF OpenPrunes, OpenAt

-----------------------------------------------------------------------------
(* Opening and closing *)

LEMMA OpenScansStep ==
    ASSUME LogInv, NEW total \in Totals, OpenScans(total)
    PROVE  LogInv'
<1> USE DEF LogInv
<1>0. /\ opc = "none" /\ maxTotal' = total
      /\ activeSize' = SizeOf(active) /\ managed' = SizeOf(active) + SizeOf(SortedArchives)
      /\ known' = SortedArchives /\ nextArchive' = 1 + Max(DOMAIN archives \cup {0})
      /\ state' = "Closed" /\ stopping' = FALSE /\ queue' = <<>>
      /\ pendingRecords' = 0 /\ pendingBytes' = 0
      /\ nextSeq' = 1 /\ flushedSeq' = 0 /\ epoch' = epoch + nextSeq - 1
      /\ reported' = FALSE /\ wpc' = "none" /\ opc' = "compact"
      /\ UNCHANGED <<active, flushed, archives, batch, written, done, pc, call, acked, retired,
         cut>>
  BY DEF OpenScans, LockFree, ScannedSize
<1>1. queue = <<>> /\ batch = <<>> /\ done = NoBatch /\ flushed = Len(active)
  BY <1>0 DEF OpenPhase
<1>2. PICK lo \in Nat \ {0}, hi \in Nat : DOMAIN archives = lo .. hi
  BY DEF Catalogued
<1>3. /\ known' \in Seq(ArchiveEntry) /\ Len(known') = (IF lo > hi THEN 0 ELSE hi - lo + 1)
      /\ \A i \in 1 .. Len(known') :
           /\ known'[i].number = lo + i - 1
           /\ known'[i].size = SizeOf(archives[lo + i - 1])
      /\ nextArchive' = 1 + (IF lo > hi THEN 0 ELSE hi)
  <2>1. \A n \in DOMAIN archives : archives[n] \in Seq(Rec) BY DEF DiskType
  <2> QED BY <1>0, <1>2, <2>1, ScanSorts
<1>4. epoch \in Nat /\ nextSeq \in Nat \ {0} /\ flushedSeq \in Nat /\ flushedSeq <= nextSeq - 1
  BY <1>1 DEF SharedType, Numbered
<1>5. Top' = Top /\ Top = epoch' /\ Top \in Nat
  BY <1>0, <1>4 DEF Top
<1>6. Stored' = Stored /\ Kept' = Kept
  BY <1>0, KeepKept
<1>10. DiskType' /\ CallType' /\ Ordered'
  BY <1>0, KeepDiskType, KeepCallType, KeepOrdered
<1>11. SharedType'
  <2>1. queue' \in Seq(Rec) /\ batch' \in Seq(Rec) BY <1>0 DEF SharedType
  <2>2. nextSeq' \in Nat \ {0} /\ flushedSeq' \in Nat /\ epoch' \in Nat
    BY <1>0, <1>5
  <2> QED BY <1>0, <2>1, <2>2 DEF SharedType, OpenStepName
<1>12. OpenPhase' /\ WriterPhase' /\ Counted' /\ SinkBounded'
  BY <1>0, <1>1 DEF OpenPhase, WriterPhase, Counted, SinkBounded, NoBatch
<1>13. Catalogued'
  <2>1. Len(known') \in Nat /\ nextArchive' \in Nat /\ Len(known') < nextArchive'
        /\ (Len(known') # 0 => nextArchive' - Len(known') = lo /\ nextArchive' - 1 = hi /\ lo <= hi)
        /\ (Len(known') = 0 => nextArchive' = 1 /\ lo > hi)
    <3>1. Len(known') = (IF lo > hi THEN 0 ELSE hi - lo + 1)
              /\ nextArchive' = 1 + (IF lo > hi THEN 0 ELSE hi)
      BY <1>3
    <3> QED BY <1>2, <3>1
  <2>2. DOMAIN archives' = nextArchive' - Len(known') .. nextArchive' - 1
    <3>1. DOMAIN archives' = lo .. hi BY <1>0, <1>2
    <3>2. CASE Len(known') # 0
      <4>1. nextArchive' - Len(known') = lo /\ nextArchive' - 1 = hi BY <2>1, <3>2
      <4> QED BY <3>1, <4>1
    <3>3. CASE Len(known') = 0
      <4>1. nextArchive' - Len(known') = 1 /\ nextArchive' - 1 = 0 /\ lo > hi BY <2>1, <3>3
      <4>2. lo .. hi = {} /\ 1 .. 0 = {} BY <1>2, <4>1
      <4> QED BY <3>1, <4>1, <4>2
    <3> QED BY <3>2, <3>3
  <2>3. ASSUME NEW i \in 1 .. Len(known')
        PROVE  /\ known'[i].number = nextArchive' - Len(known') + i - 1
               /\ known'[i].size = SizeOf(archives'[known'[i].number])
    <3>1. known'[i].number = lo + i - 1 /\ known'[i].size = SizeOf(archives[lo + i - 1])
      BY <1>3
    <3>2. nextArchive' - Len(known') + i - 1 = lo + i - 1
      <4>1. Len(known') # 0 BY <2>1
      <4>2. nextArchive' - Len(known') = lo BY <2>1, <4>1
      <4> QED BY <4>2
    <3> QED BY <1>0, <3>1, <3>2
  <2>4. \E a \in Nat \ {0}, b \in Nat : DOMAIN archives' = a .. b
    BY <1>0, <1>2
  <2> QED BY <1>0, <1>3, <2>1, <2>2, <2>3, <2>4 DEF Catalogued
<1>14. Numbered'
  BY <1>0, <1>1 DEF Numbered
<1>15. Frontier'
  <2>1. \A i \in Stored \cup cut : i <= Top - Len(queue) BY DEF Frontier
  <2> QED BY <1>0, <1>1, <1>5, <1>6, <2>1 DEF Frontier
<1>16. Durable'
  <2>1. \A i \in acked : i \in Nat /\ i <= epoch + flushedSeq BY DEF Durable, DiskType
  <2>2. \A i \in acked : i <= epoch' + flushedSeq' BY <1>0, <1>4, <2>1
  <2>3. epoch' + 1 .. epoch' + flushedSeq' = {} BY <1>0, <1>5
  <2> QED BY <1>0, <1>6, <2>2, <2>3 DEF Durable
<1>17. WriterDurable'
  BY <1>0 DEF WriterDurable
<1>18. SinkSums'
  <2>1. \A e \in Rec : e.size \in Nat BY DEF Rec
  <2>2. \A e \in ArchiveEntry : e.size \in Nat BY DEF ArchiveEntry
  <2>3. SizeOf(active) \in Nat
    <3>1. active \in Seq(Rec) BY DEF DiskType
    <3> QED BY <2>1, <3>1, SizeType
  <2>4. SizeOf(known') \in Nat BY <1>3, <2>2, SizeType
  <2>5. total \in Nat BY LoggerAssumption
  <2> QED BY <1>0, <2>3, <2>4, <2>5 DEF SinkSums
<1>19. QueueSums'
  BY <1>0, <1>1, SizeEmpty, LoggerAssumption DEF QueueSums, NoBatch
<1> QED
  BY <1>10, <1>11, <1>12, <1>13, <1>14, <1>15, <1>16, <1>17, <1>18, <1>19

LEMMA CompactReplaceStep ==
    ASSUME LogInv, CompactReplace
    PROVE  LogInv'
<1> USE DEF LogInv
<1>0. /\ opc = "replace" /\ active' = TailWithin(active, maxTotal) /\ flushed' = Len(active')
      /\ cut' = cut \cup (Ids(active) \ Ids(active')) /\ retired' = retired \cup cut'
      /\ activeSize' = SizeOf(active')
      /\ managed' = managed - (activeSize - SizeOf(active')) /\ opc' = "prune"
      /\ UNCHANGED <<archives, maxTotal, known, nextArchive, wpc, acked, reported>>
      /\ UNCHANGED <<batch, written, done, pc, call>>
      /\ UNCHANGED <<state, stopping, queue, pendingRecords, pendingBytes, nextSeq, flushedSeq,
         epoch>>
  BY DEF CompactReplace, OpenAt
<1>1. active \in Seq(Rec) /\ flushed = Len(active) /\ wpc = "none" /\ batch = <<>>
      /\ maxTotal \in Nat
      /\ queue = <<>>
  BY <1>0 DEF DiskType, OpenPhase, SinkSums
<1>2. PICK k \in 1 .. Len(active) + 1 : active' = SubSeq(active, k, Len(active))
  BY <1>0, <1>1, TailKept
<1>3. /\ active' \in Seq(Rec) /\ Len(active') = Len(active) - k + 1
      /\ \A i \in 1 .. Len(active') : active'[i] = active[i + k - 1]
  BY <1>1, <1>2
<1>4. Len(active) \in Nat /\ Len(active') \in Nat /\ Len(active') = Len(active) - k + 1 /\ k \in Nat
  BY <1>1, <1>3
<1>5. \A i \in 1 .. Len(active') : i + k - 1 \in 1 .. Len(active)
  BY <1>2, <1>4
<1>6. Ids(active') \subseteq Ids(active)
  BY <1>1, <1>3, <1>5 DEF Ids
<1>7. Ascending(active')
  <2> SUFFICES ASSUME NEW i \in 1 .. Len(active'), NEW j \in 1 .. Len(active'), i < j
               PROVE  active'[i].id < active'[j].id
    BY <1>3 DEF Ascending
  <2>1. i + k - 1 < j + k - 1 BY <1>4
  <2>2. active[i + k - 1].id < active[j + k - 1].id BY <1>1, <1>5, <2>1, SMTT(60) DEF Ordered,
          Ascending
  <2> QED BY <1>3, <2>2
<1>8. \A i \in Ids(active) \ Ids(active'), j \in Ids(active') : i < j
  <2> SUFFICES ASSUME NEW i \in Ids(active) \ Ids(active'), NEW j \in Ids(active')
               PROVE  i < j
    OBVIOUS
  <2>1. PICK m \in 1 .. Len(active) : i = active[m].id BY <1>1 DEF Ids
  <2>2. PICK n \in 1 .. Len(active') : j = active'[n].id BY <1>3 DEF Ids
  <2>3. m < k
    <3> SUFFICES ASSUME m >= k PROVE FALSE BY <1>4
    <3>1. m - k + 1 \in 1 .. Len(active') /\ (m - k + 1) + k - 1 = m BY <1>4
    <3>2. active'[m - k + 1] = active[m] BY <1>3, <3>1
    <3> QED BY <1>3, <2>1, <3>1, <3>2 DEF Ids
  <2>4. m < n + k - 1 BY <1>4, <2>3
  <2>6. n + k - 1 \in 1 .. Len(active) BY <1>5
  <2>5. active[m].id < active[n + k - 1].id BY <1>1, <2>4, <2>6 DEF Ordered, Ascending
  <2> QED BY <1>3, <2>1, <2>2, <2>5
<1>9. /\ ArchiveIds' = ArchiveIds /\ Ids(active)' = Ids(active')
      /\ Stored' = Stored \cup cut /\ Stored' = Kept' /\ Kept \subseteq Stored
  <2>1. ArchiveIds' = ArchiveIds /\ Ids(active)' = Ids(active') BY <1>0 DEF ArchiveIds, Ids
  <2>2. Stored' = Stored \cup cut BY <1>0, <1>6, <2>1 DEF Stored
  <2>3. SubSeq(active', 1, flushed') = active' BY <1>0, <1>3
  <2>4. Ids(SubSeq(active, 1, flushed))' = Ids(active') BY <2>3 DEF Ids
  <2>5. Stored' = Kept' BY <2>1, <2>4, Zenon DEF Stored, Kept, OnDisk
  <2>6. SubSeq(active, 1, flushed) = active BY <1>1
  <2>7. Kept \subseteq Stored BY <2>6 DEF Stored, Kept, OnDisk
  <2> QED BY <2>1, <2>2, <2>5, <2>7
<1>10. CallType' /\ Numbered'
  BY <1>0, KeepCallType, KeepNumbered
<1>11. DiskType'
  <2>1. Ids(active) \subseteq Nat BY <1>1, IdsType
  <2> QED BY <1>0, <1>3, <2>1 DEF DiskType
<1>12. SharedType'
  BY <1>0 DEF SharedType, OpenStepName
<1>13. OpenPhase' /\ WriterPhase' /\ Counted' /\ SinkBounded'
  BY <1>0 DEF OpenPhase, WriterPhase, Counted, SinkBounded, NoBatch
<1>14. Catalogued'
  BY <1>0 DEF Catalogued
<1>15. Ordered'
  <2>1. \A n \in DOMAIN archives' : Ids(archives'[n]) = Ids(archives[n]) /\ Ascending(archives'[n])
    BY <1>0 DEF Ordered
  <2>2. \A n \in DOMAIN archives' : \A i \in Ids(archives'[n]), j \in Ids(active') : i < j
    BY <1>0, <1>6 DEF Ordered
  <2>3. \A n, m \in DOMAIN archives' : n < m =>
          \A i \in Ids(archives'[n]), j \in Ids(archives'[m]) : i < j
    BY <1>0 DEF Ordered
  <2>4. \A i \in retired' \ cut', j \in ArchiveIds' \cup Ids(active') : i < j
    BY <1>0, <1>6, <1>9 DEF Ordered
  <2>5. \A i \in cut', j \in Ids(active') : i < j
    BY <1>0, <1>6, <1>8 DEF Ordered
  <2> QED BY <1>7, <2>1, <2>2, <2>3, <2>4, <2>5 DEF Ordered
<1>16. Frontier'
  <2>1. Stored' \cup cut' = Stored \cup cut
    <3>1. Ids(active) \subseteq Stored BY DEF Stored
    <3> QED BY <1>0, <1>9, <3>1
  <2> QED BY <1>0, <1>1, <2>1 DEF Frontier, Top
<1>17. Durable'
  BY <1>0, <1>9 DEF Durable
<1>18. WriterDurable'
  BY <1>0, <1>1 DEF WriterDurable
<1>19. SinkSums'
  <2>1. SizeOf(active') \in Nat
    <3>1. \A e \in Rec : e.size \in Nat BY DEF Rec
    <3> QED BY <1>3, <3>1, SizeType
  <2>2. SizeOf(known) \in Nat
    <3>1. \A e \in ArchiveEntry : e.size \in Nat BY DEF ArchiveEntry
    <3>2. known \in Seq(ArchiveEntry) BY <1>0 DEF Catalogued
    <3> QED BY <3>1, <3>2, SizeType
  <2>3. managed \in Nat /\ activeSize \in Nat /\ managed = activeSize + SizeOf(known)
    BY <1>0 DEF SinkSums
  <2>4. managed' = SizeOf(active') + SizeOf(known) /\ managed' \in Nat
    BY <1>0, <2>1, <2>2, <2>3
  <2> QED BY <1>0, <1>1, <2>1, <2>4 DEF SinkSums
<1>20. QueueSums'
  BY <1>0 DEF QueueSums
<1> QED
  BY <1>10, <1>11, <1>12, <1>13, <1>14, <1>15, <1>16, <1>17, <1>18, <1>19, <1>20

LEMMA CloseStep ==
    ASSUME LogInv, Close
    PROVE  LogInv'
<1> USE DEF LogInv
<1>0. /\ opc = "destroy" /\ wpc = "exited" /\ opc' = "none"
      /\ maxTotal' = 1 /\ activeSize' = 0 /\ managed' = 0
      /\ UNCHANGED <<archives, wpc, acked, retired, cut, reported, batch, written, done, pc, call>>
      /\ UNCHANGED <<state, stopping, queue, pendingRecords, pendingBytes, nextSeq, flushedSeq,
         epoch>>
  BY DEF Close, SinkGone, OpenAt
<1>1. PICK n \in flushed .. Len(active) : flushed' = n /\ active' = SubSeq(active, 1, n)
  BY DEF Close
<1>2. /\ DiskType' /\ Ordered' /\ flushed' = Len(active')
      /\ Kept \subseteq Kept' /\ Stored' \subseteq Stored
  BY <1>0, <1>1, Truncated
<1>10. CallType' /\ Numbered' /\ QueueSums'
  BY <1>0, KeepCallType, KeepNumbered, KeepQueueSums
<1>11. SharedType'
  BY <1>0 DEF SharedType, OpenStepName
<1>12. OpenPhase'
  BY <1>0, <1>2 DEF OpenPhase, WriterPhase
<1>13. WriterPhase' /\ Counted' /\ SinkBounded' /\ SinkSums'
  BY <1>0 DEF WriterPhase, Counted, SinkBounded, SinkSums
<1>14. Catalogued'
  BY <1>0 DEF Catalogued
<1>15. Frontier'
  BY <1>0, <1>2 DEF Frontier, Top
<1>16. Durable'
  BY <1>0, <1>2 DEF Durable
<1>17. WriterDurable'
  BY <1>0 DEF WriterDurable
<1> QED
  BY <1>2, <1>10, <1>11, <1>12, <1>13, <1>14, <1>15, <1>16, <1>17

LEMMA CrashStep ==
    ASSUME LogInv, Crash
    PROVE  LogInv'
<1> USE DEF LogInv
<1>0. /\ state' = "Closed" /\ stopping' = FALSE /\ queue' = <<>>
      /\ pendingRecords' = 0 /\ pendingBytes' = 0
      /\ wpc' = "none" /\ batch' = <<>> /\ written' = 0 /\ opc' = "none"
      /\ done' = NoBatch /\ maxTotal' = 1 /\ activeSize' = 0 /\ managed' = 0
      /\ nextSeq' = 1 /\ flushedSeq' = 0 /\ epoch' = epoch + nextSeq - 1
      /\ pc' = [t \in Thread |-> "idle"] /\ call' = [t \in Thread |-> NoCall]
      /\ reported' = FALSE /\ UNCHANGED <<archives, acked, retired, cut>>
  BY DEF Crash, SinkGone
<1>1. PICK n \in flushed .. Len(active) : flushed' = n /\ active' = SubSeq(active, 1, n)
  BY DEF Crash
<1>2. /\ DiskType' /\ Ordered' /\ flushed' = Len(active')
      /\ Kept \subseteq Kept' /\ Stored' \subseteq Stored
  BY <1>0, <1>1, Truncated
<1>3. epoch \in Nat /\ nextSeq \in Nat \ {0} /\ flushedSeq \in Nat /\ flushedSeq <= nextSeq - 1
      /\ Len(queue) \in Nat
  <2>1. epoch \in Nat /\ nextSeq \in Nat \ {0} /\ flushedSeq \in Nat BY DEF SharedType
  <2>2. Len(queue) \in Nat /\ Len(batch) \in Nat BY DEF SharedType
  <2>3. flushedSeq + Len(queue) + Len(batch) <= nextSeq - 1 BY DEF Numbered
  <2> QED BY <2>1, <2>2, <2>3
<1>4. Top' = Top /\ Top = epoch' /\ Top \in Nat
  BY <1>0, <1>3 DEF Top
<1>11. SharedType'
  <2>1. queue' \in Seq(Rec) /\ batch' \in Seq(Rec) BY <1>0
  <2>2. done' \in [count : Nat, bytes : Nat, last : Nat] BY <1>0 DEF NoBatch
  <2>3. nextSeq' \in Nat \ {0} /\ flushedSeq' \in Nat /\ epoch' \in Nat /\ written' \in Nat
    BY <1>0, <1>4
  <2> QED BY <1>0, <2>1, <2>2, <2>3 DEF SharedType, OpenStepName
<1>12. OpenPhase' /\ WriterPhase' /\ Counted' /\ SinkBounded' /\ SinkSums'
  BY <1>0, <1>2 DEF OpenPhase, WriterPhase, Counted, SinkBounded, SinkSums
<1>13. CallType'
  BY <1>0 DEF CallType, CallStepName, Call, NoCall
<1>14. Catalogued'
  BY <1>0 DEF Catalogued
<1>15. Numbered'
  BY <1>0 DEF Numbered
<1>16. Frontier'
  <2>1. \A i \in Stored \cup cut : i \in Nat /\ i <= Top - Len(queue)
    BY StoredType DEF Frontier
  <2>2. \A i \in Stored \cup cut : i <= Top BY <1>3, <1>4, <2>1
  <2> QED BY <1>0, <1>2, <1>4, <2>2 DEF Frontier
<1>17. Durable'
  <2>1. \A i \in acked : i \in Nat /\ i <= epoch + flushedSeq BY DEF Durable, DiskType
  <2>2. \A i \in acked : i <= epoch' + flushedSeq' BY <1>0, <1>3, <2>1
  <2>3. epoch' + 1 .. epoch' + flushedSeq' = {} BY <1>0, <1>4
  <2> QED BY <1>0, <1>2, <2>2, <2>3 DEF Durable
<1>18. WriterDurable'
  BY <1>0 DEF WriterDurable
<1>19. QueueSums'
  BY <1>0, SizeEmpty, LoggerAssumption DEF QueueSums, NoBatch
<1> QED
  BY <1>2, <1>11, <1>12, <1>13, <1>14, <1>15, <1>16, <1>17, <1>18, <1>19

-----------------------------------------------------------------------------
(* The invariant *)

LEMMA LogInit == Init => LogInv
<1> SUFFICES ASSUME Init PROVE LogInv
  OBVIOUS
<1>0. /\ wpc = "none" /\ opc = "none" /\ state = "Closed" /\ stopping = FALSE /\ reported = FALSE
      /\ nextSeq = 1 /\ flushedSeq = 0 /\ epoch = 0 /\ written = 0 /\ queue = <<>> /\ batch = <<>>
      /\ done = NoBatch
  BY DEF Init
<1>1. Ids(<<>>) = {} /\ ArchiveIds = {} /\ Stored = {}
  <2>1. ArchiveIds = {} BY DEF ArchiveIds, Init
  <2> QED BY <2>1, IdsEmpty DEF Stored, Init
<1>2. DiskType /\ SharedType /\ CallType
  <2>1. active \in Seq(Rec) /\ Len(active) = 0 /\ DOMAIN archives = {}
        /\ archives = [n \in DOMAIN archives |-> archives[n]]
    BY DEF Init
  <2>2. DiskType BY <2>1 DEF DiskType, Init
  <2>3. queue \in Seq(Rec) /\ batch \in Seq(Rec) BY DEF Init
  <2>4. done \in [count : Nat, bytes : Nat, last : Nat] BY DEF NoBatch, Init
  <2>7. nextSeq \in Nat \ {0} /\ flushedSeq \in Nat /\ epoch \in Nat /\ written \in Nat BY <1>0
  <2>8. stopping \in BOOLEAN /\ reported \in BOOLEAN BY <1>0
  <2>9. /\ state \in {"Closed", "Running", "Failed", "Stopped"} /\ opc \in OpenStepName
        /\ wpc \in Live \cup {"none", "report", "exited"}
    BY <1>0 DEF OpenStepName
  <2>5. SharedType BY <2>3, <2>4, <2>7, <2>8, <2>9 DEF SharedType
  <2>6. CallType BY DEF CallType, CallStepName, Call, NoCall, Init
  <2> QED BY <2>2, <2>5, <2>6
<1>3. OpenPhase /\ WriterPhase /\ Counted /\ SinkBounded /\ SinkSums
  BY DEF OpenPhase, WriterPhase, Counted, SinkBounded, SinkSums, Init
<1>4. Catalogued
  <2>1. DOMAIN archives = 1 .. 0 BY DEF Init
  <2> QED BY <2>1 DEF Catalogued, Init
<1>5. Numbered /\ WriterDurable
  BY DEF Numbered, WriterDurable, Init
<1>6. Ordered /\ Frontier
  BY <1>1 DEF Ordered, Frontier, Ascending, Top, Init
<1>7. Durable
  BY DEF Durable, Init
<1>8. QueueSums
  BY SizeEmpty, LoggerAssumption DEF QueueSums, NoBatch, Init
<1> QED BY <1>2, <1>3, <1>4, <1>5, <1>6, <1>7, <1>8 DEF LogInv

LEMMA LogNext == LogInv /\ [Next]_vars => LogInv'
<1> SUFFICES ASSUME LogInv, [Next]_vars PROVE LogInv'
  OBVIOUS
<1>1. ASSUME NEW t \in Thread, NEW size \in Sizes, NEW level \in Level, Log(t, size, level)
      PROVE  LogInv'
  BY <1>1, LogStep
<1>2. ASSUME NEW t \in Thread, Drain(t) \/ CallStep(t) PROVE LogInv'
  BY <1>2, DrainStep, LogRefusedStep, BackpressureStep, EnqueueStep, FlushWaitStep,
     FlushAnswerStep DEF CallStep
<1>3. CASE WriterStep
  BY <1>3, WriterChecksStep, TakeBatchStep, WriteTooLargeStep, WriteRecordStep, RotateFlushStep,
     RotateRenameStep, PruneOneStep, PruneEndsStep, FlushBatchStep, FinishBatchStep,
     NotifyWaitersStep, SinkFailsStep, WriterFailsStep, ReportFailureStep, WriterStopsStep
     DEF WriterStep
<1>4. CASE OpenStep
  BY <1>4, CompactNothingStep, CompactCopyStep, CompactReplaceStep, OpenPrunesStep, OpenEndsStep,
     OpenFailsStep, CloseStep DEF OpenStep
<1>5. ASSUME NEW total \in Totals, OpenScans(total) PROVE LogInv'
  BY <1>5, OpenScansStep
<1>6. CASE Destroy \/ Crash
  BY <1>6, DestroyStep, CrashStep
<1>7. CASE UNCHANGED vars
  BY <1>7, KeepDiskType, KeepSharedType, KeepCallType, KeepOpenPhase, KeepWriterPhase,
     KeepCatalogued, KeepNumbered, KeepCounted, KeepOrdered, KeepFrontier, KeepDurable,
     KeepWriterDurable, KeepSinkSums, KeepSinkBounded, KeepQueueSums DEF vars, LogInv
<1> QED BY <1>1, <1>2, <1>3, <1>4, <1>5, <1>6, <1>7 DEF Next

\* Every state of a logger, its opening and its restarts satisfies the
\* invariant from which the properties below follow (Logger, FileLogSink).
THEOREM LoggerInvariant == Spec => []LogInv
BY LogInit, LogNext, PTL DEF Spec

-----------------------------------------------------------------------------
(* What follows from it *)

LEMMA LogInvDurable == LogInv => AcknowledgedDurable
<1> SUFFICES ASSUME LogInv PROVE AcknowledgedDurable
  OBVIOUS
<1> USE DEF LogInv
<1>1. acked \subseteq OnDisk \cup retired
  BY DEF Durable, Kept
<1>2. /\ epoch \in Nat /\ nextSeq \in Nat \ {0} /\ flushedSeq \in Nat
      /\ Len(queue) \in Nat /\ Len(batch) \in Nat
      /\ flushedSeq + Len(queue) + Len(batch) <= nextSeq - 1
  <2>1. queue \in Seq(Rec) /\ batch \in Seq(Rec) BY DEF SharedType
  <2> QED BY <2>1 DEF SharedType, Numbered
<1>3. ASSUME NEW i \in 1 .. Len(queue)
      PROVE  queue[i].id > epoch + flushedSeq
  <2>1. queue[i].id = Top - Len(queue) + i BY DEF Numbered
  <2>2. Top = epoch + nextSeq - 1 BY DEF Top
  <2> HIDE DEF LogInv
  <2> QED BY <1>2, <2>1, <2>2
<1>4. ASSUME NEW i \in 1 .. Len(batch)
      PROVE  batch[i].id > epoch + flushedSeq
  <2>1. batch[i].id = Top - Len(queue) - Len(batch) + i BY DEF Numbered
  <2>2. Top = epoch + nextSeq - 1 BY DEF Top
  <2> HIDE DEF LogInv
  <2> QED BY <1>2, <2>1, <2>2
<1>5. \A j \in Ids(queue) \cup Ids(batch) : j > epoch + flushedSeq
  <2>1. queue \in Seq(Rec) /\ batch \in Seq(Rec) BY DEF SharedType
  <2> QED BY <1>3, <1>4, <2>1 DEF Ids
<1>6. \A i \in acked : i \in Nat /\ i <= epoch + flushedSeq
  BY DEF Durable, DiskType
<1>7. ASSUME NEW i \in acked, i \in Ids(queue) \cup Ids(batch) PROVE FALSE
  BY <1>2, <1>5, <1>6, <1>7
<1> QED BY <1>1, <1>7 DEF AcknowledgedDurable

\* Acknowledged records survive: what log("error") or drain() reported as
\* flushed stays on disk until retention takes it (writer_loop, log, drain).
THEOREM AcknowledgedIsDurable == Spec => []AcknowledgedDurable
BY LoggerInvariant, LogInvDurable, PTL

LEMMA LogInvOrdered == LogInv => RetentionOrdered
<1> SUFFICES ASSUME LogInv PROVE RetentionOrdered
  OBVIOUS
<1>1. OnDisk \subseteq ArchiveIds \cup Ids(active)
  <2>1. active \in Seq(Rec) /\ flushed \in 0 .. Len(active) BY DEF LogInv, DiskType
  <2>2. Ids(SubSeq(active, 1, flushed)) \subseteq Ids(active) BY <2>1, PrefixOf
  <2> QED BY <2>2 DEF OnDisk
<1>2. \A i \in retired \ cut, j \in OnDisk : i < j
  BY <1>1 DEF LogInv, Ordered
<1> QED BY <1>2 DEF LogInv, Ordered, RetentionOrdered

\* The files hold the records in the order they were logged, and retention
\* goes from the oldest to the newest (scan_existing, rotate, prune_archives,
\* compact_oversized_active).
THEOREM RetentionIsOrdered == Spec => []RetentionOrdered
BY LoggerInvariant, LogInvOrdered, PTL

\* The archives the sink lists are as large as those the directory holds.
LEMMA ArchivesCounted ==
    ASSUME LogInv, opc # "none"
    PROVE  DirectorySize = SizeOf(active) + SizeOf(known)
<1> DEFINE last == Max(DOMAIN archives \cup {0})
           f == [n \in 1 .. last |-> IF n \in DOMAIN archives THEN SizeOf(archives[n]) ELSE 0]
<1>1. /\ known \in Seq(ArchiveEntry) /\ nextArchive \in Nat /\ Len(known) < nextArchive
      /\ DOMAIN archives = nextArchive - Len(known) .. nextArchive - 1
      /\ \A i \in 1 .. Len(known) :
           /\ known[i].number = nextArchive - Len(known) + i - 1
           /\ known[i].size = SizeOf(archives[known[i].number])
      /\ Len(known) \in Nat
  BY DEF LogInv, Catalogued
<1>2. nextArchive \in Nat /\ Len(known) < nextArchive /\ Len(known) \in Nat
  BY <1>1
<1>3. PICK k \in Nat : k = nextArchive - Len(known) - 1
  <2>1. nextArchive - Len(known) - 1 \in Nat BY <1>2
  <2> QED BY <2>1
<1>4. /\ DOMAIN archives = k + 1 .. k + Len(known)
      /\ \A i \in 1 .. Len(known) : k + i \in DOMAIN archives
         /\ known[i].size = SizeOf(archives[k + i])
  <2>1. nextArchive - Len(known) = k + 1 /\ nextArchive - 1 = k + Len(known)
    BY <1>2, <1>3
  <2>2. DOMAIN archives = k + 1 .. k + Len(known)
    BY <1>1, <2>1
  <2>3. ASSUME NEW i \in 1 .. Len(known)
        PROVE  k + i \in DOMAIN archives /\ known[i].size = SizeOf(archives[k + i])
    <3>1. known[i].number = nextArchive - Len(known) + i - 1 BY <1>1
    <3>2. known[i].number = k + i BY <1>2, <1>3, <3>1
    <3>3. k + i \in k + 1 .. k + Len(known) BY <1>2, <1>3
    <3> QED BY <1>1, <2>2, <3>2, <3>3
  <2> QED BY <2>2, <2>3
<1>5. DirectorySize = SizeOf(active) + SumTo(f, last)
  BY Zenon DEF DirectorySize
<1>6. SumTo(f, last) = SizeOf(known)
  <2>1. CASE Len(known) = 0
    <3>1. DOMAIN archives = {} BY <1>3, <1>4, <2>1
    <3>2. DOMAIN archives \cup {0} = {0} BY <3>1
    <3>3. last = 0 BY <3>2 DEF Max
    <3>4. known = <<>> BY <1>1, <2>1
    <3> QED BY <3>3, <3>4, SizeEmpty, SumZero
  <2>2. CASE Len(known) # 0
    <3>1. last = k + Len(known)
      <4>1. k + Len(known) \in DOMAIN archives BY <1>2, <1>3, <1>4, <2>2
      <4>2. \A y \in DOMAIN archives \cup {0} : y \in Nat /\ y <= k + Len(known)
        BY <1>2, <1>3, <1>4
      <4>3. last \in DOMAIN archives \cup {0} /\ \A y \in DOMAIN archives \cup {0} : last >= y
        <5>1. \E x \in DOMAIN archives \cup {0} : \A y \in DOMAIN archives \cup {0} : x >= y
          BY <4>1, <4>2
        <5> QED BY <5>1 DEF Max
      <4>4. last \in Nat /\ last >= k + Len(known) /\ last <= k + Len(known) BY <4>1, <4>2, <4>3
      <4> HIDE DEF last
      <4> QED BY <1>2, <1>3, <4>4
    <3> HIDE DEF last
    <3>2. \A i \in 1 .. k : f[i] = 0
      <4>1. \A i \in 1 .. k : i \in 1 .. last /\ i \notin k + 1 .. k + Len(known)
        BY <1>2, <1>3, <3>1
      <4> QED BY <1>4, <4>1
    <3>3. \A i \in 1 .. Len(known) : f[k + i] = SizesOf(known)[i] /\ SizesOf(known)[i] \in Nat
      <4>1. \A i \in 1 .. Len(known) : k + i \in 1 .. last
        BY <1>2, <1>3, <3>1
      <4>2. \A i \in 1 .. Len(known) : SizesOf(known)[i] = known[i].size /\ known[i].size \in Nat
        <5>1. \A i \in 1 .. Len(known) : known[i] \in ArchiveEntry BY <1>1
        <5>2. \A i \in 1 .. Len(known) : SizesOf(known)[i] = known[i].size BY <1>1 DEF SizesOf
        <5> QED BY <5>1, <5>2 DEF ArchiveEntry
      <4>3. \A i \in 1 .. Len(known) : f[k + i] = SizeOf(archives[k + i])
        BY <1>4, <4>1
      <4> QED BY <1>4, <4>2, <4>3
    <3>4. \A i \in 1 .. k + Len(known) : f[i] \in Nat
      <4> SUFFICES ASSUME NEW i \in 1 .. k + Len(known) PROVE f[i] \in Nat
        OBVIOUS
      <4>1. CASE i \in 1 .. k
        BY <3>2, <4>1, SMTT(60)
      <4>2. CASE i \notin 1 .. k
        <5>1. i - k \in 1 .. Len(known) /\ k + (i - k) = i BY <1>2, <1>3, <4>2
        <5> QED BY <3>3, <5>1
      <4> QED BY <4>1, <4>2
    <3>5. SumTo(f, k + Len(known)) = SumTo(f, k) + SumTo(SizesOf(known), Len(known))
      <4> DEFINE g == SizesOf(known)  n == Len(known)
      <4>1. k \in Nat /\ n \in Nat BY <1>2
      <4>2. (\A i \in 1 .. k + n : f[i] \in Nat) /\ \A i \in 1 .. n : g[i] = f[k + i] BY <3>3, <3>4
      <4> HIDE DEF f, g, n
      <4>3. SumTo(f, k + n) = SumTo(f, k) + SumTo(g, n) BY <4>1, <4>2, SumSplit
      <4> QED BY <4>3 DEF g, n
    <3>6. SumTo(f, k) = 0
      <4> HIDE DEF f
      <4> QED BY <1>3, <3>2, SumOfZeros
    <3>7. SizeOf(known) = SumTo(SizesOf(known), Len(known)) /\ SizeOf(known) \in Nat
      <4>1. \A x \in ArchiveEntry : x.size \in Nat BY DEF ArchiveEntry
      <4>2. SizeOf(known) \in Nat BY <1>1, <4>1, SizeType
      <4> QED BY <4>2 DEF SizeOf, SizesOf
    <3> HIDE DEF f
    <3> QED BY <3>1, <3>5, <3>6, <3>7
  <2> QED BY <2>1, <2>2
<1> QED BY <1>5, <1>6

LEMMA LogInvBounded == LogInv => StorageBounded
<1> SUFFICES ASSUME LogInv, opc = "open", state = "Running"
             PROVE  /\ managed = DirectorySize
                    /\ wpc \notin {"prune", "failed"} => managed <= maxTotal
                    /\ pendingBytes <= Capacity \/ pendingRecords = 1
  BY DEF StorageBounded
<1>1. managed = DirectorySize
  <2>1. DirectorySize = SizeOf(active) + SizeOf(known) BY ArchivesCounted
  <2> QED BY <2>1 DEF LogInv, SinkSums
<1>2. wpc \notin {"prune", "failed"} => managed <= maxTotal
  <2>1. wpc \in Live
    BY DEF LogInv, SharedType, WriterPhase
  <2> QED BY <2>1 DEF LogInv, SinkBounded
<1>3. pendingBytes <= Capacity \/ pendingRecords = 1
  BY DEF LogInv, QueueSums
<1> QED BY <1>1, <1>2, <1>3

\* While a logger runs its count of managed bytes is the size of its files,
\* within the total but for the record just written, and its queue is within
\* its capacity or holds one record (write, prune_archives, has_space).
THEOREM StorageIsBounded == Spec => []StorageBounded
BY LoggerInvariant, LogInvBounded, PTL

LEMMA LogInvLossless == LogInv => NoSilentLoss
<1> SUFFICES ASSUME LogInv, opc = "none", state \in {"Stopped", "Failed"}
             PROVE  epoch + 1 .. epoch + nextSeq - 1 \subseteq OnDisk \cup retired \/ reported
  BY DEF NoSilentLoss
<1>1. epoch \in Nat /\ nextSeq \in Nat \ {0} /\ flushedSeq \in Nat
  BY DEF LogInv, SharedType
<1>2. CASE state = "Stopped"
  <2>1. epoch + nextSeq - 1 = epoch + flushedSeq BY <1>1, <1>2 DEF LogInv, OpenPhase
  <2> QED BY <2>1 DEF LogInv, Durable, Kept
<1>3. CASE state = "Failed" /\ nextSeq = 1
  <2>1. epoch + 1 .. epoch + nextSeq - 1 = {} BY <1>1, <1>3
  <2> QED BY <2>1
<1>4. CASE state = "Failed" /\ nextSeq # 1
  BY <1>4 DEF LogInv, OpenPhase
<1> QED BY <1>2, <1>3, <1>4

\* A logger that was destroyed lost nothing, or its failure handler was told
\* (~Logger, report_writer_failure).
THEOREM NoLossIsSilent == Spec => []NoSilentLoss
BY LoggerInvariant, LogInvLossless, PTL
=============================================================================
