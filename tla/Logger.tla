------------------------------- MODULE Logger -------------------------------
(***************************************************************************)
(* Logger and FileLogSink: threads that log into a bounded queue, the      *)
(* writer thread that takes the queue in batches and appends it to the     *)
(* active file, the rotation of that file into numbered archives, their    *)
(* retirement under a total size, and the opening of what an earlier       *)
(* process left behind.                                                    *)
(*                                                                         *)
(* A record is its sequence number and the size of its rendered line.      *)
(* What has left the stream buffer survives a crash of the process (the    *)
(* code never syncs to the device, a power failure is not modelled); of    *)
(* the rest a crash keeps some prefix of whole records.                    *)
(*                                                                         *)
(* Left out: records below the configured level and records for which the  *)
(* memory budget has no room, whose calls return before they touch this    *)
(* state (the second kind calls the failure handler); the immediate_flush  *)
(* flag, which only shortens the batching window; metrics.                 *)
(***************************************************************************)
EXTENDS Naturals, Sequences, FiniteSets, SequencesExt, FiniteSetsExt, Sums

CONSTANTS
    Thread,       \* threads that log and drain
    Sizes,        \* sizes of rendered lines
    Capacity,     \* logging.queue_capacity
    Totals,       \* values of logging.max_total_size, one per opening
    Segments,     \* segments the total size is divided into (16 in the code)
    SegmentCap,   \* largest size of a segment (128 MiB in the code)
    MaxRecords,   \* bound: records
    MaxOpens,     \* bound: loggers opened
    MaxFaults     \* bound: crashes of the process and system calls that fail

ASSUME LoggerAssumption ==
    /\ Sizes \subseteq Nat \ {0} /\ Sizes # {}
    /\ Totals \subseteq Nat \ {0} /\ Totals # {}
    /\ Capacity \in Nat /\ {Segments, SegmentCap} \subseteq Nat \ {0}
    /\ {MaxRecords, MaxOpens, MaxFaults} \subseteq Nat

VARIABLES
    \* the directory
    active,     \* the active file: its records, the buffered ones last
    flushed,    \* how many of them have left the stream buffer
    archives,   \* archive number -> its records
    temporary,  \* a .ccs-compact- file exists
    \* FileLogSink
    maxTotal, activeSize, managed, known, nextArchive,
    \* Logger, under mutex_
    state, stopping, queue, pendingRecords, pendingBytes, nextSeq, flushedSeq,
    epoch,      \* records of earlier loggers: sequence n is record epoch + n
    \* the writer thread
    wpc, batch, written,
    done,       \* batch_size, batch_bytes and last_sequence of a written batch
    \* opening and destroying thread
    opc,
    \* callers
    pc, call,
    \* bounds and history
    records, opens, faults,
    acked,      \* records reported as flushed
    retired,    \* records removed by retention, those a compaction cut off
    cut,        \* included
    reported    \* the failure handler was called for the writer of this logger

directory == <<active, flushed, archives, temporary>>
sink      == <<maxTotal, activeSize, managed, known, nextArchive>>
shared    == <<state, stopping, queue, pendingRecords, pendingBytes, nextSeq, flushedSeq,
               epoch>>
writer    == <<wpc, batch, written, done>>
callers   == <<pc, call>>
bounds    == <<records, opens, faults>>
history   == <<acked, retired, cut, reported>>
vars == <<directory, sink, shared, writer, opc, callers, bounds, history>>

SizeOf(recs) == SumTo([i \in DOMAIN recs |-> recs[i].size], Len(recs))
Ids(recs) == {recs[i].id : i \in DOMAIN recs}
ArchiveIds == UNION {Ids(archives[n]) : n \in DOMAIN archives}
OnDisk == ArchiveIds \cup Ids(SubSeq(active, 1, flushed))

\* segment_target_size_
Segment == Min({SegmentCap, Max({1, maxTotal \div Segments})})

Running == state = "Running" /\ ~stopping

-----------------------------------------------------------------------------
(* Waking: each condition variable has one kind of waiter *)

WakeAll(p) ==
    [t \in Thread |-> CASE p[t] = "spaceWait" -> "admit"
                        [] p[t] = "flushWait" -> "flushed"
                        [] OTHER -> p[t]]

\* queue_cv_.notify_one
WakeWriter == IF wpc = "asleep" THEN "check" ELSE wpc

-----------------------------------------------------------------------------
(* Logger::log *)

NoCall == [size |-> 1, error |-> FALSE, target |-> 0]

Return(t) == pc' = [pc EXCEPT ![t] = "idle"] /\ call' = [call EXCEPT ![t] = NoCall]

\* A record whose line is rendered; its lease was granted.
Log(t, size, level) ==
    /\ opc = "open" /\ pc[t] = "idle" /\ records < MaxRecords
    /\ records' = records + 1
    /\ pc' = [pc EXCEPT ![t] = "admit"]
    /\ call' = [call EXCEPT ![t] = [size |-> size, error |-> level = "error", target |-> 0]]
    /\ UNCHANGED <<directory, sink, shared, writer, opc, opens, faults, history>>

\* (mutant) A record that fits beside nothing but itself is refused for ever.
FitsOnly(size) == pendingBytes + size <= Capacity

HasSpace(size) == pendingRecords = 0 \/ pendingBytes + size <= Capacity

LogRefused(t) ==
    /\ pc[t] = "admit" /\ ~Running
    /\ Return(t)
    /\ UNCHANGED <<directory, sink, shared, writer, opc, bounds, history>>

Backpressure(t) ==
    /\ pc[t] = "admit" /\ Running /\ ~HasSpace(call[t].size)
    /\ pc' = [pc EXCEPT ![t] = "spaceWait"]
    /\ UNCHANGED <<directory, sink, shared, writer, opc, call, bounds, history>>

\* The record is queued; an error waits until it is flushed.
Enqueue(t) ==
    /\ pc[t] = "admit" /\ Running /\ HasSpace(call[t].size)
    /\ queue' = Append(queue, [id |-> epoch + nextSeq, size |-> call[t].size])
    /\ nextSeq' = nextSeq + 1
    /\ pendingRecords' = pendingRecords + 1
    /\ pendingBytes' = pendingBytes + call[t].size
    /\ wpc' = WakeWriter
    /\ IF call[t].error
       THEN pc' = [pc EXCEPT ![t] = "flushed"] /\ call' = [call EXCEPT ![t].target = nextSeq]
       ELSE Return(t)
    /\ UNCHANGED <<directory, sink, state, stopping, flushedSeq, epoch, batch, written, done, opc>>
    /\ UNCHANGED <<bounds, history>>

\* flushed_cv_.wait of log() and drain()
FlushWait(t) ==
    /\ pc[t] = "flushed" /\ flushedSeq < call[t].target /\ Running
    /\ pc' = [pc EXCEPT ![t] = "flushWait"]
    /\ UNCHANGED <<directory, sink, shared, writer, opc, call, bounds, history>>

FlushAnswer(t) ==
    /\ pc[t] = "flushed"
    /\ flushedSeq >= call[t].target \/ ~Running
    /\ Return(t)
    /\ acked' = IF flushedSeq < call[t].target THEN acked
                ELSE acked \cup (epoch + (IF call[t].error THEN call[t].target ELSE 1)
                                  .. epoch + call[t].target)
    /\ UNCHANGED <<directory, sink, shared, writer, opc, bounds>>
    /\ UNCHANGED <<retired, cut, reported>>

\* Logger::drain, whose answer is FlushAnswer; a writer that no longer runs
\* is an error at once.
Drain(t) ==
    /\ opc = "open" /\ pc[t] = "idle" /\ Running /\ nextSeq > 1
    /\ epoch + nextSeq - 1 \notin acked
    /\ pc' = [pc EXCEPT ![t] = "flushed"]
    /\ call' = [call EXCEPT ![t] = [size |-> 1, error |-> FALSE, target |-> nextSeq - 1]]
    /\ wpc' = WakeWriter
    /\ UNCHANGED <<directory, sink, shared, batch, written, done, opc, bounds, history>>

-----------------------------------------------------------------------------
(* Logger::writer_loop *)

NoBatch == [count |-> 0, bytes |-> 0, last |-> 0]

WriterAt(l) == wpc' = l /\ UNCHANGED <<opc, callers, opens, records>>

\* Waits for a record; a destructor ends it once the queue is empty.
WriterChecks ==
    /\ wpc = "check"
    /\ WriterAt(CASE queue # <<>> -> "window"
                  [] queue = <<>> /\ stopping -> "stopped"
                  [] OTHER -> "asleep")
    /\ UNCHANGED <<directory, sink, shared, batch, written, done, faults, history>>

\* The window ends by its timer, an urgent record or the destructor.
TakeBatch ==
    /\ wpc = "window"
    /\ batch' = queue /\ queue' = <<>> /\ written' = 0 /\ done' = done
    /\ WriterAt("write")
    /\ UNCHANGED <<directory, sink, state, stopping, pendingRecords, pendingBytes, nextSeq>>
    /\ UNCHANGED <<flushedSeq, epoch, faults, history>>

Line == batch[written + 1]
Rotates == activeSize # 0 /\ activeSize + Line.size > Segment

\* FileLogSink::write refuses a line larger than the whole log.
WriteTooLarge ==
    /\ wpc = "write" /\ Line.size > maxTotal
    /\ WriterAt("failed")
    /\ UNCHANGED <<directory, sink, shared, batch, written, done, faults, history>>

PutLine ==
    /\ wpc = "write" /\ Line.size <= maxTotal /\ ~Rotates
    /\ active' = Append(active, Line)
    /\ activeSize' = activeSize + Line.size /\ managed' = managed + Line.size
    /\ written' = written + 1
    /\ UNCHANGED <<archives, temporary, maxTotal, known, nextArchive, shared, batch, done>>
    /\ UNCHANGED history

\* The line goes to the stream, which is flushed before anything is retired.
WriteRecord ==
    /\ PutLine /\ WriterAt("prune")
    /\ flushed' = IF managed' > maxTotal THEN Len(active') ELSE flushed
    /\ faults' = faults

\* That flush fails, with the line in the stream.
SpillFails ==
    /\ PutLine /\ WriterAt("failed")
    /\ managed' > maxTotal /\ flushed' = flushed
    /\ faults < MaxFaults /\ faults' = faults + 1

\* rotate: the stream is flushed and closed,
RotateFlush ==
    /\ wpc = "write" /\ Line.size <= maxTotal /\ Rotates
    /\ flushed' = Len(active)
    /\ WriterAt("rotate")
    /\ UNCHANGED <<active, archives, temporary, sink, shared, batch, written, done, faults, history>>

\* then the file is renamed to the next archive and a new one is opened.
RotateRename ==
    /\ wpc = "rotate"
    /\ archives' = [m \in DOMAIN archives \cup {nextArchive} |->
                        IF m = nextArchive THEN active ELSE archives[m]]
    /\ known' = Append(known, [number |-> nextArchive, size |-> activeSize])
    /\ nextArchive' = nextArchive + 1
    /\ active' = <<>> /\ flushed' = 0 /\ activeSize' = 0
    /\ WriterAt("write")
    /\ UNCHANGED <<temporary, maxTotal, managed, shared, batch, written, done, faults, history>>

Excess == managed > maxTotal /\ known # <<>>

\* The oldest archive is removed from the directory and the list.
RemoveOldest ==
    /\ archives' = [m \in DOMAIN archives \ {Head(known).number} |-> archives[m]]
    /\ retired' = retired \cup Ids(archives[Head(known).number])
    /\ managed' = managed - Head(known).size /\ known' = Tail(known)
    /\ UNCHANGED <<active, flushed, temporary, maxTotal, activeSize, nextArchive>>
    /\ UNCHANGED <<shared, batch, written, done, records, faults, acked, cut, reported>>

PruneOne == wpc = "prune" /\ Excess /\ RemoveOldest /\ WriterAt("prune")

PruneEnds ==
    /\ wpc = "prune" /\ ~Excess
    /\ WriterAt(CASE managed > maxTotal -> "failed"
                  [] managed <= maxTotal /\ written < Len(batch) -> "write"
                  [] OTHER -> "flush")
    /\ UNCHANGED <<directory, sink, shared, batch, written, done, faults, history>>

\* (mutant) A batch is published without a flush.
BatchUnflushed ==
    /\ wpc = "flush"
    /\ done' = [count |-> Len(batch), bytes |-> SizeOf(batch), last |-> Last(batch).id - epoch]
    /\ batch' = <<>> /\ written' = 0
    /\ WriterAt("finish")
    /\ UNCHANGED <<directory, sink, shared, faults, history>>

\* The batch is flushed; its lines and their leases are destroyed.
FlushBatch ==
    /\ wpc = "flush"
    /\ flushed' = Len(active)
    /\ done' = [count |-> Len(batch), bytes |-> SizeOf(batch), last |-> Last(batch).id - epoch]
    /\ batch' = <<>> /\ written' = 0
    /\ WriterAt("finish")
    /\ UNCHANGED <<active, archives, temporary, sink, shared, faults, history>>

\* The counters, under the mutex,
FinishBatch ==
    /\ wpc = "finish"
    /\ pendingRecords' = pendingRecords - done.count
    /\ pendingBytes' = pendingBytes - done.bytes
    /\ flushedSeq' = done.last /\ done' = NoBatch
    /\ WriterAt("notify")
    /\ UNCHANGED <<directory, sink, state, stopping, queue, nextSeq, epoch>>
    /\ UNCHANGED <<batch, written, faults, history>>

\* and then both kinds of waiters.
NotifyWaiters ==
    /\ wpc = "notify"
    /\ wpc' = "check" /\ pc' = WakeAll(pc)
    /\ UNCHANGED <<directory, sink, shared, batch, written, done, opc, call, bounds, history>>

\* A system call of the sink fails: nothing of the batch is published.
SinkFails ==
    /\ wpc \in {"write", "rotate", "prune", "flush"} /\ faults < MaxFaults
    /\ faults' = faults + 1
    /\ WriterAt("failed")
    /\ UNCHANGED <<directory, sink, shared, batch, written, done, history>>

\* report_writer_failure: the queue is dropped,
WriterFails ==
    /\ wpc = "failed"
    /\ batch' = <<>> /\ queue' = <<>> /\ pendingRecords' = 0 /\ pendingBytes' = 0
    /\ state' = "Failed"
    /\ WriterAt("report")
    /\ UNCHANGED <<directory, sink, stopping, nextSeq, flushedSeq, epoch, written, done>>
    /\ UNCHANGED <<faults, history>>

\* (mutant) The writer fails silently.
FailSilently ==
    /\ wpc = "report"
    /\ wpc' = "exited" /\ pc' = WakeAll(pc)
    /\ UNCHANGED <<directory, sink, shared, batch, written, done, opc, call, bounds, history>>

\* the failure handler runs, and only then the callers are woken.
ReportFailure ==
    /\ wpc = "report"
    /\ reported' = TRUE
    /\ wpc' = "exited" /\ pc' = WakeAll(pc)
    /\ UNCHANGED <<directory, sink, shared, batch, written, done, opc, call, bounds>>
    /\ UNCHANGED <<acked, retired, cut>>

\* The writer of a logger that is destroyed has written everything.
WriterStops ==
    /\ wpc = "stopped"
    /\ state' = IF state = "Running" THEN "Stopped" ELSE state
    /\ wpc' = "exited" /\ pc' = WakeAll(pc)
    /\ UNCHANGED <<directory, sink, stopping, queue, pendingRecords, pendingBytes, nextSeq>>
    /\ UNCHANGED <<flushedSeq, epoch, batch, written, done, opc, call, bounds, history>>

-----------------------------------------------------------------------------
(* Logger::open and ~Logger *)

\* The members of a sink that is not open mean nothing.
SinkGone ==
    /\ maxTotal' = 1 /\ activeSize' = 0 /\ managed' = 0 /\ known' = <<>> /\ nextArchive' = 1

OpenAt(l) == opc' = l /\ UNCHANGED <<batch, written, done, callers, opens, records>>

\* (mutant) The archives are listed in the order the directory returns them.
UnsortedArchives ==
    LET ns == SetToSortSeq(DOMAIN archives, >) IN
    [i \in DOMAIN ns |-> [number |-> ns[i], size |-> SizeOf(archives[ns[i]])]]

\* archives_, sorted by number: as many numbers as i are at most the i-th.
SortedArchives ==
    LET ns == DOMAIN archives
        nth(i) == CHOOSE n \in ns : Cardinality({m \in ns : m <= n}) = i
    IN [i \in 1 .. Cardinality(ns) |->
           [number |-> nth(i), size |-> SizeOf(archives[nth(i)])]]

\* (mutant) Only the active file counts.
ScannedActive == SizeOf(active)

ScannedSize == SizeOf(active) + SizeOf(SortedArchives)

\* The lock file of the path belongs to the logger that has it open.
LockFree == opc = "none"

\* A new logger takes the lock file and scans the directory; a compaction
\* file of an earlier process is removed.
OpenScans(total) ==
    /\ LockFree /\ opens < MaxOpens
    /\ opens' = opens + 1
    /\ maxTotal' = total /\ temporary' = FALSE
    /\ activeSize' = SizeOf(active) /\ managed' = ScannedSize
    /\ known' = SortedArchives
    /\ nextArchive' = 1 + Max(DOMAIN archives \cup {0})
    /\ state' = "Closed" /\ stopping' = FALSE /\ queue' = <<>>
    /\ pendingRecords' = 0 /\ pendingBytes' = 0
    /\ nextSeq' = 1 /\ flushedSeq' = 0 /\ epoch' = epoch + nextSeq - 1
    /\ reported' = FALSE
    /\ wpc' = "none" /\ opc' = "compact"
    /\ UNCHANGED <<active, flushed, archives, batch, written, done, callers>>
    /\ UNCHANGED <<records, faults, acked, retired, cut>>

\* compact_oversized_active: nothing to do,
CompactNothing ==
    /\ opc = "compact" /\ activeSize <= maxTotal
    /\ OpenAt("prune")
    /\ UNCHANGED <<directory, sink, shared, wpc, faults, history>>

\* or the tail of the file is copied to a temporary one,
CompactCopy ==
    /\ opc = "compact" /\ activeSize > maxTotal
    /\ temporary' = TRUE
    /\ OpenAt("replace")
    /\ UNCHANGED <<active, flushed, archives, sink, shared, wpc, faults, history>>

\* The longest tail of whole records within n bytes.
TailWithin(recs, n) ==
    LET fits == {i \in 1 .. Len(recs) + 1 : SizeOf(SubSeq(recs, i, Len(recs))) <= n} IN
    SubSeq(recs, Min(fits), Len(recs))

\* which then replaces it.
CompactReplace ==
    /\ opc = "replace"
    /\ temporary' = FALSE
    /\ active' = TailWithin(active, maxTotal) /\ flushed' = Len(active')
    /\ cut' = cut \cup (Ids(active) \ Ids(active')) /\ retired' = retired \cup cut'
    /\ activeSize' = SizeOf(active')
    /\ managed' = managed - (activeSize - SizeOf(active'))
    /\ OpenAt("prune")
    /\ UNCHANGED <<archives, maxTotal, known, nextArchive, shared, wpc, faults>>
    /\ UNCHANGED <<acked, reported>>

OpenPrunes == opc = "prune" /\ Excess /\ RemoveOldest /\ wpc' = wpc /\ OpenAt("prune")

\* The file is opened and the writer started.
OpenEnds ==
    /\ opc = "prune" /\ managed <= maxTotal
    /\ state' = "Running" /\ wpc' = "check"
    /\ OpenAt("open")
    /\ UNCHANGED <<directory, sink, stopping, queue, pendingRecords, pendingBytes, nextSeq>>
    /\ UNCHANGED <<flushedSeq, epoch, faults, history>>

\* A step of open fails; the lock is released, a temporary file removed.
OpenFails ==
    /\ opc \in {"compact", "replace", "prune"} /\ faults < MaxFaults
    /\ faults' = faults + 1
    /\ state' = "Failed" /\ temporary' = FALSE
    /\ SinkGone
    /\ OpenAt("none")
    /\ UNCHANGED <<active, flushed, archives, stopping, queue, pendingRecords>>
    /\ UNCHANGED <<pendingBytes, nextSeq, flushedSeq, epoch, wpc, history>>

\* The last owner lets go of the logger: nobody is inside a call.
Destroy ==
    /\ opc = "open" /\ \A t \in Thread : pc[t] = "idle"
    /\ stopping' = TRUE /\ wpc' = WakeWriter
    /\ OpenAt("destroy")
    /\ UNCHANGED <<directory, sink, state, queue, pendingRecords, pendingBytes, nextSeq>>
    /\ UNCHANGED <<flushedSeq, epoch, faults, history>>

\* The writer is joined and the sink closed; the stream of a failed writer
\* may not get rid of its buffer.
Close ==
    /\ opc = "destroy" /\ wpc = "exited"
    /\ \E n \in flushed .. Len(active) :
         /\ state # "Failed" => n = Len(active)
         /\ flushed' = n /\ active' = SubSeq(active, 1, n)
    /\ SinkGone
    /\ OpenAt("none")
    /\ UNCHANGED <<archives, temporary, shared, wpc, faults, history>>

-----------------------------------------------------------------------------
\* The process dies: of the stream buffer some prefix was written.
Crash ==
    /\ faults < MaxFaults /\ opc # "none"
    /\ faults' = faults + 1
    /\ \E n \in flushed .. Len(active) :
         flushed' = n /\ active' = SubSeq(active, 1, n)
    /\ state' = "Closed" /\ stopping' = FALSE /\ queue' = <<>>
    /\ pendingRecords' = 0 /\ pendingBytes' = 0
    /\ wpc' = "none" /\ batch' = <<>> /\ written' = 0 /\ opc' = "none"
    /\ done' = NoBatch /\ SinkGone
    /\ nextSeq' = 1 /\ flushedSeq' = 0 /\ epoch' = epoch + nextSeq - 1
    /\ pc' = [t \in Thread |-> "idle"] /\ call' = [t \in Thread |-> NoCall]
    /\ reported' = FALSE
    /\ UNCHANGED <<archives, temporary, records, opens, acked, retired, cut>>

Init ==
    /\ active = <<>> /\ flushed = 0 /\ archives = <<>> /\ temporary = FALSE
    /\ maxTotal = 1 /\ activeSize = 0 /\ managed = 0 /\ known = <<>> /\ nextArchive = 1
    /\ state = "Closed" /\ stopping = FALSE /\ queue = <<>>
    /\ pendingRecords = 0 /\ pendingBytes = 0 /\ nextSeq = 1 /\ flushedSeq = 0 /\ epoch = 0
    /\ wpc = "none" /\ batch = <<>> /\ written = 0
    /\ done = NoBatch
    /\ opc = "none"
    /\ pc = [t \in Thread |-> "idle"] /\ call = [t \in Thread |-> NoCall]
    /\ records = 0 /\ opens = 0 /\ faults = 0
    /\ acked = {} /\ retired = {} /\ cut = {} /\ reported = FALSE

Level == {"info", "error"}

\* The steps of a call that has begun.
CallStep(t) ==
    LogRefused(t) \/ Backpressure(t) \/ Enqueue(t) \/ FlushWait(t) \/ FlushAnswer(t)

WriterStep ==
    \/ WriterChecks \/ TakeBatch \/ WriteTooLarge \/ WriteRecord \/ SpillFails \/ RotateFlush
    \/ RotateRename \/ PruneOne \/ PruneEnds \/ FlushBatch \/ FinishBatch
    \/ NotifyWaiters \/ SinkFails \/ WriterFails \/ ReportFailure \/ WriterStops

OpenStep ==
    \/ CompactNothing \/ CompactCopy \/ CompactReplace \/ OpenPrunes \/ OpenEnds
    \/ OpenFails \/ Close

Next ==
    \/ \E t \in Thread :
         \/ \E size \in Sizes, level \in Level : Log(t, size, level)
         \/ Drain(t) \/ CallStep(t)
    \/ WriterStep
    \/ OpenStep
    \/ \E total \in Totals : OpenScans(total)
    \/ Destroy
    \/ Crash

\* Threads run and system calls return; nobody has to log, open, destroy or
\* crash.
Fairness ==
    /\ \A t \in Thread : WF_vars(CallStep(t))
    /\ WF_vars(WriterStep) /\ WF_vars(OpenStep)

Spec == Init /\ [][Next]_vars /\ Fairness

-----------------------------------------------------------------------------
\* A record that log("error") or drain() reported as flushed is on disk until
\* retention removes it, whatever rotations and restarts follow, and
\* its line no longer holds any of the memory budget (Logger::log,
\* Logger::drain and the order of publication in writer_loop).
AcknowledgedDurable ==
    /\ acked \subseteq OnDisk \cup retired
    /\ acked \cap (Ids(queue) \cup Ids(batch)) = {}

Ascending(recs) == \A i, j \in DOMAIN recs : i < j => recs[i].id < recs[j].id

\* Archives in the order of their numbers, followed by the active file, are
\* the records in the order they were logged, and retention only ever removed
\* older ones than those it kept (scan_existing, rotate, prune_archives,
\* compact_oversized_active).  Exception: what a compaction under a smaller total
\* cut off the active file may be younger than archives, which the pruning that
\* follows has yet to reach; it is older than what the active file kept.
RetentionOrdered ==
    /\ Ascending(active)
    /\ \A n \in DOMAIN archives :
         /\ Ascending(archives[n])
         /\ \A i \in Ids(archives[n]), j \in Ids(active) : i < j
         /\ \A m \in DOMAIN archives : n < m =>
              \A i \in Ids(archives[n]), j \in Ids(archives[m]) : i < j
    /\ \A i \in retired \ cut, j \in OnDisk : i < j
    /\ \A i \in cut, j \in Ids(active) : i < j

DirectorySize ==
    LET last == Max(DOMAIN archives \cup {0}) IN
    SizeOf(active) + SumTo([n \in 1 .. last |-> IF n \in DOMAIN archives
                                               THEN SizeOf(archives[n]) ELSE 0], last)

\* While a logger runs, its own count of managed bytes is what the directory
\* holds, and never more than the total size except for the record whose
\* retention is in progress; the queue holds its capacity or one record
\* (FileLogSink::write, prune_archives, has_space).
StorageBounded ==
    opc = "open" /\ state = "Running" =>
        /\ managed = DirectorySize
        /\ wpc \notin {"prune", "failed"} => managed <= maxTotal
        /\ pendingBytes <= Capacity \/ pendingRecords = 1

\* When a logger has been destroyed, every record it queued is on disk or
\* retired, or the failure handler was told that the writer failed (~Logger,
\* report_writer_failure).
NoSilentLoss ==
    opc = "none" /\ state \in {"Stopped", "Failed"} =>
        epoch + 1 .. epoch + nextSeq - 1 \subseteq OnDisk \cup retired \/ reported

\* A call of log() or drain() returns: backpressure, a failing writer and the
\* wait for a flush all end (space_cv_, flushed_cv_ and their notifications).
CallsReturn == \A t \in Thread : pc[t] # "idle" ~> pc[t] = "idle"
=============================================================================
