------------------------------ MODULE SpanSink ------------------------------
(***************************************************************************)
(* The recording of tracked spans: pipeline/_track_span.py drives one      *)
(* asyncio task per span, pipeline/_span_sink.py (DatabaseSpanSink) writes *)
(* the RUNNING row and the terminal row, and keeps the terminal rows whose *)
(* insert has not succeeded in a bounded FIFO buffer that later inserts    *)
(* (the pump) and the end of the run (the flush) drain.                    *)
(*                                                                         *)
(* An action is the code between two awaits: single-threaded asyncio makes *)
(* it atomic. An insert is issued by one action and answered by another,   *)
(* so that inserts of several spans, a pump and the flush interleave.      *)
(***************************************************************************)
EXTENDS Integers, Sequences, FiniteSets, Functions, SequencesExt

CONSTANTS
    Spans,         \* the spans of one run
    RunSpan,       \* the span of the run itself, which all others are under
    Bytes,         \* Bytes[S]: _approx_row_bytes of the stripped rows of the spans S
    Poison,        \* spans whose terminal row the database always refuses
    PoisonErrors,  \* how it refuses them: "transient" is is_transient_db_error
    MaxRows,       \* _MAX_BUFFER_ROWS
    MaxBytes,      \* _MAX_BUFFER_BYTES
    BatchSize,     \* _DRAIN_BATCH_SIZE
    MaxAttempts    \* _MAX_ROW_ATTEMPTS

ASSUME SpansAssumption == RunSpan \in Spans /\ Poison \subseteq Spans
ASSUME BytesAssumption ==
    /\ Bytes \in [SUBSET Spans -> Nat]
    /\ Bytes[{}] = 0
    /\ \A S, T \in SUBSET Spans : S \cap T = {} => Bytes[S \cup T] = Bytes[S] + Bytes[T]
ASSUME ErrorsAssumption == PoisonErrors \subseteq {"transient", "rejected"}
ASSUME CapsAssumption == /\ MaxRows \in Nat \ {0} /\ MaxBytes \in Nat \ {0}
                         /\ BatchSize \in Nat \ {0} /\ MaxAttempts \in Nat \ {0}

VARIABLES
    pc,        \* pc[s]: where the task that tracks span s is
    buffer,    \* _buffer: the parked rows, oldest first
    bytes,     \* _buffer_bytes
    attempts,  \* attempts[s]: _BufferedSpan.attempts of the row of s
    drain,     \* the batches _resolve_batch still holds; the head is at the database
    draining,  \* _draining
    flush,     \* where flush_pending is
    up,        \* whether the database answers (environment)
    started,   \* spans whose RUNNING row is stored
    durable,   \* spans whose terminal row is stored
    degraded,  \* recording_degraded, shared by every context of the run
    dropped,   \* rows _dropped_terminal counts
    poisoned,  \* rows _poisoned_terminal counts
    stranded   \* rows a cancelled drain left in no place and in no counter

store == <<started, durable>>
counts == <<dropped, poisoned, stranded>>
vars == <<pc, buffer, bytes, attempts, drain, draining, flush, up, store, degraded, counts>>

Phases == {"idle", "starting", "running", "encoding", "inserting", "pumping",
           "finished", "unopened", "unclosed"}
Open == {"idle", "starting", "running", "encoding", "unopened", "unclosed"}  \* no terminal row
Left == {"finished", "unopened", "unclosed"}  \* track_span has been left

Rows(batches) == UNION {ToSet(batches[i]) : i \in DOMAIN batches}
Draining == Rows(drain)  \* the rows a drain holds

Init ==
    /\ pc = [s \in Spans |-> "idle"]
    /\ buffer = <<>> /\ bytes = 0 /\ attempts = [s \in Spans |-> 0]
    /\ drain = <<>> /\ draining = FALSE /\ flush = "idle"
    /\ up = TRUE /\ started = {} /\ durable = {} /\ degraded = FALSE
    /\ dropped = {} /\ poisoned = {} /\ stranded = {}

-----------------------------------------------------------------------------
(* The buffer.                                                             *)

\* Mutant: the row that reaches the cap on the bytes is let in.
FitsLastRow(b, n) == b = <<>> \/ (Len(b) <= MaxRows /\ n <= MaxBytes + 1)

\* The condition that ends the eviction loop of _park and _repark.
Fits(b, n) == b = <<>> \/ (Len(b) <= MaxRows /\ n <= MaxBytes)

Oldest(b, k) == SubSeq(b, 1, k)
Newest(b, k) == SubSeq(b, k + 1, Len(b))
FitsWithout(b, n, k) == Fits(Newest(b, k), n - Bytes[ToSet(Oldest(b, k))])

\* The buffer becomes b, of n bytes, less the fewest oldest rows without which
\* it fits.
Hold(b, n) ==
    \E k \in 0 .. Len(b) :
        /\ FitsWithout(b, n, k)
        /\ \A j \in 0 .. (k - 1) : ~FitsWithout(b, n, j)
        /\ buffer' = Newest(b, k)
        /\ bytes' = n - Bytes[ToSet(Oldest(b, k))]
        /\ dropped' = dropped \cup ToSet(Oldest(b, k))

\* _unpark: the buffer without the row of s, if it is there.
Unparked(s) == IF s \in ToSet(buffer)
               THEN RemoveAt(buffer, CHOOSE i \in DOMAIN buffer : buffer[i] = s)
               ELSE buffer

\* Mutant: the row is not parked before its insert.
ParkLate(s) == UNCHANGED <<buffer, bytes, dropped>>

\* _park: the row of s goes to the end of the buffer.
Park(s) == Hold(Append(buffer, s), bytes + Bytes[{s}])

\* Mutant: the bytes of a row the buffer no longer holds are subtracted again.
UnparkedBytesTwice(s) == bytes - Bytes[{s}]

\* _buffer_bytes after _unpark.
UnparkedBytes(s) == IF s \in ToSet(buffer) THEN bytes - Bytes[{s}] ELSE bytes

\* Mutant: a batch that failed is not put back.
ReparkNothing(batch) == UNCHANGED <<buffer, bytes, dropped>>

\* _repark: a batch goes back in front of the rows parked since it was taken.
Repark(batch) == Hold(batch \o buffer, bytes + Bytes[ToSet(batch)])

\* Mutant: the rows of the batch stay in the buffer while they are inserted.
TakeCopy(b, n) ==
    /\ drain' = <<Oldest(b, IF Len(b) < BatchSize THEN Len(b) ELSE BatchSize)>>
    /\ buffer' = b /\ bytes' = n

\* _take_batch: at most BatchSize of the oldest rows of b, of n bytes, leave it
\* for the database.
Take(b, n) ==
    LET k == IF Len(b) < BatchSize THEN Len(b) ELSE BatchSize
    IN  /\ drain' = <<Oldest(b, k)>>
        /\ buffer' = Newest(b, k)
        /\ bytes' = n - Bytes[ToSet(Oldest(b, k))]

-----------------------------------------------------------------------------
(* One tracked span (track_span and the sink's callbacks).                 *)

\* The span starts, within the body of the run: its input artifacts are saved (a failure degrades the
\* recording) and the insert of its RUNNING row is issued.
Begin(s) ==
    /\ pc[s] = "idle"
    /\ s # RunSpan => pc[RunSpan] \notin {"idle", "starting", "unopened"}
    /\ pc' = [pc EXCEPT ![s] = "starting"]
    /\ degraded' \in {degraded, TRUE}
    /\ UNCHANGED <<buffer, bytes, attempts, drain, draining, flush, up, store, counts>>

\* The insert of the RUNNING row returns. A failed one may have landed; it is
\* never retried.
StartReturns(s) ==
    /\ pc[s] = "starting"
    /\ pc' = [pc EXCEPT ![s] = "running"]
    /\ \/ up /\ started' = started \cup {s} /\ UNCHANGED degraded
       \/ ~up /\ started' \in {started, started \cup {s}} /\ degraded' = TRUE
    /\ UNCHANGED <<buffer, bytes, attempts, drain, draining, flush, up, durable, counts>>

\* The task is cancelled while it awaits that insert: track_span is left
\* before its body, so on_span_finished is never called.
StartCancelled(s) ==
    /\ pc[s] = "starting"
    /\ pc' = [pc EXCEPT ![s] = "unopened"]
    /\ started' \in {started, started \cup {s}}
    /\ degraded' = TRUE
    /\ UNCHANGED <<buffer, bytes, attempts, drain, draining, flush, up, durable, counts>>

\* The body returns a value: _prepare_finish_payload saves its artifacts.
BodyReturns(s) ==
    /\ pc[s] = "running"
    /\ pc' = [pc EXCEPT ![s] = "encoding"]
    /\ UNCHANGED <<buffer, bytes, attempts, drain, draining, flush, up, store, degraded, counts>>

\* The task is cancelled while it saves them, outside the shield.
EncodeCancelled(s) ==
    /\ pc[s] = "encoding"
    /\ pc' = [pc EXCEPT ![s] = "unclosed"]
    /\ UNCHANGED <<buffer, bytes, attempts, drain, draining, flush, up, store, degraded, counts>>

\* on_span_finished, from a body that raised ("running": no artifact to save)
\* or whose artifacts are saved or given up: the row is parked, then issued.
Finish(s) ==
    /\ pc[s] \in {"running", "encoding"}
    /\ pc' = [pc EXCEPT ![s] = "inserting"]
    /\ attempts' = [attempts EXCEPT ![s] = 0]
    /\ Park(s)
    /\ \/ UNCHANGED degraded
       \/ pc[s] = "encoding" /\ degraded' = TRUE
    /\ UNCHANGED <<drain, draining, flush, up, store, poisoned, stranded>>

\* Mutant: a pump starts while another drain is under way.
PumpsAlways(b) == b # <<>>

\* The condition under which _pump drains the backlog b.
Pumps(b) == b # <<>> /\ ~draining

\* The insert succeeds: the row is unparked, and unless another drain runs the
\* backlog is pumped by this span's task.
InsertAcked(s) ==
    LET b == Unparked(s)
        n == UnparkedBytes(s)
    IN  /\ pc[s] = "inserting" /\ up /\ s \notin Poison
        /\ durable' = durable \cup {s}
        /\ \/ /\ Pumps(b) /\ Take(b, n)
              /\ draining' = TRUE
              /\ pc' = [pc EXCEPT ![s] = "pumping"]
           \/ /\ ~Pumps(b) /\ buffer' = b /\ bytes' = n
              /\ pc' = [pc EXCEPT ![s] = "finished"]
              /\ UNCHANGED <<drain, draining>>
        /\ UNCHANGED <<attempts, flush, up, started, degraded, counts>>

\* Mutant: a failed insert is swallowed without a mark.
InsertFailedQuietly(s) ==
    /\ pc[s] = "inserting" /\ (~up \/ s \in Poison)
    /\ durable' \in {durable, durable \cup ({s} \ Poison)}
    /\ pc' = [pc EXCEPT ![s] = "finished"]
    /\ UNCHANGED <<buffer, bytes, attempts, drain, draining, flush, up, started, degraded, counts>>

\* The insert fails: the row stays parked. The row of a failed insert may have
\* landed (the acknowledgement was lost), unless the database refuses it.
InsertFailed(s) ==
    /\ pc[s] = "inserting" /\ (~up \/ s \in Poison)
    /\ durable' \in {durable, durable \cup ({s} \ Poison)}
    /\ degraded' = TRUE
    /\ pc' = [pc EXCEPT ![s] = "finished"]
    /\ UNCHANGED <<buffer, bytes, attempts, drain, draining, flush, up, started, counts>>

\* The five-second shield of track_span expires while the insert hangs.
InsertTimedOut(s) ==
    /\ pc[s] = "inserting"
    /\ durable' \in {durable, durable \cup ({s} \ Poison)}
    /\ degraded' = TRUE
    /\ pc' = [pc EXCEPT ![s] = "finished"]
    /\ UNCHANGED <<buffer, bytes, attempts, drain, draining, flush, up, started, counts>>

-----------------------------------------------------------------------------
(* _resolve_batch, on behalf of the pump of a span or of the flush.        *)

\* Mutant: the flush stops after its first batch.
DrainEndsEarly ==
    \/ \E s \in Spans : /\ pc[s] = "pumping"
                        /\ pc' = [pc EXCEPT ![s] = "finished"]
                        /\ draining' = FALSE /\ UNCHANGED flush
    \/ flush = "writing" /\ flush' = "emptied" /\ draining' = FALSE /\ UNCHANGED pc

\* The drain is over: the pump clears _draining; the flush does when nothing
\* is left in the buffer, and otherwise loops.
DrainEnds ==
    \/ \E s \in Spans : /\ pc[s] = "pumping"
                        /\ pc' = [pc EXCEPT ![s] = "finished"]
                        /\ draining' = FALSE
                        /\ UNCHANGED flush
    \/ /\ flush = "writing"
       /\ \/ buffer' = <<>> /\ flush' = "emptied" /\ draining' = FALSE
          \/ buffer' # <<>> /\ flush' = "paused" /\ UNCHANGED draining
       /\ UNCHANGED pc

\* One batch is dealt with: the next half is inserted, if there is one.
Resolved ==
    /\ drain' = Tail(drain)
    /\ \/ Len(drain) = 1 /\ DrainEnds
       \/ Len(drain) > 1 /\ UNCHANGED <<pc, draining, flush>>

BatchAcked ==
    /\ drain # <<>> /\ up /\ ToSet(Head(drain)) \cap Poison = {}
    /\ durable' = durable \cup ToSet(Head(drain))
    /\ UNCHANGED <<buffer, bytes>>
    /\ Resolved
    /\ UNCHANGED <<attempts, up, started, degraded, counts>>

\* The error kinds the insert of a batch may raise now.
Errors(batch) == (IF up THEN {} ELSE {"transient"})
                 \cup (IF ToSet(batch) \cap Poison = {} THEN {} ELSE PoisonErrors)

\* A failed insert of a batch may have landed in part.
FailedBatch(batch) ==
    \E landed \in SUBSET (ToSet(batch) \ Poison) : durable' = durable \cup landed

\* Mutant: an attempt is not counted.
Untried(batch) == attempts

Tried(batch) == [s \in Spans |-> attempts[s] + (IF s \in ToSet(batch) THEN 1 ELSE 0)]
Exhausted(s) == attempts'[s] >= MaxAttempts
Stale(batch) == \E s \in ToSet(batch) : Exhausted(s)

\* The failed batch is kept together, to be tried again.
BatchReparked ==
    /\ drain # <<>>
    /\ LET batch == Head(drain)
       IN  /\ attempts' = Tried(batch)
           /\ \E error \in Errors(batch) : \/ error = "transient" /\ ~Stale(batch)
                                           \/ Len(batch) = 1 /\ ~Exhausted(batch[1])
           /\ FailedBatch(batch)
           /\ Repark(batch)
    /\ degraded' = TRUE
    /\ Resolved
    /\ UNCHANGED <<up, started, poisoned, stranded>>

\* The failed batch is split, to isolate the row that makes it fail.
BatchSplit ==
    /\ drain # <<>> /\ Len(Head(drain)) > 1
    /\ LET batch == Head(drain)
           mid == Len(batch) \div 2
       IN  /\ attempts' = Tried(batch)
           /\ \E error \in Errors(batch) : error = "rejected" \/ Stale(batch)
           /\ FailedBatch(batch)
           /\ drain' = <<Oldest(batch, mid), Newest(batch, mid)>> \o Tail(drain)
    /\ UNCHANGED <<pc, buffer, bytes, draining, flush, up, started, degraded, counts>>

\* _quarantine: a row alone in its batch has used its attempts.
RowQuarantined ==
    /\ drain # <<>> /\ Len(Head(drain)) = 1
    /\ LET batch == Head(drain)
       IN  /\ attempts' = Tried(batch)
           /\ Errors(batch) # {} /\ Exhausted(batch[1])
           /\ FailedBatch(batch)
           /\ poisoned' = poisoned \cup ToSet(batch)
    /\ UNCHANGED <<buffer, bytes>>
    /\ degraded' = TRUE
    /\ Resolved
    /\ UNCHANGED <<up, started, dropped, stranded>>

\* The insert hangs until the shield of the pumping span or the budget of the
\* flush expires. The batch at the database is reparked; the halves waiting
\* behind it are local to the frames that the cancellation unwinds.
DrainTimedOut ==
    /\ drain # <<>>
    /\ Repark(Head(drain))
    /\ FailedBatch(Head(drain))
    /\ stranded' = stranded \cup UNION {ToSet(drain[i]) : i \in 2 .. Len(drain)}
    /\ drain' = <<>> /\ draining' = FALSE
    /\ \/ \E s \in Spans : /\ pc[s] = "pumping"
                           /\ pc' = [pc EXCEPT ![s] = "finished"]
                           /\ degraded' = TRUE
                           /\ UNCHANGED flush
       \/ /\ flush = "writing" /\ flush' = "expired"
          /\ UNCHANGED <<pc, degraded>>
    /\ UNCHANGED <<attempts, up, started, poisoned>>

-----------------------------------------------------------------------------
(* flush_pending, once the span of the run has been left. The spans under   *)
(* it may go on: the clean-up of a run that is cancelled twice does not wait *)
(* for the tasks it has cancelled, which pump and insert beside the flush.   *)

FlushBegins ==
    /\ flush = "idle" /\ pc[RunSpan] \in Left
    /\ \/ /\ buffer = <<>> \/ draining
          /\ flush' = "skipped"
          /\ UNCHANGED <<buffer, bytes, drain, draining>>
       \/ /\ buffer # <<>> /\ ~draining
          /\ flush' = "writing" /\ draining' = TRUE
          /\ Take(buffer, bytes)
    /\ UNCHANGED <<pc, attempts, up, store, degraded, counts>>

\* The next turn of the loop, after the backoff when there was no progress; or
\* its end, when a span has unparked the last row meanwhile.
FlushContinues ==
    /\ flush = "paused"
    /\ \/ /\ buffer # <<>> /\ flush' = "writing"
          /\ Take(buffer, bytes)
          /\ UNCHANGED draining
       \/ /\ buffer = <<>> /\ flush' = "emptied"
          /\ draining' = FALSE
          /\ UNCHANGED <<buffer, bytes, drain>>
    /\ UNCHANGED <<pc, attempts, up, store, degraded, counts>>

FlushExpires ==
    /\ flush = "paused"
    /\ flush' = "expired" /\ draining' = FALSE
    /\ UNCHANGED <<pc, buffer, bytes, attempts, drain, up, store, degraded, counts>>

\* The database goes away or comes back.
Toggle ==
    /\ up' = ~up
    /\ UNCHANGED <<pc, buffer, bytes, attempts, drain, draining, flush, store, degraded, counts>>

-----------------------------------------------------------------------------
\* Mutant: the insert is awaited until the row is stored.
InsertAwaited(s) == InsertAcked(s)

\* The guarded insert of on_span_finished, under the shield of track_span.
InsertReturns(s) == InsertAcked(s) \/ InsertFailed(s) \/ InsertTimedOut(s)
DrainStep == \/ BatchAcked \/ BatchReparked \/ BatchSplit
             \/ RowQuarantined \/ DrainTimedOut

SpanStep(s) == \/ Begin(s) \/ StartReturns(s) \/ StartCancelled(s)
               \/ BodyReturns(s) \/ EncodeCancelled(s) \/ Finish(s)
               \/ InsertReturns(s)
FlushStep == FlushBegins \/ FlushContinues \/ FlushExpires

Next == \/ \E s \in Spans : SpanStep(s)
        \/ DrainStep
        \/ FlushStep
        \/ Toggle

\* An insert is answered or its timer fires; so is that of a batch; the flush
\* keeps turning. Nothing is assumed of the database or of a span's body.
Fairness == /\ \A s \in Spans : WF_vars(InsertReturns(s))
            /\ WF_vars(DrainStep)
            /\ WF_vars(FlushContinues)

Spec == Init /\ [][Next]_vars
FairSpec == Spec /\ Fairness

-----------------------------------------------------------------------------
(* Properties.                                                             *)

\* Type invariant: the state of the sink and of the spans is well formed.
TypeOK ==
    /\ pc \in [Spans -> Phases]
    /\ buffer \in Seq(Spans) /\ bytes \in Nat
    /\ attempts \in [Spans -> Nat]
    /\ drain \in Seq(Seq(Spans)) /\ draining \in BOOLEAN
    /\ flush \in {"idle", "writing", "paused", "emptied", "skipped", "expired"}
    /\ up \in BOOLEAN /\ degraded \in BOOLEAN
    /\ started \subseteq Spans /\ durable \subseteq Spans
    /\ dropped \subseteq Spans /\ poisoned \subseteq Spans /\ stranded \subseteq Spans

\* The buffer never exceeds a cap, however parking, reparking and unparking
\* interleave, and _buffer_bytes is exactly the bytes of the rows it holds.
BufferBounded == /\ Len(buffer) <= MaxRows /\ bytes <= MaxBytes
                 /\ bytes = Bytes[ToSet(buffer)]

\* A row is in one place at most: parked once, or in one batch of the drain
\* (_repark writes _buffer[span_id] without looking for an entry already there).
Apart(batches) ==
    /\ \A i \in DOMAIN batches : IsInjective(batches[i])
    /\ \A i, j \in DOMAIN batches : i # j => ToSet(batches[i]) \cap ToSet(batches[j]) = {}
OnePlace == IsInjective(buffer) /\ Apart(drain) /\ ToSet(buffer) \cap Draining = {}

\* _draining is set exactly while one drain is under way, and one task owns it:
\* a pump and the flush never hold batches at the same time, and no batch is
\* left behind when its owner has gone on.
OneDrain ==
    LET flushing == flush \in {"writing", "paused"}
    IN  /\ draining <=> flushing \/ \E s \in Spans : pc[s] = "pumping"
        /\ \A s, t \in Spans : pc[s] = "pumping" /\ pc[t] = "pumping" => s = t
        /\ \A s \in Spans : pc[s] = "pumping" => ~flushing
        /\ drain # <<>> <=> draining /\ flush # "paused"

\* Every terminal row is stored, parked, in the hands of a drain, or in a
\* counter, unless the unwinding of a cancelled split stranded it: no other path
\* of failures, evictions and cancellations loses a row.
Queued == ToSet(buffer) \cup Draining
AccountedFor ==
    \A s \in Spans : pc[s] \notin Open =>
        s \in durable \cup Queued \cup dropped \cup poisoned \cup stranded

\* A run that is not marked degraded has stored the terminal row of every span
\* that finished: recording_degraded is set before anything can be lost.
DegradedTellsTheTruth ==
    ~degraded => \A s \in Spans : pc[s] \in {"pumping", "finished"} => s \in durable

\* When flush_pending returns before its budget, the terminal row of every span
\* that has finished is stored, counted as lost or stranded: the shutdown that
\* follows comes too early for none of them. One case is not so: a span that
\* outlived the run is pumping, and the flush returns at once on _draining.
Settled == durable \cup dropped \cup poisoned \cup stranded
FlushSettles ==
    [][flush' # flush /\ flush' \in {"emptied", "skipped"} =>
         \/ \A s \in Spans : pc[s] \notin Open => s \in Settled'
         \/ flush' = "skipped" /\ \E s \in Spans : pc[s] = "pumping"]_vars

\* A row the sink has counted as lost (and logged as such) is never queued
\* again, by a repark, by the other half of a split batch or by a later drain.
LostStaysLost ==
    [][\A s \in dropped \cup poisoned \cup stranded : s \notin Queued']_vars

\* Every finish callback returns, even when its task pumps a backlog that keeps
\* failing: the caller of track_span is never held by the recording.
FinishReturns == \A s \in Spans : pc[s] \in {"inserting", "pumping"} ~> pc[s] = "finished"

\* flush_pending returns even if the database stays away and its budget never
\* expires: the attempt cap ends the retries.
FlushReturns == flush \in {"writing", "paused"} ~> flush \in {"emptied", "expired"}

\* The sink implements the promise of TerminalRecord.
Fate == [s \in Spans |->
           CASE s \in durable                                     -> "stored"
             [] s \notin durable /\ pc[s] \in Open                -> "open"
             [] s \notin durable /\ pc[s] \notin Open /\
                (pc[s] = "inserting" \/ s \in Queued) -> "pending"
             [] OTHER                                             -> "abandoned"]
Record == INSTANCE TerminalRecord WITH fate <- Fate, marked <- degraded
RecordSpec == Record!Spec

-----------------------------------------------------------------------------
(* What the comments of the source say and the code does not do.           *)

\* _insert_span_safe (286-291): a swallowed failure or a cancellation still
\* leaves the row buffered.
NothingStranded == stranded \subseteq durable
=============================================================================
