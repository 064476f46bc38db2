------------------------------- MODULE TaskRun -------------------------------
(***************************************************************************)
(* A flow dispatches tasks and collects them with a deadline.  Each        *)
(* invocation looks for a completed span of the same cache key, and runs   *)
(* the body with retries when there is none whose documents can be loaded; *)
(* its documents are stored twice, by the task and by its span.  Bodies    *)
(* wait for a slot of a limit kept by Prefect while that is available.     *)
(* (pipeline/_task.py, _parallel.py, limits.py, _track_span.py.)           *)
(*                                                                         *)
(* One action is the code between two awaits.  A task that was told to     *)
(* cancel takes no step before the CancelledError is raised at the await   *)
(* it stands at.  Documents are identified by their hash.                  *)
(***************************************************************************)
EXTENDS Naturals, FiniteSets

CONSTANTS
  Tasks,     \* the invocations a flow may dispatch
  Keys,      \* cache keys
  None,      \* no cache key, no completed span
  Key,       \* the cache key of an invocation, None if the class is not cacheable
  Docs,      \* documents
  Declared,  \* those whose class is an output type of the task and can be imported
  Results,   \* the sets of documents the body of an invocation may return
  Attempts,  \* retries + 1
  Limit,     \* the slots of the concurrency limit
  Deadline,  \* whether collect_tasks is given deadline_seconds
  Cancels    \* how often the flow cancels a handle itself

VARIABLES
  pc,         \* where an invocation stands
  attempt,    \* the current attempt of its body, 0 outside of the retry loop
  shas,       \* the output hashes of the cached span that was found, or of its own span
  result,     \* the documents the body returned or the cache gave back
  span,       \* its TASK span as the code left it
  told,       \* the ends published for it: task.completed, task.failed
  dying,      \* invocations told to cancel that have not noticed yet
  cancelled,  \* those in which CancelledError was raised
  slots,      \* invocations that hold a slot
  available,  \* prefect_available of the run
  stored,     \* documents whose record and blobs are all in the database
  completion, \* the output hashes of the newest completed span of a key, or None
  returned,   \* what bodies have returned for a key
  flow,       \* where the flow stands
  handles,    \* what was given to collect_tasks
  pending,    \* handles collect_tasks still waits for
  harvest,    \* handles asyncio.wait found done
  completed,  \* handles whose documents are in the batch
  incomplete, \* the other handles of the batch
  late,       \* the deadline has passed
  cancels     \* cancellations the flow may still order

bodyVars == <<attempt, shas, result>>
tellVars == <<span, told>>
cancelVars == <<dying, cancelled>>
slotVars == <<slots, available>>
storeVars == <<stored, completion, returned>>
batchVars == <<handles, pending, harvest, completed, incomplete>>
flowVars == <<flow, batchVars, late, cancels>>
vars == <<pc, bodyVars, tellVars, cancelVars, slotVars, storeVars, flowVars>>

Running == {"lookup", "hydrate", "reuse", "opening", "announce", "starting", "slot", "body",
            "backoff", "persist", "artifacts", "closing", "report", "failing", "reportfail"}
Ended == {"returned", "raised"}

ASSUME KeyAssumption == None \notin Keys /\ Key \in [Tasks -> Keys \cup {None}]
ASSUME DocsAssumption == Declared \subseteq Docs /\ Results \in [Tasks -> SUBSET SUBSET Docs]
ASSUME BoundsAssumption ==
  Attempts \in Nat \ {0} /\ Limit \in Nat \ {0} /\ Cancels \in Nat /\ Deadline \in BOOLEAN
ASSUME TasksAssumption == IsFiniteSet(Tasks)

-----------------------------------------------------------------------------
Init ==
  /\ pc = [t \in Tasks |-> "new"]
  /\ attempt = [t \in Tasks |-> 0]
  /\ shas = [t \in Tasks |-> {}] /\ result = [t \in Tasks |-> {}]
  /\ span = [t \in Tasks |-> "none"] /\ told = [t \in Tasks |-> {}]
  /\ dying = {} /\ cancelled = {}
  /\ slots = {} /\ available \in BOOLEAN
  /\ stored = {}
  /\ completion = [k \in Keys |-> None] /\ returned = [k \in Keys |-> {}]
  /\ flow = "open"
  /\ handles = {} /\ pending = {} /\ harvest = {} /\ completed = {} /\ incomplete = {}
  /\ late = FALSE /\ cancels = Cancels

-----------------------------------------------------------------------------
(* Steps of an invocation.                                                 *)

\* t stands at an await of this kind, and no cancellation is about to be raised there.
At(t, p) == pc[t] = p /\ t \notin dying

GoTo(t, p) == pc' = [pc EXCEPT ![t] = p]

\* The publishers give up with a warning: the event may be lost.
Publish(t, e) == \E sent \in {{}, {e}} : told' = [told EXCEPT ![t] = told[t] \cup sent]

\* Mutant: the slot is not given back.
Keeps(t) == UNCHANGED slots

Leaves(t) == slots' = slots \ {t}

\* The wrapper of run: the invocation is a task of the loop, and its handle active.
Dispatch(t) ==
  /\ flow \notin {"settling", "over"}
  /\ pc[t] = "new"
  /\ GoTo(t, IF Key[t] = None THEN "opening" ELSE "lookup")
  /\ UNCHANGED <<bodyVars, tellVars, cancelVars, slotVars, storeVars, flowVars>>

\* get_cached_completion answers.  A span without output hashes is not reused.
LookedUp(t) ==
  /\ At(t, "lookup")
  /\ IF completion[Key[t]] \in {None, {}}
     THEN GoTo(t, "opening") /\ UNCHANGED shas
     ELSE GoTo(t, "hydrate") /\ shas' = [shas EXCEPT ![t] = completion[Key[t]]]
  /\ UNCHANGED <<attempt, result, tellVars, cancelVars, slotVars, storeVars, flowVars>>

\* The database raises: the invocation fails without a span or an event.
LookupFails(t) ==
  /\ At(t, "lookup") \/ At(t, "hydrate")
  /\ GoTo(t, "raised")
  /\ shas' = [shas EXCEPT ![t] = {}]
  /\ UNCHANGED <<attempt, result, tellVars, cancelVars, slotVars, storeVars, flowVars>>

\* load_documents_from_database: the record and the blobs are there, the class is known.
Loadable == stored \cap Declared

\* Mutant: what can be loaded is taken for the whole.
HydratedPartly(t) ==
  /\ At(t, "hydrate")
  /\ IF shas[t] \cap Loadable # {}
     THEN GoTo(t, "reuse") /\ result' = [result EXCEPT ![t] = shas[t] \cap Loadable]
     ELSE GoTo(t, "opening") /\ UNCHANGED result
  /\ shas' = [shas EXCEPT ![t] = {}]
  /\ UNCHANGED <<attempt, tellVars, cancelVars, slotVars, storeVars, flowVars>>

\* _load_cached_outputs: every document of the span is needed, or the body runs.
Hydrated(t) ==
  /\ At(t, "hydrate")
  /\ IF shas[t] \subseteq Loadable
     THEN GoTo(t, "reuse") /\ result' = [result EXCEPT ![t] = shas[t]]
     ELSE GoTo(t, "opening") /\ UNCHANGED result
  /\ shas' = [shas EXCEPT ![t] = {}]
  /\ UNCHANGED <<attempt, tellVars, cancelVars, slotVars, storeVars, flowVars>>

\* _reuse_cached_output: the span of the reuse is opened and closed as CACHED.
Reused(t) ==
  /\ At(t, "reuse")
  /\ span' = [span EXCEPT ![t] = "cached"]
  /\ GoTo(t, "report")
  /\ UNCHANGED <<bodyVars, told, cancelVars, slotVars, storeVars, flowVars>>

\* The TASK span is open: _emit_task_started is next.
Opened(t) ==
  /\ At(t, "opening")
  /\ span' = [span EXCEPT ![t] = "running"]
  /\ GoTo(t, "announce")
  /\ UNCHANGED <<bodyVars, told, cancelVars, slotVars, storeVars, flowVars>>

\* task.started is out or lost; the first attempt opens its span.
Announced(t) ==
  /\ At(t, "announce")
  /\ attempt' = [attempt EXCEPT ![t] = 1]
  /\ GoTo(t, "starting")
  /\ UNCHANGED <<shas, result, tellVars, cancelVars, slotVars, storeVars, flowVars>>

\* pipeline_concurrency at the start of the body: once Prefect failed the run, nobody asks.
Begins(t) ==
  /\ At(t, "starting")
  /\ GoTo(t, IF available THEN "slot" ELSE "body")
  /\ UNCHANGED <<bodyVars, tellVars, cancelVars, slotVars, storeVars, flowVars>>

\* Prefect grants a slot.
SlotGranted(t) ==
  /\ At(t, "slot")
  /\ Cardinality(slots) < Limit
  /\ slots' = slots \cup {t}
  /\ GoTo(t, "body")
  /\ UNCHANGED <<bodyVars, tellVars, cancelVars, available, storeVars, flowVars>>

\* Mutant: the failure is not remembered.
SlotUnavailableOnce(t) ==
  /\ At(t, "slot")
  /\ GoTo(t, "body")
  /\ UNCHANGED <<bodyVars, tellVars, cancelVars, slotVars, storeVars, flowVars>>

\* ConcurrencySlotAcquisitionError: this body and all later ones of the run go unthrottled.
SlotUnavailable(t) ==
  /\ At(t, "slot")
  /\ available' = FALSE
  /\ GoTo(t, "body")
  /\ UNCHANGED <<bodyVars, tellVars, cancelVars, slots, storeVars, flowVars>>

\* The body returns documents, the slot is given back.
BodyReturns(t) ==
  /\ At(t, "body")
  /\ \E r \in Results[t] :
       /\ result' = [result EXCEPT ![t] = r]
       /\ returned' = [k \in Keys |-> returned[k] \cup (IF k = Key[t] THEN {r} ELSE {})]
  /\ attempt' = [attempt EXCEPT ![t] = 0]
  /\ Leaves(t)
  /\ GoTo(t, "persist")
  /\ UNCHANGED <<shas, tellVars, cancelVars, available, stored, completion,
                 flowVars>>

\* _run_with_retries: an error of the body, a timeout of its own or of the slot, or a result
\* that is no document, is retried after a delay until the attempts are used up.
AttemptFails(t) ==
  /\ At(t, "slot") \/ At(t, "body")
  /\ IF attempt[t] < Attempts
     THEN GoTo(t, "backoff") /\ UNCHANGED attempt
     ELSE GoTo(t, "failing") /\ attempt' = [attempt EXCEPT ![t] = 0]
  /\ Leaves(t)
  /\ UNCHANGED <<shas, result, tellVars, cancelVars, available, storeVars, flowVars>>

\* NonRetriableError goes up at once.
BodyRaises(t) ==
  /\ At(t, "body")
  /\ GoTo(t, "failing") /\ attempt' = [attempt EXCEPT ![t] = 0]
  /\ Leaves(t)
  /\ UNCHANGED <<shas, result, tellVars, cancelVars, available, storeVars, flowVars>>

\* The delay is over: the next attempt opens its span.
Retry(t) ==
  /\ At(t, "backoff")
  /\ attempt' = [attempt EXCEPT ![t] = attempt[t] + 1]
  /\ GoTo(t, "starting")
  /\ UNCHANGED <<shas, result, tellVars, cancelVars, slotVars, storeVars, flowVars>>

\* save_blob_batch, then save_document_batch, either of which may fail: blobs without their
\* record are of no use to a reader.
Save(docs) == stored' = stored \cup docs

\* _persist_documents: a failure is a warning.
Persisted(t) ==
  /\ At(t, "persist")
  /\ Save(result[t]) \/ UNCHANGED stored
  /\ GoTo(t, "artifacts")
  /\ UNCHANGED <<bodyVars, tellVars, cancelVars, slotVars, completion, returned, flowVars>>

\* The span stores its output once more, and blanks its hashes if that fails.
ArtifactsSaved(t) ==
  /\ At(t, "artifacts")
  /\ \/ Save(result[t]) /\ shas' = [shas EXCEPT ![t] = result[t]]
     \/ UNCHANGED <<stored, shas>>
  /\ GoTo(t, "closing")
  /\ UNCHANGED <<attempt, result, tellVars, cancelVars, slotVars, completion, returned, flowVars>>

\* The terminal row is stored, or given up by the sink.
RowWritten(t) ==
  \/ completion' = [k \in Keys |-> IF k = Key[t] THEN shas[t] ELSE completion[k]]
  \/ UNCHANGED completion

Closed(t) ==
  /\ At(t, "closing")
  /\ RowWritten(t)
  /\ span' = [span EXCEPT ![t] = "completed"]
  /\ shas' = [shas EXCEPT ![t] = {}]
  /\ GoTo(t, "report")
  /\ UNCHANGED <<attempt, result, told, cancelVars, slotVars, stored, returned, flowVars>>

\* Mutant: a publisher that raises makes the completed task a failed one.
ReportedOrFails(t) ==
  /\ At(t, "report")
  /\ \/ told' = [told EXCEPT ![t] = told[t] \cup {"completed"}] /\ GoTo(t, "returned")
     \/ UNCHANGED told /\ GoTo(t, "reportfail")
  /\ UNCHANGED <<bodyVars, span, cancelVars, slotVars, storeVars, flowVars>>

\* task.completed is out or lost, and the handle has its result.
Reported(t) ==
  /\ At(t, "report")
  /\ Publish(t, "completed")
  /\ GoTo(t, "returned")
  /\ UNCHANGED <<bodyVars, span, cancelVars, slotVars, storeVars, flowVars>>

\* The TASK span is closed as FAILED.
SpanFailed(t) ==
  /\ At(t, "failing")
  /\ span' = [span EXCEPT ![t] = "failed"]
  /\ GoTo(t, "reportfail")
  /\ UNCHANGED <<bodyVars, told, cancelVars, slotVars, storeVars, flowVars>>

\* task.failed is out or lost, and the handle raises.
FailureReported(t) ==
  /\ At(t, "reportfail")
  /\ Publish(t, "failed")
  /\ GoTo(t, "raised")
  /\ UNCHANGED <<bodyVars, span, cancelVars, slotVars, storeVars, flowVars>>

-----------------------------------------------------------------------------
(* CancelledError.                                                         *)

Live == {t \in Tasks : pc[t] \in Running}

\* Raised at the await where t stands.
Raised(t, p) ==
  /\ t \in dying
  /\ dying' = dying \ {t} /\ cancelled' = cancelled \cup {t}
  /\ GoTo(t, p)
  /\ shas' = [shas EXCEPT ![t] = {}] /\ attempt' = [attempt EXCEPT ![t] = 0]
  /\ Leaves(t)
  /\ UNCHANGED <<result, available, stored, returned, flowVars>>

\* Before the TASK span there is nothing to close and nobody to tell.
CancelledBefore(t) ==
  /\ pc[t] \in {"lookup", "hydrate", "reuse"}
  /\ Raised(t, "raised")
  /\ span' = [span EXCEPT ![t] = IF pc[t] = "reuse" THEN "running" ELSE "none"]
  /\ UNCHANGED <<told, completion>>

\* In the lifecycle the span fails, and no retry follows.
CancelledInside(t) ==
  /\ pc[t] \in {"announce", "starting", "slot", "body", "backoff", "persist"}
  /\ Raised(t, "failing")
  /\ UNCHANGED <<tellVars, completion>>

\* While the span is opened, or its artifacts are stored, it is left RUNNING; while its row
\* is written, the row may be there or not.
CancelledAtSpan(t) ==
  /\ pc[t] \in {"opening", "artifacts", "closing", "failing"}
  /\ Raised(t, "reportfail")
  /\ \/ pc[t] = "closing" /\ RowWritten(t) /\ span' = [span EXCEPT ![t] = "completed"]
     \/ pc[t] = "failing" /\ span' = [span EXCEPT ![t] = "failed"] /\ UNCHANGED completion
     \/ span' = [span EXCEPT ![t] = "running"] /\ UNCHANGED completion
  /\ UNCHANGED told

\* The event is not published, or was just sent.
CancelledAfter(t) ==
  /\ pc[t] \in {"report", "reportfail"}
  /\ Raised(t, "raised")
  /\ Publish(t, IF pc[t] = "report" THEN "completed" ELSE "failed")
  /\ UNCHANGED <<span, completion>>

Cancelled(t) ==
  CancelledBefore(t) \/ CancelledInside(t) \/ CancelledAtSpan(t) \/ CancelledAfter(t)

-----------------------------------------------------------------------------
(* The flow.                                                               *)

Done(t) == pc[t] \in Ended

FlowOnly == UNCHANGED <<pc, bodyVars, tellVars, cancelled, slotVars, storeVars>>

\* collect_tasks is over: what is left of the batch is incomplete.
BatchReturned(inc) ==
  /\ incomplete' = inc
  /\ pending' = {} /\ harvest' = {}
  /\ flow' = "working"

\* collect_tasks is called with the handles so far; a deadline of zero has passed at once.
Collect ==
  /\ flow = "open"
  /\ handles' = {t \in Tasks : pc[t] # "new"}
  /\ late' \in {FALSE, Deadline}
  /\ IF handles' = {} \/ late' THEN BatchReturned(handles')
     ELSE flow' = "collecting" /\ pending' = handles' /\ UNCHANGED <<harvest, incomplete>>
  /\ UNCHANGED <<completed, cancels, dying>>
  /\ FlowOnly

\* asyncio.wait returns with the handles that are done.
Woken ==
  /\ flow = "collecting"
  /\ harvest' = {t \in pending : Done(t)}
  /\ harvest' # {}
  /\ pending' = pending \ harvest'
  /\ flow' = "harvesting"
  /\ UNCHANGED <<handles, completed, incomplete, late, cancels, dying>>
  /\ FlowOnly

\* Mutant: the wait goes on after the deadline.
WaitsOn == flow = "collecting" /\ late /\ UNCHANGED vars

\* asyncio.wait returns with nothing: the deadline has passed.
TimedOut ==
  /\ flow = "collecting" /\ late
  /\ \A t \in pending : ~Done(t)
  /\ BatchReturned(incomplete \cup pending)
  /\ UNCHANGED <<handles, completed, late, cancels, dying>>
  /\ FlowOnly

\* The result of one of them is awaited.
Taken ==
  /\ flow = "harvesting"
  /\ \E t \in harvest :
       /\ harvest' = harvest \ {t}
       /\ IF pc[t] = "returned"
          THEN completed' = completed \cup {t} /\ UNCHANGED incomplete
          ELSE incomplete' = incomplete \cup {t} /\ UNCHANGED completed
  /\ UNCHANGED <<flow, handles, pending, late, cancels, dying>>
  /\ FlowOnly

\* Mutant: the handles still running are not part of the batch.
LoopedForgets ==
  /\ flow = "harvesting" /\ harvest = {}
  /\ IF pending = {} \/ late THEN BatchReturned(incomplete)
     ELSE flow' = "collecting" /\ UNCHANGED <<pending, harvest, incomplete>>
  /\ UNCHANGED <<handles, completed, late, cancels, dying>>
  /\ FlowOnly

\* The loop goes on, or ends with every handle done or the deadline passed.
Looped ==
  /\ flow = "harvesting" /\ harvest = {}
  /\ IF pending = {} \/ late THEN BatchReturned(incomplete \cup pending)
     ELSE flow' = "collecting" /\ UNCHANGED <<pending, harvest, incomplete>>
  /\ UNCHANGED <<handles, completed, late, cancels, dying>>
  /\ FlowOnly

\* deadline_seconds are over.
DeadlinePasses ==
  /\ Deadline /\ ~late
  /\ flow \in {"collecting", "harvesting"}
  /\ late' = TRUE
  /\ UNCHANGED <<flow, batchVars, cancels, dying>>
  /\ FlowOnly

\* The flow cancels a handle: one of the batch, or from another coroutine while it is awaited.
CancelHandle ==
  /\ flow \notin {"settling", "over"} /\ cancels > 0
  /\ \E t \in Live \cap (pending \cup incomplete) : dying' = dying \cup {t}
  /\ cancels' = cancels - 1
  /\ UNCHANGED <<flow, batchVars, late>>
  /\ FlowOnly

\* The flow returns, raises or is cancelled itself: _cancel_dispatched_handles.
FlowLeaves ==
  /\ flow \notin {"settling", "over"}
  /\ flow' = "settling"
  /\ dying' = Live
  /\ handles' = {} /\ pending' = {} /\ harvest' = {} /\ completed' = {} /\ incomplete' = {}
  /\ late' = FALSE /\ cancels' = 1
  /\ FlowOnly

\* The grace period passes: what is still running is cancelled once more.
GraceOver ==
  /\ flow = "settling" /\ cancels = 1
  /\ dying' = Live /\ cancels' = 0
  /\ UNCHANGED <<flow, batchVars, late>>
  /\ FlowOnly

FlowOver ==
  /\ flow = "settling" /\ Live = {}
  /\ flow' = "over" /\ cancels' = 0
  /\ UNCHANGED <<batchVars, late, dying>>
  /\ FlowOnly

\* The clean-up is cancelled while it waits: the invocations that still run are left as they
\* are, or, once the grace period has passed, cancelled again with the gather.
SettlingCancelled ==
  /\ flow = "settling"
  /\ flow' = "over" /\ cancels' = 0
  /\ dying' = IF cancels = 1 THEN dying ELSE Live
  /\ UNCHANGED <<batchVars, late>>
  /\ FlowOnly

-----------------------------------------------------------------------------
(* The surroundings.                                                       *)

\* cache_ttl passes, or another run completes a task of the key.
Expire ==
  /\ \E k \in Keys : completion[k] # None /\ completion' = [completion EXCEPT ![k] = None]
  /\ UNCHANGED <<pc, bodyVars, tellVars, cancelVars, slotVars, stored, returned, flowVars>>

\* A stored blob can no longer be read.
BlobLost ==
  /\ \E d \in stored : stored' = stored \ {d}
  /\ UNCHANGED <<pc, bodyVars, tellVars, cancelVars, slotVars, completion, returned, flowVars>>

TaskStep(t) ==
  \/ LookedUp(t) \/ LookupFails(t) \/ Hydrated(t) \/ Reused(t) \/ Opened(t) \/ Announced(t)
  \/ Begins(t) \/ SlotGranted(t) \/ SlotUnavailable(t) \/ BodyReturns(t) \/ AttemptFails(t)
  \/ BodyRaises(t) \/ Retry(t) \/ Persisted(t) \/ ArtifactsSaved(t) \/ Closed(t)
  \/ Reported(t) \/ SpanFailed(t) \/ FailureReported(t) \/ Cancelled(t)

Collecting == Woken \/ TimedOut \/ Taken \/ Looped
Settling == GraceOver \/ FlowOver \/ SettlingCancelled

Next ==
  \/ \E t \in Tasks : Dispatch(t) \/ TaskStep(t)
  \/ Collect \/ Collecting \/ DeadlinePasses \/ CancelHandle \/ FlowLeaves \/ Settling
  \/ Expire \/ BlobLost

Spec == Init /\ [][Next]_vars

\* The loop runs collect_tasks and the clean-up, the deadline passes, and a cancelled or
\* failed invocation closes its span and ends.  Nothing is assumed of the bodies.
FairSpec ==
  /\ Spec
  /\ WF_vars(Collecting) /\ WF_vars(DeadlinePasses) /\ WF_vars(FlowOver)
  /\ \A t \in Tasks : WF_vars(Cancelled(t) \/ SpanFailed(t) \/ FailureReported(t))

-----------------------------------------------------------------------------
(* Properties.                                                             *)

\* The state is well formed: an attempt is counted, a slot belongs to a body.
TypeOK ==
  /\ pc \in [Tasks -> Running \cup Ended \cup {"new"}]
  /\ attempt \in [Tasks -> 0..Attempts]
  /\ shas \in [Tasks -> SUBSET Docs] /\ result \in [Tasks -> SUBSET Docs]
  /\ span \in [Tasks -> {"none", "running", "completed", "cached", "failed"}]
  /\ told \in [Tasks -> SUBSET {"completed", "failed"}]
  /\ dying \subseteq Live /\ cancelled \subseteq Tasks
  /\ slots \subseteq {t \in Tasks : pc[t] = "body"} /\ available \in BOOLEAN
  /\ stored \subseteq Docs
  /\ completion \in [Keys -> (SUBSET Docs) \cup {None}]
  /\ returned \in [Keys -> SUBSET SUBSET Docs]
  /\ flow \in {"open", "collecting", "harvesting", "working", "settling", "over"}
  /\ handles \subseteq Tasks /\ pending \subseteq handles
  /\ harvest \subseteq handles /\ completed \subseteq handles /\ incomplete \subseteq handles
  /\ late \in BOOLEAN /\ cancels \in 0..(IF Cancels > 0 THEN Cancels ELSE 1)

\* A reused result is, in whole, what the body of some invocation with the same key returned:
\* neither a failed store nor a lost blob nor another invocation that completes meanwhile
\* makes a cached task return less or other documents (_load_cached_outputs).
ReusedAsReturned ==
  \A t \in Tasks : span[t] = "cached" => result[t] \in returned[Key[t]]

\* task.completed tells of a span that was closed as COMPLETED or CACHED, and no task.failed
\* goes with it; task.failed tells of one closed as FAILED, unless a cancellation came in
\* between (_execute_invocation).
EventsAgree ==
  \A t \in Tasks :
    /\ "completed" \in told[t] => span[t] \in {"completed", "cached"} /\ "failed" \notin told[t]
    /\ "failed" \in told[t] => span[t] = "failed" \/ t \in cancelled

\* While Prefect is believed to be available, every body holds a slot of the limit, and there
\* are never more than it has (pipeline_concurrency).
ThrottledWhileAvailable ==
  /\ Cardinality(slots) <= Limit
  /\ available => {t \in Tasks : pc[t] = "body"} \subseteq slots

\* The batch accounts for every handle once: the completed ones returned, and before the
\* deadline only those that raised are incomplete (collect_tasks).
BatchSplits ==
  flow = "working" =>
    /\ completed \cup incomplete = handles /\ completed \cap incomplete = {}
    /\ \A t \in completed : pc[t] = "returned"
    /\ late \/ \A t \in incomplete : pc[t] = "raised"

\* Bodies that never end hold up neither collect_tasks with a deadline nor the clean-up.
FlowNotStuck ==
  /\ flow \in {"collecting", "harvesting"} /\ Deadline ~> flow \notin {"collecting", "harvesting"}
  /\ flow = "settling" ~> flow = "over"
=============================================================================
