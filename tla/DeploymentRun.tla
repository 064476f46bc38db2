---------------------------- MODULE DeploymentRun ----------------------------
(***************************************************************************)
(* A deployment runs the flows of its plan one after the other over a      *)
(* blackboard of documents.  A run may raise, be cancelled or die at any   *)
(* await; the next run of the same inputs reuses the completed flows it    *)
(* finds in the span database (deployment/base.py _run_core and            *)
(* _run_tracked_deployment, deployment/_deployment_runtime.py).            *)
(*                                                                         *)
(* One action is the code between two awaits.  Flows are deterministic:    *)
(* Output(k, a) is what flow k returns for the argument a.  Documents are  *)
(* identified by their hash, so a document is its content and provenance.  *)
(***************************************************************************)
EXTENDS Naturals, Sequences

CONSTANTS
  Steps,        \* the length of the plan
  Docs,         \* documents
  None,         \* no document, no group, no gate
  Groups,       \* names of step groups
  Inputs,       \* the documents the deployment is called with
  Type,         \* the class of a document
  Flag,         \* the control field a gate reads: "true", "false" or "unparsable"
  GroupOf,      \* the group of a step, or None
  RunIf,        \* the run_if gate of a step, or None
  StopIf,       \* the group_stop_if gate of a group, or None
  Param,        \* the document parameter of a flow: [type, kind]
  Output(_, _), \* what a flow returns
  BySha(_),     \* a sequence of documents sorted by hash, as spans store it
  Uninterrupted,\* the blackboard of a run nothing disturbs, step by step
  Attempts,     \* flow_retries + 1
  Handles,      \* tasks a flow may have dispatched at once
  Ranges,       \* [first, last, reuse] of the runs that are started
  Cancels       \* how often a run may be cancelled from outside

VARIABLES
  phase,      \* where the run stands
  range,      \* [first, last, reuse]: start_step, end_step, the cache is enabled
  step,       \* the current step of the plan
  attempt,    \* the current attempt of its flow
  docs,       \* accumulated_docs
  stopped,    \* stopped_groups
  found,      \* the output hashes of the cached span just read, or what a flow returned
  live,       \* dispatched tasks still running (active_task_handles)
  dying,      \* those of them that were cancelled
  cancels,    \* cancellations still to come
  record,     \* status of the deployment span
  told,       \* which end of the run was published: run.completed, run.failed
  completion, \* the completed span of each step in the database, or None
  readable,   \* the outputs of flows the database can give back
  degraded    \* the outputs of some flow could not be stored (artifacts_degraded)

runVars == <<range, cancels>>
boardVars == <<docs, stopped>>
taskVars == <<live, dying>>
storeVars == <<completion, readable, degraded>>
vars == <<phase, range, step, attempt, docs, stopped, found, live, dying, cancels,
          record, told, completion, readable, degraded>>

Phases == {"off", "announce", "step", "hydrate", "resolve", "running", "retrying",
           "flowfailing", "flowdone", "settling", "unwinding", "report"}
Gate == [type : {Type[d] : d \in Docs}, op : {"truthy", "falsy"}, onMissing : {"run", "skip"}]

ASSUME StepsAssumption == Steps \in Nat \ {0}
ASSUME AttemptsAssumption == Attempts \in Nat \ {0}
ASSUME CancelsAssumption == Cancels \in Nat
ASSUME RangesAssumption ==
  Ranges \subseteq {r \in [first : 1..Steps, last : 1..Steps, reuse : BOOLEAN] : r.first <= r.last}
ASSUME DocsAssumption ==
  /\ None \notin Docs /\ None \notin Groups
  /\ Inputs \in Seq(Docs)
  /\ Flag \in [Docs -> {"true", "false", "unparsable"}]
ASSUME PlanAssumption ==
  /\ DOMAIN Type = Docs
  /\ GroupOf \in [1..Steps -> Groups \cup {None}]
  /\ RunIf \in [1..Steps -> Gate \cup {None}]
  /\ StopIf \in [Groups -> Gate \cup {None}]
  /\ Param \in [1..Steps -> [type : {Type[d] : d \in Docs}, kind : {"one", "optional", "all"}]]

-----------------------------------------------------------------------------
(* The blackboard and the gates.                                           *)

Values(s) == {s[i] : i \in DOMAIN s}

\* _deduplicate_documents_by_sha256: the first occurrence of each document stays.
Dedupe(s) ==
  LET first == SelectSeq([i \in DOMAIN s |-> i], LAMBDA i : \A j \in 1..(i - 1) : s[j] # s[i])
  IN  [n \in DOMAIN first |-> s[first[n]]]

Extend(board, outs) == Dedupe(board \o outs)

Matching(board, t) == SelectSeq(board, LAMBDA d : Type[d] = t)

Latest(board, t) ==
  LET m == Matching(board, t) IN IF m = <<>> THEN None ELSE m[Len(m)]

\* evaluate_field_gate: a document that does not parse counts as missing.
GateHolds(gate, board, context) ==
  LET d == Latest(board, gate.type)
  IN  IF d = None \/ Flag[d] = "unparsable"
      THEN gate.onMissing = (IF context = "run" THEN "run" ELSE "skip")
      ELSE Flag[d] = (IF gate.op = "truthy" THEN "true" ELSE "false")

\* apply_group_stop_gates: a stopped group stays stopped.
StopGroups(groups, board) ==
  groups \cup {g \in Groups : StopIf[g] # None /\ GateHolds(StopIf[g], board, "stop")}

\* A step whose group is stopped, or whose run_if gate does not pass, is bypassed.
Bypassed(k, board, groups) ==
  \/ GroupOf[k] # None /\ GroupOf[k] \in groups
  \/ RunIf[k] # None /\ ~GateHolds(RunIf[k], board, "run")

\* _resolve_flow_arguments: one document is the last match, a tuple takes all.
Argument(k, board) ==
  IF Param[k].kind = "all" THEN Matching(board, Param[k].type)
  ELSE <<Latest(board, Param[k].type)>>

Unresolved(k, board) == Param[k].kind = "one" /\ Latest(board, Param[k].type) = None

Returns(k, board) == Output(k, Argument(k, board))

\* The blackboard and the stopped groups after step k, if its flow returned outs.
After(board, groups, outs) ==
  [docs |-> Extend(board, outs), stopped |-> StopGroups(groups, Extend(board, outs))]

Fresh == [docs |-> Dedupe(Inputs), stopped |-> StopGroups({}, Dedupe(Inputs))]

\* Uninterrupted[k] is the blackboard after step k of a run that starts at step 1, finds
\* nothing to reuse and is never disturbed.  It is a constant, given by this recursion.
ASSUME UninterruptedAssumption ==
  /\ Uninterrupted[0] = Fresh
  /\ \A k \in 1..Steps :
       LET s == Uninterrupted[k - 1]
       IN  Uninterrupted[k] = IF Bypassed(k, s.docs, s.stopped) THEN s
                              ELSE After(s.docs, s.stopped, Returns(k, s.docs))

-----------------------------------------------------------------------------
NoRange == [first |-> 1, last |-> Steps, reuse |-> TRUE]

Init ==
  /\ phase = "off"
  /\ range = NoRange /\ step = 1 /\ attempt = 1
  /\ docs = Fresh.docs /\ stopped = Fresh.stopped
  /\ found = <<>>
  /\ live = {} /\ dying = {} /\ cancels = Cancels
  /\ record = "none" /\ told = {}
  /\ completion = [k \in 1..Steps |-> None]
  /\ readable = {}
  /\ degraded = FALSE

-----------------------------------------------------------------------------
(* Leaving the normal course.                                              *)

\* Mutant: the tasks are left to themselves.
KeepHandles == UNCHANGED dying

\* _cancel_dispatched_handles: every running task is cancelled, then awaited.
CancelHandles == dying' = live

Settled == dying \cap live = {}

\* The run is over, and what it held in its locals gone.
Leave ==
  /\ phase' = "off"
  /\ range' = NoRange /\ step' = 1 /\ attempt' = 1
  /\ docs' = Fresh.docs /\ stopped' = Fresh.stopped /\ found' = <<>>
  /\ cancels' = Cancels

\* The except block of _run_tracked_deployment.
Unwind == phase' = "unwinding" /\ CancelHandles

\* The except block of _execute_flow_with_context.
FailFlow == phase' = "flowfailing" /\ CancelHandles

Restoring == step < range.first

\* The loop goes on with the next step, or leaves for the result.
NextStep(board, groups) ==
  /\ docs' = board /\ stopped' = groups
  /\ step' = step + 1
  /\ found' = <<>>
  /\ phase' = "step"

-----------------------------------------------------------------------------
(* The run.                                                                *)

\* A process starts a run: from the first step or a later one, to the last or an earlier.
Start ==
  /\ phase = "off"
  /\ \E r \in Ranges : range' = r
  /\ phase' = "announce"
  /\ live' = {} /\ dying' = {}
  /\ record' = "running" /\ told' = {}
  /\ UNCHANGED <<boardVars, storeVars, step, attempt, found, cancels>>

\* run.started is published and the limits are registered; with start_step = 1 nothing is
\* restored and the loop begins.
Announce ==
  /\ phase = "announce"
  /\ phase' = "step"
  /\ UNCHANGED <<runVars, boardVars, storeVars, step, attempt, found, taskVars, record, told>>

\* An await outside the flow raises: a publish, a span, the result builder of the user.
RaiseOutside ==
  /\ phase \in {"announce", "step", "hydrate", "flowdone"}
  /\ Unwind
  /\ UNCHANGED <<runVars, boardVars, storeVars, step, attempt, found, live, record, told>>

\* The step is bypassed.  In the loop a SKIPPED span and flow.skipped tell of it.
Bypass ==
  /\ phase = "step" /\ step <= range.last
  /\ Bypassed(step, docs, stopped)
  /\ NextStep(docs, stopped)
  /\ UNCHANGED <<runVars, storeVars, attempt, taskVars, record, told>>

Wanted == phase = "step" /\ step <= range.last /\ ~Bypassed(step, docs, stopped)

\* _reuse_cached_flow_output reads the completed span.  One without output hashes is a hit
\* as it stands; the documents of any other are loaded first.
CacheHit ==
  /\ Wanted
  /\ Restoring \/ range.reuse
  /\ completion[step] # None
  /\ found' = completion[step]
  /\ phase' = "hydrate"
  /\ UNCHANGED <<runVars, boardVars, storeVars, step, attempt, taskVars, record, told>>

CacheMiss ==
  /\ Wanted
  /\ IF Restoring THEN completion[step] = None ELSE range.reuse => completion[step] = None
  /\ IF Restoring THEN Unwind ELSE phase' = "resolve" /\ UNCHANGED dying
  /\ UNCHANGED <<runVars, boardVars, storeVars, step, attempt, found, live, record, told>>

\* Mutant: the documents that can still be loaded are taken for all of them.
HydratedPartly ==
  /\ phase = "hydrate"
  /\ LET s == After(docs, stopped, SelectSeq(found, LAMBDA d : d \in readable))
     IN  NextStep(s.docs, s.stopped)
  /\ UNCHANGED <<runVars, storeVars, attempt, taskVars, record, told>>

\* Every document of the cached span can be loaded: they join the blackboard, in the order
\* of the span's hashes, and the loop goes on.
Hydrated ==
  /\ phase = "hydrate"
  /\ Values(found) \subseteq readable
  /\ LET s == After(docs, stopped, found) IN NextStep(s.docs, s.stopped)
  /\ UNCHANGED <<runVars, storeVars, attempt, taskVars, record, told>>

\* Hydration is incomplete: the cached span is ignored, and a restore gives up.
NotHydrated ==
  /\ phase = "hydrate"
  /\ ~(Values(found) \subseteq readable)
  /\ IF Restoring THEN Unwind ELSE phase' = "resolve" /\ UNCHANGED dying
  /\ UNCHANGED <<runVars, boardVars, storeVars, step, attempt, found, live, record, told>>

\* _execute_flow_with_context: the arguments are resolved, the FLOW span opens and
\* flow.started is published.
FlowBegins ==
  /\ phase = "resolve"
  /\ ~Unresolved(step, docs)
  /\ phase' = "running" /\ attempt' = 1
  /\ UNCHANGED <<runVars, boardVars, storeVars, step, found, taskVars, record, told>>

\* A required document is missing, before the try block; or flow.started cannot be published.
FlowNotBegun ==
  /\ phase = "resolve"
  /\ IF Unresolved(step, docs) THEN Unwind ELSE FailFlow
  /\ UNCHANGED <<runVars, boardVars, storeVars, step, attempt, found, live, record, told>>

\* The flow, or a task that was not cancelled, dispatches a task nobody need await.
Dispatch ==
  /\ phase = "running" \/ live \ dying # {}
  /\ \E h \in Handles \ live : live' = live \cup {h} /\ dying' = dying \ {h}
  /\ UNCHANGED <<runVars, boardVars, storeVars, phase, step, attempt, found, record, told>>

\* A task ends, of itself or because it was cancelled.
TaskEnds(h) ==
  /\ h \in live
  /\ live' = live \ {h} /\ dying' = dying \ {h}
  /\ UNCHANGED <<runVars, boardVars, storeVars, phase, step, attempt, found, record, told>>

\* The flow returns: its span is closed.  Storing the outputs may fail, which blanks their
\* hashes and still completes the span; the row itself may be given up by the sink.
FlowReturns ==
  /\ phase = "running"
  /\ LET outs == Returns(step, docs)
     IN  /\ found' = outs
         /\ \/ /\ readable' = readable \cup Values(outs)
               /\ completion' = [completion EXCEPT ![step] = BySha(outs)]
               /\ UNCHANGED degraded
            \/ /\ completion' = [completion EXCEPT ![step] = <<>>]
               /\ degraded' = TRUE
               /\ UNCHANGED readable
            \/ /\ readable' = readable \cup Values(outs)
               /\ UNCHANGED <<completion, degraded>>
  /\ phase' = "flowdone"
  /\ UNCHANGED <<runVars, boardVars, step, attempt, taskVars, record, told>>

\* Mutant: one retry too many.
AttemptFailsOnceMore ==
  /\ phase = "running"
  /\ IF attempt <= Attempts THEN phase' = "retrying" /\ CancelHandles ELSE FailFlow
  /\ UNCHANGED <<runVars, boardVars, storeVars, step, attempt, found, live, record, told>>

\* A retriable error: the tasks of the attempt are cancelled and awaited.
AttemptFails ==
  /\ phase = "running"
  /\ IF attempt < Attempts THEN phase' = "retrying" /\ CancelHandles ELSE FailFlow
  /\ UNCHANGED <<runVars, boardVars, storeVars, step, attempt, found, live, record, told>>

\* NonRetriableError, TypeError or a cancellation inside the flow.
FlowRaises ==
  /\ phase = "running"
  /\ FailFlow
  /\ UNCHANGED <<runVars, boardVars, storeVars, step, attempt, found, live, record, told>>

\* Mutant: the attempts are not counted.
RetryForever ==
  /\ phase = "retrying" /\ Settled
  /\ phase' = "running"
  /\ UNCHANGED <<runVars, boardVars, storeVars, step, attempt, found, taskVars, record, told>>

\* The backoff is over.
Retry ==
  /\ phase = "retrying" /\ Settled
  /\ phase' = "running" /\ attempt' = attempt + 1
  /\ UNCHANGED <<runVars, boardVars, storeVars, step, found, taskVars, record, told>>

\* flow.failed is published and the error goes up.
FlowFailed ==
  /\ phase = "flowfailing" /\ Settled
  /\ Unwind
  /\ UNCHANGED <<runVars, boardVars, storeVars, step, attempt, found, live, record, told>>

\* flow.completed is published; the tasks the flow left behind are cancelled.
FlowCompleted ==
  /\ phase = "flowdone"
  /\ phase' = "settling" /\ CancelHandles
  /\ UNCHANGED <<runVars, boardVars, storeVars, step, attempt, found, live, record, told>>

\* When they have ended, the outputs join the blackboard.
BoardUpdated ==
  /\ phase = "settling" /\ Settled
  /\ LET s == After(docs, stopped, found) IN NextStep(s.docs, s.stopped)
  /\ UNCHANGED <<runVars, storeVars, attempt, taskVars, record, told>>

\* After the last step the result is built and the deployment span completes.
ResultBuilt ==
  /\ phase = "step" /\ step > range.last
  /\ phase' = "report" /\ record' = "completed"
  /\ UNCHANGED <<runVars, boardVars, storeVars, step, attempt, found, taskVars, told>>

\* publish_run_completed.  If it raises (a result over the Pub/Sub limit does), run.failed is
\* published instead, or beside a run.completed that was handed over before; either may be lost.
Reported ==
  /\ phase = "report"
  /\ told' \in SUBSET {"completed", "failed"}
  /\ Leave
  /\ UNCHANGED <<storeVars, taskVars, record>>

\* The deployment span fails and run.failed is published, or lost with a warning.
RunFailed ==
  /\ phase = "unwinding" /\ Settled
  /\ record' = "failed"
  /\ told' \in {told, told \cup {"failed"}}
  /\ Leave
  /\ UNCHANGED <<storeVars, taskVars>>

-----------------------------------------------------------------------------
(* The surroundings.                                                       *)

\* CancelledError at the await the run stands at.  While the tasks of the run are awaited
\* for the last time, it ends the wait; while run.completed is published, the message may
\* be out, and run.failed is published of a run that is recorded as completed.
Cancelled ==
  /\ cancels > 0
  /\ phase # "off"
  /\ \/ /\ phase \in {"running", "retrying"}
        /\ FailFlow
        /\ cancels' = cancels - 1
        /\ UNCHANGED <<range, boardVars, step, attempt, found, record, told>>
     \/ /\ phase = "unwinding"
        /\ Leave
        /\ record' = "failed" /\ told' \in {told, told \cup {"failed"}}
        /\ UNCHANGED dying
     \/ /\ phase = "report"
        /\ Leave
        /\ told' \in SUBSET {"completed", "failed"}
        /\ UNCHANGED <<record, dying>>
     \/ /\ phase \notin {"running", "retrying", "unwinding", "report"}
        /\ Unwind
        /\ cancels' = cancels - 1
        /\ UNCHANGED <<range, boardVars, step, attempt, found, record, told>>
  /\ UNCHANGED <<storeVars, live>>

\* The process dies.
Crash ==
  /\ phase # "off"
  /\ Leave
  /\ live' = {} /\ dying' = {}
  /\ UNCHANGED <<storeVars, record, told>>

\* cache_ttl passes for a completed span.
Expire ==
  /\ \E k \in 1..Steps : completion[k] # None /\ completion' = [completion EXCEPT ![k] = None]
  /\ UNCHANGED <<runVars, boardVars, phase, step, attempt, found, taskVars, record, told,
                 readable, degraded>>

\* A stored document can no longer be read: its class is gone, its blob is lost.
Unreadable ==
  /\ \E d \in readable : readable' = readable \ {d}
  /\ UNCHANGED <<runVars, boardVars, phase, step, attempt, found, taskVars, record, told,
                 completion, degraded>>

RunStep ==
  \/ Announce \/ RaiseOutside \/ Bypass \/ CacheHit \/ CacheMiss \/ Hydrated \/ NotHydrated
  \/ FlowBegins \/ FlowNotBegun \/ FlowReturns \/ AttemptFails \/ FlowRaises \/ Retry
  \/ FlowFailed \/ FlowCompleted \/ BoardUpdated \/ ResultBuilt \/ Reported \/ RunFailed

Next ==
  \/ Start \/ RunStep \/ Dispatch \/ (\E h \in Handles : TaskEnds(h))
  \/ Cancelled \/ Crash \/ Expire \/ Unreadable

Spec == Init /\ [][Next]_vars

\* The event loop runs a run that can go on, and a cancelled task ends.
FairSpec ==
  /\ Spec
  /\ WF_vars(RunStep)
  /\ \A h \in Handles : WF_vars(h \in dying /\ TaskEnds(h))

-----------------------------------------------------------------------------
(* Properties.                                                             *)

\* The state is well formed: the run never leaves the plan, and a cached span is read only
\* where one is wanted.
TypeOK ==
  /\ phase \in Phases
  /\ range \in [first : 1..Steps, last : 1..Steps, reuse : BOOLEAN]
  /\ range.first <= range.last
  /\ step \in 1..(range.last + 1) /\ attempt \in 1..Attempts
  /\ live \subseteq Handles /\ dying \subseteq live
  /\ cancels \in 0..Cancels
  /\ record \in {"none", "running", "completed", "failed"}
  /\ told \subseteq {"completed", "failed"}
  /\ DOMAIN completion = 1..Steps
  /\ degraded \in BOOLEAN

InLoop == phase \in {"announce", "step", "hydrate", "resolve", "running", "retrying", "flowdone",
                    "settling"}

\* The blackboard and the stopped groups are those of a run nothing disturbed.
AsUninterrupted == docs = Uninterrupted[step - 1].docs /\ stopped = Uninterrupted[step - 1].stopped

\* The hashes of a span are sorted: the plan does not depend on the order of the outputs
\* that are reused when they happen to be sorted as they are.
OrderKept ==
  \A k \in 1..Steps :
    LET outs == Returns(k, Uninterrupted[k - 1].docs) IN BySha(outs) = outs

\* Whatever was raised, cancelled, lost or expired before, at every step of every run, from
\* whichever step it starts, the flow sees the blackboard an undisturbed run would give it,
\* as long as outputs could be stored (_restore_resume_blackboard, _reuse_cached_flow_output).
ResumedAsUninterrupted == (~degraded /\ InLoop) => (AsUninterrupted \/ ~OrderKept)

\* The contract of resuming without the conditions: it changes nothing of the meaning of the
\* results before (docs/3-contract/tools/4-run.md).
ResumeChangesNothing == InLoop => AsUninterrupted

\* Only the flows of the range that was asked for are run: a restore reuses or gives up.
FlowsInRange ==
  phase \in {"resolve", "running", "retrying", "flowfailing", "flowdone", "settling"}
    => step \in range.first..range.last

\* A later attempt or step begins with no task of an earlier one, and a run leaves nothing
\* behind that was not told to stop (_cancel_dispatched_handles and its four callers).
NoStragglers ==
  [][/\ (step' > step \/ attempt' > attempt) => live' = {}
     /\ phase' = "off" => live' \subseteq dying']_vars

\* Every run ends, however often the database and the publishers fail it: the waits for
\* cancelled tasks end because these end.
EveryRunEnds == phase # "off" ~> phase = "off"
=============================================================================
