---------------------------- MODULE TaskRunProofs ----------------------------
(***************************************************************************)
(* What is proved of TaskRun, for any number of invocations, keys, retries  *)
(* and slots.  Every part of the invariant is preserved by every action.    *)
(***************************************************************************)
EXTENDS TaskRun, FiniteSetTheorems, TLAPS

USE KeyAssumption, DocsAssumption, BoundsAssumption, TasksAssumption

\* Where a key is used, there is one; where hashes are held, there are some.
Keyed ==
  \A t \in Tasks :
    /\ pc[t] \in {"lookup", "hydrate", "reuse"} \/ span[t] = "cached" => Key[t] \in Keys
    /\ pc[t] \notin {"hydrate", "closing"} => shas[t] = {}
    /\ span[t] = "cached" => pc[t] \in {"report", "returned", "raised"}
    /\ pc[t] = "backoff" => attempt[t] < Attempts

\* What is held, stored or given out under a key was returned by a body of that key.
Whole ==
  /\ \A k \in Keys : completion[k] \notin {None, {}} => completion[k] \in returned[k]
  /\ \A t \in Tasks : Key[t] \in Keys =>
       /\ pc[t] = "hydrate" => shas[t] \in returned[Key[t]]
       /\ pc[t] = "closing" => shas[t] = {} \/ shas[t] \in returned[Key[t]]
       /\ pc[t] \in {"reuse", "persist", "artifacts", "closing"} => result[t] \in returned[Key[t]]
       /\ span[t] = "cached" => result[t] \in returned[Key[t]]

\* How the span was closed, by where the invocation stands and what was published.
Told ==
  \A t \in Tasks :
    /\ told[t] # {} => pc[t] \in Ended
    /\ pc[t] \in {"report", "returned"} => span[t] \in {"completed", "cached"}
    /\ pc[t] = "reportfail" => span[t] = "failed" \/ t \in cancelled

Throttled ==
  /\ Cardinality(slots) <= Limit
  /\ available => \A t \in Tasks : pc[t] = "body" => t \in slots

\* Every handle is in one place of the batch.
Batch ==
  /\ flow \notin {"settling", "over", "open"} =>
       handles = pending \cup harvest \cup completed \cup incomplete
  /\ flow = "open" => handles = {}
  /\ flow = "working" => pending = {}
  /\ flow \in {"collecting", "working"} => harvest = {}
  /\ completed \cap (incomplete \cup harvest \cup pending) = {}
  /\ incomplete \cap (harvest \cup pending) = {} /\ harvest \cap pending = {}
  /\ \A t \in completed : pc[t] = "returned"
  /\ \A t \in harvest : pc[t] \in Ended
  /\ late \/ \A t \in incomplete : pc[t] = "raised"

Inv == TypeOK /\ Keyed /\ Whole /\ Told /\ EventsAgree /\ Throttled /\ Batch

-----------------------------------------------------------------------------
\* A set of slots is finite, and giving one back makes it no larger.
LEMMA SlotsCount ==
  ASSUME NEW S, S \subseteq Tasks, NEW t
  PROVE  /\ IsFiniteSet(S) /\ Cardinality(S) \in Nat
         /\ Cardinality(S \ {t}) <= Cardinality(S)
         /\ t \notin S => Cardinality(S \cup {t}) = Cardinality(S) + 1
<1>1. IsFiniteSet(S)
  BY FS_Subset
<1>2. Cardinality(S) \in Nat
  BY <1>1, FS_CardinalityType
<1>3. Cardinality(S \ {t}) <= Cardinality(S)
  BY <1>1, FS_Subset
<1>4. t \notin S => Cardinality(S \cup {t}) = Cardinality(S) + 1
  BY <1>1, FS_AddElement
<1>. QED
  BY <1>1, <1>2, <1>3, <1>4

\* Every step keeps the state well formed.
LEMMA TypeStep == ASSUME Inv, [Next]_vars PROVE TypeOK'
<1>1. ASSUME NEW t \in Tasks, Dispatch(t) PROVE TypeOK'
  BY <1>1 DEF Dispatch, GoTo, Inv, TypeOK, Running, Ended, Live, bodyVars, tellVars, cancelVars,
     slotVars, storeVars, batchVars, flowVars
<1>2. ASSUME NEW t \in Tasks, LookedUp(t) PROVE TypeOK'
  BY <1>2 DEF LookedUp, At, GoTo, Inv, TypeOK, Keyed, Running, Ended, Live, bodyVars, tellVars,
     cancelVars, slotVars, storeVars, batchVars, flowVars
<1>3. ASSUME NEW t \in Tasks, LookupFails(t) PROVE TypeOK'
  BY <1>3 DEF LookupFails, At, GoTo, Inv, TypeOK, Running, Ended, Live, bodyVars, tellVars,
     cancelVars, slotVars, storeVars, batchVars, flowVars
<1>4. ASSUME NEW t \in Tasks, Hydrated(t) PROVE TypeOK'
  BY <1>4 DEF Hydrated, At, Loadable, GoTo, Inv, TypeOK, Running, Ended, Live, bodyVars,
     tellVars, cancelVars, slotVars, storeVars, batchVars, flowVars
<1>5. ASSUME NEW t \in Tasks, Reused(t) PROVE TypeOK'
  BY <1>5 DEF Reused, At, GoTo, Inv, TypeOK, Running, Ended, Live, bodyVars, tellVars,
     cancelVars, slotVars, storeVars, batchVars, flowVars
<1>6. ASSUME NEW t \in Tasks, Opened(t) PROVE TypeOK'
  BY <1>6 DEF Opened, At, GoTo, Inv, TypeOK, Running, Ended, Live, bodyVars, tellVars,
     cancelVars, slotVars, storeVars, batchVars, flowVars
<1>7. ASSUME NEW t \in Tasks, Announced(t) PROVE TypeOK'
  BY <1>7 DEF Announced, At, GoTo, Inv, TypeOK, Running, Ended, Live, bodyVars, tellVars,
     cancelVars, slotVars, storeVars, batchVars, flowVars
<1>8. ASSUME NEW t \in Tasks, Begins(t) PROVE TypeOK'
  BY <1>8 DEF Begins, At, GoTo, Inv, TypeOK, Running, Ended, Live, bodyVars, tellVars,
     cancelVars, slotVars, storeVars, batchVars, flowVars
<1>9. ASSUME NEW t \in Tasks, SlotGranted(t) PROVE TypeOK'
  BY <1>9 DEF SlotGranted, At, GoTo, Inv, TypeOK, Running, Ended, Live, bodyVars, tellVars,
     cancelVars, slotVars, storeVars, batchVars, flowVars
<1>10. ASSUME NEW t \in Tasks, SlotUnavailable(t) PROVE TypeOK'
  BY <1>10 DEF SlotUnavailable, At, GoTo, Inv, TypeOK, Running, Ended, Live, bodyVars, tellVars,
     cancelVars, slotVars, storeVars, batchVars, flowVars
<1>11. ASSUME NEW t \in Tasks, BodyReturns(t) PROVE TypeOK'
  BY <1>11 DEF BodyReturns, At, Leaves, GoTo, Inv, TypeOK, Running, Ended, Live, bodyVars,
     tellVars, cancelVars, slotVars, storeVars, batchVars, flowVars
<1>12. ASSUME NEW t \in Tasks, AttemptFails(t) PROVE TypeOK'
  BY <1>12 DEF AttemptFails, At, Leaves, GoTo, Inv, TypeOK, Running, Ended, Live, bodyVars,
     tellVars, cancelVars, slotVars, storeVars, batchVars, flowVars
<1>13. ASSUME NEW t \in Tasks, BodyRaises(t) PROVE TypeOK'
  BY <1>13 DEF BodyRaises, At, Leaves, GoTo, Inv, TypeOK, Running, Ended, Live, bodyVars,
     tellVars, cancelVars, slotVars, storeVars, batchVars, flowVars
<1>14. ASSUME NEW t \in Tasks, Retry(t) PROVE TypeOK'
  <2>1. attempt[t] \in 0..Attempts /\ attempt[t] < Attempts
    BY <1>14 DEF Retry, At, Inv, TypeOK, Keyed
  <2>2. attempt[t] + 1 \in 0..Attempts
    BY <2>1
  <2>. QED
    BY <2>2, <1>14 DEF Retry, At, GoTo, Inv, TypeOK, Running, Ended, Live, bodyVars, tellVars,
       cancelVars, slotVars, storeVars, batchVars, flowVars
<1>15. ASSUME NEW t \in Tasks, Persisted(t) PROVE TypeOK'
  BY <1>15 DEF Persisted, At, Save, GoTo, Inv, TypeOK, Running, Ended, Live, bodyVars, tellVars,
     cancelVars, slotVars, storeVars, batchVars, flowVars
<1>16. ASSUME NEW t \in Tasks, ArtifactsSaved(t) PROVE TypeOK'
  BY <1>16 DEF ArtifactsSaved, At, Save, GoTo, Inv, TypeOK, Running, Ended, Live, bodyVars,
     tellVars, cancelVars, slotVars, storeVars, batchVars, flowVars
<1>17. ASSUME NEW t \in Tasks, Closed(t) PROVE TypeOK'
  BY <1>17 DEF Closed, At, RowWritten, GoTo, Inv, TypeOK, Running, Ended, Live, bodyVars,
     tellVars, cancelVars, slotVars, storeVars, batchVars, flowVars
<1>18. ASSUME NEW t \in Tasks, Reported(t) PROVE TypeOK'
  BY <1>18 DEF Reported, At, Publish, GoTo, Inv, TypeOK, Running, Ended, Live, bodyVars,
     tellVars, cancelVars, slotVars, storeVars, batchVars, flowVars
<1>19. ASSUME NEW t \in Tasks, SpanFailed(t) PROVE TypeOK'
  BY <1>19 DEF SpanFailed, At, GoTo, Inv, TypeOK, Running, Ended, Live, bodyVars, tellVars,
     cancelVars, slotVars, storeVars, batchVars, flowVars
<1>20. ASSUME NEW t \in Tasks, FailureReported(t) PROVE TypeOK'
  BY <1>20 DEF FailureReported, At, Publish, GoTo, Inv, TypeOK, Running, Ended, Live, bodyVars,
     tellVars, cancelVars, slotVars, storeVars, batchVars, flowVars
<1>21. ASSUME NEW t \in Tasks, CancelledBefore(t) PROVE TypeOK'
  BY <1>21 DEF CancelledBefore, Raised, Leaves, GoTo, Inv, TypeOK, Running, Ended, Live,
     bodyVars, tellVars, cancelVars, slotVars, storeVars, batchVars, flowVars
<1>22. ASSUME NEW t \in Tasks, CancelledInside(t) PROVE TypeOK'
  BY <1>22 DEF CancelledInside, Raised, Leaves, GoTo, Inv, TypeOK, Running, Ended, Live,
     bodyVars, tellVars, cancelVars, slotVars, storeVars, batchVars, flowVars
<1>23. ASSUME NEW t \in Tasks, CancelledAtSpan(t) PROVE TypeOK'
  BY <1>23 DEF CancelledAtSpan, Raised, Leaves, RowWritten, GoTo, Inv, TypeOK, Running, Ended,
     Live, bodyVars, tellVars, cancelVars, slotVars, storeVars, batchVars, flowVars
<1>24. ASSUME NEW t \in Tasks, CancelledAfter(t) PROVE TypeOK'
  BY <1>24 DEF CancelledAfter, Raised, Leaves, Publish, GoTo, Inv, TypeOK, Running, Ended, Live,
     bodyVars, tellVars, cancelVars, slotVars, storeVars, batchVars, flowVars
<1>25. CASE Collect
  <2>1. completed = {} /\ incomplete = {} /\ harvest = {}
    BY <1>25 DEF Collect, Inv, TypeOK, Batch
  <2>2. handles' \subseteq Tasks /\ late' \in BOOLEAN /\ UNCHANGED <<completed, cancels, dying>>
    BY <1>25 DEF Collect
  <2>3. /\ pending' \subseteq handles' /\ harvest' \subseteq handles' /\ completed' \subseteq handles'
        /\ incomplete' \subseteq handles' /\ flow' \in {"collecting", "working"}
    BY <2>1, <2>2, <1>25 DEF Collect, BatchReturned
  <2>. QED
    BY <2>2, <2>3, <1>25 DEF Collect, FlowOnly, Inv, TypeOK, Live, bodyVars, tellVars, slotVars,
       storeVars
<1>26. CASE Woken
  BY <1>26 DEF Woken, FlowOnly, Done, Inv, TypeOK, Running, Ended, Live, bodyVars, tellVars,
     cancelVars, slotVars, storeVars, batchVars, flowVars
<1>27. CASE TimedOut
  BY <1>27 DEF TimedOut, BatchReturned, FlowOnly, Inv, TypeOK, Running, Ended, Live, bodyVars,
     tellVars, cancelVars, slotVars, storeVars, batchVars, flowVars
<1>28. CASE Taken
  BY <1>28 DEF Taken, FlowOnly, Inv, TypeOK, Running, Ended, Live, bodyVars, tellVars,
     cancelVars, slotVars, storeVars, batchVars, flowVars
<1>29. CASE Looped
  BY <1>29 DEF Looped, BatchReturned, FlowOnly, Inv, TypeOK, Running, Ended, Live, bodyVars,
     tellVars, cancelVars, slotVars, storeVars, batchVars, flowVars
<1>30. CASE DeadlinePasses
  BY <1>30 DEF DeadlinePasses, FlowOnly, Inv, TypeOK, Running, Ended, Live, bodyVars, tellVars,
     cancelVars, slotVars, storeVars, batchVars, flowVars
<1>31. CASE CancelHandle
  BY <1>31 DEF CancelHandle, FlowOnly, Inv, TypeOK, Running, Ended, Live, bodyVars, tellVars,
     cancelVars, slotVars, storeVars, batchVars, flowVars
<1>32. CASE FlowLeaves
  <2>1. Live' = Live
    BY <1>32 DEF FlowLeaves, FlowOnly, Live
  <2>2. cancels' \in 0..(IF Cancels > 0 THEN Cancels ELSE 1)
    BY <1>32 DEF FlowLeaves
  <2>. QED
    BY <2>1, <2>2, <1>32 DEF FlowLeaves, FlowOnly, Inv, TypeOK, bodyVars, tellVars, slotVars,
       storeVars
<1>33. CASE GraceOver
  BY <1>33 DEF GraceOver, FlowOnly, Inv, TypeOK, Running, Ended, Live, bodyVars, tellVars,
     cancelVars, slotVars, storeVars, batchVars, flowVars
<1>34. CASE FlowOver \/ SettlingCancelled
  BY <1>34 DEF FlowOver, SettlingCancelled, FlowOnly, Inv, TypeOK, Running, Ended, Live, bodyVars, tellVars,
     cancelVars, slotVars, storeVars, batchVars, flowVars
<1>35. CASE Expire
  BY <1>35 DEF Expire, Inv, TypeOK, Running, Ended, Live, bodyVars, tellVars, cancelVars,
     slotVars, storeVars, batchVars, flowVars
<1>36. CASE BlobLost
  BY <1>36 DEF BlobLost, Inv, TypeOK, Running, Ended, Live, bodyVars, tellVars, cancelVars,
     slotVars, storeVars, batchVars, flowVars
<1>37. CASE UNCHANGED vars
  BY <1>37 DEF vars, Inv, TypeOK, Running, Ended, Live, bodyVars, tellVars, cancelVars,
     slotVars, storeVars, batchVars, flowVars
<1>. QED
  BY <1>1, <1>2, <1>3, <1>4, <1>5, <1>6, <1>7, <1>8, <1>9, <1>10, <1>11, <1>12, <1>13, <1>14,
     <1>15, <1>16, <1>17, <1>18, <1>19, <1>20, <1>21, <1>22, <1>23, <1>24, <1>25, <1>26, <1>27,
     <1>28, <1>29, <1>30, <1>31, <1>32, <1>33, <1>34, <1>35, <1>36, <1>37 DEF Next, TaskStep,
     Cancelled, Collecting, Settling

\* No step uses a key or hashes that are not there.
LEMMA KeyedStep == ASSUME Inv, [Next]_vars PROVE Keyed'
<1>1. ASSUME NEW t \in Tasks, Dispatch(t) PROVE Keyed'
  BY <1>1 DEF Dispatch, GoTo, Inv, TypeOK, Keyed, Running, Ended, bodyVars, tellVars,
     cancelVars, slotVars, storeVars, batchVars, flowVars
<1>2. ASSUME NEW t \in Tasks, LookedUp(t) PROVE Keyed'
  BY <1>2 DEF LookedUp, At, GoTo, Inv, TypeOK, Keyed, Running, Ended, bodyVars, tellVars,
     cancelVars, slotVars, storeVars, batchVars, flowVars
<1>3. ASSUME NEW t \in Tasks, LookupFails(t) PROVE Keyed'
  BY <1>3 DEF LookupFails, At, GoTo, Inv, TypeOK, Keyed, Running, Ended, bodyVars, tellVars,
     cancelVars, slotVars, storeVars, batchVars, flowVars
<1>4. ASSUME NEW t \in Tasks, Hydrated(t) PROVE Keyed'
  BY <1>4 DEF Hydrated, At, Loadable, GoTo, Inv, TypeOK, Keyed, Running, Ended, bodyVars,
     tellVars, cancelVars, slotVars, storeVars, batchVars, flowVars
<1>5. ASSUME NEW t \in Tasks, Reused(t) PROVE Keyed'
  BY <1>5 DEF Reused, At, GoTo, Inv, TypeOK, Keyed, Running, Ended, bodyVars, tellVars,
     cancelVars, slotVars, storeVars, batchVars, flowVars
<1>6. ASSUME NEW t \in Tasks, Opened(t) PROVE Keyed'
  BY <1>6 DEF Opened, At, GoTo, Inv, TypeOK, Keyed, Running, Ended, bodyVars, tellVars,
     cancelVars, slotVars, storeVars, batchVars, flowVars
<1>7. ASSUME NEW t \in Tasks, Announced(t) PROVE Keyed'
  BY <1>7 DEF Announced, At, GoTo, Inv, TypeOK, Keyed, Running, Ended, bodyVars, tellVars,
     cancelVars, slotVars, storeVars, batchVars, flowVars
<1>8. ASSUME NEW t \in Tasks, Begins(t) PROVE Keyed'
  BY <1>8 DEF Begins, At, GoTo, Inv, TypeOK, Keyed, Running, Ended, bodyVars, tellVars,
     cancelVars, slotVars, storeVars, batchVars, flowVars
<1>9. ASSUME NEW t \in Tasks, SlotGranted(t) PROVE Keyed'
  BY <1>9 DEF SlotGranted, At, GoTo, Inv, TypeOK, Keyed, Running, Ended, bodyVars, tellVars,
     cancelVars, slotVars, storeVars, batchVars, flowVars
<1>10. ASSUME NEW t \in Tasks, SlotUnavailable(t) PROVE Keyed'
  BY <1>10 DEF SlotUnavailable, At, GoTo, Inv, TypeOK, Keyed, Running, Ended, bodyVars,
     tellVars, cancelVars, slotVars, storeVars, batchVars, flowVars
<1>11. ASSUME NEW t \in Tasks, BodyReturns(t) PROVE Keyed'
  BY <1>11 DEF BodyReturns, At, Leaves, GoTo, Inv, TypeOK, Keyed, Running, Ended, bodyVars,
     tellVars, cancelVars, slotVars, storeVars, batchVars, flowVars
<1>12. ASSUME NEW t \in Tasks, AttemptFails(t) PROVE Keyed'
  BY <1>12 DEF AttemptFails, At, Leaves, GoTo, Inv, TypeOK, Keyed, Running, Ended, bodyVars,
     tellVars, cancelVars, slotVars, storeVars, batchVars, flowVars
<1>13. ASSUME NEW t \in Tasks, BodyRaises(t) PROVE Keyed'
  BY <1>13 DEF BodyRaises, At, Leaves, GoTo, Inv, TypeOK, Keyed, Running, Ended, bodyVars,
     tellVars, cancelVars, slotVars, storeVars, batchVars, flowVars
<1>14. ASSUME NEW t \in Tasks, Retry(t) PROVE Keyed'
  BY <1>14 DEF Retry, At, GoTo, Inv, TypeOK, Keyed, Running, Ended, bodyVars, tellVars,
     cancelVars, slotVars, storeVars, batchVars, flowVars
<1>15. ASSUME NEW t \in Tasks, Persisted(t) PROVE Keyed'
  BY <1>15 DEF Persisted, At, Save, GoTo, Inv, TypeOK, Keyed, Running, Ended, bodyVars,
     tellVars, cancelVars, slotVars, storeVars, batchVars, flowVars
<1>16. ASSUME NEW t \in Tasks, ArtifactsSaved(t) PROVE Keyed'
  BY <1>16 DEF ArtifactsSaved, At, Save, GoTo, Inv, TypeOK, Keyed, Running, Ended, bodyVars,
     tellVars, cancelVars, slotVars, storeVars, batchVars, flowVars
<1>17. ASSUME NEW t \in Tasks, Closed(t) PROVE Keyed'
  BY <1>17 DEF Closed, At, RowWritten, GoTo, Inv, TypeOK, Keyed, Running, Ended, bodyVars,
     tellVars, cancelVars, slotVars, storeVars, batchVars, flowVars
<1>18. ASSUME NEW t \in Tasks, Reported(t) PROVE Keyed'
  BY <1>18 DEF Reported, At, Publish, GoTo, Inv, TypeOK, Keyed, Running, Ended, bodyVars,
     tellVars, cancelVars, slotVars, storeVars, batchVars, flowVars
<1>19. ASSUME NEW t \in Tasks, SpanFailed(t) PROVE Keyed'
  BY <1>19 DEF SpanFailed, At, GoTo, Inv, TypeOK, Keyed, Running, Ended, bodyVars, tellVars,
     cancelVars, slotVars, storeVars, batchVars, flowVars
<1>20. ASSUME NEW t \in Tasks, FailureReported(t) PROVE Keyed'
  BY <1>20 DEF FailureReported, At, Publish, GoTo, Inv, TypeOK, Keyed, Running, Ended, bodyVars,
     tellVars, cancelVars, slotVars, storeVars, batchVars, flowVars
<1>21. ASSUME NEW t \in Tasks, CancelledBefore(t) PROVE Keyed'
  BY <1>21 DEF CancelledBefore, Raised, Leaves, GoTo, Live, Inv, TypeOK, Keyed, Running, Ended,
     bodyVars, tellVars, cancelVars, slotVars, storeVars, batchVars, flowVars
<1>22. ASSUME NEW t \in Tasks, CancelledInside(t) PROVE Keyed'
  BY <1>22 DEF CancelledInside, Raised, Leaves, GoTo, Live, Inv, TypeOK, Keyed, Running, Ended,
     bodyVars, tellVars, cancelVars, slotVars, storeVars, batchVars, flowVars
<1>23. ASSUME NEW t \in Tasks, CancelledAtSpan(t) PROVE Keyed'
  BY <1>23 DEF CancelledAtSpan, Raised, Leaves, RowWritten, GoTo, Live, Inv, TypeOK, Keyed,
     Running, Ended, bodyVars, tellVars, cancelVars, slotVars, storeVars, batchVars, flowVars
<1>24. ASSUME NEW t \in Tasks, CancelledAfter(t) PROVE Keyed'
  BY <1>24 DEF CancelledAfter, Raised, Leaves, Publish, GoTo, Live, Inv, TypeOK, Keyed, Running,
     Ended, bodyVars, tellVars, cancelVars, slotVars, storeVars, batchVars, flowVars
<1>25. CASE Collect
  BY <1>25 DEF Collect, BatchReturned, FlowOnly, Inv, TypeOK, Keyed, Running, Ended, bodyVars,
     tellVars, cancelVars, slotVars, storeVars, batchVars, flowVars
<1>26. CASE Woken
  BY <1>26 DEF Woken, FlowOnly, Done, Inv, TypeOK, Keyed, Running, Ended, bodyVars, tellVars,
     cancelVars, slotVars, storeVars, batchVars, flowVars
<1>27. CASE TimedOut
  BY <1>27 DEF TimedOut, BatchReturned, FlowOnly, Inv, TypeOK, Keyed, Running, Ended, bodyVars,
     tellVars, cancelVars, slotVars, storeVars, batchVars, flowVars
<1>28. CASE Taken
  BY <1>28 DEF Taken, FlowOnly, Inv, TypeOK, Keyed, Running, Ended, bodyVars, tellVars,
     cancelVars, slotVars, storeVars, batchVars, flowVars
<1>29. CASE Looped
  BY <1>29 DEF Looped, BatchReturned, FlowOnly, Inv, TypeOK, Keyed, Running, Ended, bodyVars,
     tellVars, cancelVars, slotVars, storeVars, batchVars, flowVars
<1>30. CASE DeadlinePasses
  BY <1>30 DEF DeadlinePasses, FlowOnly, Inv, TypeOK, Keyed, Running, Ended, bodyVars, tellVars,
     cancelVars, slotVars, storeVars, batchVars, flowVars
<1>31. CASE CancelHandle
  BY <1>31 DEF CancelHandle, FlowOnly, Live, Inv, TypeOK, Keyed, Running, Ended, bodyVars,
     tellVars, cancelVars, slotVars, storeVars, batchVars, flowVars
<1>32. CASE FlowLeaves
  BY <1>32 DEF FlowLeaves, FlowOnly, Live, Inv, TypeOK, Keyed, Running, Ended, bodyVars,
     tellVars, cancelVars, slotVars, storeVars, batchVars, flowVars
<1>33. CASE GraceOver
  BY <1>33 DEF GraceOver, FlowOnly, Live, Inv, TypeOK, Keyed, Running, Ended, bodyVars,
     tellVars, cancelVars, slotVars, storeVars, batchVars, flowVars
<1>34. CASE FlowOver \/ SettlingCancelled
  BY <1>34 DEF FlowOver, SettlingCancelled, FlowOnly, Inv, TypeOK, Keyed, Running, Ended, bodyVars, tellVars,
     cancelVars, slotVars, storeVars, batchVars, flowVars
<1>35. CASE Expire
  BY <1>35 DEF Expire, Inv, TypeOK, Keyed, Running, Ended, bodyVars, tellVars, cancelVars,
     slotVars, storeVars, batchVars, flowVars
<1>36. CASE BlobLost
  BY <1>36 DEF BlobLost, Inv, TypeOK, Keyed, Running, Ended, bodyVars, tellVars, cancelVars,
     slotVars, storeVars, batchVars, flowVars
<1>37. CASE UNCHANGED vars
  BY <1>37 DEF vars, Inv, TypeOK, Keyed, Running, Ended, bodyVars, tellVars, cancelVars,
     slotVars, storeVars, batchVars, flowVars
<1>. QED
  BY <1>1, <1>2, <1>3, <1>4, <1>5, <1>6, <1>7, <1>8, <1>9, <1>10, <1>11, <1>12, <1>13, <1>14,
     <1>15, <1>16, <1>17, <1>18, <1>19, <1>20, <1>21, <1>22, <1>23, <1>24, <1>25, <1>26, <1>27,
     <1>28, <1>29, <1>30, <1>31, <1>32, <1>33, <1>34, <1>35, <1>36, <1>37 DEF Next, TaskStep,
     Cancelled, Collecting, Settling

\* No step finds, holds, stores or returns what no body of the key returned.
LEMMA WholeStep == ASSUME Inv, [Next]_vars PROVE Whole'
<1>1. ASSUME NEW t \in Tasks, Dispatch(t) PROVE Whole'
  BY <1>1 DEF Dispatch, GoTo, Inv, TypeOK, Keyed, Whole, bodyVars, tellVars, cancelVars,
     slotVars, storeVars, batchVars, flowVars
<1>2. ASSUME NEW t \in Tasks, LookedUp(t) PROVE Whole'
  BY <1>2 DEF LookedUp, At, GoTo, Inv, TypeOK, Keyed, Whole, bodyVars, tellVars, cancelVars,
     slotVars, storeVars, batchVars, flowVars
<1>3. ASSUME NEW t \in Tasks, LookupFails(t) PROVE Whole'
  BY <1>3 DEF LookupFails, At, GoTo, Inv, TypeOK, Keyed, Whole, bodyVars, tellVars, cancelVars,
     slotVars, storeVars, batchVars, flowVars
<1>4. ASSUME NEW t \in Tasks, Hydrated(t) PROVE Whole'
  BY <1>4 DEF Hydrated, At, Loadable, GoTo, Inv, TypeOK, Keyed, Whole, bodyVars, tellVars,
     cancelVars, slotVars, storeVars, batchVars, flowVars
<1>5. ASSUME NEW t \in Tasks, Reused(t) PROVE Whole'
  BY <1>5 DEF Reused, At, GoTo, Inv, TypeOK, Keyed, Whole, bodyVars, tellVars, cancelVars,
     slotVars, storeVars, batchVars, flowVars
<1>6. ASSUME NEW t \in Tasks, Opened(t) PROVE Whole'
  BY <1>6 DEF Opened, At, GoTo, Inv, TypeOK, Keyed, Whole, bodyVars, tellVars, cancelVars,
     slotVars, storeVars, batchVars, flowVars
<1>7. ASSUME NEW t \in Tasks, Announced(t) PROVE Whole'
  BY <1>7 DEF Announced, At, GoTo, Inv, TypeOK, Keyed, Whole, bodyVars, tellVars, cancelVars,
     slotVars, storeVars, batchVars, flowVars
<1>8. ASSUME NEW t \in Tasks, Begins(t) PROVE Whole'
  BY <1>8 DEF Begins, At, GoTo, Inv, TypeOK, Keyed, Whole, bodyVars, tellVars, cancelVars,
     slotVars, storeVars, batchVars, flowVars
<1>9. ASSUME NEW t \in Tasks, SlotGranted(t) PROVE Whole'
  BY <1>9 DEF SlotGranted, At, GoTo, Inv, TypeOK, Keyed, Whole, bodyVars, tellVars, cancelVars,
     slotVars, storeVars, batchVars, flowVars
<1>10. ASSUME NEW t \in Tasks, SlotUnavailable(t) PROVE Whole'
  BY <1>10 DEF SlotUnavailable, At, GoTo, Inv, TypeOK, Keyed, Whole, bodyVars, tellVars,
     cancelVars, slotVars, storeVars, batchVars, flowVars
<1>11. ASSUME NEW t \in Tasks, BodyReturns(t) PROVE Whole'
  BY <1>11 DEF BodyReturns, At, Leaves, GoTo, Inv, TypeOK, Keyed, Whole, bodyVars, tellVars,
     cancelVars, slotVars, storeVars, batchVars, flowVars
<1>12. ASSUME NEW t \in Tasks, AttemptFails(t) PROVE Whole'
  BY <1>12 DEF AttemptFails, At, Leaves, GoTo, Inv, TypeOK, Keyed, Whole, bodyVars, tellVars,
     cancelVars, slotVars, storeVars, batchVars, flowVars
<1>13. ASSUME NEW t \in Tasks, BodyRaises(t) PROVE Whole'
  BY <1>13 DEF BodyRaises, At, Leaves, GoTo, Inv, TypeOK, Keyed, Whole, bodyVars, tellVars,
     cancelVars, slotVars, storeVars, batchVars, flowVars
<1>14. ASSUME NEW t \in Tasks, Retry(t) PROVE Whole'
  BY <1>14 DEF Retry, At, GoTo, Inv, TypeOK, Keyed, Whole, bodyVars, tellVars, cancelVars,
     slotVars, storeVars, batchVars, flowVars
<1>15. ASSUME NEW t \in Tasks, Persisted(t) PROVE Whole'
  BY <1>15 DEF Persisted, At, Save, GoTo, Inv, TypeOK, Keyed, Whole, bodyVars, tellVars,
     cancelVars, slotVars, storeVars, batchVars, flowVars
<1>16. ASSUME NEW t \in Tasks, ArtifactsSaved(t) PROVE Whole'
  BY <1>16 DEF ArtifactsSaved, At, Save, GoTo, Inv, TypeOK, Keyed, Whole, bodyVars, tellVars,
     cancelVars, slotVars, storeVars, batchVars, flowVars
<1>17. ASSUME NEW t \in Tasks, Closed(t) PROVE Whole'
  BY <1>17 DEF Closed, At, RowWritten, GoTo, Inv, TypeOK, Keyed, Whole, bodyVars, tellVars,
     cancelVars, slotVars, storeVars, batchVars, flowVars
<1>18. ASSUME NEW t \in Tasks, Reported(t) PROVE Whole'
  BY <1>18 DEF Reported, At, Publish, GoTo, Inv, TypeOK, Keyed, Whole, bodyVars, tellVars,
     cancelVars, slotVars, storeVars, batchVars, flowVars
<1>19. ASSUME NEW t \in Tasks, SpanFailed(t) PROVE Whole'
  BY <1>19 DEF SpanFailed, At, GoTo, Inv, TypeOK, Keyed, Whole, bodyVars, tellVars, cancelVars,
     slotVars, storeVars, batchVars, flowVars
<1>20. ASSUME NEW t \in Tasks, FailureReported(t) PROVE Whole'
  BY <1>20 DEF FailureReported, At, Publish, GoTo, Inv, TypeOK, Keyed, Whole, bodyVars,
     tellVars, cancelVars, slotVars, storeVars, batchVars, flowVars
<1>21. ASSUME NEW t \in Tasks, CancelledBefore(t) PROVE Whole'
  BY <1>21 DEF CancelledBefore, Raised, Leaves, GoTo, Live, Inv, TypeOK, Keyed, Whole, bodyVars,
     tellVars, cancelVars, slotVars, storeVars, batchVars, flowVars
<1>22. ASSUME NEW t \in Tasks, CancelledInside(t) PROVE Whole'
  BY <1>22 DEF CancelledInside, Raised, Leaves, GoTo, Live, Inv, TypeOK, Keyed, Whole, bodyVars,
     tellVars, cancelVars, slotVars, storeVars, batchVars, flowVars
<1>23. ASSUME NEW t \in Tasks, CancelledAtSpan(t) PROVE Whole'
  BY <1>23 DEF CancelledAtSpan, Raised, Leaves, RowWritten, GoTo, Live, Inv, TypeOK, Keyed,
     Whole, bodyVars, tellVars, cancelVars, slotVars, storeVars, batchVars, flowVars
<1>24. ASSUME NEW t \in Tasks, CancelledAfter(t) PROVE Whole'
  BY <1>24 DEF CancelledAfter, Raised, Leaves, Publish, GoTo, Live, Inv, TypeOK, Keyed, Whole,
     bodyVars, tellVars, cancelVars, slotVars, storeVars, batchVars, flowVars
<1>25. CASE Collect
  BY <1>25 DEF Collect, BatchReturned, FlowOnly, Inv, TypeOK, Keyed, Whole, bodyVars, tellVars,
     cancelVars, slotVars, storeVars, batchVars, flowVars
<1>26. CASE Woken
  BY <1>26 DEF Woken, FlowOnly, Done, Inv, TypeOK, Keyed, Whole, bodyVars, tellVars, cancelVars,
     slotVars, storeVars, batchVars, flowVars
<1>27. CASE TimedOut
  BY <1>27 DEF TimedOut, BatchReturned, FlowOnly, Inv, TypeOK, Keyed, Whole, bodyVars, tellVars,
     cancelVars, slotVars, storeVars, batchVars, flowVars
<1>28. CASE Taken
  BY <1>28 DEF Taken, FlowOnly, Inv, TypeOK, Keyed, Whole, bodyVars, tellVars, cancelVars,
     slotVars, storeVars, batchVars, flowVars
<1>29. CASE Looped
  BY <1>29 DEF Looped, BatchReturned, FlowOnly, Inv, TypeOK, Keyed, Whole, bodyVars, tellVars,
     cancelVars, slotVars, storeVars, batchVars, flowVars
<1>30. CASE DeadlinePasses
  BY <1>30 DEF DeadlinePasses, FlowOnly, Inv, TypeOK, Keyed, Whole, bodyVars, tellVars,
     cancelVars, slotVars, storeVars, batchVars, flowVars
<1>31. CASE CancelHandle
  BY <1>31 DEF CancelHandle, FlowOnly, Live, Inv, TypeOK, Keyed, Whole, bodyVars, tellVars,
     cancelVars, slotVars, storeVars, batchVars, flowVars
<1>32. CASE FlowLeaves
  BY <1>32 DEF FlowLeaves, FlowOnly, Live, Inv, TypeOK, Keyed, Whole, bodyVars, tellVars,
     cancelVars, slotVars, storeVars, batchVars, flowVars
<1>33. CASE GraceOver
  BY <1>33 DEF GraceOver, FlowOnly, Live, Inv, TypeOK, Keyed, Whole, bodyVars, tellVars,
     cancelVars, slotVars, storeVars, batchVars, flowVars
<1>34. CASE FlowOver \/ SettlingCancelled
  BY <1>34 DEF FlowOver, SettlingCancelled, FlowOnly, Inv, TypeOK, Keyed, Whole, bodyVars, tellVars, cancelVars,
     slotVars, storeVars, batchVars, flowVars
<1>35. CASE Expire
  BY <1>35 DEF Expire, Inv, TypeOK, Keyed, Whole, bodyVars, tellVars, cancelVars, slotVars,
     storeVars, batchVars, flowVars
<1>36. CASE BlobLost
  BY <1>36 DEF BlobLost, Inv, TypeOK, Keyed, Whole, bodyVars, tellVars, cancelVars, slotVars,
     storeVars, batchVars, flowVars
<1>37. CASE UNCHANGED vars
  BY <1>37 DEF vars, Inv, TypeOK, Keyed, Whole, bodyVars, tellVars, cancelVars, slotVars,
     storeVars, batchVars, flowVars
<1>. QED
  BY <1>1, <1>2, <1>3, <1>4, <1>5, <1>6, <1>7, <1>8, <1>9, <1>10, <1>11, <1>12, <1>13, <1>14,
     <1>15, <1>16, <1>17, <1>18, <1>19, <1>20, <1>21, <1>22, <1>23, <1>24, <1>25, <1>26, <1>27,
     <1>28, <1>29, <1>30, <1>31, <1>32, <1>33, <1>34, <1>35, <1>36, <1>37 DEF Next, TaskStep,
     Cancelled, Collecting, Settling

\* Every step keeps what was published with how the span was closed.
LEMMA ToldStep == ASSUME Inv, [Next]_vars PROVE Told'
<1>1. ASSUME NEW t \in Tasks, Dispatch(t) PROVE Told'
  BY <1>1 DEF Dispatch, GoTo, Inv, TypeOK, Told, Keyed, Running, Ended, bodyVars, tellVars,
     cancelVars, slotVars, storeVars, batchVars, flowVars
<1>2. ASSUME NEW t \in Tasks, LookedUp(t) PROVE Told'
  BY <1>2 DEF LookedUp, At, GoTo, Inv, TypeOK, Told, Keyed, Running, Ended, bodyVars, tellVars,
     cancelVars, slotVars, storeVars, batchVars, flowVars
<1>3. ASSUME NEW t \in Tasks, LookupFails(t) PROVE Told'
  BY <1>3 DEF LookupFails, At, GoTo, Inv, TypeOK, Told, Keyed, Running, Ended, bodyVars,
     tellVars, cancelVars, slotVars, storeVars, batchVars, flowVars
<1>4. ASSUME NEW t \in Tasks, Hydrated(t) PROVE Told'
  BY <1>4 DEF Hydrated, At, Loadable, GoTo, Inv, TypeOK, Told, Keyed, Running, Ended, bodyVars,
     tellVars, cancelVars, slotVars, storeVars, batchVars, flowVars
<1>5. ASSUME NEW t \in Tasks, Reused(t) PROVE Told'
  BY <1>5 DEF Reused, At, GoTo, Inv, TypeOK, Told, Keyed, Running, Ended, bodyVars, tellVars,
     cancelVars, slotVars, storeVars, batchVars, flowVars
<1>6. ASSUME NEW t \in Tasks, Opened(t) PROVE Told'
  BY <1>6 DEF Opened, At, GoTo, Inv, TypeOK, Told, Keyed, Running, Ended, bodyVars, tellVars,
     cancelVars, slotVars, storeVars, batchVars, flowVars
<1>7. ASSUME NEW t \in Tasks, Announced(t) PROVE Told'
  BY <1>7 DEF Announced, At, GoTo, Inv, TypeOK, Told, Keyed, Running, Ended, bodyVars, tellVars,
     cancelVars, slotVars, storeVars, batchVars, flowVars
<1>8. ASSUME NEW t \in Tasks, Begins(t) PROVE Told'
  BY <1>8 DEF Begins, At, GoTo, Inv, TypeOK, Told, Keyed, Running, Ended, bodyVars, tellVars,
     cancelVars, slotVars, storeVars, batchVars, flowVars
<1>9. ASSUME NEW t \in Tasks, SlotGranted(t) PROVE Told'
  BY <1>9 DEF SlotGranted, At, GoTo, Inv, TypeOK, Told, Keyed, Running, Ended, bodyVars,
     tellVars, cancelVars, slotVars, storeVars, batchVars, flowVars
<1>10. ASSUME NEW t \in Tasks, SlotUnavailable(t) PROVE Told'
  BY <1>10 DEF SlotUnavailable, At, GoTo, Inv, TypeOK, Told, Keyed, Running, Ended, bodyVars,
     tellVars, cancelVars, slotVars, storeVars, batchVars, flowVars
<1>11. ASSUME NEW t \in Tasks, BodyReturns(t) PROVE Told'
  BY <1>11 DEF BodyReturns, At, Leaves, GoTo, Inv, TypeOK, Told, Keyed, Running, Ended,
     bodyVars, tellVars, cancelVars, slotVars, storeVars, batchVars, flowVars
<1>12. ASSUME NEW t \in Tasks, AttemptFails(t) PROVE Told'
  BY <1>12 DEF AttemptFails, At, Leaves, GoTo, Inv, TypeOK, Told, Keyed, Running, Ended,
     bodyVars, tellVars, cancelVars, slotVars, storeVars, batchVars, flowVars
<1>13. ASSUME NEW t \in Tasks, BodyRaises(t) PROVE Told'
  BY <1>13 DEF BodyRaises, At, Leaves, GoTo, Inv, TypeOK, Told, Keyed, Running, Ended, bodyVars,
     tellVars, cancelVars, slotVars, storeVars, batchVars, flowVars
<1>14. ASSUME NEW t \in Tasks, Retry(t) PROVE Told'
  BY <1>14 DEF Retry, At, GoTo, Inv, TypeOK, Told, Keyed, Running, Ended, bodyVars, tellVars,
     cancelVars, slotVars, storeVars, batchVars, flowVars
<1>15. ASSUME NEW t \in Tasks, Persisted(t) PROVE Told'
  BY <1>15 DEF Persisted, At, Save, GoTo, Inv, TypeOK, Told, Keyed, Running, Ended, bodyVars,
     tellVars, cancelVars, slotVars, storeVars, batchVars, flowVars
<1>16. ASSUME NEW t \in Tasks, ArtifactsSaved(t) PROVE Told'
  BY <1>16 DEF ArtifactsSaved, At, Save, GoTo, Inv, TypeOK, Told, Keyed, Running, Ended,
     bodyVars, tellVars, cancelVars, slotVars, storeVars, batchVars, flowVars
<1>17. ASSUME NEW t \in Tasks, Closed(t) PROVE Told'
  BY <1>17 DEF Closed, At, RowWritten, GoTo, Inv, TypeOK, Told, Keyed, Running, Ended, bodyVars,
     tellVars, cancelVars, slotVars, storeVars, batchVars, flowVars
<1>18. ASSUME NEW t \in Tasks, Reported(t) PROVE Told'
  BY <1>18 DEF Reported, At, Publish, GoTo, Inv, TypeOK, Told, Keyed, Running, Ended, bodyVars,
     tellVars, cancelVars, slotVars, storeVars, batchVars, flowVars
<1>19. ASSUME NEW t \in Tasks, SpanFailed(t) PROVE Told'
  BY <1>19 DEF SpanFailed, At, GoTo, Inv, TypeOK, Told, Keyed, Running, Ended, bodyVars,
     tellVars, cancelVars, slotVars, storeVars, batchVars, flowVars
<1>20. ASSUME NEW t \in Tasks, FailureReported(t) PROVE Told'
  BY <1>20 DEF FailureReported, At, Publish, GoTo, Inv, TypeOK, Told, Keyed, Running, Ended,
     bodyVars, tellVars, cancelVars, slotVars, storeVars, batchVars, flowVars
<1>21. ASSUME NEW t \in Tasks, CancelledBefore(t) PROVE Told'
  BY <1>21 DEF CancelledBefore, Raised, Leaves, GoTo, Live, Inv, TypeOK, Told, Keyed, Running,
     Ended, bodyVars, tellVars, cancelVars, slotVars, storeVars, batchVars, flowVars
<1>22. ASSUME NEW t \in Tasks, CancelledInside(t) PROVE Told'
  BY <1>22 DEF CancelledInside, Raised, Leaves, GoTo, Live, Inv, TypeOK, Told, Keyed, Running,
     Ended, bodyVars, tellVars, cancelVars, slotVars, storeVars, batchVars, flowVars
<1>23. ASSUME NEW t \in Tasks, CancelledAtSpan(t) PROVE Told'
  BY <1>23 DEF CancelledAtSpan, Raised, Leaves, RowWritten, GoTo, Live, Inv, TypeOK, Told,
     Keyed, Running, Ended, bodyVars, tellVars, cancelVars, slotVars, storeVars, batchVars,
     flowVars
<1>24. ASSUME NEW t \in Tasks, CancelledAfter(t) PROVE Told'
  BY <1>24 DEF CancelledAfter, Raised, Leaves, Publish, GoTo, Live, Inv, TypeOK, Told, Keyed,
     Running, Ended, bodyVars, tellVars, cancelVars, slotVars, storeVars, batchVars, flowVars
<1>25. CASE Collect
  BY <1>25 DEF Collect, BatchReturned, FlowOnly, Inv, TypeOK, Told, Keyed, Running, Ended,
     bodyVars, tellVars, cancelVars, slotVars, storeVars, batchVars, flowVars
<1>26. CASE Woken
  BY <1>26 DEF Woken, FlowOnly, Done, Inv, TypeOK, Told, Keyed, Running, Ended, bodyVars,
     tellVars, cancelVars, slotVars, storeVars, batchVars, flowVars
<1>27. CASE TimedOut
  BY <1>27 DEF TimedOut, BatchReturned, FlowOnly, Inv, TypeOK, Told, Keyed, Running, Ended,
     bodyVars, tellVars, cancelVars, slotVars, storeVars, batchVars, flowVars
<1>28. CASE Taken
  BY <1>28 DEF Taken, FlowOnly, Inv, TypeOK, Told, Keyed, Running, Ended, bodyVars, tellVars,
     cancelVars, slotVars, storeVars, batchVars, flowVars
<1>29. CASE Looped
  BY <1>29 DEF Looped, BatchReturned, FlowOnly, Inv, TypeOK, Told, Keyed, Running, Ended,
     bodyVars, tellVars, cancelVars, slotVars, storeVars, batchVars, flowVars
<1>30. CASE DeadlinePasses
  BY <1>30 DEF DeadlinePasses, FlowOnly, Inv, TypeOK, Told, Keyed, Running, Ended, bodyVars,
     tellVars, cancelVars, slotVars, storeVars, batchVars, flowVars
<1>31. CASE CancelHandle
  BY <1>31 DEF CancelHandle, FlowOnly, Live, Inv, TypeOK, Told, Keyed, Running, Ended, bodyVars,
     tellVars, cancelVars, slotVars, storeVars, batchVars, flowVars
<1>32. CASE FlowLeaves
  BY <1>32 DEF FlowLeaves, FlowOnly, Live, Inv, TypeOK, Told, Keyed, Running, Ended, bodyVars,
     tellVars, cancelVars, slotVars, storeVars, batchVars, flowVars
<1>33. CASE GraceOver
  BY <1>33 DEF GraceOver, FlowOnly, Live, Inv, TypeOK, Told, Keyed, Running, Ended, bodyVars,
     tellVars, cancelVars, slotVars, storeVars, batchVars, flowVars
<1>34. CASE FlowOver \/ SettlingCancelled
  BY <1>34 DEF FlowOver, SettlingCancelled, FlowOnly, Inv, TypeOK, Told, Keyed, Running, Ended, bodyVars, tellVars,
     cancelVars, slotVars, storeVars, batchVars, flowVars
<1>35. CASE Expire
  BY <1>35 DEF Expire, Inv, TypeOK, Told, Keyed, Running, Ended, bodyVars, tellVars, cancelVars,
     slotVars, storeVars, batchVars, flowVars
<1>36. CASE BlobLost
  BY <1>36 DEF BlobLost, Inv, TypeOK, Told, Keyed, Running, Ended, bodyVars, tellVars,
     cancelVars, slotVars, storeVars, batchVars, flowVars
<1>37. CASE UNCHANGED vars
  BY <1>37 DEF vars, Inv, TypeOK, Told, Keyed, Running, Ended, bodyVars, tellVars, cancelVars,
     slotVars, storeVars, batchVars, flowVars
<1>. QED
  BY <1>1, <1>2, <1>3, <1>4, <1>5, <1>6, <1>7, <1>8, <1>9, <1>10, <1>11, <1>12, <1>13, <1>14,
     <1>15, <1>16, <1>17, <1>18, <1>19, <1>20, <1>21, <1>22, <1>23, <1>24, <1>25, <1>26, <1>27,
     <1>28, <1>29, <1>30, <1>31, <1>32, <1>33, <1>34, <1>35, <1>36, <1>37 DEF Next, TaskStep,
     Cancelled, Collecting, Settling

\* Every step keeps the events of a task in agreement with its span.
LEMMA EventsStep == ASSUME Inv, [Next]_vars PROVE EventsAgree'
<1>1. ASSUME NEW t \in Tasks, Dispatch(t) PROVE EventsAgree'
  BY <1>1 DEF Dispatch, GoTo, Inv, TypeOK, Told, EventsAgree, Running, Ended, bodyVars,
     tellVars, cancelVars, slotVars, storeVars, batchVars, flowVars
<1>2. ASSUME NEW t \in Tasks, LookedUp(t) PROVE EventsAgree'
  BY <1>2 DEF LookedUp, At, GoTo, Inv, TypeOK, Told, EventsAgree, Running, Ended, bodyVars,
     tellVars, cancelVars, slotVars, storeVars, batchVars, flowVars
<1>3. ASSUME NEW t \in Tasks, LookupFails(t) PROVE EventsAgree'
  BY <1>3 DEF LookupFails, At, GoTo, Inv, TypeOK, Told, EventsAgree, Running, Ended, bodyVars,
     tellVars, cancelVars, slotVars, storeVars, batchVars, flowVars
<1>4. ASSUME NEW t \in Tasks, Hydrated(t) PROVE EventsAgree'
  BY <1>4 DEF Hydrated, At, Loadable, GoTo, Inv, TypeOK, Told, EventsAgree, Running, Ended,
     bodyVars, tellVars, cancelVars, slotVars, storeVars, batchVars, flowVars
<1>5. ASSUME NEW t \in Tasks, Reused(t) PROVE EventsAgree'
  BY <1>5 DEF Reused, At, GoTo, Inv, TypeOK, Told, EventsAgree, Running, Ended, bodyVars,
     tellVars, cancelVars, slotVars, storeVars, batchVars, flowVars
<1>6. ASSUME NEW t \in Tasks, Opened(t) PROVE EventsAgree'
  BY <1>6 DEF Opened, At, GoTo, Inv, TypeOK, Told, EventsAgree, Running, Ended, bodyVars,
     tellVars, cancelVars, slotVars, storeVars, batchVars, flowVars
<1>7. ASSUME NEW t \in Tasks, Announced(t) PROVE EventsAgree'
  BY <1>7 DEF Announced, At, GoTo, Inv, TypeOK, Told, EventsAgree, Running, Ended, bodyVars,
     tellVars, cancelVars, slotVars, storeVars, batchVars, flowVars
<1>8. ASSUME NEW t \in Tasks, Begins(t) PROVE EventsAgree'
  BY <1>8 DEF Begins, At, GoTo, Inv, TypeOK, Told, EventsAgree, Running, Ended, bodyVars,
     tellVars, cancelVars, slotVars, storeVars, batchVars, flowVars
<1>9. ASSUME NEW t \in Tasks, SlotGranted(t) PROVE EventsAgree'
  BY <1>9 DEF SlotGranted, At, GoTo, Inv, TypeOK, Told, EventsAgree, Running, Ended, bodyVars,
     tellVars, cancelVars, slotVars, storeVars, batchVars, flowVars
<1>10. ASSUME NEW t \in Tasks, SlotUnavailable(t) PROVE EventsAgree'
  BY <1>10 DEF SlotUnavailable, At, GoTo, Inv, TypeOK, Told, EventsAgree, Running, Ended,
     bodyVars, tellVars, cancelVars, slotVars, storeVars, batchVars, flowVars
<1>11. ASSUME NEW t \in Tasks, BodyReturns(t) PROVE EventsAgree'
  BY <1>11 DEF BodyReturns, At, Leaves, GoTo, Inv, TypeOK, Told, EventsAgree, Running, Ended,
     bodyVars, tellVars, cancelVars, slotVars, storeVars, batchVars, flowVars
<1>12. ASSUME NEW t \in Tasks, AttemptFails(t) PROVE EventsAgree'
  BY <1>12 DEF AttemptFails, At, Leaves, GoTo, Inv, TypeOK, Told, EventsAgree, Running, Ended,
     bodyVars, tellVars, cancelVars, slotVars, storeVars, batchVars, flowVars
<1>13. ASSUME NEW t \in Tasks, BodyRaises(t) PROVE EventsAgree'
  BY <1>13 DEF BodyRaises, At, Leaves, GoTo, Inv, TypeOK, Told, EventsAgree, Running, Ended,
     bodyVars, tellVars, cancelVars, slotVars, storeVars, batchVars, flowVars
<1>14. ASSUME NEW t \in Tasks, Retry(t) PROVE EventsAgree'
  BY <1>14 DEF Retry, At, GoTo, Inv, TypeOK, Told, EventsAgree, Running, Ended, bodyVars,
     tellVars, cancelVars, slotVars, storeVars, batchVars, flowVars
<1>15. ASSUME NEW t \in Tasks, Persisted(t) PROVE EventsAgree'
  BY <1>15 DEF Persisted, At, Save, GoTo, Inv, TypeOK, Told, EventsAgree, Running, Ended,
     bodyVars, tellVars, cancelVars, slotVars, storeVars, batchVars, flowVars
<1>16. ASSUME NEW t \in Tasks, ArtifactsSaved(t) PROVE EventsAgree'
  BY <1>16 DEF ArtifactsSaved, At, Save, GoTo, Inv, TypeOK, Told, EventsAgree, Running, Ended,
     bodyVars, tellVars, cancelVars, slotVars, storeVars, batchVars, flowVars
<1>17. ASSUME NEW t \in Tasks, Closed(t) PROVE EventsAgree'
  BY <1>17 DEF Closed, At, RowWritten, GoTo, Inv, TypeOK, Told, EventsAgree, Running, Ended,
     bodyVars, tellVars, cancelVars, slotVars, storeVars, batchVars, flowVars
<1>18. ASSUME NEW t \in Tasks, Reported(t) PROVE EventsAgree'
  BY <1>18 DEF Reported, At, Publish, GoTo, Inv, TypeOK, Told, EventsAgree, Running, Ended,
     bodyVars, tellVars, cancelVars, slotVars, storeVars, batchVars, flowVars
<1>19. ASSUME NEW t \in Tasks, SpanFailed(t) PROVE EventsAgree'
  BY <1>19 DEF SpanFailed, At, GoTo, Inv, TypeOK, Told, EventsAgree, Running, Ended, bodyVars,
     tellVars, cancelVars, slotVars, storeVars, batchVars, flowVars
<1>20. ASSUME NEW t \in Tasks, FailureReported(t) PROVE EventsAgree'
  BY <1>20 DEF FailureReported, At, Publish, GoTo, Inv, TypeOK, Told, EventsAgree, Running,
     Ended, bodyVars, tellVars, cancelVars, slotVars, storeVars, batchVars, flowVars
<1>21. ASSUME NEW t \in Tasks, CancelledBefore(t) PROVE EventsAgree'
  BY <1>21 DEF CancelledBefore, Raised, Leaves, GoTo, Live, Inv, TypeOK, Told, EventsAgree,
     Running, Ended, bodyVars, tellVars, cancelVars, slotVars, storeVars, batchVars, flowVars
<1>22. ASSUME NEW t \in Tasks, CancelledInside(t) PROVE EventsAgree'
  BY <1>22 DEF CancelledInside, Raised, Leaves, GoTo, Live, Inv, TypeOK, Told, EventsAgree,
     Running, Ended, bodyVars, tellVars, cancelVars, slotVars, storeVars, batchVars, flowVars
<1>23. ASSUME NEW t \in Tasks, CancelledAtSpan(t) PROVE EventsAgree'
  BY <1>23 DEF CancelledAtSpan, Raised, Leaves, RowWritten, GoTo, Live, Inv, TypeOK, Told,
     EventsAgree, Running, Ended, bodyVars, tellVars, cancelVars, slotVars, storeVars,
     batchVars, flowVars
<1>24. ASSUME NEW t \in Tasks, CancelledAfter(t) PROVE EventsAgree'
  BY <1>24 DEF CancelledAfter, Raised, Leaves, Publish, GoTo, Live, Inv, TypeOK, Told,
     EventsAgree, Running, Ended, bodyVars, tellVars, cancelVars, slotVars, storeVars,
     batchVars, flowVars
<1>25. CASE Collect
  BY <1>25 DEF Collect, BatchReturned, FlowOnly, Inv, TypeOK, Told, EventsAgree, Running, Ended,
     bodyVars, tellVars, cancelVars, slotVars, storeVars, batchVars, flowVars
<1>26. CASE Woken
  BY <1>26 DEF Woken, FlowOnly, Done, Inv, TypeOK, Told, EventsAgree, Running, Ended, bodyVars,
     tellVars, cancelVars, slotVars, storeVars, batchVars, flowVars
<1>27. CASE TimedOut
  BY <1>27 DEF TimedOut, BatchReturned, FlowOnly, Inv, TypeOK, Told, EventsAgree, Running,
     Ended, bodyVars, tellVars, cancelVars, slotVars, storeVars, batchVars, flowVars
<1>28. CASE Taken
  BY <1>28 DEF Taken, FlowOnly, Inv, TypeOK, Told, EventsAgree, Running, Ended, bodyVars,
     tellVars, cancelVars, slotVars, storeVars, batchVars, flowVars
<1>29. CASE Looped
  BY <1>29 DEF Looped, BatchReturned, FlowOnly, Inv, TypeOK, Told, EventsAgree, Running, Ended,
     bodyVars, tellVars, cancelVars, slotVars, storeVars, batchVars, flowVars
<1>30. CASE DeadlinePasses
  BY <1>30 DEF DeadlinePasses, FlowOnly, Inv, TypeOK, Told, EventsAgree, Running, Ended,
     bodyVars, tellVars, cancelVars, slotVars, storeVars, batchVars, flowVars
<1>31. CASE CancelHandle
  BY <1>31 DEF CancelHandle, FlowOnly, Live, Inv, TypeOK, Told, EventsAgree, Running, Ended,
     bodyVars, tellVars, cancelVars, slotVars, storeVars, batchVars, flowVars
<1>32. CASE FlowLeaves
  BY <1>32 DEF FlowLeaves, FlowOnly, Live, Inv, TypeOK, Told, EventsAgree, Running, Ended,
     bodyVars, tellVars, cancelVars, slotVars, storeVars, batchVars, flowVars
<1>33. CASE GraceOver
  BY <1>33 DEF GraceOver, FlowOnly, Live, Inv, TypeOK, Told, EventsAgree, Running, Ended,
     bodyVars, tellVars, cancelVars, slotVars, storeVars, batchVars, flowVars
<1>34. CASE FlowOver \/ SettlingCancelled
  BY <1>34 DEF FlowOver, SettlingCancelled, FlowOnly, Inv, TypeOK, Told, EventsAgree, Running, Ended, bodyVars,
     tellVars, cancelVars, slotVars, storeVars, batchVars, flowVars
<1>35. CASE Expire
  BY <1>35 DEF Expire, Inv, TypeOK, Told, EventsAgree, Running, Ended, bodyVars, tellVars,
     cancelVars, slotVars, storeVars, batchVars, flowVars
<1>36. CASE BlobLost
  BY <1>36 DEF BlobLost, Inv, TypeOK, Told, EventsAgree, Running, Ended, bodyVars, tellVars,
     cancelVars, slotVars, storeVars, batchVars, flowVars
<1>37. CASE UNCHANGED vars
  BY <1>37 DEF vars, Inv, TypeOK, Told, EventsAgree, Running, Ended, bodyVars, tellVars,
     cancelVars, slotVars, storeVars, batchVars, flowVars
<1>. QED
  BY <1>1, <1>2, <1>3, <1>4, <1>5, <1>6, <1>7, <1>8, <1>9, <1>10, <1>11, <1>12, <1>13, <1>14,
     <1>15, <1>16, <1>17, <1>18, <1>19, <1>20, <1>21, <1>22, <1>23, <1>24, <1>25, <1>26, <1>27,
     <1>28, <1>29, <1>30, <1>31, <1>32, <1>33, <1>34, <1>35, <1>36, <1>37 DEF Next, TaskStep,
     Cancelled, Collecting, Settling

\* No step lets a body in without a slot while Prefect is believed available.
LEMMA ThrottledStep == ASSUME Inv, [Next]_vars PROVE Throttled'
<1>1. ASSUME NEW t \in Tasks, Dispatch(t) PROVE Throttled'
  BY <1>1 DEF Dispatch, GoTo, Inv, TypeOK, Throttled, bodyVars, tellVars, cancelVars, slotVars,
     storeVars, batchVars, flowVars
<1>2. ASSUME NEW t \in Tasks, LookedUp(t) PROVE Throttled'
  BY <1>2 DEF LookedUp, At, GoTo, Inv, TypeOK, Throttled, bodyVars, tellVars, cancelVars,
     slotVars, storeVars, batchVars, flowVars
<1>3. ASSUME NEW t \in Tasks, LookupFails(t) PROVE Throttled'
  BY <1>3 DEF LookupFails, At, GoTo, Inv, TypeOK, Throttled, bodyVars, tellVars, cancelVars,
     slotVars, storeVars, batchVars, flowVars
<1>4. ASSUME NEW t \in Tasks, Hydrated(t) PROVE Throttled'
  BY <1>4 DEF Hydrated, At, Loadable, GoTo, Inv, TypeOK, Throttled, bodyVars, tellVars,
     cancelVars, slotVars, storeVars, batchVars, flowVars
<1>5. ASSUME NEW t \in Tasks, Reused(t) PROVE Throttled'
  BY <1>5 DEF Reused, At, GoTo, Inv, TypeOK, Throttled, bodyVars, tellVars, cancelVars,
     slotVars, storeVars, batchVars, flowVars
<1>6. ASSUME NEW t \in Tasks, Opened(t) PROVE Throttled'
  BY <1>6 DEF Opened, At, GoTo, Inv, TypeOK, Throttled, bodyVars, tellVars, cancelVars,
     slotVars, storeVars, batchVars, flowVars
<1>7. ASSUME NEW t \in Tasks, Announced(t) PROVE Throttled'
  BY <1>7 DEF Announced, At, GoTo, Inv, TypeOK, Throttled, bodyVars, tellVars, cancelVars,
     slotVars, storeVars, batchVars, flowVars
<1>8. ASSUME NEW t \in Tasks, Begins(t) PROVE Throttled'
  BY <1>8 DEF Begins, At, GoTo, Inv, TypeOK, Throttled, bodyVars, tellVars, cancelVars,
     slotVars, storeVars, batchVars, flowVars
<1>9. ASSUME NEW t \in Tasks, SlotGranted(t) PROVE Throttled'
  <2>1. t \notin slots /\ slots \subseteq Tasks
    BY <1>9 DEF SlotGranted, At, Inv, TypeOK
  <2>2. Cardinality(slots') <= Limit
    BY <2>1, <1>9, SlotsCount DEF SlotGranted
  <2>. QED
    BY <2>2, <1>9 DEF SlotGranted, GoTo, Throttled, Inv, TypeOK
<1>10. ASSUME NEW t \in Tasks, SlotUnavailable(t) PROVE Throttled'
  BY <1>10 DEF SlotUnavailable, At, GoTo, Inv, TypeOK, Throttled, bodyVars, tellVars,
     cancelVars, slotVars, storeVars, batchVars, flowVars
<1>11. ASSUME NEW t \in Tasks, BodyReturns(t) PROVE Throttled'
  <2>1. slots' = slots \ {t} /\ UNCHANGED available /\ pc' = [pc EXCEPT ![t] = pc'[t]] /\ pc'[t] # "body"
    BY <1>11 DEF BodyReturns, GoTo, Leaves, Inv, TypeOK
  <2>2. slots \subseteq Tasks /\ slots' \subseteq Tasks
    BY <2>1 DEF Inv, TypeOK
  <2>3. /\ Cardinality(slots) \in Nat /\ Cardinality(slots') \in Nat
        /\ Cardinality(slots') <= Cardinality(slots)
    BY <2>1, <2>2, SlotsCount
  <2>4. Cardinality(slots') <= Limit
    BY <2>3 DEF Inv, Throttled
  <2>. QED
    BY <2>1, <2>4 DEF Throttled, Inv, TypeOK
<1>12. ASSUME NEW t \in Tasks, AttemptFails(t) PROVE Throttled'
  <2>1. slots' = slots \ {t} /\ UNCHANGED available /\ pc' = [pc EXCEPT ![t] = pc'[t]] /\ pc'[t] # "body"
    BY <1>12 DEF AttemptFails, GoTo, Leaves, Inv, TypeOK
  <2>2. slots \subseteq Tasks /\ slots' \subseteq Tasks
    BY <2>1 DEF Inv, TypeOK
  <2>3. /\ Cardinality(slots) \in Nat /\ Cardinality(slots') \in Nat
        /\ Cardinality(slots') <= Cardinality(slots)
    BY <2>1, <2>2, SlotsCount
  <2>4. Cardinality(slots') <= Limit
    BY <2>3 DEF Inv, Throttled
  <2>. QED
    BY <2>1, <2>4 DEF Throttled, Inv, TypeOK
<1>13. ASSUME NEW t \in Tasks, BodyRaises(t) PROVE Throttled'
  <2>1. slots' = slots \ {t} /\ UNCHANGED available /\ pc' = [pc EXCEPT ![t] = pc'[t]] /\ pc'[t] # "body"
    BY <1>13 DEF BodyRaises, GoTo, Leaves, Inv, TypeOK
  <2>2. slots \subseteq Tasks /\ slots' \subseteq Tasks
    BY <2>1 DEF Inv, TypeOK
  <2>3. /\ Cardinality(slots) \in Nat /\ Cardinality(slots') \in Nat
        /\ Cardinality(slots') <= Cardinality(slots)
    BY <2>1, <2>2, SlotsCount
  <2>4. Cardinality(slots') <= Limit
    BY <2>3 DEF Inv, Throttled
  <2>. QED
    BY <2>1, <2>4 DEF Throttled, Inv, TypeOK
<1>14. ASSUME NEW t \in Tasks, Retry(t) PROVE Throttled'
  BY <1>14 DEF Retry, At, GoTo, Inv, TypeOK, Throttled, bodyVars, tellVars, cancelVars,
     slotVars, storeVars, batchVars, flowVars
<1>15. ASSUME NEW t \in Tasks, Persisted(t) PROVE Throttled'
  BY <1>15 DEF Persisted, At, Save, GoTo, Inv, TypeOK, Throttled, bodyVars, tellVars,
     cancelVars, slotVars, storeVars, batchVars, flowVars
<1>16. ASSUME NEW t \in Tasks, ArtifactsSaved(t) PROVE Throttled'
  BY <1>16 DEF ArtifactsSaved, At, Save, GoTo, Inv, TypeOK, Throttled, bodyVars, tellVars,
     cancelVars, slotVars, storeVars, batchVars, flowVars
<1>17. ASSUME NEW t \in Tasks, Closed(t) PROVE Throttled'
  BY <1>17 DEF Closed, At, RowWritten, GoTo, Inv, TypeOK, Throttled, bodyVars, tellVars,
     cancelVars, slotVars, storeVars, batchVars, flowVars
<1>18. ASSUME NEW t \in Tasks, Reported(t) PROVE Throttled'
  BY <1>18 DEF Reported, At, Publish, GoTo, Inv, TypeOK, Throttled, bodyVars, tellVars,
     cancelVars, slotVars, storeVars, batchVars, flowVars
<1>19. ASSUME NEW t \in Tasks, SpanFailed(t) PROVE Throttled'
  BY <1>19 DEF SpanFailed, At, GoTo, Inv, TypeOK, Throttled, bodyVars, tellVars, cancelVars,
     slotVars, storeVars, batchVars, flowVars
<1>20. ASSUME NEW t \in Tasks, FailureReported(t) PROVE Throttled'
  BY <1>20 DEF FailureReported, At, Publish, GoTo, Inv, TypeOK, Throttled, bodyVars, tellVars,
     cancelVars, slotVars, storeVars, batchVars, flowVars
<1>21. ASSUME NEW t \in Tasks, CancelledBefore(t) PROVE Throttled'
  <2>1. slots' = slots \ {t} /\ UNCHANGED available /\ pc' = [pc EXCEPT ![t] = pc'[t]] /\ pc'[t] # "body"
    BY <1>21 DEF CancelledBefore, Raised, GoTo, Leaves, Inv, TypeOK
  <2>2. slots \subseteq Tasks /\ slots' \subseteq Tasks
    BY <2>1 DEF Inv, TypeOK
  <2>3. /\ Cardinality(slots) \in Nat /\ Cardinality(slots') \in Nat
        /\ Cardinality(slots') <= Cardinality(slots)
    BY <2>1, <2>2, SlotsCount
  <2>4. Cardinality(slots') <= Limit
    BY <2>3 DEF Inv, Throttled
  <2>. QED
    BY <2>1, <2>4 DEF Throttled, Inv, TypeOK
<1>22. ASSUME NEW t \in Tasks, CancelledInside(t) PROVE Throttled'
  <2>1. slots' = slots \ {t} /\ UNCHANGED available /\ pc' = [pc EXCEPT ![t] = pc'[t]] /\ pc'[t] # "body"
    BY <1>22 DEF CancelledInside, Raised, GoTo, Leaves, Inv, TypeOK
  <2>2. slots \subseteq Tasks /\ slots' \subseteq Tasks
    BY <2>1 DEF Inv, TypeOK
  <2>3. /\ Cardinality(slots) \in Nat /\ Cardinality(slots') \in Nat
        /\ Cardinality(slots') <= Cardinality(slots)
    BY <2>1, <2>2, SlotsCount
  <2>4. Cardinality(slots') <= Limit
    BY <2>3 DEF Inv, Throttled
  <2>. QED
    BY <2>1, <2>4 DEF Throttled, Inv, TypeOK
<1>23. ASSUME NEW t \in Tasks, CancelledAtSpan(t) PROVE Throttled'
  <2>1. slots' = slots \ {t} /\ UNCHANGED available /\ pc' = [pc EXCEPT ![t] = pc'[t]] /\ pc'[t] # "body"
    BY <1>23 DEF CancelledAtSpan, Raised, GoTo, Leaves, Inv, TypeOK
  <2>2. slots \subseteq Tasks /\ slots' \subseteq Tasks
    BY <2>1 DEF Inv, TypeOK
  <2>3. /\ Cardinality(slots) \in Nat /\ Cardinality(slots') \in Nat
        /\ Cardinality(slots') <= Cardinality(slots)
    BY <2>1, <2>2, SlotsCount
  <2>4. Cardinality(slots') <= Limit
    BY <2>3 DEF Inv, Throttled
  <2>. QED
    BY <2>1, <2>4 DEF Throttled, Inv, TypeOK
<1>24. ASSUME NEW t \in Tasks, CancelledAfter(t) PROVE Throttled'
  <2>1. slots' = slots \ {t} /\ UNCHANGED available /\ pc' = [pc EXCEPT ![t] = pc'[t]] /\ pc'[t] # "body"
    BY <1>24 DEF CancelledAfter, Raised, GoTo, Leaves, Inv, TypeOK
  <2>2. slots \subseteq Tasks /\ slots' \subseteq Tasks
    BY <2>1 DEF Inv, TypeOK
  <2>3. /\ Cardinality(slots) \in Nat /\ Cardinality(slots') \in Nat
        /\ Cardinality(slots') <= Cardinality(slots)
    BY <2>1, <2>2, SlotsCount
  <2>4. Cardinality(slots') <= Limit
    BY <2>3 DEF Inv, Throttled
  <2>. QED
    BY <2>1, <2>4 DEF Throttled, Inv, TypeOK
<1>25. CASE Collect
  BY <1>25 DEF Collect, BatchReturned, FlowOnly, Inv, TypeOK, Throttled, bodyVars, tellVars,
     cancelVars, slotVars, storeVars, batchVars, flowVars
<1>26. CASE Woken
  BY <1>26 DEF Woken, FlowOnly, Done, Inv, TypeOK, Throttled, bodyVars, tellVars, cancelVars,
     slotVars, storeVars, batchVars, flowVars
<1>27. CASE TimedOut
  BY <1>27 DEF TimedOut, BatchReturned, FlowOnly, Inv, TypeOK, Throttled, bodyVars, tellVars,
     cancelVars, slotVars, storeVars, batchVars, flowVars
<1>28. CASE Taken
  BY <1>28 DEF Taken, FlowOnly, Inv, TypeOK, Throttled, bodyVars, tellVars, cancelVars,
     slotVars, storeVars, batchVars, flowVars
<1>29. CASE Looped
  BY <1>29 DEF Looped, BatchReturned, FlowOnly, Inv, TypeOK, Throttled, bodyVars, tellVars,
     cancelVars, slotVars, storeVars, batchVars, flowVars
<1>30. CASE DeadlinePasses
  BY <1>30 DEF DeadlinePasses, FlowOnly, Inv, TypeOK, Throttled, bodyVars, tellVars, cancelVars,
     slotVars, storeVars, batchVars, flowVars
<1>31. CASE CancelHandle
  BY <1>31 DEF CancelHandle, FlowOnly, Live, Inv, TypeOK, Throttled, bodyVars, tellVars,
     cancelVars, slotVars, storeVars, batchVars, flowVars
<1>32. CASE FlowLeaves
  BY <1>32 DEF FlowLeaves, FlowOnly, Live, Inv, TypeOK, Throttled, bodyVars, tellVars,
     cancelVars, slotVars, storeVars, batchVars, flowVars
<1>33. CASE GraceOver
  BY <1>33 DEF GraceOver, FlowOnly, Live, Inv, TypeOK, Throttled, bodyVars, tellVars,
     cancelVars, slotVars, storeVars, batchVars, flowVars
<1>34. CASE FlowOver \/ SettlingCancelled
  BY <1>34 DEF FlowOver, SettlingCancelled, FlowOnly, Inv, TypeOK, Throttled, bodyVars, tellVars, cancelVars,
     slotVars, storeVars, batchVars, flowVars
<1>35. CASE Expire
  BY <1>35 DEF Expire, Inv, TypeOK, Throttled, bodyVars, tellVars, cancelVars, slotVars,
     storeVars, batchVars, flowVars
<1>36. CASE BlobLost
  BY <1>36 DEF BlobLost, Inv, TypeOK, Throttled, bodyVars, tellVars, cancelVars, slotVars,
     storeVars, batchVars, flowVars
<1>37. CASE UNCHANGED vars
  BY <1>37 DEF vars, Inv, TypeOK, Throttled, bodyVars, tellVars, cancelVars, slotVars,
     storeVars, batchVars, flowVars
<1>. QED
  BY <1>1, <1>2, <1>3, <1>4, <1>5, <1>6, <1>7, <1>8, <1>9, <1>10, <1>11, <1>12, <1>13, <1>14,
     <1>15, <1>16, <1>17, <1>18, <1>19, <1>20, <1>21, <1>22, <1>23, <1>24, <1>25, <1>26, <1>27,
     <1>28, <1>29, <1>30, <1>31, <1>32, <1>33, <1>34, <1>35, <1>36, <1>37 DEF Next, TaskStep,
     Cancelled, Collecting, Settling

\* Every step keeps each handle in one place of the batch.
LEMMA BatchStep == ASSUME Inv, [Next]_vars PROVE Batch'
<1>1. ASSUME NEW t \in Tasks, Dispatch(t) PROVE Batch'
  BY <1>1 DEF Dispatch, GoTo, Inv, TypeOK, Batch, Running, Ended, Live, bodyVars, tellVars,
     cancelVars, slotVars, storeVars, batchVars, flowVars
<1>2. ASSUME NEW t \in Tasks, LookedUp(t) PROVE Batch'
  BY <1>2 DEF LookedUp, At, GoTo, Inv, TypeOK, Batch, Running, Ended, Live, bodyVars, tellVars,
     cancelVars, slotVars, storeVars, batchVars, flowVars
<1>3. ASSUME NEW t \in Tasks, LookupFails(t) PROVE Batch'
  BY <1>3 DEF LookupFails, At, GoTo, Inv, TypeOK, Batch, Running, Ended, Live, bodyVars,
     tellVars, cancelVars, slotVars, storeVars, batchVars, flowVars
<1>4. ASSUME NEW t \in Tasks, Hydrated(t) PROVE Batch'
  BY <1>4 DEF Hydrated, At, Loadable, GoTo, Inv, TypeOK, Batch, Running, Ended, Live, bodyVars,
     tellVars, cancelVars, slotVars, storeVars, batchVars, flowVars
<1>5. ASSUME NEW t \in Tasks, Reused(t) PROVE Batch'
  BY <1>5 DEF Reused, At, GoTo, Inv, TypeOK, Batch, Running, Ended, Live, bodyVars, tellVars,
     cancelVars, slotVars, storeVars, batchVars, flowVars
<1>6. ASSUME NEW t \in Tasks, Opened(t) PROVE Batch'
  BY <1>6 DEF Opened, At, GoTo, Inv, TypeOK, Batch, Running, Ended, Live, bodyVars, tellVars,
     cancelVars, slotVars, storeVars, batchVars, flowVars
<1>7. ASSUME NEW t \in Tasks, Announced(t) PROVE Batch'
  BY <1>7 DEF Announced, At, GoTo, Inv, TypeOK, Batch, Running, Ended, Live, bodyVars, tellVars,
     cancelVars, slotVars, storeVars, batchVars, flowVars
<1>8. ASSUME NEW t \in Tasks, Begins(t) PROVE Batch'
  BY <1>8 DEF Begins, At, GoTo, Inv, TypeOK, Batch, Running, Ended, Live, bodyVars, tellVars,
     cancelVars, slotVars, storeVars, batchVars, flowVars
<1>9. ASSUME NEW t \in Tasks, SlotGranted(t) PROVE Batch'
  BY <1>9 DEF SlotGranted, At, GoTo, Inv, TypeOK, Batch, Running, Ended, Live, bodyVars,
     tellVars, cancelVars, slotVars, storeVars, batchVars, flowVars
<1>10. ASSUME NEW t \in Tasks, SlotUnavailable(t) PROVE Batch'
  BY <1>10 DEF SlotUnavailable, At, GoTo, Inv, TypeOK, Batch, Running, Ended, Live, bodyVars,
     tellVars, cancelVars, slotVars, storeVars, batchVars, flowVars
<1>11. ASSUME NEW t \in Tasks, BodyReturns(t) PROVE Batch'
  BY <1>11 DEF BodyReturns, At, Leaves, GoTo, Inv, TypeOK, Batch, Running, Ended, Live,
     bodyVars, tellVars, cancelVars, slotVars, storeVars, batchVars, flowVars
<1>12. ASSUME NEW t \in Tasks, AttemptFails(t) PROVE Batch'
  BY <1>12 DEF AttemptFails, At, Leaves, GoTo, Inv, TypeOK, Batch, Running, Ended, Live,
     bodyVars, tellVars, cancelVars, slotVars, storeVars, batchVars, flowVars
<1>13. ASSUME NEW t \in Tasks, BodyRaises(t) PROVE Batch'
  BY <1>13 DEF BodyRaises, At, Leaves, GoTo, Inv, TypeOK, Batch, Running, Ended, Live, bodyVars,
     tellVars, cancelVars, slotVars, storeVars, batchVars, flowVars
<1>14. ASSUME NEW t \in Tasks, Retry(t) PROVE Batch'
  BY <1>14 DEF Retry, At, GoTo, Inv, TypeOK, Batch, Running, Ended, Live, bodyVars, tellVars,
     cancelVars, slotVars, storeVars, batchVars, flowVars
<1>15. ASSUME NEW t \in Tasks, Persisted(t) PROVE Batch'
  BY <1>15 DEF Persisted, At, Save, GoTo, Inv, TypeOK, Batch, Running, Ended, Live, bodyVars,
     tellVars, cancelVars, slotVars, storeVars, batchVars, flowVars
<1>16. ASSUME NEW t \in Tasks, ArtifactsSaved(t) PROVE Batch'
  BY <1>16 DEF ArtifactsSaved, At, Save, GoTo, Inv, TypeOK, Batch, Running, Ended, Live,
     bodyVars, tellVars, cancelVars, slotVars, storeVars, batchVars, flowVars
<1>17. ASSUME NEW t \in Tasks, Closed(t) PROVE Batch'
  BY <1>17 DEF Closed, At, RowWritten, GoTo, Inv, TypeOK, Batch, Running, Ended, Live, bodyVars,
     tellVars, cancelVars, slotVars, storeVars, batchVars, flowVars
<1>18. ASSUME NEW t \in Tasks, Reported(t) PROVE Batch'
  BY <1>18 DEF Reported, At, Publish, GoTo, Inv, TypeOK, Batch, Running, Ended, Live, bodyVars,
     tellVars, cancelVars, slotVars, storeVars, batchVars, flowVars
<1>19. ASSUME NEW t \in Tasks, SpanFailed(t) PROVE Batch'
  BY <1>19 DEF SpanFailed, At, GoTo, Inv, TypeOK, Batch, Running, Ended, Live, bodyVars,
     tellVars, cancelVars, slotVars, storeVars, batchVars, flowVars
<1>20. ASSUME NEW t \in Tasks, FailureReported(t) PROVE Batch'
  BY <1>20 DEF FailureReported, At, Publish, GoTo, Inv, TypeOK, Batch, Running, Ended, Live,
     bodyVars, tellVars, cancelVars, slotVars, storeVars, batchVars, flowVars
<1>21. ASSUME NEW t \in Tasks, CancelledBefore(t) PROVE Batch'
  BY <1>21 DEF CancelledBefore, Raised, Leaves, GoTo, Inv, TypeOK, Batch, Running, Ended, Live,
     bodyVars, tellVars, cancelVars, slotVars, storeVars, batchVars, flowVars
<1>22. ASSUME NEW t \in Tasks, CancelledInside(t) PROVE Batch'
  BY <1>22 DEF CancelledInside, Raised, Leaves, GoTo, Inv, TypeOK, Batch, Running, Ended, Live,
     bodyVars, tellVars, cancelVars, slotVars, storeVars, batchVars, flowVars
<1>23. ASSUME NEW t \in Tasks, CancelledAtSpan(t) PROVE Batch'
  BY <1>23 DEF CancelledAtSpan, Raised, Leaves, RowWritten, GoTo, Inv, TypeOK, Batch, Running,
     Ended, Live, bodyVars, tellVars, cancelVars, slotVars, storeVars, batchVars, flowVars
<1>24. ASSUME NEW t \in Tasks, CancelledAfter(t) PROVE Batch'
  BY <1>24 DEF CancelledAfter, Raised, Leaves, Publish, GoTo, Inv, TypeOK, Batch, Running,
     Ended, Live, bodyVars, tellVars, cancelVars, slotVars, storeVars, batchVars, flowVars
<1>25. CASE Collect
  BY <1>25 DEF Collect, BatchReturned, FlowOnly, Inv, TypeOK, Batch, Running, Ended, Live,
     bodyVars, tellVars, cancelVars, slotVars, storeVars, batchVars, flowVars
<1>26. CASE Woken
  BY <1>26 DEF Woken, FlowOnly, Done, Inv, TypeOK, Batch, Running, Ended, Live, bodyVars,
     tellVars, cancelVars, slotVars, storeVars, batchVars, flowVars
<1>27. CASE TimedOut
  BY <1>27 DEF TimedOut, BatchReturned, FlowOnly, Inv, TypeOK, Batch, Running, Ended, Live,
     bodyVars, tellVars, cancelVars, slotVars, storeVars, batchVars, flowVars
<1>28. CASE Taken
  BY <1>28 DEF Taken, FlowOnly, Inv, TypeOK, Batch, Running, Ended, Live, bodyVars, tellVars,
     cancelVars, slotVars, storeVars, batchVars, flowVars
<1>29. CASE Looped
  BY <1>29 DEF Looped, BatchReturned, FlowOnly, Inv, TypeOK, Batch, Running, Ended, Live,
     bodyVars, tellVars, cancelVars, slotVars, storeVars, batchVars, flowVars
<1>30. CASE DeadlinePasses
  BY <1>30 DEF DeadlinePasses, FlowOnly, Inv, TypeOK, Batch, Running, Ended, Live, bodyVars,
     tellVars, cancelVars, slotVars, storeVars, batchVars, flowVars
<1>31. CASE CancelHandle
  BY <1>31 DEF CancelHandle, FlowOnly, Inv, TypeOK, Batch, Running, Ended, Live, bodyVars,
     tellVars, cancelVars, slotVars, storeVars, batchVars, flowVars
<1>32. CASE FlowLeaves
  BY <1>32 DEF FlowLeaves, FlowOnly, Inv, TypeOK, Batch, Running, Ended, Live, bodyVars,
     tellVars, cancelVars, slotVars, storeVars, batchVars, flowVars
<1>33. CASE GraceOver
  BY <1>33 DEF GraceOver, FlowOnly, Inv, TypeOK, Batch, Running, Ended, Live, bodyVars,
     tellVars, cancelVars, slotVars, storeVars, batchVars, flowVars
<1>34. CASE FlowOver \/ SettlingCancelled
  BY <1>34 DEF FlowOver, SettlingCancelled, FlowOnly, Inv, TypeOK, Batch, Running, Ended, Live, bodyVars, tellVars,
     cancelVars, slotVars, storeVars, batchVars, flowVars
<1>35. CASE Expire
  BY <1>35 DEF Expire, Inv, TypeOK, Batch, Running, Ended, Live, bodyVars, tellVars, cancelVars,
     slotVars, storeVars, batchVars, flowVars
<1>36. CASE BlobLost
  BY <1>36 DEF BlobLost, Inv, TypeOK, Batch, Running, Ended, Live, bodyVars, tellVars,
     cancelVars, slotVars, storeVars, batchVars, flowVars
<1>37. CASE UNCHANGED vars
  BY <1>37 DEF vars, Inv, TypeOK, Batch, Running, Ended, Live, bodyVars, tellVars, cancelVars,
     slotVars, storeVars, batchVars, flowVars
<1>. QED
  BY <1>1, <1>2, <1>3, <1>4, <1>5, <1>6, <1>7, <1>8, <1>9, <1>10, <1>11, <1>12, <1>13, <1>14,
     <1>15, <1>16, <1>17, <1>18, <1>19, <1>20, <1>21, <1>22, <1>23, <1>24, <1>25, <1>26, <1>27,
     <1>28, <1>29, <1>30, <1>31, <1>32, <1>33, <1>34, <1>35, <1>36, <1>37 DEF Next, TaskStep,
     Cancelled, Collecting, Settling

-----------------------------------------------------------------------------
\* The invariant holds in every reachable state.
THEOREM Invariance == Spec => []Inv
<1>1. Init => Inv
  <2>. SUFFICES ASSUME Init PROVE Inv
    OBVIOUS
  <2>1. TypeOK
    <3>1. cancels \in 0..(IF Cancels > 0 THEN Cancels ELSE 1)
      BY DEF Init
    <3>2. completion \in [Keys -> (SUBSET Docs) \cup {None}]
      BY DEF Init
    <3>3. attempt \in [Tasks -> 0..Attempts]
      BY DEF Init
    <3>. QED
      BY <3>1, <3>2, <3>3 DEF Init, TypeOK, Running, Ended, Live
  <2>2. Cardinality(slots) = 0
    BY FS_EmptySet DEF Init
  <2>3. Keyed /\ Whole /\ Told /\ EventsAgree
    BY DEF Init, Keyed, Whole, Told, EventsAgree, Ended
  <2>4. Throttled /\ Batch
    BY <2>2 DEF Init, Throttled, Batch
  <2>. QED
    BY <2>1, <2>3, <2>4 DEF Inv
<1>2. Inv /\ [Next]_vars => Inv'
  BY TypeStep, KeyedStep, WholeStep, ToldStep, EventsStep, ThrottledStep, BatchStep DEF Inv
<1>. QED
  BY <1>1, <1>2, PTL DEF Spec

\* The state is well formed.
THEOREM TypeCorrect == Spec => []TypeOK
  BY Invariance, PTL DEF Inv

\* A reused result is what a body of that key returned, whatever failed and whatever was lost.
THEOREM ReusesWhatWasReturned == Spec => []ReusedAsReturned
<1>1. Inv => ReusedAsReturned
  BY DEF Inv, Keyed, Whole, ReusedAsReturned
<1>. QED
  BY <1>1, Invariance, PTL

\* The events of a task agree with its span.
THEOREM EventsTellTheSpan == Spec => []EventsAgree
  BY Invariance, PTL DEF Inv

\* While Prefect is believed available, bodies run within the limit.
THEOREM BodiesWithinLimit == Spec => []ThrottledWhileAvailable
<1>1. Inv => ThrottledWhileAvailable
  BY DEF Inv, Throttled, ThrottledWhileAvailable
<1>. QED
  BY <1>1, Invariance, PTL

\* The batch loses no handle and gives none twice.
THEOREM BatchAccountsForAll == Spec => []BatchSplits
<1>1. Inv => BatchSplits
  BY DEF Inv, Batch, BatchSplits
<1>. QED
  BY <1>1, Invariance, PTL
-----------------------------------------------------------------------------
(* What cancellation leaves behind.                                        *)

\* An invocation in which CancelledError was raised makes no further attempt and does not
\* return: it only closes its span and tells of its failure (_run_with_retries, track_span).
NoSecondWind == \A t \in cancelled : pc[t] \in {"failing", "reportfail", "raised"}

\* Whatever still runs once the flow is left was told to stop (_cancel_dispatched_handles).
AllTold == flow \in {"settling", "over"} => Live \subseteq dying \cup cancelled

\* The steps that are left to the invocations of a flow that is left.
Ends(t) == pc'[t] # pc[t] => pc'[t] \in {"failing", "reportfail", "raised"}
OnlyEnds == [][(flow \in {"settling", "over"}) => \A t \in Tasks : Ends(t)]_vars

\* No step revives a cancelled invocation or leaves one running that nobody has cancelled.
LEMMA CancelStep ==
  ASSUME Inv, NoSecondWind, AllTold, [Next]_vars
  PROVE  NoSecondWind' /\ AllTold'
<1>. DEFINE Goal == NoSecondWind' /\ AllTold'
<1>0. TypeOK
  BY DEF Inv
<1>. USE DEF NoSecondWind, AllTold, Live, Running, Ended
<1>1. ASSUME NEW t \in Tasks, NEW p \in Running \cup Ended, GoTo(t, p), t \notin dying,
             pc[t] \in Running, t \in cancelled => p \in {"reportfail", "raised"},
             UNCHANGED <<dying, cancelled, flow>>
      PROVE  Goal
  BY <1>0, <1>1 DEF GoTo, TypeOK
<1>2. ASSUME NEW t \in Tasks, Dispatch(t) PROVE Goal
  BY <1>0, <1>2 DEF Dispatch, GoTo, TypeOK, cancelVars, flowVars
<1>3. ASSUME NEW t \in Tasks,
             LookedUp(t) \/ LookupFails(t) \/ Hydrated(t) \/ Reused(t) \/ Opened(t) \/ Announced(t)
      PROVE  Goal
  BY <1>1, <1>3 DEF LookedUp, LookupFails, Hydrated, Reused, Opened, Announced, At, cancelVars,
     flowVars
<1>4. ASSUME NEW t \in Tasks, Begins(t) \/ SlotGranted(t) \/ SlotUnavailable(t) \/ BodyReturns(t)
      PROVE  Goal
  BY <1>1, <1>4 DEF Begins, SlotGranted, SlotUnavailable, BodyReturns, At, cancelVars, flowVars
<1>5. ASSUME NEW t \in Tasks, AttemptFails(t) \/ BodyRaises(t) \/ Retry(t) \/ Persisted(t)
      PROVE  Goal
  BY <1>1, <1>5 DEF AttemptFails, BodyRaises, Retry, Persisted, At, cancelVars, flowVars
<1>6. ASSUME NEW t \in Tasks,
             ArtifactsSaved(t) \/ Closed(t) \/ Reported(t) \/ SpanFailed(t) \/ FailureReported(t)
      PROVE  Goal
  BY <1>1, <1>6 DEF ArtifactsSaved, Closed, Reported, SpanFailed, FailureReported, At, cancelVars,
     flowVars
<1>7. ASSUME NEW t \in Tasks, NEW p \in {"failing", "reportfail", "raised"}, Raised(t, p),
             p = "failing" => t \notin cancelled
      PROVE  Goal
  BY <1>0, <1>7 DEF Raised, GoTo, TypeOK, flowVars
<1>8. ASSUME NEW t \in Tasks, Cancelled(t) PROVE Goal
  BY <1>7, <1>8 DEF Cancelled, CancelledBefore, CancelledInside, CancelledAtSpan, CancelledAfter
<1>9. CASE Collect \/ Collecting \/ DeadlinePasses
  BY <1>9 DEF Collect, Collecting, Woken, TimedOut, Taken, Looped, DeadlinePasses, BatchReturned,
     FlowOnly
<1>10. CASE CancelHandle \/ FlowLeaves \/ Settling
  BY <1>10 DEF CancelHandle, FlowLeaves, Settling, GraceOver, FlowOver, SettlingCancelled, FlowOnly
<1>11. CASE Expire \/ BlobLost \/ UNCHANGED vars
  BY <1>11 DEF Expire, BlobLost, cancelVars, flowVars, vars
<1>. HIDE DEF NoSecondWind, AllTold, Live, Running, Ended
<1>. QED
  BY <1>2, <1>3, <1>4, <1>5, <1>6, <1>8, <1>9, <1>10, <1>11 DEF Next, TaskStep

\* Once the flow is left, an invocation moves only to its end.
LEMMA EndsStep ==
  ASSUME Inv, NoSecondWind, AllTold, Next, flow \in {"settling", "over"}, NEW t \in Tasks
  PROVE  Ends(t)
<1>. DEFINE Last == {"failing", "reportfail", "raised"}
<1>0. pc \in [Tasks -> Running \cup Ended \cup {"new"}]
  BY DEF Inv, TypeOK
<1>1. ASSUME NEW u \in Tasks, NEW p, GoTo(u, p), u # t \/ p \in Last PROVE Ends(t)
  BY <1>0, <1>1 DEF GoTo, Ends
<1>2. t \in dying \/ pc[t] \in {"failing", "reportfail", "new"} \cup Ended
  BY <1>0 DEF NoSecondWind, AllTold, Live, Ended
<1>3. ASSUME NEW u \in Tasks, Dispatch(u) PROVE Ends(t)
  BY <1>3 DEF Dispatch
<1>4. ASSUME NEW u \in Tasks,
             LookedUp(u) \/ LookupFails(u) \/ Hydrated(u) \/ Reused(u) \/ Opened(u) \/ Announced(u)
      PROVE  Ends(t)
  BY <1>1, <1>2, <1>4 DEF LookedUp, LookupFails, Hydrated, Reused, Opened, Announced, At, Ended
<1>5. ASSUME NEW u \in Tasks, Begins(u) \/ SlotGranted(u) \/ SlotUnavailable(u) \/ BodyReturns(u)
      PROVE  Ends(t)
  BY <1>1, <1>2, <1>5 DEF Begins, SlotGranted, SlotUnavailable, BodyReturns, At, Ended
<1>6. ASSUME NEW u \in Tasks, AttemptFails(u) \/ BodyRaises(u) \/ Retry(u) \/ Persisted(u)
      PROVE  Ends(t)
  BY <1>1, <1>2, <1>6 DEF AttemptFails, BodyRaises, Retry, Persisted, At, Ended
<1>7. ASSUME NEW u \in Tasks,
             ArtifactsSaved(u) \/ Closed(u) \/ Reported(u) \/ SpanFailed(u) \/ FailureReported(u)
      PROVE  Ends(t)
  BY <1>1, <1>2, <1>7 DEF ArtifactsSaved, Closed, Reported, SpanFailed, FailureReported, At, Ended
<1>8. ASSUME NEW u \in Tasks, Cancelled(u) PROVE Ends(t)
  BY <1>1, <1>8 DEF Cancelled, CancelledBefore, CancelledInside, CancelledAtSpan, CancelledAfter,
     Raised
<1>9. CASE UNCHANGED pc
  BY <1>9 DEF Ends
<1>10. CASE \/ Collect \/ Collecting \/ DeadlinePasses \/ CancelHandle \/ FlowLeaves \/ Settling
            \/ Expire \/ BlobLost
  BY <1>9, <1>10 DEF Collect, Collecting, Woken, TimedOut, Taken, Looped, DeadlinePasses,
     CancelHandle, FlowLeaves, Settling, GraceOver, FlowOver, SettlingCancelled, FlowOnly, Expire,
     BlobLost
<1>. QED
  BY <1>3, <1>4, <1>5, <1>6, <1>7, <1>8, <1>10 DEF Next, TaskStep

\* A cancellation is final, and what outlives its flow, because the clean-up was cancelled or its
\* wait is not over, only closes its span and tells of its failure: it runs no body, stores no
\* document and returns nothing.
THEOREM CancellationIsFinal == Spec => []NoSecondWind /\ OnlyEnds
<1>1. Init => NoSecondWind /\ AllTold
  BY DEF Init, NoSecondWind, AllTold
<1>2. Inv /\ NoSecondWind /\ AllTold /\ [Next]_vars => NoSecondWind' /\ AllTold'
  BY CancelStep
<1>3. Inv /\ NoSecondWind /\ AllTold /\ [Next]_vars
        => [(flow \in {"settling", "over"}) => \A t \in Tasks : Ends(t)]_vars
  BY EndsStep
<1>. QED
  BY <1>1, <1>2, <1>3, Invariance, PTL DEF Spec, OnlyEnds
-----------------------------------------------------------------------------
(* Invocations and batches come to an end.                                 *)

Loop == {"starting", "slot", "body", "backoff"}
Phases == Running \cup Ended \cup {"new"}

\* How far an invocation has come.
Stage == [p \in Phases |->
  CASE p = "new" -> 0 [] p = "lookup" -> 1 [] p = "hydrate" -> 2 [] p = "reuse" -> 3
    [] p = "opening" -> 4 [] p = "announce" -> 5 [] p = "starting" -> 6 [] p = "slot" -> 7
    [] p = "body" -> 8 [] p = "backoff" -> 9 [] p = "persist" -> 10 [] p = "artifacts" -> 11
    [] p = "closing" -> 12 [] p = "report" -> 13 [] p = "failing" -> 14 [] p = "reportfail" -> 15
    [] p \in Ended -> 16]

\* One step of an invocation towards its end: it gets further, or makes its next attempt.
Closer(t) ==
  \/ Stage[pc'[t]] > Stage[pc[t]] /\ (pc[t] \in Loop /\ pc'[t] \in Loop => attempt'[t] = attempt[t])
  \/ pc[t] = "backoff" /\ pc'[t] = "starting" /\ attempt'[t] = attempt[t] + 1

\* Whatever its cache, its slot and its body do, and whenever it is cancelled, each step of an
\* invocation brings it closer to its end, and no other step moves it; with the bound of TypeOK
\* on attempts it has only so many (_execute_invocation, _run_with_retries).
InvocationsAdvance ==
  [][\A t \in Tasks : /\ TaskStep(t) => Closer(t)
                      /\ pc'[t] # pc[t] \/ attempt'[t] # attempt[t] => Closer(t)]_vars

\* A step of t that moves it to p is one towards the end.
LEMMA GoCloser ==
  ASSUME Inv, NEW t \in Tasks, NEW p \in Phases, GoTo(t, p), Stage[p] > Stage[pc[t]],
         pc[t] \in Loop /\ p \in Loop => UNCHANGED attempt
  PROVE  Closer(t)
<1>1. pc'[t] = p
  BY DEF GoTo, Inv, TypeOK
<1>. QED
  BY <1>1 DEF Closer

\* The stages, one by one.
LEMMA StageIs ==
  /\ Stage["new"] = 0 /\ Stage["lookup"] = 1 /\ Stage["hydrate"] = 2 /\ Stage["reuse"] = 3
  /\ Stage["opening"] = 4 /\ Stage["announce"] = 5 /\ Stage["starting"] = 6 /\ Stage["slot"] = 7
  /\ Stage["body"] = 8 /\ Stage["backoff"] = 9 /\ Stage["persist"] = 10
  /\ Stage["artifacts"] = 11 /\ Stage["closing"] = 12 /\ Stage["report"] = 13
  /\ Stage["failing"] = 14 /\ Stage["reportfail"] = 15
  /\ Stage["returned"] = 16 /\ Stage["raised"] = 16
<1>1. "new" \in Phases /\ Running \subseteq Phases /\ Ended \subseteq Phases
  BY DEF Phases
<1>. QED
  BY <1>1 DEF Stage, Running, Ended

\* Each step of an invocation is one towards its end.
LEMMA TaskCloser ==
  ASSUME Inv, NEW t \in Tasks, Dispatch(t) \/ TaskStep(t)
  PROVE  Closer(t)
<1>. USE GoCloser, StageIs DEF Phases, Running, Ended, Loop
<1>1. CASE Dispatch(t) \/ LookedUp(t) \/ LookupFails(t) \/ Hydrated(t) \/ Reused(t)
  BY <1>1 DEF Dispatch, LookedUp, LookupFails, Hydrated, Reused, At
<1>2. CASE Opened(t) \/ Announced(t)
  BY <1>2 DEF Opened, Announced, At
<1>3. CASE Begins(t) \/ SlotGranted(t) \/ SlotUnavailable(t)
  BY <1>3 DEF Begins, SlotGranted, SlotUnavailable, At, bodyVars
<1>4. CASE BodyReturns(t) \/ AttemptFails(t) \/ BodyRaises(t)
  BY <1>4 DEF BodyReturns, AttemptFails, BodyRaises, At
<1>5. CASE Retry(t)
  BY <1>5 DEF Retry, At, GoTo, Closer, Inv, TypeOK
<1>6. CASE Persisted(t) \/ ArtifactsSaved(t) \/ Closed(t) \/ Reported(t)
  BY <1>6 DEF Persisted, ArtifactsSaved, Closed, Reported, At
<1>7. CASE SpanFailed(t) \/ FailureReported(t)
  BY <1>7 DEF SpanFailed, FailureReported, At
<1>8. CASE Cancelled(t)
  BY <1>8 DEF Cancelled, CancelledBefore, CancelledInside, CancelledAtSpan, CancelledAfter, Raised
<1>. QED
  BY <1>1, <1>2, <1>3, <1>4, <1>5, <1>6, <1>7, <1>8 DEF TaskStep

\* A step of one invocation moves no other.
LEMMA OthersStay ==
  ASSUME Inv, NEW t \in Tasks, Dispatch(t) \/ TaskStep(t), NEW u \in Tasks, u # t
  PROVE  pc'[u] = pc[u] /\ attempt'[u] = attempt[u]
<1>. USE DEF Inv, TypeOK, GoTo, bodyVars
<1>1. CASE Dispatch(t) \/ LookedUp(t) \/ LookupFails(t) \/ Hydrated(t) \/ Reused(t)
  BY <1>1 DEF Dispatch, LookedUp, LookupFails, Hydrated, Reused
<1>2. CASE Opened(t) \/ Announced(t) \/ Begins(t) \/ SlotGranted(t) \/ SlotUnavailable(t)
  BY <1>2 DEF Opened, Announced, Begins, SlotGranted, SlotUnavailable
<1>3. CASE BodyReturns(t) \/ AttemptFails(t) \/ BodyRaises(t) \/ Retry(t)
  BY <1>3 DEF BodyReturns, AttemptFails, BodyRaises, Retry
<1>4. CASE Persisted(t) \/ ArtifactsSaved(t) \/ Closed(t) \/ Reported(t)
  BY <1>4 DEF Persisted, ArtifactsSaved, Closed, Reported
<1>5. CASE SpanFailed(t) \/ FailureReported(t)
  BY <1>5 DEF SpanFailed, FailureReported
<1>6. CASE Cancelled(t)
  BY <1>6 DEF Cancelled, CancelledBefore, CancelledInside, CancelledAtSpan, CancelledAfter, Raised
<1>. QED
  BY <1>1, <1>2, <1>3, <1>4, <1>5, <1>6 DEF TaskStep

\* No invocation goes on for ever of itself.
THEOREM InvocationsComeToAnEnd == Spec => InvocationsAdvance
<1> DEFINE A == \A t \in Tasks : /\ TaskStep(t) => Closer(t)
                                 /\ pc'[t] # pc[t] \/ attempt'[t] # attempt[t] => Closer(t)
<1>1. ASSUME Inv, Next, NEW t \in Tasks, pc'[t] # pc[t] \/ attempt'[t] # attempt[t] PROVE Closer(t)
  <2>1. CASE \E u \in Tasks : Dispatch(u) \/ TaskStep(u)
    BY <1>1, <2>1, TaskCloser, OthersStay
  <2>2. CASE Collect \/ Collecting \/ DeadlinePasses \/ CancelHandle \/ FlowLeaves \/ Settling
    BY <1>1, <2>2 DEF Collect, Collecting, Woken, TimedOut, Taken, Looped, DeadlinePasses,
       CancelHandle, FlowLeaves, Settling, GraceOver, FlowOver, SettlingCancelled, FlowOnly, bodyVars
  <2>3. CASE Expire \/ BlobLost
    BY <1>1, <2>3 DEF Expire, BlobLost, bodyVars
  <2>. QED
    BY <1>1, <2>1, <2>2, <2>3 DEF Next
<1>2. Inv /\ [Next]_vars => [A]_vars
  BY <1>1, TaskCloser
<1>. QED
  BY <1>2, Invariance, PTL DEF Spec, InvocationsAdvance

\* One step of collect_tasks towards its end: it returns, or fewer handles are waited for, or
\* fewer results are to be taken, or it waits again when all of them are.
Nearer ==
  \/ flow' = "working"
  \/ pending' \subseteq pending /\ pending' # pending
  \/ pending' = pending /\ harvest' \subseteq harvest /\ harvest' # harvest
  \/ pending' = pending /\ harvest' = harvest /\ flow = "harvesting" /\ flow' = "collecting"

InBatch == flow \in {"collecting", "harvesting"}

\* collect_tasks waits at most once for each of its handles and takes each result once: its
\* steps bring it nearer to its end, and no other step adds to what it waits for
\* (collect_tasks).
BatchAdvances ==
  [][InBatch => \/ flow' = "settling"
                \/ Collecting /\ Nearer
                \/ ~Collecting /\ UNCHANGED <<flow, handles, pending, harvest>>]_vars

\* A batch comes to its end.
THEOREM BatchesComeToAnEnd == Spec => BatchAdvances
<1> DEFINE A == InBatch => \/ flow' = "settling"
                           \/ Collecting /\ Nearer
                           \/ ~Collecting /\ UNCHANGED <<flow, handles, pending, harvest>>
<1>1. ASSUME Inv, Next PROVE A
  <2>1. ASSUME Collecting PROVE Nearer
    <3>1. CASE Woken
      BY <1>1, <3>1 DEF Woken, Nearer, Inv, Batch
    <3>2. CASE TimedOut
      BY <3>2 DEF TimedOut, BatchReturned, Nearer
    <3>3. CASE Taken
      BY <3>3 DEF Taken, Nearer
    <3>4. CASE Looped
      BY <3>4 DEF Looped, BatchReturned, Nearer
    <3>. QED
      BY <2>1, <3>1, <3>2, <3>3, <3>4 DEF Collecting
  <2>2. ASSUME InBatch, ~Collecting, flow' # "settling"
        PROVE  UNCHANGED <<flow, handles, pending, harvest>>
    <3>1. ASSUME NEW t \in Tasks, Dispatch(t) \/ TaskStep(t) PROVE UNCHANGED flowVars
      BY <3>1 DEF Dispatch, TaskStep, LookedUp, LookupFails, Hydrated, Reused, Opened, Announced,
         Begins, SlotGranted, SlotUnavailable, BodyReturns, AttemptFails, BodyRaises, Retry,
         Persisted, ArtifactsSaved, Closed, Reported, SpanFailed, FailureReported, Cancelled,
         CancelledBefore, CancelledInside, CancelledAtSpan, CancelledAfter, Raised
    <3>2. CASE DeadlinePasses \/ CancelHandle
      BY <3>2 DEF DeadlinePasses, CancelHandle, batchVars
    <3>3. CASE Expire \/ BlobLost
      BY <3>3 DEF Expire, BlobLost, flowVars, batchVars
    <3>4. ~Collect /\ ~FlowLeaves /\ ~Settling
      BY <2>2 DEF Collect, FlowLeaves, Settling, GraceOver, FlowOver, SettlingCancelled, InBatch
    <3>. QED
      BY <1>1, <2>2, <3>1, <3>2, <3>3, <3>4 DEF Next, flowVars, batchVars
  <2>. QED
    BY <2>1, <2>2
<1>2. Inv /\ [Next]_vars => [A]_vars
  BY <1>1
<1>. QED
  BY <1>2, Invariance, PTL DEF Spec, BatchAdvances
=============================================================================
