------------------------- MODULE DeploymentRunProofs -------------------------
(***************************************************************************)
(* What is proved of DeploymentRun, for every plan, every flow and every    *)
(* disturbance.  Each part of the invariant is preserved by every action;   *)
(* the last part says that every completion the database holds is what an   *)
(* undisturbed run would have produced at that step.                        *)
(***************************************************************************)
EXTENDS DeploymentRun, TLAPS

USE StepsAssumption, AttemptsAssumption, CancelsAssumption, RangesAssumption

FlowPhases == {"resolve", "running", "retrying", "flowfailing", "flowdone", "settling"}

\* Between two runs the locals are those of a new one.
Idle ==
  phase = "off" =>
    /\ range = NoRange /\ step = 1 /\ attempt = 1 /\ cancels = Cancels
    /\ docs = Fresh.docs /\ stopped = Fresh.stopped

\* Where a run may stand in the plan, by its phase.
Placed ==
  /\ phase = "announce" => step = 1 /\ docs = Fresh.docs /\ stopped = Fresh.stopped
  /\ phase = "hydrate" => step <= range.last
  /\ phase \in FlowPhases => step \in range.first..range.last
  /\ phase = "retrying" => attempt < Attempts

\* Where tasks may run, and where only cancelled ones may.
Quiet ==
  /\ phase \in {"announce", "step", "hydrate", "resolve", "report"} => live = {}
  /\ phase \in {"off", "retrying", "flowfailing", "settling", "unwinding"} => live \subseteq dying

\* What the outputs are that the run has read, or its flow returned.
Outputs ==
  /\ phase \in {"hydrate", "resolve", "running", "retrying", "flowdone", "settling"}
       => ~Bypassed(step, docs, stopped)
  /\ phase \in {"hydrate", "flowdone", "settling"} => found = Returns(step, docs)

\* Nothing in the database, and nothing read from it, differs from an undisturbed run.
Clean ==
  (~degraded /\ OrderKept) =>
    /\ \A k \in 1..Steps : completion[k] # None
          => completion[k] = Returns(k, Uninterrupted[k - 1].docs)
    /\ InLoop => AsUninterrupted
    /\ Outputs

Inv == TypeOK /\ Idle /\ Placed /\ Quiet /\ Clean

-----------------------------------------------------------------------------
\* A range of the plan is well formed.
LEMMA RangesAreOrdered == \A r \in Ranges : r \in [first : 1..Steps, last : 1..Steps, reuse : BOOLEAN]
                                     /\ r.first <= r.last
  OBVIOUS

\* A run begins with a range of the plan.
LEMMA StartTakesARange ==
  ASSUME Start PROVE range' \in [first : 1..Steps, last : 1..Steps, reuse : BOOLEAN]
                     /\ range'.first <= range'.last
  BY RangesAreOrdered DEF Start

\* A run that is left leaves the locals of a new one.
LEMMA LeaveResetsTheRange ==
  ASSUME Leave PROVE /\ range' \in [first : 1..Steps, last : 1..Steps, reuse : BOOLEAN]
                     /\ range'.first <= range'.last
                     /\ step' \in 1..(range'.last + 1) /\ attempt' \in 1..Attempts
  BY DEF Leave, NoRange

\* Every step keeps the state well formed.
LEMMA TypeStep == ASSUME Inv, [Next]_vars PROVE TypeOK'
<1>1. CASE Start
  BY <1>1, StartTakesARange DEF Start, Inv, TypeOK, Idle, Phases, runVars, boardVars, taskVars,
     storeVars
<1>2. CASE Announce
  BY <1>2 DEF Announce, Inv, TypeOK, Idle, Placed, Phases, FlowPhases, runVars, boardVars,
     taskVars, storeVars
<1>3. CASE RaiseOutside
  BY <1>3 DEF RaiseOutside, Unwind, CancelHandles, Inv, TypeOK, Idle, Placed, Phases,
     FlowPhases, runVars, boardVars, taskVars, storeVars
<1>4. CASE Bypass
  BY <1>4 DEF Bypass, NextStep, Inv, TypeOK, Idle, Placed, Phases, FlowPhases, runVars,
     boardVars, taskVars, storeVars
<1>5. CASE CacheHit
  BY <1>5 DEF CacheHit, Wanted, Inv, TypeOK, Idle, Placed, Phases, FlowPhases, runVars,
     boardVars, taskVars, storeVars
<1>6. CASE CacheMiss
  BY <1>6 DEF CacheMiss, Wanted, Unwind, CancelHandles, Restoring, Inv, TypeOK, Idle, Placed,
     Phases, FlowPhases, runVars, boardVars, taskVars, storeVars
<1>7. CASE Hydrated
  BY <1>7 DEF Hydrated, NextStep, Inv, TypeOK, Idle, Placed, Phases, FlowPhases, runVars,
     boardVars, taskVars, storeVars
<1>8. CASE NotHydrated
  BY <1>8 DEF NotHydrated, Unwind, CancelHandles, Restoring, Inv, TypeOK, Idle, Placed, Phases,
     FlowPhases, runVars, boardVars, taskVars, storeVars
<1>9. CASE FlowBegins
  BY <1>9 DEF FlowBegins, Inv, TypeOK, Idle, Placed, Phases, FlowPhases, runVars, boardVars,
     taskVars, storeVars
<1>10. CASE FlowNotBegun
  BY <1>10 DEF FlowNotBegun, Unwind, FailFlow, CancelHandles, Inv, TypeOK, Idle, Placed, Phases,
     FlowPhases, runVars, boardVars, taskVars, storeVars
<1>11. CASE FlowReturns
  BY <1>11 DEF FlowReturns, Inv, TypeOK, Idle, Placed, Phases, FlowPhases, runVars, boardVars,
     taskVars, storeVars
<1>12. CASE AttemptFails
  BY <1>12 DEF AttemptFails, FailFlow, CancelHandles, Inv, TypeOK, Idle, Placed, Phases,
     FlowPhases, runVars, boardVars, taskVars, storeVars
<1>13. CASE FlowRaises
  BY <1>13 DEF FlowRaises, FailFlow, CancelHandles, Inv, TypeOK, Idle, Placed, Phases,
     FlowPhases, runVars, boardVars, taskVars, storeVars
<1>14. CASE Retry
  BY <1>14 DEF Retry, Settled, Inv, TypeOK, Idle, Placed, Phases, FlowPhases, runVars,
     boardVars, taskVars, storeVars
<1>15. CASE FlowFailed
  BY <1>15 DEF FlowFailed, Settled, Unwind, CancelHandles, Inv, TypeOK, Idle, Placed, Phases,
     FlowPhases, runVars, boardVars, taskVars, storeVars
<1>16. CASE FlowCompleted
  BY <1>16 DEF FlowCompleted, CancelHandles, Inv, TypeOK, Idle, Placed, Phases, FlowPhases,
     runVars, boardVars, taskVars, storeVars
<1>17. CASE BoardUpdated
  BY <1>17 DEF BoardUpdated, Settled, NextStep, Inv, TypeOK, Idle, Placed, Phases, FlowPhases,
     runVars, boardVars, taskVars, storeVars
<1>18. CASE ResultBuilt
  BY <1>18 DEF ResultBuilt, Inv, TypeOK, Idle, Placed, Phases, FlowPhases, runVars, boardVars,
     taskVars, storeVars
<1>19. CASE Reported
  <2>1. told' \subseteq {"completed", "failed"}
    BY <1>19 DEF Reported, Inv, TypeOK
  <2>. QED
    BY <1>19, <2>1 DEF Reported, Leave, NoRange, Inv, TypeOK, Phases, taskVars, storeVars
<1>20. CASE RunFailed
  BY <1>20 DEF RunFailed, Settled, Leave, NoRange, Inv, TypeOK, Idle, Placed, Phases,
     FlowPhases, runVars, boardVars, taskVars, storeVars
<1>21. CASE Dispatch
  BY <1>21 DEF Dispatch, Inv, TypeOK, Idle, Placed, Phases, FlowPhases, runVars, boardVars,
     taskVars, storeVars
<1>22. ASSUME NEW h \in Handles, TaskEnds(h) PROVE TypeOK'
  BY <1>22 DEF TaskEnds, Inv, TypeOK, Idle, Placed, Phases, FlowPhases, runVars, boardVars,
     taskVars, storeVars
<1>23. CASE Cancelled
  <2>1. told' \subseteq {"completed", "failed"}
    BY <1>23 DEF Cancelled, Inv, TypeOK
  <2>2. range' \in [first : 1..Steps, last : 1..Steps, reuse : BOOLEAN]
        /\ range'.first <= range'.last /\ step' \in 1..(range'.last + 1) /\ attempt' \in 1..Attempts
    BY <1>23, LeaveResetsTheRange DEF Cancelled, Inv, TypeOK
  <2>3. phase' \in Phases /\ cancels' \in 0..Cancels
        /\ record' \in {"none", "running", "completed", "failed"}
    BY <1>23 DEF Cancelled, FailFlow, Unwind, Leave, Inv, TypeOK, Phases
  <2>4. live' \subseteq Handles /\ dying' \subseteq live' /\ UNCHANGED storeVars
    BY <1>23 DEF Cancelled, FailFlow, Unwind, CancelHandles, Inv, TypeOK
  <2>. QED
    BY <2>1, <2>2, <2>3, <2>4 DEF TypeOK, Inv, storeVars
<1>24. CASE Crash
  BY <1>24 DEF Crash, Leave, NoRange, Inv, TypeOK, Idle, Placed, Phases, FlowPhases, runVars,
     boardVars, taskVars, storeVars
<1>25. CASE Expire
  BY <1>25 DEF Expire, Inv, TypeOK, Idle, Placed, Phases, FlowPhases, runVars, boardVars,
     taskVars, storeVars
<1>26. CASE Unreadable
  BY <1>26 DEF Unreadable, Inv, TypeOK, Idle, Placed, Phases, FlowPhases, runVars, boardVars,
     taskVars, storeVars
<1>27. CASE UNCHANGED vars
  BY <1>27 DEF vars, Inv, TypeOK, Idle, Placed, Phases, FlowPhases, runVars, boardVars,
     taskVars, storeVars
<1>. QED
  BY <1>1, <1>2, <1>3, <1>4, <1>5, <1>6, <1>7, <1>8, <1>9, <1>10, <1>11, <1>12, <1>13, <1>14,
     <1>15, <1>16, <1>17, <1>18, <1>19, <1>20, <1>21, <1>22, <1>23, <1>24, <1>25, <1>26, <1>27
     DEF Next, RunStep

\* Every step keeps a run where its phase says, and nothing of it between runs.
LEMMA PlaceStep == ASSUME Inv, [Next]_vars PROVE Idle' /\ Placed'
<1>1. CASE Start
  BY <1>1 DEF Start, Inv, TypeOK, Idle, Placed, FlowPhases, Phases, runVars, boardVars,
     taskVars, storeVars
<1>2. CASE Announce
  BY <1>2 DEF Announce, Inv, TypeOK, Idle, Placed, FlowPhases, Phases, runVars, boardVars,
     taskVars, storeVars
<1>3. CASE RaiseOutside
  BY <1>3 DEF RaiseOutside, Unwind, CancelHandles, Inv, TypeOK, Idle, Placed, FlowPhases,
     Phases, runVars, boardVars, taskVars, storeVars
<1>4. CASE Bypass
  BY <1>4 DEF Bypass, NextStep, Inv, TypeOK, Idle, Placed, FlowPhases, Phases, runVars,
     boardVars, taskVars, storeVars
<1>5. CASE CacheHit
  BY <1>5 DEF CacheHit, Wanted, Inv, TypeOK, Idle, Placed, FlowPhases, Phases, runVars,
     boardVars, taskVars, storeVars
<1>6. CASE CacheMiss
  BY <1>6 DEF CacheMiss, Wanted, Unwind, CancelHandles, Restoring, Inv, TypeOK, Idle, Placed,
     FlowPhases, Phases, runVars, boardVars, taskVars, storeVars
<1>7. CASE Hydrated
  BY <1>7 DEF Hydrated, NextStep, Inv, TypeOK, Idle, Placed, FlowPhases, Phases, runVars,
     boardVars, taskVars, storeVars
<1>8. CASE NotHydrated
  BY <1>8 DEF NotHydrated, Unwind, CancelHandles, Restoring, Inv, TypeOK, Idle, Placed,
     FlowPhases, Phases, runVars, boardVars, taskVars, storeVars
<1>9. CASE FlowBegins
  BY <1>9 DEF FlowBegins, Inv, TypeOK, Idle, Placed, FlowPhases, Phases, runVars, boardVars,
     taskVars, storeVars
<1>10. CASE FlowNotBegun
  BY <1>10 DEF FlowNotBegun, Unwind, FailFlow, CancelHandles, Inv, TypeOK, Idle, Placed,
     FlowPhases, Phases, runVars, boardVars, taskVars, storeVars
<1>11. CASE FlowReturns
  BY <1>11 DEF FlowReturns, Inv, TypeOK, Idle, Placed, FlowPhases, Phases, runVars, boardVars,
     taskVars, storeVars
<1>12. CASE AttemptFails
  BY <1>12 DEF AttemptFails, FailFlow, CancelHandles, Inv, TypeOK, Idle, Placed, FlowPhases,
     Phases, runVars, boardVars, taskVars, storeVars
<1>13. CASE FlowRaises
  BY <1>13 DEF FlowRaises, FailFlow, CancelHandles, Inv, TypeOK, Idle, Placed, FlowPhases,
     Phases, runVars, boardVars, taskVars, storeVars
<1>14. CASE Retry
  BY <1>14 DEF Retry, Settled, Inv, TypeOK, Idle, Placed, FlowPhases, Phases, runVars,
     boardVars, taskVars, storeVars
<1>15. CASE FlowFailed
  BY <1>15 DEF FlowFailed, Settled, Unwind, CancelHandles, Inv, TypeOK, Idle, Placed,
     FlowPhases, Phases, runVars, boardVars, taskVars, storeVars
<1>16. CASE FlowCompleted
  BY <1>16 DEF FlowCompleted, CancelHandles, Inv, TypeOK, Idle, Placed, FlowPhases, Phases,
     runVars, boardVars, taskVars, storeVars
<1>17. CASE BoardUpdated
  BY <1>17 DEF BoardUpdated, Settled, NextStep, Inv, TypeOK, Idle, Placed, FlowPhases, Phases,
     runVars, boardVars, taskVars, storeVars
<1>18. CASE ResultBuilt
  BY <1>18 DEF ResultBuilt, Inv, TypeOK, Idle, Placed, FlowPhases, Phases, runVars, boardVars,
     taskVars, storeVars
<1>19. CASE Reported
  BY <1>19 DEF Reported, Leave, NoRange, Inv, TypeOK, Idle, Placed, FlowPhases, Phases, runVars,
     boardVars, taskVars, storeVars
<1>20. CASE RunFailed
  BY <1>20 DEF RunFailed, Settled, Leave, NoRange, Inv, TypeOK, Idle, Placed, FlowPhases,
     Phases, runVars, boardVars, taskVars, storeVars
<1>21. CASE Dispatch
  BY <1>21 DEF Dispatch, Inv, TypeOK, Idle, Placed, FlowPhases, Phases, runVars, boardVars,
     taskVars, storeVars
<1>22. ASSUME NEW h \in Handles, TaskEnds(h) PROVE (Idle /\ Placed)'
  BY <1>22 DEF TaskEnds, Inv, TypeOK, Idle, Placed, FlowPhases, Phases, runVars, boardVars,
     taskVars, storeVars
<1>23. CASE Cancelled
  BY <1>23 DEF Cancelled, FailFlow, Unwind, CancelHandles, Leave, NoRange, Inv, TypeOK, Idle,
     Placed, FlowPhases, Phases, runVars, boardVars, taskVars, storeVars
<1>24. CASE Crash
  BY <1>24 DEF Crash, Leave, NoRange, Inv, TypeOK, Idle, Placed, FlowPhases, Phases, runVars,
     boardVars, taskVars, storeVars
<1>25. CASE Expire
  BY <1>25 DEF Expire, Inv, TypeOK, Idle, Placed, FlowPhases, Phases, runVars, boardVars,
     taskVars, storeVars
<1>26. CASE Unreadable
  BY <1>26 DEF Unreadable, Inv, TypeOK, Idle, Placed, FlowPhases, Phases, runVars, boardVars,
     taskVars, storeVars
<1>27. CASE UNCHANGED vars
  BY <1>27 DEF vars, Inv, TypeOK, Idle, Placed, FlowPhases, Phases, runVars, boardVars,
     taskVars, storeVars
<1>. QED
  BY <1>1, <1>2, <1>3, <1>4, <1>5, <1>6, <1>7, <1>8, <1>9, <1>10, <1>11, <1>12, <1>13, <1>14,
     <1>15, <1>16, <1>17, <1>18, <1>19, <1>20, <1>21, <1>22, <1>23, <1>24, <1>25, <1>26, <1>27
     DEF Next, RunStep

\* Every step keeps tasks within the attempt that dispatched them.
LEMMA QuietStep == ASSUME Inv, [Next]_vars PROVE Quiet'
<1>1. CASE Start
  BY <1>1 DEF Start, Inv, TypeOK, Quiet, Phases, runVars, boardVars, taskVars, storeVars
<1>2. CASE Announce
  BY <1>2 DEF Announce, Inv, TypeOK, Quiet, Phases, runVars, boardVars, taskVars, storeVars
<1>3. CASE RaiseOutside
  BY <1>3 DEF RaiseOutside, Unwind, CancelHandles, Inv, TypeOK, Quiet, Phases, runVars,
     boardVars, taskVars, storeVars
<1>4. CASE Bypass
  BY <1>4 DEF Bypass, NextStep, Inv, TypeOK, Quiet, Phases, runVars, boardVars, taskVars,
     storeVars
<1>5. CASE CacheHit
  BY <1>5 DEF CacheHit, Wanted, Inv, TypeOK, Quiet, Phases, runVars, boardVars, taskVars,
     storeVars
<1>6. CASE CacheMiss
  BY <1>6 DEF CacheMiss, Wanted, Unwind, CancelHandles, Restoring, Inv, TypeOK, Quiet, Phases,
     runVars, boardVars, taskVars, storeVars
<1>7. CASE Hydrated
  BY <1>7 DEF Hydrated, NextStep, Inv, TypeOK, Quiet, Phases, runVars, boardVars, taskVars,
     storeVars
<1>8. CASE NotHydrated
  BY <1>8 DEF NotHydrated, Unwind, CancelHandles, Restoring, Inv, TypeOK, Quiet, Phases,
     runVars, boardVars, taskVars, storeVars
<1>9. CASE FlowBegins
  BY <1>9 DEF FlowBegins, Inv, TypeOK, Quiet, Phases, runVars, boardVars, taskVars, storeVars
<1>10. CASE FlowNotBegun
  BY <1>10 DEF FlowNotBegun, Unwind, FailFlow, CancelHandles, Inv, TypeOK, Quiet, Phases,
     runVars, boardVars, taskVars, storeVars
<1>11. CASE FlowReturns
  BY <1>11 DEF FlowReturns, Inv, TypeOK, Quiet, Phases, runVars, boardVars, taskVars, storeVars
<1>12. CASE AttemptFails
  BY <1>12 DEF AttemptFails, FailFlow, CancelHandles, Inv, TypeOK, Quiet, Phases, runVars,
     boardVars, taskVars, storeVars
<1>13. CASE FlowRaises
  BY <1>13 DEF FlowRaises, FailFlow, CancelHandles, Inv, TypeOK, Quiet, Phases, runVars,
     boardVars, taskVars, storeVars
<1>14. CASE Retry
  BY <1>14 DEF Retry, Settled, Inv, TypeOK, Quiet, Phases, runVars, boardVars, taskVars,
     storeVars
<1>15. CASE FlowFailed
  BY <1>15 DEF FlowFailed, Settled, Unwind, CancelHandles, Inv, TypeOK, Quiet, Phases, runVars,
     boardVars, taskVars, storeVars
<1>16. CASE FlowCompleted
  BY <1>16 DEF FlowCompleted, CancelHandles, Inv, TypeOK, Quiet, Phases, runVars, boardVars,
     taskVars, storeVars
<1>17. CASE BoardUpdated
  BY <1>17 DEF BoardUpdated, Settled, NextStep, Inv, TypeOK, Quiet, Phases, runVars, boardVars,
     taskVars, storeVars
<1>18. CASE ResultBuilt
  BY <1>18 DEF ResultBuilt, Inv, TypeOK, Quiet, Phases, runVars, boardVars, taskVars, storeVars
<1>19. CASE Reported
  BY <1>19 DEF Reported, Leave, NoRange, Inv, TypeOK, Quiet, Phases, runVars, boardVars,
     taskVars, storeVars
<1>20. CASE RunFailed
  BY <1>20 DEF RunFailed, Settled, Leave, NoRange, Inv, TypeOK, Quiet, Phases, runVars,
     boardVars, taskVars, storeVars
<1>21. CASE Dispatch
  BY <1>21 DEF Dispatch, Inv, TypeOK, Quiet, Phases, runVars, boardVars, taskVars, storeVars
<1>22. ASSUME NEW h \in Handles, TaskEnds(h) PROVE Quiet'
  BY <1>22 DEF TaskEnds, Inv, TypeOK, Quiet, Phases, runVars, boardVars, taskVars, storeVars
<1>23. CASE Cancelled
  BY <1>23 DEF Cancelled, FailFlow, Unwind, CancelHandles, Leave, NoRange, Inv, TypeOK, Quiet,
     Phases, runVars, boardVars, taskVars, storeVars
<1>24. CASE Crash
  BY <1>24 DEF Crash, Leave, NoRange, Inv, TypeOK, Quiet, Phases, runVars, boardVars, taskVars,
     storeVars
<1>25. CASE Expire
  BY <1>25 DEF Expire, Inv, TypeOK, Quiet, Phases, runVars, boardVars, taskVars, storeVars
<1>26. CASE Unreadable
  BY <1>26 DEF Unreadable, Inv, TypeOK, Quiet, Phases, runVars, boardVars, taskVars, storeVars
<1>27. CASE UNCHANGED vars
  BY <1>27 DEF vars, Inv, TypeOK, Quiet, Phases, runVars, boardVars, taskVars, storeVars
<1>. QED
  BY <1>1, <1>2, <1>3, <1>4, <1>5, <1>6, <1>7, <1>8, <1>9, <1>10, <1>11, <1>12, <1>13, <1>14,
     <1>15, <1>16, <1>17, <1>18, <1>19, <1>20, <1>21, <1>22, <1>23, <1>24, <1>25, <1>26, <1>27
     DEF Next, RunStep

\* No step stores, reads or returns anything that an undisturbed run would not have.
LEMMA CleanStep == ASSUME Inv, [Next]_vars PROVE Clean'
<1>1. CASE Start
  BY <1>1, UninterruptedAssumption DEF Start, Inv, Idle, Clean, Outputs, InLoop, AsUninterrupted,
     OrderKept, boardVars, storeVars
<1>2. CASE Announce
  BY <1>2 DEF Announce, Inv, TypeOK, Idle, Placed, Clean, Outputs, InLoop, AsUninterrupted,
     OrderKept, runVars, boardVars, taskVars, storeVars
<1>3. CASE RaiseOutside
  BY <1>3 DEF RaiseOutside, Unwind, CancelHandles, Inv, TypeOK, Idle, Placed, Clean, Outputs,
     InLoop, AsUninterrupted, OrderKept, runVars, boardVars, taskVars, storeVars
<1>4. CASE Bypass
  <2>1. step \in 1..Steps /\ step' = step + 1 /\ phase' = "step"
    BY <1>4 DEF Bypass, NextStep, Inv, TypeOK, Placed, FlowPhases
  <2>2. SUFFICES ASSUME ~degraded, OrderKept PROVE AsUninterrupted'
    BY <2>1, <1>4 DEF Bypass, NextStep, storeVars, Clean, Outputs, Inv, InLoop, OrderKept
  <2>3. docs = Uninterrupted[step - 1].docs /\ stopped = Uninterrupted[step - 1].stopped
    BY <2>2, <1>4 DEF Bypass, Inv, Clean, InLoop, AsUninterrupted
  <2>4. Uninterrupted[step] = IF Bypassed(step, docs, stopped) THEN Uninterrupted[step - 1]
                              ELSE After(docs, stopped, Returns(step, docs))
    BY <2>1, <2>3, UninterruptedAssumption
  <2>. QED
    BY <2>1, <2>3, <2>4, <1>4 DEF Bypass, NextStep, AsUninterrupted
<1>5. CASE CacheHit
  BY <1>5 DEF CacheHit, Wanted, Inv, TypeOK, Idle, Placed, Clean, Outputs, InLoop,
     AsUninterrupted, OrderKept, runVars, boardVars, taskVars, storeVars
<1>6. CASE CacheMiss
  BY <1>6 DEF CacheMiss, Wanted, Unwind, CancelHandles, Restoring, Inv, TypeOK, Idle, Placed,
     Clean, Outputs, InLoop, AsUninterrupted, OrderKept, runVars, boardVars, taskVars, storeVars
<1>7. CASE Hydrated
  <2>1. step \in 1..Steps /\ step' = step + 1 /\ phase' = "step"
    BY <1>7 DEF Hydrated, NextStep, Inv, TypeOK, Placed, FlowPhases
  <2>2. SUFFICES ASSUME ~degraded, OrderKept PROVE AsUninterrupted'
    BY <2>1, <1>7 DEF Hydrated, NextStep, storeVars, Clean, Outputs, Inv, InLoop, OrderKept
  <2>3. docs = Uninterrupted[step - 1].docs /\ stopped = Uninterrupted[step - 1].stopped
    BY <2>2, <1>7 DEF Hydrated, Inv, Clean, InLoop, AsUninterrupted
  <2>4. Uninterrupted[step] = IF Bypassed(step, docs, stopped) THEN Uninterrupted[step - 1]
                              ELSE After(docs, stopped, Returns(step, docs))
    BY <2>1, <2>3, UninterruptedAssumption
  <2>5. ~Bypassed(step, docs, stopped) /\ found = Returns(step, docs)
    BY <2>2, <1>7 DEF Hydrated, Inv, Clean, Outputs
  <2>. QED
    BY <2>1, <2>4, <2>5, <1>7 DEF Hydrated, NextStep, AsUninterrupted
<1>8. CASE NotHydrated
  BY <1>8 DEF NotHydrated, Unwind, CancelHandles, Restoring, Inv, TypeOK, Idle, Placed, Clean,
     Outputs, InLoop, AsUninterrupted, OrderKept, runVars, boardVars, taskVars, storeVars
<1>9. CASE FlowBegins
  BY <1>9 DEF FlowBegins, Inv, TypeOK, Idle, Placed, Clean, Outputs, InLoop, AsUninterrupted,
     OrderKept, runVars, boardVars, taskVars, storeVars
<1>10. CASE FlowNotBegun
  BY <1>10 DEF FlowNotBegun, Unwind, FailFlow, CancelHandles, Inv, TypeOK, Idle, Placed, Clean,
     Outputs, InLoop, AsUninterrupted, OrderKept, runVars, boardVars, taskVars, storeVars
<1>11. CASE FlowReturns
  BY <1>11 DEF FlowReturns, Inv, TypeOK, Idle, Placed, Clean, Outputs, InLoop, AsUninterrupted,
     OrderKept, runVars, boardVars, taskVars, storeVars
<1>12. CASE AttemptFails
  BY <1>12 DEF AttemptFails, FailFlow, CancelHandles, Inv, TypeOK, Idle, Placed, Clean, Outputs,
     InLoop, AsUninterrupted, OrderKept, runVars, boardVars, taskVars, storeVars
<1>13. CASE FlowRaises
  BY <1>13 DEF FlowRaises, FailFlow, CancelHandles, Inv, TypeOK, Idle, Placed, Clean, Outputs,
     InLoop, AsUninterrupted, OrderKept, runVars, boardVars, taskVars, storeVars
<1>14. CASE Retry
  BY <1>14 DEF Retry, Settled, Inv, TypeOK, Idle, Placed, Clean, Outputs, InLoop,
     AsUninterrupted, OrderKept, runVars, boardVars, taskVars, storeVars
<1>15. CASE FlowFailed
  BY <1>15 DEF FlowFailed, Settled, Unwind, CancelHandles, Inv, TypeOK, Idle, Placed, Clean,
     Outputs, InLoop, AsUninterrupted, OrderKept, runVars, boardVars, taskVars, storeVars
<1>16. CASE FlowCompleted
  BY <1>16 DEF FlowCompleted, CancelHandles, Inv, TypeOK, Idle, Placed, Clean, Outputs, InLoop,
     AsUninterrupted, OrderKept, runVars, boardVars, taskVars, storeVars
<1>17. CASE BoardUpdated
  <2>1. step \in 1..Steps /\ step' = step + 1 /\ phase' = "step"
    BY <1>17 DEF BoardUpdated, NextStep, Inv, TypeOK, Placed, FlowPhases
  <2>2. SUFFICES ASSUME ~degraded, OrderKept PROVE AsUninterrupted'
    BY <2>1, <1>17 DEF BoardUpdated, NextStep, storeVars, Clean, Outputs, Inv, InLoop, OrderKept
  <2>3. docs = Uninterrupted[step - 1].docs /\ stopped = Uninterrupted[step - 1].stopped
    BY <2>2, <1>17 DEF BoardUpdated, Inv, Clean, InLoop, AsUninterrupted
  <2>4. Uninterrupted[step] = IF Bypassed(step, docs, stopped) THEN Uninterrupted[step - 1]
                              ELSE After(docs, stopped, Returns(step, docs))
    BY <2>1, <2>3, UninterruptedAssumption
  <2>5. ~Bypassed(step, docs, stopped) /\ found = Returns(step, docs)
    BY <2>2, <1>17 DEF BoardUpdated, Inv, Clean, Outputs
  <2>. QED
    BY <2>1, <2>4, <2>5, <1>17 DEF BoardUpdated, NextStep, AsUninterrupted
<1>18. CASE ResultBuilt
  BY <1>18 DEF ResultBuilt, Inv, TypeOK, Idle, Placed, Clean, Outputs, InLoop, AsUninterrupted,
     OrderKept, runVars, boardVars, taskVars, storeVars
<1>19. CASE Reported
  BY <1>19 DEF Reported, Leave, NoRange, Inv, TypeOK, Idle, Placed, Clean, Outputs, InLoop,
     AsUninterrupted, OrderKept, runVars, boardVars, taskVars, storeVars
<1>20. CASE RunFailed
  BY <1>20 DEF RunFailed, Settled, Leave, NoRange, Inv, TypeOK, Idle, Placed, Clean, Outputs,
     InLoop, AsUninterrupted, OrderKept, runVars, boardVars, taskVars, storeVars
<1>21. CASE Dispatch
  BY <1>21 DEF Dispatch, Inv, TypeOK, Idle, Placed, Clean, Outputs, InLoop, AsUninterrupted,
     OrderKept, runVars, boardVars, taskVars, storeVars
<1>22. ASSUME NEW h \in Handles, TaskEnds(h) PROVE Clean'
  BY <1>22 DEF TaskEnds, Inv, TypeOK, Idle, Placed, Clean, Outputs, InLoop, AsUninterrupted,
     OrderKept, runVars, boardVars, taskVars, storeVars
<1>23. CASE Cancelled
  BY <1>23 DEF Cancelled, FailFlow, Unwind, CancelHandles, Leave, NoRange, Inv, TypeOK, Idle,
     Placed, Clean, Outputs, InLoop, AsUninterrupted, OrderKept, runVars, boardVars, taskVars,
     storeVars
<1>24. CASE Crash
  BY <1>24 DEF Crash, Leave, NoRange, Inv, TypeOK, Idle, Placed, Clean, Outputs, InLoop,
     AsUninterrupted, OrderKept, runVars, boardVars, taskVars, storeVars
<1>25. CASE Expire
  BY <1>25 DEF Expire, Inv, TypeOK, Idle, Placed, Clean, Outputs, InLoop, AsUninterrupted,
     OrderKept, runVars, boardVars, taskVars, storeVars
<1>26. CASE Unreadable
  BY <1>26 DEF Unreadable, Inv, TypeOK, Idle, Placed, Clean, Outputs, InLoop, AsUninterrupted,
     OrderKept, runVars, boardVars, taskVars, storeVars
<1>27. CASE UNCHANGED vars
  BY <1>27 DEF vars, Inv, TypeOK, Idle, Placed, Clean, Outputs, InLoop, AsUninterrupted,
     OrderKept, runVars, boardVars, taskVars, storeVars
<1>. QED
  BY <1>1, <1>2, <1>3, <1>4, <1>5, <1>6, <1>7, <1>8, <1>9, <1>10, <1>11, <1>12, <1>13, <1>14,
     <1>15, <1>16, <1>17, <1>18, <1>19, <1>20, <1>21, <1>22, <1>23, <1>24, <1>25, <1>26, <1>27
     DEF Next, RunStep

-----------------------------------------------------------------------------
\* The invariant holds in every reachable state.
THEOREM Invariance == Spec => []Inv
<1>1. Init => Inv
  <2>. SUFFICES ASSUME Init PROVE Inv
    OBVIOUS
  <2>1. TypeOK
    <3>1. range \in [first : 1..Steps, last : 1..Steps, reuse : BOOLEAN]
          /\ range.first <= range.last /\ step \in 1..(range.last + 1) /\ attempt \in 1..Attempts
      BY DEF Init, NoRange
    <3>2. live \subseteq Handles /\ dying \subseteq live /\ told \subseteq {"completed", "failed"}
      BY DEF Init
    <3>3. DOMAIN completion = 1..Steps /\ cancels \in 0..Cancels
      BY DEF Init
    <3>. QED
      BY <3>1, <3>2, <3>3 DEF Init, TypeOK, Phases
  <2>2. Idle /\ Placed /\ Quiet
    BY DEF Init, Idle, Placed, Quiet, FlowPhases
  <2>3. Clean
    BY DEF Init, Clean, Outputs, InLoop
  <2>. QED
    BY <2>1, <2>2, <2>3 DEF Inv
<1>2. Inv /\ [Next]_vars => Inv'
  BY TypeStep, PlaceStep, QuietStep, CleanStep DEF Inv
<1>. QED
  BY <1>1, <1>2, PTL DEF Spec

\* The state is well formed.
THEOREM TypeCorrect == Spec => []TypeOK
  BY Invariance, PTL DEF Inv

\* Whatever disturbed the runs before, the flow of a step sees the blackboard of a run that
\* nothing disturbed, if outputs could be stored and sorting their hashes moves none.
THEOREM ResumesAsUninterrupted == Spec => []ResumedAsUninterrupted
<1>1. Inv => ResumedAsUninterrupted
  BY DEF Inv, Clean, ResumedAsUninterrupted
<1>. QED
  BY <1>1, Invariance, PTL

\* Only flows of the range asked for are run.
THEOREM RunsInRange == Spec => []FlowsInRange
<1>1. Inv => FlowsInRange
  BY DEF Inv, Placed, FlowsInRange, FlowPhases
<1>. QED
  BY <1>1, Invariance, PTL

\* No task of an earlier attempt or step runs beside a later one, and a run leaves none
\* behind that was not cancelled.
THEOREM LeavesNothingRunning == Spec => NoStragglers
<1> DEFINE A == /\ (step' > step \/ attempt' > attempt) => live' = {}
                /\ phase' = "off" => live' \subseteq dying'
<1>1. Inv /\ [Next]_vars => A
  <2>. SUFFICES ASSUME Inv, [Next]_vars PROVE A
    OBVIOUS
  <2>1. CASE Start
    BY <2>1 DEF Start, Inv, TypeOK, Quiet, Idle, Phases, runVars, boardVars, taskVars, storeVars
  <2>2. CASE Announce
    BY <2>2 DEF Announce, Inv, TypeOK, Quiet, Idle, Phases, runVars, boardVars, taskVars,
       storeVars
  <2>3. CASE RaiseOutside
    BY <2>3 DEF RaiseOutside, Unwind, CancelHandles, Inv, TypeOK, Quiet, Idle, Phases, runVars,
       boardVars, taskVars, storeVars
  <2>4. CASE Bypass
    BY <2>4 DEF Bypass, NextStep, Inv, TypeOK, Quiet, Idle, Phases, runVars, boardVars, taskVars,
       storeVars
  <2>5. CASE CacheHit
    BY <2>5 DEF CacheHit, Wanted, Inv, TypeOK, Quiet, Idle, Phases, runVars, boardVars, taskVars,
       storeVars
  <2>6. CASE CacheMiss
    BY <2>6 DEF CacheMiss, Wanted, Unwind, CancelHandles, Restoring, Inv, TypeOK, Quiet, Idle,
       Phases, runVars, boardVars, taskVars, storeVars
  <2>7. CASE Hydrated
    BY <2>7 DEF Hydrated, NextStep, Inv, TypeOK, Quiet, Idle, Phases, runVars, boardVars,
       taskVars, storeVars
  <2>8. CASE NotHydrated
    BY <2>8 DEF NotHydrated, Unwind, CancelHandles, Restoring, Inv, TypeOK, Quiet, Idle, Phases,
       runVars, boardVars, taskVars, storeVars
  <2>9. CASE FlowBegins
    BY <2>9 DEF FlowBegins, Inv, TypeOK, Quiet, Idle, Phases, runVars, boardVars, taskVars,
       storeVars
  <2>10. CASE FlowNotBegun
    BY <2>10 DEF FlowNotBegun, Unwind, FailFlow, CancelHandles, Inv, TypeOK, Quiet, Idle, Phases,
       runVars, boardVars, taskVars, storeVars
  <2>11. CASE FlowReturns
    BY <2>11 DEF FlowReturns, Inv, TypeOK, Quiet, Idle, Phases, runVars, boardVars, taskVars,
       storeVars
  <2>12. CASE AttemptFails
    BY <2>12 DEF AttemptFails, FailFlow, CancelHandles, Inv, TypeOK, Quiet, Idle, Phases, runVars,
       boardVars, taskVars, storeVars
  <2>13. CASE FlowRaises
    BY <2>13 DEF FlowRaises, FailFlow, CancelHandles, Inv, TypeOK, Quiet, Idle, Phases, runVars,
       boardVars, taskVars, storeVars
  <2>14. CASE Retry
    BY <2>14 DEF Retry, Settled, Inv, TypeOK, Quiet, Idle, Phases, runVars, boardVars, taskVars,
       storeVars
  <2>15. CASE FlowFailed
    BY <2>15 DEF FlowFailed, Settled, Unwind, CancelHandles, Inv, TypeOK, Quiet, Idle, Phases,
       runVars, boardVars, taskVars, storeVars
  <2>16. CASE FlowCompleted
    BY <2>16 DEF FlowCompleted, CancelHandles, Inv, TypeOK, Quiet, Idle, Phases, runVars,
       boardVars, taskVars, storeVars
  <2>17. CASE BoardUpdated
    BY <2>17 DEF BoardUpdated, Settled, NextStep, Inv, TypeOK, Quiet, Idle, Phases, runVars,
       boardVars, taskVars, storeVars
  <2>18. CASE ResultBuilt
    BY <2>18 DEF ResultBuilt, Inv, TypeOK, Quiet, Idle, Phases, runVars, boardVars, taskVars,
       storeVars
  <2>19. CASE Reported
    BY <2>19 DEF Reported, Leave, NoRange, Inv, TypeOK, Quiet, Idle, Phases, runVars, boardVars,
       taskVars, storeVars
  <2>20. CASE RunFailed
    BY <2>20 DEF RunFailed, Settled, Leave, NoRange, Inv, TypeOK, Quiet, Idle, Phases, runVars,
       boardVars, taskVars, storeVars
  <2>21. CASE Dispatch
    BY <2>21 DEF Dispatch, Inv, TypeOK, Quiet, Idle, Phases, runVars, boardVars, taskVars,
       storeVars
  <2>22. ASSUME NEW h \in Handles, TaskEnds(h) PROVE A
    BY <2>22 DEF TaskEnds, Inv, TypeOK, Quiet, Idle, Phases, runVars, boardVars, taskVars,
       storeVars
  <2>23. CASE Cancelled
    BY <2>23 DEF Cancelled, FailFlow, Unwind, CancelHandles, Leave, NoRange, Inv, TypeOK, Quiet,
       Idle, Phases, runVars, boardVars, taskVars, storeVars
  <2>24. CASE Crash
    BY <2>24 DEF Crash, Leave, NoRange, Inv, TypeOK, Quiet, Idle, Phases, runVars, boardVars,
       taskVars, storeVars
  <2>25. CASE Expire
    BY <2>25 DEF Expire, Inv, TypeOK, Quiet, Idle, Phases, runVars, boardVars, taskVars, storeVars
  <2>26. CASE Unreadable
    BY <2>26 DEF Unreadable, Inv, TypeOK, Quiet, Idle, Phases, runVars, boardVars, taskVars,
       storeVars
  <2>27. CASE UNCHANGED vars
    BY <2>27 DEF vars, Inv, TypeOK, Quiet, Idle, Phases, runVars, boardVars, taskVars, storeVars
  <2>. QED
    BY <2>1, <2>2, <2>3, <2>4, <2>5, <2>6, <2>7, <2>8, <2>9, <2>10, <2>11, <2>12, <2>13, <2>14,
       <2>15, <2>16, <2>17, <2>18, <2>19, <2>20, <2>21, <2>22, <2>23, <2>24, <2>25, <2>26, <2>27
       DEF Next, RunStep
<1>2. Inv /\ [Next]_vars => [A]_vars
  BY <1>1
<1>. QED
  BY <1>2, Invariance, PTL DEF Spec, NoStragglers
-----------------------------------------------------------------------------
(* Every run comes to an end.                                              *)

\* How far a run has come within a step of the plan.
Rank == [p \in Phases \ {"off"} |->
  CASE p = "announce" -> 0 [] p = "step" -> 1 [] p = "hydrate" -> 2 [] p = "resolve" -> 3
    [] p = "running" -> 4 [] p = "retrying" -> 5 [] p = "flowdone" -> 6
    [] p \in {"settling", "flowfailing"} -> 7 [] p = "unwinding" -> 8 [] p = "report" -> 9]

\* One step of a run towards its end: it is over, or over with a step of the plan; or it goes
\* on within the step, first to its flow and then from attempt to attempt of the flow.
Closer ==
  \/ phase' = "off"
  \/ /\ phase \in Phases \ {"off"} /\ phase' \in Phases \ {"off"} /\ range' = range
     /\ \/ step' = step + 1
        \/ /\ step' = step
           /\ \/ attempt' = attempt /\ Rank[phase'] > Rank[phase]
              \/ phase = "resolve" /\ phase' = "running" /\ attempt' = 1
              \/ phase = "retrying" /\ phase' = "running" /\ attempt' = attempt + 1

\* Whatever a run awaits, it is closer to its end when it goes on, and so it is when it is
\* cancelled; what its tasks and the database do does not send it back.  With the bounds of
\* TypeOK on step and attempt only finitely many of these steps are left to it (the loop of
\* _run_tracked_deployment, the retry loop of _execute_flow_with_context).
RunsAdvance ==
  [][/\ RunStep => Closer
     /\ phase # "off" => Closer \/ UNCHANGED <<phase, range, step, attempt>>]_vars

\* A step of the run itself is one towards its end.
LEMMA RunStepCloser == ASSUME Inv, RunStep PROVE Closer
<1>1. CASE Announce \/ RaiseOutside \/ CacheHit \/ CacheMiss \/ NotHydrated \/ ResultBuilt
  BY <1>1 DEF Announce, RaiseOutside, CacheHit, CacheMiss, Wanted, NotHydrated, ResultBuilt, Unwind,
     Closer, Rank, Phases, runVars
<1>2. CASE Bypass \/ Hydrated \/ BoardUpdated
  BY <1>2 DEF Bypass, Hydrated, BoardUpdated, NextStep, Closer, Phases, runVars
<1>3. CASE FlowBegins \/ FlowNotBegun \/ FlowReturns \/ FlowRaises \/ Retry
  BY <1>3 DEF FlowBegins, FlowNotBegun, FlowReturns, FlowRaises, Retry, Unwind, FailFlow, Closer,
     Rank, Phases, runVars
<1>4. CASE AttemptFails \/ FlowFailed \/ FlowCompleted
  BY <1>4 DEF AttemptFails, FlowFailed, FlowCompleted, Unwind, FailFlow, Closer, Rank, Phases,
     runVars
<1>5. CASE Reported \/ RunFailed
  BY <1>5 DEF Reported, RunFailed, Leave, Closer
<1>. QED
  BY <1>1, <1>2, <1>3, <1>4, <1>5 DEF RunStep

\* A run cannot go on for ever.
THEOREM RunsComeToAnEnd == Spec => RunsAdvance
<1> DEFINE A == /\ RunStep => Closer
                /\ phase # "off" => Closer \/ UNCHANGED <<phase, range, step, attempt>>
<1>1. Inv /\ [Next]_vars => [A]_vars
  <2>. SUFFICES ASSUME Inv, Next, phase # "off", ~RunStep
                PROVE  Closer \/ UNCHANGED <<phase, range, step, attempt>>
    BY RunStepCloser
  <2>1. CASE Dispatch \/ (\E h \in Handles : TaskEnds(h)) \/ Expire \/ Unreadable
    BY <2>1 DEF Dispatch, TaskEnds, Expire, Unreadable, runVars
  <2>2. CASE Cancelled
    BY <2>2 DEF Cancelled, Inv, TypeOK, FailFlow, Unwind, Leave, Closer, Rank, Phases
  <2>3. CASE Crash
    BY <2>3 DEF Crash, Leave, Closer
  <2>. QED
    BY <2>1, <2>2, <2>3 DEF Next, Start
<1>. QED
  BY <1>1, Invariance, PTL DEF Spec, RunsAdvance

-----------------------------------------------------------------------------
(* What is told of the end of a run.                                       *)

\* What is told of the end of a run bears out its record: run.completed only of a run whose
\* span is completed, run.failed never of one that is still running.  Of a completed run both
\* may be told, when the publishing of run.completed is cancelled or raises: _run_core
\* publishes run.failed after any exception of its body, this one too.
EndsAgree ==
  /\ told \subseteq {"completed", "failed"}
  /\ "completed" \in told => record = "completed"
  /\ "failed" \in told => record \in {"completed", "failed"}

\* Until it ends, nothing of its end is published or recorded; its span completes first.
Untold ==
  /\ phase # "off" => told = {} /\ record = (IF phase = "report" THEN "completed" ELSE "running")
  /\ phase = "report" => step = range.last + 1

\* Whatever disturbs a run, a failed one is never told completed, and nothing is told of an
\* end, or recorded, before the run failed or passed its last step.
THEOREM EndsAreTrue == Spec => [](EndsAgree /\ Untold)
<1>1. Init => EndsAgree /\ Untold
  BY DEF Init, EndsAgree, Untold
<1>2. ASSUME Inv, EndsAgree, Untold, [Next]_vars PROVE (EndsAgree /\ Untold)'
  <2>1. CASE Start
    BY <2>1 DEF Start, EndsAgree, Untold
  <2>2. CASE Announce \/ RaiseOutside \/ CacheHit \/ CacheMiss \/ NotHydrated
    BY <1>2, <2>2 DEF Announce, RaiseOutside, CacheHit, CacheMiss, Wanted, NotHydrated, Unwind,
       EndsAgree, Untold
  <2>3. CASE Bypass \/ Hydrated \/ BoardUpdated
    BY <1>2, <2>3 DEF Bypass, Hydrated, BoardUpdated, NextStep, EndsAgree, Untold
  <2>4. CASE FlowBegins \/ FlowNotBegun \/ FlowReturns \/ FlowRaises \/ Retry
    BY <1>2, <2>4 DEF FlowBegins, FlowNotBegun, FlowReturns, FlowRaises, Retry, Unwind, FailFlow,
       EndsAgree, Untold
  <2>5. CASE AttemptFails \/ FlowFailed \/ FlowCompleted
    BY <1>2, <2>5 DEF AttemptFails, FlowFailed, FlowCompleted, Unwind, FailFlow, EndsAgree, Untold
  <2>6. CASE ResultBuilt
    BY <1>2, <2>6 DEF ResultBuilt, Inv, TypeOK, EndsAgree, Untold, runVars
  <2>7. CASE Reported \/ RunFailed
    BY <1>2, <2>7 DEF Reported, RunFailed, Leave, EndsAgree, Untold
  <2>8. CASE Dispatch \/ (\E h \in Handles : TaskEnds(h)) \/ Expire \/ Unreadable
    BY <1>2, <2>8 DEF Dispatch, TaskEnds, Expire, Unreadable, EndsAgree, Untold, runVars
  <2>9. CASE Cancelled
    BY <1>2, <2>9 DEF Cancelled, Leave, FailFlow, Unwind, EndsAgree, Untold
  <2>10. CASE Crash
    BY <1>2, <2>10 DEF Crash, Leave, EndsAgree, Untold
  <2>11. CASE UNCHANGED vars
    BY <1>2, <2>11 DEF vars, EndsAgree, Untold
  <2>. QED
    BY <1>2, <2>1, <2>2, <2>3, <2>4, <2>5, <2>6, <2>7, <2>8, <2>9, <2>10, <2>11 DEF Next, RunStep
<1>. QED
  BY <1>1, <1>2, Invariance, PTL DEF Spec
=============================================================================
