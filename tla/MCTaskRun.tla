----------------------------- MODULE MCTaskRun -----------------------------
(* Two invocations with one cache key for TLC: each may find what the other *)
(* stored, in part or in whole, and both want the only slot.                *)
EXTENDS TaskRun, TLC

CONSTANTS t1, t2, k, d1, d2

MCTasks == {t1, t2}
MCDocs == {d1, d2}
MCKey == [t \in MCTasks |-> k]
MCResults == [t \in MCTasks |-> IF t = t1 THEN {{d1, d2}} ELSE {{d2}}]
=============================================================================
