--------------------------- MODULE MCSpanRecovery ---------------------------
(* Instances of SpanRecovery for TLC: a root and one descendant, on either  *)
(* kind of store. Two passes by the wall clock overlap in the first, which  *)
(* may mark a run whose worker is alive at any time; one pass asks Prefect  *)
(* in the second. The clock gives a terminal row the version reconciliation *)
(* takes or the one after, the closest that can come out each way.          *)
EXTENDS SpanRecovery, TLC

CONSTANTS root, task, p1, p2

MCSpans == {root, task}
MCPasses == {p1, p2}
MCBackends == {"newest row", "all rows"}
MCStamps == {2, 3}
MCDatabase == {"database"}
Interchangeable == Permutations(MCPasses)

OnePass == {p1}
=============================================================================
