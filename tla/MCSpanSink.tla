----------------------------- MODULE MCSpanSink -----------------------------
(* Instances of SpanSink for TLC: one span is refused by the database, and  *)
(* rows are of unequal size, so that either cap of the buffer can evict.    *)
EXTENDS SpanSink

CONSTANTS s1, s2, s3

MCThree == {s1, s2, s3}
MCRun == s2
MCBytes == [S \in SUBSET Spans |-> Cardinality(S) + 2 * Cardinality(S \cap {s3})]
MCPoison == {s1}
MCErrors == {"transient", "rejected"}
=============================================================================
