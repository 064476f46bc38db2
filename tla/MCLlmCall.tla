----------------------------- MODULE MCLlmCall -----------------------------
(* Instances of LlmCall for TLC. In the first, one call walks a chain whose *)
(* models may be unable to serve it, and meets at least one failure for     *)
(* each way the code treats failures. In the second, two calls share the    *)
(* record of one deployment.                                                *)
EXTENDS LlmCall, TLC

CONSTANTS c1, c2, d1, d2

Error(k, c, d, g) == [kind |-> k, class |-> c, deployment |-> d, gone |-> g]
Able == [m \in Hops |-> "able"]

ChainCalls == {c1}
ChainDeployments == {d1, d2}
ChainServing == c1 :> {[Able EXCEPT ![m] = s] : m \in Hops, s \in Services}
ChainFailures == {
    Error("rejected", "none", None, FALSE), Error("rejected", "context_limit", d1, FALSE),
    Error("replay", "none", d1, FALSE), Error("replay", "none", d2, FALSE),
    Error("replay", "rate", d1, TRUE), Error("replay", "none", None, FALSE),
    Error("invalid", "none", None, FALSE), Error("missing", "auth", None, FALSE),
    Error("failed", "watchdog", d1, FALSE), Error("failed", "timeout", d2, FALSE),
    Error("failed", "rate", None, FALSE), Error("failed", "rate", d1, TRUE),
    Error("failed", "none", None, FALSE)}

SharedCalls == {c1, c2}
SharedDeployments == {d1}
SharedServing == [c \in Calls |-> {Able}]
SharedFailures == {
    Error("rejected", "none", None, FALSE), Error("replay", "none", d1, FALSE),
    Error("invalid", "none", None, FALSE), Error("missing", "auth", d1, FALSE),
    Error("failed", "watchdog", d1, FALSE), Error("failed", "timeout", d1, FALSE),
    Error("failed", "rate", d1, TRUE)}
=============================================================================
