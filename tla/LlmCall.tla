------------------------------- MODULE LlmCall -------------------------------
(***************************************************************************)
(* One logical LLM generation (_llm_core/client.py: generate): it walks a  *)
(* chain of models, each tried with a budget of attempts, and steers by    *)
(* the class of every failure. Calls of one workload run concurrently and  *)
(* share the record of slow deployments (_routing.py).                     *)
(*                                                                         *)
(* An action is the code between two awaits: an attempt is awaited         *)
(* ("calling"), and so is the delay before a retry ("sleeping").           *)
(***************************************************************************)
EXTENDS Integers, FiniteSets

CONSTANTS
    Calls,         \* the generate calls of one workload
    Models,        \* the models of the chain are 1 .. Models
    Deployments,   \* the deployments the proxy may route to
    None,          \* no deployment
    Retries,       \* RetrySpec.retries
    DemoteAfter,   \* WORKLOAD_DEMOTE_AFTER
    Failures,      \* the failures an attempt may have
    Serving        \* Serving[c]: the ways the chain may be able to serve call c

Hops == 1 .. Models
Services == {"able", "incapable", "too_large"}

\* A failure as AttemptOutcome reports it. Its kind: a 400 the proxy or provider
\* rejects ("rejected"), a rejected signature ("replay"), an answer that does not
\* validate ("invalid"), a 404 ("missing"), any other ("failed"), and the checks
\* made before an attempt ("unserved").
Kinds == {"rejected", "replay", "invalid", "missing", "failed", "unserved"}

\* One class for all those _aipl.route treats alike: auth (policy), watchdog
\* (limiter, aborted, empty and broken streams), rate (server), timeout,
\* context_limit (capability_mismatch, refusal).
Classes == {"none", "auth", "watchdog", "rate", "timeout", "context_limit"}

Errors == [kind : Kinds, class : Classes, deployment : Deployments \cup {None},
           gone : BOOLEAN]  \* gone: the headers say that the group is exhausted
Nothing == [kind |-> "unserved", class |-> "none", deployment |-> None, gone |-> FALSE]

ASSUME ChainAssumption == Models \in Nat \ {0} /\ Retries \in Nat /\ DemoteAfter \in Nat \ {0}
ASSUME NoneAssumption == None \notin Deployments
ASSUME FailuresAssumption ==
    /\ Failures \subseteq Errors
    /\ \A e \in Failures :
         /\ e.kind # "unserved"
         /\ e.kind = "invalid" => e.class = "none" /\ e.deployment = None /\ ~e.gone
ASSUME ServingAssumption == Serving \in [Calls -> SUBSET [Hops -> Services]]

VARIABLES
    pc,         \* idle, calling, sleeping, answered or failed
    hop,        \* the model of the chain that is being tried
    try,        \* attempt_index
    made,       \* attempt_number: the attempts whose outcome has been absorbed
    last,       \* last_error, until an attempt is issued, whose outcome replaces it
    stripped,   \* strip_signatures: the attempts of this model carry no signature
    pinned,     \* stripped_deployment_id
    repairing,  \* whether the attempt carries the structured retry prompt
    skip,       \* skip.ids
    exhausted,  \* skip.exhausted
    serves,     \* serves[c][m]: what the checks before an attempt find of model m
    workload,   \* workload state: bad samples in a row, and the demotion
    proxy       \* whether requests go through the AIPL proxy

attempt == <<hop, try, made, stripped, pinned, repairing>>
routing == <<skip, exhausted>>
setting == <<serves, proxy>>
vars == <<pc, attempt, last, routing, setting, workload>>

-----------------------------------------------------------------------------
(* Failures.                                                               *)

\* What an attempt may fail with now: without the proxy there are no headers to
\* name a deployment, a class or a group.
Possible(e) ==
    /\ e \in Failures
    /\ ~proxy => /\ e.deployment = None /\ ~e.gone
                 /\ e.kind \in {"rejected", "replay"} => e.class = "none"
                 /\ e.kind = "missing" => e.class = "auth"

\* _aipl.route.
SkipsDeployment(class) == class \in {"auth", "watchdog"}
BacksOff(class) == class \in {"watchdog", "timeout"}
TerminalForModel(class) == class = "context_limit"

\* Mutant: a rate limit is not worth another model.
AdvancesUnlessLimited(class) == class \in {"watchdog", "timeout"}

AdvancesAfterExhaustion(class) == class \in {"watchdog", "timeout", "rate"}

\* advance_to_fallback of the outcome of one attempt.
Advances(c, e) ==
    /\ e.kind # "replay"
    /\ \/ TerminalForModel(e.class) \/ e.gone
       \/ hop[c] < Models /\ (e.kind = "rejected" \/ (e.kind = "missing" /\ ~proxy))

\* A 400 that nothing classifies, from the last model: TerminalError is raised
\* before the outcome is absorbed.
Raises(c, e) == e.kind = "rejected" /\ ~Advances(c, e)

-----------------------------------------------------------------------------
(* The workload's record of slow deployments.                              *)

\* A count at DemoteAfter stands for every larger one: the code only compares.
Samples == [bad : 0 .. DemoteAfter, skipped : {"never", "now", "over"}]
Clean == [bad |-> 0, skipped |-> "never"]

Init ==
    /\ pc = [c \in Calls |-> "idle"]
    /\ hop = [c \in Calls |-> 1] /\ try = [c \in Calls |-> 0] /\ made = [c \in Calls |-> 0]
    /\ last = [c \in Calls |-> Nothing]
    /\ stripped = [c \in Calls |-> FALSE] /\ pinned = [c \in Calls |-> None]
    /\ repairing = [c \in Calls |-> FALSE]
    /\ skip = [c \in Calls |-> {}] /\ exhausted = [c \in Calls |-> FALSE]
    /\ serves \in [Calls -> [Hops -> Services]] /\ \A c \in Calls : serves[c] \in Serving[c]
    /\ workload = [d \in Deployments |-> Clean] /\ proxy \in BOOLEAN

\* mark_slow.
MarkSlow(d) ==
    LET bad == IF workload[d].bad < DemoteAfter THEN workload[d].bad + 1 ELSE DemoteAfter
    IN  workload' = [workload EXCEPT
            ![d] = [bad |-> bad, skipped |-> IF bad >= DemoteAfter THEN "now" ELSE @.skipped]]

\* Mutant: a success forgets the deployment, demoted or not.
ForgetSample(d) == workload' = [workload EXCEPT ![d] = Clean]

\* record_success: the bad streak ends, a demotion does not.
RecordSuccess(d) == workload' = [workload EXCEPT ![d].bad = 0]

\* skip_ids forgets the demotions that are over and returns the others.
Demoted == {d \in Deployments : workload[d].skipped = "now"}
ForgetExpired ==
    workload' = [d \in Deployments |-> IF workload[d].skipped = "over" THEN Clean ELSE workload[d]]

-----------------------------------------------------------------------------
(* One call.                                                               *)

\* The models from m on whose capabilities the preflight check accepts.
Eligible(c, m) == {i \in m .. Models : serves[c][i] # "incapable"}

\* Mutant: the first attempt of a model repairs what another model answered.
EnterRepairing(c, m, e) ==
    \E i \in Eligible(c, m) :
        /\ \A j \in Eligible(c, m) : i <= j
        /\ hop' = [hop EXCEPT ![c] = i] /\ try' = [try EXCEPT ![c] = 0]
        /\ stripped' = [stripped EXCEPT ![c] = FALSE] /\ pinned' = [pinned EXCEPT ![c] = None]
        /\ repairing' = [repairing EXCEPT ![c] = e.kind = "invalid"]
        /\ exhausted' = [exhausted EXCEPT ![c] = FALSE]
        /\ pc' = [pc EXCEPT ![c] = "calling"] /\ last' = [last EXCEPT ![c] = Nothing]

\* _try_one_model starts with the first eligible model from m on, after error e:
\* its first attempt is issued, unless its payload is too large.
Enter(c, m, e) ==
    \E i \in Eligible(c, m) :
        /\ \A j \in Eligible(c, m) : i <= j
        /\ hop' = [hop EXCEPT ![c] = i] /\ try' = [try EXCEPT ![c] = 0]
        /\ stripped' = [stripped EXCEPT ![c] = FALSE] /\ pinned' = [pinned EXCEPT ![c] = None]
        /\ repairing' = [repairing EXCEPT ![c] = FALSE]
        /\ exhausted' = [exhausted EXCEPT ![c] = FALSE]
        /\ last' = [last EXCEPT ![c] = Nothing]
        /\ pc' = [pc EXCEPT ![c] = IF serves[c][i] = "able" THEN "calling" ELSE "failed"]

\* The locals of _try_one_model end with it.
Leave(c) ==
    /\ stripped' = [stripped EXCEPT ![c] = FALSE] /\ pinned' = [pinned EXCEPT ![c] = None]
    /\ repairing' = [repairing EXCEPT ![c] = FALSE]

\* generate raises terminal_error after the last model it consulted.
GiveUp(c, m, e) ==
    /\ pc' = [pc EXCEPT ![c] = "failed"]
    /\ hop' = [hop EXCEPT ![c] = m] /\ last' = [last EXCEPT ![c] = e]
    /\ Leave(c)
    /\ UNCHANGED try

\* The chain goes on after error e, from model m if there is one.
Advance(c, m, e) ==
    \/ Enter(c, m, e)
    \/ /\ Eligible(c, m) = {}
       /\ GiveUp(c, Models, IF m <= Models THEN Nothing ELSE e)
       /\ exhausted' = [exhausted EXCEPT ![c] = FALSE]

\* _CallContext: the demotions of the workload are read once.
Begin(c) ==
    /\ pc[c] = "idle"
    /\ skip' = [skip EXCEPT ![c] = Demoted]
    /\ ForgetExpired
    /\ Advance(c, 1, Nothing)
    /\ UNCHANGED <<made, setting>>

\* GroupSkipList.update.
Merge(c, ids) == skip' = [skip EXCEPT ![c] = @ \cup ids]

\* The failed_deployments a response may name.
Reported == IF proxy THEN SUBSET Deployments ELSE {{}}

Answer(c) ==
    /\ pc[c] = "calling" /\ pc' = [pc EXCEPT ![c] = "answered"]
    /\ made' = [made EXCEPT ![c] = @ + 1]
    /\ \E d \in (IF proxy THEN Deployments ELSE {}) \cup {None}, failed \in Reported, gone \in {FALSE, proxy} :
          /\ Merge(c, failed)
          /\ exhausted' = [exhausted EXCEPT ![c] = @ \/ gone]
          /\ \/ d = None /\ UNCHANGED workload
             \/ d # None /\ RecordSuccess(d)
    /\ Leave(c)
    /\ UNCHANGED <<hop, try, last, setting>>

\* The outcome of an attempt that failed with e is folded into the context.
Absorb(c, e) ==
    LET steers == e.kind \in {"failed", "missing"} /\ e.deployment # None
    IN  /\ made' = [made EXCEPT ![c] = @ + 1]
        /\ \E failed \in Reported :
              Merge(c, failed \cup IF steers /\ SkipsDeployment(e.class) THEN {e.deployment} ELSE {})
        /\ \/ steers /\ BacksOff(e.class) /\ MarkSlow(e.deployment)
           \/ ~(steers /\ BacksOff(e.class)) /\ UNCHANGED workload

\* Mutant: one attempt too many.
RetriesOnceMore(c) == try[c] <= Retries

\* Whether the model has attempts left.
RetriesLeft(c) == try[c] < Retries

\* The outcome asks for the next model at once.
FailAdvancing(c, e) ==
    /\ Advances(c, e)
    /\ Advance(c, hop[c] + 1, e)

\* The group is exhausted, yet the outcome does not advance.
FailExhausted(c, e) ==
    /\ ~Advances(c, e) /\ (exhausted[c] \/ e.gone)
    /\ exhausted' = [exhausted EXCEPT ![c] = TRUE]
    /\ GiveUp(c, hop[c], e)

\* The attempt will be retried after a delay.
FailRetried(c, e) ==
    /\ ~Advances(c, e) /\ ~(exhausted[c] \/ e.gone) /\ RetriesLeft(c)
    /\ pc' = [pc EXCEPT ![c] = "sleeping"] /\ last' = [last EXCEPT ![c] = e]
    /\ UNCHANGED <<hop, try, stripped, pinned, repairing, exhausted>>

\* The budget of the model is spent: a validation error is wrapped as
\* StructuredRepairExhaustedError and advances, as do the transient classes.
FailSpent(c, e) ==
    /\ ~Advances(c, e) /\ ~(exhausted[c] \/ e.gone) /\ ~RetriesLeft(c)
    /\ \/ e.kind = "invalid" /\ Advance(c, hop[c] + 1, [e EXCEPT !.class = "context_limit"])
       \/ /\ e.kind # "invalid" /\ AdvancesAfterExhaustion(e.class)
          /\ Advance(c, hop[c] + 1, e)
       \/ /\ e.kind # "invalid" /\ ~AdvancesAfterExhaustion(e.class)
          /\ GiveUp(c, hop[c], e)
          /\ UNCHANGED exhausted

Fail(c) ==
    /\ pc[c] = "calling"
    /\ \E e \in Failures :
          /\ Possible(e) /\ ~Raises(c, e)
          /\ Absorb(c, e)
          /\ FailAdvancing(c, e) \/ FailExhausted(c, e) \/ FailRetried(c, e) \/ FailSpent(c, e)
    /\ UNCHANGED setting

Reject(c) ==
    /\ pc[c] = "calling"
    /\ \E e \in Failures : Possible(e) /\ Raises(c, e) /\ GiveUp(c, hop[c], e)
    /\ UNCHANGED <<made, routing, setting, workload>>

\* Mutant: the history is stripped for one retry only.
RetryUnlatched(c) ==
    /\ pc[c] = "sleeping"
    /\ pc' = [pc EXCEPT ![c] = "calling"]
    /\ try' = [try EXCEPT ![c] = @ + 1]
    /\ stripped' = [stripped EXCEPT ![c] = last[c].kind = "replay"]
    /\ pinned' = [pinned EXCEPT ![c] = IF last[c].kind = "replay" THEN last[c].deployment ELSE @]
    /\ repairing' = [repairing EXCEPT ![c] = last[c].kind = "invalid"]
    /\ last' = [last EXCEPT ![c] = Nothing]
    /\ UNCHANGED <<hop, made, routing, setting, workload>>

\* Mutant: the retry waits for the demotion of its deployment to be over.
RetryCooled(c) ==
    /\ pc[c] = "sleeping" /\ last[c].deployment \notin Demoted
    /\ pc' = [pc EXCEPT ![c] = "calling"]
    /\ try' = [try EXCEPT ![c] = @ + 1]
    /\ stripped' = [stripped EXCEPT ![c] = @ \/ last[c].kind = "replay"]
    /\ last' = [last EXCEPT ![c] = Nothing]
    /\ UNCHANGED <<hop, made, pinned, repairing, routing, setting, workload>>

\* The next attempt of the same model: once a signature has been rejected, every
\* later attempt is stripped and forced on the deployment that rejected it last;
\* otherwise an invalid answer is followed by the structured retry prompt.
Retry(c) ==
    /\ pc[c] = "sleeping"
    /\ pc' = [pc EXCEPT ![c] = "calling"]
    /\ try' = [try EXCEPT ![c] = @ + 1]
    /\ stripped' = [stripped EXCEPT ![c] = @ \/ last[c].kind = "replay"]
    /\ pinned' = [pinned EXCEPT ![c] = IF last[c].kind = "replay" THEN last[c].deployment ELSE @]
    /\ repairing' = [repairing EXCEPT ![c] = ~stripped'[c] /\ last[c].kind = "invalid"]
    /\ last' = [last EXCEPT ![c] = Nothing]
    /\ UNCHANGED <<hop, made, routing, setting, workload>>

\* WORKLOAD_SKIP_SECONDS have passed.
Expire(d) ==
    /\ workload[d].skipped = "now"
    /\ workload' = [workload EXCEPT ![d].skipped = "over"]
    /\ UNCHANGED <<pc, attempt, last, routing, setting>>

\* The awaited attempt ends: it answers, fails, or the watchdog ends it.
Outcome(c) == Answer(c) \/ Fail(c) \/ Reject(c)

Next == \/ \E c \in Calls : Begin(c) \/ Outcome(c) \/ Retry(c)
        \/ \E d \in Deployments : Expire(d)

\* The watchdog bounds an attempt, a sleep ends. No fairness of anything else.
Fairness == \A c \in Calls : WF_vars(Outcome(c) \/ Retry(c))

Spec == Init /\ [][Next]_vars
FairSpec == Spec /\ Fairness

-----------------------------------------------------------------------------
(* Properties.                                                             *)

\* Type invariant: the state of the calls and of the workload is well formed.
TypeOK ==
    /\ pc \in [Calls -> {"idle", "calling", "sleeping", "answered", "failed"}]
    /\ hop \in [Calls -> Hops] /\ try \in [Calls -> 0 .. Retries] /\ made \in [Calls -> Nat]
    /\ last \in [Calls -> Errors]
    /\ stripped \in [Calls -> BOOLEAN] /\ repairing \in [Calls -> BOOLEAN]
    /\ pinned \in [Calls -> Deployments \cup {None}]
    /\ skip \in [Calls -> SUBSET Deployments] /\ exhausted \in [Calls -> BOOLEAN]
    /\ serves \in [Calls -> [Hops -> Services]] /\ proxy \in BOOLEAN
    /\ workload \in [Deployments -> Samples]

\* A call makes no more attempts than the budgets of the models it has reached,
\* whatever mix of retries, repairs, stripped retries and early advances.
WithinBudget ==
    \A c \in Calls : IF pc[c] \in {"calling", "sleeping"}
                     THEN made[c] < hop[c] * (Retries + 1)
                     ELSE made[c] <= hop[c] * (Retries + 1)

\* A call ends on a transient failure, or on an answer that does not validate,
\* only after the last model of its chain, with every attempt of that model used
\* or its group exhausted.
EndsAtTheEnd ==
    \A c \in Calls :
        LET e == last[c]
            transient == e.kind = "failed" /\ e.class \in {"watchdog", "rate", "timeout"}
        IN  pc[c] = "failed" /\ (transient \/ e.kind = "invalid") =>
                hop[c] = Models /\ (try[c] = Retries \/ e.gone)

\* What steers an attempt beyond the request comes from its own model: the first
\* attempt of a model repairs, strips and forces nothing, and inherits no
\* exhausted group.
FreshModel ==
    \A c \in Calls : pc[c] = "calling" /\ try[c] = 0 =>
        ~repairing[c] /\ ~stripped[c] /\ pinned[c] = None /\ ~exhausted[c]

\* Once a model has rejected a replayed signature, all its later attempts carry
\* the stripped history, and no repair prompt; a new rejection moves the pin.
LatchHolds ==
    [][\A c \in Calls : pc'[c] = "calling" /\ hop'[c] = hop[c] /\ try'[c] > try[c]
           /\ (stripped[c] \/ last[c].kind = "replay") =>
                /\ stripped'[c] /\ ~repairing'[c]
                /\ last[c].kind = "replay" => pinned'[c] = last[c].deployment]_vars

\* A deployment that a running call has learnt to skip stays skipped for it, over
\* every retry and every model.
SkipGrows == [][\A c \in Calls : pc[c] # "idle" => skip[c] \subseteq skip'[c]]_vars

\* A demotion runs its time: no success of another call lifts it.
DemotionServed ==
    [][\A d \in Deployments :
           workload[d].skipped = "now" => workload'[d].skipped \in {"now", "over"}]_vars

\* Every call returns.
Returns == \A c \in Calls : pc[c] \in {"calling", "sleeping"} ~> pc[c] \in {"answered", "failed"}
=============================================================================
