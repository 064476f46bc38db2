------------------------------ MODULE RemoteRun ------------------------------
(***************************************************************************)
(* Flows of one run call a deployment that runs elsewhere: each call has a *)
(* TASK span, submits a flow run to Prefect under an idempotency key,      *)
(* retries while answers are lost, turns to a second server if the first   *)
(* does not know the deployment, and polls until the flow run has ended or *)
(* its patience has.  A flow that is retried calls again.                  *)
(* (deployment/remote.py; the flow run it starts is module DeploymentRun.) *)
(*                                                                         *)
(* One action is the code between two awaits.                              *)
(***************************************************************************)
EXTENDS Naturals, FiniteSets

CONSTANTS
  Calls,          \* calls of RemoteDeployment.run, of one run id and one deployment
  Inputs,         \* what they may be given: [docs, options], a sequence and a function
  Assignments,    \* which calls are given what
  None,           \* an option that is not set
  CliFields,      \* _CLI_FIELDS: options that say how to run, not what
  Digest(_),      \* the first hex digits of the hash of a fingerprint
  Configured,     \* PREFECT_API_URL is set
  MaxSubmissions, \* _MAX_SUBMISSION_ATTEMPTS
  MaxPollErrors   \* _MAX_CONSECUTIVE_POLL_ERRORS

VARIABLES
  input,    \* the documents and options of a call
  inline,   \* the deployment runs in this process
  deployed, \* the servers that know the deployment
  pc,       \* where a call stands
  server,   \* the server it talks to
  tries,    \* attempt_number of its submission
  errors,   \* consecutive_errors of its polls
  late,     \* max_poll_seconds have passed for it
  children, \* the flow runs on the servers
  span,     \* its TASK span as the code left it
  told      \* the ends published for it: task.completed, task.failed

given == <<input, inline, deployed>>
talk == <<server, tries, errors>>
tells == <<span, told>>
vars == <<given, pc, talk, late, children, tells>>

Servers == {"active", "configured"}
Remote == {"submitting", "backoff", "polling", "resting", "fetching"}
Inside == {"announce", "inline"} \cup Remote
Ended == {"returned", "raised"}

ASSUME BoundsAssumption == MaxSubmissions \in Nat \ {0} /\ MaxPollErrors \in Nat \ {0}
ASSUME AssignmentsAssumption == Assignments \subseteq [Calls -> Inputs]
ASSUME ConfiguredAssumption == Configured \in BOOLEAN

-----------------------------------------------------------------------------
\* _compute_input_fingerprint: the hashes of the documents are sorted, so how often each
\* occurs is left of them; options of the command line and those that are None are dropped.
Fingerprint(i) ==
  LET docs == i.docs
      opts == i.options
  IN  [docs |-> [d \in {docs[n] : n \in DOMAIN docs} |->
                   Cardinality({n \in DOMAIN docs : docs[n] = d})],
       options |-> [f \in {f \in DOMAIN opts \ CliFields : opts[f] # None} |-> opts[f]]]

\* The key of an input.  Nothing makes it injective: neither the fingerprint nor the digest is.
KeyOf == [i \in Inputs |-> Digest(Fingerprint(i))]
Keys == {KeyOf[i] : i \in Inputs}

Init ==
  /\ input \in Assignments /\ inline \in BOOLEAN /\ deployed \in SUBSET Servers
  /\ pc = [c \in Calls |-> "idle"]
  /\ server = [c \in Calls |-> "active"]
  /\ tries = [c \in Calls |-> 0] /\ errors = [c \in Calls |-> 0]
  /\ late = [c \in Calls |-> FALSE]
  /\ children = {}
  /\ span = [c \in Calls |-> "none"] /\ told = [c \in Calls |-> {}]

GoTo(c, p) == pc' = [pc EXCEPT ![c] = p]

\* Mutant: the run id alone, which all calls of the run share.
RunId(c) == CHOOSE k \in Keys : TRUE

\* _derive_remote_run_id: the run id with the digest of the documents and options.
Key(c) == KeyOf[input[c]]

\* The flow run that a server has for the key of c.
Mine(c) == {x \in children : x.server = server[c] /\ x.key = Key(c)}

\* Prefect creates a flow run, or gives back the one it has for the key.
Landed(c) ==
  children' = IF Mine(c) # {} THEN children
              ELSE children \cup {[server |-> server[c], key |-> Key(c), input |-> input[c],
                                   state |-> "pending"]}

\* A request that failed may still have reached a server that knows the deployment.
PerhapsLanded(c) == UNCHANGED children \/ (server[c] \in deployed /\ Landed(c))

\* The publishers give up with a warning: the event may be lost.
Publish(c, e) == \E sent \in {{}, {e}} : told' = [told EXCEPT ![c] = told[c] \cup sent]

-----------------------------------------------------------------------------
(* The call.                                                               *)

\* RemoteDeployment.run opens its TASK span.
Begin(c) ==
  /\ pc[c] = "idle"
  /\ GoTo(c, "opening")
  /\ UNCHANGED <<given, talk, late, children, tells>>

\* The span is open: task.started is next.
Opened(c) ==
  /\ pc[c] = "opening"
  /\ span' = [span EXCEPT ![c] = "running"]
  /\ GoTo(c, "announce")
  /\ UNCHANGED <<given, talk, late, children, told>>

\* task.started is out or lost: the deployment is run here, or submitted.
Announced(c) ==
  /\ pc[c] = "announce"
  /\ GoTo(c, IF inline THEN "inline" ELSE "submitting")
  /\ tries' = [tries EXCEPT ![c] = IF inline THEN 0 ELSE 1]
  /\ UNCHANGED <<given, server, errors, late, children, tells>>

\* _run_inline: the deployment ran to its end in this process, as in DeploymentRun.
InlineEnds(c) ==
  /\ pc[c] = "inline"
  /\ \E p \in {"closing", "failing"} : GoTo(c, p)
  /\ UNCHANGED <<given, talk, late, children, tells>>

\* The server answers with the flow run: the first poll is sent.
Submitted(c) ==
  /\ pc[c] = "submitting" /\ server[c] \in deployed
  /\ Landed(c)
  /\ GoTo(c, "polling")
  /\ UNCHANGED <<given, talk, late, tells>>

\* Mutant: a server that does not answer is left for the other.
SubmissionTurnsAway(c) ==
  /\ pc[c] = "submitting"
  /\ PerhapsLanded(c)
  /\ IF server[c] = "active" /\ Configured
     THEN server' = [server EXCEPT ![c] = "configured"] /\ UNCHANGED pc
     ELSE GoTo(c, IF tries[c] < MaxSubmissions THEN "backoff" ELSE "failing") /\ UNCHANGED server
  /\ UNCHANGED <<given, tries, errors, late, tells>>

\* Mutant: one submission too many.
SubmissionFailsOnceMore(c) ==
  /\ pc[c] = "submitting"
  /\ PerhapsLanded(c)
  /\ GoTo(c, IF tries[c] <= MaxSubmissions THEN "backoff" ELSE "failing")
  /\ UNCHANGED <<given, talk, late, tells>>

\* A transport error, a timeout, or a status that is worth a retry.
SubmissionFails(c) ==
  /\ pc[c] = "submitting"
  /\ PerhapsLanded(c)
  /\ GoTo(c, IF tries[c] < MaxSubmissions THEN "backoff" ELSE "failing")
  /\ UNCHANGED <<given, talk, late, tells>>

\* The delay is over: the next submission, under the same key.
Resubmitted(c) ==
  /\ pc[c] = "backoff"
  /\ tries' = [tries EXCEPT ![c] = tries[c] + 1]
  /\ GoTo(c, "submitting")
  /\ UNCHANGED <<given, server, errors, late, children, tells>>

\* ObjectNotFound: the configured server is tried next, if there is one and it was not yet.
NotFound(c) ==
  /\ pc[c] = "submitting" /\ server[c] \notin deployed
  /\ IF server[c] = "active" /\ Configured
     THEN /\ server' = [server EXCEPT ![c] = "configured"]
          /\ tries' = [tries EXCEPT ![c] = 1]
          /\ UNCHANGED pc
     ELSE GoTo(c, "failing") /\ UNCHANGED <<server, tries>>
  /\ UNCHANGED <<given, errors, late, children, tells>>

\* Any other error of a submission or a poll, an authorization that is refused for one.
Refused(c) ==
  /\ \/ pc[c] = "submitting" /\ PerhapsLanded(c)
     \/ pc[c] = "polling" /\ UNCHANGED children
  /\ GoTo(c, "failing")
  /\ UNCHANGED <<given, talk, late, tells>>

\* read_flow_run answers: a final state has a result or an error to fetch.
Polled(c) ==
  /\ pc[c] = "polling"
  /\ errors' = [errors EXCEPT ![c] = 0]
  /\ GoTo(c, IF \E x \in Mine(c) : x.state = "pending" THEN "resting" ELSE "fetching")
  /\ UNCHANGED <<given, server, tries, late, children, tells>>

\* It fails in a way that is worth a retry.
PollFails(c) ==
  /\ pc[c] = "polling"
  /\ IF errors[c] + 1 < MaxPollErrors
     THEN errors' = [errors EXCEPT ![c] = errors[c] + 1] /\ GoTo(c, "resting")
     ELSE UNCHANGED errors /\ GoTo(c, "failing")
  /\ UNCHANGED <<given, server, tries, late, children, tells>>

\* Mutant: only failed polls are limited.
RestedForever(c) ==
  /\ pc[c] = "resting"
  /\ GoTo(c, "polling")
  /\ UNCHANGED <<given, talk, late, children, tells>>

\* The poll interval is over: the next poll, unless max_poll_seconds have passed.
Rested(c) ==
  /\ pc[c] = "resting"
  /\ GoTo(c, IF late[c] THEN "failing" ELSE "polling")
  /\ UNCHANGED <<given, talk, late, children, tells>>

\* The result of a completed flow run is returned, unless it cannot be read or is of another
\* type; any other flow run ends the call with RemoteDeploymentExecutionError.
Fetched(c) ==
  /\ pc[c] = "fetching"
  /\ \/ \E x \in Mine(c) : x.state = "completed" /\ GoTo(c, "closing")
     \/ GoTo(c, "failing")
  /\ UNCHANGED <<given, talk, late, children, tells>>

\* The span is closed with the result.
Closed(c) ==
  /\ pc[c] = "closing"
  /\ span' = [span EXCEPT ![c] = "completed"]
  /\ GoTo(c, "report")
  /\ UNCHANGED <<given, talk, late, children, told>>

\* task.completed is out or lost, and the result is the caller's.
Reported(c) ==
  /\ pc[c] = "report"
  /\ Publish(c, "completed")
  /\ GoTo(c, "returned")
  /\ UNCHANGED <<given, talk, late, children, span>>

\* The span is closed as FAILED.
SpanFailed(c) ==
  /\ pc[c] = "failing"
  /\ span' = [span EXCEPT ![c] = "failed"]
  /\ GoTo(c, "reportfail")
  /\ UNCHANGED <<given, talk, late, children, told>>

\* task.failed is out or lost, and the error goes up.
FailureReported(c) ==
  /\ pc[c] = "reportfail"
  /\ Publish(c, "failed")
  /\ GoTo(c, "raised")
  /\ UNCHANGED <<given, talk, late, children, span>>

-----------------------------------------------------------------------------
(* CancelledError, at the await where the call stands.  Nobody tells the   *)
(* flow run.                                                               *)

\* In the span: it fails.  A submission under way may have landed.
CancelledInside(c) ==
  /\ pc[c] \in Inside
  /\ IF pc[c] = "submitting" THEN PerhapsLanded(c) ELSE UNCHANGED children
  /\ GoTo(c, "failing")
  /\ UNCHANGED <<given, talk, late, tells>>

\* While the span is opened or closed: task.failed is published all the same.
CancelledAtSpan(c) ==
  /\ \/ pc[c] \in {"opening", "closing", "failing"} /\ span' = [span EXCEPT ![c] = "running"]
     \/ pc[c] = "closing" /\ span' = [span EXCEPT ![c] = "completed"]
     \/ pc[c] = "failing" /\ span' = [span EXCEPT ![c] = "failed"]
  /\ GoTo(c, "reportfail")
  /\ UNCHANGED <<given, talk, late, children, told>>

\* While an event is published: it may be out.
CancelledAfter(c) ==
  /\ \/ pc[c] = "report" /\ Publish(c, "completed")
     \/ pc[c] = "reportfail" /\ Publish(c, "failed")
  /\ GoTo(c, "raised")
  /\ UNCHANGED <<given, talk, late, children, span>>

-----------------------------------------------------------------------------
(* The surroundings.                                                       *)

\* The flow run ends on its worker.
ChildEnds ==
  /\ \E x \in children, s \in {"completed", "failed"} :
       /\ x.state = "pending"
       /\ children' = (children \ {x}) \cup {[x EXCEPT !.state = s]}
  /\ UNCHANGED <<given, pc, talk, late, tells>>

\* max_poll_seconds pass.
PatienceEnds(c) ==
  /\ pc[c] \in {"polling", "resting"} /\ ~late[c]
  /\ late' = [late EXCEPT ![c] = TRUE]
  /\ UNCHANGED <<given, pc, talk, children, tells>>

CallStep(c) ==
  \/ Opened(c) \/ Announced(c) \/ InlineEnds(c) \/ Submitted(c) \/ SubmissionFails(c)
  \/ Resubmitted(c) \/ NotFound(c) \/ Refused(c) \/ Polled(c) \/ PollFails(c) \/ Rested(c)
  \/ Fetched(c) \/ Closed(c) \/ Reported(c) \/ SpanFailed(c) \/ FailureReported(c)

Cancelled(c) == CancelledInside(c) \/ CancelledAtSpan(c) \/ CancelledAfter(c)

Next ==
  \/ \E c \in Calls : Begin(c) \/ CallStep(c) \/ Cancelled(c) \/ PatienceEnds(c)
  \/ ChildEnds

Spec == Init /\ [][Next]_vars

\* A request is answered or times out, a delay ends, time passes.  The flow run owes nothing.
FairSpec == Spec /\ \A c \in Calls : WF_vars(CallStep(c)) /\ WF_vars(PatienceEnds(c))

-----------------------------------------------------------------------------
(* Properties.                                                             *)

\* The state is well formed: a call stays within its submissions and its failed polls, and
\* turns to the configured server only if there is one.
TypeOK ==
  /\ input \in [Calls -> Inputs] /\ inline \in BOOLEAN /\ deployed \subseteq Servers
  /\ pc \in [Calls -> {"idle", "opening", "closing", "report", "failing", "reportfail"}
                      \cup Inside \cup Ended]
  /\ server \in [Calls -> Servers]
  /\ \A c \in Calls : server[c] = "configured" => Configured
  /\ tries \in [Calls -> 0..MaxSubmissions] /\ errors \in [Calls -> 0..(MaxPollErrors - 1)]
  /\ late \in [Calls -> BOOLEAN]
  /\ children \subseteq [server : Servers, key : Keys, input : Inputs,
                         state : {"pending", "completed", "failed"}]
  /\ span \in [Calls -> {"none", "running", "completed", "failed"}]
  /\ told \in [Calls -> SUBSET {"completed", "failed"}]

\* Calls whose inputs are alike share a flow run: those that differ only in the order of
\* their documents, in options of the command line or None, or whose digests collide.
Alike(i, j) == KeyOf[i] = KeyOf[j]

\* Whatever answers are lost, whoever calls again after giving up or being cancelled, and
\* whichever server is asked, the deployment is started at most once for inputs that are
\* alike (_submit_remote_flow_run, _run_remote_deployment).
OneChild == \A x, y \in children : Alike(x.input, y.input) => x = y

\* A call returns, and reports as completed, only the result of a flow run that completed and
\* whose inputs are alike to its own (_derive_remote_run_id, _poll_remote_flow_run).
OwnResult ==
  \A c \in Calls :
    (pc[c] = "returned" \/ "completed" \in told[c]) /\ ~inline
      => \E x \in children : Alike(x.input, input[c]) /\ x.state = "completed"

\* Every call ends, even if the flow run never does (_poll_remote_flow_run).
CallEnds == \A c \in Calls : pc[c] # "idle" ~> pc[c] \in Ended
=============================================================================
