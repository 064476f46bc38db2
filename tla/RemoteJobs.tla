----------------------------- MODULE RemoteJobs -----------------------------
(***************************************************************************)
(* What remote deployments promise to those who call them, whatever        *)
(* submissions, servers, polls and retries there are: the job of a key is  *)
(* started at most once, by a call that is under way, and ends at most     *)
(* once; a call ends once, and with a result only if the job of its key    *)
(* has completed, or the deployment ran in the process of the caller.      *)
(***************************************************************************)
CONSTANTS
  Calls,
  Inputs,
  Keys,   \* what jobs are known by
  KeyOf   \* the key of each input, which other inputs may share

VARIABLES
  input,   \* what each call is given
  inline,  \* the deployment runs in the process of the caller
  job,     \* what has become of the job of each key
  outcome  \* what has become of each call

Init ==
  /\ input \in [Calls -> Inputs] /\ inline \in BOOLEAN
  /\ job = [k \in Keys |-> "none"]
  /\ outcome = [c \in Calls |-> "open"]

Start(c) ==
  /\ ~inline /\ outcome[c] = "open" /\ job[KeyOf[input[c]]] = "none"
  /\ job' = [job EXCEPT ![KeyOf[input[c]]] = "pending"]
  /\ UNCHANGED <<input, inline, outcome>>

End(k) ==
  /\ job[k] = "pending"
  /\ \E s \in {"completed", "failed"} : job' = [job EXCEPT ![k] = s]
  /\ UNCHANGED <<input, inline, outcome>>

Return(c) ==
  /\ outcome[c] = "open"
  /\ inline \/ job[KeyOf[input[c]]] = "completed"
  /\ outcome' = [outcome EXCEPT ![c] = "result"]
  /\ UNCHANGED <<input, inline, job>>

\* A call may raise at any time, whatever becomes of its job.
Raise(c) ==
  /\ outcome[c] = "open"
  /\ outcome' = [outcome EXCEPT ![c] = "error"]
  /\ UNCHANGED <<input, inline, job>>

Next == (\E c \in Calls : Start(c) \/ Return(c) \/ Raise(c)) \/ (\E k \in Keys : End(k))

Spec == Init /\ [][Next]_<<input, inline, job, outcome>>
=============================================================================
