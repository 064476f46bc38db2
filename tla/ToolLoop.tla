------------------------------ MODULE ToolLoop ------------------------------
(***************************************************************************)
(* One interaction with a model that may call tools: rounds of parallel    *)
(* tool calls under a budget, a last call without tools once the rounds    *)
(* are used up, and the repair of an answer that fails validation, which   *)
(* enters the loop again with the same messages and what is left of the    *)
(* budgets.  (llm/_engine.py, llm/tools.py)                                *)
(*                                                                         *)
(* One action is the code between two awaits: the call of the model, which *)
(* is module LlmCall, and the tools of a round, which run together, each   *)
(* with a timeout and retries of its own.                                  *)
(***************************************************************************)
EXTENDS Naturals, Sequences, FiniteSets

CONSTANTS
  Names,       \* the names a model may call
  Tools,       \* those of the tools that are offered
  Metered,     \* those with max_calls
  MaxCalls,    \* their max_calls
  Replies,     \* the tool calls of an answer of the model, as names; <<>> for none
  MaxRounds,   \* max_rounds
  MaxStrays,   \* MAX_CONSECUTIVE_UNKNOWN_TOOL_ROUNDS
  ToolRetries, \* retries of a tool
  MaxAttempts  \* max_attempts of the validation, 1 without one

VARIABLES
  pc,          \* calling | tools | synthesis | validating | done | failed
  attempt,     \* attempt_index
  round,       \* round_index
  strays,      \* consecutive_unknown_rounds
  messages,    \* the list sent with every call, after the caller's own messages
  accumulated, \* accumulated_messages: what later turns are told of this one
  remaining,   \* remaining_calls
  calls,       \* tool calls of the last answer
  tries,       \* the attempt of each that runs, by its position
  broken,      \* one of them raised what the engine does not turn into a result
  executed     \* how often each metered tool was started

transcripts == <<messages, accumulated>>
budgets == <<remaining, executed>>
vars == <<pc, attempt, round, strays, transcripts, budgets, calls, tries, broken>>

ASSUME BoundsAssumption == MaxRounds \in Nat \ {0} /\ MaxStrays \in Nat \ {0}
                           /\ MaxAttempts \in Nat \ {0} /\ ToolRetries \in Nat
ASSUME ToolsAssumption ==
  Tools \subseteq Names /\ Metered \subseteq Tools /\ MaxCalls \in [Metered -> Nat]
ASSUME RepliesAssumption == Replies \subseteq Seq(Names)

-----------------------------------------------------------------------------
\* What follows the caller's messages: answers, results of tools, and what the engine says.
Entries ==
  [kind : {"answer", "result", "repair", "steering"}, calls : Seq(Names), of : Nat]

Answer(c) == [kind |-> "answer", calls |-> c, of |-> 0]
Result(c, i) == [kind |-> "result", calls |-> <<c[i]>>, of |-> i]
Repair == [kind |-> "repair", calls |-> <<>>, of |-> 0]
Steering == [kind |-> "steering", calls |-> <<>>, of |-> 0]

\* Mutant: the calls that were not run have no result.
ResultsOfTools(c) == SelectSeq([i \in DOMAIN c |-> Result(c, i)], LAMBDA e : e.calls[1] \in Tools)

\* One result for each call of the round, in their order: an error if it was not run.
Results(c) == [i \in DOMAIN c |-> Result(c, i)]

\* Nothing runs.
NoTries == [i \in {} |-> 0]

Init ==
  /\ pc = "calling" /\ attempt = 1 /\ round = 1 /\ strays = 0
  /\ messages = <<>> /\ accumulated = <<>>
  /\ remaining = MaxCalls /\ executed = [t \in Metered |-> 0]
  /\ calls = <<>> /\ tries = NoTries /\ broken = FALSE

\* Mutant: the budget is looked up call by call, and lowered when the tools are done.
AffordableAlone(c) ==
  {i \in DOMAIN c : c[i] \in Tools /\ (c[i] \in Metered => remaining[c[i]] > 0)}

\* _execute_tools: a call runs if its tool is known and the calls of that tool before it in
\* the round have left something of the budget.
Affordable(c) ==
  {i \in DOMAIN c :
     c[i] \in Tools /\ (c[i] \in Metered => Cardinality({j \in 1..i : c[j] = c[i]}) <= remaining[c[i]])}

\* How many of the calls that run are of tool t.
Started(c, t) == Cardinality({i \in Affordable(c) : c[i] = t})

\* The model answers with tool calls: those that may run are started together.
CallsTools ==
  /\ pc = "calling"
  /\ \E c \in Replies \ {<<>>} :
       /\ calls' = c
       /\ messages' = Append(messages, Answer(c))
       /\ accumulated' = Append(accumulated, Answer(c))
       /\ tries' = [i \in Affordable(c) |-> 1]
       /\ executed' = [t \in Metered |-> executed[t] + Started(c, t)]
       /\ remaining' = [t \in Metered |-> remaining[t] - Started(c, t)]
  /\ pc' = "tools"
  /\ UNCHANGED <<attempt, round, strays, broken>>

\* The model answers without tool calls: the loop returns.
AnswersAtOnce ==
  /\ pc = "calling"
  /\ calls' = <<>>
  /\ accumulated' = Append(accumulated, Answer(<<>>))
  /\ pc' = "validating"
  /\ UNCHANGED <<attempt, round, strays, messages, budgets, tries, broken>>

Running == DOMAIN tries
Over(i) == tries' = [j \in Running \ {i} |-> tries[j]]

RoundOnly == UNCHANGED <<pc, attempt, round, strays, transcripts, budgets, calls>>

\* A tool ends: its result, its error and the refusal of its arguments are all told to the
\* model; a TypeError, an AssertionError or a cancellation is not.
ToolEnds ==
  /\ pc = "tools"
  /\ \E i \in Running : Over(i)
  /\ broken' \in {broken, TRUE}
  /\ RoundOnly

\* Mutant: the retries of a tool start over.
TriesAgain ==
  /\ pc = "tools"
  /\ \E i \in Running :
       tries' = [tries EXCEPT ![i] = IF tries[i] <= ToolRetries THEN tries[i] + 1 ELSE 1]
  /\ UNCHANGED broken
  /\ RoundOnly

\* The timeout of an attempt, or an error the tool calls retryable; after the last one the
\* model is told.
AttemptFails ==
  /\ pc = "tools"
  /\ \E i \in Running :
       IF tries[i] <= ToolRetries THEN tries' = [tries EXCEPT ![i] = tries[i] + 1] ELSE Over(i)
  /\ UNCHANGED broken
  /\ RoundOnly

Told ==
  /\ messages' = messages \o Results(calls)
  /\ accumulated' = accumulated \o Results(calls)

\* Nobody called a tool that exists.
Stray == \A i \in DOMAIN calls : calls[i] \notin Tools
Strays == IF Stray THEN strays + 1 ELSE 0

\* gather returns, and the next round begins.
NextRound ==
  /\ pc = "tools" /\ Running = {} /\ ~broken
  /\ round < MaxRounds /\ Strays < MaxStrays
  /\ Told
  /\ round' = round + 1 /\ strays' = Strays
  /\ calls' = <<>>
  /\ pc' = "calling"
  /\ UNCHANGED <<attempt, budgets, tries, broken>>

\* Mutant: the instruction is kept for later turns.
SteeredForGood ==
  /\ messages' = messages \o Results(calls) \o <<Steering>>
  /\ accumulated' = accumulated \o Results(calls) \o <<Steering>>

\* The instruction not to call tools goes into the list, not into accumulated_messages.
Steered ==
  /\ messages' = messages \o Results(calls) \o <<Steering>>
  /\ accumulated' = accumulated \o Results(calls)

\* The rounds are used up, or too many of them called nothing that exists.
RoundsOver ==
  /\ pc = "tools" /\ Running = {} /\ ~broken
  /\ round = MaxRounds \/ Strays >= MaxStrays
  /\ Steered
  /\ strays' = Strays
  /\ calls' = <<>>
  /\ pc' = "synthesis"
  /\ UNCHANGED <<attempt, round, budgets, tries, broken>>

\* The last call offers no tools.  The model may name some all the same; if the call fails,
\* a fixed answer stands in for it.
Synthesized ==
  /\ pc = "synthesis"
  /\ \E c \in Replies :
       /\ calls' = c
       /\ accumulated' = Append(accumulated, Answer(c))
  /\ pc' = "validating"
  /\ UNCHANGED <<attempt, round, strays, messages, budgets, tries, broken>>

\* The answer is accepted.
Accepted ==
  /\ pc = "validating"
  /\ pc' = "done"
  /\ UNCHANGED <<attempt, round, strays, transcripts, budgets, calls, tries, broken>>

\* Mutant: every attempt has the budgets anew.
RefilledBudgets == remaining' = MaxCalls /\ UNCHANGED executed

KeptBudgets == UNCHANGED budgets

\* The answer is refused: the model is told why, and the loop is entered again, with tools.
Repaired ==
  /\ pc = "validating"
  /\ attempt < MaxAttempts
  /\ messages' = messages \o <<Answer(calls), Repair>>
  /\ accumulated' = Append(accumulated, Repair)
  /\ attempt' = attempt + 1 /\ round' = 1 /\ strays' = 0
  /\ calls' = <<>>
  /\ KeptBudgets
  /\ pc' = "calling"
  /\ UNCHANGED <<tries, broken>>

\* TerminalError: the last attempt is refused.
Exhausted ==
  /\ pc = "validating"
  /\ attempt = MaxAttempts
  /\ pc' = "failed"
  /\ UNCHANGED <<attempt, round, strays, transcripts, budgets, calls, tries, broken>>

\* generate or validate raises, a tool raised, or the interaction is cancelled, which gather
\* passes on.
Raises ==
  /\ pc \in {"calling", "tools", "synthesis", "validating"}
  /\ pc' = "failed"
  /\ tries' = NoTries
  /\ UNCHANGED <<attempt, round, strays, transcripts, budgets, calls, broken>>

Next ==
  \/ CallsTools \/ AnswersAtOnce \/ ToolEnds \/ AttemptFails \/ NextRound \/ RoundsOver
  \/ Synthesized \/ Accepted \/ Repaired \/ Exhausted \/ Raises

Spec == Init /\ [][Next]_vars

\* A call of the model returns or raises, and an attempt of a tool ends or is timed out.
FairSpec == Spec /\ WF_vars(Next)

-----------------------------------------------------------------------------
(* Properties.                                                             *)

\* The state is well formed; tools run only in a round.
TypeOK ==
  /\ pc \in {"calling", "tools", "synthesis", "validating", "done", "failed"}
  /\ attempt \in 1..MaxAttempts /\ round \in 1..MaxRounds /\ strays \in 0..MaxStrays
  /\ messages \in Seq(Entries) /\ accumulated \in Seq(Entries)
  /\ calls \in Replies \cup {<<>>}
  /\ Running \subseteq DOMAIN calls /\ (Running # {} => pc = "tools")
  /\ tries \in [Running -> 1..(ToolRetries + 1)]
  /\ remaining \in [Metered -> Nat] /\ executed \in [Metered -> Nat]
  /\ broken \in BOOLEAN

\* No tool is started more often than its max_calls, however the calls are spread over one
\* round, several rounds and the repairs of an execution (_execute_tools, ToolRuntime).
BudgetKept == \A t \in Metered : executed[t] <= MaxCalls[t]

\* The list without the transient instruction.
Unsteered(s) ==
  LET f[n \in 0..Len(s)] ==
        IF n = 0 THEN <<>>
        ELSE IF s[n].kind = "steering" THEN f[n - 1] ELSE Append(f[n - 1], s[n])
  IN  f[Len(s)]

\* Whenever the model is called, what later turns will be told of this one is what the model
\* was told itself, without the transient instruction (execute_interaction, _tool_loop).
TranscriptsAgree == pc \in {"calling", "synthesis"} => Unsteered(messages) = accumulated

\* Every call of a round has its result before the model is called again, in the order of
\* the calls, whether it ran or not.  Calls of an answer that was given without tools on
\* offer are not run, and have none.
CallsAnswered ==
  pc \in {"calling", "synthesis"} =>
    \A m \in DOMAIN messages :
      messages[m].kind = "answer" =>
        \/ \A i \in DOMAIN messages[m].calls :
             /\ m + i \in DOMAIN messages
             /\ messages[m + i] = Result(messages[m].calls, i)
        \/ m > 1 /\ messages[m - 1].kind = "steering"

\* Whatever the model calls, and however often tools time out and answers are refused, the
\* interaction ends (execute_interaction, Tool.execute).
InteractionEnds == <>(pc \in {"done", "failed"})
=============================================================================
