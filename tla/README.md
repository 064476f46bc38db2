# ai-pipeline-core: TLA+ models, checks and proofs

This directory holds TLA+ models of `ai_pipeline_core`, the framework under
`src/ai_pipeline_core/`, with TLC configurations that check them on small instances and
TLAPS proofs of what matters most for every instance. Paths below are relative to
`src/ai_pipeline_core/`.

## The system

A *deployment* runs a sequence of *flows*; a flow starts *tasks* (asyncio tasks, retried and
cached); a task makes LLM calls through an engine that loops over tool calls. Everything that
runs is recorded as a tree of *spans* in a database, from which runs are resumed, costed,
replayed and shown. The process is single-threaded asyncio except where noted: code between two
awaits is atomic, and everything interleaves at the awaits.

| Part | State | Operations | Interacts with | Hard because | Correct when |
|---|---|---|---|---|---|
| Span recording (`pipeline/_track_span.py`, `pipeline/_span_sink.py`) | phase of each span; retry buffer, its bytes, attempts; `_draining`; `recording_degraded` | start, finish, park, unpark, repark, pump, split, quarantine, flush | store; every tracked scope; shutdown of a run | inserts of many spans overlap; timeouts and cancellations during inserts; outages; caps | no terminal row is lost without a trace, caps hold, drains exclude each other, callers are never held |
| Recovery (`observability/_recovery.py`) | rows of orphaned deployments | mark the root failed, mark descendants LOST | store, live and dead workers | a worker believed dead may be alive; versions | the last word on a span is the right one, every orphan gets one |
| Stores (`database/`) | rows by version, documents, blobs, logs | insert, latest row, cached completion, totals | everything | several rows per span; retried inserts | readers see one row per span, the newest |
| ClickHouse client (`database/clickhouse/`) | client, failure count, open circuit | connect, execute, fail, close | all tasks of a process | failures handled outside the lock | no call uses a closed client; the circuit closes again |
| Task execution (`pipeline/_task.py`) | attempt, span, cache key, handles | start, attempt, retry, reuse, persist, emit events | spans, cache, handles, limits | leaked handles, cancellation between steps | one terminal event per task; outputs are stored before a completion is visible |
| Parallel primitives (`pipeline/_parallel.py`, `pipeline/gather.py`) | pending set | collect with deadline, gather | tasks | work that outlives its caller | each handle is reported once |
| Limits (`pipeline/limits.py`) | slots, `prefect_available` | acquire, release, fall back | Prefect | run-wide fallback | at most `limit` holders while the server answers |
| Deployment run and resume (`deployment/base.py`, `deployment/_deployment_runtime.py`) | step, blackboard of documents, flow attempts, events | run a flow, retry, reuse cached output, resume, publish | tasks, store, publisher | crash between steps; cached outputs; failures after completion | a resumed run continues as the first would have; what is published of its end bears out the record |
| Remote deployments (`deployment/remote.py`) | flow-run id, attempts, poll errors | submit, poll | Prefect, retries of the caller | idempotency keys and retries | started once per key; a call returns the result of its key and ends |
| Logs (`logger/`, `deployment/_helpers.py`) | bounded buffer, pending batch, sequence numbers | append, drain, flush, drop | threads, flush loop, cancellation | flush cancelled half-way | each log is stored or counted as dropped |
| LLM call (`_llm_core/client.py`, `_llm_core/_routing.py`) | model of the chain, attempt, skip list, demotions | attempt, retry, repair, strip, advance | proxy, workload state shared by a run | error classes steer everything | every promised fallback is tried; budgets hold |
| LLM stream (`_llm_core/_stream.py`, `_llm_core/_watchdog.py`) | accumulator, gates, ticker | chunk, tick, close | provider | ticker races the stream | a stalled stream ends; a finished one is not failed |
| Engine (`llm/_engine.py`) | messages, rounds, budgets, repairs | round, tools, forced final, repair | LLM call, tools | state carried across repairs | budgets hold; histories stay well formed |
| Conversation, substitution, images, transport, schemas, documents, codec, prompt compiler and contracts | values | pure | | text, not state | |
| Debug, replay, snapshots, command lines, packaging | | drive the parts above | | | |

`PROJECT.json` lists each part with its sources and status, and under `hazards` what is hard to
test in each, at its line.

## Modules

| Module | What it is |
|---|---|
| `SpanSink` | the recording of tracked spans: `track_span` and `DatabaseSpanSink` |
| `TerminalRecord` | the abstract promise of that recording about terminal rows |
| `SpanRecovery` | reconciliation of the spans of a deployment, its worker and its store |
| `LlmCall` | one logical LLM generation: the chain of models, retries, routing |
| `ToolLoop` | one interaction: rounds of tool calls, the forced answer, repairs |
| `TaskRun` | tasks a flow dispatches and collects: cache, attempts, limits, cancellation |
| `DeploymentRun` | a deployment: flows, gates, cached steps, retries, resume after a crash |
| `RemoteRun` | calls of a deployment that runs elsewhere: submission, second server, polling |
| `RemoteJobs` | the abstract promise of remote deployments: what becomes of jobs and calls |
| `MC...` | the instances of each for TLC |
| `...Proofs` | the inductive invariant of each and its theorems |

How the modules fit together. They are composed by what one takes from another, not in one state
space: the product of any two would be out of reach, and they meet at few points.

- A flow run that `RemoteRun` starts (`children`, `ChildEnds`, `InlineEnds`) is a run of
  `DeploymentRun`, of which it uses that a run ends, as `EveryRunEnds` says, or never answers.
- A flow of `DeploymentRun` dispatches tasks (`Handles`, `Dispatch`, `TaskEnds`); what becomes of one
  is `TaskRun`. `CancelHandles` and `Settled` are its `FlowLeaves` and `FlowOver`: `FlowNotStuck`
  shows there that the wait `DeploymentRun` assumes to end does, if cancelled bodies end. The wait may
  itself be cancelled (`Cancelled` in `unwinding`, `SettlingCancelled`), and what it waited for then
  outlives the run, also in `SpanSink`.
- A body of `TaskRun` talks to a model through `ToolLoop`, whose calls of the model are `LlmCall`:
  `Returns` shows there that such a call ends, which `ToolLoop` assumes.
- Each of these runs in tracked spans. `SpanSink` is what becomes of their rows; the others take from
  it that a terminal row is stored or given up (`RowWritten` of `TaskRun`, `FlowReturns` of
  `DeploymentRun`). `SpanRecovery` is what happens to the rows it does not write.
- `SpanSink` implements `TerminalRecord`, by `Fate`, as a property of a run and as a theorem;
  `RemoteRun` implements `RemoteJobs`, as a theorem.

### SpanSink

One action is the code between two awaits. An insert is issued by one action (`Begin`, `Finish`,
`InsertAcked` when it pumps, `FlushBegins`, `FlushContinues`, `BatchSplit`) and answered by
another, so inserts of several spans, a pump and the flush interleave as the event loop lets them. The
flush of a run begins when the span of the run itself, `RunSpan`, has been left, wherever the spans
under it stand: a second cancellation ends the wait for cancelled tasks (`deployment/_helpers.py:280`,
`:285`), and they insert, park and pump beside the flush and after it.

| Model | Code |
|---|---|
| `pc[s]` | where the task that tracks span `s` stands in `track_span`: inserting the RUNNING row (`starting`), in the body (`running`), saving output artifacts (`encoding`), inserting the terminal row (`inserting`), pumping a batch (`pumping`), out (`finished`; `unopened`, `unclosed` when a cancellation skipped `on_span_finished`) |
| `buffer`, `bytes`, `attempts` | `_buffer` (an ordered dict, here a sequence of spans), `_buffer_bytes`, `_BufferedSpan.attempts` |
| `drain` | the batches in the frames of `_resolve_batch`: the head is at the database, the others are the second halves its callers still hold |
| `draining`, `flush` | `_draining`; where `flush_pending` stands: not begun, a batch at the database, its backoff, or how it returned (`skipped` at once, with nothing to do or a drain under way; `emptied`; its budget over) |
| `started`, `durable` | spans whose RUNNING or terminal row the store has |
| `degraded` | `recording_degraded` of the run |
| `dropped`, `poisoned` | the rows `_dropped_terminal` and `_poisoned_terminal` count |
| `stranded` | no variable of the code: the rows a cancelled split leaves nowhere |

The store is a boolean `up` that the environment toggles at any time, and a set `Poison` of spans
whose terminal row it refuses, with an error `is_transient_db_error` calls transient or not
(`PoisonErrors`). An insert that fails or is cancelled may have landed. The size of a row is given
by `Bytes`, a function on sets of spans assumed to be additive, which states `_approx_row_bytes`
and its sum without recursion.

Abstracted: the contents of rows, so also that parked rows are stripped of their payload; time, so
that every timer (the 5 s shield of `track_span`, the 30 s budget of the flush, its backoff) may
fire at any moment; the version of a row. The recursion of `_resolve_batch` is the stack `drain`.

### TerminalRecord

Each span's row is open, pending, stored or abandoned. Only a run marked degraded abandons rows; a
stored row stays stored; an abandoned row is not taken up again, although an insert already issued
may still store it. `Fate` in `SpanSink` is the refinement mapping.

### LlmCall

An action is the code between two awaits: `Begin` creates the `_CallContext` and issues the first
attempt; `Answer`, `Fail` and `Reject` are the ways an awaited attempt ends, with everything
`_try_one_model` and `generate` do until the next await; `Retry` ends the delay before the next
attempt of the same model; `Expire` is the passing of `WORKLOAD_SKIP_SECONDS`.

| Model | Code |
|---|---|
| `pc[c]` | the call awaits an attempt (`calling`), a delay (`sleeping`), or has returned |
| `hop`, `try`, `made` | the model of `model_chain()`, `attempt_index`, `attempt_number` |
| `last` | `last_error` with the headers it came with, while no attempt is out |
| `stripped`, `pinned` | `strip_signatures`, `stripped_deployment_id` |
| `repairing` | the attempt was built by `_with_structured_retry_prompt` |
| `skip`, `exhausted` | `GroupSkipList.ids`, `.exhausted` |
| `workload` | the `WorkloadState` of the execution; a time is reduced to never, now or over |
| `serves`, `proxy` | what the checks before an attempt find of each model; `aipl_proxy` |

A failure is a record: its kind says which `except` clause of `_execute_attempt` takes it, its class
is a representative of those `_aipl.route` treats alike, then the deployment and the group status of
the headers. `Possible` restricts them to what can happen with or without the proxy. Abstracted: the
contents of requests, the length of delays, traces, and `_PrevAttempt`, which only labels attempts.

### SpanRecovery

`recover_orphaned_spans` for one deployment. A pass stops at every await: it lists running roots
(`Begin`), reads the activity of the root and asks Prefect (`Look`), reads the tree and marks it FAILED
span by span (`Read`, `MarkFailed`), lists the deployments (`List`), reads the topology and marks
descendants LOST (`Fetch`, `MarkLost`). `Abort` is the end of a pass whose database call fails; a pass
whose process is killed leaves the same rows. A failed read of the activity leaves the root alone or, if
the error is one that `_DATABASE_READ_ERRORS` does not name, as those of ClickHouse are, ends the pass.

| Model | Code |
|---|---|
| `rows[s]` | the rows of a span in the store: status, version, and whether the inputs are there |
| `backend` | memory and filesystem stores keep one row, the first of the highest version (`newest row`); ClickHouse keeps all until it merges them (`all rows`), and a reader takes one of the highest version |
| `work[s]`, `stamp[s]` | what the worker did about a span: opened, owes a terminal row, stored it, or never will (`lost`: crash, cancellation, or a row that `SpanSink` gave up); the version of that row |
| `flow`, `up` | the state Prefect reports; which of the database and Prefect answer |
| `age` | whether the root ended within the grace of 300 s, is due, or past the window of 48 h |
| `pass[p]` | where a pass stands, the age when it took its time, the rows it read and has to mark |

The RUNNING row has version 1 and terminal rows a version of `Stamps`: only their order matters, and
`_next_span_version` puts a terminal row beyond the RUNNING one. A pass in `Manual` has no Prefect client and
may find the last activity too old at any time. Prefect may call a flow run failed (cancelled, say) while
its worker goes on, and a span may be opened, closed or lost in any order under an open root. Not found,
missing link, running, completed and transient answers have one effect on the rows, none, and are merged
where the code only logs them differently. Abstracted: several deployments in one pass (they share no
row) and the limit of 1000 roots listed.

### ToolLoop

`execute_interaction`, `_tool_loop` and `_execute_tools`, and `Tool.execute`. An action is the code
between two awaits. The model answers (`CallsTools`, `AnswersAtOnce`); the tools of a round run
together under `gather` and each of their attempts ends, fails or is timed out (`ToolEnds`,
`AttemptFails`); the next round begins (`NextRound`), or the last answer is forced without tools
(`RoundsOver`, `Synthesized`); the answer is accepted, or refused and repaired (`Repaired`).

| Model | Code |
|---|---|
| `pc` | awaiting the model, the tools or the forced answer, validating, done or failed |
| `attempt`, `round`, `strays` | `attempt_index`, `round_index`, `consecutive_unknown_rounds` |
| `messages`, `accumulated` | the list sent with every call, after the caller's own, and `accumulated_messages`, what later turns are told |
| `remaining`, `executed` | `remaining_calls` of the metered tools; no variable of the code: how often each was started |
| `calls`, `tries`, `broken` | the calls of the last answer, the attempt of each that runs, a tool raised what is no result |

An entry of a list is its kind, the names it calls and the position of the call it answers. The
instruction that forces the answer stays in `messages` when a repair goes on with it, although the
repair offers tools again: `TranscriptsAgree` says only that later turns do not see it. Abstracted:
an interaction without tools (`LlmCall` with repairs), the substitution of URLs, spans, and the
deployment a repair prefers.

### TaskRun

A flow dispatches tasks, awaits them through `collect_tasks` and leaves; each invocation goes through
`_execute_invocation` of `pipeline/_task.py`. A task told to cancel (`dying`) takes no other step before
`CancelledError` is raised at the await where it stands, and what that does depends on the await:
before the span (`CancelledBefore`), in its body (`CancelledInside`), while it is opened or closed
(`CancelledAtSpan`), while an event is published (`CancelledAfter`). The flow's clean-up cancels what
is left, waits, cancels again and waits until all have ended (`FlowOver`); either wait may be cancelled
(`SettlingCancelled`), and then invocations outlive the flow.

| Model | Code |
|---|---|
| `pc[t]` | the await where the invocation stands, from the lookup of a cached completion to the event of its end |
| `attempt[t]`, `shas[t]`, `result[t]` | the attempt of `_run_with_retries`; the output hashes of the span found, or of its own; the documents |
| `span[t]`, `told[t]` | the status of its TASK span; `task.completed` and `task.failed` that were published |
| `slots`, `available` | holders of a slot of the limit; `prefect_available` of the run |
| `stored`, `completion`, `returned` | documents of which record and blobs are stored; the newest completed span of a cache key; no variable of the code: what bodies returned under it |
| `flow`, `handles`, `pending`, `harvest`, `completed`, `incomplete`, `late` | where the flow stands, the sets of `collect_tasks` and its batch, the deadline |

Documents are identities and a result is a set of them. The environment expires completed spans and
loses blobs. Bodies do not swallow a cancellation; the `gather` of the clean-up has no timeout and would
wait for ever for one that does. Abstracted: ATTEMPT spans, estimates of progress,
how a cache key is computed, rate limits.

### DeploymentRun

Runs of one plan that follow each other over one database. A run may raise, be cancelled at any await
or die (`Crash`), and the next takes the completed flows it finds, from its first step or a later one
(`start_step`). An action is the code between two awaits of `_run_tracked_deployment` and `_run_core`.

| Model | Code |
|---|---|
| `phase`, `step`, `attempt` | where the run stands: the loop, the hydration of a cached span, a flow, its backoff, the wait for cancelled tasks, the end |
| `range` | `start_step`, `end_step`, and whether completed flows are reused |
| `docs`, `stopped` | `accumulated_docs`, `stopped_groups` |
| `found` | output hashes of the cached span just read, or what the flow returned |
| `live`, `dying` | `active_task_handles` that run, and those told to cancel |
| `record`, `told` | the deployment span; the ends that were published, which may be both |
| `completion`, `readable`, `degraded` | completed FLOW spans, documents the database gives back, whether the outputs of a flow were blanked because they could not be saved |

A plan is a constant: the document parameter of each flow, gates, groups, and `Output(k, a)`, what flow
`k` returns for an argument, so flows are deterministic. `Uninterrupted` is the blackboard of a run that
nothing disturbs, step by step. Its recursion is an assumption, which TLC checks for the instance and
the proofs use. `BySha` is the order in which a span keeps the hashes of its outputs. Abstracted:
several parameters of one flow, gates by equality (folded into `Flag`), summaries, the contents of
events, validation of the plan.

### RemoteRun

Calls of `RemoteDeployment.run`, made by flows of one run: span and events, the submission under an
idempotency key with retries, the configured server if the active one does not know the deployment,
polls with a limit on time and on errors in a row, the result.

| Model | Code |
|---|---|
| `pc[c]`, `server[c]`, `tries[c]`, `errors[c]`, `late[c]` | where the call stands, the client it talks through, `attempt_number`, `consecutive_errors`, `max_poll_seconds` over |
| `input[c]`, `Fingerprint`, `Key(c)` | documents and options of the call; what `_compute_input_fingerprint` keeps of them; the key, the run id with a digest of that |
| `inline`, `deployed` | the deployment runs in this process; the servers that know it |
| `children` | flow runs on the servers, external |
| `span[c]`, `told[c]` | its TASK span, its published end |

Prefect is an environment that keeps one flow run per key and may do what it was asked although the
answer is lost. Nothing makes the key injective: the fingerprint sorts the hashes of the documents, so
only how often each occurs is left of them, and drops the options of the command line (`CliFields`) and
those that are None; of its hash 8 hex digits are kept (`Digest`, any function). Inputs with one key
are `Alike`: they share a flow run and its result. The servers' deployments do not change while the
calls last. A call repeated after its flow run failed gets the same failed flow run: the key tells
inputs apart, not attempts.

### RemoteJobs

What a caller may rely on without knowing of servers, submissions and polls: the job of a key is
started at most once, by a call that is open, and ends at most once; a call ends once, and with a
result only if the job of its key has completed, or the deployment ran in the caller's process. That
the inputs of a job are those of the call is not promised: whoever starts the job of a key chooses them,
among the inputs that have it. A call may raise at any time, whatever becomes of the job: that is all
the code promises of failures. The mapping, in `RemoteRunProofs`: the job of a key is the state of its
flow run, on whichever server; a call is open until it returns or raises.

## Runs

| Run | Checks | Result |
|---|---|---|
| `sink` | `TypeOK`, `BufferBounded`, `OnePlace`, `OneDrain`, `AccountedFor`, `DegradedTellsTheTruth`, `FlushSettles`, `RecordSpec` (refinement), `FinishReturns`, `FlushReturns` | hold |
| `sink_stranded` | `NothingStranded` | violated |
| `recovery_race` | `TypeOK`, `LateTerminalWins`, `RootMarkedFirst` | hold |
| `recovery_settles` | `EveryOrphanSettles` | holds |
| `recovery_inputs` | `InputsKept` | violated |
| `llm_chain` | `TypeOK`, `WithinBudget`, `EndsAtTheEnd`, `FreshModel`, `LatchHolds`, `Returns` | hold |
| `llm_shared` | `DemotionServed` | holds |
| `tool_loop` | `TypeOK`, `BudgetKept`, `TranscriptsAgree`, `CallsAnswered`, `InteractionEnds` | hold |
| `task` | `TypeOK`, `ReusedAsReturned`, `EventsAgree`, `ThrottledWhileAvailable`, `BatchSplits`, `FlowNotStuck` | hold |
| `deployment` | `TypeOK`, `ResumedAsUninterrupted`, `NoStragglers`, `EveryRunEnds` | hold |
| `deployment_resume` | `ResumeChangesNothing` | violated |
| `remote` | `TypeOK`, `OneChild`, `OwnResult`, `CallEnds` | hold |

### Bounds

`sink` has three spans, one refused by the store and one twice the size of the others, caps of three
rows and four bytes, batches of three and two attempts: the byte cap evicts, a batch is split into a
stack of two, a pump overlaps the inserts of two other spans, a row is quarantined after failing in
company and alone, and the two spans that are not the run's go on while it is flushed. Three rows never
exceed the cap on rows, which TLC therefore does not reach; the proofs cover both caps. `attempts` is
bounded by the code's own limit, so that no bound is added. No symmetry, which liveness forbids.

`llm_chain` has one call, three models (a first, a last and one between), two retries, so that a
transient failure can come between a rejected signature and the attempt that must still be stripped,
two deployments, so that a pin can move, and for each model the cases that it cannot serve the call or
finds the payload too large. `ChainFailures` has a failure for each way the code treats one.
`llm_shared` has two calls and one deployment that both use, demoted after two bad samples as in the
code, so that a success can come before, during and after a demotion. Sample counts beyond the
threshold are merged, as the code only compares them with it; no other bound is added.

The recovery runs have a root and one descendant, on either kind of store, and the two versions of a
terminal row that matter: the one reconciliation takes and the next. In `recovery_race` two overlapping
wall-clock passes, which may act at any moment on a worker that is alive, meet no failure; the two are
interchangeable and reduced by symmetry. In `recovery_settles` one pass asks Prefect while the database
and Prefect fail and come back at will. A pass that ends may begin again, so both cover any number of
passes one after another. `LateTerminalWins` excludes the tie, in which it is false: a terminal row whose
clock did not advance beyond the RUNNING row's loses to a reconciled row stored first.

`tool_loop` has three rounds, the limit of two strays in a row, one retry of a tool and one repair,
a tool with a budget of two, one without, and a name that is none. Answers call nothing, one tool, the
metered tool twice, or an unknown and a known one: a round can exceed what is left of the budget, the
budget can be used up over rounds and a repair, and the rounds can end in either way.

`task` has two invocations with one cache key, one of which returns a document of the other's result,
two attempts, one slot, a deadline and one cancellation of a handle besides the clean-up's: each can
find the other's completion whole, in part, or about to be replaced, while both want the slot.

`deployment` has a plan of three flows in which the first returns two documents of one class, of which the
second takes the last, and the second returns a control document that stops the group of the third. A
document missing or swapped makes the second flow return another result. Runs start at the first or
last step, with and without reuse, any number of them one after another over one database; two
attempts of a flow, one task dispatched at a time and one cancellation from outside in each run, which
can come anywhere and may be followed by any other failure.

`remote` has two calls and three pairs of inputs: one whose documents change places and whose step to
start with differs, which have one fingerprint; one with an option that is set or None, which have two;
and one whose fingerprints differ and whose digests are the same. There are two servers of which either,
both or none know the deployment, two submissions to each and a limit of two failed polls in a row: a
submission whose answer is lost can be repeated, by the same call and by the other, after the flow run
has ended too.

Calls, interactions, flows and remote calls end, and no new ones are made: there deadlock is not
checked.

### What the violations show

They are disagreements between the code and what it says of itself; `findings` in `PROJECT.json` quotes
the lines.

- `NothingStranded`: a five-second shield that expires while the first half of a split batch is at the
  database loses the second half, which no buffer and no counter has.
- `InputsKept`: on ClickHouse, LOST rows are made from topology rows, whose payload is blank, and replace
  the rows that had it; the memory store, on which reconciliation is tested, returns full rows there.
- `ResumeChangesNothing`: a flow whose outputs could not be saved is COMPLETED with no output hashes,
  and the resumed run takes that for a step that returned nothing.

Met while modelling, and what the code does, without a text that promises otherwise: rows used up
their attempts in an outage and are quarantined although nothing is wrong with them; a cancellation that
arrives while output artifacts are saved leaves the span RUNNING until reconciliation; a rejected
signature whose headers say that the group is exhausted ends the call on its first model; the
instruction that forces an answer stays in the list a repair goes on with; a remote call repeated after
its flow run failed is answered with the same failure; a run whose `run.completed` is out when the
publishing is cancelled, or raises, publishes `run.failed` too (`deployment/base.py:654`, `:672`),
while its span stays completed; a flush that finds a span of the run pumping returns at once, and what
is still parked then is not waited for.

One text does promise otherwise, and no run is spent on it: the docstring of `_derive_remote_run_id`
(`deployment/remote.py:87`) says that different inputs produce different run ids. Documents in another
order, another `start`, or an unlucky digest do not, as the inputs of `remote` show; `OwnResult` and
`OneChild` say what holds instead.

### Fairness

- `SpanSink`: weak fairness of the answer to a span's insert and of the drain's next step: each waits for
  an insert that returns or for a timer that fires, `move_on_after` for a span and `asyncio.timeout` for
  the flush; and of the next turn of the flush loop, an `asyncio.sleep`. Nothing of the database, of the
  body of a span or of the budget of the flush between its batches: `FlushReturns` holds although that
  timer may never fire, because attempts run out.
- `LlmCall`: weak fairness of each call's next step: the watchdog bounds an attempt and a delay ends.
  Nothing of the expiry of a demotion, nor that a call begins.
- `SpanRecovery`: somebody runs `ai-trace recover` again and again, a pass goes on, and the grace passes.
  The worker, Prefect and the services owe nothing; `EveryOrphanSettles` speaks of the behaviours in which
  the services come back for good before the window of the root has passed.
- `ToolLoop`: weak fairness of its steps: a call of the model ends (`LlmCall`) and an attempt of a tool is
  timed out.
- `TaskRun`: weak fairness of the steps of `collect_tasks`, of the deadline, of the end of the clean-up, and
  that an invocation that was cancelled or has failed closes its span and ends. Nothing of bodies, which
  may run for ever unless cancelled.
- `DeploymentRun`: weak fairness of the run's next step, and that a cancelled task ends. A flow's body is
  one of these steps: `EveryRunEnds` says that nothing but a body keeps a run.
- `RemoteRun`: weak fairness of each call's next step (requests time out) and of the passing of
  `max_poll_seconds`. The flow run owes nothing.

## Proofs

`SpanSinkProofs` proves, for any set of spans, sizes, caps and attempt limit that satisfy the
assumptions of `SpanSink`: `TypeCorrect`, `Bounded`, `NoDuplicates`, `DrainsExclude`,
`NoSilentLoss` and `HonestMark`, that is `Spec => []P` for `TypeOK`, `BufferBounded`, `OnePlace`,
`OneDrain`, `AccountedFor` and `DegradedTellsTheTruth`; the action properties `FlushSettles` and
`LostStaysLost` (`FlushLeavesNone`, `LostForGood`); and `Implements`, that is `Spec => RecordSpec`.

The inductive invariant `Inv` joins seven parts, none inductive alone: `OtherTypes`; `Queues` (the
buffer and the drain hold sequences without repetition, disjoint from each other, within the caps, with
the exact byte count); `OneDrain`; `Places` (a queued or stored row
belongs to a span past its finish, so that parking never meets its own row); `LostPlaces` (a row given
up is in no queue and its span has finished); `AccountedFor`; `DegradedTellsTheTruth`. Preservation is
proved in two layers: for each action, a lemma `...Moves` says where rows go (between buffer, drain,
store and counters), from lemmas about cutting and joining sequences and the additivity of `Bytes`; a
lemma `...Advances` says how phases and flags move; `StepLemma` derives the invariant from the two. The
same two layers give `LostForGood` and, with `FateLemma` on the refinement mapping, that a step moves
each fate as `TerminalRecord` allows (`FateMoves`). `FlushLeavesNone` says what the flush has done when
it returns before its budget is over, spans that go on beside it or not: the row of every span that
has finished is stored or given up. It admits one exception, which the code has: the flush returned at
once because a span of the run was pumping. `DrainsEnd` and `FlushEnds` are the progress of drains and of
the flush (below), by the finite sets `Joined` (pairs of rows that share a batch: a split makes it
smaller, and so does a batch that is let go of), `Work` (queued rows with the attempts they have left)
and, for the flush, `Ahead` (the steps that spans beside it may still take, which can give it more
work); they need `DrainInv`, that no drain holds an empty batch. TLC evaluates the conjuncts of `Inv`
that are properties; the others were found by the proof.

`LlmCallProofs` proves, for any calls, chain, retries, threshold and failures that satisfy the
assumptions of `LlmCall`: `TypeCorrect`, `BudgetHolds`, `NoEarlyEnd` and `ModelsStartFresh`, that is
`Spec => []P` for `TypeOK`, `WithinBudget`, `EndsAtTheEnd` and `FreshModel`, and the action properties
`LatchHolds`, `SkipGrows` and `DemotionServed` (`LatchIsKept`, `SkipsAreKept`, `DemotionsRunTheirTime`).
The invariant is `TypeOK` and `CallInv` of each call. `WithinBudget` is not inductive: `Counted` says
where within the budget each phase stands (the attempts of the models in front, plus `try`), and
`EndsAtTheEnd` needs that a call under way never holds an exhausted group, for otherwise a transient
failure of a model in the middle would end the call. `CallsComeToAnEnd` is the progress of calls
(below). The failures are a constant, of which the proofs
use only that an invalid answer carries no headers.

`SpanRecoveryProofs` proves, for any spans, passes, kinds of store and versions that satisfy the
assumptions of `SpanRecovery`: `TypeCorrect`, `LateRowsWin` and `RootsComeFirst`, that is `Spec => []P` for
`TypeOK`, `LateTerminalWins` and `RootMarkedFirst`. The invariant says which versions the rows of each
status have (`Sound`), that a stored terminal row leaves a row at least as high (`Stored`), that a
reconciled row exists only when the root has a row beyond RUNNING (`Marked`, `High`), and what a pass knows
of the root where it stands (`PassInv`). Both kinds of store meet in one statement, `Updated`: whatever an
insert or a merge drops, the highest version stays. `LateTerminalWins` is not inductive, since which row is
newest depends on all of them; with `Sound`, a version that high can only be the worker's.
`OffersLemma` says what any step may offer the store: the two rows of the worker, or one made from a row
that a pass had to mark. Two theorems follow from it. `SpansStayOver` (`NeverReopens`): a span that every
reader sees as over stays so, whatever late RUNNING row, stale pass or merge of equal versions comes.
`InputsSurvive` (`KeptInMemory`): the stores that keep one row per span never lose inputs to a pass, by
the invariant `Intact` of the rows and of what passes have read; so what `recovery_inputs` finds is the
blank topology of ClickHouse and nothing else.

`ToolLoopProofs` proves, for any tools, budgets, answers and limits that satisfy the assumptions of
`ToolLoop`: `TypeCorrect`, `BudgetHolds`, `AnswersCalls` and `LaterTurnsAgree`, that is `Spec => []P`
for `TypeOK`, `BudgetKept`, `CallsAnswered` and `TranscriptsAgree`. The invariant adds `Accounted` (what
was started and what remains of a budget add up to it), `Settled` (the list is answered up to its last
answer, which a round is about to settle or which was forced) and `Bounded`. The step that needs an
argument is a round: the calls of one tool that run are the first so many of it, so their number is at
most what remains (`StartedWithin`). `TranscriptsAgree` compares a list with another that leaves entries
out, which is recursion over data. `Unsteered` is a recursive function, and that it exists
(`UptoExists`) and what it does to a list with one more entry (`UnsteeredAppend`) is proved from the
smallest number for which it would fail, as a set of numbers, since the induction theorems cannot be
instantiated. The conjunct `Agreed` says when the two lists are equal and when the later one is an
answer behind. `AlwaysCloser` is the progress of interactions.

`TaskRunProofs` proves, for any invocations, keys, documents, limit and attempts that satisfy the
assumptions of `TaskRun`: `TypeCorrect`, `ReusesWhatWasReturned`, `EventsTellTheSpan`,
`BodiesWithinLimit` and `BatchAccountsForAll`, that is `Spec => []P` for `TypeOK`, `ReusedAsReturned`,
`EventsAgree`, `ThrottledWhileAvailable` and `BatchSplits`. The invariant has a part for each: `Keyed`
(who has a cache key, and hashes at hand), `Whole` (whatever is found, held or stored under a key was
returned by a body of it, a blanked completion apart), `Told` (how the span was closed, by where the
invocation stands), `Throttled`, and `Batch` (each handle is in one of the four sets, in the completed
one only if it returned). None of the properties is inductive alone. `CancellationIsFinal` adds what a
cancellation leaves behind: an invocation in which it was raised makes no further attempt and does not
return (`NoSecondWind`), and what outlives its flow, or is waited for by it, only closes its span and
tells of its failure (`OnlyEnds`), because all of it was told to stop (`AllTold`).
`InvocationsComeToAnEnd` and `BatchesComeToAnEnd` are the progress of both.

`DeploymentRunProofs` proves, for any plan, gates, flows and documents that satisfy the assumptions of
`DeploymentRun`: `TypeCorrect`, `ResumesAsUninterrupted`, `RunsInRange` and `LeavesNothingRunning`, that
is `TypeOK`, `ResumedAsUninterrupted`, `FlowsInRange` and the action property `NoStragglers`. The heart
of the invariant is `Clean`: every completion in the database is what the flow returns on the
undisturbed blackboard, and so is whatever the run has read or its flow returned. It holds as long as no
flow's outputs were blanked (`degraded`) and the order in which hashes are stored is the order in which
flows return them (`OrderKept`). Both conditions are necessary. Without the first, `deployment_resume`
is the counterexample; without the second, two documents of one class that are stored in the other order
change what the next flow takes, as that run finds with `BySha <- Swapped` even when nothing was
blanked. `Idle`, `Placed` and `Quiet` say what a run may hold where it stands. `EndsAreTrue` says of
every run that what is published of its end bears out what is recorded (`EndsAgree`: `run.completed`
only of a completed run, `run.failed` only of one that has ended), and that neither comes early
(`Untold`). `RunsComeToAnEnd` is the progress of runs.

`RemoteRunProofs` proves, for any calls, inputs, limits and digest, of which nothing is assumed:
`TypeCorrect`, `StartsOnce` and `ReturnsItsOwn`, that is `Spec => []P` for `TypeOK`, `OneChild` and
`OwnResult`. The invariant: a server has one flow run per key and only if it knows the deployment
(`Placed`); the configured server is asked only if the active one does not (`SecondChoice`), so that a
lost answer can never start a second flow run; what a call returns was earned (`Own`); a submission
waits for its next attempt only if it has one (`Counted`). `CallsComeToAnEnd` is the progress of calls.
`ImplementsJobs` is the refinement of `RemoteJobs` (`Spec => JobsSpec`). It needs that a key has one
flow run, on whichever server (`OnePerKey`), without which the state of a job would depend on which of
two is looked at (`JobIs`), and `Elsewhere`: no call talks to a server when the deployment runs in its
own process, or it could start a job beside the run. `StepEffect` sorts the steps by what they are to
`RemoteJobs`: the end of one call, the start of one job, the end of one job, or a stutter.

Progress. That every operation ends is a liveness property and stays with TLC, but its safety core is
proved, for all values of the constants: no step of an operation leaves it as far from its end as it was.
`DrainsEnd`, `FlushEnds`, `AlwaysCloser`, `InvocationsComeToAnEnd`, `BatchesComeToAnEnd`,
`RunsComeToAnEnd` and the two `CallsComeToAnEnd` are action properties that say that each step gets further
along an order that is lexicographic and bounded (models, then attempts, then phases; sets, where what is
left is not a number), and that the steps of others do not move it back. With the bounds of `TypeOK` there
are only finitely many such steps. What TLC adds on its instances is that a step is always taken, for
which fairness and ENABLED are needed. One step brings nothing nearer, and is named in its theorem: a remote
call polls again (`PollsAgain`) while `max_poll_seconds` are not over.

Some theorems state properties that no run repeats: those of progress, `LostForGood` (`LostStaysLost`),
`SkipsAreKept` (`SkipGrows`), `RunsInRange` (`FlowsInRange`), `EndsAreTrue`, `CancellationIsFinal`,
`SpansStayOver`, `InputsSurvive` and `ImplementsJobs`.

Every safety property the passing runs check is proved. Only model-checked: the liveness properties
(`FinishReturns`, `FlushReturns`, `Returns`, `EveryOrphanSettles`, `InteractionEnds`, `FlowNotStuck`,
`EveryRunEnds`, `CallEnds`), since TLAPS has no support for ENABLED and fairness; and what the runs that
expect a violation show, which is a behaviour and not a theorem.

## What could come next

The components left out whose state interleaves, in the order of what they would add:

1. The stream of one attempt and its watchdog: the race of the ticker with the end of the stream.
2. The execution log: a flush cancelled half-way, sequence numbers that start again.
3. The ClickHouse client: a client closed by one task while others use it, and the circuit.
4. `SpanRecovery` composed with `SpanSink`: which rows the sink gives up reconciliation finds.

## Not modelled

- The stream and its watchdog compare clocks and token counts; `LlmCall` takes either verdict as a
  possible end of an attempt.
- The execution log is a bounded buffer and a flush loop on the pattern of `SpanSink`; losing a log
  changes no run.
- The ClickHouse client: its users see a database that is up, down or slow, which their modules leave
  to the environment. Of the stores, only what an insert keeps and a reader takes is modelled, not
  files, indexes, logs and totals.
- Publishing is part of the modules that publish; the reconstruction of events from rows is a function
  of what they stored. `as_task_completed` and the `safe_gather` functions are one wait each.
- Text processing, schemas, transport, request assembly, prompt compilation and contracts, packaging,
  command lines and rendering have no state to interleave, and identities suffice for the contents of
  documents and messages. They are most of the lines of the repository.
- Debug sessions, replay and snapshots drive the parts above.

Prefect, providers and databases appear only as environments whose answers the code handles.
