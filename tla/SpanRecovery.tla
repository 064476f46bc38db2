---------------------------- MODULE SpanRecovery ----------------------------
(***************************************************************************)
(* Reconciliation of the spans of one deployment whose worker may be gone  *)
(* (observability/_recovery.py): passes that may overlap read the rows of  *)
(* the deployment and insert newer ones, while the worker, if it is not    *)
(* dead after all, still writes its own and the database and Prefect come  *)
(* and go. The stores differ in what an insert does to older rows.         *)
(*                                                                         *)
(* An action of a pass is the code between two awaits.                     *)
(***************************************************************************)
EXTENDS Integers

CONSTANTS
    Spans, Root,   \* the spans of the deployment and its root
    Passes,        \* calls of recover_orphaned_spans
    Manual,        \* those made without a Prefect client, on wall-clock age
    Backends,      \* the kinds of store: "newest row", "all rows"
    Stamps,        \* the versions the clock may give to a terminal row
    Failing        \* which of the database and Prefect may stop answering

Opened == 1  \* the version of a RUNNING row

ASSUME RootAssumption == Root \in Spans
ASSUME ManualAssumption == Manual \subseteq Passes
ASSUME BackendAssumption == Backends \subseteq {"newest row", "all rows"}
ASSUME FailingAssumption == Failing \subseteq {"database", "prefect"}
ASSUME StampAssumption == Stamps \subseteq {v \in Nat : v > Opened}  \* _next_span_version

VARIABLES
    backend,  \* the store in use
    rows,     \* rows[s]: the rows the store has of s
    up,       \* which of the database and Prefect answer (environment)
    work,     \* work[s]: what the worker has done about s
    stamp,    \* stamp[s]: the version of its terminal row
    flow,     \* the state Prefect reports of the flow run
    age,      \* how long ago the root ended: within the grace, due, past the window
    pass      \* pass[p]: where the pass is, the age when it began, the rows to mark

worker == <<work, stamp>>
vars == <<backend, rows, up, worker, flow, age, pass>>

Services == {"database", "prefect"}
Statuses == {"running", "ended", "failed", "lost"}  \* "ended": any the worker records at the end
\* inputs: unless a pass blanked them (what the worker's sink strips is its own choice).
Row == [status : Statuses, version : Nat, inputs : BOOLEAN]
Ages == {"fresh", "due", "past"}
Places == {"idle", "looking", "reading", "failing", "listing", "fetching", "losing"}
Pass == [at : Places, began : Ages, todo : SUBSET [span : Spans, row : Row]]

Init ==
    /\ backend \in Backends /\ rows = [s \in Spans |-> {}] /\ up = Services
    /\ work = [s \in Spans |-> "idle"] /\ stamp = [s \in Spans |-> Opened]
    /\ flow = "running" /\ age = "fresh"
    /\ pass = [p \in Passes |-> [at |-> "idle", began |-> "fresh", todo |-> {}]]

-----------------------------------------------------------------------------
(* The store.                                                              *)

\* The rows of s a reader may take for its latest: ClickHouse has several when
\* versions tie.
Newest(s) == {r \in rows[s] : \A q \in rows[s] : q.version <= r.version}

\* The rows of a span after r is inserted.
Inserted(R, r) ==
    IF backend = "all rows" THEN R \cup {r}
    ELSE IF \E q \in R : q.version >= r.version THEN R ELSE {r}

Insert(s, r) == rows' = [rows EXCEPT ![s] = Inserted(@, r)]

\* An insert that fails may have landed.
InsertFails(s, r) == Insert(s, r) \/ UNCHANGED rows

Answers(service) == service \in up

\* ReplacingMergeTree replaces the rows of a span by one of its newest.
Merge(s) ==
    /\ backend = "all rows"
    /\ \E r \in Newest(s) : rows' = [rows EXCEPT ![s] = {r}]
    /\ UNCHANGED <<backend, up, worker, flow, age, pass>>

\* The database or Prefect stops answering, or answers again.
Toggle ==
    /\ \E x \in Failing : up' = IF x \in up THEN up \ {x} ELSE up \cup {x}
    /\ UNCHANGED <<backend, rows, worker, flow, age, pass>>

\* Mutant: a root the reconciler itself failed does not count as ended.
EndedByWorker(r) == r.status = "ended"

\* _TERMINAL_ROOT_STATUSES.
Ended(r) == r.status \in {"ended", "failed"}

\* Time passes for the root that ended; a new row of it may have a later end.
Wait ==
    /\ \/ age = "fresh" /\ (\E r \in Newest(Root) : Ended(r)) /\ age' = "due"
       \/ age = "due" /\ age' = "past"
    /\ UNCHANGED <<backend, rows, up, worker, flow, pass>>

RootEnds(s) == IF s = Root THEN age' \in {age, "fresh"} ELSE UNCHANGED age

-----------------------------------------------------------------------------
(* The worker, as SpanSink leaves it to the store.                         *)

Opening == [status |-> "running", version |-> Opened, inputs |-> TRUE]
Closing(s) == [status |-> "ended", version |-> stamp[s], inputs |-> TRUE]

\* on_span_started inserts the RUNNING row, once.
Open(s) ==
    /\ work[s] = "idle" /\ (s # Root => work[Root] = "open")
    /\ work' = [work EXCEPT ![s] = "open"]
    /\ \/ Answers("database") /\ Insert(s, Opening)
       \/ ~Answers("database") /\ InsertFails(s, Opening)
    /\ UNCHANGED <<backend, up, stamp, flow, age, pass>>

\* on_span_finished makes the terminal row.
Close(s) ==
    /\ work[s] = "open"
    /\ work' = [work EXCEPT ![s] = "owed"]
    /\ \E v \in Stamps : stamp' = [stamp EXCEPT ![s] = v]
    /\ UNCHANGED <<backend, rows, up, flow, age, pass>>

\* The terminal row is inserted, by the span's task or a drain; a failed insert
\* leaves it owed.
Write(s) ==
    /\ work[s] = "owed"
    /\ \/ /\ Answers("database") /\ Insert(s, Closing(s))
          /\ work' = [work EXCEPT ![s] = "stored"]
       \/ ~Answers("database") /\ InsertFails(s, Closing(s)) /\ UNCHANGED work
    /\ RootEnds(s)
    /\ UNCHANGED <<backend, up, stamp, flow, pass>>

\* The terminal row of s never comes: the process was killed, the span was left
\* without one, or the sink dropped, stranded or quarantined it.
Lose(s) ==
    /\ work[s] \in {"open", "owed"}
    /\ work' = [work EXCEPT ![s] = "lost"]
    /\ stamp' = [stamp EXCEPT ![s] = Opened]
    /\ UNCHANGED <<backend, rows, up, flow, age, pass>>

\* Prefect ends the flow run: failed, crashed or cancelled, though the process
\* may run on; or completed, which its worker reports after the root was left.
FlowEnds ==
    /\ flow = "running"
    /\ \/ flow' = "failed"
       \/ work[Root] \notin {"idle", "open"} /\ flow' = "completed"
    /\ UNCHANGED <<backend, rows, up, worker, age, pass>>

-----------------------------------------------------------------------------
(* A pass.                                                                 *)

Goes(p, place) == pass' = [pass EXCEPT ![p].at = place, ![p].todo = {}]

\* Mutant: a reconciled row takes the version after the next.
SkippedVersion(r, status) ==
    [status |-> status, version |-> r.version + 2, inputs |-> r.inputs]

\* The row that replaces the RUNNING row r.
Reconciled(r, status) == [status |-> status, version |-> r.version + 1, inputs |-> r.inputs]

\* list_running_deployment_roots.
Begin(p) ==
    /\ pass[p].at = "idle" /\ Answers("database")
    /\ \E place \in {"looking", "listing"} :
          /\ place = "looking" <=> \E r \in Newest(Root) : r.status = "running"
          /\ pass' = [pass EXCEPT ![p] = [at |-> place, began |-> age, todo |-> {}]]
    /\ UNCHANGED <<backend, rows, up, worker, flow, age>>

\* The activity of the root is read, and its age or Prefect's answer decides.  If the read
\* fails, the root is left alone, or the pass ends: a DatabaseError of the ClickHouse client
\* is none of _DATABASE_READ_ERRORS.
Look(p) ==
    /\ pass[p].at = "looking"
    /\ \/ /\ Answers("database")
          /\ p \in Manual \/ (Answers("prefect") /\ flow = "failed")
          /\ Goes(p, "reading")
       \/ /\ ~Answers("database") \/ p \in Manual \/ ~Answers("prefect") \/ flow # "failed"
          /\ Goes(p, "listing")
       \/ ~Answers("database") /\ Goes(p, "idle")
    /\ UNCHANGED <<backend, rows, up, worker, flow, age>>

\* Mutant: the end of the loop is missed.
MarksOn(p, todo, marking, after) ==
    pass' = [pass EXCEPT ![p].todo = todo, ![p].at = marking]

\* What a pass has left to mark, and where it goes when it is done.
Marks(p, todo, marking, after) ==
    pass' = [pass EXCEPT ![p].todo = todo, ![p].at = IF todo = {} THEN after ELSE marking]

Running(s) == {r \in Newest(s) : r.status = "running"}

\* The RUNNING rows read of the spans S.
Left(S) == UNION {{[span |-> s, row |-> r] : r \in Running(s)} : s \in S}

\* Mutant: in any order.
AnyFirst(todo) == todo

\* Trees are read in the order in which spans started: the root comes first.
First(todo) == {t \in todo : t.span = Root \/ \A u \in todo : u.span # Root}

\* _mark_root_failed reads the whole tree.
Read(p) ==
    /\ pass[p].at = "reading" /\ Answers("database")
    /\ Marks(p, Left(Spans), "failing", "listing")
    /\ UNCHANGED <<backend, rows, up, worker, flow, age>>

\* It marks one span, the root before the others.
MarkFailed(p) ==
    /\ pass[p].at = "failing" /\ Answers("database")
    /\ \E t \in First(pass[p].todo) :
          /\ Insert(t.span, Reconciled(t.row, "failed"))
          /\ Marks(p, pass[p].todo \ {t}, "failing", "listing")
          /\ RootEnds(t.span)
    /\ UNCHANGED <<backend, up, worker, flow>>

\* A listed root r has ended, long enough ago but within the window. The pass
\* measures its age against the time at which it began.
Due(p, r) == Ended(r) /\ "due" \in {pass[p].began, age}

\* _reconcile_terminal_root_descendants lists the deployments.
List(p) ==
    /\ pass[p].at = "listing" /\ Answers("database")
    /\ \/ (\E r \in Newest(Root) : Due(p, r)) /\ Goes(p, "fetching")
       \/ /\ \A r \in Newest(Root) : ~Ended(r) \/ pass[p].began # "due" \/ age # "due"
          /\ Goes(p, "idle")
    /\ UNCHANGED <<backend, rows, up, worker, flow, age>>

\* get_deployment_tree_topology: ClickHouse blanks the payload.
Topology(r) == IF backend = "all rows" THEN [r EXCEPT !.inputs = FALSE] ELSE r

\* _mark_running_descendants_lost reads the topology.
Fetch(p) ==
    /\ pass[p].at = "fetching" /\ Answers("database")
    /\ Marks(p, {[span |-> t.span, row |-> Topology(t.row)] : t \in Left(Spans \ {Root})},
             "losing", "idle")
    /\ UNCHANGED <<backend, rows, up, worker, flow, age>>

\* It marks one descendant.
MarkLost(p) ==
    /\ pass[p].at = "losing" /\ Answers("database")
    /\ \E t \in pass[p].todo :
          /\ Insert(t.span, Reconciled(t.row, "lost"))
          /\ Marks(p, pass[p].todo \ {t}, "losing", "idle")
    /\ UNCHANGED <<backend, up, worker, flow, age>>

\* A call to the database fails and ends the pass: a failed insert may have
\* landed. (A pass whose process is killed leaves the same rows.)
Abort(p) ==
    /\ pass[p].at \notin {"idle", "looking"} /\ ~Answers("database")
    /\ Goes(p, "idle")
    /\ \/ UNCHANGED <<rows, age>>
       \/ \E t \in First(pass[p].todo) :
             /\ \/ pass[p].at = "failing" /\ Insert(t.span, Reconciled(t.row, "failed"))
                \/ pass[p].at = "losing" /\ Insert(t.span, Reconciled(t.row, "lost"))
             /\ RootEnds(t.span)
    /\ UNCHANGED <<backend, up, worker, flow>>

PassStep(p) ==
    \/ Begin(p) \/ Look(p) \/ Read(p) \/ MarkFailed(p)
    \/ List(p) \/ Fetch(p) \/ MarkLost(p) \/ Abort(p)

WorkerStep == \E s \in Spans : Open(s) \/ Close(s) \/ Write(s) \/ Lose(s)

Next ==
    \/ WorkerStep \/ FlowEnds \/ Wait \/ Toggle
    \/ \E s \in Spans : Merge(s)
    \/ \E p \in Passes : PassStep(p)

Spec == Init /\ [][Next]_vars

\* Somebody runs recovery again and again, and time passes.
FairSpec ==
    /\ Spec
    /\ \A p \in Passes : WF_vars(PassStep(p))
    /\ WF_vars(age = "fresh" /\ Wait)

-----------------------------------------------------------------------------
(* Properties.                                                             *)

\* The state is well formed; a pass has rows to mark exactly while it marks.
TypeOK ==
    /\ backend \in Backends /\ rows \in [Spans -> SUBSET Row] /\ up \in SUBSET Services
    /\ work \in [Spans -> {"idle", "open", "owed", "stored", "lost"}]
    /\ stamp \in [Spans -> Nat] /\ flow \in {"running", "failed", "completed"}
    /\ age \in Ages /\ pass \in [Passes -> Pass]
    /\ \A p \in Passes : pass[p].todo # {} <=> pass[p].at \in {"failing", "losing"}

\* A late terminal row of the worker wins over what any pass has written or
\* will write of that span, in every store, whenever its version is beyond the
\* one reconciliation takes: the clock moved more than a nanosecond while the
\* span was open.
LateTerminalWins ==
    \A s \in Spans : work[s] = "stored" /\ stamp[s] > Opened + 1
                        => \A r \in Newest(s) : r.status = "ended"

Over(s) == rows[s] # {} /\ Running(s) = {}

\* A descendant is marked FAILED or LOST only once every reader sees the root as
\* over: the root is marked before the rest of its tree (a descendant's new end
\* would count as activity of the root), and a pass that found the root ended
\* is still right when it marks descendants, awaits later.
RootMarkedFirst ==
    \A s \in Spans : (\E r \in rows[s] : r.status \in {"failed", "lost"}) => Over(Root)

Settled == \A s \in Spans : Running(s) = {}

\* The worker will write no more, the root is recorded, and it has ended or
\* Prefect says that the run failed.
Orphaned == /\ \A s \in Spans : work[s] \in {"idle", "stored", "lost"}
            /\ rows[Root] # {}
            /\ flow = "failed" \/ \E r \in Newest(Root) : Ended(r)

\* If the services come back for good and recovery is run again before the
\* window of the root closes, no span of an orphaned deployment stays RUNNING,
\* wherever earlier passes were interrupted.
EveryOrphanSettles == <>[](up = Services) /\ [](age # "past") => (Orphaned ~> Settled)

\* The row by which a pass replaces a RUNNING row keeps the inputs of the span:
\* nobody takes them from a topology row, whose payload is blank.
InputsKept == \A s \in Spans : \A r \in Newest(s) : r.status \in {"failed", "lost"} => r.inputs
=============================================================================
