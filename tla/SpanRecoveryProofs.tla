------------------------- MODULE SpanRecoveryProofs -------------------------
(***************************************************************************)
(* What SpanRecovery guarantees for any spans, passes, stores and clock.   *)
(*                                                                         *)
(* An action changes the rows of one span at most, and the record of one   *)
(* pass. Updated says what an insert, a merge or nothing does to the rows, *)
(* whatever the store: rows may vanish, but never the highest version.     *)
(* From it RowsLemma derives the invariant of the rows, and PassesLemma    *)
(* that of the passes an action leaves alone.                              *)
(***************************************************************************)
EXTENDS SpanRecovery, TLAPS

USE RootAssumption, StampAssumption

\* Which versions rows have.
Sound(s, r) ==
    /\ r.status = "running" => r.version = Opened
    /\ r.status \in {"failed", "lost"} => r.version = Opened + 1
    /\ r.status = "ended" =>
          /\ r.version > Opened
          /\ work[s] = "lost" \/ (work[s] \in {"owed", "stored"} /\ r.version = stamp[s])

\* A row beyond the RUNNING one: readers see the root as over.
High == \E r \in rows[Root] : r.version > Opened

Stored(s) == work[s] = "stored" => \E r \in rows[s] : r.version >= stamp[s]

Marked(s) == (\E r \in rows[s] : r.status \in {"failed", "lost"}) => High

RowsTyped == rows \in [Spans -> SUBSET Row]

RowsInv == \A s \in Spans : (\A r \in rows[s] : Sound(s, r)) /\ Stored(s) /\ Marked(s)

\* Where a pass stands, and what it knows of the root.
PassInv(p) ==
    /\ \A t \in pass[p].todo : t.row.status = "running" /\ t.row.version = Opened
    /\ pass[p].at \in {"looking", "reading"} => rows[Root] # {}
    /\ pass[p].at = "failing" /\ (\A u \in pass[p].todo : u.span # Root) => High
    /\ pass[p].at \in {"fetching", "losing"} => High

Stamped == \A s \in Spans : work[s] \in {"owed", "stored"} => stamp[s] \in Stamps

Inv == TypeOK /\ Stamped /\ RowsInv /\ \A p \in Passes : PassInv(p)

\* The rows R are offered to the store as rows of s.
Updated(s, R) ==
    /\ rows' \in [Spans -> SUBSET Row]
    /\ \A x \in Spans \ {s} : rows'[x] = rows[x]
    /\ rows'[s] \subseteq rows[s] \cup R
    /\ \A q \in rows[s] \cup R : \E r \in rows'[s] : r.version >= q.version

-----------------------------------------------------------------------------
(* The store.                                                              *)

\* An insert never loses the highest version, in either store.
LEMMA InsertLemma ==
    ASSUME NEW s \in Spans, NEW r \in Row, RowsTyped, Insert(s, r)
    PROVE  Updated(s, {r})
<1>1. rows'[s] = Inserted(rows[s], r) /\ \A x \in Spans \ {s} : rows'[x] = rows[x]
    BY DEF Insert, RowsTyped
<1>2. Inserted(rows[s], r) \subseteq rows[s] \cup {r}
    BY DEF Inserted
<1>3. rows' \in [Spans -> SUBSET Row]
    BY <1>2 DEF Insert, RowsTyped
<1>4. ASSUME NEW q \in rows[s] \cup {r}
      PROVE  \E u \in Inserted(rows[s], r) : u.version >= q.version
    <2>1. \A u \in rows[s] \cup {r} : u.version \in Nat
        BY DEF Row, RowsTyped
    <2>2. q.version \in Nat /\ r.version \in Nat /\ q.version >= q.version
        BY <1>4, <2>1
    <2>3. CASE q \in Inserted(rows[s], r)
        BY <2>2, <2>3
    <2>4. CASE q \notin Inserted(rows[s], r)
        <3>1. CASE Inserted(rows[s], r) = {r}
            <4>1. q \in rows[s] /\ ~(q.version >= r.version)
                BY <1>4, <2>4, <3>1 DEF Inserted
            <4> QED BY <2>2, <3>1, <4>1
        <3>2. CASE Inserted(rows[s], r) # {r}
            <4>1. Inserted(rows[s], r) = rows[s] /\ \E u \in rows[s] : u.version >= r.version
                BY <1>4, <2>4, <3>2 DEF Inserted
            <4>2. q = r
                BY <1>4, <2>4, <4>1
            <4> QED BY <4>1, <4>2
        <3> QED BY <3>1, <3>2
    <2> QED BY <2>3, <2>4
<1> QED BY <1>1, <1>2, <1>3, <1>4 DEF Updated

\* Neither does a merge.
LEMMA MergeLemma ==
    ASSUME NEW s \in Spans, RowsTyped, Merge(s)
    PROVE  Updated(s, {})
<1>1. PICK r \in Newest(s) : rows' = [rows EXCEPT ![s] = {r}]
    BY DEF Merge
<1>2. rows'[s] = {r} /\ r \in rows[s] /\ \A q \in rows[s] : q.version <= r.version
    BY <1>1 DEF Newest, RowsTyped
<1>3. \A q \in rows[s] : q.version \in Nat
    BY DEF Row, RowsTyped
<1> QED BY <1>1, <1>2, <1>3 DEF Updated, RowsTyped

\* A step that leaves the rows alone offers none.
LEMMA RestLemma ==
    ASSUME NEW s \in Spans, RowsTyped, UNCHANGED rows
    PROVE  Updated(s, {})
<1>1. \A q \in rows[s] : q.version \in Nat
    BY DEF Row, RowsTyped
<1> QED BY <1>1 DEF Updated, RowsTyped

\* A failed insert is one or the other.
LEMMA InsertFailsLemma ==
    ASSUME NEW s \in Spans, NEW r \in Row, RowsTyped, InsertFails(s, r)
    PROVE  Updated(s, {}) \/ Updated(s, {r})
<1> QED BY InsertLemma, RestLemma DEF InsertFails

\* A root that is over stays so, and one that is recorded too.
LEMMA RootLemma ==
    ASSUME NEW s \in Spans, NEW R \in SUBSET Row, RowsTyped, Updated(s, R)
    PROVE  /\ High => High'
           /\ rows[Root] # {} => rows'[Root] # {}
           /\ s = Root /\ (\E r \in R : r.version > Opened) => High'
<1>1. \A x \in Spans : \A r \in rows[x] \cup rows'[x] : r.version \in Nat
    BY DEF Row, RowsTyped, Updated
<1>2. \A r \in R : r.version \in Nat
    BY DEF Row
<1>3. CASE s = Root
    BY <1>1, <1>2, <1>3 DEF Updated, High, Opened
<1>4. CASE s # Root
    BY <1>4 DEF Updated, High
<1> QED BY <1>3, <1>4

\* The invariant of the rows, from what the step offers and does to work.
LEMMA RowsLemma ==
    ASSUME NEW s \in Spans, NEW R \in SUBSET Row, RowsTyped, RowsInv, Updated(s, R),
           \A x \in Spans : \A r \in rows[x] : Sound(x, r)',
           \A r \in R : Sound(s, r)',
           \A r \in R : r.status \in {"failed", "lost"} => High \/ s = Root,
           \A x \in Spans : work'[x] = "stored" =>
              /\ stamp'[x] = stamp[x] /\ stamp[x] \in Nat
              /\ work[x] = "stored" \/ (x = s /\ \E r \in R : r.version >= stamp[x])
    PROVE  RowsInv'
<1> SUFFICES ASSUME NEW x \in Spans
             PROVE  (\A r \in rows'[x] : Sound(x, r)') /\ Stored(x)' /\ Marked(x)'
    BY DEF RowsInv
<1>1. \A r \in rows'[x] : Sound(x, r)'
    BY DEF Updated
<1>2. Stored(x)'
    <2> SUFFICES ASSUME work'[x] = "stored"
                 PROVE  \E r \in rows'[x] : r.version >= stamp'[x]
        BY DEF Stored
    <2>1. \A r \in rows[x] \cup rows'[x] \cup R : r.version \in Nat
        BY DEF Row, RowsTyped, Updated
    <2>2. stamp'[x] = stamp[x] /\ stamp[x] \in Nat
        OBVIOUS
    <2>3. CASE x = s
        <3>1. PICK q \in rows[s] \cup R : q.version >= stamp[x]
            BY <2>3 DEF RowsInv, Stored
        <3>2. PICK r \in rows'[s] : r.version >= q.version
            BY <3>1 DEF Updated
        <3> QED BY <2>1, <2>2, <2>3, <3>1, <3>2
    <2>4. CASE x # s
        BY <2>2, <2>4 DEF Updated, RowsInv, Stored
    <2> QED BY <2>3, <2>4
<1>3. Marked(x)'
    <2> SUFFICES ASSUME NEW r \in rows'[x], r.status \in {"failed", "lost"}
                 PROVE  High'
        BY DEF Marked
    <2>1. CASE r \in rows[x]
        BY <2>1, RootLemma DEF RowsInv, Marked
    <2>2. CASE r \notin rows[x]
        <3>1. x = s /\ r \in R
            BY <2>2 DEF Updated
        <3>2. r.version > Opened
            BY <3>1 DEF Sound, Opened
        <3> QED BY <3>1, <3>2, RootLemma
    <2> QED BY <2>1, <2>2
<1> QED BY <1>1, <1>2, <1>3

\* What the passes know of the root stays true while they wait.
LEMMA PassesLemma ==
    ASSUME NEW s \in Spans, NEW R \in SUBSET Row, RowsTyped, Updated(s, R),
           NEW p \in Passes, PassInv(p), pass'[p] = pass[p]
    PROVE  PassInv(p)'
<1> QED BY RootLemma DEF PassInv

-----------------------------------------------------------------------------
(* One step of the worker.                                                 *)

\* The rows that open and close a span.
LEMMA WorkerRows ==
    ASSUME NEW s \in Spans, TypeOK
    PROVE  Opening \in Row /\ Closing(s) \in Row
<1> QED BY DEF TypeOK, Opening, Closing, Opened, Row, Statuses

\* Open inserts a RUNNING row.
LEMMA OpenLemma ==
    ASSUME Inv, NEW s \in Spans, Open(s)
    PROVE  Inv'
<1>1. PICK R \in SUBSET {Opening} : Updated(s, R)
    BY InsertLemma, InsertFailsLemma, WorkerRows DEF Open, Inv, TypeOK, RowsTyped
<1>2. R \in SUBSET Row /\ \A r \in R : r = Opening
    BY WorkerRows DEF Inv
<1>3. /\ work' = [work EXCEPT ![s] = "open"] /\ work[s] = "idle"
      /\ UNCHANGED <<stamp, pass>>
    BY DEF Open
<1>4. \A x \in Spans : \A r \in rows[x] : Sound(x, r)'
    BY <1>3 DEF Inv, TypeOK, RowsInv, Sound
<1>5. \A r \in R : Sound(s, r)' /\ r.status \notin {"failed", "lost"}
    BY <1>2 DEF Opening, Sound
<1>6. RowsInv'
    BY <1>1, <1>2, <1>3, <1>4, <1>5, RowsLemma DEF Inv, TypeOK, RowsTyped
<1>7. \A p \in Passes : PassInv(p)'
    BY <1>1, <1>2, <1>3, PassesLemma DEF Inv, TypeOK, RowsTyped
<1>8. TypeOK' /\ Stamped'
    BY <1>1, <1>3 DEF Inv, TypeOK, Stamped, Open, Updated
<1> QED BY <1>6, <1>7, <1>8 DEF Inv

\* Write inserts the terminal row, or fails to.
LEMMA WriteLemma ==
    ASSUME Inv, NEW s \in Spans, Write(s)
    PROVE  Inv'
<1>1. PICK R \in SUBSET {Closing(s)} :
        /\ Updated(s, R)
        /\ (R = {Closing(s)} /\ work' = [work EXCEPT ![s] = "stored"]) \/ work' = work
    BY InsertLemma, InsertFailsLemma, WorkerRows DEF Write, Inv, TypeOK, RowsTyped
<1>2. R \in SUBSET Row /\ \A r \in R : r = Closing(s)
    BY WorkerRows DEF Inv
<1>3. work[s] = "owed" /\ UNCHANGED <<stamp, pass>>
    BY DEF Write
<1>4. stamp \in [Spans -> Nat] /\ stamp[s] \in Nat /\ stamp[s] > Opened
    BY <1>3 DEF Inv, TypeOK, Stamped
<1>5. \A x \in Spans : \A r \in rows[x] : Sound(x, r)'
    BY <1>1, <1>3 DEF Inv, TypeOK, RowsInv, Sound
<1>6. \A r \in R : Sound(s, r)' /\ r.status \notin {"failed", "lost"}
    BY <1>1, <1>2, <1>3, <1>4 DEF Inv, TypeOK, Closing, Sound
<1>7. \A x \in Spans : work'[x] = "stored" =>
         work[x] = "stored" \/ (x = s /\ \E r \in R : r.version >= stamp[x])
    <2> SUFFICES ASSUME NEW x \in Spans, work'[x] = "stored", work[x] # "stored"
                 PROVE  x = s /\ \E r \in R : r.version >= stamp[x]
        OBVIOUS
    <2>1. x = s /\ R = {Closing(s)}
        BY <1>1 DEF Inv, TypeOK
    <2>2. Closing(s).version = stamp[s] /\ stamp[s] >= stamp[s]
        BY <1>4 DEF Closing
    <2> QED BY <2>1, <2>2
<1>8. RowsInv'
    BY <1>1, <1>2, <1>3, <1>4, <1>5, <1>6, <1>7, RowsLemma DEF Inv, TypeOK, RowsTyped
<1>9. \A p \in Passes : PassInv(p)'
    BY <1>1, <1>2, <1>3, PassesLemma DEF Inv, TypeOK, RowsTyped
<1>10. TypeOK' /\ Stamped'
    BY <1>1, <1>3 DEF Inv, TypeOK, Stamped, Write, RootEnds, Ages, Updated
<1> QED BY <1>8, <1>9, <1>10 DEF Inv

\* Close stamps the terminal row of a span that has none yet; Lose forgets it.
LEMMA CloseLoseLemma ==
    ASSUME Inv, NEW s \in Spans, Close(s) \/ Lose(s)
    PROVE  Inv'
<1>1. PICK v \in Stamps \cup {Opened}, place \in {"owed", "lost"} :
        /\ stamp' = [stamp EXCEPT ![s] = v] /\ work' = [work EXCEPT ![s] = place]
        /\ place = "owed" => v \in Stamps /\ work[s] = "open"
        /\ work[s] \in {"open", "owed"}
        /\ UNCHANGED <<backend, rows, up, flow, age, pass>>
    BY DEF Close, Lose
<1>2. Updated(s, {})
    BY <1>1, RestLemma DEF Inv, TypeOK, RowsTyped
<1>3. \A x \in Spans : \A r \in rows[x] : Sound(x, r)'
    BY <1>1 DEF Inv, TypeOK, RowsInv, Sound
<1>4. \A x \in Spans : work'[x] = "stored" =>
         work[x] = "stored" /\ stamp'[x] = stamp[x] /\ stamp[x] \in Nat
    BY <1>1 DEF Inv, TypeOK
<1>5. RowsInv'
    BY <1>2, <1>3, <1>4, RowsLemma DEF Inv, TypeOK, RowsTyped
<1>6. \A p \in Passes : PassInv(p)'
    BY <1>1, <1>2, PassesLemma DEF Inv, TypeOK, RowsTyped
<1>7. TypeOK' /\ Stamped'
    BY <1>1 DEF Inv, TypeOK, Stamped, Opened
<1> QED BY <1>5, <1>6, <1>7 DEF Inv
-----------------------------------------------------------------------------
(* One step of a pass.                                                     *)

\* The rows stay sound when the worker rests and what a pass offers, if
\* anything, is a reconciled row of the root, or of a span under an ended root.
LEMMA ReconcileLemma ==
    ASSUME Inv, UNCHANGED worker, NEW s \in Spans, NEW R \in SUBSET Row, Updated(s, R),
           \A r \in R : r.status \in {"failed", "lost"} /\ r.version = Opened + 1,
           R # {} => High \/ s = Root
    PROVE  RowsInv' /\ Stamped'
<1>1. \A x \in Spans : \A r \in rows[x] : Sound(x, r)'
    BY DEF Inv, RowsInv, Sound, worker
<1>2. \A r \in R : Sound(s, r)'
    BY DEF Sound
<1>3. \A x \in Spans : work'[x] = "stored" =>
         work[x] = "stored" /\ stamp'[x] = stamp[x] /\ stamp[x] \in Nat
    BY DEF Inv, TypeOK, worker
<1>4. RowsInv'
    BY <1>1, <1>2, <1>3, RowsLemma DEF Inv, TypeOK, RowsTyped
<1>5. Stamped'
    BY DEF Inv, Stamped, worker
<1> QED BY <1>4, <1>5

\* The record of a pass after it goes to a place with rows to mark.
LEMMA PassTyped ==
    ASSUME TypeOK, NEW p \in Passes, NEW place \in Places,
           NEW todo \in SUBSET [span : Spans, row : Row],
           todo # {} <=> place \in {"failing", "losing"},
           pass' = [pass EXCEPT ![p].todo = todo, ![p].at = place]
    PROVE  /\ pass' \in [Passes -> Pass]
           /\ \A x \in Passes : pass'[x].todo # {} <=> pass'[x].at \in {"failing", "losing"}
           /\ pass'[p].at = place /\ pass'[p].todo = todo
           /\ \A x \in Passes \ {p} : pass'[x] = pass[x]
<1>1. pass'[p].at = place /\ pass'[p].todo = todo /\ \A x \in Passes \ {p} : pass'[x] = pass[x]
    BY DEF TypeOK, Pass
<1>2. pass' \in [Passes -> Pass]
    BY DEF TypeOK, Pass
<1> QED BY <1>1, <1>2 DEF TypeOK

\* To go somewhere without rows is a case of it.
LEMMA GoesTyped ==
    ASSUME TypeOK, NEW p \in Passes, NEW place \in Places \ {"failing", "losing"}, Goes(p, place)
    PROVE  /\ pass' \in [Passes -> Pass]
           /\ \A x \in Passes : pass'[x].todo # {} <=> pass'[x].at \in {"failing", "losing"}
           /\ pass'[p].at = place /\ pass'[p].todo = {}
           /\ \A x \in Passes \ {p} : pass'[x] = pass[x]
<1>1. pass'[p].at = place /\ pass'[p].todo = {} /\ \A x \in Passes \ {p} : pass'[x] = pass[x]
    BY DEF TypeOK, Pass, Goes
<1>2. pass' \in [Passes -> Pass]
    BY DEF TypeOK, Pass, Goes
<1> QED BY <1>1, <1>2 DEF TypeOK

\* Two ways in which the rows say that the root is over.
LEMMA HighLemma ==
    ASSUME Inv
    PROVE  /\ rows[Root] # {} /\ Running(Root) = {} => High
           /\ High => Over(Root)
           /\ (\E r \in Newest(Root) : Ended(r)) => High
<1>1. \A r \in rows[Root] : r.version \in Nat /\ r.status \in Statuses /\ Sound(Root, r)
    BY DEF Inv, TypeOK, Row, RowsInv
<1>2. \A r \in rows[Root] : r.status # "running" => r.version > Opened
    BY <1>1 DEF Sound, Opened, Statuses
<1>3. ASSUME rows[Root] # {}, Running(Root) = {}
      PROVE  High
    <2>1. PICK r \in rows[Root] : TRUE
        BY <1>3
    <2>2. CASE r.status # "running"
        BY <1>2, <2>2 DEF High
    <2>3. CASE r.status = "running"
        <3>1. r \notin Newest(Root) /\ r.version = Opened
            BY <1>1, <1>3, <2>3 DEF Running, Sound
        <3>2. PICK q \in rows[Root] : ~(q.version <= r.version)
            BY <3>1 DEF Newest
        <3> QED BY <1>1, <3>1, <3>2 DEF High
    <2> QED BY <2>2, <2>3
<1>4. ASSUME High
      PROVE  Over(Root)
    <2>1. PICK q \in rows[Root] : q.version > Opened
        BY <1>4 DEF High
    <2>2. ASSUME NEW r \in Running(Root)
          PROVE  FALSE
        <3>1. r \in rows[Root] /\ r.version = Opened /\ q.version <= r.version
            BY <1>1, <2>2 DEF Running, Newest, Sound
        <3> QED BY <1>1, <2>1, <3>1
    <2> QED BY <2>1, <2>2 DEF Over
<1>5. ASSUME NEW r \in Newest(Root), Ended(r)
      PROVE  High
    BY <1>2, <1>5 DEF Newest, Ended, High
<1> QED BY <1>3, <1>4, <1>5

\* What a pass reads of a tree: RUNNING rows, at the first version.
LEMMA LeftLemma ==
    ASSUME Inv, NEW S \in SUBSET Spans
    PROVE  /\ Left(S) \in SUBSET [span : Spans, row : Row]
           /\ \A t \in Left(S) : /\ t.span \in S /\ t.row \in Running(t.span)
                                  /\ t.row.status = "running" /\ t.row.version = Opened
           /\ \A s \in S : Running(s) # {} => \E t \in Left(S) : t.span = s
<1>1. \A s \in S : \A r \in Running(s) : r \in Row /\ r.status = "running" /\ r.version = Opened
    BY DEF Inv, TypeOK, RowsInv, Running, Newest, Sound
<1>2. \A s \in S : \A r \in Running(s) : [span |-> s, row |-> r] \in Left(S)
    BY DEF Left
<1>3. \A t \in Left(S) : \E s \in S : \E r \in Running(s) : t = [span |-> s, row |-> r]
    BY DEF Left
<1>4. ASSUME NEW t \in Left(S)
      PROVE  /\ t \in [span : Spans, row : Row] /\ t.span \in S /\ t.row \in Running(t.span)
             /\ t.row.status = "running" /\ t.row.version = Opened
    <2>1. PICK s \in S : \E r \in Running(s) : t = [span |-> s, row |-> r]
        BY <1>3
    <2> QED BY <1>1, <2>1
<1>5. ASSUME NEW s \in S, NEW r \in Running(s)
      PROVE  \E t \in Left(S) : t.span = s
    BY <1>2
<1> QED BY <1>4, <1>5

\* Reading and waiting change no row: what is left is what passes know.
LEMMA ReadLemma ==
    ASSUME Inv, UNCHANGED <<worker, rows>>, NEW p \in Passes, PassInv(p)',
           \A x \in Passes \ {p} : pass'[x] = pass[x]
    PROVE  RowsInv' /\ Stamped' /\ \A x \in Passes : PassInv(x)'
<1>1. Updated(Root, {})
    BY RestLemma DEF Inv, TypeOK, RowsTyped
<1>2. RowsInv' /\ Stamped'
    BY <1>1, ReconcileLemma
<1>3. \A x \in Passes \ {p} : PassInv(x)'
    BY <1>1, PassesLemma DEF Inv, TypeOK, RowsTyped
<1> QED BY <1>2, <1>3

\* Begin finds the root running, or nothing to look at.
LEMMA BeginLemma ==
    ASSUME Inv, NEW p \in Passes, Begin(p)
    PROVE  Inv'
<1>1. PICK place \in {"looking", "listing"} :
        /\ place = "looking" => \E r \in Newest(Root) : r.status = "running"
        /\ pass' = [pass EXCEPT ![p] = [at |-> place, began |-> age, todo |-> {}]]
    BY DEF Begin
<1>2. UNCHANGED <<backend, rows, up, worker, flow, age>>
    BY DEF Begin
<1>3. /\ pass'[p] = [at |-> place, began |-> age, todo |-> {}]
      /\ \A x \in Passes \ {p} : pass'[x] = pass[x]
      /\ pass' \in [Passes -> Pass]
    BY <1>1 DEF Inv, TypeOK, Pass, Places
<1>4. \A x \in Passes : pass'[x].todo # {} <=> pass'[x].at \in {"failing", "losing"}
    BY <1>3 DEF Inv, TypeOK
<1>5. PassInv(p)'
    BY <1>1, <1>2, <1>3 DEF PassInv, Newest
<1>6. TypeOK'
    BY <1>2, <1>3, <1>4 DEF Inv, TypeOK, worker
<1> QED BY <1>2, <1>3, <1>5, <1>6, ReadLemma DEF Inv

\* Look leaves the rows for later.
LEMMA LookLemma ==
    ASSUME Inv, NEW p \in Passes, Look(p)
    PROVE  Inv'
<1>1. PICK place \in {"reading", "listing", "idle"} : Goes(p, place)
    BY DEF Look
<1>2. UNCHANGED <<backend, rows, up, worker, flow, age>> /\ pass[p].at = "looking"
    BY DEF Look
<1>3. /\ pass' \in [Passes -> Pass]
      /\ \A x \in Passes : pass'[x].todo # {} <=> pass'[x].at \in {"failing", "losing"}
      /\ pass'[p].at = place /\ pass'[p].todo = {}
      /\ \A x \in Passes \ {p} : pass'[x] = pass[x]
    BY <1>1, GoesTyped DEF Places, Inv
<1>4. PassInv(p)'
    BY <1>2, <1>3 DEF PassInv, Inv
<1>5. TypeOK'
    BY <1>2, <1>3 DEF Inv, TypeOK, worker
<1> QED BY <1>2, <1>3, <1>4, <1>5, ReadLemma DEF Inv

\* Read finds the root over, or among the rows to mark.
LEMMA ReadTreeLemma ==
    ASSUME Inv, NEW p \in Passes, Read(p)
    PROVE  Inv'
<1> DEFINE todo == Left(Spans)
           place == IF todo = {} THEN "listing" ELSE "failing"
<1>1. pass[p].at = "reading" /\ pass' = [pass EXCEPT ![p].todo = todo, ![p].at = place]
      /\ UNCHANGED <<backend, rows, up, worker, flow, age>>
    BY DEF Read, Marks
<1>2. todo \in SUBSET [span : Spans, row : Row] /\ place \in Places
      /\ (todo # {} <=> place \in {"failing", "losing"})
    BY LeftLemma DEF Places
<1> HIDE DEF todo, place
<1>3. /\ pass' \in [Passes -> Pass]
      /\ \A x \in Passes : pass'[x].todo # {} <=> pass'[x].at \in {"failing", "losing"}
      /\ pass'[p].at = place /\ pass'[p].todo = todo
      /\ \A x \in Passes \ {p} : pass'[x] = pass[x]
    BY <1>1, <1>2, PassTyped DEF Inv
<1>4. (\A u \in todo : u.span # Root) => High
    BY <1>1, LeftLemma, HighLemma DEF Inv, PassInv, todo
<1>5. PassInv(p)'
    <2>1. \A t \in todo : t.row.status = "running" /\ t.row.version = Opened
        BY LeftLemma DEF todo
    <2>2. High' <=> High
        BY <1>1 DEF High
    <2> QED BY <1>3, <1>4, <2>1, <2>2 DEF PassInv, place
<1>6. TypeOK'
    BY <1>1, <1>3 DEF Inv, TypeOK, worker
<1> QED BY <1>1, <1>3, <1>5, <1>6, ReadLemma DEF Inv

\* List goes on when the root is over.
LEMMA ListLemma ==
    ASSUME Inv, NEW p \in Passes, List(p)
    PROVE  Inv'
<1>1. PICK place \in {"fetching", "idle"} : Goes(p, place) /\ (place = "fetching" => High)
    BY HighLemma DEF List, Due
<1>2. UNCHANGED <<backend, rows, up, worker, flow, age>>
    BY DEF List
<1>3. /\ pass' \in [Passes -> Pass]
      /\ \A x \in Passes : pass'[x].todo # {} <=> pass'[x].at \in {"failing", "losing"}
      /\ pass'[p].at = place /\ pass'[p].todo = {}
      /\ \A x \in Passes \ {p} : pass'[x] = pass[x]
    BY <1>1, GoesTyped DEF Places, Inv
<1>4. PassInv(p)'
    BY <1>1, <1>2, <1>3 DEF PassInv, High
<1>5. TypeOK'
    BY <1>2, <1>3 DEF Inv, TypeOK, worker
<1> QED BY <1>2, <1>3, <1>4, <1>5, ReadLemma DEF Inv

\* Fetch reads the other spans under that root.
LEMMA FetchLemma ==
    ASSUME Inv, NEW p \in Passes, Fetch(p)
    PROVE  Inv'
<1> DEFINE todo == {[span |-> t.span, row |-> Topology(t.row)] : t \in Left(Spans \ {Root})}
           place == IF todo = {} THEN "idle" ELSE "losing"
<1>1. pass[p].at = "fetching" /\ pass' = [pass EXCEPT ![p].todo = todo, ![p].at = place]
      /\ UNCHANGED <<backend, rows, up, worker, flow, age>>
    BY DEF Fetch, Marks
<1>2. \A t \in todo : /\ t \in [span : Spans, row : Row]
                       /\ t.row.status = "running" /\ t.row.version = Opened
    <2> SUFFICES ASSUME NEW t \in Left(Spans \ {Root})
                 PROVE  LET u == [span |-> t.span, row |-> Topology(t.row)]
                        IN  /\ u \in [span : Spans, row : Row]
                            /\ u.row.status = "running" /\ u.row.version = Opened
        OBVIOUS
    <2>1. t \in [span : Spans, row : Row] /\ t.row.status = "running" /\ t.row.version = Opened
        BY LeftLemma
    <2>2. Topology(t.row) \in Row /\ Topology(t.row).status = "running"
          /\ Topology(t.row).version = Opened
        BY <2>1 DEF Topology, Row
    <2> QED BY <2>1, <2>2
<1>3. todo \in SUBSET [span : Spans, row : Row] /\ place \in Places
      /\ (todo # {} <=> place \in {"failing", "losing"})
    BY <1>2 DEF Places
<1> HIDE DEF todo, place
<1>4. /\ pass' \in [Passes -> Pass]
      /\ \A x \in Passes : pass'[x].todo # {} <=> pass'[x].at \in {"failing", "losing"}
      /\ pass'[p].at = place /\ pass'[p].todo = todo
      /\ \A x \in Passes \ {p} : pass'[x] = pass[x]
    BY <1>1, <1>3, PassTyped DEF Inv
<1>5. PassInv(p)'
    <2>1. High'
        BY <1>1 DEF High, Inv, PassInv
    <2> QED BY <1>2, <1>4, <2>1 DEF PassInv, place
<1>6. TypeOK'
    BY <1>1, <1>4 DEF Inv, TypeOK, worker
<1> QED BY <1>1, <1>4, <1>5, <1>6, ReadLemma DEF Inv
\* The row a pass makes of one it has to mark.
LEMMA ReconciledLemma ==
    ASSUME Inv, NEW p \in Passes, NEW t \in pass[p].todo, NEW status \in {"failed", "lost"}
    PROVE  /\ t.span \in Spans /\ Reconciled(t.row, status) \in Row
           /\ Reconciled(t.row, status).status = status
           /\ Reconciled(t.row, status).version = Opened + 1
<1>1. t \in [span : Spans, row : Row] /\ t.row.version = Opened
    BY DEF Inv, TypeOK, Pass, PassInv
<1>2. ASSUME NEW r \in Row
      PROVE  /\ Reconciled(r, status) \in Row /\ Reconciled(r, status).status = status
             /\ Reconciled(r, status).version = r.version + 1
    BY DEF Reconciled, Row, Statuses
<1> QED BY <1>1, <1>2

\* A pass offers a row to the store, in full or at worst.
LEMMA OfferLemma ==
    ASSUME Inv, UNCHANGED worker, NEW s \in Spans, NEW r \in Row, Insert(s, r),
           r.status \in {"failed", "lost"}, r.version = Opened + 1, High \/ s = Root
    PROVE  RowsInv' /\ Stamped' /\ High' /\ Updated(s, {r})
<1>1. Updated(s, {r})
    BY InsertLemma DEF Inv, TypeOK, RowsTyped
<1>2. RowsInv' /\ Stamped'
    BY <1>1, ReconcileLemma
<1>3. High'
    BY <1>1, RootLemma DEF Inv, TypeOK, RowsTyped, Opened
<1> QED BY <1>1, <1>2, <1>3

\* What a pass has left after one row, when the root is over by then.
LEMMA MarkedLemma ==
    ASSUME Inv, NEW p \in Passes, NEW t \in pass[p].todo,
           NEW marking \in {"failing", "losing"}, NEW after \in {"listing", "idle"},
           Marks(p, pass[p].todo \ {t}, marking, after), High',
           NEW s \in Spans, NEW R \in SUBSET Row, Updated(s, R),
           UNCHANGED <<backend, up, worker, flow>>, age' \in Ages
    PROVE  TypeOK' /\ \A x \in Passes : PassInv(x)'
<1> DEFINE todo == pass[p].todo \ {t}
           place == IF todo = {} THEN after ELSE marking
<1>1. pass' = [pass EXCEPT ![p].todo = todo, ![p].at = place]
    BY DEF Marks
<1>2. todo \in SUBSET [span : Spans, row : Row] /\ place \in Places
      /\ (todo # {} <=> place \in {"failing", "losing"})
    BY DEF Inv, TypeOK, Pass, Places
<1>3. \A u \in todo : u.row.status = "running" /\ u.row.version = Opened
    BY DEF Inv, PassInv
<1>4. place \notin {"looking", "reading", "fetching"}
    OBVIOUS
<1> HIDE DEF todo, place
<1>5. /\ pass' \in [Passes -> Pass]
      /\ \A x \in Passes : pass'[x].todo # {} <=> pass'[x].at \in {"failing", "losing"}
      /\ pass'[p].at = place /\ pass'[p].todo = todo
      /\ \A x \in Passes \ {p} : pass'[x] = pass[x]
    BY <1>1, <1>2, PassTyped DEF Inv
<1>6. PassInv(p)'
    BY <1>3, <1>4, <1>5 DEF PassInv
<1>7. \A x \in Passes \ {p} : PassInv(x)'
    BY <1>5, PassesLemma DEF Inv, TypeOK, RowsTyped
<1>8. TypeOK'
    BY <1>5 DEF Inv, TypeOK, Updated, worker
<1> QED BY <1>6, <1>7, <1>8

\* MarkFailed offers the root first, and others under an ended root.
LEMMA MarkFailedLemma ==
    ASSUME Inv, NEW p \in Passes, MarkFailed(p)
    PROVE  Inv'
<1>1. PICK t \in First(pass[p].todo) :
        /\ Insert(t.span, Reconciled(t.row, "failed"))
        /\ Marks(p, pass[p].todo \ {t}, "failing", "listing")
        /\ RootEnds(t.span)
    BY DEF MarkFailed
<1>2. pass[p].at = "failing" /\ UNCHANGED <<backend, up, worker, flow>>
    BY DEF MarkFailed
<1>3. t \in pass[p].todo /\ (High \/ t.span = Root)
    BY <1>2 DEF First, Inv, PassInv
<1>4. RowsInv' /\ Stamped' /\ High' /\ Updated(t.span, {Reconciled(t.row, "failed")})
    BY <1>1, <1>2, <1>3, ReconciledLemma, OfferLemma
<1>5. age' \in Ages
    BY <1>1 DEF RootEnds, Ages, Inv, TypeOK
<1>6. TypeOK' /\ \A x \in Passes : PassInv(x)'
    BY <1>1, <1>2, <1>3, <1>4, <1>5, ReconciledLemma, MarkedLemma
<1> QED BY <1>4, <1>6 DEF Inv

\* MarkLost offers descendants, under a root found over.
LEMMA MarkLostLemma ==
    ASSUME Inv, NEW p \in Passes, MarkLost(p)
    PROVE  Inv'
<1>1. PICK t \in pass[p].todo :
        /\ Insert(t.span, Reconciled(t.row, "lost"))
        /\ Marks(p, pass[p].todo \ {t}, "losing", "idle")
    BY DEF MarkLost
<1>2. pass[p].at = "losing" /\ UNCHANGED <<backend, up, worker, flow, age>>
    BY DEF MarkLost
<1>3. High
    BY <1>2 DEF Inv, PassInv
<1>4. RowsInv' /\ Stamped' /\ High' /\ Updated(t.span, {Reconciled(t.row, "lost")})
    BY <1>1, <1>2, <1>3, ReconciledLemma, OfferLemma
<1>5. TypeOK' /\ \A x \in Passes : PassInv(x)'
    <2>1. t.span \in Spans /\ {Reconciled(t.row, "lost")} \in SUBSET Row /\ age' \in Ages
        BY <1>1, <1>2, ReconciledLemma DEF Inv, TypeOK
    <2> QED BY <1>1, <1>2, <1>4, <2>1, MarkedLemma
<1> QED BY <1>4, <1>5 DEF Inv

\* An interrupted pass offers at most the row it was about to mark.
LEMMA AbortLemma ==
    ASSUME Inv, NEW p \in Passes, Abort(p)
    PROVE  Inv'
<1>1. Goes(p, "idle") /\ UNCHANGED <<backend, up, worker, flow>>
    BY DEF Abort
<1>2. /\ pass' \in [Passes -> Pass]
      /\ \A x \in Passes : pass'[x].todo # {} <=> pass'[x].at \in {"failing", "losing"}
      /\ pass'[p].at = "idle" /\ pass'[p].todo = {}
      /\ \A x \in Passes \ {p} : pass'[x] = pass[x]
    BY <1>1, GoesTyped DEF Inv, Places
<1>3. PassInv(p)'
    BY <1>2 DEF PassInv
<1>4. CASE UNCHANGED <<rows, age>>
    <2>1. TypeOK'
        BY <1>1, <1>2, <1>4 DEF Inv, TypeOK, worker
    <2> QED BY <1>1, <1>2, <1>3, <1>4, <2>1, ReadLemma DEF Inv
<1>5. ASSUME NEW t \in First(pass[p].todo), NEW status \in {"failed", "lost"},
             pass[p].at = "failing" \/ pass[p].at = "losing",
             Insert(t.span, Reconciled(t.row, status)), RootEnds(t.span)
      PROVE  Inv'
    <2>1. t \in pass[p].todo /\ (High \/ t.span = Root)
        BY <1>5 DEF First, Inv, PassInv
    <2>2. RowsInv' /\ Stamped' /\ Updated(t.span, {Reconciled(t.row, status)})
        BY <1>1, <1>5, <2>1, ReconciledLemma, OfferLemma
    <2>3. \A x \in Passes \ {p} : PassInv(x)'
        BY <1>2, <2>1, <2>2, ReconciledLemma, PassesLemma DEF Inv, TypeOK, RowsTyped
    <2>4. age' \in Ages
        BY <1>5 DEF RootEnds, Ages, Inv, TypeOK
    <2>5. TypeOK'
        BY <1>1, <1>2, <2>2, <2>4 DEF Inv, TypeOK, Updated, worker
    <2> QED BY <1>3, <2>2, <2>3, <2>5 DEF Inv
<1>6. \/ UNCHANGED <<rows, age>>
      \/ \E t \in First(pass[p].todo) : \E status \in {"failed", "lost"} :
            /\ pass[p].at = "failing" \/ pass[p].at = "losing"
            /\ Insert(t.span, Reconciled(t.row, status)) /\ RootEnds(t.span)
    BY DEF Abort
<1> QED BY <1>4, <1>5, <1>6

-----------------------------------------------------------------------------
(* The theorems.                                                           *)

\* The store merges, or the environment moves.
LEMMA EnvironmentLemma ==
    ASSUME Inv, (\E s \in Spans : Merge(s)) \/ Toggle \/ Wait \/ FlowEnds \/ UNCHANGED vars
    PROVE  Inv'
<1>1. PICK s \in Spans : Updated(s, {})
    BY MergeLemma, RestLemma DEF Inv, TypeOK, RowsTyped, Toggle, Wait, FlowEnds, vars
<1>2. UNCHANGED <<worker, pass, backend>>
    BY DEF Merge, Toggle, Wait, FlowEnds, vars
<1>3. RowsInv' /\ Stamped'
    BY <1>1, <1>2, ReconcileLemma
<1>4. \A p \in Passes : PassInv(p)'
    BY <1>1, <1>2, PassesLemma DEF Inv, TypeOK, RowsTyped
<1>5. up' \in SUBSET Services /\ age' \in Ages /\ flow' \in {"running", "failed", "completed"}
    BY FailingAssumption DEF Inv, TypeOK, Merge, Toggle, Wait, FlowEnds, vars, Ages, Services
<1>6. TypeOK'
    BY <1>1, <1>2, <1>5 DEF Inv, TypeOK, Updated, worker
<1> QED BY <1>3, <1>4, <1>6 DEF Inv

\* Nothing is stored at first, and every step keeps the invariant.
THEOREM Invariance == Spec => []Inv
<1>1. Init => Inv
    <2> SUFFICES ASSUME Init
                 PROVE  Inv
        OBVIOUS
    <2>1. TypeOK
        BY DEF Init, TypeOK, Services, Opened, Ages, Pass, Places
    <2>2. Stamped /\ RowsInv
        BY DEF Init, Stamped, RowsInv, Stored, Marked
    <2>3. \A p \in Passes : PassInv(p)
        BY DEF Init, PassInv
    <2> QED BY <2>1, <2>2, <2>3 DEF Inv
<1>2. Inv /\ [Next]_vars => Inv'
    <2> SUFFICES ASSUME Inv, [Next]_vars
                 PROVE  Inv'
        OBVIOUS
    <2>1. CASE WorkerStep
        BY <2>1, OpenLemma, WriteLemma, CloseLoseLemma DEF WorkerStep
    <2>2. ASSUME NEW p \in Passes, PassStep(p)
          PROVE  Inv'
        BY <2>2, BeginLemma, LookLemma, ReadTreeLemma, MarkFailedLemma, ListLemma, FetchLemma,
           MarkLostLemma, AbortLemma DEF PassStep
    <2>3. CASE (\E s \in Spans : Merge(s)) \/ Toggle \/ Wait \/ FlowEnds \/ UNCHANGED vars
        BY <2>3, EnvironmentLemma
    <2> QED BY <2>1, <2>2, <2>3 DEF Next
<1> QED BY <1>1, <1>2, PTL DEF Spec

\* The state is well formed.
THEOREM TypeCorrect == Spec => []TypeOK
<1>1. Inv => TypeOK
    BY DEF Inv
<1> QED BY <1>1, Invariance, PTL

\* A stored terminal row beyond the reconciled version is what readers get:
\* whichever row has the highest version is as high, and no other kind is.
THEOREM LateRowsWin == Spec => []LateTerminalWins
<1>1. Inv => LateTerminalWins
    <2> SUFFICES ASSUME Inv, NEW s \in Spans, work[s] = "stored", stamp[s] > Opened + 1,
                        NEW r \in Newest(s)
                 PROVE  r.status = "ended"
        BY DEF LateTerminalWins
    <2>1. r \in rows[s] /\ r.version \in Nat /\ r.status \in Statuses /\ Sound(s, r)
        BY DEF Newest, Inv, TypeOK, Row, RowsInv
    <2>2. PICK q \in rows[s] : q.version >= stamp[s]
        BY DEF Inv, RowsInv, Stored
    <2>3. q.version \in Nat /\ q.version <= r.version /\ stamp[s] \in Nat
        BY <2>2 DEF Newest, Inv, TypeOK, Row
    <2>4. r.version > Opened + 1
        BY <2>1, <2>2, <2>3 DEF Opened
    <2> QED BY <2>1, <2>4 DEF Sound, Statuses, Opened
<1> QED BY <1>1, Invariance, PTL

\* No reconciled row exists under a root that a reader may see as running.
THEOREM RootsComeFirst == Spec => []RootMarkedFirst
<1>1. Inv => RootMarkedFirst
    BY HighLemma DEF Inv, RowsInv, Marked, RootMarkedFirst
<1> QED BY <1>1, Invariance, PTL
-----------------------------------------------------------------------------
(* What a step may never do to the rows.                                   *)

\* The row of a pass, for one of the rows it has to mark.
Offered(s) ==
    {r \in Row : \E p \in Passes : \E t \in pass[p].todo : \E status \in {"failed", "lost"} :
                    t.span = s /\ r = Reconciled(t.row, status)}

\* Every step offers the store rows of one span at most: those of the worker, or one that a pass
\* had to mark.
LEMMA OffersLemma ==
    ASSUME Inv, [Next]_vars
    PROVE  \E s \in Spans : \E R \in SUBSET Row :
              Updated(s, R) /\ R \subseteq {Opening, Closing(s)} \cup Offered(s)
<1> DEFINE Offers == \E s \in Spans : \E R \in SUBSET Row :
                        Updated(s, R) /\ R \subseteq {Opening, Closing(s)} \cup Offered(s)
<1>0. RowsTyped /\ TypeOK
    BY DEF Inv, TypeOK, RowsTyped
<1>1. ASSUME UNCHANGED rows \/ \E s \in Spans : Merge(s) PROVE Offers
    <2>1. PICK s \in Spans : Updated(s, {})
        BY <1>0, <1>1, MergeLemma, RestLemma
    <2> QED BY <2>1
<1>2. ASSUME NEW s \in Spans, Open(s) \/ Write(s) PROVE Offers
    <2>1. PICK r \in {Opening, Closing(s)} : UNCHANGED rows \/ Insert(s, r)
        BY <1>2 DEF Open, Write, InsertFails
    <2>2. CASE Insert(s, r)
        <3>1. r \in Row /\ {r} \in SUBSET Row
            BY <1>0, WorkerRows
        <3>2. Updated(s, {r})
            BY <1>0, <2>2, <3>1, InsertLemma
        <3> QED BY <3>1, <3>2
    <2> QED BY <1>1, <2>1, <2>2
<1>3. ASSUME NEW p \in Passes, NEW t \in pass[p].todo, NEW status \in {"failed", "lost"},
             Insert(t.span, Reconciled(t.row, status))
      PROVE  Offers
    <2>1. t.span \in Spans /\ Reconciled(t.row, status) \in Row
        BY ReconciledLemma
    <2>2. Updated(t.span, {Reconciled(t.row, status)})
        BY <1>0, <1>3, <2>1, InsertLemma
    <2>3. {Reconciled(t.row, status)} \subseteq Offered(t.span)
        BY <2>1 DEF Offered
    <2> QED BY <2>1, <2>2, <2>3
<1>4. ASSUME NEW p \in Passes, MarkFailed(p) \/ MarkLost(p) \/ Abort(p) PROVE Offers
    <2>1. \/ UNCHANGED rows
          \/ \E t \in pass[p].todo : \E status \in {"failed", "lost"} :
                Insert(t.span, Reconciled(t.row, status))
        BY <1>4 DEF MarkFailed, MarkLost, Abort, First
    <2> QED BY <1>1, <1>3, <2>1
<1>5. ASSUME NEW p \in Passes, Begin(p) \/ Look(p) \/ Read(p) \/ List(p) \/ Fetch(p) PROVE Offers
    BY <1>1, <1>5 DEF Begin, Look, Read, List, Fetch
<1>6. ASSUME NEW s \in Spans, Close(s) \/ Lose(s) PROVE Offers
    BY <1>1, <1>6 DEF Close, Lose
<1>7. ASSUME Toggle \/ Wait \/ FlowEnds \/ UNCHANGED vars PROVE Offers
    BY <1>1, <1>7 DEF Toggle, Wait, FlowEnds, vars
<1> HIDE DEF Offers
<1>8. Offers
    BY <1>1, <1>2, <1>4, <1>5, <1>6, <1>7 DEF Next, WorkerStep, PassStep
<1> QED BY <1>8 DEF Offers

\* A span that every reader sees as over stays so: no late RUNNING row, no pass that read it
\* before, no merge of rows with equal versions brings it back (the versions of
\* _database_span, and of the rows _mark_root_failed and _mark_running_descendants_lost insert).
NeverReopens == [][\A s \in Spans : Over(s) => Over(s)']_vars

\* A span is over when, and only when, it has a row beyond the RUNNING one.
LEMMA OverLemma ==
    ASSUME Inv, NEW s \in Spans
    PROVE  Over(s) <=> \E r \in rows[s] : r.version > Opened
<1>1. \A r \in rows[s] : r.version \in Nat /\ r.status \in Statuses /\ Sound(s, r)
    BY DEF Inv, TypeOK, Row, RowsInv
<1>2. \A r \in rows[s] : IF r.status = "running" THEN r.version = Opened ELSE r.version > Opened
    BY <1>1 DEF Sound, Opened, Statuses
<1>3. ASSUME Over(s) PROVE \E r \in rows[s] : r.version > Opened
    <2>1. PICK r \in rows[s] : TRUE
        BY <1>3 DEF Over
    <2>2. CASE r.status = "running"
        <3>1. PICK q \in rows[s] : ~(q.version <= r.version)
            BY <1>3, <2>2 DEF Over, Running, Newest
        <3> QED BY <1>1, <1>2, <2>2, <3>1
    <2> QED BY <1>2, <2>2
<1>4. ASSUME NEW q \in rows[s], q.version > Opened PROVE Over(s)
    <2>1. ASSUME NEW r \in Running(s) PROVE FALSE
        <3>1. r \in rows[s] /\ r.version = Opened /\ q.version <= r.version
            BY <1>2, <2>1 DEF Running, Newest
        <3> QED BY <1>1, <1>4, <3>1
    <2> QED BY <2>1 DEF Over
<1> QED BY <1>3, <1>4

\* No step reopens a span.
THEOREM SpansStayOver == Spec => NeverReopens
<1>1. ASSUME Inv, Inv', [Next]_vars PROVE \A s \in Spans : Over(s) => Over(s)'
    <2> SUFFICES ASSUME NEW s \in Spans, Over(s) PROVE Over(s)'
        OBVIOUS
    <2>1. PICK q \in rows[s] : q.version > Opened
        BY <1>1, OverLemma
    <2>2. PICK x \in Spans, R \in SUBSET Row : Updated(x, R)
        BY <1>1, OffersLemma
    <2>3. PICK r \in rows'[s] : r.version >= q.version
        <3>1. q.version \in Nat
            BY <1>1 DEF Inv, TypeOK, Row
        <3> QED BY <2>2, <3>1 DEF Updated
    <2>4. \A u \in rows'[s] : u.version \in Nat /\ (u.status = "running" => u.version = Opened)
        BY <1>1 DEF Inv, TypeOK, Row, RowsInv, Sound
    <2>5. q.version \in Nat
        BY <1>1 DEF Inv, TypeOK, Row
    <2>6. r.version > Opened
        BY <2>1, <2>3, <2>4, <2>5 DEF Opened
    <2>7. \A u \in Running(s)' : u \in rows'[s] /\ u.status = "running" /\ r.version <= u.version
        BY <2>3 DEF Running, Newest
    <2>8. Running(s)' = {}
        BY <2>3, <2>4, <2>6, <2>7 DEF Opened
    <2> QED BY <2>3, <2>8 DEF Over
<1> QED BY <1>1, Invariance, PTL DEF Spec, NeverReopens

\* In the stores whose topology is the rows themselves, memory and filesystem, a reconciled row
\* keeps the inputs of its span; ClickHouse, whose topology is blank, loses them
\* (get_deployment_tree_topology of the three backends).
KeptInMemory == backend = "newest row" => InputsKept

\* The rows of the store, and those the passes took from it, have their inputs.
Intact ==
    backend = "newest row" =>
        /\ \A s \in Spans : \A r \in rows[s] : r.inputs = TRUE
        /\ \A p \in Passes : \A t \in pass[p].todo : t.row.inputs = TRUE

\* What a pass has to mark after a step, it had before or read from the store.
LEMMA TodoLemma ==
    ASSUME Inv, [Next]_vars, NEW p \in Passes, NEW t \in pass'[p].todo, backend = "newest row"
    PROVE  t \in pass[p].todo \/ \E s \in Spans : t.row \in rows[s]
<1>0. pass \in [Passes -> Pass]
    BY DEF Inv, TypeOK
<1>1. ASSUME UNCHANGED pass PROVE t \in pass[p].todo
    BY <1>1
<1>2. ASSUME NEW x \in Passes, pass'[x].todo \subseteq pass[x].todo,
             \A y \in Passes \ {x} : pass'[y] = pass[y]
      PROVE  t \in pass[p].todo
    <2>1. CASE p = x
        BY <1>2, <2>1
    <2>2. CASE p # x
        <3>1. pass'[p] = pass[p]
            BY <1>2, <2>2
        <3> QED BY <3>1
    <2> QED BY <2>1, <2>2
<1>3. ASSUME NEW x \in Passes, Begin(x) \/ Look(x) \/ List(x) \/ Abort(x) PROVE t \in pass[p].todo
    <2>1. CASE Begin(x)
        <3>1. PICK place \in {"looking", "listing"} :
                 pass' = [pass EXCEPT ![x] = [at |-> place, began |-> age, todo |-> {}]]
            BY <2>1 DEF Begin
        <3>2. pass'[x].todo = {} /\ \A y \in Passes \ {x} : pass'[y] = pass[y]
            BY <1>0, <3>1
        <3> QED BY <1>2, <3>2
    <2>2. CASE Look(x) \/ List(x) \/ Abort(x)
        <3>1. PICK place \in Places : Goes(x, place)
            BY <2>2 DEF Look, List, Abort, Places
        <3>2. pass'[x].todo = {} /\ \A y \in Passes \ {x} : pass'[y] = pass[y]
            BY <1>0, <3>1 DEF Goes, Pass
        <3> QED BY <1>2, <3>2
    <2> QED BY <1>3, <2>1, <2>2
<1>4. ASSUME NEW x \in Passes, MarkFailed(x) \/ MarkLost(x) PROVE t \in pass[p].todo
    <2>1. PICK u \in pass[x].todo, marking \in Places, after \in Places :
             Marks(x, pass[x].todo \ {u}, marking, after)
        BY <1>4 DEF MarkFailed, MarkLost, First, Places
    <2>2. pass'[x].todo \subseteq pass[x].todo /\ \A y \in Passes \ {x} : pass'[y] = pass[y]
        BY <1>0, <2>1 DEF Marks, Pass
    <2> QED BY <1>2, <2>2
<1>5. ASSUME NEW x \in Passes, NEW S \in SUBSET Spans, pass'[x].todo = Left(S),
             \A y \in Passes \ {x} : pass'[y] = pass[y]
      PROVE  t \in pass[p].todo \/ \E s \in Spans : t.row \in rows[s]
    <2>1. \A u \in Left(S) : u.span \in Spans /\ u.row \in rows[u.span]
        BY LeftLemma DEF Running, Newest
    <2> QED BY <1>5, <2>1
<1>6. ASSUME NEW x \in Passes, Read(x) \/ Fetch(x)
      PROVE  t \in pass[p].todo \/ \E s \in Spans : t.row \in rows[s]
    <2>1. CASE Read(x)
        <3>1. pass'[x].todo = Left(Spans) /\ \A y \in Passes \ {x} : pass'[y] = pass[y]
            BY <1>0, <2>1 DEF Read, Marks, Pass
        <3> QED BY <1>5, <3>1
    <2>2. CASE Fetch(x)
        <3> DEFINE S == Spans \ {Root}
                   todo == {[span |-> u.span, row |-> Topology(u.row)] : u \in Left(S)}
        <3>1. pass'[x].todo = todo /\ \A y \in Passes \ {x} : pass'[y] = pass[y]
            BY <1>0, <2>2 DEF Fetch, Marks, Pass
        <3>2. \A u \in Left(S) : u \in [span : Spans, row : Row]
            BY LeftLemma
        <3>3. \A u : Topology(u) = u
            BY DEF Topology
        <3>4. ASSUME NEW u \in Left(S) PROVE [span |-> u.span, row |-> Topology(u.row)] = u
            <4>1. u \in [span : Spans, row : Row] /\ Topology(u.row) = u.row
                BY <3>2, <3>3
            <4>2. u = [span |-> u.span, row |-> u.row]
                BY <4>1
            <4> QED BY <4>1, <4>2
        <3>5. todo = Left(S)
            BY <3>4
        <3>6. S \in SUBSET Spans
            OBVIOUS
        <3> HIDE DEF todo, S
        <3> QED BY <1>5, <3>1, <3>5, <3>6
    <2> QED BY <1>6, <2>1, <2>2
<1>7. ASSUME NEW s \in Spans, Open(s) \/ Close(s) \/ Write(s) \/ Lose(s) \/ Merge(s)
      PROVE  UNCHANGED pass
    BY <1>7 DEF Open, Close, Write, Lose, Merge
<1>8. ASSUME Toggle \/ Wait \/ FlowEnds \/ UNCHANGED vars PROVE UNCHANGED pass
    BY <1>8 DEF Toggle, Wait, FlowEnds, vars
<1> QED BY <1>1, <1>3, <1>4, <1>6, <1>7, <1>8 DEF Next, WorkerStep, PassStep

\* The stores that keep one row per span keep its inputs with it.
THEOREM InputsSurvive == Spec => []KeptInMemory
<1>1. Init => Intact
    <2> SUFFICES ASSUME Init PROVE Intact
        OBVIOUS
    <2>1. \A s \in Spans : rows[s] = {}
        BY DEF Init
    <2>2. \A p \in Passes : pass[p].todo = {}
        BY DEF Init
    <2> QED BY <2>1, <2>2 DEF Intact
<1>2. ASSUME Inv, Intact, [Next]_vars PROVE Intact'
    <2>0. backend' = backend
        BY <1>2 DEF Next, WorkerStep, Open, Close, Write, Lose, FlowEnds, Wait, Toggle, Merge, PassStep,
           Begin, Look, Read, MarkFailed, List, Fetch, MarkLost, Abort, vars
    <2> SUFFICES ASSUME backend = "newest row"
                 PROVE  /\ \A s \in Spans : \A r \in rows'[s] : r.inputs = TRUE
                        /\ \A p \in Passes : \A t \in pass'[p].todo : t.row.inputs = TRUE
        BY <2>0 DEF Intact
    <2>1. \A p \in Passes : \A t \in pass'[p].todo : t.row.inputs = TRUE
        BY <1>2, TodoLemma DEF Intact
    <2>2. PICK x \in Spans, R \in SUBSET Row :
             Updated(x, R) /\ R \subseteq {Opening, Closing(x)} \cup Offered(x)
        BY <1>2, OffersLemma
    <2>3. \A r \in Offered(x) : r.inputs = TRUE
        <3> SUFFICES ASSUME NEW r \in Offered(x) PROVE r.inputs = TRUE
            OBVIOUS
        <3>1. PICK p \in Passes : \E t \in pass[p].todo : \E status \in {"failed", "lost"} :
                 r = Reconciled(t.row, status)
            BY DEF Offered
        <3>2. PICK t \in pass[p].todo, status \in {"failed", "lost"} : r = Reconciled(t.row, status)
            BY <3>1
        <3>3. t.row.inputs = TRUE
            BY <1>2, <3>2 DEF Intact
        <3>4. r.inputs = t.row.inputs
            BY <3>2 DEF Reconciled
        <3> QED BY <3>3, <3>4
    <2>4. \A r \in R : r.inputs = TRUE
        <3>1. Opening.inputs = TRUE
            BY DEF Opening
        <3>2. Closing(x).inputs = TRUE
            BY DEF Closing
        <3> QED BY <2>2, <2>3, <3>1, <3>2
    <2>5. \A s \in Spans : \A r \in rows'[s] : r.inputs = TRUE
        BY <1>2, <2>2, <2>4 DEF Updated, Intact
    <2> QED BY <2>1, <2>5
<1>3. Intact => KeptInMemory
    BY DEF Intact, KeptInMemory, InputsKept, Newest
<1> QED BY <1>1, <1>2, <1>3, Invariance, PTL DEF Spec
=============================================================================
