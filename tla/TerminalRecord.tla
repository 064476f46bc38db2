--------------------------- MODULE TerminalRecord ---------------------------
(***************************************************************************)
(* What the recording of spans promises about terminal rows, whatever      *)
(* buffers, pumps and retries it uses: a row is pending from the moment    *)
(* its span finishes, a stored row stays stored, no row is given up unless *)
(* the run is marked degraded, and a row given up is not taken up again,   *)
(* though an insert already issued may still land.                         *)
(***************************************************************************)
CONSTANT Spans

VARIABLES
    fate,   \* fate[s]: what has become of the terminal row of s
    marked  \* the run is marked as recorded in part

Fates == {"open", "pending", "stored", "abandoned"}

\* The fates a row can have after one step that leaves the mark at m.
Moves(f, m) ==
    {f} \cup (CASE f = "open"      -> {"pending"}
                [] f = "pending"   -> {"stored"} \cup (IF m THEN {"abandoned"} ELSE {})
                [] f = "abandoned" -> {"stored"}
                [] f = "stored"    -> {})

Init == fate = [s \in Spans |-> "open"] /\ marked = FALSE

\* One step may move several rows: an insert that stores one row pumps others,
\* and a row that is parked may push older ones out.
Next == /\ marked' \in {marked, TRUE}
        /\ fate' \in [Spans -> Fates]
        /\ \A s \in Spans : fate'[s] \in Moves(fate[s], marked')

Spec == Init /\ [][Next]_<<fate, marked>>
=============================================================================
