--------------------------- MODULE LlmCallProofs ---------------------------
(***************************************************************************)
(* What LlmCall guarantees for any calls, chain, budget and failures.      *)
(*                                                                         *)
(* A step moves one call: the invariant is a type invariant and, for each  *)
(* call, a statement about that call alone (CallInv). For each action, one *)
(* lemma shows that the step keeps the types and CallInv of its own call,  *)
(* leaves the variables of the other calls as they are (Same) and, unless  *)
(* it is a Retry, issues no attempt but the first of a model (NotRetried). *)
(***************************************************************************)
EXTENDS LlmCall, TLAPS

USE ChainAssumption, NoneAssumption, FailuresAssumption, ServingAssumption

\* The attempts made before model m is reached are at most those of the models
\* in front of it.
Before(m) == (m - 1) * (Retries + 1)

Underway(c) == pc[c] \in {"calling", "sleeping"}

\* How many attempts a call has made, from where it stands.
Counted(c) ==
    /\ pc[c] = "idle" => made[c] = 0 /\ hop[c] = 1 /\ try[c] = 0
    /\ pc[c] = "calling" => made[c] <= Before(hop[c]) + try[c]
    /\ pc[c] = "sleeping" => made[c] <= Before(hop[c]) + try[c] + 1 /\ try[c] < Retries
    /\ pc[c] \in {"answered", "failed"} => made[c] <= Before(hop[c]) + Retries + 1

Transient(e) == e.kind = "failed" /\ e.class \in {"watchdog", "rate", "timeout"}

Ended(c) ==
    pc[c] = "failed" /\ (Transient(last[c]) \/ last[c].kind = "invalid") =>
        hop[c] = Models /\ (try[c] = Retries \/ last[c].gone)

Fresh(c) ==
    pc[c] = "calling" /\ try[c] = 0 =>
        ~repairing[c] /\ ~stripped[c] /\ pinned[c] = None /\ ~exhausted[c]

CallInv(c) == Counted(c) /\ Ended(c) /\ Fresh(c) /\ (Underway(c) => ~exhausted[c])

Inv == TypeOK /\ \A c \in Calls : CallInv(c)

\* No call but c moves.
Same(c) ==
    \A x \in Calls \ {c} :
        /\ pc'[x] = pc[x] /\ hop'[x] = hop[x] /\ try'[x] = try[x] /\ made'[x] = made[x]
        /\ last'[x] = last[x] /\ stripped'[x] = stripped[x] /\ pinned'[x] = pinned[x]
        /\ repairing'[x] = repairing[x] /\ exhausted'[x] = exhausted[x]

\* If the step issues an attempt of c, it is the first of a model.
NotRetried(c) == pc'[c] = "calling" => try'[c] = 0

-----------------------------------------------------------------------------
(* Arithmetic and constants.                                               *)

\* The budget of the models in front grows with the model.
LEMMA BeforeGrows ==
    ASSUME NEW i \in Nat \ {0}, NEW j \in Nat \ {0}, i < j
    PROVE  Before(i) \in Nat /\ Before(j) \in Nat /\ Before(i) + Retries + 1 <= Before(j)
<1> DEFINE k == j - i - 1
           r == Retries + 1
<1>1. k \in Nat /\ r \in Nat /\ i - 1 \in Nat
    OBVIOUS
<1>2. k * r \in Nat /\ (i - 1) * r \in Nat
    BY <1>1
<1>3. (j - 1) * r = (i - 1) * r + r + k * r
    <2>1. j - 1 = (i - 1) + 1 + k
        OBVIOUS
    <2> HIDE DEF k, r
    <2>2. ((i - 1) + 1 + k) * r = (i - 1) * r + r + k * r
        BY <1>1
    <2> QED BY <2>1, <2>2
<1> QED BY <1>1, <1>2, <1>3 DEF Before

\* The budget of the models up to m, as the sum and as the product.
LEMMA BeforeIs ==
    ASSUME NEW m \in Nat \ {0}
    PROVE  Before(m) \in Nat /\ Before(m) + Retries + 1 = m * (Retries + 1)
<1> DEFINE r == Retries + 1
<1>1. r \in Nat /\ m - 1 \in Nat
    OBVIOUS
<1> HIDE DEF r
<1>2. (m - 1) * r \in Nat /\ (m - 1) * r + r = m * r
    BY <1>1
<1> QED BY <1>2 DEF Before, r

\* A call that has met no error holds a well formed one.
LEMMA NothingIsError == Nothing \in Errors
BY DEF Nothing, Errors, Kinds, Classes

\* What can fail is a well formed error, as one of the context limit too.
LEMMA FailuresAreErrors ==
    ASSUME NEW e \in Failures
    PROVE  /\ e \in Errors /\ e.kind \in Kinds /\ e.class \in Classes
           /\ e.deployment \in Deployments \cup {None} /\ e.gone \in BOOLEAN
           /\ [e EXCEPT !.class = "context_limit"] \in Errors
BY DEF Errors, Kinds, Classes

-----------------------------------------------------------------------------
(* Moving along the chain.                                                 *)

\* The types of the variables that moving along the chain assigns.
Types ==
    /\ pc \in [Calls -> {"idle", "calling", "sleeping", "answered", "failed"}]
    /\ hop \in [Calls -> Hops] /\ try \in [Calls -> 0 .. Retries] /\ last \in [Calls -> Errors]
    /\ stripped \in [Calls -> BOOLEAN] /\ repairing \in [Calls -> BOOLEAN]
    /\ pinned \in [Calls -> Deployments \cup {None}] /\ exhausted \in [Calls -> BOOLEAN]

\* No call but c is moved along its chain.
Still(c) ==
    \A x \in Calls \ {c} :
        /\ pc'[x] = pc[x] /\ hop'[x] = hop[x] /\ try'[x] = try[x]
        /\ last'[x] = last[x] /\ stripped'[x] = stripped[x] /\ pinned'[x] = pinned[x]
        /\ repairing'[x] = repairing[x] /\ exhausted'[x] = exhausted[x]

\* Call c is at the first attempt of model m or of a later one, or that attempt
\* could not be made.
Entered(c, m) ==
    /\ hop[c] >= m /\ try[c] = 0 /\ last[c] = Nothing /\ pc[c] \in {"calling", "failed"}
    /\ ~repairing[c] /\ ~stripped[c] /\ pinned[c] = None /\ ~exhausted[c]

\* Entering a model starts it afresh.
LEMMA EnterMoves ==
    ASSUME Types, NEW c \in Calls, NEW m \in Nat \ {0}, NEW e, Enter(c, m, e)
    PROVE  Types' /\ Still(c) /\ Entered(c, m)'
<1>1. PICK i \in Eligible(c, m) :
        /\ hop' = [hop EXCEPT ![c] = i] /\ try' = [try EXCEPT ![c] = 0]
        /\ stripped' = [stripped EXCEPT ![c] = FALSE] /\ pinned' = [pinned EXCEPT ![c] = None]
        /\ repairing' = [repairing EXCEPT ![c] = FALSE]
        /\ exhausted' = [exhausted EXCEPT ![c] = FALSE]
        /\ last' = [last EXCEPT ![c] = Nothing]
        /\ pc' = [pc EXCEPT ![c] = IF serves[c][i] = "able" THEN "calling" ELSE "failed"]
    BY DEF Enter
<1>2. i \in Hops /\ i >= m
    BY DEF Eligible, Hops
<1>3. Types'
    <2>1. pc' \in [Calls -> {"idle", "calling", "sleeping", "answered", "failed"}]
        BY <1>1 DEF Types
    <2>2. hop' \in [Calls -> Hops] /\ try' \in [Calls -> 0 .. Retries]
        BY <1>1, <1>2 DEF Types
    <2>3. last' \in [Calls -> Errors]
        BY <1>1, NothingIsError DEF Types
    <2>4. /\ stripped' \in [Calls -> BOOLEAN] /\ repairing' \in [Calls -> BOOLEAN]
          /\ exhausted' \in [Calls -> BOOLEAN]
        BY <1>1 DEF Types
    <2>5. pinned' \in [Calls -> Deployments \cup {None}]
        BY <1>1 DEF Types
    <2> QED BY <2>1, <2>2, <2>3, <2>4, <2>5 DEF Types
<1>4. Still(c)
    BY <1>1 DEF Types, Still
<1>5. Entered(c, m)'
    BY <1>1, <1>2 DEF Types, Entered
<1> QED BY <1>3, <1>4, <1>5

\* Giving up leaves the attempt where it was and starts nothing.
LEMMA GiveUpMoves ==
    ASSUME Types, NEW c \in Calls, NEW m \in Hops, NEW e \in Errors, GiveUp(c, m, e),
           exhausted' \in [Calls -> BOOLEAN],
           \A x \in Calls \ {c} : exhausted'[x] = exhausted[x]
    PROVE  /\ Types' /\ Still(c)
           /\ pc'[c] = "failed" /\ hop'[c] = m /\ last'[c] = e /\ try'[c] = try[c]
BY DEF Types, GiveUp, Leave, Still

\* The chain goes on with a later model, or ends at its last model with the error
\* that asked for another.
LEMMA AdvanceMoves ==
    ASSUME Types, NEW c \in Calls, NEW m \in 1 .. (Models + 1), NEW e \in Errors,
           Advance(c, m, e)
    PROVE  /\ Types' /\ Still(c)
           /\ \/ Entered(c, m)'
              \/ /\ pc'[c] = "failed" /\ hop'[c] = Models /\ try'[c] = try[c]
                 /\ last'[c] \in {Nothing, e}
<1>1. CASE Enter(c, m, e)
    BY <1>1, EnterMoves
<1>2. CASE /\ GiveUp(c, Models, IF m <= Models THEN Nothing ELSE e)
           /\ exhausted' = [exhausted EXCEPT ![c] = FALSE]
    <2>1. exhausted' \in [Calls -> BOOLEAN] /\ \A x \in Calls \ {c} : exhausted'[x] = exhausted[x]
        BY <1>2 DEF Types
    <2>2. Models \in Hops
        BY DEF Hops
    <2>3. PICK w \in {Nothing, e} : GiveUp(c, Models, w)
        BY <1>2
    <2>4. w \in Errors
        BY NothingIsError
    <2>5. /\ Types' /\ Still(c)
          /\ pc'[c] = "failed" /\ hop'[c] = Models /\ last'[c] = w /\ try'[c] = try[c]
        BY <2>1, <2>2, <2>3, <2>4, GiveUpMoves
    <2> QED BY <2>5
<1> QED BY <1>1, <1>2 DEF Advance

-----------------------------------------------------------------------------
(* The shared record, the skip lists, and the types of all variables.      *)

\* The types of the variables that moving along the chain leaves alone.
Rest ==
    /\ made \in [Calls -> Nat] /\ skip \in [Calls -> SUBSET Deployments]
    /\ serves \in [Calls -> [Hops -> Services]] /\ proxy \in BOOLEAN
    /\ workload \in [Deployments -> Samples]

\* TypeOK in two halves: what moving along the chain assigns, and the rest.
LEMMA TypeOKIs == TypeOK <=> Types /\ Rest
BY DEF TypeOK, Types, Rest

\* The same after a step.
LEMMA TypeOKIsPrimed == TypeOK' <=> Types' /\ Rest'
BY DEF TypeOK, Types, Rest

\* Each way the record of slow deployments is written keeps it well formed.
LEMMA RecordTypes ==
    ASSUME workload \in [Deployments -> Samples], NEW d \in Deployments,
           MarkSlow(d) \/ RecordSuccess(d) \/ ForgetExpired
    PROVE  workload' \in [Deployments -> Samples]
<1>1. CASE MarkSlow(d)
    <2> DEFINE bad == IF workload[d].bad < DemoteAfter THEN workload[d].bad + 1 ELSE DemoteAfter
               entry == [bad |-> bad, skipped |->
                            IF bad >= DemoteAfter THEN "now" ELSE workload[d].skipped]
    <2>1. bad \in 0 .. DemoteAfter
        BY DEF Samples
    <2>2. workload[d].skipped \in {"never", "now", "over"}
        BY DEF Samples
    <2>3. entry \in Samples
        BY <2>1, <2>2 DEF Samples
    <2>4. workload' = [workload EXCEPT ![d] = entry]
        BY <1>1 DEF MarkSlow
    <2> HIDE DEF entry
    <2> QED BY <2>3, <2>4
<1>2. CASE RecordSuccess(d)
    <2>1. [workload[d] EXCEPT !.bad = 0] \in Samples
        BY DEF Samples
    <2>2. workload' = [workload EXCEPT ![d] = [workload[d] EXCEPT !.bad = 0]]
        BY <1>2 DEF RecordSuccess
    <2> QED BY <2>1, <2>2
<1>3. CASE ForgetExpired
    <2>1. Clean \in Samples
        BY DEF Clean, Samples
    <2> QED BY <1>3, <2>1 DEF ForgetExpired
<1> QED BY <1>1, <1>2, <1>3

-----------------------------------------------------------------------------
(* The invariant of the call that moves.                                   *)

\* A call that enters a model within the budget of those in front of it.
LEMMA EnteredInv ==
    ASSUME Types', made' \in [Calls -> Nat], NEW c \in Calls, NEW m \in Nat \ {0},
           Entered(c, m)', made'[c] <= Before(m)
    PROVE  CallInv(c)'
<1> DEFINE h == hop'[c]
<1>1. h \in Nat \ {0} /\ h >= m /\ made'[c] \in Nat
    BY DEF Types, Hops, Entered
<1> HIDE DEF h
<1>2. Before(m) \in Nat /\ Before(h) \in Nat
    BY <1>1, BeforeIs
<1>3. made'[c] <= Before(h)
    <2>1. CASE h = m
        BY <2>1
    <2>2. CASE m < h
        BY <1>1, <1>2, <2>2, BeforeGrows
    <2> QED BY <1>1, <2>1, <2>2
<1>4. Counted(c)'
    <2>1. made'[c] <= Before(hop'[c]) /\ Before(hop'[c]) \in Nat
        BY <1>2, <1>3 DEF h
    <2>2. /\ pc'[c] \in {"calling", "failed"} /\ try'[c] = 0
        BY DEF Entered
    <2>3. Before(hop[c])' = Before(hop'[c])
        BY DEF Before
    <2> QED BY <1>1, <2>1, <2>2, <2>3 DEF Counted
<1>5. Ended(c)'
    BY DEF Entered, Ended, Transient, Nothing
<1>6. Fresh(c)' /\ (Underway(c) => ~exhausted[c])'
    BY DEF Entered, Fresh, Underway
<1> QED BY <1>4, <1>5, <1>6 DEF CallInv

\* A call that fails within its budget, on an error that may end it.
LEMMA FailedInv ==
    ASSUME NEW c \in Calls, pc'[c] = "failed", made'[c] <= Before(hop'[c]) + Retries + 1,
           Transient(last'[c]) \/ last'[c].kind = "invalid" =>
               hop'[c] = Models /\ (try'[c] = Retries \/ last'[c].gone)
    PROVE  CallInv(c)'
BY DEF CallInv, Counted, Ended, Fresh, Underway, Before, Transient

\* A step that moves no other call along its chain and counts no attempt of it leaves
\* it as it is.
LEMMA SameIs ==
    ASSUME NEW c \in Calls, Still(c), \A x \in Calls \ {c} : made'[x] = made[x]
    PROVE  Same(c)
BY DEF Still, Same

-----------------------------------------------------------------------------
(* The actions of a call.                                                  *)

\* The first model is entered with no attempt made.
LEMMA BeginMoves ==
    ASSUME Inv, NEW c \in Calls, Begin(c)
    PROVE  TypeOK' /\ Same(c) /\ CallInv(c)' /\ NotRetried(c)
<1>1. Types /\ Rest
    BY TypeOKIs DEF Inv
<1>2. pc[c] = "idle" /\ made[c] = 0 /\ hop[c] = 1 /\ made' = made
    BY DEF Inv, CallInv, Counted, Begin
<1>3. /\ Types' /\ Still(c)
      /\ \/ Entered(c, 1)'
         \/ pc'[c] = "failed" /\ hop'[c] = Models /\ last'[c] = Nothing
    <2>1. Advance(c, 1, Nothing)
        BY DEF Begin
    <2>2. 1 \in 1 .. (Models + 1)
        OBVIOUS
    <2> QED BY <1>1, <2>1, <2>2, NothingIsError, AdvanceMoves
<1>4. Rest'
    <2>1. skip' \in [Calls -> SUBSET Deployments]
        BY <1>1 DEF Begin, Demoted, Rest
    <2>2. workload' \in [Deployments -> Samples]
        <3>1. CASE Deployments = {}
            BY <1>1, <3>1 DEF Begin, ForgetExpired
        <3>2. CASE Deployments # {}
            BY <1>1, <3>2, RecordTypes DEF Begin, Rest
        <3> QED BY <3>1, <3>2
    <2> QED BY <1>1, <2>1, <2>2 DEF Begin, setting, Rest
<1>5. CallInv(c)'
    <2>1. CASE Entered(c, 1)'
        <3>1. made' \in [Calls -> Nat] /\ made'[c] <= Before(1)
            BY <1>1, <1>2 DEF Rest, Before
        <3> QED BY <1>3, <2>1, <3>1, EnteredInv
    <2>2. CASE pc'[c] = "failed" /\ hop'[c] = Models /\ last'[c] = Nothing
        <3>1. made'[c] <= Before(hop'[c]) + Retries + 1
            BY <1>2, <2>2, BeforeIs
        <3> QED BY <2>2, <3>1, FailedInv DEF Transient, Nothing
    <2> QED BY <1>3, <2>1, <2>2
<1>6. NotRetried(c)
    BY <1>3 DEF NotRetried, Entered
<1> QED BY <1>2, <1>3, <1>4, <1>5, <1>6, SameIs, TypeOKIsPrimed

\* Folding an outcome into the context keeps the types and counts the attempt.
LEMMA AbsorbMoves ==
    ASSUME Rest, NEW c \in Calls, NEW e \in Failures, Absorb(c, e), UNCHANGED setting
    PROVE  Rest' /\ made' = [made EXCEPT ![c] = made[c] + 1]
<1> DEFINE steers == e.kind \in {"failed", "missing"} /\ e.deployment # None
<1>1. made' = [made EXCEPT ![c] = made[c] + 1]
    BY DEF Absorb
<1>2. made' \in [Calls -> Nat]
    BY <1>1 DEF Rest
<1>3. skip' \in [Calls -> SUBSET Deployments]
    <2>1. PICK failed \in Reported :
            Merge(c, failed \cup IF steers /\ SkipsDeployment(e.class) THEN {e.deployment} ELSE {})
        BY DEF Absorb
    <2>2. failed \subseteq Deployments
        BY <2>1 DEF Reported
    <2>3. (IF steers /\ SkipsDeployment(e.class) THEN {e.deployment} ELSE {}) \subseteq Deployments
        BY FailuresAreErrors
    <2> QED BY <2>1, <2>2, <2>3 DEF Merge, Rest
<1>4. workload' \in [Deployments -> Samples]
    <2>1. CASE steers /\ MarkSlow(e.deployment)
        <3>1. e.deployment \in Deployments
            BY <2>1, FailuresAreErrors
        <3> QED BY <2>1, <3>1, RecordTypes DEF Rest
    <2>2. CASE UNCHANGED workload
        BY <2>2 DEF Rest
    <2> QED BY <2>1, <2>2 DEF Absorb
<1> QED BY <1>1, <1>2, <1>3, <1>4 DEF Rest, setting

\* An attempt that ends is within the budget of its model, so that the next model
\* is entered within the budget of those in front of it.
LEMMA AttemptCounted ==
    ASSUME Inv, NEW c \in Calls, pc[c] = "calling", made' = [made EXCEPT ![c] = made[c] + 1]
    PROVE  /\ made'[c] <= Before(hop[c]) + try[c] + 1
           /\ made'[c] <= Before(hop[c]) + Retries + 1
           /\ made'[c] <= Before(hop[c] + 1) /\ made'[c] <= Before(Models) + Retries + 1
<1> DEFINE h == hop[c]
<1>1. h \in Nat \ {0} /\ h <= Models /\ made[c] \in Nat /\ try[c] \in 0 .. Retries
    BY DEF Inv, TypeOK, Hops
<1>2. made'[c] = made[c] + 1 /\ made[c] <= Before(h) + try[c]
    BY DEF Inv, CallInv, Counted, TypeOK
<1> HIDE DEF h
<1>3. Before(h) \in Nat /\ Before(h + 1) \in Nat /\ Before(h) + Retries + 1 <= Before(h + 1)
    BY <1>1, BeforeGrows
<1>4. made'[c] <= Before(h) + try[c] + 1 /\ made'[c] <= Before(h) + Retries + 1
    BY <1>1, <1>2, <1>3
<1>5. made'[c] <= Before(Models) + Retries + 1
    <2>1. CASE h = Models
        BY <1>4, <2>1
    <2>2. CASE h < Models
        <3>1. Before(Models) \in Nat /\ Before(h) + Retries + 1 <= Before(Models)
            BY <1>1, <2>2, BeforeGrows
        <3> QED BY <1>1, <1>2, <1>3, <1>4, <3>1
    <2> QED BY <1>1, <2>1, <2>2
<1>6. made'[c] <= Before(h + 1)
    BY <1>1, <1>2, <1>3, <1>4
<1> QED BY <1>4, <1>5, <1>6 DEF h

\* An outcome that sends the chain on: what ends the call, if no model is left, has
\* used the budget of the last one or the group.
LEMMA AdvancingKeeps ==
    ASSUME Inv, NEW c \in Calls, NEW e \in Errors, pc[c] = "calling", made' \in [Calls -> Nat],
           made' = [made EXCEPT ![c] = made[c] + 1], Advance(c, hop[c] + 1, e),
           Transient(e) \/ e.kind = "invalid" => try[c] = Retries \/ e.gone
    PROVE  Types' /\ Same(c) /\ CallInv(c)' /\ NotRetried(c)
<1>1. Types /\ Rest /\ hop[c] \in Hops
    BY TypeOKIs DEF Inv, TypeOK
<1>2. PICK m \in 1 .. (Models + 1) : m = hop[c] + 1
    BY <1>1 DEF Hops
<1>3. /\ Types' /\ Still(c)
      /\ \/ Entered(c, m)'
         \/ pc'[c] = "failed" /\ hop'[c] = Models /\ try'[c] = try[c] /\ last'[c] \in {Nothing, e}
    BY <1>1, <1>2, AdvanceMoves
<1>4. Same(c)
    BY <1>1, <1>3, SameIs DEF Rest
<1>5. NotRetried(c)
    BY <1>3 DEF NotRetried, Entered
<1>6. CASE Entered(c, m)'
    <2>1. m \in Nat \ {0}
        OBVIOUS
    <2>2. made'[c] <= Before(hop[c] + 1)
        BY AttemptCounted
    <2>3. made'[c] <= Before(m)
        BY <1>2, <2>2
    <2> QED BY <1>3, <1>4, <1>5, <1>6, <2>1, <2>3, EnteredInv
<1>7. CASE pc'[c] = "failed" /\ hop'[c] = Models /\ try'[c] = try[c] /\ last'[c] \in {Nothing, e}
    <2>1. made'[c] <= Before(hop'[c]) + Retries + 1
        BY <1>7, AttemptCounted
    <2>2. Transient(last'[c]) \/ last'[c].kind = "invalid" =>
              hop'[c] = Models /\ (try'[c] = Retries \/ last'[c].gone)
        <3>1. ~(Transient(Nothing) \/ Nothing.kind = "invalid")
            BY DEF Transient, Nothing
        <3> QED BY <1>7, <3>1
    <2> QED BY <1>3, <1>4, <1>5, <1>7, <2>1, <2>2, FailedInv
<1> QED BY <1>3, <1>6, <1>7

\* An outcome that gives up on the model it came from.
LEMMA GivingUpKeeps ==
    ASSUME Inv, NEW c \in Calls, NEW e \in Errors, pc[c] = "calling",
           made'[c] <= Before(hop[c]) + Retries + 1, \A x \in Calls \ {c} : made'[x] = made[x],
           exhausted' \in [Calls -> BOOLEAN], \A x \in Calls \ {c} : exhausted'[x] = exhausted[x],
           GiveUp(c, hop[c], e), ~(Transient(e) \/ e.kind = "invalid")
    PROVE  Types' /\ Same(c) /\ CallInv(c)' /\ NotRetried(c)
<1>1. PICK m \in Hops : m = hop[c]
    BY DEF Inv, TypeOK
<1>2. GiveUp(c, m, e) /\ Types /\ made'[c] <= Before(m) + Retries + 1
    BY <1>1, TypeOKIs DEF Inv
<1>3. /\ Types' /\ Still(c)
      /\ pc'[c] = "failed" /\ hop'[c] = m /\ last'[c] = e /\ try'[c] = try[c]
    BY <1>2, GiveUpMoves
<1>4. Same(c)
    BY <1>3, SameIs
<1>5. CallInv(c)'
    BY <1>2, <1>3, FailedInv
<1> QED BY <1>3, <1>4, <1>5 DEF NotRetried

\* Every failure that is absorbed.
LEMMA FailMoves ==
    ASSUME Inv, NEW c \in Calls, Fail(c)
    PROVE  TypeOK' /\ Same(c) /\ CallInv(c)' /\ NotRetried(c)
<1>1. /\ Types /\ Rest /\ pc[c] = "calling" /\ ~exhausted[c] /\ try[c] \in 0 .. Retries
      /\ exhausted[c] \in BOOLEAN
    BY TypeOKIs DEF Inv, CallInv, Underway, Fail, Types
<1>2. PICK e \in Failures :
        /\ Absorb(c, e)
        /\ FailAdvancing(c, e) \/ FailExhausted(c, e) \/ FailRetried(c, e) \/ FailSpent(c, e)
    BY DEF Fail
<1>3. /\ e \in Errors /\ e.kind \in Kinds /\ e.class \in Classes /\ e.gone \in BOOLEAN
      /\ [e EXCEPT !.class = "context_limit"] \in Errors
      /\ e.kind = "invalid" => e.class = "none" /\ ~e.gone
    BY FailuresAreErrors
<1>4. Rest' /\ made' = [made EXCEPT ![c] = made[c] + 1]
    BY <1>1, <1>2, AbsorbMoves DEF Fail
<1>5. made' \in [Calls -> Nat] /\ \A x \in Calls \ {c} : made'[x] = made[x]
    BY <1>1, <1>4 DEF Rest
<1>6. Types' /\ Same(c) /\ CallInv(c)' /\ NotRetried(c)
    <2>1. CASE FailAdvancing(c, e)
        <3>1. Transient(e) \/ e.kind = "invalid" => e.gone
            BY <1>3, <2>1 DEF FailAdvancing, Advances, TerminalForModel, Transient
        <3> QED BY <1>1, <1>3, <1>4, <1>5, <2>1, <3>1, AdvancingKeeps DEF FailAdvancing
    <2>2. CASE FailExhausted(c, e)
        <3>1. ~(Transient(e) \/ e.kind = "invalid")
            BY <1>1, <1>3, <2>2 DEF FailExhausted, Advances, Transient
        <3>2. exhausted' = [exhausted EXCEPT ![c] = TRUE] /\ GiveUp(c, hop[c], e)
            BY <2>2 DEF FailExhausted
        <3>3. /\ exhausted' \in [Calls -> BOOLEAN]
              /\ \A x \in Calls \ {c} : exhausted'[x] = exhausted[x]
            BY <1>1, <3>2 DEF Types
        <3>4. made'[c] <= Before(hop[c]) + Retries + 1
            BY <1>1, <1>4, AttemptCounted
        <3> QED BY <1>1, <1>3, <1>5, <3>1, <3>2, <3>3, <3>4, GivingUpKeeps
    <2>3. CASE FailRetried(c, e)
        <3>1. /\ pc' = [pc EXCEPT ![c] = "sleeping"] /\ last' = [last EXCEPT ![c] = e]
              /\ UNCHANGED <<hop, try, stripped, pinned, repairing, exhausted>> /\ try[c] < Retries
            BY <2>3 DEF FailRetried, RetriesLeft
        <3>2. Types' /\ Still(c)
            BY <1>1, <1>3, <3>1 DEF Types, Still
        <3>3. Counted(c)'
            <4>1. pc'[c] = "sleeping" /\ hop'[c] = hop[c] /\ try'[c] = try[c]
                BY <1>1, <3>1 DEF Types
            <4>2. made'[c] <= Before(hop[c]) + try[c] + 1
                BY <1>1, <1>4, AttemptCounted
            <4> QED BY <3>1, <4>1, <4>2 DEF Counted, Before
        <3>4. Ended(c)' /\ Fresh(c)' /\ (Underway(c) => ~exhausted[c])'
            BY <1>1, <3>1 DEF Ended, Fresh, Types
        <3>5. NotRetried(c)
            BY <1>1, <3>1 DEF NotRetried, Types
        <3> QED BY <1>5, <3>2, <3>3, <3>4, <3>5, SameIs DEF CallInv
    <2>4. CASE FailSpent(c, e)
        <3>1. try[c] = Retries
            BY <1>1, <2>4 DEF FailSpent, RetriesLeft
        <3>2. CASE Advance(c, hop[c] + 1, [e EXCEPT !.class = "context_limit"])
            <4>1. PICK w \in Errors : w = [e EXCEPT !.class = "context_limit"]
                BY <1>3
            <4>2. Advance(c, hop[c] + 1, w)
                BY <3>2, <4>1
            <4> QED BY <1>1, <1>4, <1>5, <3>1, <4>2, AdvancingKeeps
        <3>3. CASE Advance(c, hop[c] + 1, e)
            BY <1>1, <1>3, <1>4, <1>5, <3>1, <3>3, AdvancingKeeps
        <3>4. CASE /\ e.kind # "invalid" /\ ~AdvancesAfterExhaustion(e.class)
                   /\ GiveUp(c, hop[c], e) /\ UNCHANGED exhausted
            <4>1. ~(Transient(e) \/ e.kind = "invalid")
                BY <3>4 DEF AdvancesAfterExhaustion, Transient
            <4>2. /\ exhausted' \in [Calls -> BOOLEAN]
                  /\ \A x \in Calls \ {c} : exhausted'[x] = exhausted[x]
                BY <1>1, <3>4 DEF Types
            <4>3. made'[c] <= Before(hop[c]) + Retries + 1
                BY <1>1, <1>4, AttemptCounted
            <4> QED BY <1>1, <1>3, <1>5, <3>4, <4>1, <4>2, <4>3, GivingUpKeeps
        <3> QED BY <2>4, <3>2, <3>3, <3>4 DEF FailSpent
    <2> QED BY <1>2, <2>1, <2>2, <2>3, <2>4
<1> QED BY <1>4, <1>6, TypeOKIsPrimed

\* A 400 that ends the call.
LEMMA RejectMoves ==
    ASSUME Inv, NEW c \in Calls, Reject(c)
    PROVE  TypeOK' /\ Same(c) /\ CallInv(c)' /\ NotRetried(c)
<1>1. /\ Types /\ Rest /\ pc[c] = "calling" /\ try[c] \in 0 .. Retries /\ made[c] \in Nat
      /\ hop[c] \in Nat \ {0}
    BY TypeOKIs DEF Inv, Reject, Types, Rest, Hops
<1>2. PICK e \in Failures : Raises(c, e) /\ GiveUp(c, hop[c], e)
    BY DEF Reject
<1>3. e \in Errors /\ e.kind = "rejected"
    BY <1>2 DEF Raises
<1>4. UNCHANGED <<made, skip, exhausted, serves, proxy, workload>>
    BY DEF Reject, routing, setting
<1>5. made'[c] <= Before(hop[c]) + Retries + 1
    <2>1. made[c] <= Before(hop[c]) + try[c]
        BY <1>1 DEF Inv, CallInv, Counted
    <2>2. Before(hop[c]) \in Nat
        BY <1>1, BeforeIs
    <2> QED BY <1>1, <1>4, <2>1, <2>2
<1>6. ~(Transient(e) \/ e.kind = "invalid")
    BY <1>3 DEF Transient
<1>7. exhausted' \in [Calls -> BOOLEAN] /\ \A x \in Calls \ {c} : exhausted'[x] = exhausted[x]
    BY <1>1, <1>4 DEF Types
<1>8. Types' /\ Same(c) /\ CallInv(c)' /\ NotRetried(c)
    BY <1>1, <1>2, <1>3, <1>4, <1>5, <1>6, <1>7, GivingUpKeeps
<1>9. Rest'
    BY <1>1, <1>4 DEF Rest
<1> QED BY <1>8, <1>9, TypeOKIsPrimed

\* An answer ends the call.
LEMMA AnswerMoves ==
    ASSUME Inv, NEW c \in Calls, Answer(c)
    PROVE  TypeOK' /\ Same(c) /\ CallInv(c)' /\ NotRetried(c)
<1>1. Types /\ Rest /\ pc[c] = "calling"
    BY TypeOKIs DEF Inv, Answer
<1>2. /\ pc' = [pc EXCEPT ![c] = "answered"] /\ made' = [made EXCEPT ![c] = made[c] + 1]
      /\ UNCHANGED <<hop, try, last, serves, proxy>> /\ Leave(c)
    BY DEF Answer, setting
<1>3. PICK d \in Deployments \cup {None}, failed \in SUBSET Deployments, gone \in BOOLEAN :
        /\ Merge(c, failed)
        /\ exhausted' = [exhausted EXCEPT ![c] = exhausted[c] \/ gone]
        /\ UNCHANGED workload \/ (d # None /\ RecordSuccess(d))
    BY <1>1 DEF Answer, Reported, Rest
<1>4. Rest'
    <2>1. workload' \in [Deployments -> Samples]
        <3>1. CASE UNCHANGED workload
            BY <1>1, <3>1 DEF Rest
        <3>2. CASE d # None /\ RecordSuccess(d)
            BY <1>1, <3>2, RecordTypes DEF Rest
        <3> QED BY <1>3, <3>1, <3>2
    <2>2. skip' \in [Calls -> SUBSET Deployments]
        BY <1>1, <1>3 DEF Merge, Rest
    <2>3. made' \in [Calls -> Nat]
        BY <1>1, <1>2 DEF Rest
    <2> QED BY <1>1, <1>2, <2>1, <2>2, <2>3 DEF Rest
<1>5. Types' /\ Still(c)
    <2>1. /\ exhausted' \in [Calls -> BOOLEAN]
          /\ \A x \in Calls \ {c} : exhausted'[x] = exhausted[x]
        BY <1>1, <1>3 DEF Types
    <2> QED BY <1>1, <1>2, <2>1 DEF Types, Leave, Still
<1>6. Same(c)
    BY <1>1, <1>2, <1>5, SameIs DEF Rest
<1>7. CallInv(c)'
    <2>1. pc'[c] = "answered" /\ hop'[c] = hop[c]
        BY <1>1, <1>2 DEF Types
    <2>2. made'[c] <= Before(hop[c]) + Retries + 1
        BY <1>1, <1>2, AttemptCounted
    <2> QED BY <2>1, <2>2 DEF CallInv, Counted, Ended, Fresh, Underway, Before
<1>8. NotRetried(c)
    BY <1>1, <1>2 DEF NotRetried, Types
<1> QED BY <1>4, <1>5, <1>6, <1>7, <1>8, TypeOKIsPrimed

\* The next attempt of the same model.
LEMMA RetryMoves ==
    ASSUME Inv, NEW c \in Calls, Retry(c)
    PROVE  TypeOK' /\ Same(c) /\ CallInv(c)'
<1>1. /\ Types /\ Rest /\ pc[c] = "sleeping" /\ ~exhausted[c] /\ try[c] < Retries
      /\ made[c] <= Before(hop[c]) + try[c] + 1 /\ try[c] \in 0 .. Retries
    BY TypeOKIs DEF Inv, CallInv, Counted, Underway, Retry, Types
<1>2. /\ pc' = [pc EXCEPT ![c] = "calling"] /\ try' = [try EXCEPT ![c] = try[c] + 1]
      /\ last' = [last EXCEPT ![c] = Nothing]
      /\ UNCHANGED <<hop, made, skip, exhausted, serves, proxy, workload>>
    BY DEF Retry, routing, setting
<1>3. stripped' \in [Calls -> BOOLEAN] /\ \A x \in Calls \ {c} : stripped'[x] = stripped[x]
    BY <1>1 DEF Retry, Types
<1>4. repairing' \in [Calls -> BOOLEAN] /\ \A x \in Calls \ {c} : repairing'[x] = repairing[x]
    BY <1>1 DEF Retry, Types
<1>5. /\ pinned' \in [Calls -> Deployments \cup {None}]
      /\ \A x \in Calls \ {c} : pinned'[x] = pinned[x]
    <2>1. last[c].deployment \in Deployments \cup {None}
        BY <1>1 DEF Types, Errors
    <2> QED BY <1>1, <2>1 DEF Retry, Types
<1>6. Types' /\ Still(c)
    <2>1. pc' \in [Calls -> {"idle", "calling", "sleeping", "answered", "failed"}]
        BY <1>1, <1>2 DEF Types
    <2>2. try' \in [Calls -> 0 .. Retries]
        BY <1>1, <1>2 DEF Types
    <2>3. last' \in [Calls -> Errors]
        BY <1>1, <1>2, NothingIsError DEF Types
    <2>4. Types'
        BY <1>1, <1>2, <1>3, <1>4, <1>5, <2>1, <2>2, <2>3 DEF Types
    <2>5. Still(c)
        BY <1>1, <1>2, <1>3, <1>4, <1>5 DEF Still, Types
    <2> QED BY <2>4, <2>5
<1>7. Rest' /\ Same(c)
    BY <1>1, <1>2, <1>6, SameIs DEF Rest
<1>8. CallInv(c)'
    <2>1. /\ pc'[c] = "calling" /\ try'[c] = try[c] + 1 /\ hop'[c] = hop[c]
          /\ made'[c] = made[c] /\ ~exhausted'[c]
        BY <1>1, <1>2 DEF Types
    <2>2. Before(hop[c]) \in Nat
        BY <1>1, BeforeIs DEF Types, Hops
    <2>3. Counted(c)'
        BY <1>1, <2>1, <2>2 DEF Counted, Before
    <2> QED BY <1>1, <2>1, <2>3 DEF CallInv, Ended, Fresh, Underway
<1> QED BY <1>6, <1>7, <1>8, TypeOKIsPrimed

-----------------------------------------------------------------------------
(* The theorems.                                                           *)

\* No call has begun: the invariant holds.
LEMMA InitLemma == Init => Inv
<1> SUFFICES ASSUME Init PROVE Inv
    OBVIOUS
<1>1. Types
    BY NothingIsError DEF Init, Types, Hops
<1>2. Rest
    <2>1. Clean \in Samples
        BY DEF Clean, Samples
    <2> QED BY <2>1 DEF Init, Rest
<1>3. ASSUME NEW c \in Calls PROVE CallInv(c)
    BY DEF Init, CallInv, Counted, Ended, Fresh, Underway
<1> QED BY <1>1, <1>2, <1>3, TypeOKIs DEF Inv

\* A step of one call keeps the invariant of every call.
LEMMA CallKeeps ==
    ASSUME Inv, NEW c \in Calls, Begin(c) \/ Outcome(c) \/ Retry(c)
    PROVE  Inv'
<1>1. TypeOK' /\ Same(c) /\ CallInv(c)'
    BY BeginMoves, FailMoves, RejectMoves, AnswerMoves, RetryMoves DEF Outcome
<1>2. ASSUME NEW x \in Calls \ {c} PROVE CallInv(x)'
    BY <1>1 DEF Same, Inv, CallInv, Counted, Before, Ended, Transient, Fresh, Underway
<1> QED BY <1>1, <1>2 DEF Inv

\* Every step keeps the invariant.
LEMMA StepLemma == Inv /\ [Next]_vars => Inv'
<1> SUFFICES ASSUME Inv, [Next]_vars PROVE Inv'
    OBVIOUS
<1>1. CASE \E c \in Calls : Begin(c) \/ Outcome(c) \/ Retry(c)
    BY <1>1, CallKeeps
<1>2. ASSUME NEW d \in Deployments, Expire(d) PROVE Inv'
    <2>1. /\ workload' = [workload EXCEPT ![d].skipped = "over"]
          /\ UNCHANGED <<pc, attempt, last, routing, setting>>
        BY <1>2 DEF Expire
    <2>2. workload \in [Deployments -> Samples]
        BY DEF Inv, TypeOK
    <2>3. [workload[d] EXCEPT !.skipped = "over"] \in Samples
        BY <2>2 DEF Samples
    <2>4. workload' \in [Deployments -> Samples]
        <3>1. workload' = [workload EXCEPT ![d] = [workload[d] EXCEPT !.skipped = "over"]]
            BY <2>1
        <3> QED BY <2>2, <2>3, <3>1
    <2>5. TypeOK'
        BY <2>1, <2>4 DEF Inv, TypeOK, attempt, routing, setting
    <2>6. ASSUME NEW c \in Calls PROVE CallInv(c)'
        BY <2>1 DEF attempt, routing, Inv, CallInv, Counted, Before, Ended, Transient, Fresh, Underway
    <2> QED BY <2>5, <2>6 DEF Inv
<1>3. CASE UNCHANGED vars
    BY <1>3 DEF vars, attempt, routing, setting, Inv, TypeOK, CallInv, Counted, Before, Ended,
                Transient, Fresh, Underway
<1> QED BY <1>1, <1>2, <1>3 DEF Next

\* The inductive invariant holds in every reachable state.
THEOREM Invariance == Spec => []Inv
<1> QED BY InitLemma, StepLemma, PTL DEF Spec

\* The state of every call and of the shared record is well formed.
THEOREM TypeCorrect == Spec => []TypeOK
<1>1. Inv => TypeOK
    BY DEF Inv
<1> QED BY <1>1, Invariance, PTL

\* However retries, repairs, stripped retries and early advances mix, a call makes
\* at most (Retries + 1) attempts for each model it has reached.
THEOREM BudgetHolds == Spec => []WithinBudget
<1>1. Inv => WithinBudget
    <2> SUFFICES ASSUME Inv, NEW c \in Calls
                 PROVE  IF pc[c] \in {"calling", "sleeping"}
                        THEN made[c] < hop[c] * (Retries + 1)
                        ELSE made[c] <= hop[c] * (Retries + 1)
        BY DEF WithinBudget
    <2>1. /\ Counted(c) /\ hop[c] \in Nat \ {0} /\ made[c] \in Nat /\ try[c] \in 0 .. Retries
          /\ pc[c] \in {"idle", "calling", "sleeping", "answered", "failed"}
        BY DEF Inv, CallInv, TypeOK, Hops
    <2>2. Before(hop[c]) \in Nat /\ Before(hop[c]) + Retries + 1 = hop[c] * (Retries + 1)
        BY <2>1, BeforeIs
    <2> QED BY <2>1, <2>2 DEF Counted
<1> QED BY <1>1, Invariance, PTL

\* No call ends on a transient failure or on an answer that does not validate while
\* a model is left, or attempts of the last one, unless its group is exhausted.
THEOREM NoEarlyEnd == Spec => []EndsAtTheEnd
<1>1. Inv => EndsAtTheEnd
    BY DEF Inv, CallInv, Ended, Transient, EndsAtTheEnd
<1> QED BY <1>1, Invariance, PTL

\* The first attempt of a model inherits nothing from the model before.
THEOREM ModelsStartFresh == Spec => []FreshModel
<1>1. Inv => FreshModel
    BY DEF Inv, CallInv, Fresh, FreshModel
<1> QED BY <1>1, Invariance, PTL

\* After a rejected signature every later attempt of the model is stripped, carries
\* no repair prompt, and follows the deployment that rejected it last.
THEOREM LatchIsKept == Spec => LatchHolds
<1> DEFINE A == \A c \in Calls : pc'[c] = "calling" /\ hop'[c] = hop[c] /\ try'[c] > try[c]
                    /\ (stripped[c] \/ last[c].kind = "replay") =>
                         /\ stripped'[c] /\ ~repairing'[c]
                         /\ last[c].kind = "replay" => pinned'[c] = last[c].deployment
<1>1. ASSUME Inv, Next PROVE A
    <2> SUFFICES ASSUME NEW c \in Calls, pc'[c] = "calling", try'[c] > try[c],
                        stripped[c] \/ last[c].kind = "replay"
                 PROVE  /\ stripped'[c] /\ ~repairing'[c]
                        /\ last[c].kind = "replay" => pinned'[c] = last[c].deployment
        OBVIOUS
    <2>1. try[c] \in Nat
        BY <1>1 DEF Inv, TypeOK
    <2>2. CASE Retry(c)
        BY <1>1, <2>2 DEF Retry, Inv, TypeOK
    <2>3. CASE Begin(c) \/ Outcome(c)
        <3>1. NotRetried(c)
            BY <1>1, <2>3, BeginMoves, FailMoves, RejectMoves, AnswerMoves DEF Outcome
        <3> QED BY <2>1, <3>1 DEF NotRetried
    <2>4. ASSUME NEW x \in Calls \ {c}, Begin(x) \/ Outcome(x) \/ Retry(x) PROVE FALSE
        <3>1. Same(x)
            BY <1>1, <2>4, BeginMoves, FailMoves, RejectMoves, AnswerMoves, RetryMoves DEF Outcome
        <3> QED BY <2>1, <3>1 DEF Same
    <2>5. ASSUME NEW d \in Deployments, Expire(d) PROVE FALSE
        BY <2>1, <2>5 DEF Expire, attempt
    <2> QED BY <1>1, <2>2, <2>3, <2>4, <2>5 DEF Next
<1>2. Inv /\ [Next]_vars => [A]_vars
    BY <1>1
<1> QED BY <1>2, Invariance, PTL DEF Spec, LatchHolds

\* A running call forgets no deployment it has learnt to skip.
THEOREM SkipsAreKept == Spec => SkipGrows
<1> DEFINE A == \A c \in Calls : pc[c] # "idle" => skip[c] \subseteq skip'[c]
<1>1. ASSUME Inv, Next PROVE A
    <2>1. skip \in [Calls -> SUBSET Deployments]
        BY <1>1 DEF Inv, TypeOK
    <2>2. ASSUME NEW x \in Calls, NEW ids, Merge(x, ids) PROVE A
        BY <2>1, <2>2 DEF Merge
    <2>3. ASSUME NEW x \in Calls, Begin(x) PROVE A
        BY <2>1, <2>3 DEF Begin
    <2>4. ASSUME NEW x \in Calls, Answer(x) PROVE A
        BY <2>2, <2>4 DEF Answer
    <2>5. ASSUME NEW x \in Calls, Fail(x) PROVE A
        BY <2>2, <2>5 DEF Fail, Absorb
    <2>6. CASE UNCHANGED skip
        BY <2>6
    <2> QED BY <1>1, <2>3, <2>4, <2>5, <2>6 DEF Next, Outcome, Reject, Retry, Expire, routing
<1>2. Inv /\ [Next]_vars => [A]_vars
    BY <1>1
<1> QED BY <1>2, Invariance, PTL DEF Spec, SkipGrows

\* A demotion ends only by running its time.
THEOREM DemotionsRunTheirTime == Spec => DemotionServed
<1> DEFINE A == \A d \in Deployments :
                    workload[d].skipped = "now" => workload'[d].skipped \in {"now", "over"}
<1>1. ASSUME Inv, Next PROVE A
    <2>1. workload \in [Deployments -> Samples]
        BY <1>1 DEF Inv, TypeOK
    <2>2. ASSUME NEW d \in Deployments, MarkSlow(d) PROVE A
        BY <2>1, <2>2 DEF MarkSlow, Samples
    <2>3. ASSUME NEW d \in Deployments, RecordSuccess(d) PROVE A
        BY <2>1, <2>3 DEF RecordSuccess, Samples
    <2>4. CASE ForgetExpired
        BY <2>1, <2>4 DEF ForgetExpired
    <2>5. CASE UNCHANGED workload
        BY <2>5
    <2>6. ASSUME NEW d \in Deployments, Expire(d) PROVE A
        BY <2>1, <2>6 DEF Expire, Samples
    <2>7. ASSUME NEW x \in Calls, Fail(x) PROVE A
        <3>1. PICK e \in Failures : Absorb(x, e)
            BY <2>7 DEF Fail
        <3>2. e.deployment \in Deployments \cup {None}
            BY FailuresAreErrors
        <3> QED BY <2>2, <2>5, <3>1, <3>2 DEF Absorb
    <2>8. ASSUME NEW x \in Calls, Answer(x) PROVE A
        BY <2>3, <2>5, <2>8 DEF Answer
    <2> QED BY <1>1, <2>4, <2>5, <2>6, <2>7, <2>8 DEF Next, Outcome, Begin, Reject, Retry
<1>2. Inv /\ [Next]_vars => [A]_vars
    BY <1>1
<1> QED BY <1>2, Invariance, PTL DEF Spec, DemotionServed

-----------------------------------------------------------------------------
(* Every call comes to an end.                                             *)

\* One step of a call towards its end: it returns, reaches a later model, or goes on within
\* the attempts of its model, from an attempt to the delay after it to the next attempt.
Closer(c) ==
    \/ pc'[c] \in {"answered", "failed"}
    \/ hop'[c] > hop[c]
    \/ /\ hop'[c] = hop[c]
       /\ \/ pc[c] = "calling" /\ pc'[c] = "sleeping" /\ try'[c] = try[c]
          \/ pc[c] = "sleeping" /\ pc'[c] = "calling" /\ try'[c] = try[c] + 1

Unmoved(c) == pc'[c] = pc[c] /\ hop'[c] = hop[c] /\ try'[c] = try[c]

\* A call under way is not moved by the others, and moves only towards its end; a call that
\* has returned stays so.
CallsAdvance ==
    [][\A c \in Calls : /\ Underway(c) => Unmoved(c) \/ Closer(c)
                        /\ pc[c] \in {"answered", "failed"} => Unmoved(c)]_vars

\* The failure of an attempt leads on, or to the end.
LEMMA FailCloser ==
    ASSUME Inv, NEW c \in Calls, Fail(c)
    PROVE  Closer(c)
<1>1. /\ Types /\ hop[c] \in Hops /\ hop[c] \in Nat /\ pc[c] = "calling"
      /\ hop[c] + 1 \in 1 .. (Models + 1)
    BY TypeOKIs DEF Inv, Fail, Types, Hops
<1>2. PICK e \in Failures :
          FailAdvancing(c, e) \/ FailExhausted(c, e) \/ FailRetried(c, e) \/ FailSpent(c, e)
    BY DEF Fail
<1>3. e \in Errors /\ [e EXCEPT !.class = "context_limit"] \in Errors
    BY FailuresAreErrors
<1>3a. ASSUME NEW CONSTANT m \in 1 .. (Models + 1), m = hop[c] + 1, NEW w \in Errors, Advance(c, m, w)
       PROVE  Closer(c)
    <2>1. Types' /\ (Entered(c, m)' \/ pc'[c] = "failed")
        BY <1>1, <1>3a, AdvanceMoves
    <2>2. CASE Entered(c, m)'
        <3>1. hop'[c] >= m
            BY <2>2 DEF Entered
        <3>2. hop'[c] \in Nat
            BY <2>1 DEF Types, Hops
        <3> QED BY <1>1, <1>3a, <3>1, <3>2 DEF Closer
    <2> QED BY <2>1, <2>2 DEF Closer
<1>4. ASSUME NEW w \in Errors, Advance(c, hop[c] + 1, w) PROVE Closer(c)
    BY <1>1, <1>3a, <1>4
<1>5. ASSUME NEW m, NEW w, GiveUp(c, m, w) PROVE Closer(c)
    BY <1>1, <1>5 DEF GiveUp, Types, Closer
<1>6. CASE FailRetried(c, e)
    BY <1>1, <1>6 DEF FailRetried, Types, Closer
<1> QED BY <1>2, <1>3, <1>4, <1>5, <1>6 DEF FailAdvancing, FailExhausted, FailSpent

\* However attempts fail, and whatever the other calls do, a call has only so many steps left:
\* models, attempts of a model, and the delay after an attempt.
THEOREM CallsComeToAnEnd == Spec => CallsAdvance
<1> DEFINE A == \A c \in Calls : /\ Underway(c) => Unmoved(c) \/ Closer(c)
                                 /\ pc[c] \in {"answered", "failed"} => Unmoved(c)
<1>1. ASSUME Inv, Next PROVE A
    <2> SUFFICES ASSUME NEW c \in Calls
                 PROVE  /\ Underway(c) => Unmoved(c) \/ Closer(c)
                        /\ pc[c] \in {"answered", "failed"} => Unmoved(c)
        OBVIOUS
    <2>0. Types
        BY <1>1, TypeOKIs DEF Inv
    <2>1. CASE Begin(c)
        BY <2>1 DEF Begin, Underway
    <2>2. CASE Fail(c)
        BY <1>1, <2>2, FailCloser DEF Fail
    <2>3. CASE Answer(c) \/ Reject(c)
        BY <2>0, <2>3 DEF Answer, Reject, GiveUp, Types, Closer
    <2>4. CASE Retry(c)
        BY <2>0, <2>4 DEF Retry, Types, Closer
    <2>5. ASSUME NEW x \in Calls \ {c}, Begin(x) \/ Outcome(x) \/ Retry(x) PROVE Unmoved(c)
        <3>1. Same(x)
            BY <1>1, <2>5, BeginMoves, FailMoves, RejectMoves, AnswerMoves, RetryMoves DEF Outcome
        <3> QED BY <3>1 DEF Same, Unmoved
    <2>6. ASSUME NEW d \in Deployments, Expire(d) PROVE Unmoved(c)
        BY <2>6 DEF Expire, attempt, Unmoved
    <2> QED BY <1>1, <2>1, <2>2, <2>3, <2>4, <2>5, <2>6 DEF Next, Outcome
<1>2. Inv /\ [Next]_vars => [A]_vars
    BY <1>1
<1> QED BY <1>2, Invariance, PTL DEF Spec, CallsAdvance
=============================================================================
