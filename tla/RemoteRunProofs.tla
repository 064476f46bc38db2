--------------------------- MODULE RemoteRunProofs ---------------------------
(***************************************************************************)
(* What is proved of RemoteRun, for any calls, inputs, servers and bounds. *)
(***************************************************************************)
EXTENDS RemoteRun, TLAPS

USE BoundsAssumption, ConfiguredAssumption, AssignmentsAssumption

\* Flow runs are where the deployment is, under the key of their inputs, one for each key.
Placed ==
  /\ \A x \in children : x.server \in deployed /\ x.key = KeyOf[x.input]
  /\ \A x, y \in children : x.server = y.server /\ x.key = y.key => x = y

\* The second server is asked only if the first does not know the deployment.
SecondChoice ==
  /\ \A c \in Calls : server[c] = "configured" => "active" \notin deployed
  /\ \A x \in children : x.server = "configured" => "active" \notin deployed

\* A call that has a result has it from here or from the flow run of its key.
Earned(c) == inline \/ \E x \in children : Alike(x.input, input[c]) /\ x.state = "completed"
Resulted(c) == pc[c] \in {"closing", "report", "returned"} \/ "completed" \in told[c]
Own ==
  /\ \A c \in Calls : pc[c] = "inline" => inline
  /\ \A c \in Calls : Resulted(c) => Earned(c)

\* A submission that waits for its next attempt has one.
Counted == \A c \in Calls : pc[c] = "backoff" => tries[c] < MaxSubmissions

Inv == TypeOK /\ Placed /\ SecondChoice /\ Own /\ Counted

-----------------------------------------------------------------------------
\* No call has begun: the invariant holds.
LEMMA InitHolds == Init => Inv
<1>. SUFFICES ASSUME Init PROVE Inv
  OBVIOUS
<1>1. TypeOK
  <2>1. \A c \in Calls : pc[c] = "idle" /\ server[c] = "active" /\ told[c] = {}
    BY DEF Init
  <2>. QED
    BY <2>1 DEF Init, TypeOK, Servers, Inside, Remote, Ended
<1>2. Placed /\ SecondChoice /\ Own /\ Counted
  BY DEF Init, Placed, SecondChoice, Own, Resulted, Counted
<1>. QED
  BY <1>1, <1>2 DEF Inv

Child == [server : Servers, key : Keys, input : Inputs,
          state : {"pending", "completed", "failed"}]

\* What a submission leaves on the server.
LEMMA LandedType ==
  ASSUME TypeOK, NEW c \in Calls, Landed(c)
  PROVE  children' \subseteq Child
<1>1. server[c] \in Servers /\ input[c] \in Inputs /\ children \subseteq Child
  BY DEF TypeOK, Child
<1>2. [server |-> server[c], key |-> Key(c), input |-> input[c], state |-> "pending"] \in Child
  BY <1>1 DEF Child, Key, Keys
<1>. QED
  BY <1>1, <1>2 DEF Landed

\* Every step leaves the flow runs alone, submits one, or ends one.
LEMMA ChildrenStep ==
  ASSUME TypeOK, [Next]_vars
  PROVE  \/ UNCHANGED children
         \/ \E c \in Calls : server[c] \in deployed /\ Landed(c)
         \/ ChildEnds
<1>1. ASSUME NEW c \in Calls, PerhapsLanded(c)
      PROVE  UNCHANGED children \/ (server[c] \in deployed /\ Landed(c))
  BY <1>1 DEF PerhapsLanded
<1>2. ASSUME NEW c \in Calls, CallStep(c)
      PROVE  UNCHANGED children \/ (server[c] \in deployed /\ Landed(c))
  BY <1>1, <1>2 DEF CallStep, Opened, Announced, InlineEnds, Submitted, SubmissionFails,
    Resubmitted, NotFound, Refused, Polled, PollFails, Rested, Fetched, Closed, Reported,
    SpanFailed, FailureReported
<1>3. ASSUME NEW c \in Calls, Cancelled(c)
      PROVE  UNCHANGED children \/ (server[c] \in deployed /\ Landed(c))
  BY <1>1, <1>3 DEF Cancelled, CancelledInside, CancelledAtSpan, CancelledAfter
<1>4. ASSUME NEW c \in Calls, Begin(c) \/ PatienceEnds(c)
      PROVE  UNCHANGED children
  BY <1>4 DEF Begin, PatienceEnds
<1>5. ASSUME UNCHANGED vars PROVE UNCHANGED children
  BY <1>5 DEF vars
<1>. QED
  BY <1>2, <1>3, <1>4, <1>5 DEF Next

\* What is given to a call stays as it is.
LEMMA GivenStep ==
  ASSUME [Next]_vars
  PROVE  UNCHANGED given
<1>1. ASSUME NEW c \in Calls, CallStep(c) PROVE UNCHANGED given
  BY <1>1 DEF CallStep, Opened, Announced, InlineEnds, Submitted, SubmissionFails,
    Resubmitted, NotFound, Refused, Polled, PollFails, Rested, Fetched, Closed, Reported,
    SpanFailed, FailureReported
<1>2. ASSUME NEW c \in Calls, Cancelled(c) PROVE UNCHANGED given
  BY <1>2 DEF Cancelled, CancelledInside, CancelledAtSpan, CancelledAfter
<1>3. ASSUME NEW c \in Calls, Begin(c) \/ PatienceEnds(c) PROVE UNCHANGED given
  BY <1>3 DEF Begin, PatienceEnds
<1>4. ASSUME ChildEnds \/ UNCHANGED vars PROVE UNCHANGED given
  BY <1>4 DEF ChildEnds, vars
<1>. QED
  BY <1>1, <1>2, <1>3, <1>4 DEF Next

\* A flow run that ends stays a flow run.
LEMMA EndType ==
  ASSUME TypeOK, ChildEnds
  PROVE  children' \subseteq Child
<1>1. children \subseteq Child
  BY DEF TypeOK, Child
<1>2. PICK x \in children, s \in {"completed", "failed"} :
        children' = (children \ {x}) \cup {[x EXCEPT !.state = s]}
  BY DEF ChildEnds
<1>3. [x EXCEPT !.state = s] \in Child
  BY <1>1 DEF Child
<1>. QED
  BY <1>1, <1>2, <1>3

-----------------------------------------------------------------------------
\* Types, one action at a time.
Phases ==
  {"idle", "opening", "closing", "report", "failing", "reportfail"} \cup Inside \cup Ended

TypeRest ==
  /\ pc \in [Calls -> Phases]
  /\ server \in [Calls -> Servers]
  /\ \A c \in Calls : server[c] = "configured" => Configured
  /\ tries \in [Calls -> 0..MaxSubmissions] /\ errors \in [Calls -> 0..(MaxPollErrors - 1)]
  /\ late \in [Calls -> BOOLEAN]
  /\ span \in [Calls -> {"none", "running", "completed", "failed"}]
  /\ told \in [Calls -> SUBSET {"completed", "failed"}]

\* What a call publishes is told of that call alone, or lost.
LEMMA Published ==
  ASSUME TypeOK, NEW c \in Calls, NEW e \in {"completed", "failed"}, Publish(c, e)
  PROVE  /\ told' \in [Calls -> SUBSET {"completed", "failed"}]
         /\ \A d \in Calls : told'[d] \subseteq told[d] \cup (IF d = c THEN {e} ELSE {})
<1>1. PICK sent \in {{}, {e}} : told' = [told EXCEPT ![c] = told[c] \cup sent]
  BY DEF Publish
<1>2. told \in [Calls -> SUBSET {"completed", "failed"}]
  BY DEF TypeOK
<1>3. told[c] \cup sent \in SUBSET {"completed", "failed"}
  BY <1>2
<1>. QED
  BY <1>1, <1>2, <1>3

\* An action of call c that moves it to p and changes nothing else of TypeRest.
LEMMA Moves ==
  ASSUME TypeOK, NEW c \in Calls, NEW p \in Phases, GoTo(c, p)
  PROVE  /\ pc' \in [Calls -> Phases]
         /\ pc'[c] = p
         /\ \A d \in Calls : d # c => pc'[d] = pc[d]
BY DEF TypeOK, GoTo, Phases

\* Every step keeps the state well formed.
LEMMA TypeStep ==
  ASSUME TypeOK, Counted, [Next]_vars
  PROVE  TypeOK' /\ Counted'
<1>. USE DEF talk, tells, TypeRest
<1>0. TypeRest /\ UNCHANGED given
  BY GivenStep DEF TypeOK, Phases
<1>1. children' \subseteq Child
  BY ChildrenStep, LandedType, EndType DEF TypeOK, Child
<1>2. ASSUME NEW c \in Calls, Begin(c) PROVE TypeRest' /\ Counted'
  BY <1>0, <1>2, Moves DEF Begin, Phases, Counted
<1>3. ASSUME NEW c \in Calls, Opened(c) PROVE TypeRest' /\ Counted'
  BY <1>0, <1>3, Moves DEF Opened, Phases, Inside, Counted
<1>4. ASSUME NEW c \in Calls, Announced(c) PROVE TypeRest' /\ Counted'
  BY <1>0, <1>4, Moves DEF Announced, Phases, Inside, Remote, Counted
<1>5. ASSUME NEW c \in Calls, InlineEnds(c) PROVE TypeRest' /\ Counted'
  BY <1>0, <1>5, Moves DEF InlineEnds, Phases, Counted
<1>6. ASSUME NEW c \in Calls, Submitted(c) PROVE TypeRest' /\ Counted'
  BY <1>0, <1>6, Moves DEF Submitted, Phases, Inside, Remote, Counted
<1>7. ASSUME NEW c \in Calls, SubmissionFails(c) PROVE TypeRest' /\ Counted'
  BY <1>0, <1>7, Moves DEF SubmissionFails, Phases, Inside, Remote, Counted
<1>8. ASSUME NEW c \in Calls, Resubmitted(c) PROVE TypeRest' /\ Counted'
  BY <1>0, <1>8, Moves DEF Resubmitted, Phases, Inside, Remote, Counted
<1>9. ASSUME NEW c \in Calls, NotFound(c) PROVE TypeRest' /\ Counted'
  BY <1>0, <1>9, Moves DEF NotFound, Phases, Counted, Servers
<1>10. ASSUME NEW c \in Calls, Refused(c) PROVE TypeRest' /\ Counted'
  BY <1>0, <1>10, Moves DEF Refused, Phases, Counted
<1>11. ASSUME NEW c \in Calls, Polled(c) PROVE TypeRest' /\ Counted'
  BY <1>0, <1>11, Moves DEF Polled, Phases, Inside, Remote, Counted
<1>12. ASSUME NEW c \in Calls, PollFails(c) PROVE TypeRest' /\ Counted'
  BY <1>0, <1>12, Moves DEF PollFails, Phases, Inside, Remote, Counted
<1>13. ASSUME NEW c \in Calls, Rested(c) PROVE TypeRest' /\ Counted'
  BY <1>0, <1>13, Moves DEF Rested, Phases, Inside, Remote, Counted
<1>14. ASSUME NEW c \in Calls, Fetched(c) PROVE TypeRest' /\ Counted'
  BY <1>0, <1>14, Moves DEF Fetched, Phases, Counted
<1>15. ASSUME NEW c \in Calls, Closed(c) \/ SpanFailed(c) PROVE TypeRest' /\ Counted'
  BY <1>0, <1>15, Moves DEF Closed, SpanFailed, Phases, Counted
<1>16. ASSUME NEW c \in Calls, Reported(c) \/ FailureReported(c) PROVE TypeRest' /\ Counted'
  BY <1>0, <1>16, Moves, Published DEF Reported, FailureReported, Phases, Ended, Counted
<1>17. ASSUME NEW c \in Calls, CancelledInside(c) PROVE TypeRest' /\ Counted'
  BY <1>0, <1>17, Moves DEF CancelledInside, Phases, Counted
<1>18. ASSUME NEW c \in Calls, CancelledAtSpan(c) PROVE TypeRest' /\ Counted'
  BY <1>0, <1>18, Moves DEF CancelledAtSpan, Phases, Counted
<1>19. ASSUME NEW c \in Calls, CancelledAfter(c) PROVE TypeRest' /\ Counted'
  BY <1>0, <1>19, Moves, Published DEF CancelledAfter, Phases, Ended, Counted
<1>20. ASSUME NEW c \in Calls, PatienceEnds(c) PROVE TypeRest' /\ Counted'
  BY <1>0, <1>20 DEF PatienceEnds, Counted
<1>21. ASSUME ChildEnds \/ UNCHANGED vars PROVE TypeRest' /\ Counted'
  BY <1>0, <1>21 DEF ChildEnds, vars, Counted
<1>22. TypeRest' /\ Counted'
  <2>. HIDE DEF TypeRest, Counted, talk, tells
  <2>1. ASSUME NEW c \in Calls, CallStep(c) PROVE TypeRest' /\ Counted'
    BY <2>1, <1>3, <1>4, <1>5, <1>6, <1>7, <1>8, <1>9, <1>10, <1>11, <1>12, <1>13, <1>14,
      <1>15, <1>16 DEF CallStep
  <2>2. ASSUME NEW c \in Calls, Cancelled(c) PROVE TypeRest' /\ Counted'
    BY <2>2, <1>17, <1>18, <1>19 DEF Cancelled
  <2>. QED
    BY <2>1, <2>2, <1>2, <1>20, <1>21 DEF Next
<1>. QED
  BY <1>0, <1>1, <1>22 DEF TypeOK, given, Child, Phases

-----------------------------------------------------------------------------
\* Where flow runs are, and that a completed one stays completed.
Stays ==
  \A x \in children : x.state = "completed" =>
    \E y \in children' : y.input = x.input /\ y.state = "completed"

\* No step starts a flow run elsewhere than where its deployment is known, or again.
LEMMA PlacedStep ==
  ASSUME Inv, [Next]_vars
  PROVE  Placed' /\ Stays /\ (\A x \in children' : x.server = "configured" => "active" \notin deployed)
<1>0. UNCHANGED given /\ TypeOK /\ Placed /\ SecondChoice
  BY GivenStep DEF Inv
<1>1. CASE UNCHANGED children
  BY <1>0, <1>1 DEF Placed, Stays, SecondChoice, given
<1>2. ASSUME NEW c \in Calls, server[c] \in deployed, Landed(c)
      PROVE  Placed' /\ Stays /\ (\A x \in children' : x.server = "configured" => "active" \notin deployed)
  <2>1. CASE Mine(c) # {}
    BY <2>1, <1>0, <1>2 DEF Landed, Placed, Stays, SecondChoice, given
  <2>2. CASE Mine(c) = {}
    <3>. DEFINE new == [server |-> server[c], key |-> Key(c), input |-> input[c],
                        state |-> "pending"]
    <3>1. children' = children \cup {new}
      BY <2>2, <1>2 DEF Landed
    <3>2. new.server = server[c] /\ new.key = KeyOf[input[c]] /\ new.input = input[c]
      BY DEF Key
    <3>3. \A x \in children : ~(x.server = new.server /\ x.key = new.key)
      BY <2>2, <3>2 DEF Mine, Key
    <3>4. new.server = "configured" => "active" \notin deployed
      BY <3>2, <1>0 DEF SecondChoice
    <3>. HIDE DEF new
    <3>5. deployed' = deployed
      BY <1>0 DEF given
    <3>6. \A x \in children' : x.server \in deployed' /\ x.key = KeyOf[x.input]
      BY <3>1, <3>2, <3>5, <1>0, <1>2 DEF Placed
    <3>7. \A x, y \in children' : x.server = y.server /\ x.key = y.key => x = y
      BY <3>1, <3>3, <1>0 DEF Placed
    <3>. QED
      BY <3>1, <3>4, <3>6, <3>7, <1>0 DEF Placed, Stays, SecondChoice
  <2>. QED
    BY <2>1, <2>2
<1>3. CASE ChildEnds
  <2>1. PICK x \in children, s \in {"completed", "failed"} :
          x.state = "pending" /\ children' = (children \ {x}) \cup {[x EXCEPT !.state = s]}
    BY <1>3 DEF ChildEnds
  <2>. DEFINE new == [x EXCEPT !.state = s]
  <2>2. x \in Child /\ children' = (children \ {x}) \cup {new}
    BY <2>1, <1>0 DEF TypeOK, Child
  <2>3. new.server = x.server /\ new.key = x.key /\ new.input = x.input
    BY <2>2 DEF Child
  <2>. HIDE DEF new
  <2>4. deployed' = deployed
    BY <1>0 DEF given
  <2>5. \A y \in children' : y.server \in deployed' /\ y.key = KeyOf[y.input]
    BY <2>1, <2>2, <2>3, <2>4, <1>0 DEF Placed
  <2>6. \A y, z \in children' : y.server = z.server /\ y.key = z.key => y = z
    BY <2>1, <2>2, <2>3, <1>0 DEF Placed
  <2>7. Stays
    BY <2>1, <2>2 DEF Stays
  <2>8. \A y \in children' : y.server = "configured" => "active" \notin deployed
    BY <2>1, <2>2, <2>3, <1>0 DEF SecondChoice
  <2>. QED
    BY <2>5, <2>6, <2>7, <2>8 DEF Placed
<1>. QED
  BY <1>0, <1>1, <1>2, <1>3, ChildrenStep

\* A call turns to the second server when the first has answered that it knows nothing.
LEMMA SecondChoiceStep ==
  ASSUME Inv, [Next]_vars
  PROVE  SecondChoice'
<1>0. UNCHANGED given /\ TypeOK /\ SecondChoice
  BY GivenStep DEF Inv
<1>1. ASSUME NEW c \in Calls, NotFound(c)
      PROVE  \A d \in Calls : server'[d] = "configured" => "active" \notin deployed
  BY <1>0, <1>1 DEF NotFound, TypeOK, SecondChoice
<1>2. ASSUME NEW c \in Calls, CallStep(c), ~NotFound(c) PROVE UNCHANGED server
  BY <1>2 DEF CallStep, Opened, Announced, InlineEnds, Submitted, SubmissionFails,
    Resubmitted, Refused, Polled, PollFails, Rested, Fetched, Closed, Reported,
    SpanFailed, FailureReported, talk
<1>3. ASSUME NEW c \in Calls, Cancelled(c) PROVE UNCHANGED server
  BY <1>3 DEF Cancelled, CancelledInside, CancelledAtSpan, CancelledAfter, talk
<1>4. ASSUME NEW c \in Calls, Begin(c) \/ PatienceEnds(c) PROVE UNCHANGED server
  BY <1>4 DEF Begin, PatienceEnds, talk
<1>5. ASSUME ChildEnds \/ UNCHANGED vars PROVE UNCHANGED server
  BY <1>5 DEF ChildEnds, vars, talk
<1>6. \A d \in Calls : server'[d] = "configured" => "active" \notin deployed
  BY <1>0, <1>1, <1>2, <1>3, <1>4, <1>5 DEF Next, SecondChoice
<1>. QED
  BY <1>0, <1>6, PlacedStep DEF SecondChoice, given

\* How a step changes what a call has: it gets a result only from inline or its own flow run.
Gains(c) == Resulted(c)' => Resulted(c) \/ Earned(c)

\* A call reaches the phases of a result only with one it earned.
LEMMA GainStep ==
  ASSUME Inv, [Next]_vars, NEW d \in Calls
  PROVE  Gains(d) /\ (pc'[d] = "inline" => inline)
<1>0. TypeOK /\ Placed /\ Own /\ pc \in [Calls -> Phases]
  BY DEF Inv, TypeOK, Phases
<1>. DEFINE Goal == Gains(d) /\ (pc'[d] = "inline" => inline)
<1>. USE DEF Gains, Resulted, Own, tells
<1>1. ASSUME NEW c \in Calls, NEW p \in Phases \ {"closing", "report", "returned", "inline"},
             GoTo(c, p), UNCHANGED told
      PROVE  Goal
  BY <1>0, <1>1, Moves
<1>2. ASSUME NEW c \in Calls, Begin(c) \/ Opened(c) PROVE Goal
  BY <1>1, <1>2 DEF Begin, Opened, Phases, Inside
<1>3. ASSUME NEW c \in Calls, Announced(c) PROVE Goal
  BY <1>0, <1>3, Moves DEF Announced, Phases, Inside, Remote
<1>4. ASSUME NEW c \in Calls, InlineEnds(c) PROVE Goal
  BY <1>0, <1>4, Moves DEF InlineEnds, Phases, Earned
<1>5. ASSUME NEW c \in Calls, Submitted(c) \/ Resubmitted(c) \/ Refused(c) \/ Rested(c)
      PROVE  Goal
  BY <1>1, <1>5 DEF Submitted, Resubmitted, Refused, Rested, Phases, Inside, Remote
<1>6. ASSUME NEW c \in Calls, SubmissionFails(c) \/ Polled(c) PROVE Goal
  BY <1>1, <1>6 DEF SubmissionFails, Polled, Phases, Inside, Remote
<1>7. ASSUME NEW c \in Calls, NotFound(c) PROVE Goal
  BY <1>0, <1>1, <1>7 DEF NotFound, Phases
<1>8. ASSUME NEW c \in Calls, PollFails(c) PROVE Goal
  BY <1>1, <1>8 DEF PollFails, Phases, Inside, Remote
<1>9. ASSUME NEW c \in Calls, Fetched(c) PROVE Goal
  <2>1. CASE GoTo(c, "failing")
    BY <2>1, <1>1, <1>9 DEF Fetched, Phases
  <2>2. CASE \E x \in Mine(c) : x.state = "completed" /\ GoTo(c, "closing")
    <3>1. Earned(c)
      BY <2>2, <1>0 DEF Earned, Alike, Mine, Placed, Key
    <3>2. UNCHANGED told /\ GoTo(c, "closing")
      BY <2>2, <1>9 DEF Fetched
    <3>. QED
      BY <3>1, <3>2, <1>0, Moves DEF Phases
  <2>. QED
    BY <2>1, <2>2, <1>9 DEF Fetched
<1>10. ASSUME NEW c \in Calls, Closed(c) PROVE Goal
  BY <1>0, <1>10, Moves DEF Closed, Phases
<1>11. ASSUME NEW c \in Calls, Reported(c) PROVE Goal
  <2>1. /\ \A e \in Calls : told'[e] \subseteq told[e] \cup (IF e = c THEN {"completed"} ELSE {})
        /\ pc[c] = "report" /\ GoTo(c, "returned")
    BY <1>0, <1>11, Published DEF Reported
  <2>2. pc'[c] = "returned" /\ \A e \in Calls : e # c => pc'[e] = pc[e]
    BY <2>1, <1>0, Moves DEF Phases, Ended
  <2>. QED
    BY <2>1, <2>2, <1>0
<1>12. ASSUME NEW c \in Calls, SpanFailed(c) \/ CancelledInside(c) \/ CancelledAtSpan(c)
       PROVE  Goal
  BY <1>1, <1>12 DEF SpanFailed, CancelledInside, CancelledAtSpan, Phases
<1>13. ASSUME NEW c \in Calls, FailureReported(c) PROVE Goal
  <2>1. /\ \A e \in Calls : told'[e] \subseteq told[e] \cup (IF e = c THEN {"failed"} ELSE {})
        /\ GoTo(c, "raised")
    BY <1>0, <1>13, Published DEF FailureReported
  <2>2. pc'[c] = "raised" /\ \A e \in Calls : e # c => pc'[e] = pc[e]
    BY <2>1, <1>0, Moves DEF Phases, Ended
  <2>. QED
    BY <2>1, <2>2, <1>0
<1>14. ASSUME NEW c \in Calls, CancelledAfter(c) PROVE Goal
  <2>1. PICK e \in {"completed", "failed"} :
          Publish(c, e) /\ (e = "completed" => pc[c] = "report")
    BY <1>14 DEF CancelledAfter
  <2>2. \A f \in Calls : told'[f] \subseteq told[f] \cup (IF f = c THEN {e} ELSE {})
    BY <2>1, <1>0, Published
  <2>3. pc'[c] = "raised" /\ \A f \in Calls : f # c => pc'[f] = pc[f]
    BY <1>14, <1>0, Moves DEF CancelledAfter, Phases, Ended
  <2>. QED
    BY <2>1, <2>2, <2>3, <1>0
<1>15. ASSUME (\E c \in Calls : PatienceEnds(c)) \/ ChildEnds \/ UNCHANGED vars PROVE Goal
  BY <1>0, <1>15 DEF PatienceEnds, ChildEnds, vars
<1>. HIDE DEF Goal, Gains, Resulted, Own, tells
<1>16. ASSUME NEW c \in Calls, CallStep(c) PROVE Goal
  BY <1>16, <1>2, <1>3, <1>4, <1>5, <1>6, <1>7, <1>8, <1>9, <1>10, <1>11, <1>12, <1>13
    DEF CallStep
<1>17. ASSUME NEW c \in Calls, Cancelled(c) PROVE Goal
  BY <1>17, <1>12, <1>14 DEF Cancelled
<1>18. Goal
  BY <1>2, <1>15, <1>16, <1>17 DEF Next
<1>. QED
  BY <1>18 DEF Goal

\* Every step keeps results with the calls that earned them.
LEMMA OwnStep ==
  ASSUME Inv, [Next]_vars
  PROVE  Own'
<1>1. UNCHANGED given /\ Stays /\ Own
  BY GivenStep, PlacedStep DEF Inv
<1>2. ASSUME NEW c \in Calls, Earned(c) PROVE Earned(c)'
  BY <1>1, <1>2 DEF Earned, Stays, given
<1>3. \A c \in Calls : Gains(c) /\ (pc'[c] = "inline" => inline)
  BY GainStep
<1>. QED
  BY <1>1, <1>2, <1>3 DEF Own, Gains, given

-----------------------------------------------------------------------------
\* Every reachable state satisfies the inductive invariant.
THEOREM Invariance == Spec => []Inv
<1>1. Inv /\ [Next]_vars => Inv'
  BY TypeStep, PlacedStep, SecondChoiceStep, OwnStep DEF Inv
<1>. QED
  BY <1>1, InitHolds, PTL DEF Spec

\* The state is well formed: calls stay within their submissions and their failed polls.
THEOREM TypeCorrect == Spec => []TypeOK
  BY Invariance, PTL DEF Inv

\* Inputs that are alike are started once: their flow runs have one key, and two servers never
\* have both, since the second is asked only if the first knows nothing.
THEOREM StartsOnce == Spec => []OneChild
<1>1. Inv => OneChild
  <2>. SUFFICES ASSUME Inv, NEW x \in children, NEW y \in children, Alike(x.input, y.input)
               PROVE  x = y
    BY DEF OneChild
  <2>1. x.key = y.key /\ x.server \in deployed /\ y.server \in deployed
    BY DEF Inv, Placed, Alike
  <2>2. x.server \in {"active", "configured"} /\ y.server \in {"active", "configured"}
    BY DEF Inv, TypeOK, Servers
  <2>3. x.server = y.server
    BY <2>1, <2>2 DEF Inv, SecondChoice
  <2>. QED
    BY <2>1, <2>3 DEF Inv, Placed
<1>. QED
  BY <1>1, Invariance, PTL

\* A call returns or reports only the result of a completed flow run of its own inputs, or of
\* inputs that the fingerprint or the digest cannot tell from them.
THEOREM ReturnsItsOwn == Spec => []OwnResult
<1>1. Inv => OwnResult
  BY DEF Inv, Own, Resulted, Earned, OwnResult
<1>. QED
  BY <1>1, Invariance, PTL
-----------------------------------------------------------------------------
(* Every call comes to an end.                                             *)

\* How far a call has come.
Stage == [p \in Phases |->
  CASE p = "idle" -> 0 [] p = "opening" -> 1 [] p = "announce" -> 2
    [] p \in {"submitting", "backoff"} -> 3 [] p \in {"polling", "resting"} -> 4
    [] p \in {"fetching", "inline"} -> 5 [] p = "closing" -> 6 [] p = "report" -> 7
    [] p = "failing" -> 8 [] p = "reportfail" -> 9 [] p \in Ended -> 10]

\* One step towards the end while a call submits: it turns to the second server, submits once
\* more, or waits to.
NearerSubmitting(c) ==
  \/ server[c] = "active" /\ server'[c] = "configured"
  \/ /\ server'[c] = server[c]
     /\ \/ tries'[c] = tries[c] + 1
        \/ tries'[c] = tries[c] /\ pc[c] = "submitting" /\ pc'[c] = "backoff"

\* While it polls: it rests, or has waited for too long.
NearerPolling(c) == pc[c] = "polling" /\ pc'[c] = "resting"

\* The one step that brings a call no nearer to its end: the next poll, while it has patience.
PollsAgain(c) == pc[c] = "resting" /\ pc'[c] = "polling" /\ ~late[c]

Closer(c) ==
  \/ Stage[pc'[c]] > Stage[pc[c]]
  \/ Stage[pc[c]] = 3 /\ Stage[pc'[c]] = 3 /\ NearerSubmitting(c)
  \/ NearerPolling(c)

\* Each step of a call brings it closer to its end, or polls again before max_poll_seconds are
\* over; they are over once and for all.  Nobody else moves the call.  With the bounds of
\* TypeOK on its submissions, a call that is late has only finitely many steps left
\* (_submit_remote_flow_run, _poll_remote_flow_run).
CallsAdvance ==
  [][\A c \in Calls :
       /\ pc'[c] # pc[c] \/ server'[c] # server[c] \/ tries'[c] # tries[c]
            => Closer(c) \/ PollsAgain(c)
       /\ CallStep(c) => Closer(c) \/ PollsAgain(c)
       /\ late[c] => late'[c]]_vars

\* A step of call c brings it closer, or polls again.
LEMMA CallCloser ==
  ASSUME Inv, NEW c \in Calls, Begin(c) \/ CallStep(c) \/ Cancelled(c)
  PROVE  Closer(c) \/ PollsAgain(c)
<1>0. TypeOK /\ pc[c] \in Phases
  BY DEF Inv, TypeOK, Phases
<1>. USE DEF Closer, Stage, Phases, Inside, Remote, Ended
<1>1. CASE Begin(c) \/ Opened(c) \/ Announced(c) \/ InlineEnds(c) \/ Submitted(c)
  BY <1>0, <1>1, Moves DEF Begin, Opened, Announced, InlineEnds, Submitted
<1>2. CASE SubmissionFails(c)
  BY <1>0, <1>2, Moves DEF SubmissionFails, NearerSubmitting, talk
<1>3. CASE Resubmitted(c)
  <2>1. pc'[c] = "submitting" /\ pc[c] = "backoff"
    BY <1>0, <1>3, Moves DEF Resubmitted
  <2>2. NearerSubmitting(c)
    BY <1>0, <1>3 DEF Resubmitted, NearerSubmitting, TypeOK
  <2>. QED
    BY <2>1, <2>2
<1>4. CASE NotFound(c)
  BY <1>0, <1>4, Moves DEF NotFound, NearerSubmitting, TypeOK
<1>5. CASE Refused(c) \/ Fetched(c) \/ Closed(c) \/ SpanFailed(c) \/ Reported(c) \/ FailureReported(c)
  BY <1>0, <1>5, Moves DEF Refused, Fetched, Closed, SpanFailed, Reported, FailureReported
<1>6. CASE Polled(c) \/ PollFails(c) \/ Rested(c)
  BY <1>0, <1>6, Moves DEF Polled, PollFails, Rested, NearerPolling, PollsAgain
<1>7. CASE Cancelled(c)
  BY <1>0, <1>7, Moves DEF Cancelled, CancelledInside, CancelledAtSpan, CancelledAfter
<1>. QED
  BY <1>1, <1>2, <1>3, <1>4, <1>5, <1>6, <1>7 DEF CallStep

\* A step of call c moves no other call.
LEMMA OthersStay ==
  ASSUME Inv, NEW c \in Calls, Begin(c) \/ CallStep(c) \/ Cancelled(c), NEW d \in Calls, d # c
  PROVE  pc'[d] = pc[d] /\ server'[d] = server[d] /\ tries'[d] = tries[d]
<1>0. TypeOK
  BY DEF Inv
<1>1. pc'[d] = pc[d]
  BY <1>0 DEF TypeOK, GoTo, CallStep, Cancelled, Begin, Opened, Announced, InlineEnds, Submitted,
    SubmissionFails, Resubmitted, NotFound, Refused, Polled, PollFails, Rested, Fetched, Closed,
    Reported, SpanFailed, FailureReported, CancelledInside, CancelledAtSpan, CancelledAfter
<1>2. server'[d] = server[d] /\ tries'[d] = tries[d]
  BY <1>0 DEF TypeOK, talk, CallStep, Cancelled, Begin, Opened, Announced, InlineEnds, Submitted,
    SubmissionFails, Resubmitted, NotFound, Refused, Polled, PollFails, Rested, Fetched, Closed,
    Reported, SpanFailed, FailureReported, CancelledInside, CancelledAtSpan, CancelledAfter
<1>. QED
  BY <1>1, <1>2

\* Time runs one way.
LEMMA LateStays ==
  ASSUME Inv, Next, NEW c \in Calls, late[c]
  PROVE  late'[c]
<1>1. ASSUME NEW d \in Calls, Begin(d) \/ CallStep(d) \/ Cancelled(d) PROVE late'[c]
  BY <1>1 DEF CallStep, Cancelled, Begin, Opened, Announced, InlineEnds, Submitted,
    SubmissionFails, Resubmitted, NotFound, Refused, Polled, PollFails, Rested, Fetched, Closed,
    Reported, SpanFailed, FailureReported, CancelledInside, CancelledAtSpan, CancelledAfter
<1>2. ASSUME NEW d \in Calls, PatienceEnds(d) PROVE late'[c]
  BY <1>2 DEF PatienceEnds, Inv, TypeOK
<1>. QED
  BY <1>1, <1>2 DEF Next, ChildEnds

\* No call polls, submits or waits for ever of itself.
THEOREM CallsComeToAnEnd == Spec => CallsAdvance
<1> DEFINE Moved(c) == pc'[c] # pc[c] \/ server'[c] # server[c] \/ tries'[c] # tries[c]
           A == \A c \in Calls :
                  /\ Moved(c) => Closer(c) \/ PollsAgain(c)
                  /\ CallStep(c) => Closer(c) \/ PollsAgain(c)
                  /\ late[c] => late'[c]
<1>1. ASSUME Inv, Next, NEW c \in Calls, Moved(c) PROVE Closer(c) \/ PollsAgain(c)
  <2>1. PICK d \in Calls : Begin(d) \/ CallStep(d) \/ Cancelled(d)
    BY <1>1 DEF Next, PatienceEnds, ChildEnds, talk
  <2>. QED
    BY <1>1, <2>1, OthersStay, CallCloser
<1>2. Inv /\ [Next]_vars => [A]_vars
  BY <1>1, CallCloser, LateStays
<1>. QED
  BY <1>2, Invariance, PTL DEF Spec, CallsAdvance
-----------------------------------------------------------------------------
(* RemoteRun implements RemoteJobs.                                        *)

\* The job of a key is its flow run, on whichever server; a call is open until it returns
\* or raises.
Job(k) ==
  IF \E x \in children : x.key = k THEN (CHOOSE x \in children : x.key = k).state ELSE "none"
JobMap == [k \in Keys |-> Job(k)]
Outcome(p) == IF p = "returned" THEN "result" ELSE IF p = "raised" THEN "error" ELSE "open"
OutcomeMap == [c \in Calls |-> Outcome(pc[c])]

Jobs == INSTANCE RemoteJobs WITH job <- JobMap, outcome <- OutcomeMap

\* Remote deployments keep the promise of RemoteJobs.
JobsSpec == Jobs!Spec

\* A call talks to a server only if the deployment does not run in this process.
Elsewhere == \A c \in Calls : pc[c] \in Remote => ~inline

JobInv == Inv /\ OneChild /\ Elsewhere

\* Flow runs are told apart by their keys.
LEMMA OnePerKey ==
  ASSUME JobInv
  PROVE  \A x, y \in children : x.key = y.key => x = y
BY DEF JobInv, Inv, Placed, OneChild, Alike

\* The state of a flow run is that of the job of its key.
LEMMA JobIs ==
  ASSUME JobInv, NEW x \in children
  PROVE  Job(x.key) = x.state
<1>1. (CHOOSE y \in children : y.key = x.key) = x
  BY OnePerKey
<1>. QED
  BY <1>1 DEF Job

\* No step of a call whose deployment runs in its process leads to a server.
LEMMA ElsewhereStep ==
  ASSUME Inv, Elsewhere, [Next]_vars
  PROVE  Elsewhere'
<1>0. TypeOK /\ UNCHANGED given
  BY GivenStep DEF Inv
<1>. USE DEF Phases, Inside, Remote, Ended, Elsewhere, given
<1>1. ASSUME NEW c \in Calls, NEW p \in Phases, GoTo(c, p), p \in Remote => ~inline
      PROVE  Elsewhere'
  BY <1>0, <1>1, Moves
<1>2. ASSUME NEW c \in Calls, Begin(c) \/ CallStep(c) \/ Cancelled(c)
      PROVE  \/ \E p \in Phases : GoTo(c, p) /\ (p \in Remote => ~inline)
             \/ UNCHANGED pc
  <2>1. CASE Begin(c) \/ Opened(c) \/ Announced(c) \/ InlineEnds(c) \/ Submitted(c)
    BY <2>1 DEF Begin, Opened, Announced, InlineEnds, Submitted
  <2>2. CASE SubmissionFails(c) \/ Resubmitted(c) \/ NotFound(c)
    BY <2>2 DEF SubmissionFails, Resubmitted, NotFound
  <2>3. CASE Refused(c) \/ Fetched(c) \/ Closed(c) \/ SpanFailed(c) \/ Reported(c) \/ FailureReported(c)
    BY <2>3 DEF Refused, Fetched, Closed, SpanFailed, Reported, FailureReported
  <2>4. CASE Polled(c) \/ PollFails(c) \/ Rested(c)
    BY <2>4 DEF Polled, PollFails, Rested
  <2>5. CASE Cancelled(c)
    BY <2>5 DEF Cancelled, CancelledInside, CancelledAtSpan, CancelledAfter
  <2>. QED
    BY <1>2, <2>1, <2>2, <2>3, <2>4, <2>5 DEF CallStep
<1>3. CASE UNCHANGED pc
  BY <1>0, <1>3
<1>4. ASSUME NEW c \in Calls, Begin(c) \/ CallStep(c) \/ Cancelled(c) PROVE Elsewhere'
  BY <1>1, <1>2, <1>3, <1>4
<1>. QED
  BY <1>3, <1>4 DEF Next, PatienceEnds, ChildEnds, vars

\* Wherever the deployment runs in this process, no call of it ever submits or polls
\* (RemoteDeployment.run), which the refinement needs besides StartsOnce.
THEOREM JobInvariance == Spec => []JobInv
<1>1. Init => Elsewhere
  BY DEF Init, Elsewhere, Remote
<1>2. Inv /\ Elsewhere /\ [Next]_vars => Elsewhere'
  BY ElsewhereStep
<1>. QED
  BY <1>1, <1>2, Invariance, StartsOnce, PTL DEF JobInv, Spec

-----------------------------------------------------------------------------
\* What one step does to the flow runs and to the ends of calls: a submission lands, a flow run
\* ends, or a call ends, and never two of them at once.
Ends(c) ==
  /\ pc[c] \notin Ended /\ (pc'[c] = "raised" \/ (pc'[c] = "returned" /\ pc[c] = "report"))
  /\ \A d \in Calls : d # c => pc'[d] = pc[d]

NoneEnds == \A d \in Calls : Outcome(pc'[d]) = Outcome(pc[d])

\* A step ends one call, starts one flow run, ends one flow run, or none of these.
LEMMA StepEffect ==
  ASSUME Inv, [Next]_vars
  PROVE  \/ UNCHANGED children /\ NoneEnds
         \/ UNCHANGED children /\ \E c \in Calls : Ends(c)
         \/ \E c \in Calls : pc[c] = "submitting" /\ Landed(c) /\ NoneEnds
         \/ ChildEnds /\ NoneEnds
<1>0. TypeOK
  BY DEF Inv
<1>. USE DEF Phases, Inside, Remote, Ended
<1>. DEFINE Effect(c) == \/ UNCHANGED children /\ NoneEnds
                         \/ UNCHANGED children /\ Ends(c)
                         \/ pc[c] = "submitting" /\ Landed(c) /\ NoneEnds
<1>1. ASSUME NEW c \in Calls, NEW p \in Phases \ Ended, pc[c] \notin Ended, GoTo(c, p) PROVE NoneEnds
  BY <1>0, <1>1, Moves DEF NoneEnds, Outcome
<1>2. ASSUME NEW c \in Calls, NEW p \in Ended, pc[c] \notin Ended, GoTo(c, p),
             p = "returned" => pc[c] = "report"
      PROVE  Ends(c)
  BY <1>0, <1>2, Moves DEF Ends
<1>3. ASSUME UNCHANGED pc PROVE NoneEnds
  BY <1>3 DEF NoneEnds
<1>4. ASSUME NEW c \in Calls, Begin(c) \/ Opened(c) \/ Announced(c) \/ InlineEnds(c) \/ Resubmitted(c)
      PROVE  Effect(c)
  BY <1>1, <1>4 DEF Begin, Opened, Announced, InlineEnds, Resubmitted
<1>5. ASSUME NEW c \in Calls, Submitted(c) \/ SubmissionFails(c) \/ Refused(c) \/ CancelledInside(c)
      PROVE  Effect(c)
  <2>1. (pc[c] = "submitting" /\ Landed(c)) \/ UNCHANGED children
    BY <1>5 DEF Submitted, SubmissionFails, Refused, CancelledInside, PerhapsLanded
  <2>2. NoneEnds
    BY <1>1, <1>5 DEF Submitted, SubmissionFails, Refused, CancelledInside
  <2>. QED
    BY <2>1, <2>2
<1>6. ASSUME NEW c \in Calls, NotFound(c) PROVE Effect(c)
  <2>1. UNCHANGED children /\ pc[c] = "submitting" /\ (UNCHANGED pc \/ GoTo(c, "failing"))
    BY <1>6 DEF NotFound, tells
  <2>. QED
    BY <1>1, <1>3, <2>1
<1>7. ASSUME NEW c \in Calls, Polled(c) \/ PollFails(c) \/ Rested(c) \/ Fetched(c) PROVE Effect(c)
  BY <1>1, <1>7 DEF Polled, PollFails, Rested, Fetched
<1>8. ASSUME NEW c \in Calls, Closed(c) \/ SpanFailed(c) \/ CancelledAtSpan(c) PROVE Effect(c)
  BY <1>1, <1>8 DEF Closed, SpanFailed, CancelledAtSpan
<1>9. ASSUME NEW c \in Calls, Reported(c) \/ FailureReported(c) \/ CancelledAfter(c) PROVE Effect(c)
  BY <1>2, <1>9 DEF Reported, FailureReported, CancelledAfter
<1>10. CASE (\E c \in Calls : PatienceEnds(c)) \/ ChildEnds \/ UNCHANGED vars
  BY <1>3, <1>10 DEF PatienceEnds, ChildEnds, vars
<1>. HIDE DEF Effect
<1>11. ASSUME NEW c \in Calls, Begin(c) \/ CallStep(c) \/ Cancelled(c) PROVE Effect(c)
  BY <1>4, <1>5, <1>6, <1>7, <1>8, <1>9, <1>11 DEF CallStep, Cancelled
<1>. QED
  BY <1>10, <1>11 DEF Next, Effect

\* A step maps to a step of RemoteJobs or a stutter.
LEMMA JobsStep ==
  ASSUME JobInv, JobInv', [Next]_vars
  PROVE  [Jobs!Next]_<<input, inline, JobMap, OutcomeMap>>
<1>0. TypeOK /\ Placed /\ UNCHANGED <<input, inline>>
  BY GivenStep DEF JobInv, Inv, given
<1>. DEFINE Unique(S) == \A x, y \in S : x.key = y.key => x = y
<1>unique. Unique(children) /\ Unique(children')
  <2>1. Unique(children)
    BY OnePerKey
  <2>2. Unique(children')
    BY DEF JobInv, Inv, Placed, OneChild, Alike
  <2>. QED
    BY <2>1, <2>2
<1>1. ASSUME UNCHANGED children PROVE UNCHANGED JobMap
  BY <1>1 DEF JobMap, Job
<1>2. ASSUME NoneEnds PROVE UNCHANGED OutcomeMap
  BY <1>2 DEF NoneEnds, OutcomeMap
<1>3. ASSUME NEW c \in Calls, UNCHANGED children, Ends(c) PROVE Jobs!Return(c) \/ Jobs!Raise(c)
  <2>1. UNCHANGED JobMap /\ OutcomeMap[c] = "open"
    BY <1>1, <1>3 DEF Ends, OutcomeMap, Outcome, Ended
  <2>2. OutcomeMap' = [OutcomeMap EXCEPT ![c] = Outcome(pc'[c])]
    BY <1>3 DEF Ends, OutcomeMap
  <2>3. CASE pc'[c] = "raised"
    BY <1>0, <2>1, <2>2, <2>3 DEF Jobs!Raise, Outcome
  <2>4. CASE pc'[c] = "returned" /\ pc[c] = "report"
    <3>1. inline \/ JobMap[KeyOf[input[c]]] = "completed"
      <4>1. Earned(c) /\ input[c] \in Inputs
        BY <1>0, <2>4 DEF JobInv, Inv, Own, Resulted, TypeOK
      <4>2. ASSUME NEW x \in children, Alike(x.input, input[c]), x.state = "completed"
            PROVE  Job(KeyOf[input[c]]) = "completed"
        BY <4>2, <1>0, JobIs DEF Placed, Alike
      <4>. QED
        BY <4>1, <4>2 DEF Earned, JobMap, Keys
    <3>. QED
      BY <1>0, <2>1, <2>2, <2>4, <3>1 DEF Jobs!Return, Outcome
  <2>. QED
    BY <1>3, <2>3, <2>4 DEF Ends
<1>4. ASSUME NEW c \in Calls, pc[c] = "submitting", Landed(c), NoneEnds
      PROVE  Jobs!Start(c) \/ UNCHANGED JobMap
  <2>1. CASE Mine(c) # {}
    BY <1>1, <1>4, <2>1 DEF Landed
  <2>2. CASE Mine(c) = {}
    <3>. DEFINE new == [server |-> server[c], key |-> Key(c), input |-> input[c],
                        state |-> "pending"]
    <3>1. children' = children \cup {new} /\ new.input = input[c] /\ new.state = "pending"
          /\ new.server = server[c] /\ new.key = KeyOf[input[c]]
      BY <1>4, <2>2 DEF Landed, Key
    <3>2. new \notin children
      BY <3>1, <2>2 DEF Mine, Key
    <3>. HIDE DEF new
    <3>. DEFINE k == KeyOf[input[c]]
    <3>isKey. k \in Keys
      BY <1>0 DEF TypeOK, Keys
    <3>. HIDE DEF k
    <3>0. new.key = k
      BY <3>1 DEF k
    <3>3. \A x \in children : x.key # k
      BY <3>0, <3>1, <3>2, <1>unique
    <3>4. Job(k) = "none"
      BY <3>3 DEF Job
    <3>starts. ASSUME NEW i \in Keys, i = k PROVE Job(i)' = "pending"
      <4>1. \A x \in children' : x.key = i => x = new
        BY <3>1, <3>3, <3>starts
      <4>2. (CHOOSE x \in children' : x.key = i) = new
        BY <3>0, <3>1, <3>starts, <4>1
      <4>. QED
        BY <3>0, <3>1, <3>starts, <4>2 DEF Job
    <3>5. ASSUME NEW i \in Keys, i # k PROVE Job(i)' = Job(i)
      <4>1. {x \in children' : x.key = i} = {x \in children : x.key = i}
        BY <3>0, <3>1, <3>5
      <4>. QED
        BY <4>1, <3>1, <3>5 DEF Job
    <3>6. JobMap' = [JobMap EXCEPT ![k] = "pending"]
      BY <3>starts, <3>5 DEF JobMap
    <3>7. ~inline /\ OutcomeMap[c] = "open" /\ JobMap[k] = "none"
      BY <1>4, <3>4, <3>isKey, <1>0 DEF JobInv, Elsewhere, Remote, OutcomeMap, Outcome, JobMap, TypeOK
    <3>. QED
      BY <1>0, <1>2, <1>4, <3>6, <3>7 DEF Jobs!Start, k
  <2>. QED
    BY <2>1, <2>2
<1>5. ASSUME ChildEnds, NoneEnds PROVE \E i \in Keys : Jobs!End(i)
  <2>1. PICK x \in children, s \in {"completed", "failed"} :
          x.state = "pending" /\ children' = (children \ {x}) \cup {[x EXCEPT !.state = s]}
    BY <1>5 DEF ChildEnds
  <2>. DEFINE new == [x EXCEPT !.state = s]
  <2>2. x \in Child /\ x.key \in Keys /\ children' = (children \ {x}) \cup {new}
    BY <2>1, <1>0 DEF TypeOK, Child
  <2>3. new.key = x.key /\ new.state = s
    BY <2>2 DEF Child
  <2>. HIDE DEF new
  <2>4. Job(x.key) = "pending"
    BY <2>1, JobIs
  <2>5. Job(x.key)' = s
    <3>1. \A y \in children' : y.key = x.key => y = new
      BY <2>2, <2>3, <1>unique
    <3>2. (CHOOSE y \in children' : y.key = x.key) = new
      BY <2>2, <2>3, <3>1
    <3>. QED
      BY <2>2, <2>3, <3>2 DEF Job
  <2>6. ASSUME NEW i \in Keys, i # x.key PROVE Job(i)' = Job(i)
    <3>1. \A y : y \in children' /\ y.key = i <=> y \in children /\ y.key = i
      BY <2>2, <2>3, <2>6
    <3>2. (CHOOSE y \in children' : y.key = i) = (CHOOSE y \in children : y.key = i)
      BY <3>1
    <3>. QED
      BY <3>1, <3>2 DEF Job
  <2>7. JobMap' = [JobMap EXCEPT ![x.key] = s] /\ JobMap[x.key] = "pending"
    BY <2>2, <2>4, <2>5, <2>6 DEF JobMap
  <2>8. Jobs!End(x.key)
    BY <2>1, <2>7, <1>0, <1>2, <1>5 DEF Jobs!End
  <2>. QED
    BY <2>2, <2>8
<1>. QED
  BY <1>0, <1>1, <1>2, <1>3, <1>4, <1>5, StepEffect DEF JobInv, Jobs!Next

\* Whatever is lost, retried, cancelled or answered late, remote deployments keep the promise
\* of RemoteJobs: the job of a key is started and ends at most once, and a call that returns has
\* the result of the job of its key, which inputs that are alike share.
THEOREM ImplementsJobs == Spec => JobsSpec
<1>1. Init => Jobs!Init
  <2>. SUFFICES ASSUME Init PROVE Jobs!Init
    OBVIOUS
  <2>1. JobMap = [k \in Keys |-> "none"]
    BY DEF Init, JobMap, Job
  <2>2. OutcomeMap = [c \in Calls |-> "open"]
    BY DEF Init, OutcomeMap, Outcome
  <2>. QED
    BY <2>1, <2>2 DEF Init, Jobs!Init
<1>2. JobInv /\ JobInv' /\ [Next]_vars => [Jobs!Next]_<<input, inline, JobMap, OutcomeMap>>
  BY JobsStep
<1>. QED
  BY <1>1, <1>2, JobInvariance, PTL DEF Spec, JobsSpec, Jobs!Spec
=============================================================================
