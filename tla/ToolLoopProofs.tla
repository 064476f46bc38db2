--------------------------- MODULE ToolLoopProofs ---------------------------
(***************************************************************************)
(* What is proved of ToolLoop, for any tools, budgets, answers and bounds.  *)
(***************************************************************************)
EXTENDS ToolLoop, FiniteSetTheorems, SequenceTheorems, WellFoundedInduction, TLAPS

USE BoundsAssumption, ToolsAssumption, RepliesAssumption

\* What was started and what is left make up the budget.
Accounted == \A t \in Metered : executed[t] + remaining[t] = MaxCalls[t]

Good(s, m) ==
  s[m].kind = "answer" =>
    \/ \A i \in DOMAIN s[m].calls : m + i \in DOMAIN s /\ s[m + i] = Result(s[m].calls, i)
    \/ m > 1 /\ s[m - 1].kind = "steering"

AllGood(s) == \A m \in DOMAIN s : Good(s, m)

\* In a round, all but the last answer is settled; an answer with calls that is not answered
\* follows the instruction.
Settled ==
  /\ pc \in {"calling", "synthesis", "validating"} => AllGood(messages)
  /\ pc = "tools" => \E s \in Seq(Entries) : messages = Append(s, Answer(calls)) /\ AllGood(s)
  /\ pc = "synthesis" \/ (pc = "validating" /\ calls # <<>>) =>
       Len(messages) > 0 /\ messages[Len(messages)].kind = "steering"

\* The rounds go on while fewer than MaxStrays in a row called nothing that exists.
Bounded == pc \in {"calling", "tools"} => strays < MaxStrays

\* What later turns are told lags behind only while an answer is validated.
Agreed ==
  /\ pc \in {"calling", "tools", "synthesis"} => Unsteered(messages) = accumulated
  /\ pc = "validating" => Append(Unsteered(messages), Answer(calls)) = accumulated

Inv == TypeOK /\ Accounted /\ Settled /\ Bounded /\ Agreed

\* The attempts the tools of the round may still make.
Left == {p \in Running \X (1..(ToolRetries + 1)) : p[2] >= tries[p[1]]}

Phases == <<"calling", "tools", "synthesis", "validating">>
Later(p, q) == \E i, j \in DOMAIN Phases : i < j /\ Phases[i] = p /\ Phases[j] = q

\* One step towards the end: attempts and rounds are bounded by TypeOK, and Left is finite.
Closer ==
  \/ pc' \in {"done", "failed"} /\ pc \notin {"done", "failed"}
  \/ attempt' = attempt + 1
  \/ attempt' = attempt /\ round' = round + 1
  \/ attempt' = attempt /\ round' = round /\ Later(pc, pc')
  \/ UNCHANGED <<attempt, round, pc>> /\ Left' \subseteq Left /\ Left' # Left

-----------------------------------------------------------------------------
\* A set of numbers that has 0 and every successor of a member has them all.
LEMMA Induction ==
  ASSUME NEW S, 0 \in S, \A n \in Nat : n \in S => n + 1 \in S
  PROVE  \A n \in Nat : n \in S
<1>. SUFFICES ASSUME NEW n \in Nat, n \notin S PROVE FALSE
  OBVIOUS
<1>. DEFINE T == Nat \ S
<1>1. T \subseteq Nat /\ T # {}
  OBVIOUS
<1>2. PICK x \in T : \A y \in T : ~ (<<y, x>> \in OpToRel(<, Nat))
  <2>1. IsWellFoundedOn(OpToRel(<, Nat), Nat)
    BY NatLessThanWellFounded
  <2>. HIDE DEF T
  <2>. QED
    BY <1>1, <2>1, WFMin
<1>3. x \in Nat /\ x # 0 /\ x - 1 \in Nat /\ (x - 1) + 1 = x /\ x - 1 < x
  OBVIOUS
<1>4. x - 1 \notin T
  BY <1>2, <1>3 DEF OpToRel
<1>. QED
  BY <1>3, <1>4

\* A non-empty set of positions has a last one.
LEMMA LastOne ==
  ASSUME NEW n \in Nat, NEW S, S \subseteq 1..n, S # {}
  PROVE  \E m \in S : \A i \in S : i <= m
<1>. DEFINE T == {n - i : i \in S}
<1>1. T \subseteq Nat /\ T # {}
  <2>1. \A i \in S : i \in Nat /\ i <= n /\ n - i \in Nat /\ n - i \in T
    OBVIOUS
  <2>2. \A y \in T : \E i \in S : y = n - i
    OBVIOUS
  <2>. HIDE DEF T
  <2>. QED
    BY <2>1, <2>2
<1>2. PICK x \in T : \A y \in T : ~ (<<y, x>> \in OpToRel(<, Nat))
  <2>1. IsWellFoundedOn(OpToRel(<, Nat), Nat)
    BY NatLessThanWellFounded
  <2>. HIDE DEF T
  <2>. QED
    BY <1>1, <2>1, WFMin
<1>3. PICK m \in S : x = n - m
  OBVIOUS
<1>4. ASSUME NEW i \in S PROVE i <= m
  <2>1. n - i \in T /\ n - i \in Nat /\ x \in Nat
    BY <1>1
  <2>2. ~ (n - i < x)
    BY <1>2, <2>1 DEF OpToRel
  <2>. QED
    BY <2>2, <1>3
<1>. QED
  BY <1>4

\* What a round starts of a tool is within what is left of its budget: count up to the last
\* call of it that runs.
LEMMA StartedWithin ==
  ASSUME TypeOK, NEW c \in Replies, NEW t \in Metered
  PROVE  Started(c, t) \in Nat /\ Started(c, t) <= remaining[t]
<1>. DEFINE S == {i \in Affordable(c) : c[i] = t}
<1>0. c \in Seq(Names) /\ Len(c) \in Nat /\ DOMAIN c = 1..Len(c) /\ remaining[t] \in Nat
  BY DEF TypeOK
<1>1. S \subseteq 1..Len(c)
  BY <1>0 DEF Affordable
<1>2. CASE S = {}
  <2>1. Started(c, t) = Cardinality(S)
    BY DEF Started
  <2>2. Cardinality({}) = 0
    BY FS_EmptySet
  <2>. HIDE DEF S
  <2>. QED
    BY <2>1, <2>2, <1>0, <1>2
<1>3. CASE S # {}
  <2>1. PICK m \in S : \A i \in S : i <= m
    BY <1>0, <1>1, <1>3, LastOne
  <2>. DEFINE U == {j \in 1..m : c[j] = t}
  <2>2. m \in 1..Len(c) /\ c[m] = t
    BY <2>1, <1>1
  <2>3. S \subseteq U
    BY <2>1, <1>1
  <2>4. IsFiniteSet(1..m) /\ IsFiniteSet(U)
    <3>1. m \in Int /\ 1 \in Int /\ U \subseteq 1..m
      BY <2>2, <1>0
    <3>2. IsFiniteSet(1..m)
      BY <3>1, FS_Interval
    <3>. HIDE DEF U
    <3>. QED
      BY <3>1, <3>2, FS_Subset
  <2>5. Cardinality(S) \in Nat /\ Cardinality(U) \in Nat /\ Cardinality(S) <= Cardinality(U)
    BY <2>3, <2>4, FS_Subset, FS_CardinalityType
  <2>6. Cardinality(U) <= remaining[t]
    BY <2>1, <2>2 DEF Affordable
  <2>. QED
    BY <2>5, <2>6, <1>0 DEF Started
<1>. QED
  BY <1>2, <1>3

\* What an interaction appends are entries, a result for each call.
LEMMA EntryTypes ==
  ASSUME NEW c \in Seq(Names)
  PROVE  /\ Answer(c) \in Entries /\ Repair \in Entries /\ Steering \in Entries
         /\ Results(c) \in Seq(Entries) /\ Len(Results(c)) = Len(c)
         /\ \A i \in 1..Len(c) : Results(c)[i] = Result(c, i)
<1>1. Len(c) \in Nat /\ DOMAIN c = 1..Len(c) /\ \A i \in 1..Len(c) : c[i] \in Names
  OBVIOUS
<1>2. \A i \in 1..Len(c) : Result(c, i) \in Entries
  BY <1>1 DEF Result, Entries
<1>3. Results(c) = [i \in 1..Len(c) |-> Result(c, i)]
  BY <1>1 DEF Results
<1>4. Results(c) \in Seq(Entries) /\ Len(Results(c)) = Len(c)
  BY <1>1, <1>2, <1>3
<1>5. Answer(c) \in Entries /\ Repair \in Entries /\ Steering \in Entries
  BY DEF Answer, Repair, Steering, Entries
<1>. QED
  BY <1>3, <1>4, <1>5

\* What was settled stays so when the list grows.
LEMMA GoodExtends ==
  ASSUME NEW s \in Seq(Entries), NEW t \in Seq(Entries), AllGood(s), NEW m \in 1..Len(s)
  PROVE  Good(s \o t, m)
<1>1. \A j \in 1..Len(s) : j \in DOMAIN (s \o t) /\ (s \o t)[j] = s[j]
  OBVIOUS
<1>2. Good(s, m)
  BY DEF AllGood
<1>3. s[m] \in Entries /\ s[m].calls \in Seq(Names)
  <2>1. s[m] \in Entries
    OBVIOUS
  <2>. QED
    BY <2>1 DEF Entries
<1>. QED
  BY <1>1, <1>2, <1>3 DEF Good

\* A list answered up to its last answer stays so with an entry that calls nothing.
LEMMA GoodSays ==
  ASSUME NEW s \in Seq(Entries), NEW e \in Entries, AllGood(s), e.kind # "answer"
  PROVE  AllGood(s \o <<e>>)
<1>1. <<e>> \in Seq(Entries) /\ Len(s \o <<e>>) = Len(s) + 1 /\ s \o <<e>> \in Seq(Entries)
  OBVIOUS
<1>2. \A m \in 1..Len(s) : Good(s \o <<e>>, m)
  BY <1>1, GoodExtends
<1>3. (s \o <<e>>)[Len(s) + 1] = e
  OBVIOUS
<1>4. Good(s \o <<e>>, Len(s) + 1)
  BY <1>3 DEF Good
<1>. QED
  BY <1>1, <1>2, <1>4 DEF AllGood

\* A round answers the calls of its answer in place.
LEMMA GoodRound ==
  ASSUME NEW s \in Seq(Entries), AllGood(s), NEW c \in Seq(Names)
  PROVE  /\ AllGood(Append(s, Answer(c)) \o Results(c))
         /\ Append(s, Answer(c)) \o Results(c) \in Seq(Entries)
<1>. DEFINE a == Append(s, Answer(c))
            u == a \o Results(c)
<1>1. /\ Answer(c) \in Entries /\ Results(c) \in Seq(Entries) /\ Len(Results(c)) = Len(c)
      /\ \A i \in 1..Len(c) : Results(c)[i] = Result(c, i)
  BY EntryTypes
<1>2. Len(s) \in Nat /\ Len(c) \in Nat /\ DOMAIN c = 1..Len(c)
  OBVIOUS
<1>3. /\ a \in Seq(Entries) /\ Len(a) = Len(s) + 1
      /\ a[Len(s) + 1] = Answer(c) /\ \A j \in 1..Len(s) : a[j] = s[j]
  BY <1>1, <1>2
<1>4. /\ u \in Seq(Entries) /\ Len(u) = Len(s) + 1 + Len(c)
      /\ \A j \in 1..(Len(s) + 1) : u[j] = a[j]
      /\ \A i \in 1..Len(c) : u[Len(s) + 1 + i] = Result(c, i)
  <2>. DEFINE r == Results(c)
  <2>0. r \in Seq(Entries) /\ Len(r) = Len(c) /\ \A i \in 1..Len(c) : r[i] = Result(c, i)
    BY <1>1
  <2>. HIDE DEF a, r
  <2>1. /\ a \o r \in Seq(Entries) /\ Len(a \o r) = Len(a) + Len(r)
        /\ \A i \in 1..(Len(a) + Len(r)) :
             (a \o r)[i] = IF i <= Len(a) THEN a[i] ELSE r[i - Len(a)]
    BY <2>0, <1>3, ConcatProperties
  <2>2. \A j \in 1..(Len(s) + 1) : (a \o r)[j] = a[j]
    BY <2>0, <2>1, <1>2, <1>3
  <2>3. ASSUME NEW i \in 1..Len(c) PROVE (a \o r)[Len(s) + 1 + i] = Result(c, i)
    <3>1. /\ Len(s) + 1 + i \in 1..(Len(a) + Len(r)) /\ ~ (Len(s) + 1 + i <= Len(a))
          /\ (Len(s) + 1 + i) - Len(a) = i
      BY <2>0, <1>2, <1>3
    <3>2. (a \o r)[Len(s) + 1 + i] = r[i]
      BY <3>1, <2>1
    <3>. QED
      BY <3>2, <2>0
  <2>4. Len(a \o r) = Len(s) + 1 + Len(c)
    BY <2>0, <2>1, <1>2, <1>3
  <2>. QED
    BY <2>1, <2>2, <2>3, <2>4 DEF r
<1>5. ASSUME NEW m \in 1..Len(s) PROVE Good(u, m)
  <2>1. Good(s, m) /\ u[m] = s[m] /\ m \in Nat
    BY <1>2, <1>3, <1>4 DEF AllGood
  <2>2. \A j \in 1..Len(s) : j \in DOMAIN u /\ u[j] = s[j]
    BY <1>2, <1>3, <1>4
  <2>3. s[m].calls \in Seq(Names)
    <3>1. s[m] \in Entries
      OBVIOUS
    <3>. QED
      BY <3>1 DEF Entries
  <2>. HIDE DEF u
  <2>. QED
    BY <2>1, <2>2, <2>3 DEF Good
<1>6. Good(u, Len(s) + 1)
  <2>1. u[Len(s) + 1].calls = c
    BY <1>2, <1>3, <1>4 DEF Answer
  <2>. HIDE DEF u
  <2>2. \A i \in 1..Len(c) : Len(s) + 1 + i \in DOMAIN u
    BY <1>2, <1>4
  <2>. QED
    BY <2>1, <2>2, <1>2, <1>4 DEF Good
<1>7. ASSUME NEW i \in 1..Len(c) PROVE Good(u, Len(s) + 1 + i)
  <2>0. u[Len(s) + 1 + i] = Result(c, i)
    BY <1>4
  <2>. HIDE DEF u
  <2>1. u[Len(s) + 1 + i].kind = "result"
    BY <2>0 DEF Result
  <2>. QED
    BY <2>1 DEF Good
<1>8. \A m \in 1..Len(u) : \/ m \in 1..Len(s) \/ m = Len(s) + 1
                           \/ \E i \in 1..Len(c) : m = Len(s) + 1 + i
  <2>0. Len(u) = Len(s) + 1 + Len(c)
    BY <1>4
  <2>. HIDE DEF u
  <2>1. ASSUME NEW m \in 1..Len(u), m > Len(s) + 1
        PROVE  m - Len(s) - 1 \in 1..Len(c) /\ m = Len(s) + 1 + (m - Len(s) - 1)
    BY <2>0, <2>1, <1>2
  <2>2. ASSUME NEW m \in 1..Len(u), ~ (m > Len(s) + 1)
        PROVE  m \in 1..Len(s) \/ m = Len(s) + 1
    BY <2>0, <2>2, <1>2
  <2>. QED
    BY <2>1, <2>2
<1>9. AllGood(u)
  <2>. HIDE DEF u
  <2>1. DOMAIN u = 1..Len(u)
    BY <1>4
  <2>. QED
    BY <2>1, <1>5, <1>6, <1>7, <1>8 DEF AllGood
<1>. QED
  BY <1>4, <1>9

\* A refused answer and the repair: it had no calls, or follows the instruction.
LEMMA GoodRepair ==
  ASSUME NEW s \in Seq(Entries), AllGood(s), NEW c \in Seq(Names),
         c # <<>> => Len(s) > 0 /\ s[Len(s)].kind = "steering"
  PROVE  /\ AllGood(s \o <<Answer(c), Repair>>)
         /\ s \o <<Answer(c), Repair>> \in Seq(Entries)
<1>. DEFINE t == <<Answer(c), Repair>>
            u == s \o t
<1>1. t \in Seq(Entries) /\ Len(t) = 2 /\ t[1] = Answer(c) /\ t[2] = Repair
  <2>1. Answer(c) \in Entries /\ Repair \in Entries
    BY EntryTypes
  <2>. QED
    BY <2>1
<1>2. Len(s) \in Nat /\ Len(c) \in Nat
  OBVIOUS
<1>3. /\ u \in Seq(Entries) /\ Len(u) = Len(s) + 2 /\ DOMAIN u = 1..(Len(s) + 2)
      /\ \A j \in 1..Len(s) : u[j] = s[j]
      /\ u[Len(s) + 1] = Answer(c) /\ u[Len(s) + 2] = Repair
  <2>. HIDE DEF t
  <2>1. /\ s \o t \in Seq(Entries) /\ Len(s \o t) = Len(s) + 2
        /\ \A i \in 1..(Len(s) + 2) :
             (s \o t)[i] = IF i <= Len(s) THEN s[i] ELSE t[i - Len(s)]
    <3>1. /\ s \o t \in Seq(Entries) /\ Len(s \o t) = Len(s) + Len(t)
          /\ \A i \in 1..(Len(s) + Len(t)) :
               (s \o t)[i] = IF i <= Len(s) THEN s[i] ELSE t[i - Len(s)]
      BY <1>1, ConcatProperties
    <3>. QED
      BY <3>1, <1>1
  <2>2. \A j \in 1..Len(s) : (s \o t)[j] = s[j]
    BY <2>1, <1>2
  <2>3. (Len(s) + 1) - Len(s) = 1 /\ (Len(s) + 2) - Len(s) = 2
    BY <1>2
  <2>4. (s \o t)[Len(s) + 1] = t[1] /\ (s \o t)[Len(s) + 2] = t[2]
    BY <2>1, <2>3, <1>2
  <2>5. DOMAIN (s \o t) = 1..(Len(s) + 2)
    BY <2>1, LenProperties
  <2>. QED
    BY <2>1, <2>2, <2>4, <2>5, <1>1
<1>4. \A m \in 1..Len(s) : Good(u, m)
  <2>. HIDE DEF t
  <2>. QED
    BY <1>1, GoodExtends
<1>5. Good(u, Len(s) + 1)
  <2>1. u[Len(s) + 1].calls = c
    BY <1>3 DEF Answer
  <2>. HIDE DEF u
  <2>2. CASE c = <<>>
    <3>1. DOMAIN c = {}
      BY <2>2
    <3>. QED
      BY <3>1, <2>1 DEF Good
  <2>3. CASE c # <<>>
    <3>1. Len(s) + 1 > 1 /\ (Len(s) + 1) - 1 = Len(s) /\ u[Len(s)].kind = "steering"
      BY <2>3, <1>2, <1>3
    <3>. QED
      BY <3>1 DEF Good
  <2>. QED
    BY <2>2, <2>3
<1>6. Good(u, Len(s) + 2)
  <2>1. u[Len(s) + 2].kind = "repair"
    BY <1>3 DEF Repair
  <2>. HIDE DEF u
  <2>. QED
    BY <2>1 DEF Good
<1>7. \A m \in 1..(Len(s) + 2) : m \in 1..Len(s) \/ m = Len(s) + 1 \/ m = Len(s) + 2
  BY <1>2
<1>8. AllGood(u)
  <2>. HIDE DEF u
  <2>. QED
    BY <1>3, <1>4, <1>5, <1>6, <1>7 DEF AllGood
<1>. QED
  BY <1>3, <1>8

-----------------------------------------------------------------------------
\* Unsteered is defined by recursion: f is that recursion over the first n entries of s.
Upto(s, n, f) ==
  f = [k \in 0..n |->
         IF k = 0 THEN <<>>
         ELSE IF s[k].kind = "steering" THEN f[k - 1] ELSE Append(f[k - 1], s[k])]

\* What a prefix keeps is defined, one entry after the other.
LEMMA UptoExists ==
  ASSUME NEW s, NEW n \in Nat
  PROVE  \E f : Upto(s, n, f)
<1>. DEFINE S == {m \in Nat : \E f : Upto(s, m, f)}
<1>1. 0 \in S
  <2>1. Upto(s, 0, [k \in 0..0 |-> <<>>])
    BY DEF Upto
  <2>. QED
    BY <2>1
<1>2. ASSUME NEW m \in Nat, m \in S PROVE m + 1 \in S
  <2>1. PICK f : Upto(s, m, f)
    BY <1>2
  <2>. DEFINE last == IF s[m + 1].kind = "steering" THEN f[m] ELSE Append(f[m], s[m + 1])
              g == [k \in 0..(m + 1) |-> IF k = m + 1 THEN last ELSE f[k]]
  <2>2. ASSUME NEW k \in 0..(m + 1)
        PROVE  g[k] = IF k = 0 THEN <<>>
                      ELSE IF s[k].kind = "steering" THEN g[k - 1] ELSE Append(g[k - 1], s[k])
    <3>1. CASE k = m + 1
      <4>1. k # 0 /\ k - 1 = m /\ m \in 0..(m + 1) /\ m # m + 1
        BY <3>1
      <4>2. g[k - 1] = f[m] /\ g[k] = last
        BY <4>1, <3>1
      <4>. HIDE DEF g
      <4>. QED
        BY <4>1, <4>2, <3>1
    <3>2. CASE k # m + 1
      <4>1. k \in 0..m /\ g[k] = f[k]
        BY <3>2
      <4>2. k # 0 => k - 1 \in 0..(m + 1) /\ k - 1 # m + 1
        BY <4>1
      <4>3. k # 0 => g[k - 1] = f[k - 1]
        BY <4>2
      <4>4. f[k] = IF k = 0 THEN <<>>
                   ELSE IF s[k].kind = "steering" THEN f[k - 1] ELSE Append(f[k - 1], s[k])
        BY <2>1, <4>1 DEF Upto
      <4>. HIDE DEF g
      <4>. QED
        BY <4>1, <4>3, <4>4
    <3>. QED
      BY <3>1, <3>2
  <2>3. g = [k \in 0..(m + 1) |-> g[k]]
    OBVIOUS
  <2>. HIDE DEF g
  <2>4. Upto(s, m + 1, g)
    BY <2>2, <2>3 DEF Upto
  <2>. QED
    BY <2>4
<1>. HIDE DEF S
<1>3. n \in S
  BY <1>1, <1>2, Induction
<1>. QED
  BY <1>3 DEF S

\* The recursion over the common part of two lists.
LEMMA UptoAgrees ==
  ASSUME NEW s, NEW t, NEW m \in Nat, NEW n \in Nat, NEW f, NEW g, m <= n,
         Upto(s, m, f), Upto(t, n, g), \A k \in 1..m : s[k] = t[k]
  PROVE  f[m] = g[m]
<1>. DEFINE S == {k \in Nat : k <= m => f[k] = g[k]}
<1>1. 0 \in S
  BY DEF Upto
<1>2. ASSUME NEW k \in Nat, k \in S PROVE k + 1 \in S
  <2>. SUFFICES ASSUME k + 1 <= m PROVE f[k + 1] = g[k + 1]
    OBVIOUS
  <2>1. k + 1 \in 0..m /\ k + 1 \in 0..n /\ k + 1 # 0 /\ (k + 1) - 1 = k
    OBVIOUS
  <2>2. f[k] = g[k] /\ s[k + 1] = t[k + 1]
    BY <1>2
  <2>3. f[k + 1] = IF s[k + 1].kind = "steering" THEN f[k] ELSE Append(f[k], s[k + 1])
    BY <2>1 DEF Upto
  <2>4. g[k + 1] = IF t[k + 1].kind = "steering" THEN g[k] ELSE Append(g[k], t[k + 1])
    BY <2>1 DEF Upto
  <2>. QED
    BY <2>2, <2>3, <2>4
<1>. HIDE DEF S
<1>3. m \in S
  BY <1>1, <1>2, Induction
<1>. QED
  BY <1>3 DEF S

\* Unsteered is the recursion over the whole list.
LEMMA UnsteeredIs ==
  ASSUME NEW s \in Seq(Entries)
  PROVE  \E f : Upto(s, Len(s), f) /\ Unsteered(s) = f[Len(s)]
<1>. DEFINE g == CHOOSE f : Upto(s, Len(s), f)
<1>1. Upto(s, Len(s), g)
  <2>1. \E f : Upto(s, Len(s), f)
    BY UptoExists, LenProperties
  <2>. QED
    BY <2>1
<1>2. Unsteered(s) = g[Len(s)]
  BY DEF Unsteered, Upto
<1>. HIDE DEF g
<1>. QED
  BY <1>1, <1>2

\* An entry more is kept unless it is an instruction.
LEMMA UnsteeredAppend ==
  ASSUME NEW s \in Seq(Entries), NEW e \in Entries
  PROVE  Unsteered(Append(s, e)) =
           IF e.kind = "steering" THEN Unsteered(s) ELSE Append(Unsteered(s), e)
<1>. DEFINE t == Append(s, e)
<1>1. /\ t \in Seq(Entries) /\ Len(t) = Len(s) + 1 /\ Len(s) \in Nat
      /\ t[Len(s) + 1] = e /\ \A k \in 1..Len(s) : s[k] = t[k]
  OBVIOUS
<1>. HIDE DEF t
<1>2. PICK f : Upto(s, Len(s), f) /\ Unsteered(s) = f[Len(s)]
  BY UnsteeredIs
<1>3. PICK g : Upto(t, Len(t), g) /\ Unsteered(t) = g[Len(t)]
  BY <1>1, UnsteeredIs
<1>4. f[Len(s)] = g[Len(s)]
  <2>1. Len(t) \in Nat /\ Len(s) <= Len(t)
    BY <1>1
  <2>2. Upto(s, Len(s), f) /\ Upto(t, Len(t), g) /\ Len(s) \in Nat
    BY <1>1, <1>2, <1>3
  <2>3. \A k \in 1..Len(s) : s[k] = t[k]
    BY <1>1
  <2>. QED
    BY <2>1, <2>2, <2>3, UptoAgrees
<1>5. g[Len(s) + 1] = IF e.kind = "steering" THEN g[Len(s)] ELSE Append(g[Len(s)], e)
  <2>1. Len(s) + 1 \in 0..Len(t) /\ Len(s) + 1 # 0 /\ (Len(s) + 1) - 1 = Len(s)
    BY <1>1
  <2>. QED
    BY <2>1, <1>1, <1>3 DEF Upto
<1>. QED
  BY <1>1, <1>2, <1>3, <1>4, <1>5 DEF t

\* Of nothing, nothing is kept.
LEMMA UnsteeredEmpty == Unsteered(<<>>) = <<>>
<1>1. <<>> \in Seq(Entries) /\ Len(<<>>) = 0 /\ 0 \in 0..0
  OBVIOUS
<1>2. PICK f : Upto(<<>>, 0, f) /\ Unsteered(<<>>) = f[0]
  BY <1>1, UnsteeredIs
<1>. QED
  BY <1>1, <1>2 DEF Upto

\* A list grows at its end.
LEMMA Prefixes ==
  ASSUME NEW s \in Seq(Entries), NEW n \in Nat, n + 1 <= Len(s)
  PROVE  /\ SubSeq(s, 1, n) \in Seq(Entries) /\ s[n + 1] \in Entries
         /\ SubSeq(s, 1, n + 1) = Append(SubSeq(s, 1, n), s[n + 1])
<1>1. SubSeq(s, 1, n) \in Seq(Entries) /\ Len(SubSeq(s, 1, n)) = n
  BY SubSeqProperties
<1>2. SubSeq(s, 1, n + 1) \in Seq(Entries) /\ Len(SubSeq(s, 1, n + 1)) = n + 1
  BY SubSeqProperties
<1>. QED
  BY <1>1, <1>2

\* Taking the instruction out leaves entries only.
LEMMA UnsteeredType ==
  ASSUME NEW s \in Seq(Entries)
  PROVE  Unsteered(s) \in Seq(Entries)
<1>. DEFINE p(n) == SubSeq(s, 1, n)
            S == {n \in Nat : n <= Len(s) => Unsteered(p(n)) \in Seq(Entries)}
<1>1. 0 \in S
  <2>1. p(0) = <<>> /\ <<>> \in Seq(Entries)
    OBVIOUS
  <2>. QED
    BY <2>1, UnsteeredEmpty
<1>2. ASSUME NEW n \in Nat, n \in S PROVE n + 1 \in S
  <2>. SUFFICES ASSUME n + 1 <= Len(s) PROVE Unsteered(p(n + 1)) \in Seq(Entries)
    OBVIOUS
  <2>1. p(n) \in Seq(Entries) /\ s[n + 1] \in Entries /\ p(n + 1) = Append(p(n), s[n + 1])
    BY Prefixes
  <2>2. Unsteered(p(n)) \in Seq(Entries)
    BY <1>2
  <2>. HIDE DEF p
  <2>3. Append(Unsteered(p(n)), s[n + 1]) \in Seq(Entries)
    BY <2>1, <2>2
  <2>4. Unsteered(p(n + 1)) \in {Unsteered(p(n)), Append(Unsteered(p(n)), s[n + 1])}
    BY <2>1, UnsteeredAppend
  <2>. QED
    BY <2>2, <2>3, <2>4
<1>. HIDE DEF S
<1>3. Len(s) \in S /\ p(Len(s)) = s /\ Len(s) <= Len(s)
  BY <1>1, <1>2, Induction
<1>. HIDE DEF p
<1>. QED
  BY <1>3 DEF S

\* Appending to the second list appends to both.
LEMMA AppendConcat ==
  ASSUME NEW s \in Seq(Entries), NEW t \in Seq(Entries), NEW e \in Entries
  PROVE  s \o Append(t, e) = Append(s \o t, e)
  OBVIOUS

\* What is no instruction stays.
LEMMA UnsteeredConcat ==
  ASSUME NEW s \in Seq(Entries), NEW t \in Seq(Entries), \A i \in 1..Len(t) : t[i].kind # "steering"
  PROVE  Unsteered(s \o t) = Unsteered(s) \o t
<1>. DEFINE p(n) == SubSeq(t, 1, n)
            S == {n \in Nat : n <= Len(t) => Unsteered(s \o p(n)) = Unsteered(s) \o p(n)}
<1>0. Unsteered(s) \in Seq(Entries)
  BY UnsteeredType
<1>1. 0 \in S
  <2>1. p(0) = <<>>
    OBVIOUS
  <2>2. s \o <<>> = s /\ Unsteered(s) \o <<>> = Unsteered(s)
    BY <1>0
  <2>. QED
    BY <2>1, <2>2
<1>2. ASSUME NEW n \in Nat, n \in S PROVE n + 1 \in S
  <2>. SUFFICES ASSUME n + 1 <= Len(t)
                PROVE  Unsteered(s \o p(n + 1)) = Unsteered(s) \o p(n + 1)
    OBVIOUS
  <2>. DEFINE e == t[n + 1]
  <2>1. p(n) \in Seq(Entries) /\ e \in Entries /\ p(n + 1) = Append(p(n), e)
    BY Prefixes
  <2>2. Unsteered(s \o p(n)) = Unsteered(s) \o p(n)
    BY <1>2
  <2>3. e.kind # "steering"
    OBVIOUS
  <2>. HIDE DEF p, e
  <2>4. s \o p(n) \in Seq(Entries)
    BY <2>1
  <2>5. s \o Append(p(n), e) = Append(s \o p(n), e)
    BY <2>1, AppendConcat
  <2>6. Unsteered(s) \o Append(p(n), e) = Append(Unsteered(s) \o p(n), e)
    BY <2>1, <1>0, AppendConcat
  <2>7. Unsteered(Append(s \o p(n), e)) = Append(Unsteered(s \o p(n)), e)
    BY <2>1, <2>3, <2>4, UnsteeredAppend
  <2>. QED
    BY <2>1, <2>2, <2>5, <2>6, <2>7
<1>. HIDE DEF S
<1>3. Len(t) \in S /\ p(Len(t)) = t /\ Len(t) <= Len(t)
  BY <1>1, <1>2, Induction
<1>. HIDE DEF p
<1>. QED
  BY <1>3 DEF S

-----------------------------------------------------------------------------
\* Nothing was said or started: the invariant holds.
LEMMA InitHolds == Init => Inv
<1>. SUFFICES ASSUME Init PROVE Inv
  OBVIOUS
<1>1. <<>> \in Seq(Entries) /\ DOMAIN NoTries = {} /\ NoTries \in [{} -> 1..(ToolRetries + 1)]
  BY DEF NoTries
<1>2. TypeOK
  <2>1. Running = {} /\ tries \in [Running -> 1..(ToolRetries + 1)]
    BY <1>1 DEF Init, Running
  <2>2. executed \in [Metered -> Nat] /\ remaining \in [Metered -> Nat]
    BY DEF Init
  <2>3. /\ messages \in Seq(Entries) /\ accumulated \in Seq(Entries)
        /\ calls \in Replies \cup {<<>>}
    BY <1>1 DEF Init
  <2>4. attempt \in 1..MaxAttempts /\ round \in 1..MaxRounds /\ strays \in 0..MaxStrays
    BY DEF Init
  <2>5. Running \subseteq DOMAIN calls /\ (Running # {} => pc = "tools")
    BY <2>1
  <2>. QED
    BY <2>1, <2>2, <2>3, <2>4, <2>5 DEF Init, TypeOK
<1>3. Accounted
  BY DEF Init, Accounted
<1>4. Settled
  BY DEF Init, Settled, AllGood
<1>5. Bounded
  BY DEF Init, Bounded
<1>6. Agreed
  BY UnsteeredEmpty DEF Init, Agreed
<1>. QED
  BY <1>2, <1>3, <1>4, <1>5, <1>6 DEF Inv

\* The calls of the last answer are a sequence of names.
LEMMA CallsType ==
  ASSUME TypeOK
  PROVE  calls \in Seq(Names)
<1>1. <<>> \in Seq(Names)
  OBVIOUS
<1>. QED
  BY <1>1 DEF TypeOK

\* Every step keeps the state well formed.
LEMMA TypeStep == Inv /\ [Next]_vars => TypeOK'
<1>. SUFFICES ASSUME Inv, [Next]_vars PROVE TypeOK'
  OBVIOUS
<1>. USE DEF Inv
<1>0. calls \in Seq(Names) /\ messages \in Seq(Entries) /\ accumulated \in Seq(Entries)
  BY CallsType DEF TypeOK
<1>1. CASE CallsTools
  <2>1. PICK c \in Replies \ {<<>>} :
          /\ calls' = c
          /\ messages' = Append(messages, Answer(c))
          /\ accumulated' = Append(accumulated, Answer(c))
          /\ tries' = [i \in Affordable(c) |-> 1]
          /\ executed' = [t \in Metered |-> executed[t] + Started(c, t)]
          /\ remaining' = [t \in Metered |-> remaining[t] - Started(c, t)]
    BY <1>1 DEF CallsTools
  <2>2. c \in Seq(Names) /\ Answer(c) \in Entries
    BY EntryTypes
  <2>3. messages' \in Seq(Entries) /\ accumulated' \in Seq(Entries)
    BY <2>1, <2>2, <1>0
  <2>4. \A t \in Metered : Started(c, t) \in Nat /\ Started(c, t) <= remaining[t]
    BY StartedWithin
  <2>5. executed' \in [Metered -> Nat] /\ remaining' \in [Metered -> Nat]
    BY <2>1, <2>4 DEF TypeOK
  <2>6. /\ Running' \subseteq DOMAIN calls' /\ tries' \in [Running' -> 1..(ToolRetries + 1)]
    BY <2>1 DEF Running, Affordable
  <2>. QED
    BY <1>1, <2>1, <2>3, <2>5, <2>6 DEF CallsTools, TypeOK
<1>2. CASE AnswersAtOnce
  <2>0. <<>> \in Seq(Names)
    OBVIOUS
  <2>1. Answer(<<>>) \in Entries
    BY <2>0, EntryTypes
  <2>2. accumulated' \in Seq(Entries)
    BY <1>2, <2>1, <1>0 DEF AnswersAtOnce
  <2>. QED
    BY <1>2, <2>2 DEF AnswersAtOnce, TypeOK, Running, budgets
<1>3. CASE ToolEnds
  BY <1>3 DEF ToolEnds, TypeOK, Running, Over, RoundOnly, transcripts, budgets
<1>4. CASE AttemptFails
  <2>1. PICK i \in Running :
          IF tries[i] <= ToolRetries THEN tries' = [tries EXCEPT ![i] = tries[i] + 1] ELSE Over(i)
    BY <1>4 DEF AttemptFails
  <2>2. Running' \subseteq Running /\ tries' \in [Running' -> 1..(ToolRetries + 1)]
    <3>1. CASE tries[i] <= ToolRetries
      <4>1. tries \in [Running -> 1..(ToolRetries + 1)]
        BY DEF TypeOK
      <4>2. tries[i] + 1 \in 1..(ToolRetries + 1)
        BY <4>1, <3>1
      <4>3. tries' \in [Running -> 1..(ToolRetries + 1)]
        BY <4>1, <4>2, <2>1, <3>1
      <4>. QED
        BY <4>3 DEF Running
    <3>2. CASE ~ (tries[i] <= ToolRetries)
      BY <2>1, <3>2 DEF TypeOK, Running, Over
    <3>. QED
      BY <3>1, <3>2
  <2>. QED
    BY <1>4, <2>2 DEF AttemptFails, TypeOK, RoundOnly, transcripts, budgets, Running
<1>5. CASE NextRound
  <2>1. messages' \in Seq(Entries) /\ accumulated' \in Seq(Entries)
    BY <1>5, <1>0, EntryTypes, ConcatProperties DEF NextRound, Told
  <2>2. strays' \in 0..MaxStrays
    BY <1>5 DEF NextRound, Strays, TypeOK
  <2>. QED
    BY <1>5, <2>1, <2>2 DEF NextRound, TypeOK, Running, budgets
<1>6. CASE RoundsOver
  <2>0. calls \in Seq(Names) /\ <<Steering>> \in Seq(Entries) /\ Results(calls) \in Seq(Entries)
    BY <1>0, EntryTypes
  <2>1. messages' \in Seq(Entries) /\ accumulated' \in Seq(Entries)
    <3>1. /\ messages \o Results(calls) \in Seq(Entries)
          /\ accumulated \o Results(calls) \in Seq(Entries)
      BY <1>0, <2>0, ConcatProperties
    <3>2. (messages \o Results(calls)) \o <<Steering>> \in Seq(Entries)
      BY <3>1, <2>0, ConcatProperties
    <3>. QED
      BY <1>6, <3>1, <3>2 DEF RoundsOver, Steered
  <2>2. strays' \in 0..MaxStrays
    BY <1>6 DEF RoundsOver, Strays, TypeOK, Bounded
  <2>. QED
    BY <1>6, <2>1, <2>2 DEF RoundsOver, TypeOK, Running, budgets
<1>7. CASE Synthesized
  <2>1. PICK c \in Replies : calls' = c /\ accumulated' = Append(accumulated, Answer(c))
    BY <1>7 DEF Synthesized
  <2>2. c \in Seq(Names) /\ Answer(c) \in Entries
    BY EntryTypes
  <2>3. accumulated' \in Seq(Entries)
    BY <2>1, <2>2, <1>0
  <2>4. Running = {}
    BY <1>7 DEF Synthesized, TypeOK
  <2>. QED
    BY <1>7, <2>1, <2>3, <2>4 DEF Synthesized, TypeOK, Running, budgets
<1>8. CASE Accepted \/ Exhausted
  BY <1>8 DEF Accepted, Exhausted, TypeOK, Running, budgets, transcripts
<1>9. CASE Repaired
  <2>1. /\ messages \o <<Answer(calls), Repair>> \in Seq(Entries) /\ Repair \in Entries
    BY <1>0, <1>9, EntryTypes, GoodRepair DEF Settled, Repaired
  <2>2. messages' \in Seq(Entries) /\ accumulated' \in Seq(Entries)
    BY <1>9, <1>0, <2>1 DEF Repaired
  <2>3. Running = {} /\ Running' = {} /\ tries' \in [Running' -> 1..(ToolRetries + 1)]
    BY <1>9 DEF Repaired, TypeOK, Running
  <2>4. remaining' \in [Metered -> Nat] /\ executed' \in [Metered -> Nat]
    BY <1>9 DEF Repaired, TypeOK, budgets, KeptBudgets
  <2>5. attempt' \in 1..MaxAttempts /\ round' \in 1..MaxRounds /\ strays' \in 0..MaxStrays
    BY <1>9 DEF Repaired, TypeOK
  <2>. QED
    BY <1>9, <2>2, <2>3, <2>4, <2>5 DEF Repaired, TypeOK
<1>10. CASE Raises
  <2>1. Running' = {} /\ tries' \in [Running' -> 1..(ToolRetries + 1)]
    BY <1>10 DEF Raises, NoTries, Running
  <2>. QED
    BY <1>10, <2>1 DEF Raises, TypeOK, budgets, transcripts
<1>11. CASE UNCHANGED vars
  BY <1>11 DEF vars, TypeOK, Running, budgets, transcripts
<1>. QED
  BY <1>1, <1>2, <1>3, <1>4, <1>5, <1>6, <1>7, <1>8, <1>9, <1>10, <1>11 DEF Next

\* Every step keeps what was started and what is left equal to the budget.
LEMMA AccountedStep == Inv /\ [Next]_vars => Accounted'
<1>. SUFFICES ASSUME Inv, [Next]_vars PROVE Accounted'
  OBVIOUS
<1>. USE DEF Inv
<1>1. CASE CallsTools
  <2>1. PICK c \in Replies \ {<<>>} :
          /\ executed' = [t \in Metered |-> executed[t] + Started(c, t)]
          /\ remaining' = [t \in Metered |-> remaining[t] - Started(c, t)]
    BY <1>1 DEF CallsTools
  <2>2. \A t \in Metered : Started(c, t) \in Nat
    BY StartedWithin
  <2>. QED
    BY <2>1, <2>2 DEF Accounted, TypeOK
<1>2. CASE ~ CallsTools
  <2>1. UNCHANGED <<executed, remaining>>
    BY <1>2 DEF Next, AnswersAtOnce, ToolEnds, AttemptFails, NextRound, RoundsOver, Synthesized,
                Accepted, Repaired, Exhausted, Raises, vars, budgets, KeptBudgets, RoundOnly
  <2>. QED
    BY <2>1 DEF Accounted
<1>. QED
  BY <1>1, <1>2

\* Every step keeps the list answered up to its last answer.
LEMMA SettledStep == Inv /\ [Next]_vars => Settled'
<1>. SUFFICES ASSUME Inv, [Next]_vars PROVE Settled'
  OBVIOUS
<1>. USE DEF Inv
<1>0. calls \in Seq(Names) /\ messages \in Seq(Entries) /\ Steering \in Entries
  BY CallsType, EntryTypes DEF TypeOK
<1>1. CASE CallsTools
  <2>1. AllGood(messages)
    BY <1>1 DEF CallsTools, Settled
  <2>2. messages' = Append(messages, Answer(calls')) /\ pc' = "tools"
    BY <1>1 DEF CallsTools
  <2>. QED
    BY <1>0, <2>1, <2>2 DEF Settled
<1>2. CASE AnswersAtOnce
  BY <1>2 DEF AnswersAtOnce, Settled
<1>3. CASE ToolEnds \/ AttemptFails
  BY <1>3 DEF ToolEnds, AttemptFails, RoundOnly, transcripts, Settled
<1>4. ASSUME pc = "tools"
      PROVE  AllGood(messages \o Results(calls)) /\ messages \o Results(calls) \in Seq(Entries)
  <2>1. PICK s \in Seq(Entries) : messages = Append(s, Answer(calls)) /\ AllGood(s)
    BY <1>4 DEF Settled
  <2>. QED
    BY <2>1, <1>0, GoodRound
<1>5. CASE NextRound
  <2>1. messages' = messages \o Results(calls) /\ pc' = "calling" /\ pc = "tools"
    BY <1>5 DEF NextRound, Told
  <2>. QED
    BY <2>1, <1>4 DEF Settled
<1>6. CASE RoundsOver
  <2>. DEFINE s == messages \o Results(calls)
  <2>1. messages' = (messages \o Results(calls)) \o <<Steering>> /\ pc' = "synthesis" /\ pc = "tools"
    BY <1>6 DEF RoundsOver, Steered
  <2>2. AllGood(s) /\ s \in Seq(Entries)
    BY <2>1, <1>4
  <2>3. messages' = s \o <<Steering>>
    BY <2>1
  <2>4. Steering.kind = "steering"
    BY DEF Steering
  <2>. HIDE DEF s
  <2>5. AllGood(messages')
    BY <2>2, <2>3, <2>4, <1>0, GoodSays
  <2>6. Len(messages') = Len(s) + 1 /\ messages'[Len(s) + 1] = Steering /\ Len(s) \in Nat
    BY <2>2, <2>3
  <2>. QED
    BY <2>1, <2>4, <2>5, <2>6 DEF Settled
<1>7. CASE Synthesized
  BY <1>7 DEF Synthesized, Settled
<1>8. CASE Accepted \/ Exhausted
  BY <1>8 DEF Accepted, Exhausted, Settled
<1>9. CASE Repaired
  <2>1. messages' = messages \o <<Answer(calls), Repair>> /\ pc' = "calling" /\ pc = "validating"
    BY <1>9 DEF Repaired
  <2>2. AllGood(messages)
    BY <2>1 DEF Settled
  <2>3. calls # <<>> => Len(messages) > 0 /\ messages[Len(messages)].kind = "steering"
    BY <2>1 DEF Settled
  <2>. QED
    BY <2>1, <2>2, <2>3, <1>0, GoodRepair DEF Settled
<1>10. CASE Raises
  BY <1>10 DEF Raises, Settled
<1>11. CASE UNCHANGED vars
  BY <1>11 DEF vars, transcripts, Settled
<1>. QED
  BY <1>1, <1>2, <1>3, <1>5, <1>6, <1>7, <1>8, <1>9, <1>10, <1>11 DEF Next

\* While the model is called or tools run, the stray rounds stay below their bound.
LEMMA BoundedStep == Inv /\ [Next]_vars => Bounded'
<1>. SUFFICES ASSUME Inv, [Next]_vars PROVE Bounded'
  OBVIOUS
<1>1. CASE NextRound
  BY <1>1 DEF NextRound, Bounded
<1>2. CASE Repaired
  BY <1>2 DEF Repaired, Bounded
<1>3. CASE ~ NextRound /\ ~ Repaired
  <2>1. \/ pc' \notin {"calling", "tools"}
        \/ pc \in {"calling", "tools"} /\ strays' = strays
    BY <1>3 DEF Next, CallsTools, AnswersAtOnce, ToolEnds, AttemptFails, RoundsOver, Synthesized,
                Accepted, Exhausted, Raises, vars, RoundOnly
  <2>. QED
    BY <2>1 DEF Inv, Bounded
<1>. QED
  BY <1>1, <1>2, <1>3

\* Every step keeps what later turns are told equal to what the model was told.
LEMMA AgreedStep == Inv /\ [Next]_vars => Agreed'
<1>. SUFFICES ASSUME Inv, [Next]_vars PROVE Agreed'
  OBVIOUS
<1>. USE DEF Inv
<1>0. /\ calls \in Seq(Names) /\ messages \in Seq(Entries) /\ accumulated \in Seq(Entries)
      /\ Steering \in Entries /\ Repair \in Entries /\ Answer(calls) \in Entries
      /\ Unsteered(messages) \in Seq(Entries)
  BY CallsType, EntryTypes, UnsteeredType DEF TypeOK
<1>1. CASE CallsTools
  <2>1. PICK c \in Replies \ {<<>>} :
          messages' = Append(messages, Answer(c)) /\ accumulated' = Append(accumulated, Answer(c))
    BY <1>1 DEF CallsTools
  <2>2. Answer(c) \in Entries /\ Answer(c).kind # "steering"
    BY EntryTypes DEF Answer
  <2>3. Unsteered(messages') = Append(Unsteered(messages), Answer(c))
    BY <1>0, <2>1, <2>2, UnsteeredAppend
  <2>. QED
    BY <1>1, <2>1, <2>3 DEF CallsTools, Agreed
<1>2. CASE AnswersAtOnce
  BY <1>2 DEF AnswersAtOnce, Agreed
<1>3. CASE ToolEnds \/ AttemptFails
  BY <1>3 DEF ToolEnds, AttemptFails, RoundOnly, transcripts, Agreed
<1>4. ASSUME pc = "tools"
      PROVE  Unsteered(messages \o Results(calls)) = accumulated \o Results(calls)
  <2>1. \A i \in 1..Len(Results(calls)) : Results(calls)[i].kind # "steering"
    <3>1. \A i \in 1..Len(calls) : Result(calls, i).kind # "steering"
      BY DEF Result
    <3>. QED
      BY <3>1, <1>0, EntryTypes
  <2>2. Results(calls) \in Seq(Entries)
    BY <1>0, EntryTypes
  <2>3. Unsteered(messages) = accumulated
    BY <1>4 DEF Agreed
  <2>. QED
    BY <2>1, <2>2, <2>3, <1>0, UnsteeredConcat
<1>5. CASE NextRound
  BY <1>4, <1>5 DEF NextRound, Told, Agreed
<1>6. CASE RoundsOver
  <2>. DEFINE s == messages \o Results(calls)
  <2>1. s \in Seq(Entries) /\ Unsteered(s) = accumulated \o Results(calls)
    BY <1>0, <1>4, <1>6, EntryTypes, ConcatProperties DEF RoundsOver
  <2>2. messages' = s \o <<Steering>> /\ accumulated' = accumulated \o Results(calls)
    BY <1>6 DEF RoundsOver, Steered
  <2>. HIDE DEF s
  <2>3. messages' = Append(s, Steering)
    BY <1>0, <2>1, <2>2, AppendIsConcat
  <2>4. Unsteered(messages') = Unsteered(s)
    BY <1>0, <2>1, <2>3, UnsteeredAppend DEF Steering
  <2>. QED
    BY <1>6, <2>1, <2>2, <2>4 DEF RoundsOver, Agreed
<1>7. CASE Synthesized
  BY <1>7 DEF Synthesized, Agreed
<1>8. CASE Accepted \/ Exhausted
  BY <1>8 DEF Accepted, Exhausted, Agreed
<1>9. CASE Repaired
  <2>. DEFINE t == <<Answer(calls), Repair>>
              u == Unsteered(messages)
  <2>1. messages' = messages \o t /\ accumulated' = Append(accumulated, Repair) /\ pc' = "calling"
    BY <1>9 DEF Repaired
  <2>2. Append(u, Answer(calls)) = accumulated
    BY <1>9 DEF Repaired, Agreed
  <2>3. t \in Seq(Entries) /\ \A i \in 1..Len(t) : t[i].kind # "steering"
    <3>1. Answer(calls).kind # "steering" /\ Repair.kind # "steering"
      BY DEF Answer, Repair
    <3>2. t \in Seq(Entries) /\ Len(t) = 2 /\ t[1] = Answer(calls) /\ t[2] = Repair
      BY <1>0
    <3>. HIDE DEF t
    <3>. QED
      BY <3>1, <3>2
  <2>4. Unsteered(messages \o t) = u \o t
    <3>. HIDE DEF t
    <3>. QED
      BY <1>0, <2>3, UnsteeredConcat
  <2>5. u \o t = Append(Append(u, Answer(calls)), Repair)
    <3>. HIDE DEF u
    <3>. QED
      BY <1>0
  <2>. QED
    BY <2>1, <2>2, <2>4, <2>5 DEF Agreed
<1>10. CASE Raises
  BY <1>10 DEF Raises, Agreed
<1>11. CASE UNCHANGED vars
  BY <1>11 DEF vars, transcripts, Agreed
<1>. QED
  BY <1>1, <1>2, <1>3, <1>5, <1>6, <1>7, <1>8, <1>9, <1>10, <1>11 DEF Next

-----------------------------------------------------------------------------
\* Every reachable state satisfies the inductive invariant.
THEOREM Invariance == Spec => []Inv
<1>1. Inv /\ [Next]_vars => Inv'
  BY TypeStep, AccountedStep, SettledStep, BoundedStep, AgreedStep DEF Inv
<1>. QED
  BY <1>1, InitHolds, PTL DEF Spec

\* The state is well formed: budgets never go below zero.
THEOREM TypeCorrect == Spec => []TypeOK
  BY Invariance, PTL DEF Inv

\* No tool is started more often than its max_calls allows.
THEOREM BudgetHolds == Spec => []BudgetKept
<1>1. Inv => BudgetKept
  BY DEF Inv, TypeOK, Accounted, BudgetKept
<1>. QED
  BY <1>1, Invariance, PTL

\* Every call of a round is answered in its place before the model is called again.
THEOREM AnswersCalls == Spec => []CallsAnswered
<1>1. Inv => CallsAnswered
  BY DEF Inv, Settled, AllGood, Good, CallsAnswered
<1>. QED
  BY <1>1, Invariance, PTL

\* Later turns are told of the interaction exactly what the model was told, less the
\* instruction of the last call.
THEOREM LaterTurnsAgree == Spec => []TranscriptsAgree
<1>1. Inv => TranscriptsAgree
  BY DEF Inv, Agreed, TranscriptsAgree
<1>. QED
  BY <1>1, Invariance, PTL

\* What a round may still attempt is a finite set.
LEMMA LeftFinite == TypeOK => IsFiniteSet(Left)
<1>. SUFFICES ASSUME TypeOK PROVE IsFiniteSet(Left)
  OBVIOUS
<1>1. Running \subseteq 1..Len(calls) /\ Len(calls) \in Nat
  BY CallsType DEF TypeOK
<1>2. IsFiniteSet(1..Len(calls)) /\ IsFiniteSet(1..(ToolRetries + 1))
  BY <1>1, FS_Interval
<1>3. IsFiniteSet(Running)
  BY <1>1, <1>2, FS_Subset
<1>4. IsFiniteSet(Running \X (1..(ToolRetries + 1)))
  BY <1>2, <1>3, FS_Product
<1>5. Left \subseteq Running \X (1..(ToolRetries + 1))
  BY DEF Left
<1>. QED
  BY <1>4, <1>5, FS_Subset

\* A tool that ends, or goes on to its next attempt, has less left.
LEMMA OverShrinks ==
  ASSUME TypeOK, NEW i \in Running, Over(i)
  PROVE  Left' \subseteq Left /\ Left' # Left
<1>1. tries \in [Running -> 1..(ToolRetries + 1)]
  BY DEF TypeOK
<1>2. Running' = Running \ {i} /\ \A j \in Running \ {i} : tries'[j] = tries[j]
  BY DEF Over, Running
<1>3. Left' \subseteq Left
  BY <1>2 DEF Left
<1>4. <<i, tries[i]>> \in Left /\ <<i, tries[i]>> \notin Left'
  BY <1>1, <1>2 DEF Left
<1>. QED
  BY <1>3, <1>4

\* A tool that is tried again has an attempt less left.
LEMMA RetryShrinks ==
  ASSUME TypeOK, NEW i \in Running, tries' = [tries EXCEPT ![i] = tries[i] + 1]
  PROVE  Left' \subseteq Left /\ Left' # Left
<1>1. tries \in [Running -> 1..(ToolRetries + 1)]
  BY DEF TypeOK
<1>2. /\ Running' = Running /\ tries'[i] = tries[i] + 1
      /\ \A j \in Running : j # i => tries'[j] = tries[j]
  BY <1>1 DEF Running
<1>3. tries[i] \in Nat /\ \A k \in Nat : k >= tries[i] + 1 => k >= tries[i]
  BY <1>1
<1>4. Left' \subseteq Left
  BY <1>2, <1>3 DEF Left
<1>5. <<i, tries[i]>> \in Left /\ ~ (tries[i] >= tries[i] + 1)
  BY <1>1, <1>3 DEF Left
<1>6. <<i, tries[i]>> \notin Left'
  BY <1>2, <1>5 DEF Left
<1>. QED
  BY <1>4, <1>5, <1>6

\* The order of the phases of a round, as far as it is needed.
LEMMA PhaseOrder ==
  /\ Later("calling", "tools") /\ Later("calling", "validating")
  /\ Later("tools", "synthesis") /\ Later("synthesis", "validating")
  BY DEF Later, Phases

\* Every step brings the interaction closer to its end: no answers of the model, failures of
\* tools or refusals keep it going for ever.
THEOREM AlwaysCloser == Spec => [][Closer]_vars
<1>1. Inv /\ [Next]_vars => [Closer]_vars
  <2>. SUFFICES ASSUME Inv, Next PROVE Closer
    OBVIOUS
  <2>0. TypeOK
    BY DEF Inv
  <2>1. CASE CallsTools \/ AnswersAtOnce \/ RoundsOver \/ Synthesized
    BY <2>1, PhaseOrder DEF CallsTools, AnswersAtOnce, RoundsOver, Synthesized, Closer
  <2>2. CASE ToolEnds
    <3>1. PICK i \in Running : Over(i)
      BY <2>2 DEF ToolEnds
    <3>. QED
      BY <2>0, <2>2, <3>1, OverShrinks DEF ToolEnds, RoundOnly, Closer
  <2>3. CASE AttemptFails
    <3>1. PICK i \in Running :
            IF tries[i] <= ToolRetries THEN tries' = [tries EXCEPT ![i] = tries[i] + 1] ELSE Over(i)
      BY <2>3 DEF AttemptFails
    <3>2. Left' \subseteq Left /\ Left' # Left
      BY <2>0, <3>1, OverShrinks, RetryShrinks
    <3>. QED
      BY <2>3, <3>2 DEF AttemptFails, RoundOnly, Closer
  <2>4. CASE NextRound
    BY <2>4 DEF NextRound, Closer
  <2>5. CASE Repaired
    BY <2>5 DEF Repaired, Closer
  <2>6. CASE Accepted \/ Exhausted \/ Raises
    BY <2>6 DEF Accepted, Exhausted, Raises, Closer
  <2>. QED
    BY <2>1, <2>2, <2>3, <2>4, <2>5, <2>6 DEF Next
<1>. QED
  BY <1>1, Invariance, PTL DEF Spec
=============================================================================
