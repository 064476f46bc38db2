--------------------------- MODULE SpanSinkProofs ---------------------------
(***************************************************************************)
(* Proofs about SpanSink for every set of spans, every size of row and     *)
(* every value of the caps.                                                *)
(***************************************************************************)
EXTENDS SpanSink, FiniteSetTheorems, SequenceTheorems, TLAPS

-----------------------------------------------------------------------------
(* Lemmas on the operators that cut a sequence of rows.                    *)

\* The oldest k rows of a sequence are a sequence of its first rows.
LEMMA OldestLemma ==
  ASSUME NEW b \in Seq(Spans), NEW k \in 0 .. Len(b)
  PROVE  /\ Oldest(b, k) \in Seq(Spans)
         /\ Len(Oldest(b, k)) = k
         /\ \A i \in 1 .. k : Oldest(b, k)[i] = b[i]
BY SubSeqProperties, LenProperties, ElementOfSeq DEF Oldest

\* The other rows are a sequence of its last rows.
LEMMA NewestLemma ==
  ASSUME NEW b \in Seq(Spans), NEW k \in 0 .. Len(b)
  PROVE  /\ Newest(b, k) \in Seq(Spans)
         /\ Len(Newest(b, k)) = Len(b) - k
         /\ \A i \in 1 .. (Len(b) - k) : Newest(b, k)[i] = b[i + k]
BY SubSeqProperties, LenProperties, ElementOfSeq DEF Newest

\* Cutting a sequence loses no row and, when no row is there twice, puts none
\* on both sides.
LEMMA CutLemma ==
  ASSUME NEW b \in Seq(Spans), NEW k \in 0 .. Len(b)
  PROVE  /\ ToSet(b) = ToSet(Oldest(b, k)) \cup ToSet(Newest(b, k))
         /\ IsInjective(b) => /\ IsInjective(Oldest(b, k)) /\ IsInjective(Newest(b, k))
                              /\ ToSet(Oldest(b, k)) \cap ToSet(Newest(b, k)) = {}
<1> DEFINE old == Oldest(b, k)  new == Newest(b, k)
<1>1. /\ old \in Seq(Spans) /\ Len(old) = k /\ DOMAIN old = 1 .. k
      /\ \A i \in 1 .. k : old[i] = b[i]
  BY OldestLemma, LenProperties
<1>2. /\ new \in Seq(Spans) /\ Len(new) = Len(b) - k /\ DOMAIN new = 1 .. (Len(b) - k)
      /\ \A i \in 1 .. (Len(b) - k) : new[i] = b[i + k]
  BY NewestLemma, LenProperties
<1>3. DOMAIN b = 1 .. Len(b) /\ Len(b) \in Nat
  BY LenProperties
<1> HIDE DEF old, new
<1>4. ToSet(b) \subseteq ToSet(old) \cup ToSet(new)
  <2> SUFFICES ASSUME NEW i \in 1 .. Len(b) PROVE b[i] \in ToSet(old) \cup ToSet(new)
    BY <1>3 DEF ToSet
  <2>1. CASE i <= k
    BY <2>1, <1>1, <1>3 DEF ToSet
  <2>2. CASE i > k
    <3>1. i - k \in 1 .. (Len(b) - k) /\ new[i - k] = b[i]
      BY <2>2, <1>2, <1>3
    <3> QED
      BY <3>1, <1>2 DEF ToSet
  <2> QED
    BY <2>1, <2>2, <1>3
<1>5. ToSet(old) \subseteq ToSet(b) /\ ToSet(new) \subseteq ToSet(b)
  <2>1. \A i \in DOMAIN old : old[i] \in ToSet(b)
    BY <1>1, <1>3 DEF ToSet
  <2>2. \A i \in DOMAIN new : i + k \in DOMAIN b /\ new[i] = b[i + k]
    BY <1>2, <1>3
  <2>3. \A i \in DOMAIN new : new[i] \in ToSet(b)
    BY <2>2 DEF ToSet
  <2> QED
    BY <2>1, <2>3 DEF ToSet
<1>6. ASSUME IsInjective(b)
      PROVE  /\ IsInjective(old) /\ IsInjective(new)
             /\ ToSet(old) \cap ToSet(new) = {}
  <2>1. \A i, j \in DOMAIN b : b[i] = b[j] => i = j
    BY <1>6 DEF IsInjective
  <2>2. IsInjective(old)
    BY <2>1, <1>1, <1>3 DEF IsInjective
  <2>3. \A i, j \in DOMAIN new : new[i] = new[j] => i = j
    <3> SUFFICES ASSUME NEW i \in DOMAIN new, NEW j \in DOMAIN new, new[i] = new[j]
                 PROVE  i = j
      OBVIOUS
    <3>1. i \in Int /\ j \in Int /\ i + k \in DOMAIN b /\ j + k \in DOMAIN b
      BY <1>2, <1>3
    <3>2. b[i + k] = b[j + k]
      BY <1>2
    <3> QED
      BY <3>1, <3>2, <2>1
  <2>4. ASSUME NEW i \in DOMAIN old, NEW j \in DOMAIN new PROVE old[i] # new[j]
    <3>1. i \in DOMAIN b /\ j + k \in DOMAIN b /\ i # j + k
      BY <1>1, <1>2, <1>3
    <3>2. old[i] = b[i] /\ new[j] = b[j + k]
      BY <1>1, <1>2
    <3> QED
      BY <3>1, <3>2, <2>1
  <2> QED
    BY <2>2, <2>3, <2>4 DEF IsInjective, ToSet
<1> QED
  BY <1>4, <1>5, <1>6 DEF old, new

\* The bytes of two disjoint sets of rows add up.
LEMMA BytesLemma ==
  /\ Bytes[{}] = 0
  /\ \A S \in SUBSET Spans : Bytes[S] \in Nat
  /\ \A S, T \in SUBSET Spans : S \cap T = {} => Bytes[S \cup T] = Bytes[S] + Bytes[T]
BY BytesAssumption

\* The elements of a sequence of spans are spans.
LEMMA ToSetLemma ==
  ASSUME NEW b \in Seq(Spans)
  PROVE  ToSet(b) \in SUBSET Spans
BY LenProperties, ElementOfSeq DEF ToSet

\* The empty sequence has no elements.
LEMMA ToSetEmpty == ToSet(<<>>) = {}
BY EmptySeq DEF ToSet

\* A sequence of distinct rows, whose bytes are n.
Sized(b, n) == b \in Seq(Spans) /\ IsInjective(b) /\ n = Bytes[ToSet(b)]
Within(b, n) == Len(b) <= MaxRows /\ n <= MaxBytes

\* What is left of such a sequence when its oldest rows leave it.
LEMMA NewestSized ==
  ASSUME NEW b, NEW n, Sized(b, n), NEW k \in 0 .. Len(b)
  PROVE  Sized(Newest(b, k), n - Bytes[ToSet(Oldest(b, k))])
<1> DEFINE old == Oldest(b, k)  new == Newest(b, k)
<1>1. b \in Seq(Spans) /\ IsInjective(b) /\ n = Bytes[ToSet(b)]
  BY DEF Sized
<1>2. old \in Seq(Spans) /\ new \in Seq(Spans)
  BY <1>1, OldestLemma, NewestLemma
<1>3. ToSet(b) = ToSet(old) \cup ToSet(new) /\ IsInjective(new) /\ ToSet(old) \cap ToSet(new) = {}
  BY <1>1, CutLemma
<1> HIDE DEF old, new
<1>4. ToSet(old) \in SUBSET Spans /\ ToSet(new) \in SUBSET Spans
  BY <1>2, ToSetLemma
<1>5. n = Bytes[ToSet(old)] + Bytes[ToSet(new)] /\ Bytes[ToSet(old)] \in Nat /\ Bytes[ToSet(new)] \in Nat
  BY <1>1, <1>3, <1>4, BytesLemma
<1>6. n - Bytes[ToSet(old)] = Bytes[ToSet(new)]
  BY <1>5
<1> QED
  BY <1>2, <1>3, <1>6 DEF Sized, old, new

\* Holding a sequence of distinct rows: the caps are met, and what is not kept
\* is counted as dropped.
LEMMA HoldLemma ==
  ASSUME NEW b, NEW n, Sized(b, n), Hold(b, n)
  PROVE  /\ Sized(buffer', bytes') /\ Within(buffer', bytes')
         /\ ToSet(buffer') \subseteq ToSet(b)
         /\ dropped' = dropped \cup (ToSet(b) \ ToSet(buffer'))
<1>1. PICK k \in 0 .. Len(b) :
        /\ FitsWithout(b, n, k)
        /\ buffer' = Newest(b, k)
        /\ bytes' = n - Bytes[ToSet(Oldest(b, k))]
        /\ dropped' = dropped \cup ToSet(Oldest(b, k))
  BY DEF Hold
<1>2. b \in Seq(Spans) /\ IsInjective(b)
  BY DEF Sized
<1>3. Sized(buffer', bytes')
  BY <1>1, NewestSized
<1>4. Within(buffer', bytes')
  <2>1. CASE buffer' = <<>>
    <3>1. Len(buffer') = 0 /\ bytes' = 0
      BY <2>1, <1>3, ToSetEmpty, EmptySeq, BytesLemma DEF Sized
    <3> QED
      BY <3>1, CapsAssumption DEF Within
  <2>2. CASE buffer' # <<>>
    BY <2>2, <1>1 DEF FitsWithout, Fits, Within
  <2> QED
    BY <2>1, <2>2
<1>5. /\ ToSet(b) = ToSet(Oldest(b, k)) \cup ToSet(buffer')
      /\ ToSet(Oldest(b, k)) \cap ToSet(buffer') = {}
  BY <1>1, <1>2, CutLemma
<1> QED
  BY <1>1, <1>3, <1>4, <1>5

\* Taking a batch: its rows leave the buffer and are nowhere else.
LEMMA TakeLemma ==
  ASSUME NEW b, NEW n, Sized(b, n), Within(b, n), Take(b, n)
  PROVE  /\ Sized(buffer', bytes') /\ Within(buffer', bytes')
         /\ \E batch \in Seq(Spans) :
               /\ drain' = <<batch>> /\ IsInjective(batch)
               /\ ToSet(b) = ToSet(batch) \cup ToSet(buffer')
               /\ ToSet(batch) \cap ToSet(buffer') = {}
<1> DEFINE k == IF Len(b) < BatchSize THEN Len(b) ELSE BatchSize
<1>1. b \in Seq(Spans) /\ IsInjective(b) /\ Len(b) \in Nat
  BY LenProperties DEF Sized
<1>2. k \in 0 .. Len(b)
  BY <1>1, CapsAssumption
<1>3. /\ drain' = <<Oldest(b, k)>> /\ buffer' = Newest(b, k)
      /\ bytes' = n - Bytes[ToSet(Oldest(b, k))]
  BY DEF Take
<1> HIDE DEF k
<1>4. Sized(buffer', bytes')
  BY <1>2, <1>3, NewestSized
<1>5. Oldest(b, k) \in Seq(Spans) /\ Len(buffer') = Len(b) - k
  BY <1>1, <1>2, <1>3, OldestLemma, NewestLemma
<1>6. Within(buffer', bytes')
  <2>1. Bytes[ToSet(Oldest(b, k))] \in Nat /\ n \in Nat
    BY <1>1, <1>5, ToSetLemma, BytesLemma DEF Sized
  <2> QED
    BY <2>1, <1>1, <1>2, <1>3, <1>5, CapsAssumption DEF Within
<1>7. /\ IsInjective(Oldest(b, k))
      /\ ToSet(b) = ToSet(Oldest(b, k)) \cup ToSet(buffer')
      /\ ToSet(Oldest(b, k)) \cap ToSet(buffer') = {}
  BY <1>1, <1>2, <1>3, CutLemma
<1> QED
  BY <1>3, <1>4, <1>5, <1>6, <1>7

\* Joining two sequences of rows that share none.
LEMMA JoinLemma ==
  ASSUME NEW q \in Seq(Spans), NEW b \in Seq(Spans), IsInjective(q), IsInjective(b),
         ToSet(q) \cap ToSet(b) = {}
  PROVE  /\ q \o b \in Seq(Spans) /\ IsInjective(q \o b)
         /\ ToSet(q \o b) = ToSet(q) \cup ToSet(b)
<1> DEFINE j == q \o b
<1>1. /\ j \in Seq(Spans) /\ Len(j) = Len(q) + Len(b) /\ DOMAIN j = 1 .. (Len(q) + Len(b))
      /\ \A i \in 1 .. Len(q) + Len(b) : j[i] = IF i <= Len(q) THEN q[i] ELSE b[i - Len(q)]
  BY ConcatProperties, LenProperties
<1>2. Len(q) \in Nat /\ Len(b) \in Nat /\ DOMAIN q = 1 .. Len(q) /\ DOMAIN b = 1 .. Len(b)
  BY LenProperties
<1> HIDE DEF j
<1>3. \A i \in DOMAIN j : \/ i \in DOMAIN q /\ j[i] = q[i]
                          \/ i - Len(q) \in DOMAIN b /\ j[i] = b[i - Len(q)] /\ i > Len(q)
  BY <1>1, <1>2
<1>4. ToSet(j) \subseteq ToSet(q) \cup ToSet(b)
  BY <1>3 DEF ToSet
<1>5. \A i \in DOMAIN q : i \in DOMAIN j /\ j[i] = q[i]
  BY <1>1, <1>2
<1>6. \A i \in DOMAIN b : i + Len(q) \in DOMAIN j /\ j[i + Len(q)] = b[i]
  BY <1>1, <1>2
<1>7. ToSet(q) \cup ToSet(b) \subseteq ToSet(j)
  BY <1>5, <1>6 DEF ToSet
<1>8. \A x \in DOMAIN q, y \in DOMAIN b : q[x] # b[y]
  BY DEF ToSet
<1>9. ASSUME NEW x \in DOMAIN j, NEW y \in DOMAIN j, j[x] = j[y] PROVE x = y
  <2>1. x \in Int /\ y \in Int
    BY <1>1
  <2> QED
    BY <2>1, <1>2, <1>3, <1>8, <1>9 DEF IsInjective
<1> QED
  BY <1>1, <1>4, <1>7, <1>9 DEF IsInjective, j

\* Unparking a span removes its row and no other.
LEMMA UnparkedLemma ==
  ASSUME NEW s \in Spans, Sized(buffer, bytes), Within(buffer, bytes), bytes \in Int,
         NEW n, n = IF s \in ToSet(buffer) THEN bytes - Bytes[{s}] ELSE bytes
  PROVE  /\ Sized(Unparked(s), n) /\ Within(Unparked(s), n)
         /\ ToSet(Unparked(s)) = ToSet(buffer) \ {s}
<1>1. /\ buffer \in Seq(Spans) /\ IsInjective(buffer) /\ bytes = Bytes[ToSet(buffer)]
      /\ Len(buffer) \in Nat /\ DOMAIN buffer = 1 .. Len(buffer)
  BY LenProperties DEF Sized
<1>2. CASE s \notin ToSet(buffer)
  BY <1>2 DEF Unparked
<1>3. CASE s \in ToSet(buffer)
  <2> DEFINE i == CHOOSE i \in DOMAIN buffer : buffer[i] = s
             old == Oldest(buffer, i - 1)  new == Newest(buffer, i)
  <2>1. i \in 1 .. Len(buffer) /\ buffer[i] = s
    BY <1>1, <1>3 DEF ToSet
  <2>2. Unparked(s) = old \o new
    BY <1>3 DEF Unparked, RemoveAt, Oldest, Newest
  <2> HIDE DEF i
  <2>3. i - 1 \in 0 .. Len(buffer) /\ i \in 0 .. Len(buffer)
    BY <1>1, <2>1
  <2>4. /\ old \in Seq(Spans) /\ Len(old) = i - 1 /\ DOMAIN old = 1 .. (i - 1)
        /\ \A x \in 1 .. (i - 1) : old[x] = buffer[x]
    <3> DEFINE k == i - 1
    <3>1. k \in 0 .. Len(buffer)
      BY <2>3
    <3> HIDE DEF k
    <3>2. /\ Oldest(buffer, k) \in Seq(Spans) /\ Len(Oldest(buffer, k)) = k
          /\ \A x \in 1 .. k : Oldest(buffer, k)[x] = buffer[x]
      BY <1>1, <3>1, OldestLemma
    <3>3. DOMAIN Oldest(buffer, k) = 1 .. k
      BY <3>2, LenProperties
    <3> QED
      BY <3>2, <3>3 DEF k
  <2>5. /\ new \in Seq(Spans) /\ Len(new) = Len(buffer) - i /\ DOMAIN new = 1 .. (Len(buffer) - i)
        /\ \A x \in 1 .. (Len(buffer) - i) : new[x] = buffer[x + i]
    BY <1>1, <2>3, NewestLemma, LenProperties
  <2>6. IsInjective(old) /\ IsInjective(new)
    BY <1>1, <2>3, CutLemma
  <2> HIDE DEF old, new
  <2>7. /\ \A x \in DOMAIN old : x \in DOMAIN buffer /\ x # i /\ old[x] = buffer[x]
        /\ \A x \in DOMAIN new : x + i \in DOMAIN buffer /\ x + i # i /\ new[x] = buffer[x + i]
        /\ \A x \in DOMAIN old, y \in DOMAIN new : x # y + i
    BY <1>1, <2>1, <2>4, <2>5
  <2>8. \A x, y \in DOMAIN buffer : buffer[x] = buffer[y] => x = y
    BY <1>1 DEF IsInjective
  <2>9. ToSet(old) \cap ToSet(new) = {}
    BY <2>7, <2>8 DEF ToSet
  <2>10. ToSet(old) \cup ToSet(new) \subseteq ToSet(buffer) \ {s}
    <3>1. \A x \in DOMAIN old : old[x] \in ToSet(buffer) /\ old[x] # s
      BY <1>1, <2>1, <2>7, <2>8 DEF ToSet
    <3>2. \A x \in DOMAIN new : new[x] \in ToSet(buffer) /\ new[x] # s
      BY <1>1, <2>1, <2>7, <2>8 DEF ToSet
    <3> QED
      BY <3>1, <3>2 DEF ToSet
  <2>11. ToSet(buffer) \ {s} \subseteq ToSet(old) \cup ToSet(new)
    <3> SUFFICES ASSUME NEW x \in DOMAIN buffer, buffer[x] # s
                 PROVE  buffer[x] \in ToSet(old) \cup ToSet(new)
      BY DEF ToSet
    <3>1. CASE x < i
      <4>1. x \in DOMAIN old /\ old[x] = buffer[x]
        BY <3>1, <1>1, <2>1, <2>4
      <4> QED
        BY <4>1 DEF ToSet
    <3>2. CASE x > i
      <4>1. x - i \in DOMAIN new /\ new[x - i] = buffer[x]
        BY <3>2, <1>1, <2>1, <2>5
      <4> QED
        BY <4>1 DEF ToSet
    <3> QED
      BY <3>1, <3>2, <1>1, <2>1
  <2>12. /\ Unparked(s) \in Seq(Spans) /\ IsInjective(Unparked(s))
         /\ ToSet(Unparked(s)) = ToSet(buffer) \ {s}
    BY <2>2, <2>4, <2>5, <2>6, <2>9, <2>10, <2>11, JoinLemma
  <2>13. Len(Unparked(s)) = Len(buffer) - 1
    <3>1. Len(old \o new) = Len(old) + Len(new)
      BY <2>4, <2>5, ConcatProperties
    <3>2. i \in Int
      BY <1>1, <2>1
    <3>3. Len(old) + Len(new) = Len(buffer) - 1
      BY <3>2, <1>1, <2>4, <2>5
    <3> QED
      BY <3>1, <3>3, <2>2
  <2>14. bytes = Bytes[ToSet(buffer) \ {s}] + Bytes[{s}] /\ Bytes[{s}] \in Nat
    <3>1. ToSet(buffer) \ {s} \in SUBSET Spans /\ {s} \in SUBSET Spans
      BY <1>1, ToSetLemma
    <3>2. ToSet(buffer) = (ToSet(buffer) \ {s}) \cup {s}
      BY <1>3
    <3> QED
      BY <1>1, <3>1, <3>2, BytesLemma
  <2>15. Bytes[ToSet(buffer) \ {s}] \in Nat
    BY <1>1, ToSetLemma, BytesLemma
  <2> QED
    BY <1>1, <1>3, <2>12, <2>13, <2>14, <2>15, CapsAssumption DEF Sized, Within
<1> QED
  BY <1>2, <1>3

-----------------------------------------------------------------------------
(* Lemmas on the batches of a drain.                                       *)

\* No batches, or one, and their rows.
LEMMA FewBatches ==
  /\ Rows(<<>>) = {} /\ Apart(<<>>)
  /\ \A q : IsInjective(q) => Rows(<<q>>) = ToSet(q) /\ Apart(<<q>>)
<1>1. DOMAIN <<>> = {}
  BY EmptySeq
<1>2. ASSUME NEW q PROVE DOMAIN <<q>> = {1} /\ <<q>>[1] = q
  OBVIOUS
<1>3. Rows(<<>>) = {} /\ Apart(<<>>)
  BY <1>1 DEF Rows, Apart
<1> QED
  BY <1>2, <1>3 DEF Rows, Apart

\* The batch at the database, and the ones behind it.
LEMMA HeadBatch ==
  ASSUME NEW d \in Seq(Seq(Spans)), d # <<>>
  PROVE  /\ Head(d) \in Seq(Spans) /\ Tail(d) \in Seq(Seq(Spans))
         /\ Rows(d) = ToSet(Head(d)) \cup Rows(Tail(d))
         /\ Apart(d) => /\ IsInjective(Head(d)) /\ Apart(Tail(d))
                       /\ ToSet(Head(d)) \cap Rows(Tail(d)) = {}
         /\ Len(Tail(d)) = Len(d) - 1
         /\ Rows(Tail(d)) = UNION {ToSet(d[i]) : i \in 2 .. Len(d)}
<1>1. /\ Head(d) = d[1] /\ Tail(d) \in Seq(Seq(Spans)) /\ Len(Tail(d)) = Len(d) - 1
      /\ \A i \in 1 .. (Len(d) - 1) : Tail(d)[i] = d[i + 1]
  BY HeadTailProperties
<1>2. /\ Len(d) \in Nat /\ Len(d) >= 1 /\ DOMAIN d = 1 .. Len(d)
      /\ DOMAIN Tail(d) = 1 .. (Len(d) - 1)
  BY <1>1, LenProperties, EmptySeq
<1>3. d[1] \in Seq(Spans)
  BY <1>2, ElementOfSeq
<1>4. \A i \in DOMAIN Tail(d) : i + 1 \in 2 .. Len(d) /\ i + 1 \in DOMAIN d /\ Tail(d)[i] = d[i + 1]
  BY <1>1, <1>2
<1>5. \A i \in 2 .. Len(d) : i - 1 \in DOMAIN Tail(d) /\ i \in DOMAIN d /\ Tail(d)[i - 1] = d[i]
  <2> TAKE i \in 2 .. Len(d)
  <2>1. i - 1 \in 1 .. (Len(d) - 1) /\ (i - 1) + 1 = i
    BY <1>2
  <2> QED
    BY <2>1, <1>1, <1>2
<1>6. Rows(Tail(d)) = UNION {ToSet(d[i]) : i \in 2 .. Len(d)}
  BY <1>4, <1>5 DEF Rows
<1>7. \A i \in DOMAIN d : i = 1 \/ i \in 2 .. Len(d)
  BY <1>2
<1>8. 1 \in DOMAIN d
  BY <1>2
<1>9. Rows(d) = ToSet(Head(d)) \cup Rows(Tail(d))
  <2>1. \A x : x \in Rows(d) <=> \E i \in DOMAIN d : x \in ToSet(d[i])
    BY DEF Rows
  <2>2. \A x : x \in Rows(Tail(d)) <=> \E i \in 2 .. Len(d) : x \in ToSet(d[i])
    BY <1>6
  <2>3. \A x : x \in Rows(d) <=> x \in ToSet(d[1]) \/ x \in Rows(Tail(d))
    BY <2>1, <2>2, <1>5, <1>7, <1>8
  <2> QED
    BY <2>3, <1>1
<1>10. ASSUME Apart(d)
       PROVE  /\ IsInjective(Head(d)) /\ Apart(Tail(d))
              /\ ToSet(Head(d)) \cap Rows(Tail(d)) = {}
  <2>1. IsInjective(Head(d))
    BY <1>1, <1>8, <1>10 DEF Apart
  <2>2. \A i \in 2 .. Len(d) : ToSet(d[1]) \cap ToSet(d[i]) = {}
    BY <1>5, <1>8, <1>10 DEF Apart
  <2>3. \A i, j \in DOMAIN Tail(d) : i # j => i + 1 # j + 1
    BY <1>2
  <2>4. Apart(Tail(d))
    BY <2>3, <1>4, <1>10 DEF Apart
  <2> QED
    BY <2>1, <2>2, <2>4, <1>1, <1>6
<1> QED
  BY <1>1, <1>3, <1>6, <1>9, <1>10

\* Two elements put in front of a sequence.
LEMMA PairInFront ==
  ASSUME NEW S, NEW x \in S, NEW y \in S, NEW t \in Seq(S), NEW e, e = <<x, y>> \o t
  PROVE  /\ e \in Seq(S) /\ DOMAIN e = 1 .. (2 + Len(t)) /\ e # <<>>
         /\ e[1] = x /\ e[2] = y
         /\ \A i \in 3 .. (2 + Len(t)) : e[i] = t[i - 2]
<1> DEFINE p == <<x, y>>
<1>1. p \in Seq(S) /\ Len(p) = 2 /\ p[1] = x /\ p[2] = y
  OBVIOUS
<1>2. e = p \o t
  OBVIOUS
<1> HIDE DEF p
<1>3. Len(t) \in Nat
  BY LenProperties
<1>4. e \in Seq(S)
  BY <1>1, <1>2, ConcatProperties
<1>5. Len(e) = 2 + Len(t)
  BY <1>1, <1>2, ConcatProperties
<1>6. \A i \in 1 .. (2 + Len(t)) : e[i] = IF i <= 2 THEN p[i] ELSE t[i - 2]
  BY <1>1, <1>2, ConcatProperties
<1>7. DOMAIN e = 1 .. (2 + Len(t)) /\ e # <<>>
  BY <1>3, <1>4, <1>5, LenProperties, EmptySeq
<1>8. e[1] = x /\ e[2] = y
  BY <1>1, <1>3, <1>6
<1>9. \A i \in 3 .. (2 + Len(t)) : e[i] = t[i - 2]
  BY <1>3, <1>6
<1> QED
  BY <1>4, <1>7, <1>8, <1>9

\* Splitting the batch at the database leaves the same rows, still apart.
LEMMA SplitBatch ==
  ASSUME NEW d \in Seq(Seq(Spans)), d # <<>>, Apart(d),
         NEW k \in 0 .. Len(Head(d)),
         NEW e, e = <<Oldest(Head(d), k), Newest(Head(d), k)>> \o Tail(d)
  PROVE  /\ e \in Seq(Seq(Spans)) /\ e # <<>>
         /\ Rows(e) = Rows(d) /\ Apart(e)
<1> DEFINE old == Oldest(Head(d), k)  new == Newest(Head(d), k)  t == Tail(d)
<1>1. /\ Head(d) \in Seq(Spans) /\ t \in Seq(Seq(Spans)) /\ IsInjective(Head(d)) /\ Apart(t)
      /\ Rows(d) = ToSet(Head(d)) \cup Rows(t) /\ ToSet(Head(d)) \cap Rows(t) = {}
  BY HeadBatch
<1>2. /\ old \in Seq(Spans) /\ new \in Seq(Spans) /\ IsInjective(old) /\ IsInjective(new)
      /\ ToSet(Head(d)) = ToSet(old) \cup ToSet(new) /\ ToSet(old) \cap ToSet(new) = {}
  BY <1>1, OldestLemma, NewestLemma, CutLemma
<1> HIDE DEF old, new, t
<1>4. Len(t) \in Nat /\ DOMAIN t = 1 .. Len(t)
  BY <1>1, LenProperties
<1>5. /\ e \in Seq(Seq(Spans)) /\ DOMAIN e = 1 .. (2 + Len(t)) /\ e # <<>>
      /\ e[1] = old /\ e[2] = new
      /\ \A i \in 3 .. (2 + Len(t)) : e[i] = t[i - 2]
  <2>1. e = <<old, new>> \o t
    BY DEF old, new, t
  <2> QED
    BY <1>1, <1>2, <2>1, PairInFront
<1>6. \A i \in DOMAIN e : \/ i = 1 /\ e[i] = old
                          \/ i = 2 /\ e[i] = new
                          \/ i - 2 \in DOMAIN t /\ e[i] = t[i - 2] /\ i > 2
  <2> TAKE i \in DOMAIN e
  <2>1. i = 1 \/ i = 2 \/ i \in 3 .. (2 + Len(t))
    BY <1>4, <1>5
  <2>2. i \in 3 .. (2 + Len(t)) => i - 2 \in 1 .. Len(t) /\ i > 2
    BY <1>4
  <2> QED
    BY <2>1, <2>2, <1>4, <1>5
<1>7. \A i \in DOMAIN t : i + 2 \in DOMAIN e /\ e[i + 2] = t[i]
  <2> TAKE i \in DOMAIN t
  <2> DEFINE j == i + 2
  <2> DEFINE n == Len(t)
  <2>1. n \in Nat /\ i \in 1 .. n
    BY <1>4
  <2> HIDE DEF n
  <2>2. j \in 3 .. (2 + n) /\ j - 2 = i /\ j \in 1 .. (2 + n)
    BY <2>1
  <2> HIDE DEF j
  <2>3. e[j] = t[i] /\ j \in DOMAIN e
    BY <2>2, <1>5 DEF n
  <2> QED
    BY <2>3 DEF j
<1>8. 1 \in DOMAIN e /\ 2 \in DOMAIN e
  BY <1>4, <1>5
<1>9. \A x : x \in Rows(e) <=> \E i \in DOMAIN e : x \in ToSet(e[i])
  BY DEF Rows
<1>10. \A x : x \in Rows(t) <=> \E i \in DOMAIN t : x \in ToSet(t[i])
  BY DEF Rows
<1>11. Rows(e) = ToSet(old) \cup ToSet(new) \cup Rows(t)
  <2>1. ASSUME NEW x \in Rows(e) PROVE x \in ToSet(old) \cup ToSet(new) \cup Rows(t)
    BY <1>6, <1>9, <1>10
  <2>2. ASSUME NEW x \in ToSet(old) \cup ToSet(new) \cup Rows(t) PROVE x \in Rows(e)
    BY <1>5, <1>7, <1>8, <1>9, <1>10
  <2> QED
    BY <2>1, <2>2
<1>12. \A i \in DOMAIN t : ToSet(old) \cap ToSet(t[i]) = {} /\ ToSet(new) \cap ToSet(t[i]) = {}
  BY <1>1, <1>2, <1>10
<1>13. \A i \in DOMAIN e : IsInjective(e[i])
  BY <1>1, <1>2, <1>6 DEF Apart
<1>14. ASSUME NEW i \in DOMAIN e, NEW j \in DOMAIN e, i # j PROVE ToSet(e[i]) \cap ToSet(e[j]) = {}
  <2>1. i \in Int /\ j \in Int /\ i # j
    BY <1>5, <1>14
  <2>2. \A x, y \in DOMAIN t : x # y => ToSet(t[x]) \cap ToSet(t[y]) = {}
    BY <1>1 DEF Apart
  <2>3. \/ i = 1 /\ e[i] = old
        \/ i = 2 /\ e[i] = new
        \/ i - 2 \in DOMAIN t /\ e[i] = t[i - 2]
    BY <1>6
  <2>4. \/ j = 1 /\ e[j] = old
        \/ j = 2 /\ e[j] = new
        \/ j - 2 \in DOMAIN t /\ e[j] = t[j - 2]
    BY <1>6
  <2>5. CASE i - 2 \in DOMAIN t /\ e[i] = t[i - 2] /\ j - 2 \in DOMAIN t /\ e[j] = t[j - 2]
    <3>1. i - 2 # j - 2
      BY <2>1
    <3> QED
      BY <3>1, <2>2, <2>5
  <2>6. CASE ~(i - 2 \in DOMAIN t /\ e[i] = t[i - 2]) /\ ~(j - 2 \in DOMAIN t /\ e[j] = t[j - 2])
    BY <2>1, <2>3, <2>4, <2>6, <1>2
  <2>7. CASE i - 2 \in DOMAIN t /\ e[i] = t[i - 2] /\ ~(j - 2 \in DOMAIN t /\ e[j] = t[j - 2])
    BY <2>4, <2>7, <1>12
  <2>8. CASE ~(i - 2 \in DOMAIN t /\ e[i] = t[i - 2]) /\ j - 2 \in DOMAIN t /\ e[j] = t[j - 2]
    BY <2>3, <2>8, <1>12
  <2> QED
    BY <2>5, <2>6, <2>7, <2>8
<1> QED
  BY <1>1, <1>2, <1>5, <1>11, <1>13, <1>14 DEF Apart

-----------------------------------------------------------------------------
(* The inductive invariant.                                                *)

\* The shape of the buffer and of the batches.
Queues == /\ Sized(buffer, bytes) /\ Within(buffer, bytes)
          /\ drain \in Seq(Seq(Spans)) /\ Apart(drain)
          /\ ToSet(buffer) \cap Draining = {}

\* The variables whose type does not follow from Queues.
OtherTypes ==
    /\ pc \in [Spans -> Phases]
    /\ attempts \in [Spans -> Nat] /\ draining \in BOOLEAN
    /\ flush \in {"idle", "writing", "paused", "emptied", "skipped", "expired"}
    /\ up \in BOOLEAN /\ degraded \in BOOLEAN
    /\ started \subseteq Spans /\ durable \subseteq Spans
    /\ dropped \subseteq Spans /\ poisoned \subseteq Spans /\ stranded \subseteq Spans

\* Only a span that has finished has a terminal row anywhere. Finish needs it:
\* the row it parks is not parked already.
Places == \A s \in Spans : s \in Queued \cup durable => pc[s] \notin Open

\* The rows the sink has given up. They are in no queue, and their spans, having
\* finished, bring none in.
Lost == dropped \cup poisoned \cup stranded
LostPlaces == \A s \in Lost : s \notin Queued /\ pc[s] \notin Open

Inv == /\ OtherTypes /\ Queues /\ OneDrain /\ Places /\ LostPlaces
       /\ AccountedFor /\ DegradedTellsTheTruth

\* A step keeps the shape of the queues, brings in no row but those of S, and
\* settles every row it takes out; a row it gives up is one it takes out.
Moves(S) == /\ Queues'
            /\ Queued' \subseteq Queued \cup S
            /\ Queued \cup S \subseteq Queued' \cup Settled'
            /\ Settled \subseteq Settled' /\ Settled' \subseteq Spans /\ durable \subseteq durable'
            /\ Lost \subseteq Lost' /\ Lost' \subseteq Lost \cup ((Queued \cup S) \ Queued')

\* The rows in the queues are rows of spans.
LEMMA RowsLemma == Queues => Queued \subseteq Spans /\ Draining = Rows(drain)
<1> SUFFICES ASSUME Queues PROVE Queued \subseteq Spans
  BY DEF Draining
<1>1. buffer \in Seq(Spans) /\ drain \in Seq(Seq(Spans))
  BY DEF Queues, Sized
<1>2. \A i \in DOMAIN drain : drain[i] \in Seq(Spans)
  BY <1>1, ElementOfSeq, LenProperties
<1>3. \A i \in DOMAIN drain : ToSet(drain[i]) \subseteq Spans
  BY <1>2, ToSetLemma
<1> QED
  BY <1>1, <1>3, ToSetLemma DEF Queued, Draining, Rows

\* Parking the row of a span that finishes.
LEMMA FinishMoves ==
  ASSUME Inv, NEW s \in Spans, Finish(s)
  PROVE  Moves({s})
<1>1. s \notin Queued /\ buffer \in Seq(Spans) /\ IsInjective(buffer) /\ bytes = Bytes[ToSet(buffer)]
  BY DEF Inv, Places, Finish, Open, Queues, Sized
<1> DEFINE b == buffer \o <<s>>
<1>2. Append(buffer, s) = b
  BY <1>1, AppendIsConcat
<1>3. <<s>> \in Seq(Spans) /\ IsInjective(<<s>>) /\ ToSet(<<s>>) = {s}
  BY DEF IsInjective, ToSet
<1>4. ToSet(buffer) \cap ToSet(<<s>>) = {}
  BY <1>1, <1>3 DEF Queued
<1>5. b \in Seq(Spans) /\ IsInjective(b) /\ ToSet(b) = ToSet(buffer) \cup {s}
  BY <1>1, <1>3, <1>4, JoinLemma
<1>6. bytes + Bytes[{s}] = Bytes[ToSet(b)]
  <2>1. ToSet(buffer) \in SUBSET Spans /\ {s} \in SUBSET Spans /\ ToSet(buffer) \cap {s} = {}
    BY <1>1, ToSetLemma DEF Queued
  <2> QED
    BY <2>1, <1>1, <1>5, BytesLemma
<1>7. Sized(b, bytes + Bytes[{s}]) /\ Hold(b, bytes + Bytes[{s}])
  BY <1>2, <1>5, <1>6 DEF Sized, Finish, Park
<1> HIDE DEF b
<1>8. /\ Sized(buffer', bytes') /\ Within(buffer', bytes') /\ ToSet(buffer') \subseteq ToSet(b)
      /\ dropped' = dropped \cup (ToSet(b) \ ToSet(buffer'))
  BY <1>7, HoldLemma
<1>9. drain' = drain /\ Draining' = Draining /\ UNCHANGED <<started, durable, poisoned, stranded>>
  BY DEF Finish, Draining, store
<1>10. Queues'
  BY <1>1, <1>5, <1>8, <1>9 DEF Inv, Queues, Queued
<1>11. dropped' \subseteq Spans /\ Settled' = Settled \cup (ToSet(b) \ ToSet(buffer'))
  BY <1>5, <1>8, <1>9, ToSetLemma DEF Inv, OtherTypes, Settled, Lost
<1>12. Queued' \subseteq Queued \cup {s} /\ Queued \cup {s} \subseteq Queued' \cup dropped'
  BY <1>5, <1>8, <1>9 DEF Queued
<1>13. Lost' = Lost \cup (ToSet(b) \ ToSet(buffer')) /\ ToSet(b) \cap Draining = {}
  BY <1>1, <1>5, <1>8, <1>9 DEF Lost, Inv, Queues, Queued
<1>14. Lost \subseteq Lost' /\ Lost' \subseteq Lost \cup ((Queued \cup {s}) \ Queued')
  BY <1>5, <1>9, <1>13 DEF Queued
<1>15. Settled \subseteq Settled' /\ Settled' \subseteq Spans /\ durable \subseteq durable' /\ dropped' \subseteq Settled'
  BY <1>5, <1>8, <1>9, <1>11 DEF Settled, Lost, Inv, OtherTypes
<1> QED
  BY <1>10, <1>12, <1>14, <1>15 DEF Moves

\* An acknowledged insert: its row is unparked, and a pump may take a batch.
LEMMA InsertAckedMoves ==
  ASSUME Inv, NEW s \in Spans, InsertAcked(s)
  PROVE  Moves({})
<1> DEFINE b == Unparked(s)
           n == IF s \in ToSet(buffer) THEN bytes - Bytes[{s}] ELSE bytes
<1>1. Sized(buffer, bytes) /\ Within(buffer, bytes) /\ bytes \in Int
  BY ToSetLemma, BytesLemma DEF Inv, Queues, Sized
<1>2. Sized(b, n) /\ Within(b, n) /\ ToSet(b) = ToSet(buffer) \ {s}
  BY <1>1, UnparkedLemma
<1>3. \/ /\ b # <<>> /\ ~draining /\ Take(b, n)
      \/ buffer' = b /\ bytes' = n /\ drain' = drain
  BY DEF InsertAcked, Pumps, UnparkedBytes
<1>4. durable' = durable \cup {s} /\ UNCHANGED counts
  BY DEF InsertAcked
<1> HIDE DEF b, n
<1>5. CASE buffer' = b /\ bytes' = n /\ drain' = drain
  BY <1>2, <1>4, <1>5 DEF Moves, Queues, Queued, Settled, Lost, Draining, Inv, OtherTypes, counts
<1>6. CASE b # <<>> /\ ~draining /\ Take(b, n)
  <2>1. Sized(buffer', bytes') /\ Within(buffer', bytes')
    BY <1>2, <1>6, TakeLemma
  <2>2. PICK batch \in Seq(Spans) :
          /\ drain' = <<batch>> /\ IsInjective(batch)
          /\ ToSet(b) = ToSet(batch) \cup ToSet(buffer')
          /\ ToSet(batch) \cap ToSet(buffer') = {}
    BY <1>2, <1>6, TakeLemma
  <2>3. drain = <<>> /\ Draining = {}
    BY <1>6, FewBatches DEF Inv, OneDrain, Draining
  <2>4. Draining' = ToSet(batch) /\ Apart(drain') /\ drain' \in Seq(Seq(Spans))
    BY <2>2, FewBatches DEF Draining
  <2> QED
    BY <1>2, <1>4, <2>1, <2>2, <2>3, <2>4
    DEF Moves, Queues, Queued, Settled, Lost, Inv, OtherTypes, counts
<1> QED
  BY <1>3, <1>5, <1>6

\* What a drain holds, in terms of the batch at the database.
LEMMA DrainHead ==
  ASSUME Inv, drain # <<>>
  PROVE  /\ Head(drain) \in Seq(Spans) /\ IsInjective(Head(drain)) /\ ToSet(Head(drain)) \subseteq Spans
         /\ Tail(drain) \in Seq(Seq(Spans)) /\ Apart(Tail(drain))
         /\ Draining = ToSet(Head(drain)) \cup Rows(Tail(drain))
         /\ ToSet(Head(drain)) \cap Rows(Tail(drain)) = {}
         /\ ToSet(buffer) \cap ToSet(Head(drain)) = {}
         /\ ToSet(buffer) \cap Rows(Tail(drain)) = {}
         /\ Rows(Tail(drain)) = UNION {ToSet(drain[i]) : i \in 2 .. Len(drain)}
<1>1. /\ drain \in Seq(Seq(Spans)) /\ Apart(drain) /\ ToSet(buffer) \cap Draining = {}
      /\ Draining = Rows(drain)
  BY DEF Inv, Queues, Draining
<1>2. /\ Head(drain) \in Seq(Spans) /\ Tail(drain) \in Seq(Seq(Spans))
      /\ Rows(drain) = ToSet(Head(drain)) \cup Rows(Tail(drain))
      /\ IsInjective(Head(drain)) /\ Apart(Tail(drain))
      /\ ToSet(Head(drain)) \cap Rows(Tail(drain)) = {}
      /\ Rows(Tail(drain)) = UNION {ToSet(drain[i]) : i \in 2 .. Len(drain)}
  BY <1>1, HeadBatch
<1> QED
  BY <1>1, <1>2, ToSetLemma

\* Reparking the batch at the database.
LEMMA ReparkLemma ==
  ASSUME Inv, drain # <<>>, Repark(Head(drain))
  PROVE  /\ Sized(buffer', bytes') /\ Within(buffer', bytes')
         /\ ToSet(buffer') \subseteq ToSet(buffer) \cup ToSet(Head(drain))
         /\ dropped' = dropped \cup ((ToSet(buffer) \cup ToSet(Head(drain))) \ ToSet(buffer'))
<1> DEFINE q == Head(drain)  b == q \o buffer  n == bytes + Bytes[ToSet(q)]
<1>1. /\ q \in Seq(Spans) /\ IsInjective(q) /\ ToSet(q) \in SUBSET Spans
      /\ ToSet(buffer) \cap ToSet(q) = {}
  BY DrainHead
<1>2. /\ buffer \in Seq(Spans) /\ IsInjective(buffer) /\ bytes = Bytes[ToSet(buffer)]
      /\ ToSet(buffer) \in SUBSET Spans
  BY ToSetLemma DEF Inv, Queues, Sized
<1>3. Hold(b, n)
  BY DEF Repark
<1> HIDE DEF q
<1>4. b \in Seq(Spans) /\ IsInjective(b) /\ ToSet(b) = ToSet(buffer) \cup ToSet(q)
  BY <1>1, <1>2, JoinLemma
<1>5. n = Bytes[ToSet(b)]
  BY <1>1, <1>2, <1>4, BytesLemma
<1> HIDE DEF b, n
<1>6. /\ Sized(buffer', bytes') /\ Within(buffer', bytes') /\ ToSet(buffer') \subseteq ToSet(b)
      /\ dropped' = dropped \cup (ToSet(b) \ ToSet(buffer'))
  BY <1>3, <1>4, <1>5, HoldLemma DEF Sized
<1> QED
  BY <1>4, <1>6 DEF q

\* The failed inserts store rows of spans only.
LEMMA FailedBatchLemma ==
  ASSUME Inv, drain # <<>>, FailedBatch(Head(drain))
  PROVE  durable \subseteq durable' /\ durable' \subseteq Spans
BY DrainHead DEF FailedBatch, Inv, OtherTypes

\* The rows of the batch that is dealt with are stored.
LEMMA BatchAckedMoves ==
  ASSUME Inv, BatchAcked
  PROVE  Moves({})
<1>1. /\ drain # <<>> /\ drain' = Tail(drain) /\ UNCHANGED <<buffer, bytes, dropped, poisoned, stranded>>
      /\ durable' = durable \cup ToSet(Head(drain))
  BY DEF BatchAcked, Resolved, counts
<1>2. Draining' = Rows(Tail(drain))
  BY <1>1 DEF Draining
<1> QED
  BY <1>1, <1>2, DrainHead DEF Moves, Queues, Queued, Settled, Lost, Inv, OtherTypes

\* They are parked again, or dropped.
LEMMA BatchReparkedMoves ==
  ASSUME Inv, BatchReparked
  PROVE  Moves({})
<1>1. /\ drain # <<>> /\ drain' = Tail(drain) /\ UNCHANGED <<poisoned, stranded>>
      /\ FailedBatch(Head(drain)) /\ Repark(Head(drain))
  BY DEF BatchReparked, Resolved
<1>2. Draining' = Rows(Tail(drain))
  BY <1>1 DEF Draining
<1>3. durable \subseteq durable' /\ durable' \subseteq Spans
  BY <1>1, FailedBatchLemma
<1>4. Queued \subseteq Spans
  BY RowsLemma DEF Inv
<1>5. Queues'
  BY <1>1, <1>2, DrainHead, ReparkLemma DEF Queues
<1>6. Queued' \subseteq Queued /\ Queued \subseteq Queued' \cup dropped'
  BY <1>1, <1>2, DrainHead, ReparkLemma DEF Queued
<1>7. dropped \subseteq dropped' /\ dropped' \subseteq Spans
  BY <1>1, <1>4, DrainHead, ReparkLemma DEF Inv, OtherTypes, Queued
<1>8. dropped' \subseteq dropped \cup (Queued \ Queued')
  BY <1>1, <1>2, DrainHead, ReparkLemma DEF Queued
<1>9. Lost \subseteq Lost' /\ Lost' \subseteq Lost \cup (Queued \ Queued') /\ Lost' \subseteq Spans
  BY <1>1, <1>7, <1>8 DEF Lost, Inv, OtherTypes
<1> QED
  BY <1>3, <1>5, <1>6, <1>9 DEF Moves, Settled, Lost

\* A batch can be cut at its middle.
LEMMA HalfLemma == \A n \in Nat : n \div 2 \in 0 .. n
OBVIOUS

\* They stay with the drain, in two halves.
LEMMA BatchSplitMoves ==
  ASSUME Inv, BatchSplit
  PROVE  Moves({}) /\ drain' # <<>>
<1> DEFINE k == Len(Head(drain)) \div 2
<1>1. /\ drain # <<>> /\ UNCHANGED <<buffer, bytes, counts>> /\ FailedBatch(Head(drain))
      /\ drain' = <<Oldest(Head(drain), k), Newest(Head(drain), k)>> \o Tail(drain)
  BY DEF BatchSplit
<1>2. k \in 0 .. Len(Head(drain))
  <2>1. Len(Head(drain)) \in Nat
    BY <1>1, DrainHead, LenProperties
  <2> QED
    BY <2>1, HalfLemma
<1> HIDE DEF k
<1>3. /\ drain' \in Seq(Seq(Spans)) /\ drain' # <<>>
      /\ Rows(drain') = Rows(drain) /\ Apart(drain')
  BY <1>1, <1>2, SplitBatch DEF Inv, Queues
<1>4. Draining' = Draining
  BY <1>3 DEF Draining
<1>5. durable \subseteq durable' /\ durable' \subseteq Spans
  BY <1>1, FailedBatchLemma
<1> QED
  BY <1>1, <1>3, <1>4, <1>5 DEF Moves, Queues, Queued, Settled, Lost, Inv, OtherTypes, counts

\* The only row of the batch is counted as poisoned.
LEMMA RowQuarantinedMoves ==
  ASSUME Inv, RowQuarantined
  PROVE  Moves({})
<1>1. /\ drain # <<>> /\ drain' = Tail(drain) /\ UNCHANGED <<buffer, bytes, dropped, stranded>>
      /\ FailedBatch(Head(drain)) /\ poisoned' = poisoned \cup ToSet(Head(drain))
  BY DEF RowQuarantined, Resolved
<1>2. Draining' = Rows(Tail(drain))
  BY <1>1 DEF Draining
<1>3. durable \subseteq durable' /\ durable' \subseteq Spans
  BY <1>1, FailedBatchLemma
<1>4. Queues'
  BY <1>1, <1>2, DrainHead DEF Queues, Inv
<1> QED
  BY <1>1, <1>2, <1>3, <1>4, DrainHead DEF Moves, Queued, Settled, Lost, Inv, OtherTypes

\* They are parked again, and those of the batches behind are stranded.
LEMMA DrainTimedOutMoves ==
  ASSUME Inv, DrainTimedOut
  PROVE  Moves({})
<1>1. /\ drain # <<>> /\ drain' = <<>> /\ UNCHANGED poisoned
      /\ FailedBatch(Head(drain)) /\ Repark(Head(drain))
      /\ stranded' = stranded \cup UNION {ToSet(drain[i]) : i \in 2 .. Len(drain)}
  BY DEF DrainTimedOut
<1>2. Draining' = {} /\ Apart(drain') /\ drain' \in Seq(Seq(Spans))
  BY <1>1, FewBatches DEF Draining
<1>3. durable \subseteq durable' /\ durable' \subseteq Spans
  BY <1>1, FailedBatchLemma
<1>4. Queued \subseteq Spans
  BY RowsLemma DEF Inv
<1>5. stranded' = stranded \cup Rows(Tail(drain))
  BY <1>1, DrainHead
<1>6. Queues'
  BY <1>1, <1>2, ReparkLemma DEF Queues
<1>7. Queued' \subseteq Queued /\ Queued \subseteq Queued' \cup dropped' \cup stranded'
  BY <1>1, <1>2, <1>5, DrainHead, ReparkLemma DEF Queued
<1>8. /\ dropped \subseteq dropped' /\ dropped' \subseteq Spans
      /\ stranded \subseteq stranded' /\ stranded' \subseteq Spans
  BY <1>1, <1>4, <1>5, DrainHead, ReparkLemma DEF Inv, OtherTypes, Queued
<1>9. /\ dropped' \subseteq dropped \cup (Queued \ Queued')
      /\ stranded' \subseteq stranded \cup (Queued \ Queued')
  BY <1>1, <1>2, <1>5, DrainHead, ReparkLemma DEF Queued
<1>10. Lost \subseteq Lost' /\ Lost' \subseteq Lost \cup (Queued \ Queued') /\ Lost' \subseteq Spans
  BY <1>1, <1>8, <1>9 DEF Lost, Inv, OtherTypes
<1> QED
  BY <1>3, <1>6, <1>7, <1>10 DEF Moves, Settled, Lost

\* The flush takes a batch, or none.
LEMMA FlushTakes ==
  ASSUME Inv, drain = <<>>, Take(buffer, bytes), UNCHANGED <<store, counts>>
  PROVE  Moves({}) /\ drain' # <<>>
<1>1. Sized(buffer, bytes) /\ Within(buffer, bytes) /\ Draining = {}
  BY FewBatches DEF Inv, Queues, Draining
<1>2. Sized(buffer', bytes') /\ Within(buffer', bytes')
  BY <1>1, TakeLemma
<1>3. PICK batch \in Seq(Spans) :
        /\ drain' = <<batch>> /\ IsInjective(batch)
        /\ ToSet(buffer) = ToSet(batch) \cup ToSet(buffer')
        /\ ToSet(batch) \cap ToSet(buffer') = {}
  BY <1>1, TakeLemma
<1>4. Draining' = ToSet(batch) /\ Apart(drain') /\ drain' \in Seq(Seq(Spans)) /\ drain' # <<>>
  BY <1>3, FewBatches DEF Draining
<1> QED
  BY <1>1, <1>2, <1>3, <1>4 DEF Moves, Queues, Queued, Settled, Lost, Inv, OtherTypes, store, counts

-----------------------------------------------------------------------------
(* What a step does to the phases of the spans.                            *)

Returned == {"pumping", "finished"}

\* A step in which the spans of S finish: no span goes back, only a row whose
\* span has finished is stored, and a span returns from its insert with its row
\* stored or the run degraded.
Advances(S) ==
    /\ OtherTypes' /\ OneDrain' /\ (degraded => degraded')
    /\ \A s \in Spans :
         /\ pc[s] \notin Open => pc'[s] \notin Open
         /\ pc[s] \in Open => (pc'[s] \notin Open <=> s \in S)
         /\ s \in S => pc[s] \in Open /\ pc'[s] = "inserting"
         /\ pc[s] \notin Open /\ pc'[s] = "inserting" => pc[s] = "inserting"
         /\ s \in durable' => s \in durable \/ pc[s] \notin Open
         /\ pc'[s] \in Returned => pc[s] \in Returned \/ s \in durable' \/ degraded'

\* Such a step keeps the invariant.
LEMMA StepLemma ==
  ASSUME Inv, NEW S \in SUBSET Spans, Moves(S), Advances(S)
  PROVE  Inv'
<1>1. OtherTypes' /\ Queues' /\ OneDrain'
  BY DEF Moves, Advances
<1>2. Places'
  <2> SUFFICES ASSUME NEW s \in Spans, s \in Queued' \cup durable' PROVE pc'[s] \notin Open
    BY DEF Places
  <2>1. s \in Queued \cup S \cup durable \/ pc[s] \notin Open
    BY DEF Moves, Advances
  <2> QED
    BY <2>1 DEF Inv, Places, Advances
<1>5. LostPlaces'
  <2> SUFFICES ASSUME NEW s \in Lost' PROVE s \notin Queued' /\ pc'[s] \notin Open
    BY DEF LostPlaces
  <2>1. s \in Spans
    BY DEF Moves, Settled, Lost
  <2>2. CASE s \in Lost
    BY <2>1, <2>2 DEF Inv, LostPlaces, Moves, Advances
  <2>3. CASE s \notin Lost
    <3>1. s \in Queued \cup S /\ s \notin Queued'
      BY <2>3 DEF Moves
    <3> QED
      BY <2>1, <3>1 DEF Inv, Places, Advances
  <2> QED
    BY <2>2, <2>3
<1>3. AccountedFor'
  <2> SUFFICES ASSUME NEW s \in Spans, pc'[s] \notin Open PROVE s \in Queued' \cup Settled'
    BY DEF AccountedFor, Settled, Lost
  <2>1. s \in Queued \cup S \cup Settled
    BY DEF Advances, Inv, AccountedFor, Settled, Lost
  <2> QED
    BY <2>1 DEF Moves
<1>4. DegradedTellsTheTruth'
  <2> SUFFICES ASSUME NEW s \in Spans, pc'[s] \in Returned PROVE s \in durable' \/ degraded'
    BY DEF DegradedTellsTheTruth, Returned
  <2> QED
    BY DEF Inv, DegradedTellsTheTruth, Advances, Moves, Returned
<1> QED
  BY <1>1, <1>2, <1>3, <1>4, <1>5 DEF Inv

\* A step that leaves the queues and the counters alone moves no row.
LEMMA StillLemma ==
  ASSUME Inv, UNCHANGED <<buffer, bytes, drain, counts>>,
         durable \subseteq durable', durable' \subseteq Spans
  PROVE  Moves({})
<1>1. Queues' /\ Queued' = Queued
  BY DEF Inv, Queues, Queued, Draining, Sized, Within, Rows, Apart
<1> QED
  BY <1>1 DEF Moves, Settled, Lost, counts, Inv, OtherTypes

\* The callbacks of a span that start no drain and park no row.
LEMMA SpanAdvances ==
  ASSUME Inv, NEW s \in Spans,
         \/ Begin(s) \/ StartReturns(s) \/ StartCancelled(s) \/ BodyReturns(s)
         \/ EncodeCancelled(s) \/ InsertFailed(s) \/ InsertTimedOut(s)
  PROVE  Moves({}) /\ Advances({})
<1>1. /\ UNCHANGED <<buffer, bytes, attempts, drain, draining, flush, up, counts>>
      /\ started' \in {started, started \cup {s}} /\ durable' \in {durable, durable \cup {s}}
      /\ degraded' \in {degraded, TRUE}
      /\ durable' # durable => pc[s] = "inserting"
      /\ \/ /\ pc[s] \in Open /\ \E p \in Open : pc' = [pc EXCEPT ![s] = p]
         \/ /\ pc[s] = "inserting" /\ pc' = [pc EXCEPT ![s] = "finished"] /\ degraded' = TRUE
  <2>1. CASE Begin(s) \/ StartReturns(s) \/ StartCancelled(s)
    BY <2>1 DEF Begin, StartReturns, StartCancelled, Open, store
  <2>2. CASE BodyReturns(s) \/ EncodeCancelled(s)
    BY <2>2 DEF BodyReturns, EncodeCancelled, Open, store
  <2>3. CASE InsertFailed(s) \/ InsertTimedOut(s)
    BY <2>3 DEF InsertFailed, InsertTimedOut, Open
  <2> QED
    BY <2>1, <2>2, <2>3
<1>2. Moves({})
  BY <1>1, StillLemma DEF Inv, OtherTypes
<1>3. OtherTypes'
  BY <1>1 DEF Inv, OtherTypes, Open, Phases, counts
<1>4. \A t \in Spans : (pc'[t] = "pumping") <=> (pc[t] = "pumping")
  BY <1>1 DEF Inv, OtherTypes, Open
<1>5. OneDrain'
  BY <1>1, <1>4 DEF Inv, OneDrain
<1>6. degraded => degraded'
  BY <1>1 DEF Inv, OtherTypes
<1>7. ASSUME NEW t \in Spans
      PROVE  /\ pc[t] \notin Open => pc'[t] \notin Open
             /\ pc[t] \in Open => pc'[t] \in Open
             /\ pc[t] \notin Open /\ pc'[t] = "inserting" => pc[t] = "inserting"
             /\ t \in durable' => t \in durable \/ pc[t] \notin Open
             /\ pc'[t] \in Returned => pc[t] \in Returned \/ t \in durable' \/ degraded'
  <2>1. t # s => pc'[t] = pc[t]
    BY <1>1 DEF Inv, OtherTypes
  <2>2. "inserting" \notin Open /\ "finished" \notin Open
    BY DEF Open
  <2>3. Open \cap Returned = {}
    BY DEF Open, Returned
  <2>4. \/ pc[s] \in Open /\ pc'[s] \in Open
        \/ pc[s] = "inserting" /\ pc'[s] = "finished" /\ degraded' = TRUE
    BY <1>1 DEF Inv, OtherTypes
  <2> QED
    BY <1>1, <2>1, <2>2, <2>3, <2>4
<1> QED
  BY <1>2, <1>3, <1>5, <1>6, <1>7 DEF Advances

\* on_span_finished.
LEMMA FinishAdvances ==
  ASSUME Inv, NEW s \in Spans, Finish(s)
  PROVE  Moves({s}) /\ Advances({s})
<1>1. /\ UNCHANGED <<drain, draining, flush, up, store, poisoned, stranded>>
      /\ pc[s] \in {"running", "encoding"} /\ pc' = [pc EXCEPT ![s] = "inserting"]
      /\ attempts' = [attempts EXCEPT ![s] = 0] /\ degraded' \in {degraded, TRUE}
  BY DEF Finish
<1>2. Moves({s})
  BY FinishMoves
<1>3. OtherTypes'
  BY <1>1, <1>2 DEF Inv, OtherTypes, Phases, store, Moves, Settled, Lost
<1>4. \A t \in Spans : (pc'[t] = "pumping") <=> (pc[t] = "pumping")
  BY <1>1 DEF Inv, OtherTypes
<1>5. OneDrain'
  BY <1>1, <1>4 DEF Inv, OneDrain
<1>6. degraded => degraded'
  BY <1>1 DEF Inv, OtherTypes
<1>7. ASSUME NEW t \in Spans
      PROVE  /\ pc[t] \notin Open => pc'[t] \notin Open
             /\ pc[t] \in Open => (pc'[t] \notin Open <=> t = s)
             /\ t = s => pc[t] \in Open /\ pc'[t] = "inserting"
             /\ pc[t] \notin Open /\ pc'[t] = "inserting" => pc[t] = "inserting"
             /\ t \in durable' => t \in durable
             /\ pc'[t] \in Returned => pc[t] \in Returned
  <2>1. t # s => pc'[t] = pc[t]
    BY <1>1 DEF Inv, OtherTypes
  <2>2. pc[s] \in Open /\ pc'[s] = "inserting" /\ pc'[s] \notin Open /\ pc'[s] \notin Returned
    BY <1>1 DEF Inv, OtherTypes, Open, Returned
  <2> QED
    BY <1>1, <2>1, <2>2 DEF store
<1> QED
  BY <1>2, <1>3, <1>5, <1>6, <1>7 DEF Advances

\* An acknowledged insert, with or without a pump.
LEMMA InsertAckedAdvances ==
  ASSUME Inv, NEW s \in Spans, InsertAcked(s)
  PROVE  Moves({}) /\ Advances({})
<1>1. /\ UNCHANGED <<attempts, flush, up, started, degraded, counts>>
      /\ pc[s] = "inserting" /\ durable' = durable \cup {s}
      /\ \/ /\ ~draining /\ draining' = TRUE /\ pc' = [pc EXCEPT ![s] = "pumping"]
            /\ \E q : drain' = <<q>>
         \/ pc' = [pc EXCEPT ![s] = "finished"] /\ UNCHANGED <<drain, draining>>
  BY DEF InsertAcked, Pumps, Take
<1>2. Moves({})
  BY InsertAckedMoves
<1>3. OtherTypes'
  BY <1>1, <1>2 DEF Inv, OtherTypes, Phases, counts
<1>4. OneDrain'
  <2>1. CASE pc' = [pc EXCEPT ![s] = "finished"] /\ UNCHANGED <<drain, draining>>
    <3>1. \A t \in Spans : (pc'[t] = "pumping") <=> (pc[t] = "pumping")
      BY <1>1, <2>1 DEF Inv, OtherTypes
    <3> QED
      BY <1>1, <2>1, <3>1 DEF Inv, OneDrain
  <2>2. CASE /\ ~draining /\ draining' = TRUE /\ pc' = [pc EXCEPT ![s] = "pumping"]
             /\ \E q : drain' = <<q>>
    <3>1. \A t \in Spans : (pc'[t] = "pumping") <=> t = s
      BY <2>2 DEF Inv, OtherTypes, OneDrain
    <3>2. drain' # <<>> /\ flush' \notin {"writing", "paused"}
      BY <1>1, <2>2 DEF Inv, OneDrain
    <3> QED
      BY <2>2, <3>1, <3>2 DEF OneDrain
  <2> QED
    BY <1>1, <2>1, <2>2
<1> QED
  BY <1>1, <1>2, <1>3, <1>4 DEF Advances, Inv, OtherTypes, Open, Returned

\* Dealing with one batch: the owner of the drain returns after the last.
LEMMA ResolvedLemma ==
  ASSUME Inv, drain # <<>>, Resolved
  PROVE  /\ pc' \in [Spans -> Phases] /\ draining' \in BOOLEAN
         /\ flush' \in {"idle", "writing", "paused", "emptied", "skipped", "expired"}
         /\ OneDrain'
         /\ \A s \in Spans : pc'[s] = pc[s] \/ (pc[s] = "pumping" /\ pc'[s] = "finished")
<1>1. drain \in Seq(Seq(Spans)) /\ Len(drain) \in Nat /\ Len(drain) >= 1
  BY LenProperties, EmptySeq DEF Inv, Queues
<1>2. Len(drain') = Len(drain) - 1 /\ drain' \in Seq(Seq(Spans))
  BY <1>1, HeadTailProperties DEF Resolved
<1>3. draining /\ flush # "paused"
  BY DEF Inv, OneDrain
<1>4. CASE Len(drain) > 1 /\ UNCHANGED <<pc, draining, flush>>
  <2>1. drain' # <<>>
    BY <1>1, <1>2, <1>4, EmptySeq
  <2> QED
    BY <1>3, <1>4, <2>1 DEF Inv, OtherTypes, OneDrain
<1>5. CASE Len(drain) = 1 /\ DrainEnds
  <2>1. drain' = <<>>
    BY <1>2, <1>5, EmptySeq
  <2>2. CASE \E s \in Spans : /\ pc[s] = "pumping" /\ pc' = [pc EXCEPT ![s] = "finished"]
                              /\ draining' = FALSE /\ UNCHANGED flush
    <3>1. PICK s \in Spans : /\ pc[s] = "pumping" /\ pc' = [pc EXCEPT ![s] = "finished"]
                            /\ draining' = FALSE /\ UNCHANGED flush
      BY <2>2
    <3>2. pc' \in [Spans -> Phases] /\ \A t \in Spans : pc'[t] = IF t = s THEN "finished" ELSE pc[t]
      BY <3>1 DEF Inv, OtherTypes, Phases
    <3>3. \A t \in Spans : pc'[t] # "pumping"
      BY <3>1, <3>2 DEF Inv, OneDrain
    <3>4. flush \notin {"writing", "paused"}
      BY <3>1 DEF Inv, OneDrain
    <3>5. OneDrain'
      BY <2>1, <3>1, <3>3, <3>4 DEF OneDrain
    <3> QED
      BY <3>1, <3>2, <3>5 DEF Inv, OtherTypes
  <2>3. CASE /\ flush = "writing" /\ UNCHANGED pc
             /\ \/ flush' = "emptied" /\ draining' = FALSE
                \/ flush' = "paused" /\ UNCHANGED draining
    <3>1. \A t \in Spans : pc'[t] # "pumping"
      BY <2>3 DEF Inv, OneDrain
    <3>2. OneDrain'
      BY <1>3, <2>1, <2>3, <3>1 DEF OneDrain
    <3> QED
      BY <2>3, <3>2 DEF Inv, OtherTypes
  <2> QED
    BY <1>5, <2>2, <2>3 DEF DrainEnds
<1> QED
  BY <1>4, <1>5 DEF Resolved

\* A drain moves the spans' phases only when its owner returns; a row it stores
\* is that of a finished span.
LEMMA DrainAdvances ==
  ASSUME Inv, drain # <<>>, Moves({}), OneDrain',
         pc' \in [Spans -> Phases], draining' \in BOOLEAN,
         flush' \in {"idle", "writing", "paused", "emptied", "skipped", "expired"},
         \A s \in Spans : pc'[s] = pc[s] \/ (pc[s] = "pumping" /\ pc'[s] = "finished"),
         attempts' \in [Spans -> Nat], UNCHANGED <<up, started>>, degraded' \in {degraded, TRUE},
         durable' \subseteq durable \cup Queued
  PROVE  Advances({})
<1>1. OtherTypes'
  BY DEF Inv, OtherTypes, Moves, Settled, Lost
<1>2. \A s \in Spans : s \in Queued => pc[s] \notin Open
  BY DEF Inv, Places
<1>3. "pumping" \notin Open /\ "finished" \notin Open /\ "pumping" \in Returned
  BY DEF Open, Returned
<1> QED
  BY <1>1, <1>2, <1>3 DEF Advances, Inv, OtherTypes

\* The rows the batch at the database may store are queued.
LEMMA BatchStores ==
  ASSUME Inv, drain # <<>>
  PROVE  /\ durable \cup ToSet(Head(drain)) \subseteq durable \cup Queued
         /\ FailedBatch(Head(drain)) => durable' \subseteq durable \cup Queued
         /\ attempts' = Tried(Head(drain)) => attempts' \in [Spans -> Nat]
<1>1. ToSet(Head(drain)) \subseteq Queued
  BY DrainHead DEF Queued
<1> QED
  BY <1>1 DEF FailedBatch, Tried, Inv, OtherTypes

\* Every step of a drain.
LEMMA DrainStepLemma ==
  ASSUME Inv, DrainStep
  PROVE  Moves({}) /\ Advances({})
<1>1. CASE BatchAcked
  <2>1. /\ drain # <<>> /\ Resolved /\ durable' = durable \cup ToSet(Head(drain))
        /\ UNCHANGED <<attempts, up, started, degraded>>
    BY <1>1 DEF BatchAcked
  <2>2. attempts' \in [Spans -> Nat]
    BY <2>1 DEF Inv, OtherTypes
  <2> QED
    BY <1>1, <2>1, <2>2, BatchAckedMoves, ResolvedLemma, BatchStores, DrainAdvances
<1>2. CASE BatchReparked
  <2>1. /\ drain # <<>> /\ Resolved /\ FailedBatch(Head(drain)) /\ attempts' = Tried(Head(drain))
        /\ UNCHANGED <<up, started>> /\ degraded' = TRUE
    BY <1>2 DEF BatchReparked
  <2> QED
    BY <1>2, <2>1, BatchReparkedMoves, ResolvedLemma, BatchStores, DrainAdvances
<1>3. CASE BatchSplit
  <2>1. /\ drain # <<>> /\ FailedBatch(Head(drain)) /\ attempts' = Tried(Head(drain))
        /\ UNCHANGED <<pc, draining, flush, up, started, degraded>>
    BY <1>3 DEF BatchSplit
  <2>2. Moves({}) /\ drain' # <<>>
    BY <1>3, BatchSplitMoves
  <2>3. OneDrain'
    BY <2>1, <2>2 DEF Inv, OneDrain
  <2>4. /\ pc' \in [Spans -> Phases] /\ draining' \in BOOLEAN
        /\ flush' \in {"idle", "writing", "paused", "emptied", "skipped", "expired"}
        /\ \A s \in Spans : pc'[s] = pc[s]
    BY <2>1 DEF Inv, OtherTypes
  <2> QED
    BY <2>1, <2>2, <2>3, <2>4, BatchStores, DrainAdvances
<1>4. CASE RowQuarantined
  <2>1. /\ drain # <<>> /\ Resolved /\ FailedBatch(Head(drain)) /\ attempts' = Tried(Head(drain))
        /\ UNCHANGED <<up, started>> /\ degraded' = TRUE
    BY <1>4 DEF RowQuarantined
  <2> QED
    BY <1>4, <2>1, RowQuarantinedMoves, ResolvedLemma, BatchStores, DrainAdvances
<1>5. CASE DrainTimedOut
  <2>1. /\ drain # <<>> /\ FailedBatch(Head(drain)) /\ UNCHANGED <<attempts, up, started>>
        /\ drain' = <<>> /\ draining' = FALSE
        /\ \/ \E s \in Spans : /\ pc[s] = "pumping" /\ pc' = [pc EXCEPT ![s] = "finished"]
                               /\ degraded' = TRUE /\ UNCHANGED flush
           \/ flush = "writing" /\ flush' = "expired" /\ UNCHANGED <<pc, degraded>>
    BY <1>5 DEF DrainTimedOut
  <2>2. /\ pc' \in [Spans -> Phases] /\ flush' \in {"idle", "writing", "paused", "emptied", "skipped", "expired"}
        /\ \A s \in Spans : pc'[s] = pc[s] \/ (pc[s] = "pumping" /\ pc'[s] = "finished")
        /\ degraded' \in {degraded, TRUE} /\ attempts' \in [Spans -> Nat]
        /\ flush' \notin {"writing", "paused"} /\ \A s \in Spans : pc'[s] # "pumping"
    <3>1. CASE flush = "writing" /\ flush' = "expired" /\ UNCHANGED <<pc, degraded>>
      BY <2>1, <3>1 DEF Inv, OtherTypes, OneDrain
    <3>2. CASE \E s \in Spans : /\ pc[s] = "pumping" /\ pc' = [pc EXCEPT ![s] = "finished"]
                               /\ degraded' = TRUE /\ UNCHANGED flush
      <4>1. PICK s \in Spans : /\ pc[s] = "pumping" /\ pc' = [pc EXCEPT ![s] = "finished"]
                              /\ degraded' = TRUE /\ UNCHANGED flush
        BY <3>2
      <4>2. pc' \in [Spans -> Phases] /\ \A t \in Spans : pc'[t] = IF t = s THEN "finished" ELSE pc[t]
        BY <4>1 DEF Inv, OtherTypes, Phases
      <4>3. /\ \A t \in Spans : t # s => pc[t] # "pumping"
            /\ flush \notin {"writing", "paused"}
        BY <4>1 DEF Inv, OneDrain
      <4> QED
        BY <2>1, <4>1, <4>2, <4>3 DEF Inv, OtherTypes
    <3> QED
      BY <2>1, <3>1, <3>2
  <2>3. OneDrain'
    BY <2>1, <2>2 DEF OneDrain
  <2> QED
    BY <1>5, <2>1, <2>2, <2>3, DrainTimedOutMoves, BatchStores, DrainAdvances
<1> QED
  BY <1>1, <1>2, <1>3, <1>4, <1>5 DEF DrainStep

\* The flush and the database leave the spans alone.
LEMMA FlushLemma ==
  ASSUME Inv, FlushStep \/ Toggle
  PROVE  Moves({}) /\ Advances({})
<1>1. UNCHANGED <<pc, attempts, store, degraded, counts>> /\ up' \in BOOLEAN
  BY DEF FlushStep, FlushBegins, FlushContinues, FlushExpires, Toggle, Inv, OtherTypes
<1>2. OtherTypes' /\ Moves({}) /\ OneDrain'
  <2>1. CASE UNCHANGED <<buffer, bytes, drain, draining>> /\ flush' = flush
    <3>1. OtherTypes' /\ Moves({})
      BY <1>1, <2>1, StillLemma DEF Inv, OtherTypes, store, counts
    <3> QED
      BY <1>1, <2>1, <3>1 DEF Inv, OneDrain
  <2>2. CASE UNCHANGED <<buffer, bytes, drain, draining>> /\ flush = "idle" /\ flush' = "skipped"
    <3>1. OtherTypes' /\ Moves({})
      BY <1>1, <2>2, StillLemma DEF Inv, OtherTypes, store, counts
    <3> QED
      BY <1>1, <2>2, <3>1 DEF Inv, OneDrain
  <2>3. CASE /\ ~draining /\ flush = "idle" /\ flush' = "writing" /\ draining' = TRUE
             /\ Take(buffer, bytes)
    <3>1. drain = <<>> /\ \A s \in Spans : pc[s] # "pumping"
      BY <2>3 DEF Inv, OneDrain
    <3>2. Moves({}) /\ drain' # <<>>
      BY <1>1, <2>3, <3>1, FlushTakes
    <3>3. OtherTypes'
      BY <1>1, <2>3 DEF Inv, OtherTypes, store, counts
    <3> QED
      BY <1>1, <2>3, <3>1, <3>2, <3>3 DEF OneDrain
  <2>4. CASE flush = "paused" /\ flush' = "writing" /\ Take(buffer, bytes) /\ UNCHANGED draining
    <3>1. drain = <<>> /\ draining /\ \A s \in Spans : pc[s] # "pumping"
      BY <2>4 DEF Inv, OneDrain
    <3>2. Moves({}) /\ drain' # <<>>
      BY <1>1, <2>4, <3>1, FlushTakes
    <3>3. OtherTypes'
      BY <1>1, <2>4 DEF Inv, OtherTypes, store, counts
    <3> QED
      BY <1>1, <2>4, <3>1, <3>2, <3>3 DEF OneDrain
  <2>5. CASE /\ flush = "paused" /\ flush' \in {"emptied", "expired"} /\ draining' = FALSE
             /\ UNCHANGED <<buffer, bytes, drain>>
    <3>1. drain = <<>> /\ \A s \in Spans : pc[s] # "pumping"
      BY <2>5 DEF Inv, OneDrain
    <3>2. OtherTypes' /\ Moves({})
      BY <1>1, <2>5, StillLemma DEF Inv, OtherTypes, store, counts
    <3> QED
      BY <1>1, <2>5, <3>1, <3>2 DEF OneDrain
  <2> QED
    BY <2>1, <2>2, <2>3, <2>4, <2>5
    DEF FlushStep, FlushBegins, FlushContinues, FlushExpires, Toggle
<1> QED
  BY <1>1, <1>2 DEF Advances, store

-----------------------------------------------------------------------------
(* The theorems.                                                           *)

\* Every step moves rows and advances spans as the lemmas above say.
LEMMA NextLemma ==
  ASSUME Inv, Next
  PROVE  \E S \in SUBSET Spans : Moves(S) /\ Advances(S)
<1>1. ASSUME NEW s \in Spans, SpanStep(s)
      PROVE  \E S \in SUBSET Spans : Moves(S) /\ Advances(S)
  <2>1. CASE Finish(s)
    BY <2>1, FinishAdvances
  <2>2. CASE InsertAcked(s)
    BY <2>2, InsertAckedAdvances
  <2>3. CASE \/ Begin(s) \/ StartReturns(s) \/ StartCancelled(s) \/ BodyReturns(s)
             \/ EncodeCancelled(s) \/ InsertFailed(s) \/ InsertTimedOut(s)
    BY <2>3, SpanAdvances
  <2> QED
    BY <1>1, <2>1, <2>2, <2>3 DEF SpanStep, InsertReturns
<1>2. CASE DrainStep
  BY <1>2, DrainStepLemma
<1>3. CASE FlushStep \/ Toggle
  BY <1>3, FlushLemma
<1> QED
  BY <1>1, <1>2, <1>3 DEF Next

\* Nothing happens to the invariant in a stuttering step.
LEMMA StutterLemma ==
  ASSUME Inv, UNCHANGED vars
  PROVE  Inv'
<1>1. UNCHANGED <<pc, buffer, bytes, attempts, drain, draining, flush, up, started, durable,
                  degraded, dropped, poisoned, stranded>>
  BY DEF vars, store, counts
<1>2. Queued' = Queued /\ Draining' = Draining
  BY <1>1 DEF Queued, Draining
<1> QED
  <2>1. OtherTypes' /\ Queues'
    BY <1>1, <1>2 DEF Inv, OtherTypes, Queues, Sized, Within, Apart
  <2>2. OneDrain'
    BY <1>1 DEF Inv, OneDrain
  <2>3. Places' /\ LostPlaces' /\ AccountedFor' /\ DegradedTellsTheTruth'
    BY <1>1, <1>2 DEF Inv, Places, Lost, LostPlaces, AccountedFor, DegradedTellsTheTruth
  <2> QED
    BY <2>1, <2>2, <2>3 DEF Inv

\* The invariant holds before any span starts.
LEMMA InitLemma == Init => Inv
<1> SUFFICES ASSUME Init PROVE Inv
  OBVIOUS
<1>1. <<>> \in Seq(Spans) /\ IsInjective(<<>>) /\ Len(<<>>) = 0 /\ <<>> \in Seq(Seq(Spans))
  BY EmptySeq DEF IsInjective
<1>2. Sized(buffer, bytes) /\ Within(buffer, bytes)
  <2>1. buffer = <<>> /\ bytes = 0 /\ bytes = Bytes[ToSet(buffer)]
    BY ToSetEmpty, BytesLemma DEF Init
  <2> QED
    BY <1>1, <2>1, CapsAssumption DEF Sized, Within
<1>3. Draining = {} /\ Queued = {} /\ Apart(drain) /\ drain \in Seq(Seq(Spans))
  <2>1. buffer = <<>> /\ drain = <<>>
    BY DEF Init
  <2> QED
    BY <1>1, <2>1, FewBatches, ToSetEmpty DEF Draining, Queued
<1>4. \A s \in Spans : pc[s] = "idle"
  BY DEF Init
<1>5. OtherTypes
  BY DEF Init, OtherTypes, Phases
<1>6. "idle" \in Open
  BY DEF Open
<1>7. OneDrain
  BY <1>4 DEF Init, OneDrain
<1> QED
  BY <1>2, <1>3, <1>4, <1>5, <1>6, <1>7
  DEF Inv, Queues, Places, Lost, LostPlaces, AccountedFor, DegradedTellsTheTruth, Init

\* The invariant holds in every reachable state.
THEOREM Invariance == Spec => []Inv
<1>1. Init => Inv
  BY InitLemma
<1>2. Inv /\ [Next]_vars => Inv'
  BY NextLemma, StepLemma, StutterLemma
<1> QED
  BY <1>1, <1>2, PTL DEF Spec

\* The state of the sink is well formed in every reachable state.
THEOREM TypeCorrect == Spec => []TypeOK
<1>1. Inv => TypeOK
  <2> SUFFICES ASSUME Inv PROVE TypeOK
    OBVIOUS
  <2>1. buffer \in Seq(Spans) /\ bytes = Bytes[ToSet(buffer)] /\ drain \in Seq(Seq(Spans))
    BY DEF Inv, Queues, Sized
  <2>2. bytes \in Nat
    BY <2>1, BytesAssumption, ToSetLemma, BytesLemma
  <2> QED
    BY <2>1, <2>2 DEF Inv, OtherTypes, TypeOK
<1> QED
  BY <1>1, Invariance, PTL

\* The buffer never exceeds its caps and its byte count never drifts.
THEOREM Bounded == Spec => []BufferBounded
<1>1. Inv => BufferBounded
  BY DEF Inv, Queues, Sized, Within, BufferBounded
<1> QED
  BY <1>1, Invariance, PTL

\* No row is queued twice.
THEOREM NoDuplicates == Spec => []OnePlace
<1>1. Inv => OnePlace
  BY DEF Inv, Queues, Sized, OnePlace
<1> QED
  BY <1>1, Invariance, PTL

\* One drain at a time, and _draining says when.
THEOREM DrainsExclude == Spec => []OneDrain
<1>1. Inv => OneDrain
  BY DEF Inv
<1> QED
  BY <1>1, Invariance, PTL

\* Apart from the halves that a cancelled split strands, no terminal row is
\* lost without a trace.
THEOREM NoSilentLoss == Spec => []AccountedFor
<1>1. Inv => AccountedFor
  BY DEF Inv
<1> QED
  BY <1>1, Invariance, PTL

\* A run not marked degraded has stored every terminal row.
THEOREM HonestMark == Spec => []DegradedTellsTheTruth
<1>1. Inv => DegradedTellsTheTruth
  BY DEF Inv
<1> QED
  BY <1>1, Invariance, PTL

\* A row counted as lost is never queued again.
THEOREM LostForGood == Spec => LostStaysLost
<1>1. Inv /\ Next => \A s \in dropped \cup poisoned \cup stranded : s \notin Queued'
  <2> SUFFICES ASSUME Inv, Next, NEW s \in Lost PROVE s \notin Queued'
    BY DEF Lost
  <2>1. PICK S \in SUBSET Spans : Moves(S) /\ Advances(S)
    BY NextLemma
  <2>2. s \notin Queued /\ pc[s] \notin Open /\ s \in Spans
    BY DEF Inv, LostPlaces, Lost, OtherTypes
  <2>3. s \notin S
    BY <2>1, <2>2 DEF Advances
  <2> QED
    BY <2>1, <2>2, <2>3 DEF Moves
<1>2. Inv /\ [Next]_vars => [\A s \in dropped \cup poisoned \cup stranded : s \notin Queued']_vars
  BY <1>1
<1> QED
  BY <1>2, Invariance, PTL DEF Spec, LostStaysLost

\* A flush that returns before its budget leaves the row of no finished span behind, unless
\* a span that outlived the run is pumping.
THEOREM FlushLeavesNone == Spec => FlushSettles
<1> DEFINE Returns == flush' # flush /\ flush' \in {"emptied", "skipped"}
           Nothing == \A s \in Spans : pc[s] \notin Open => s \in Settled'
           Pumping == flush' = "skipped" /\ \E s \in Spans : pc[s] = "pumping"
<1>1. ASSUME Inv, Inv', Next, Returns PROVE Nothing \/ Pumping
  <2>1. ASSUME buffer' = <<>>, drain' = <<>>, UNCHANGED pc PROVE Nothing
    <3>1. Queued' = {}
      BY <2>1, ToSetEmpty, FewBatches DEF Queued, Draining
    <3> QED
      BY <1>1, <2>1, <3>1 DEF Inv, AccountedFor, Settled
  <2>2. ASSUME flush' = "emptied", draining' = FALSE PROVE drain' = <<>>
    BY <1>1, <2>2 DEF Inv, OneDrain
  <2>3. CASE FlushBegins
    <3>1. UNCHANGED <<pc, buffer, drain>> /\ (buffer = <<>> \/ draining) /\ flush = "idle"
          /\ flush' = "skipped"
      BY <1>1, <2>3 DEF FlushBegins
    <3>2. draining \/ drain = <<>>
      BY <1>1 DEF Inv, OneDrain
    <3>3. draining => Pumping
      BY <1>1, <3>1 DEF Inv, OneDrain
    <3> QED
      BY <2>1, <3>1, <3>2, <3>3
  <2>4. CASE FlushContinues
    BY <1>1, <2>1, <2>2, <2>4 DEF FlushContinues
  <2>5. CASE DrainStep
    <3>1. Resolved
      BY <1>1, <2>5 DEF DrainStep, BatchAcked, BatchReparked, BatchSplit, RowQuarantined, DrainTimedOut
    <3>2. flush' = "emptied" /\ draining' = FALSE /\ buffer' = <<>> /\ UNCHANGED pc
      BY <1>1, <3>1 DEF Resolved, DrainEnds
    <3> QED
      BY <2>1, <2>2, <3>2
  <2>6. CASE FlushExpires \/ Toggle \/ \E s \in Spans : SpanStep(s)
    BY <1>1, <2>6 DEF FlushExpires, Toggle, SpanStep, InsertReturns, Begin, StartReturns,
                      StartCancelled, BodyReturns, EncodeCancelled, Finish, InsertAcked,
                      InsertFailed, InsertTimedOut
  <2> QED
    BY <1>1, <2>3, <2>4, <2>5, <2>6 DEF Next, FlushStep
<1>2. Inv /\ Inv' /\ [Next]_vars => [Returns => Nothing \/ Pumping]_vars
  BY <1>1
<1> QED
  BY <1>2, Invariance, PTL DEF Spec, FlushSettles

-----------------------------------------------------------------------------
(* Drains and the flush come to an end: what they still have to do is a    *)
(* finite set, which their steps make smaller.                             *)

Below(S, T) == S \subseteq T /\ S # T

\* The pairs of rows that share a batch.
JoinedIn(d) ==
  {p \in Spans \X Spans : \E i \in DOMAIN d : p[1] \in ToSet(d[i]) /\ p[2] \in ToSet(d[i])}
Joined == JoinedIn(drain)

\* The queued rows, and the attempts they have before the last one.
Work == {p \in Spans \X (0 .. MaxAttempts) : p[1] \in Queued /\ (p[2] = 0 \/ p[2] > attempts[p[1]])}

\* A drain never holds an empty batch.
Full(d) == \A i \in DOMAIN d : d[i] # <<>>
DrainInv == Full(drain)

\* The rows of a sequence are finitely many.
LEMMA ToSetFinite ==
  ASSUME NEW S, NEW b \in Seq(S)
  PROVE  IsFiniteSet(ToSet(b))
<1>1. Len(b) \in Nat /\ DOMAIN b = 1 .. Len(b)
  BY LenProperties
<1>2. IsFiniteSet(DOMAIN b)
  BY <1>1, FS_Interval
<1>3. b \in Surjection(DOMAIN b, ToSet(b))
  <2>1. b = [i \in DOMAIN b |-> b[i]]
    BY LenProperties
  <2> QED
    BY <2>1 DEF Surjection, ToSet
<1> QED
  BY <1>2, <1>3, FS_Surjection

\* So are the queued rows, and what there is to do about them.
LEMMA WorkFinite ==
  ASSUME Inv
  PROVE  IsFiniteSet(Work) /\ IsFiniteSet(Joined)
<1>1. buffer \in Seq(Spans) /\ drain \in Seq(Seq(Spans)) /\ Draining = Rows(drain) /\ Queued \subseteq Spans
  BY RowsLemma DEF Inv, Queues, Sized
<1>2. \A i \in DOMAIN drain : drain[i] \in Seq(Spans)
  BY <1>1, ElementOfSeq, LenProperties
<1>3. IsFiniteSet(Draining)
  <2> DEFINE T == {ToSet(drain[i]) : i \in DOMAIN drain}
             f == [i \in DOMAIN drain |-> ToSet(drain[i])]
  <2>1. \A S \in T : IsFiniteSet(S)
    BY <1>2, ToSetFinite
  <2>2. IsFiniteSet(DOMAIN drain)
    BY <1>1, LenProperties, FS_Interval
  <2>3. f \in Surjection(DOMAIN drain, T)
    BY DEF Surjection
  <2>4. IsFiniteSet(T)
    BY <2>2, <2>3, FS_Surjection
  <2>5. Draining = UNION T
    BY <1>1 DEF Rows
  <2> HIDE DEF T
  <2> QED
    BY <2>1, <2>4, <2>5, FS_UNION
<1>4. IsFiniteSet(Queued)
  BY <1>1, <1>3, ToSetFinite, FS_Union DEF Queued
<1>5. IsFiniteSet(Queued \X (0 .. MaxAttempts)) /\ IsFiniteSet(Queued \X Queued)
  <2>1. IsFiniteSet(0 .. MaxAttempts)
    BY FS_Interval, CapsAssumption
  <2> QED
    BY <2>1, <1>4, FS_Product
<1>6. Work \subseteq Queued \X (0 .. MaxAttempts)
  BY DEF Work
<1>7. Joined \subseteq Queued \X Queued
  BY <1>1 DEF Joined, JoinedIn, Queued, Rows
<1> QED
  BY <1>5, <1>6, <1>7, FS_Subset

\* The batch at the database has a row.
LEMMA HeadRow ==
  ASSUME Inv, DrainInv, drain # <<>>
  PROVE  /\ Len(Head(drain)) \in Nat /\ Len(Head(drain)) >= 1
         /\ Head(drain)[1] \in ToSet(Head(drain)) /\ Head(drain)[1] \in Spans
         /\ Head(drain) = drain[1] /\ 1 \in DOMAIN drain
<1>1. drain \in Seq(Seq(Spans)) /\ Head(drain) \in Seq(Spans) /\ ToSet(Head(drain)) \subseteq Spans
  BY DrainHead DEF Inv, Queues
<1>2. Head(drain) = drain[1] /\ 1 \in DOMAIN drain
  BY <1>1, HeadTailProperties, LenProperties, EmptySeq
<1>3. Head(drain) # <<>>
  BY <1>2 DEF DrainInv, Full
<1>4. Len(Head(drain)) \in Nat /\ Len(Head(drain)) >= 1 /\ DOMAIN Head(drain) = 1 .. Len(Head(drain))
  BY <1>1, <1>3, LenProperties, EmptySeq
<1>5. 1 \in DOMAIN Head(drain)
  BY <1>4
<1> QED
  BY <1>1, <1>2, <1>4, <1>5 DEF ToSet

\* Letting go of that batch, or of all of them, unjoins its rows.
LEMMA LetGoBelow ==
  ASSUME Inv, DrainInv, drain # <<>>, drain' = Tail(drain) \/ drain' = <<>>
  PROVE  Below(Joined', Joined) /\ Full(drain')
<1> DEFINE h == Head(drain)[1]
<1>1. h \in ToSet(Head(drain)) /\ h \in Spans /\ Head(drain) = drain[1] /\ 1 \in DOMAIN drain
  BY HeadRow
<1>2. <<h, h>> \in Joined
  BY <1>1 DEF Joined, JoinedIn
<1>3. ToSet(Head(drain)) \cap Rows(Tail(drain)) = {} /\ drain \in Seq(Seq(Spans))
  BY DrainHead DEF Inv, Queues
<1>4. \A i \in DOMAIN Tail(drain) : i + 1 \in DOMAIN drain /\ Tail(drain)[i] = drain[i + 1]
  <2>1. /\ Tail(drain) \in Seq(Seq(Spans)) /\ Len(Tail(drain)) = Len(drain) - 1
        /\ \A i \in 1 .. (Len(drain) - 1) : Tail(drain)[i] = drain[i + 1]
    BY <1>3, HeadTailProperties
  <2>2. DOMAIN drain = 1 .. Len(drain) /\ Len(drain) \in Nat /\ DOMAIN Tail(drain) = 1 .. (Len(drain) - 1)
    BY <1>3, <2>1, LenProperties
  <2> QED
    BY <2>1, <2>2
<1>5. h \notin Rows(Tail(drain))
  BY <1>1, <1>3
<1> HIDE DEF h
<1>6. CASE drain' = Tail(drain)
  <2>1. Joined' \subseteq Joined /\ Full(drain')
    BY <1>4, <1>6 DEF Joined, JoinedIn, Full, DrainInv
  <2>2. <<h, h>> \notin Joined'
    BY <1>5, <1>6 DEF Joined, JoinedIn, Rows
  <2> QED
    BY <2>1, <2>2, <1>2 DEF Below
<1>7. CASE drain' = <<>>
  <2>1. DOMAIN drain' = {}
    BY <1>7, EmptySeq
  <2>2. Joined' = {} /\ Full(drain')
    BY <2>1 DEF Joined, JoinedIn, Full
  <2> QED
    BY <2>2, <1>2 DEF Below
<1> QED
  BY <1>6, <1>7

\* Splitting it parts its first row from its last.
LEMMA SplitBelow ==
  ASSUME Inv, DrainInv, BatchSplit
  PROVE  Below(Joined', Joined) /\ Full(drain')
<1> DEFINE q == Head(drain)  k == Len(q) \div 2
           old == Oldest(q, k)  new == Newest(q, k)  t == Tail(drain)
<1>1. drain # <<>> /\ Len(q) > 1 /\ drain' = <<old, new>> \o t
  BY DEF BatchSplit
<1>2. /\ q \in Seq(Spans) /\ Len(q) \in Nat /\ DOMAIN q = 1 .. Len(q) /\ t \in Seq(Seq(Spans))
      /\ ToSet(q) \cap Rows(t) = {} /\ IsInjective(q) /\ q = drain[1] /\ 1 \in DOMAIN drain
      /\ drain \in Seq(Seq(Spans)) /\ ToSet(q) \subseteq Spans
  BY <1>1, DrainHead, HeadRow, LenProperties DEF Inv, Queues
<1>3. k \in 1 .. (Len(q) - 1) /\ k \in 0 .. Len(q)
  <2> HIDE DEF q
  <2> QED
    BY <1>1, <1>2
<1>4. \A i \in DOMAIN t : i + 1 \in DOMAIN drain /\ t[i] = drain[i + 1]
  <2>1. /\ Len(t) = Len(drain) - 1
        /\ \A i \in 1 .. (Len(drain) - 1) : t[i] = drain[i + 1]
    BY <1>1, <1>2, HeadTailProperties
  <2>2. DOMAIN drain = 1 .. Len(drain) /\ Len(drain) \in Nat /\ DOMAIN t = 1 .. (Len(drain) - 1)
    BY <1>2, <2>1, LenProperties
  <2> QED
    BY <2>1, <2>2
<1> HIDE DEF t
<1>5. /\ old \in Seq(Spans) /\ new \in Seq(Spans) /\ Len(old) = k /\ Len(new) = Len(q) - k
      /\ old[1] = q[1] /\ new[Len(q) - k] = q[Len(q)]
      /\ ToSet(q) = ToSet(old) \cup ToSet(new) /\ ToSet(old) \cap ToSet(new) = {}
  <2> HIDE DEF q, k
  <2>1. /\ old \in Seq(Spans) /\ new \in Seq(Spans) /\ Len(old) = k /\ Len(new) = Len(q) - k
        /\ \A i \in 1 .. k : old[i] = q[i]
        /\ \A i \in 1 .. (Len(q) - k) : new[i] = q[i + k]
    BY <1>2, <1>3, OldestLemma, NewestLemma
  <2>2. 1 \in 1 .. k /\ Len(q) - k \in 1 .. (Len(q) - k) /\ (Len(q) - k) + k = Len(q)
    BY <1>2, <1>3
  <2>3. ToSet(q) = ToSet(old) \cup ToSet(new) /\ ToSet(old) \cap ToSet(new) = {}
    BY <1>2, <1>3, CutLemma
  <2> HIDE DEF old, new
  <2>4. old[1] = q[1] /\ new[Len(q) - k] = q[(Len(q) - k) + k]
    BY <2>1, <2>2
  <2> QED
    BY <2>1, <2>2, <2>3, <2>4
<1> HIDE DEF old, new, q, k
<1>6. /\ drain' \in Seq(Seq(Spans)) /\ DOMAIN drain' = 1 .. (2 + Len(t))
      /\ drain'[1] = old /\ drain'[2] = new
      /\ \A i \in 3 .. (2 + Len(t)) : drain'[i] = t[i - 2]
  BY <1>1, <1>2, <1>5, PairInFront
<1>7. Len(t) \in Nat /\ DOMAIN t = 1 .. Len(t)
  BY <1>2, LenProperties
<1>8. \A i \in DOMAIN drain' : drain'[i] \in {old, new} \/ \E j \in DOMAIN t : drain'[i] = t[j]
  <2> TAKE i \in DOMAIN drain'
  <2>1. i = 1 \/ i = 2 \/ i \in 3 .. (2 + Len(t))
    BY <1>6, <1>7
  <2>2. i \in 3 .. (2 + Len(t)) => i - 2 \in DOMAIN t
    BY <1>7
  <2> QED
    BY <2>1, <2>2, <1>6
<1>9. /\ 1 \in DOMAIN old /\ Len(q) - k \in DOMAIN new
      /\ q[1] \in ToSet(old) /\ q[Len(q)] \in ToSet(new)
  <2>1. DOMAIN old = 1 .. k /\ DOMAIN new = 1 .. (Len(q) - k)
    BY <1>5, LenProperties
  <2>2. 1 \in DOMAIN old /\ Len(q) - k \in DOMAIN new
    BY <2>1, <1>2, <1>3
  <2> QED
    BY <2>2, <1>5 DEF ToSet
<1>10. Full(drain')
  <2>1. old # <<>> /\ new # <<>>
    BY <1>9, EmptySeq
  <2> QED
    BY <2>1, <1>4, <1>8 DEF Full, DrainInv
<1>11. Joined' \subseteq Joined
  <2> SUFFICES ASSUME NEW p \in Joined' PROVE p \in Joined
    OBVIOUS
  <2>1. PICK i \in DOMAIN drain' : p[1] \in ToSet(drain'[i]) /\ p[2] \in ToSet(drain'[i])
    BY DEF Joined, JoinedIn
  <2>2. CASE drain'[i] \in {old, new}
    <3>1. p[1] \in ToSet(drain[1]) /\ p[2] \in ToSet(drain[1])
      BY <2>1, <2>2, <1>2, <1>5
    <3> QED
      BY <3>1, <1>2 DEF Joined, JoinedIn
  <2>3. CASE \E j \in DOMAIN t : drain'[i] = t[j]
    BY <2>1, <2>3, <1>4 DEF Joined, JoinedIn
  <2> QED
    BY <2>2, <2>3, <1>8
<1>12. <<q[1], q[Len(q)]>> \in Joined
  BY <1>2, <1>5, <1>9 DEF Joined, JoinedIn
<1>13. <<q[1], q[Len(q)]>> \notin Joined'
  <2>1. \A j \in DOMAIN t : q[1] \notin ToSet(t[j])
    BY <1>2, <1>5, <1>9 DEF Rows
  <2>2. q[Len(q)] \notin ToSet(old) /\ q[1] \notin ToSet(new)
    BY <1>5, <1>9
  <2> QED
    BY <2>1, <2>2, <1>8 DEF Joined, JoinedIn
<1> QED
  BY <1>10, <1>11, <1>12, <1>13 DEF Below

\* A step of a drain splits a batch or lets go of one.
LEMMA DrainBelow ==
  ASSUME Inv, DrainInv, DrainStep
  PROVE  /\ drain # <<>> /\ Below(Joined', Joined) /\ DrainInv'
         /\ \/ Resolved
            \/ BatchSplit
            \/ drain' = <<>> /\ (flush' = "expired" \/ flush' = flush)
<1>1. drain # <<>>
  BY DEF DrainStep, BatchAcked, BatchReparked, BatchSplit, RowQuarantined, DrainTimedOut
<1>2. CASE Resolved
  <2>1. drain' = Tail(drain)
    BY <1>2 DEF Resolved
  <2> QED
    BY <1>1, <1>2, <2>1, LetGoBelow DEF DrainInv
<1>3. CASE BatchSplit
  BY <1>1, <1>3, SplitBelow DEF DrainInv
<1>4. CASE DrainTimedOut
  <2>1. drain' = <<>> /\ (flush' = "expired" \/ flush' = flush)
    BY <1>4 DEF DrainTimedOut
  <2> QED
    BY <1>1, <2>1, LetGoBelow DEF DrainInv
<1> QED
  BY <1>2, <1>3, <1>4 DEF DrainStep, BatchAcked, BatchReparked, RowQuarantined

\* A batch that is taken has a row.
LEMMA TakeFull ==
  ASSUME NEW b \in Seq(Spans), NEW n, b # <<>>, Take(b, n)
  PROVE  Full(drain')
<1> DEFINE k == IF Len(b) < BatchSize THEN Len(b) ELSE BatchSize
<1>1. Len(b) \in Nat /\ Len(b) >= 1
  BY LenProperties, EmptySeq
<1>2. k \in 1 .. Len(b) /\ k \in 0 .. Len(b)
  BY <1>1, CapsAssumption
<1>3. drain' = <<Oldest(b, k)>>
  BY DEF Take
<1> HIDE DEF k
<1>4. Oldest(b, k) \in Seq(Spans) /\ Len(Oldest(b, k)) = k
  BY <1>2, OldestLemma
<1>5. Oldest(b, k) # <<>>
  BY <1>2, <1>4, EmptySeq
<1> QED
  BY <1>3, <1>5 DEF Full

\* The steps that are none of a drain.
LEMMA OtherSteps ==
  ASSUME Inv, DrainInv, [Next]_vars, ~DrainStep
  PROVE  DrainInv' /\ (drain # <<>> => drain' = drain)
<1>0. buffer \in Seq(Spans) /\ Sized(buffer, bytes) /\ Within(buffer, bytes) /\ bytes \in Int
  BY ToSetLemma, BytesLemma DEF Inv, Queues, Sized
<1>1. ASSUME NEW s \in Spans, InsertAcked(s)
      PROVE  DrainInv' /\ (drain # <<>> => drain' = drain)
  <2>1. Unparked(s) \in Seq(Spans)
    BY <1>0, UnparkedLemma DEF Sized
  <2>2. CASE Pumps(Unparked(s)) /\ Take(Unparked(s), UnparkedBytes(s))
    <3>1. drain = <<>> /\ Unparked(s) # <<>>
      BY <2>2 DEF Pumps, Inv, OneDrain
    <3> QED
      BY <2>1, <2>2, <3>1, TakeFull DEF DrainInv
  <2>3. CASE drain' = drain
    BY <2>3 DEF DrainInv, Full
  <2> QED
    BY <1>1, <2>2, <2>3 DEF InsertAcked
<1>2. ASSUME NEW s \in Spans, SpanStep(s), ~InsertAcked(s)
      PROVE  drain' = drain
  BY <1>2 DEF SpanStep, InsertReturns, Begin, StartReturns, StartCancelled, BodyReturns,
              EncodeCancelled, Finish, InsertFailed, InsertTimedOut
<1>3. CASE FlushBegins \/ FlushContinues
  <2>1. CASE Take(buffer, bytes) /\ buffer # <<>> /\ drain = <<>>
    BY <1>0, <2>1, TakeFull DEF DrainInv
  <2>2. CASE drain' = drain
    BY <2>2 DEF DrainInv, Full
  <2> QED
    BY <1>3, <2>1, <2>2 DEF FlushBegins, FlushContinues, Inv, OneDrain
<1>4. CASE FlushExpires \/ Toggle \/ UNCHANGED vars
  BY <1>4 DEF FlushExpires, Toggle, vars, DrainInv, Full
<1>5. ASSUME drain' = drain PROVE DrainInv'
  BY <1>5 DEF DrainInv, Full
<1> QED
  BY <1>1, <1>2, <1>3, <1>4, <1>5 DEF Next, FlushStep

\* No drain ever holds an empty batch.
LEMMA DrainInvariance == Spec => [](Inv /\ DrainInv)
<1>1. Init => DrainInv
  <2> SUFFICES ASSUME Init PROVE DrainInv
    OBVIOUS
  <2>1. DOMAIN drain = {}
    BY EmptySeq DEF Init
  <2> QED
    BY <2>1 DEF Init, DrainInv, Full
<1>2. Inv /\ DrainInv /\ [Next]_vars => DrainInv'
  BY DrainBelow, OtherSteps
<1> QED
  BY <1>1, <1>2, Invariance, PTL DEF Spec

\* While a drain is under way, of a pump or of the flush, nothing happens to its batches but
\* that they are split and let go of: every drain comes to an end, whatever the database says.
DrainsShrink == [][drain # <<>> => drain' = drain \/ Below(Joined', Joined)]_vars

\* _resolve_batch goes on only with less than it had.
THEOREM DrainsEnd == Spec => DrainsShrink
<1>1. Inv /\ DrainInv /\ [Next]_vars => [drain # <<>> => drain' = drain \/ Below(Joined', Joined)]_vars
  BY DrainBelow, OtherSteps
<1> QED
  BY <1>1, DrainInvariance, PTL DEF Spec, DrainsShrink

\* Attempts are counted up, and no row comes in: there is no more to do than before.
LEMMA WorkKept ==
  ASSUME Inv, Queued' \subseteq Queued, attempts' \in [Spans -> Nat],
         \A s \in Spans : attempts'[s] >= attempts[s]
  PROVE  Work' \subseteq Work
<1>1. attempts \in [Spans -> Nat] /\ \A k \in 0 .. MaxAttempts : k \in Nat
  BY DEF Inv, OtherTypes
<1> QED
  BY <1>1 DEF Work

\* A batch whose insert failed has one attempt more for each of its rows.
LEMMA TriedCounts ==
  ASSUME Inv, NEW batch, attempts' = Tried(batch)
  PROVE  /\ attempts' \in [Spans -> Nat] /\ \A s \in Spans : attempts'[s] >= attempts[s]
         /\ \A s \in ToSet(batch) \cap Spans : attempts'[s] = attempts[s] + 1
BY DEF Inv, OtherTypes, Tried

\* A batch that is dealt with leaves less to do: its rows are stored or given up, or they go
\* back with one attempt fewer.
LEMMA ResolvedBelow ==
  ASSUME Inv, DrainInv, BatchAcked \/ BatchReparked \/ RowQuarantined
  PROVE  Below(Work', Work)
<1> DEFINE q == Head(drain)  h == q[1]
<1>1. drain # <<>> /\ drain' = Tail(drain) /\ DrainStep
  BY DEF BatchAcked, BatchReparked, RowQuarantined, Resolved, DrainStep
<1>2. /\ h \in ToSet(q) /\ h \in Spans /\ h \notin Rows(Tail(drain)) /\ h \notin ToSet(buffer)
      /\ h \in Queued /\ Draining' = Rows(Tail(drain))
  BY <1>1, HeadRow, DrainHead DEF Queued, Draining
<1>3. Queued' \subseteq Queued
  BY <1>1, DrainStepLemma DEF Moves
<1>4. <<h, 0>> \in Work
  BY <1>2, CapsAssumption DEF Work
<1> HIDE DEF h, q
<1>5. CASE h \notin Queued' /\ (UNCHANGED attempts \/ attempts' = Tried(q))
  <2>1. attempts' \in [Spans -> Nat] /\ \A s \in Spans : attempts'[s] >= attempts[s]
    BY <1>5, TriedCounts DEF Inv, OtherTypes
  <2>2. Work' \subseteq Work
    BY <1>3, <2>1, WorkKept
  <2>3. <<h, 0>> \notin Work'
    BY <1>5 DEF Work
  <2> QED
    BY <1>4, <2>2, <2>3 DEF Below
<1>6. CASE attempts' = Tried(q) /\ ~Exhausted(h)
  <2>1. /\ attempts' \in [Spans -> Nat] /\ \A s \in Spans : attempts'[s] >= attempts[s]
        /\ attempts'[h] = attempts[h] + 1 /\ attempts[h] \in Nat
    BY <1>2, <1>6, TriedCounts DEF Inv, OtherTypes
  <2>2. Work' \subseteq Work
    BY <1>3, <2>1, WorkKept
  <2>3. attempts[h] + 1 \in 0 .. MaxAttempts /\ attempts[h] + 1 # 0 /\ attempts[h] + 1 > attempts[h]
    BY <1>6, <2>1, CapsAssumption DEF Exhausted
  <2>4. <<h, attempts[h] + 1>> \in Work /\ <<h, attempts[h] + 1>> \notin Work'
    BY <1>2, <2>1, <2>3 DEF Work
  <2> QED
    BY <2>2, <2>4 DEF Below
<1>7. CASE BatchAcked
  BY <1>2, <1>5, <1>7 DEF BatchAcked, Queued
<1>8. CASE BatchReparked
  <2>1. attempts' = Tried(q) /\ (~Stale(q) \/ (Len(q) = 1 /\ ~Exhausted(q[1])))
    BY <1>8 DEF BatchReparked, q
  <2>2. ~Exhausted(h)
    BY <2>1, <1>2 DEF Stale, h
  <2> QED
    BY <2>1, <2>2, <1>6
<1>9. CASE RowQuarantined
  <2>1. UNCHANGED buffer /\ attempts' = Tried(q)
    BY <1>9 DEF RowQuarantined, q
  <2> QED
    BY <2>1, <1>2, <1>5 DEF Queued
<1> QED
  BY <1>7, <1>8, <1>9

\* The steps that a span may still take.
Distance == [idle |-> 6, starting |-> 5, running |-> 4, encoding |-> 3, inserting |-> 2,
             pumping |-> 1, finished |-> 0, unopened |-> 0, unclosed |-> 0]
Ahead == {p \in Spans \X (1 .. 6) : p[2] <= Distance[pc[p[1]]]}

\* They are finitely many in a run of finitely many spans.
LEMMA AheadFinite ==
  ASSUME IsFiniteSet(Spans)
  PROVE  IsFiniteSet(Ahead)
<1>1. IsFiniteSet(1 .. 6)
  <2>1. 1 \in Int /\ 6 \in Int
    OBVIOUS
  <2> QED
    BY <2>1, FS_Interval
<1>2. IsFiniteSet(Spans \X (1 .. 6))
  BY <1>1, FS_Product
<1> QED
  BY <1>2, FS_Subset DEF Ahead

\* A span that moves on has fewer steps to take, and the others as many.
LEMMA AheadBelow ==
  ASSUME Inv, NEW s \in Spans, NEW q \in Phases, pc' = [pc EXCEPT ![s] = q],
         Distance[q] < Distance[pc[s]]
  PROVE  Below(Ahead', Ahead)
<1>1. /\ pc \in [Spans -> Phases] /\ pc'[s] = q
      /\ \A t \in Spans : t # s => pc'[t] = pc[t]
  BY DEF Inv, OtherTypes
<1>2. \A p \in Phases : Distance[p] \in 0 .. 6
  BY DEF Distance, Phases
<1> DEFINE d == Distance[pc[s]]
<1>3. d \in 1 .. 6 /\ Distance[q] \in 0 .. 6 /\ Distance[q] < d
  BY <1>1, <1>2
<1>4. Ahead' \subseteq Ahead
  <2> SUFFICES ASSUME NEW t \in Spans, NEW n \in 1 .. 6, n <= Distance[pc'[t]]
               PROVE  n <= Distance[pc[t]]
    BY DEF Ahead
  <2>1. CASE t = s
    BY <2>1, <1>1, <1>3
  <2>2. CASE t # s
    BY <2>2, <1>1
  <2> QED
    BY <2>1, <2>2
<1>5. <<s, d>> \in Ahead /\ <<s, d>> \notin Ahead'
  BY <1>1, <1>3 DEF Ahead
<1> QED
  BY <1>4, <1>5 DEF Below

\* The steps of a span beside the flush, when no pump can begin.
LEMMA SpanBelow ==
  ASSUME Inv, NEW s \in Spans, SpanStep(s), draining
  PROVE  Below(Ahead', Ahead)
<1>0. /\ Distance["starting"] < Distance["idle"] /\ Distance["running"] < Distance["starting"]
      /\ Distance["unopened"] < Distance["starting"] /\ Distance["encoding"] < Distance["running"]
      /\ Distance["unclosed"] < Distance["encoding"] /\ Distance["inserting"] < Distance["encoding"]
      /\ Distance["inserting"] < Distance["running"] /\ Distance["finished"] < Distance["inserting"]
  BY DEF Distance
<1>1. \E q \in Phases : pc' = [pc EXCEPT ![s] = q] /\ Distance[q] < Distance[pc[s]]
  <2>1. CASE Begin(s)
    BY <1>0, <2>1 DEF Begin, Phases
  <2>2. CASE StartReturns(s) \/ StartCancelled(s)
    <3>1. pc[s] = "starting" /\ \E q \in {"running", "unopened"} : pc' = [pc EXCEPT ![s] = q]
      BY <2>2 DEF StartReturns, StartCancelled
    <3> QED
      BY <1>0, <3>1 DEF Phases
  <2>3. CASE BodyReturns(s) \/ EncodeCancelled(s)
    <3>1. \/ pc[s] = "running" /\ pc' = [pc EXCEPT ![s] = "encoding"]
          \/ pc[s] = "encoding" /\ pc' = [pc EXCEPT ![s] = "unclosed"]
      BY <2>3 DEF BodyReturns, EncodeCancelled
    <3> QED
      BY <1>0, <3>1 DEF Phases
  <2>4. CASE Finish(s)
    BY <1>0, <2>4 DEF Finish, Phases
  <2>5. CASE InsertReturns(s)
    <3>1. pc[s] = "inserting" /\ pc' = [pc EXCEPT ![s] = "finished"]
      BY <2>5 DEF InsertReturns, InsertAcked, InsertFailed, InsertTimedOut, Pumps
    <3> QED
      BY <1>0, <3>1 DEF Phases
  <2> QED
    BY <2>1, <2>2, <2>3, <2>4, <2>5 DEF SpanStep
<1> QED
  BY <1>1, AheadBelow

\* One step of the flush towards its end: it returns; a span that outlived the run goes on, and
\* perhaps parks a row; or no span moves, and the flush has less to do, or has no more to do and
\* takes the next batch or splits one.  The database may come or go meanwhile.
FlushCloser ==
  \/ flush' \in {"emptied", "expired"}
  \/ Below(Ahead', Ahead)
  \/ /\ UNCHANGED pc
     /\ \/ Below(Work', Work)
        \/ Work' \subseteq Work /\ flush = "paused" /\ flush' = "writing"
        \/ Work' \subseteq Work /\ UNCHANGED flush /\ Below(Joined', Joined)
  \/ Toggle

\* From when flush_pending has found a backlog to when it returns, it only ever gets closer.
FlushShrinks == [][(flush \in {"writing", "paused"}) => FlushCloser]_vars

\* The flush comes to its end even if the database stays away: the attempts of a row are
\* bounded, and so are the steps of the spans that go on beside it.
THEOREM FlushEnds == Spec => FlushShrinks
<1>1. ASSUME Inv, DrainInv, Next, flush \in {"writing", "paused"} PROVE FlushCloser
  <2>0. draining /\ \A s \in Spans : pc[s] # "pumping"
    BY <1>1 DEF Inv, OneDrain
  <2>1. CASE BatchAcked \/ BatchReparked \/ RowQuarantined
    <3>1. UNCHANGED pc
      BY <2>0, <2>1 DEF BatchAcked, BatchReparked, RowQuarantined, Resolved, DrainEnds
    <3> QED
      BY <1>1, <2>1, <3>1, ResolvedBelow DEF FlushCloser
  <2>2. CASE BatchSplit
    <3>1. Queued' \subseteq Queued /\ Below(Joined', Joined)
      BY <1>1, <2>2, DrainStepLemma, SplitBelow DEF DrainStep, Moves
    <3>2. attempts' = Tried(Head(drain)) /\ UNCHANGED <<pc, flush>>
      BY <2>2 DEF BatchSplit
    <3>3. Work' \subseteq Work
      BY <1>1, <3>1, <3>2, TriedCounts, WorkKept
    <3> QED
      BY <3>1, <3>2, <3>3 DEF FlushCloser
  <2>3. CASE DrainTimedOut
    BY <2>0, <2>3 DEF DrainTimedOut, FlushCloser
  <2>4. CASE FlushBegins \/ FlushExpires
    BY <1>1, <2>4 DEF FlushBegins, FlushExpires, FlushCloser
  <2>5. CASE FlushContinues
    <3>1. Queued' \subseteq Queued
      BY <1>1, <2>5, FlushLemma DEF FlushStep, Moves
    <3>2. attempts' \in [Spans -> Nat] /\ \A s \in Spans : attempts'[s] >= attempts[s]
      BY <1>1, <2>5 DEF FlushContinues, Inv, OtherTypes
    <3>3. Work' \subseteq Work
      BY <1>1, <3>1, <3>2, WorkKept
    <3> QED
      BY <2>5, <3>3 DEF FlushContinues, FlushCloser
  <2>6. CASE Toggle
    BY <2>6 DEF FlushCloser
  <2>7. CASE \E s \in Spans : SpanStep(s)
    BY <1>1, <2>0, <2>7, SpanBelow DEF FlushCloser
  <2> QED
    BY <1>1, <2>1, <2>2, <2>3, <2>4, <2>5, <2>6, <2>7 DEF Next, DrainStep, FlushStep
<1>2. Inv /\ DrainInv /\ [Next]_vars => [(flush \in {"writing", "paused"}) => FlushCloser]_vars
  BY <1>1
<1> QED
  BY <1>2, DrainInvariance, PTL DEF Spec, FlushShrinks

-----------------------------------------------------------------------------
(* SpanSink implements TerminalRecord.                                     *)

\* A span past its finish is inserting, pumping, or out.
LEMMA FateLemma ==
  ASSUME NEW s \in Spans
  PROVE  /\ s \in durable => Fate[s] = "stored"
         /\ s \notin durable /\ pc[s] \in Open => Fate[s] = "open"
         /\ s \notin durable /\ pc[s] \notin Open /\ (pc[s] = "inserting" \/ s \in Queued) =>
               Fate[s] = "pending"
         /\ s \notin durable /\ pc[s] \notin Open /\ pc[s] # "inserting" /\ s \notin Queued =>
               Fate[s] = "abandoned"
BY DEF Fate

\* The same after a step.
LEMMA NextFateLemma ==
  ASSUME NEW s \in Spans
  PROVE  /\ s \in durable' => Fate'[s] = "stored"
         /\ s \notin durable' /\ pc'[s] \in Open => Fate'[s] = "open"
         /\ s \notin durable' /\ pc'[s] \notin Open /\ (pc'[s] = "inserting" \/ s \in Queued') =>
               Fate'[s] = "pending"
         /\ s \notin durable' /\ pc'[s] \notin Open /\ pc'[s] # "inserting" /\ s \notin Queued' =>
               Fate'[s] = "abandoned"
BY DEF Fate

\* Every step moves each fate as TerminalRecord allows.
LEMMA FateMoves ==
  ASSUME Inv, Inv', NEW S \in SUBSET Spans, Moves(S), Advances(S), NEW s \in Spans
  PROVE  Fate'[s] \in Record!Moves(Fate[s], degraded')
<1>1. /\ pc[s] \notin Open => pc'[s] \notin Open
      /\ pc[s] \in Open => (pc'[s] \notin Open <=> s \in S)
      /\ s \in S => pc[s] \in Open /\ pc'[s] = "inserting"
      /\ pc[s] \notin Open /\ pc'[s] = "inserting" => pc[s] = "inserting"
      /\ s \in durable' => s \in durable \/ pc[s] \notin Open
      /\ s \in durable => s \in durable'
      /\ s \in Queued' => s \in Queued \/ s \in S
  BY DEF Advances, Moves
<1>2. CASE s \in durable
  <2>1. Fate[s] = "stored" /\ Fate'[s] = "stored"
    BY <1>1, <1>2, FateLemma, NextFateLemma
  <2> QED
    BY <2>1 DEF Record!Moves
<1>3. CASE s \notin durable /\ pc[s] \in Open
  <2>1. Fate[s] = "open" /\ s \notin durable'
    BY <1>1, <1>3, FateLemma
  <2>2. Fate'[s] \in {"open", "pending"}
    BY <1>1, <1>3, <2>1, NextFateLemma
  <2> QED
    BY <2>1, <2>2 DEF Record!Moves
<1>4. CASE s \notin durable /\ pc[s] \notin Open /\ (pc[s] = "inserting" \/ s \in Queued)
  <2>1. Fate[s] = "pending"
    BY <1>4, FateLemma
  <2>2. Fate'[s] \in {"pending", "stored"} \/ (Fate'[s] = "abandoned" /\ degraded')
    <3>1. s \notin durable' /\ pc'[s] # "inserting" => degraded'
      BY <1>1, <1>4 DEF Inv, OtherTypes, DegradedTellsTheTruth, Phases, Open
    <3> QED
      BY <1>1, <1>4, <3>1, NextFateLemma
  <2> QED
    BY <2>1, <2>2 DEF Record!Moves
<1>5. CASE s \notin durable /\ pc[s] \notin Open /\ pc[s] # "inserting" /\ s \notin Queued
  <2>1. Fate[s] = "abandoned"
    BY <1>5, FateLemma
  <2>2. Fate'[s] \in {"abandoned", "stored"}
    BY <1>1, <1>5, NextFateLemma
  <2> QED
    BY <2>1, <2>2 DEF Record!Moves
<1> QED
  BY <1>2, <1>3, <1>4, <1>5

\* The recording of spans implements TerminalRecord: no terminal row is given up
\* by a run that is not marked, and none given up is taken up again.
THEOREM Implements == Spec => RecordSpec
<1>1. Init => Record!Init
  <2> SUFFICES ASSUME Init PROVE Record!Init
    OBVIOUS
  <2>1. \A s \in Spans : Fate[s] = "open"
    BY FateLemma DEF Init, Open
  <2>2. Fate = [s \in Spans |-> Fate[s]]
    BY DEF Fate
  <2>3. Fate = [s \in Spans |-> "open"]
    BY <2>1, <2>2
  <2> QED
    BY <2>3 DEF Init, Record!Init
<1>2. Inv /\ Inv' /\ [Next]_vars => [Record!Next]_<<Fate, degraded>>
  <2> SUFFICES ASSUME Inv, Inv', [Next]_vars PROVE [Record!Next]_<<Fate, degraded>>
    OBVIOUS
  <2>1. CASE Next
    <3>1. PICK S \in SUBSET Spans : Moves(S) /\ Advances(S)
      BY <2>1, NextLemma
    <3>2. \A s \in Spans : Fate'[s] \in Record!Moves(Fate[s], degraded')
      BY <3>1, FateMoves
    <3>3. degraded' \in {degraded, TRUE}
      BY <3>1 DEF Advances, Inv, OtherTypes
    <3>4. Fate' \in [Spans -> Record!Fates]
      <4>1. \A s \in Spans : Fate'[s] \in Record!Fates
        BY NextFateLemma DEF Record!Fates
      <4>2. Fate' = [s \in Spans |-> Fate'[s]]
        BY DEF Fate
      <4> QED
        BY <4>1, <4>2
    <3> QED
      BY <3>2, <3>3, <3>4 DEF Record!Next
  <2>2. CASE UNCHANGED vars
    BY <2>2 DEF vars, store, Fate, Queued, Draining, Rows
  <2> QED
    BY <2>1, <2>2
<1> QED
  BY <1>1, <1>2, Invariance, PTL DEF Spec, RecordSpec, Record!Spec
=============================================================================
