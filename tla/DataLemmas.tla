----------------------------- MODULE DataLemmas -----------------------------
(***************************************************************************)
(* Facts about naturals and sequences that the proofs need and the library *)
(* states only for an operator.                                            *)
(***************************************************************************)
EXTENDS FiniteSetTheorems, SequenceTheorems, SequencesExt, TLAPS

\* Every set of naturals has a least element.
LEMMA NatMinimum ==
    ASSUME NEW S \in SUBSET Nat, S # {}
    PROVE  \E n \in S : \A m \in S : n <= m
<1> DEFINE Up == {1..n : n \in S}
           R == StrictSubsetOrdering(Nat)
           F == FiniteSubsetsOf(Nat)
<1>1. IsWellFoundedOn(R, F)
  BY FS_StrictSubsetOrderingWellFounded
<1>2. Up \subseteq F
  <2>1. \A n \in S : 1..n \subseteq Nat /\ IsFiniteSet(1..n)
    BY FS_Interval
  <2>2. QED
    BY <2>1 DEF FiniteSubsetsOf
<1>3. Up # {}
  OBVIOUS
<1>4. PICK x \in Up : \A y \in Up : <<y, x>> \notin R
  <2> HIDE DEF Up, R, F
  <2>1. QED
    BY <1>1, <1>2, <1>3, WFMin
<1>5. PICK n \in S : x = 1..n
  OBVIOUS
<1>6. ASSUME NEW m \in S, m < n
      PROVE  FALSE
  <2>1. 1..m \subseteq 1..n /\ n \in 1..n /\ n \notin 1..m
    BY <1>6
  <2>2. <<1..m, 1..n>> \in R
    <3>1. 1..m \in SUBSET Nat /\ 1..n \in SUBSET Nat
      OBVIOUS
    <3>2. 1..m # 1..n
      BY <2>1
    <3>3. QED
      BY <2>1, <3>1, <3>2 DEF StrictSubsetOrdering
  <2>3. QED
    BY <1>4, <1>5, <2>2
<1>7. QED
  BY <1>6

\* Induction, for a set in place of a predicate.
LEMMA NatInductionOnSets ==
    ASSUME NEW S, 0 \in S, \A n \in Nat : n \in S => n + 1 \in S
    PROVE  Nat \subseteq S
<1> SUFFICES ASSUME Nat \ S # {}
             PROVE  FALSE
  OBVIOUS
<1>1. PICK n \in Nat \ S : \A m \in Nat \ S : n <= m
  BY NatMinimum
<1>2. n # 0 /\ n - 1 \in Nat
  OBVIOUS
<1>3. n - 1 \in S
  BY <1>1, <1>2
<1>4. QED
  BY <1>2, <1>3

\* A sequence over S has its elements in S.
LEMMA Elements ==
    ASSUME NEW S, NEW s \in Seq(S)
    PROVE  \A i \in 1..Len(s) : s[i] \in S
  OBVIOUS

\* ... and one whose elements are in T is a sequence over T.
LEMMA SeqOfElements ==
    ASSUME NEW S, NEW T, NEW s \in Seq(S), \A i \in 1..Len(s) : s[i] \in T
    PROVE  s \in Seq(T)
<1>1. s = [i \in 1..Len(s) |-> s[i]] /\ Len(s) \in Nat
  OBVIOUS
<1>2. QED
  BY <1>1, IsASeq

-----------------------------------------------------------------------------
(* Parts of sequences.                                                     *)

\* What is left of a plan from place k on.
Onward(plan, k) == SubSeq(plan, k, Len(plan))

\* Two sequences, one after the other.
LEMMA Joined ==
    ASSUME NEW S, NEW s \in Seq(S), NEW t \in Seq(S)
    PROVE  /\ s \o t \in Seq(S) /\ Len(s \o t) = Len(s) + Len(t)
           /\ \A i \in 1..Len(s) + Len(t) :
                (s \o t)[i] = IF i <= Len(s) THEN s[i] ELSE t[i - Len(s)]
  OBVIOUS

\* What is left of a plan is a sequence,
LEMMA OnwardIs ==
    ASSUME NEW S, NEW plan \in Seq(S), NEW k \in 1..Len(plan) + 1
    PROVE  /\ Onward(plan, k) \in Seq(S) /\ Len(Onward(plan, k)) = Len(plan) - k + 1
           /\ \A i \in 1..Len(plan) - k + 1 : Onward(plan, k)[i] = plan[k + i - 1]
  BY DEF Onward

\* its head the element it is left from,
LEMMA OnwardStep ==
    ASSUME NEW S, NEW plan \in Seq(S), NEW k \in 1..Len(plan)
    PROVE  /\ Onward(plan, k) # <<>>
           /\ Head(Onward(plan, k)) = plan[k]
           /\ Tail(Onward(plan, k)) = Onward(plan, k + 1)
<1> DEFINE n == Len(plan)
           l == Onward(plan, k)
           m == Onward(plan, k + 1)
<1>1. n \in Nat /\ k \in Nat /\ k <= n /\ 1 <= k
  OBVIOUS
<1>2. /\ l \in Seq(S) /\ Len(l) = n - k + 1
      /\ \A i \in 1..n - k + 1 : l[i] = plan[k + i - 1]
  BY OnwardIs
<1>3. /\ m \in Seq(S) /\ Len(m) = n - k
      /\ \A i \in 1..n - k : m[i] = plan[k + i]
  <2>1. k + 1 \in 1..n + 1
    BY <1>1
  <2>2. QED
    BY <1>1, <2>1, OnwardIs
<1> HIDE DEF n, l, m
<1>4. l # <<>> /\ Head(l) = plan[k]
  BY <1>1, <1>2
<1>5. /\ Tail(l) \in Seq(S) /\ Len(Tail(l)) = n - k
      /\ \A i \in 1..n - k : Tail(l)[i] = plan[k + i]
  BY <1>1, <1>2, <1>4
<1>6. Tail(l) = m
  BY <1>3, <1>5, SeqEqual
<1>7. QED
  BY <1>4, <1>6 DEF l, m

\* all of it at first and nothing at the end.
LEMMA OnwardEnds ==
    ASSUME NEW S, NEW plan \in Seq(S)
    PROVE  Onward(plan, 1) = plan /\ Onward(plan, Len(plan) + 1) = <<>>
<1>1. Onward(plan, 1) = plan
  BY DEF Onward
<1>2. Onward(plan, Len(plan) + 1) = <<>>
  BY DEF Onward
<1>3. QED
  BY <1>1, <1>2

\* A part of a sequence, an element longer; an empty one; the whole of it.
LEMMA PartIs ==
    ASSUME NEW S, NEW s \in Seq(S), NEW a \in 1..Len(s) + 1, NEW i \in a - 1..Len(s)
    PROVE  /\ SubSeq(s, a, i) \in Seq(S) /\ Len(SubSeq(s, a, i)) = i - a + 1
           /\ \A j \in 1..i - a + 1 : SubSeq(s, a, i)[j] = s[a + j - 1]
  OBVIOUS

\* The next element makes a part longer by one.
LEMMA PartStep ==
    ASSUME NEW S, NEW s \in Seq(S), NEW a \in 1..Len(s), NEW i \in a - 1..Len(s) - 1
    PROVE  Append(SubSeq(s, a, i), s[i + 1]) = SubSeq(s, a, i + 1)
<1> DEFINE n == Len(s)
           x == SubSeq(s, a, i)
           y == SubSeq(s, a, i + 1)
<1>1. n \in Nat /\ a \in 1..n /\ i \in Nat /\ i + 1 \in 1..n /\ i - a + 1 \in Nat
      /\ s[i + 1] \in S
  <2>1. n \in Nat /\ a \in 1..n /\ i \in a - 1..n - 1
    OBVIOUS
  <2> HIDE DEF n
  <2>2. i \in Nat /\ i + 1 \in 1..n /\ i - a + 1 \in Nat
    BY <2>1
  <2>3. s[i + 1] \in S
    BY <2>2, Elements DEF n
  <2>4. QED
    BY <2>1, <2>2, <2>3
<1>2. /\ x \in Seq(S) /\ Len(x) = i - a + 1
      /\ \A j \in 1..i - a + 1 : x[j] = s[a + j - 1]
  <2>1. a \in 1..Len(s) + 1 /\ i \in a - 1..Len(s)
    OBVIOUS
  <2>2. QED
    BY <2>1, PartIs
<1>3. /\ y \in Seq(S) /\ Len(y) = i - a + 2
      /\ \A j \in 1..i - a + 2 : y[j] = s[a + j - 1]
  <2>1. a \in 1..Len(s) + 1 /\ i + 1 \in a - 1..Len(s) /\ (i + 1) - a + 1 = i - a + 2
    OBVIOUS
  <2>2. /\ y \in Seq(S) /\ Len(y) = (i + 1) - a + 1
        /\ \A j \in 1..(i + 1) - a + 1 : y[j] = s[a + j - 1]
    BY <2>1, PartIs
  <2>3. QED
    BY <2>1, <2>2
<1> DEFINE z == Append(x, s[i + 1])
<1> HIDE DEF n, x, y
<1>4. /\ z \in Seq(S) /\ Len(z) = i - a + 2
      /\ \A j \in 1..i - a + 1 : z[j] = x[j]
      /\ z[i - a + 2] = s[i + 1]
  <2> DEFINE l == i - a + 1
  <2>1. l \in Nat /\ l + 1 = i - a + 2 /\ Len(x) = l
    BY <1>1, <1>2
  <2> HIDE DEF l
  <2>2. /\ z \in Seq(S) /\ Len(z) = l + 1
        /\ \A j \in 1..l : z[j] = x[j]
        /\ z[l + 1] = s[i + 1]
    BY <1>1, <1>2, <2>1
  <2>3. QED
    BY <2>1, <2>2 DEF l
<1> HIDE DEF z
<1>5. \A j \in 1..i - a + 2 : z[j] = y[j]
  <2> TAKE j \in 1..i - a + 2
  <2>1. CASE j \in 1..i - a + 1
    BY <1>2, <1>3, <1>4, <2>1
  <2>2. CASE j = i - a + 2
    <3>1. a + j - 1 = i + 1
      BY <1>1, <2>2
    <3>2. QED
      BY <1>3, <1>4, <2>2, <3>1
  <2>3. QED
    BY <1>1, <2>1, <2>2
<1>6. z = y
  BY <1>3, <1>4, <1>5, SeqEqual
<1>7. QED
  BY <1>6 DEF z, x, y

\* A part that ends before it begins is empty.
LEMMA PartEmpty ==
    ASSUME NEW S, NEW s \in Seq(S), NEW a \in Nat, NEW i \in Int, i < a
    PROVE  SubSeq(s, a, i) = <<>>
<1>1. SubSeq(s, a, i) = [j \in 1..(1 + i - a) |-> s[j + a - 1]]
  OBVIOUS
<1>2. 1..(1 + i - a) = 1..0
  OBVIOUS
<1>3. QED
  BY <1>1, <1>2

\* A sequence is a part of itself.
LEMMA PartWhole ==
    ASSUME NEW S, NEW s \in Seq(S)
    PROVE  SubSeq(s, 1, Len(s)) = s
  OBVIOUS

\* An element more at the end leaves the head, and follows the tail.
LEMMA AppendTail ==
    ASSUME NEW S, NEW s \in Seq(S), s # <<>>, NEW e \in S
    PROVE  /\ Append(s, e) # <<>> /\ Head(Append(s, e)) = Head(s)
           /\ Tail(Append(s, e)) = Append(Tail(s), e)
           /\ Tail(s) \in Seq(S) /\ Head(s) \in S
<1> DEFINE n == Len(s)
           t == Append(s, e)
           x == Tail(t)
           y == Append(Tail(s), e)
<1>1. n \in Nat /\ n > 0 /\ Head(s) = s[1] /\ Head(s) \in S
  OBVIOUS
<1>2. /\ t \in Seq(S) /\ Len(t) = n + 1 /\ t[n + 1] = e
      /\ \A i \in 1..n : t[i] = s[i]
  BY AppendProperties
<1>3. /\ Tail(s) \in Seq(S) /\ Len(Tail(s)) = n - 1
      /\ \A i \in 1..n - 1 : Tail(s)[i] = s[i + 1]
  OBVIOUS
<1> DEFINE u == Tail(s)
<1>4. u \in Seq(S) /\ Len(u) = n - 1 /\ \A i \in 1..n - 1 : u[i] = s[i + 1]
  BY <1>3
<1> HIDE DEF n, t, u
<1>5. t # <<>> /\ Head(t) = s[1]
  BY <1>1, <1>2
<1>6. x \in Seq(S) /\ Len(x) = n /\ \A i \in 1..n : x[i] = t[i + 1]
  BY <1>1, <1>2, <1>5
<1>7. /\ y \in Seq(S) /\ Len(y) = n /\ y[n] = e
      /\ \A i \in 1..n - 1 : y[i] = u[i]
  <2>1. y = Append(u, e)
    BY DEF u
  <2> DEFINE k == n - 1
  <2>2. k \in Nat /\ Len(u) = k /\ k + 1 = n
    BY <1>1, <1>4
  <2> HIDE DEF k, y
  <2>3. /\ y \in Seq(S) /\ Len(y) = k + 1 /\ y[k + 1] = e
        /\ \A i \in 1..k : y[i] = u[i]
    BY <1>4, <2>1, <2>2
  <2>4. QED
    BY <2>2, <2>3 DEF k
<1> HIDE DEF x, y
<1>8. \A i \in 1..n : x[i] = y[i]
  <2> TAKE i \in 1..n
  <2>1. CASE i = n
    BY <1>1, <1>2, <1>6, <1>7, <2>1
  <2>2. CASE i # n
    <3>1. i \in 1..n - 1 /\ i + 1 \in 1..n
      BY <1>1, <2>2
    <3>2. x[i] = t[i + 1] /\ t[i + 1] = s[i + 1]
      BY <1>2, <1>6, <3>1
    <3>3. y[i] = u[i] /\ u[i] = s[i + 1]
      BY <1>4, <1>7, <3>1
    <3>4. QED
      BY <3>2, <3>3
  <2>3. QED
    BY <2>1, <2>2
<1>9. x = y
  BY <1>6, <1>7, <1>8, SeqEqual
<1>10. QED
  BY <1>1, <1>3, <1>5, <1>9 DEF x, y, t

\* An element in front of a sequence.
LEMMA InFront ==
    ASSUME NEW S, NEW s \in Seq(S), NEW c \in S
    PROVE  <<c>> \o s # <<>> /\ Head(<<c>> \o s) = c /\ Tail(<<c>> \o s) = s
<1> DEFINE a == <<c>>
           b == a \o s
           n == Len(s)
<1>1. a \in Seq(S) /\ Len(a) = 1 /\ a[1] = c /\ n \in Nat
  OBVIOUS
<1> HIDE DEF a, n
<1>2. /\ b \in Seq(S) /\ Len(b) = Len(a) + Len(s)
      /\ \A i \in 1..Len(a) + Len(s) : b[i] = IF i <= Len(a) THEN a[i] ELSE s[i - Len(a)]
  BY <1>1, Joined
<1> HIDE DEF b
<1>3. Len(b) = n + 1 /\ b[1] = c /\ \A i \in 1..n : b[i + 1] = s[i]
  <2>1. Len(b) = n + 1 /\ \A i \in 1..n + 1 : b[i] = IF i <= 1 THEN a[i] ELSE s[i - 1]
    BY <1>1, <1>2 DEF n
  <2>2. \A i \in 1..n : i + 1 \in 1..n + 1 /\ ~(i + 1 <= 1) /\ (i + 1) - 1 = i
    BY <1>1
  <2>3. QED
    BY <1>1, <2>1, <2>2
<1>4. b # <<>> /\ Head(b) = b[1]
  BY <1>1, <1>2, <1>3
<1>5. Tail(b) \in Seq(S) /\ Len(Tail(b)) = n /\ \A i \in 1..n : Tail(b)[i] = b[i + 1]
  BY <1>1, <1>2, <1>3, <1>4
<1>6. Tail(b) = s
  BY <1>3, <1>5, SeqEqual DEF n
<1>7. QED
  BY <1>3, <1>4, <1>6 DEF b, a

-----------------------------------------------------------------------------
(* Sequences of sequences, one after the other.                            *)

Chained(ss, n, f) ==
    f = [i \in 1..n |-> IF i = 1 THEN ss[i] ELSE f[i - 1] \o ss[i]]

\* There is such a chain,
LEMMA ChainExists ==
    ASSUME NEW S, NEW ss \in Seq(Seq(S))
    PROVE  \E f : Chained(ss, Len(ss), f)
<1> DEFINE N == {n \in Nat : n <= Len(ss) => \E f : Chained(ss, n, f)}
<1>1. 0 \in N
  <2> DEFINE e == [i \in 1..0 |-> <<>>]
  <2>1. Chained(ss, 0, e)
    BY DEF Chained
  <2> HIDE DEF e
  <2>2. QED
    BY <2>1
<1>2. ASSUME NEW n \in Nat, n \in N
      PROVE  n + 1 \in N
  <2> SUFFICES ASSUME n + 1 <= Len(ss)
               PROVE  \E f : Chained(ss, n + 1, f)
    OBVIOUS
  <2>1. PICK f : Chained(ss, n, f)
    BY <1>2
  <2> DEFINE g == [i \in 1..n + 1 |->
                     IF i = 1 THEN ss[i]
                     ELSE IF i <= n THEN f[i] ELSE f[n] \o ss[n + 1]]
  <2> HIDE DEF N
  <2>2. /\ \A i \in 1..n : g[i] = f[i]
        /\ n > 0 => g[n + 1] = f[n] \o ss[n + 1]
        /\ g[1] = ss[1]
    <3>1. \A i \in 1..n : i = 1 => f[i] = ss[i]
      BY <2>1 DEF Chained
    <3>2. \A i \in 1..n : g[i] = f[i]
      BY <3>1
    <3>3. 1 \in 1..n + 1 /\ n + 1 \in 1..n + 1 /\ ~(n + 1 <= n)
      OBVIOUS
    <3>4. g[1] = ss[1]
      BY <3>3, Zenon
    <3>5. n + 1 # 1 => g[n + 1] = f[n] \o ss[n + 1]
      BY <3>3, Zenon
    <3> HIDE DEF g
    <3>6. n > 0 => n + 1 # 1
      OBVIOUS
    <3>7. QED
      BY <3>2, <3>4, <3>5, <3>6, Zenon
  <2>3. \A i \in 1..n + 1 : g[i] = IF i = 1 THEN ss[i] ELSE g[i - 1] \o ss[i]
    <3> HIDE DEF g
    <3>1. \A i \in 1..n : f[i] = IF i = 1 THEN ss[i] ELSE f[i - 1] \o ss[i]
      BY <2>1 DEF Chained
    <3> SUFFICES ASSUME NEW i \in 1..n + 1, i # 1
                 PROVE  g[i] = g[i - 1] \o ss[i]
      BY <2>2
    <3>2. i - 1 \in 1..n
      OBVIOUS
    <3>3. g[i - 1] = f[i - 1]
      BY <2>2, <3>2
    <3>4. CASE i <= n
      <4>1. i \in 1..n
        BY <3>4
      <4>2. QED
        BY <2>2, <3>1, <3>3, <4>1
    <3>5. CASE i = n + 1
      <4>1. i - 1 = n /\ n > 0
        BY <3>5
      <4>2. QED
        BY <2>2, <3>3, <3>5, <4>1
    <3>6. i <= n \/ i = n + 1
      OBVIOUS
    <3>7. QED
      BY <3>4, <3>5, <3>6
  <2>4. Chained(ss, n + 1, g)
    <3> DEFINE D == 1..n + 1
    <3>1. g = [i \in D |-> g[i]]
      OBVIOUS
    <3>2. \A i \in D : g[i] = IF i = 1 THEN ss[i] ELSE g[i - 1] \o ss[i]
      BY <2>3
    <3> HIDE DEF g, D
    <3>3. g = [i \in D |-> IF i = 1 THEN ss[i] ELSE g[i - 1] \o ss[i]]
      BY <3>1, <3>2
    <3>4. QED
      BY <3>3, Zenon DEF Chained, D
  <2> HIDE DEF g
  <2>5. QED
    BY <2>4
<1>3. Len(ss) \in N
  <2> HIDE DEF N
  <2>1. Nat \subseteq N
    BY <1>1, <1>2, NatInductionOnSets
  <2>2. QED
    BY <2>1
<1>4. QED
  BY <1>3

\* What FlattenSeq returns is the end of a chain.
LEMMA FlattenIs ==
    ASSUME NEW S, NEW ss \in Seq(Seq(S))
    PROVE  /\ ss = <<>> => FlattenSeq(ss) = <<>>
           /\ ss # <<>> =>
                \E f : Chained(ss, Len(ss), f) /\ FlattenSeq(ss) = f[Len(ss)]
<1>1. CASE ss = <<>>
  BY <1>1 DEF FlattenSeq
<1>2. CASE ss # <<>>
  <2> DEFINE f == CHOOSE x : Chained(ss, Len(ss), x)
  <2>1. Chained(ss, Len(ss), f)
    BY ChainExists
  <2>2. FlattenSeq(ss) = f[Len(ss)]
    <3>1. Len(ss) # 0
      BY <1>2
    <3>2. QED
      BY <3>1, Zenon DEF FlattenSeq, Chained
  <2> HIDE DEF f
  <2>3. QED
    BY <1>2, <2>1, <2>2
<1>3. QED
  BY <1>1, <1>2

\* its first link the first sequence
LEMMA ChainHead ==
    ASSUME NEW S, NEW ss \in Seq(Seq(S)), NEW f, Chained(ss, Len(ss), f), ss # <<>>
    PROVE  f[1] = ss[1]
  BY DEF Chained

\* and each other the one before with the next sequence behind it,
LEMMA ChainLink ==
    ASSUME NEW S, NEW ss \in Seq(Seq(S)), NEW f, Chained(ss, Len(ss), f),
           NEW n \in 1..Len(ss), n # 1
    PROVE  f[n] = f[n - 1] \o ss[n]
  BY DEF Chained

\* all of them sequences of elements.
LEMMA ChainType ==
    ASSUME NEW S, NEW ss \in Seq(Seq(S)), NEW f, Chained(ss, Len(ss), f)
    PROVE  \A n \in 1..Len(ss) : f[n] \in Seq(S)
<1> DEFINE N == {n \in Nat : n \in 1..Len(ss) => f[n] \in Seq(S)}
<1>1. 0 \in N
  OBVIOUS
<1>2. ASSUME NEW n \in Nat, n \in N
      PROVE  n + 1 \in N
  <2> SUFFICES ASSUME n + 1 \in 1..Len(ss)
               PROVE  f[n + 1] \in Seq(S)
    OBVIOUS
  <2>1. ss[n + 1] \in Seq(S)
    BY Elements
  <2>2. CASE n = 0
    <3>1. n + 1 = 1 /\ ss # <<>>
      BY <2>2
    <3>2. f[1] = ss[1]
      BY <3>1, ChainHead
    <3>3. QED
      BY <2>1, <3>1, <3>2
  <2>3. CASE n # 0
    <3>1. n \in 1..Len(ss) /\ n + 1 # 1 /\ (n + 1) - 1 = n
      BY <2>3
    <3>2. f[n] \in Seq(S)
      BY <1>2, <3>1
    <3>3. f[n + 1] = f[(n + 1) - 1] \o ss[n + 1]
      BY <3>1, ChainLink
    <3>4. QED
      BY <2>1, <3>1, <3>2, <3>3
  <2>4. QED
    BY <2>2, <2>3
<1> HIDE DEF N
<1>3. Nat \subseteq N
  BY <1>1, <1>2, NatInductionOnSets
<1> USE DEF N
<1>4. QED
  BY <1>3

\* So the flattened sequence is one.
LEMMA FlattenType ==
    ASSUME NEW S, NEW ss \in Seq(Seq(S))
    PROVE  FlattenSeq(ss) \in Seq(S)
<1>1. CASE ss = <<>>
  <2>1. FlattenSeq(ss) = <<>>
    BY <1>1, FlattenIs
  <2>2. QED
    BY <2>1
<1>2. CASE ss # <<>>
  <2>1. PICK f : Chained(ss, Len(ss), f) /\ FlattenSeq(ss) = f[Len(ss)]
    BY <1>2, FlattenIs
  <2>2. Len(ss) \in 1..Len(ss)
    BY <1>2
  <2>3. f[Len(ss)] \in Seq(S)
    <3>1. Chained(ss, Len(ss), f)
      BY <2>1
    <3>2. QED
      BY <2>2, <3>1, ChainType
  <2>4. QED
    BY <2>1, <2>3
<1>3. QED
  BY <1>1, <1>2

\* Two chains agree as far as their sequences do.
Begins(ss, tt) == Len(ss) <= Len(tt) /\ \A i \in 1..Len(ss) : ss[i] = tt[i]

\* Chains agree as far as their sequences do.
LEMMA ChainsAgree ==
    ASSUME NEW S, NEW ss \in Seq(Seq(S)), NEW tt \in Seq(Seq(S)),
           Begins(ss, tt),
           NEW f, Chained(ss, Len(ss), f), NEW g, Chained(tt, Len(tt), g)
    PROVE  \A n \in 1..Len(ss) : f[n] = g[n]
<1> DEFINE N == {n \in Nat : n \in 1..Len(ss) => f[n] = g[n]}
<1>1. 0 \in N
  OBVIOUS
<1>2. ASSUME NEW n \in Nat, n \in N
      PROVE  n + 1 \in N
  <2> SUFFICES ASSUME n + 1 \in 1..Len(ss)
               PROVE  f[n + 1] = g[n + 1]
    OBVIOUS
  <2>1. n + 1 \in 1..Len(tt) /\ ss[n + 1] = tt[n + 1] /\ (n + 1) - 1 = n
    BY DEF Begins
  <2>2. CASE n = 0
    <3>1. n + 1 = 1
      BY <2>2
    <3>2. ss # <<>> /\ tt # <<>>
      BY <2>1
    <3>3. f[1] = ss[1]
      BY <3>2, ChainHead
    <3>4. g[1] = tt[1]
      BY <3>2, ChainHead
    <3>5. QED
      BY <2>1, <3>1, <3>3, <3>4
  <2>3. CASE n # 0
    <3>1. n \in 1..Len(ss) /\ n + 1 # 1
      BY <2>3
    <3>2. f[n] = g[n]
      BY <1>2, <3>1
    <3>3. f[n + 1] = f[(n + 1) - 1] \o ss[n + 1]
      BY <3>1, ChainLink
    <3>4. g[n + 1] = g[(n + 1) - 1] \o tt[n + 1]
      BY <2>1, <3>1, ChainLink
    <3>5. QED
      BY <2>1, <3>2, <3>3, <3>4
  <2>4. QED
    BY <2>2, <2>3
<1> HIDE DEF N
<1>3. Nat \subseteq N
  BY <1>1, <1>2, NatInductionOnSets
<1> USE DEF N
<1>4. QED
  BY <1>3

\* A sequence more is put at the end,
LEMMA FlattenAppend ==
    ASSUME NEW S, NEW ss \in Seq(Seq(S)), NEW s \in Seq(S)
    PROVE  FlattenSeq(Append(ss, s)) = FlattenSeq(ss) \o s
<1> DEFINE tt == Append(ss, s)
           n == Len(ss)
<1>1. /\ tt \in Seq(Seq(S)) /\ tt # <<>> /\ Len(tt) = n + 1 /\ tt[n + 1] = s
      /\ \A i \in 1..n : ss[i] = tt[i]
      /\ n \in Nat
  BY AppendProperties
<1> HIDE DEF tt
<1>2. PICK g : Chained(tt, Len(tt), g) /\ FlattenSeq(tt) = g[Len(tt)]
  BY <1>1, FlattenIs
<1>3. CASE ss = <<>>
  <2>1. n = 0
    BY <1>3
  <2>2. FlattenSeq(tt) = s
    <3>1. Chained(tt, Len(tt), g)
      BY <1>2
    <3>2. g[1] = tt[1]
      BY <1>1, <3>1, ChainHead
    <3>3. Len(tt) = 1 /\ n + 1 = 1
      BY <1>1, <2>1
    <3>4. QED
      BY <1>1, <1>2, <3>2, <3>3
  <2>3. FlattenSeq(ss) = <<>>
    BY <1>3, FlattenIs
  <2>4. <<>> \o s = s
    OBVIOUS
  <2>5. QED
    BY <2>2, <2>3, <2>4 DEF tt
<1>4. CASE ss # <<>>
  <2>1. PICK f : Chained(ss, n, f) /\ FlattenSeq(ss) = f[n]
    BY <1>4, FlattenIs
  <2>2. n \in 1..n /\ n + 1 \in 1..Len(tt) /\ n + 1 # 1 /\ (n + 1) - 1 = n
    BY <1>1, <1>4
  <2>3. f[n] = g[n]
    <3>1. Chained(ss, n, f) /\ Chained(tt, Len(tt), g)
      BY <1>1, <1>2, <2>1
    <3>2. tt \in Seq(Seq(S)) /\ Begins(ss, tt)
      BY <1>1 DEF Begins
    <3>3. \A i \in 1..n : f[i] = g[i]
      BY <3>1, <3>2, ChainsAgree
    <3>4. QED
      BY <2>2, <3>3
  <2>4. g[n + 1] = g[(n + 1) - 1] \o tt[n + 1]
    BY <1>1, <1>2, <2>2, ChainLink
  <2>5. FlattenSeq(tt) = f[n] \o s
    BY <1>1, <1>2, <2>2, <2>3, <2>4
  <2>6. QED
    BY <2>1, <2>5 DEF tt
<1>5. QED
  BY <1>3, <1>4

\* and the first one is in front of the others.
LEMMA FlattenCons ==
    ASSUME NEW S, NEW ss \in Seq(Seq(S)), ss # <<>>
    PROVE  FlattenSeq(ss) = Head(ss) \o FlattenSeq(Tail(ss))
<1> DEFINE tt == Tail(ss)
           m == Len(tt)
<1>1. /\ tt \in Seq(Seq(S)) /\ Len(ss) = m + 1 /\ m \in Nat
      /\ Head(ss) = ss[1] /\ ss[1] \in Seq(S)
      /\ \A i \in 1..m : tt[i] = ss[i + 1] /\ tt[i] \in Seq(S)
  OBVIOUS
<1> HIDE DEF tt
<1>2. PICK f : Chained(ss, Len(ss), f) /\ FlattenSeq(ss) = f[Len(ss)]
  BY FlattenIs
<1>3. f[1] = ss[1]
  <2>1. Chained(ss, Len(ss), f)
    BY <1>2
  <2>2. QED
    BY <2>1, ChainHead
<1>4. CASE tt = <<>>
  <2>1. m = 0 /\ m + 1 = 1
    BY <1>4
  <2>2. FlattenSeq(tt) = <<>>
    BY <1>1, <1>4, FlattenIs
  <2>3. ss[1] \o <<>> = ss[1]
    BY <1>1
  <2>4. QED
    BY <1>1, <1>2, <1>3, <2>1, <2>2, <2>3 DEF tt
<1>5. CASE tt # <<>>
  <2>1. PICK g : Chained(tt, m, g) /\ FlattenSeq(tt) = g[m]
    BY <1>1, <1>5, FlattenIs
  <2>2. /\ g[1] = tt[1]
        /\ \A n \in 1..m : g[n] \in Seq(S)
        /\ \A n \in 1..m : n # 1 => g[n] = g[n - 1] \o tt[n]
    <3>1. Chained(tt, m, g)
      BY <2>1
    <3>2. g[1] = tt[1]
      BY <1>1, <1>5, <3>1, ChainHead
    <3>3. \A n \in 1..m : g[n] \in Seq(S)
      BY <1>1, <3>1, ChainType
    <3>4. \A n \in 1..m : n # 1 => g[n] = g[n - 1] \o tt[n]
      BY <1>1, <3>1, ChainLink
    <3>5. QED
      BY <3>2, <3>3, <3>4
  <2>3. \A n \in 1..m + 1 : n # 1 => f[n] = f[n - 1] \o ss[n]
    <3>1. Chained(ss, Len(ss), f)
      BY <1>2
    <3>2. \A n \in 1..Len(ss) : n # 1 => f[n] = f[n - 1] \o ss[n]
      BY <3>1, ChainLink
    <3>3. QED
      BY <1>1, <3>2
  <2> DEFINE N == {n \in Nat : n \in 1..m => f[n + 1] = ss[1] \o g[n]}
  <2>4. 0 \in N
    OBVIOUS
  <2>5. ASSUME NEW n \in Nat, n \in N
        PROVE  n + 1 \in N
    <3> SUFFICES ASSUME n + 1 \in 1..m
                 PROVE  f[(n + 1) + 1] = ss[1] \o g[n + 1]
      <4>1. n + 1 \in Nat
        OBVIOUS
      <4>2. QED
        BY <4>1, Zenon
    <3>1. /\ (n + 1) + 1 \in 1..m + 1 /\ (n + 1) + 1 # 1
          /\ ((n + 1) + 1) - 1 = n + 1
      BY <1>1
    <3>2. f[(n + 1) + 1] = f[n + 1] \o ss[(n + 1) + 1]
      BY <2>3, <3>1
    <3>3. tt[n + 1] = ss[(n + 1) + 1] /\ tt[n + 1] \in Seq(S)
      BY <1>1
    <3>4. CASE n = 0
      <4>1. n + 1 = 1
        BY <3>4
      <4>2. QED
        BY <1>3, <2>2, <3>2, <3>3, <4>1
    <3>5. CASE n # 0
      <4>1. n \in 1..m /\ n + 1 # 1 /\ (n + 1) - 1 = n
        BY <3>5, <1>1
      <4>2. f[n + 1] = ss[1] \o g[n] /\ g[n] \in Seq(S)
        BY <2>2, <2>5, <4>1
      <4>3. g[n + 1] = g[n] \o tt[n + 1]
        BY <2>2, <4>1
      <4>4. (ss[1] \o g[n]) \o tt[n + 1] = ss[1] \o (g[n] \o tt[n + 1])
        <5> HIDE DEF N
        <5>1. \A a, b, c \in Seq(S) : (a \o b) \o c = a \o (b \o c)
          BY SMTT(40)
        <5>2. QED
          BY <1>1, <3>3, <4>2, <5>1
      <4>5. QED
        BY <3>2, <3>3, <4>2, <4>3, <4>4
    <3>6. QED
      BY <3>4, <3>5
  <2> HIDE DEF N
  <2>6. Nat \subseteq N
    BY <2>4, <2>5, NatInductionOnSets
  <2> USE DEF N
  <2>7. f[m + 1] = ss[1] \o g[m]
    <3>1. m \in Nat /\ m \in 1..m
      BY <1>1, <1>5
    <3>2. m \in N
      BY <2>6, <3>1
    <3>3. QED
      BY <3>1, <3>2
  <2>8. QED
    BY <1>1, <1>2, <2>1, <2>7 DEF tt
<1>6. QED
  BY <1>4, <1>5

\* The lesser and the greater of two integers.
LEMMA LesserOfTwo ==
    ASSUME NEW a \in Int, NEW b \in Int
    PROVE  Min({a, b}) = IF a <= b THEN a ELSE b
<1> DEFINE x == IF a <= b THEN a ELSE b
<1>1. x \in {a, b} /\ \A y \in {a, b} : x <= y
  OBVIOUS
<1>2. \A z \in {a, b} : (\A y \in {a, b} : z <= y) => z = x
  OBVIOUS
<1> HIDE DEF x
<1>3. Min({a, b}) = x
  BY <1>1, <1>2 DEF Min
<1>4. QED
  BY <1>3 DEF x

LEMMA GreaterOfTwo ==
    ASSUME NEW a \in Int, NEW b \in Int
    PROVE  Max({a, b}) = IF a >= b THEN a ELSE b
<1> DEFINE x == IF a >= b THEN a ELSE b
<1>1. x \in {a, b} /\ \A y \in {a, b} : x >= y
  OBVIOUS
<1>2. \A z \in {a, b} : (\A y \in {a, b} : z >= y) => z = x
  OBVIOUS
<1> HIDE DEF x
<1>3. Max({a, b}) = x
  BY <1>1, <1>2 DEF Max
<1>4. QED
  BY <1>3 DEF x

\* Sequences are joined in any order.
Associative(S) == \A x, y, z \in Seq(S) : (x \o y) \o z = x \o (y \o z)

LEMMA Associates ==
    ASSUME NEW S
    PROVE  Associative(S)
<1>1. \A x, y, z \in Seq(S) : (x \o y) \o z = x \o (y \o z)
  BY SMTT(40)
<1>2. QED
  BY <1>1 DEF Associative

\* A sequence over a set is one over a larger one.
LEMMA SeqGrows ==
    ASSUME NEW S, NEW T, S \subseteq T, NEW s \in Seq(S)
    PROVE  s \in Seq(T)
  BY SeqOfElements

\* The reverse of a sequence, and that of the reverse.
LEMMA ReverseIs ==
    ASSUME NEW S, NEW s \in Seq(S)
    PROVE  /\ Reverse(s) \in Seq(S) /\ Len(Reverse(s)) = Len(s)
           /\ \A i \in 1..Len(s) : Reverse(s)[i] = s[(Len(s) - i) + 1]
<1> DEFINE n == Len(s)
<1>1. n \in Nat /\ \A i \in 1..n : s[i] \in S
  OBVIOUS
<1>2. Reverse(s) = [i \in 1..n |-> s[(n - i) + 1]]
  BY DEF Reverse
<1> HIDE DEF n
<1>3. \A i \in 1..n : (n - i) + 1 \in 1..n
  BY <1>1
<1>4. \A i \in 1..n : s[(n - i) + 1] \in S
  BY <1>1, <1>3
<1>5. [i \in 1..n |-> s[(n - i) + 1]] \in Seq(S)
  BY <1>1, <1>4, IsASeq
<1>6. Len([i \in 1..n |-> s[(n - i) + 1]]) = n
  BY <1>1
<1>7. QED
  BY <1>2, <1>5, <1>6 DEF n

\* Turned round twice, a sequence is what it was.
LEMMA ReverseTwice ==
    ASSUME NEW S, NEW s \in Seq(S)
    PROVE  Reverse(Reverse(s)) = s
<1> DEFINE n == Len(s)
           r == Reverse(s)
           t == Reverse(r)
<1>1. n \in Nat /\ r \in Seq(S) /\ Len(r) = n
      /\ \A i \in 1..n : r[i] = s[(n - i) + 1]
  BY ReverseIs
<1>2. t \in Seq(S) /\ Len(t) = n /\ \A i \in 1..n : t[i] = r[(n - i) + 1]
  <2> HIDE DEF n
  <2>1. r \in Seq(S) /\ Len(r) = n
    BY <1>1
  <2> HIDE DEF r
  <2>2. QED
    BY <2>1, ReverseIs
<1> HIDE DEF r, t
<1>3. \A i \in 1..n : t[i] = s[i]
  <2> TAKE i \in 1..n
  <2> HIDE DEF n
  <2>1. (n - i) + 1 \in 1..n /\ (n - ((n - i) + 1)) + 1 = i
    BY <1>1
  <2>2. QED
    BY <1>1, <1>2, <2>1
<1>4. t = s
  BY <1>2, <1>3, SeqEqual
<1>5. QED
  BY <1>4 DEF t, r

\* Nothing, flattened.
LEMMA FlattenEmpty == FlattenSeq(<<>>) = <<>>
  BY DEF FlattenSeq

\* A sequence of sequences of one length has the sum of them.
LEMMA FlattenLength ==
    ASSUME NEW S, NEW b \in Nat, NEW ss \in Seq(Seq(S)),
           \A i \in 1..Len(ss) : Len(ss[i]) = b
    PROVE  Len(FlattenSeq(ss)) = Len(ss) * b
<1> DEFINE F(n) == FlattenSeq(SubSeq(ss, 1, n))
           N == {n \in Nat : n <= Len(ss) => Len(F(n)) = n * b}
<1>1. 0 \in N
  <2>1. SubSeq(ss, 1, 0) = <<>>
    BY PartEmpty
  <2>2. F(0) = <<>>
    BY <2>1, FlattenEmpty
  <2>3. QED
    BY <2>2
<1>2. ASSUME NEW n \in Nat, n \in N
      PROVE  n + 1 \in N
  <2> SUFFICES ASSUME n + 1 <= Len(ss)
               PROVE  Len(F(n + 1)) = (n + 1) * b
    OBVIOUS
  <2>1. n + 1 \in 1..Len(ss) /\ n \in 1 - 1..Len(ss) - 1 /\ n \in 1 - 1..Len(ss)
        /\ 1 \in 1..Len(ss) /\ 1 \in 1..Len(ss) + 1
    OBVIOUS
  <2>2. SubSeq(ss, 1, n) \in Seq(Seq(S)) /\ ss[n + 1] \in Seq(S)
    BY <2>1, PartIs, Elements
  <2>3. Append(SubSeq(ss, 1, n), ss[n + 1]) = SubSeq(ss, 1, n + 1)
    BY <2>1, PartStep
  <2>4. F(n + 1) = F(n) \o ss[n + 1] /\ F(n) \in Seq(S)
    BY <2>2, <2>3, FlattenAppend, FlattenType
  <2>5. Len(F(n)) = n * b /\ Len(ss[n + 1]) = b
    BY <1>2, <2>1
  <2> HIDE DEF F
  <2>6. Len(F(n + 1)) = n * b + b
    BY <2>2, <2>4, <2>5, Joined
  <2>7. n * b + b = (n + 1) * b
    OBVIOUS
  <2>8. QED
    BY <2>6, <2>7
<1> HIDE DEF N
<1>3. Nat \subseteq N
  BY <1>1, <1>2, NatInductionOnSets
<1>4. Len(F(Len(ss))) = Len(ss) * b
  BY <1>3 DEF N
<1>5. QED
  BY <1>4, PartWhole

\* Sequences of at most one element have no more of them than there are sequences.
LEMMA FlattenAtMost ==
    ASSUME NEW S, NEW ss \in Seq(Seq(S)),
           \A i \in 1..Len(ss) : Len(ss[i]) <= 1
    PROVE  Len(FlattenSeq(ss)) <= Len(ss)
<1> DEFINE F(n) == FlattenSeq(SubSeq(ss, 1, n))
           N == {n \in Nat : n <= Len(ss) => Len(F(n)) <= n}
<1>1. 0 \in N
  <2>1. SubSeq(ss, 1, 0) = <<>>
    BY PartEmpty
  <2>2. F(0) = <<>>
    BY <2>1, FlattenEmpty
  <2>3. QED
    BY <2>2
<1>2. ASSUME NEW n \in Nat, n \in N
      PROVE  n + 1 \in N
  <2> SUFFICES ASSUME n + 1 <= Len(ss)
               PROVE  Len(F(n + 1)) <= n + 1
    OBVIOUS
  <2>1. n + 1 \in 1..Len(ss) /\ n \in 1 - 1..Len(ss) - 1 /\ n \in 1 - 1..Len(ss)
        /\ 1 \in 1..Len(ss) /\ 1 \in 1..Len(ss) + 1
    OBVIOUS
  <2>2. SubSeq(ss, 1, n) \in Seq(Seq(S)) /\ ss[n + 1] \in Seq(S)
    BY <2>1, PartIs, Elements
  <2>3. Append(SubSeq(ss, 1, n), ss[n + 1]) = SubSeq(ss, 1, n + 1)
    BY <2>1, PartStep
  <2>4. F(n + 1) = F(n) \o ss[n + 1] /\ F(n) \in Seq(S)
    BY <2>2, <2>3, FlattenAppend, FlattenType
  <2>5. Len(F(n)) <= n /\ Len(ss[n + 1]) <= 1
    BY <1>2, <2>1
  <2> HIDE DEF F
  <2>6. Len(F(n + 1)) = Len(F(n)) + Len(ss[n + 1])
    BY <2>2, <2>4, Joined
  <2>7. Len(F(n)) \in Nat /\ Len(ss[n + 1]) \in Nat
    BY <2>2, <2>4
  <2>8. QED
    BY <2>5, <2>6, <2>7
<1> HIDE DEF N
<1>3. Nat \subseteq N
  BY <1>1, <1>2, NatInductionOnSets
<1>4. Len(F(Len(ss))) <= Len(ss)
  BY <1>3 DEF N
<1>5. QED
  BY <1>4, PartWhole

\* Two parts of a sequence of sequences, flattened one after the other.
LEMMA FlattenParts ==
    ASSUME NEW S, NEW ss \in Seq(Seq(S)), NEW a \in 0..Len(ss), NEW c \in a..Len(ss)
    PROVE  FlattenSeq(SubSeq(ss, 1, a)) \o FlattenSeq(SubSeq(ss, a + 1, c))
             = FlattenSeq(SubSeq(ss, 1, c))
<1>0. Associative(S)
  BY Associates
<1> DEFINE l == Len(ss)
           F(n) == FlattenSeq(SubSeq(ss, 1, n))
           G(n) == FlattenSeq(SubSeq(ss, a + 1, n))
           N == {n \in Nat : a + n <= l => F(a) \o G(a + n) = F(a + n)}
<1>1. l \in Nat /\ a \in 0..l /\ c \in a..l
  OBVIOUS
<1>2. \A n \in a..l : F(n) \in Seq(S) /\ G(n) \in Seq(S)
  <2> TAKE n \in a..l
  <2>1. 1 \in 1..Len(ss) + 1 /\ n \in 1 - 1..Len(ss) /\ a + 1 \in 1..Len(ss) + 1
        /\ n \in (a + 1) - 1..Len(ss)
    OBVIOUS
  <2>2. SubSeq(ss, 1, n) \in Seq(Seq(S)) /\ SubSeq(ss, a + 1, n) \in Seq(Seq(S))
    BY <2>1, PartIs
  <2>3. QED
    BY <2>2, FlattenType
<1>3. 0 \in N
  <2>1. SubSeq(ss, a + 1, a) = <<>>
    BY PartEmpty
  <2>2. G(a) = <<>>
    BY <2>1, FlattenEmpty
  <2>3. F(a) \in Seq(S)
    BY <1>1, <1>2
  <2>4. F(a) \o <<>> = F(a) /\ a + 0 = a
    BY <2>3
  <2>5. QED
    BY <2>2, <2>4
<1>4. ASSUME NEW n \in Nat, n \in N
      PROVE  n + 1 \in N
  <2> DEFINE m == a + n
  <2> SUFFICES ASSUME m + 1 <= l
               PROVE  F(a) \o G(m + 1) = F(m + 1)
    <3>1. a + (n + 1) = m + 1
      OBVIOUS
    <3>2. QED
      BY <3>1
  <2>1. /\ m \in Nat /\ m \in a..l /\ m + 1 \in 1..l /\ 1 \in 1..l /\ m \in 1 - 1..l - 1
        /\ a + 1 \in 1..l /\ m \in (a + 1) - 1..l - 1 /\ a \in a..l
        /\ 1 \in 1..l + 1 /\ m \in 1 - 1..l /\ a + 1 \in 1..l + 1 /\ m \in (a + 1) - 1..l
    BY <1>1
  <2>2. F(a) \o G(m) = F(m)
    BY <1>4, <2>1
  <2> HIDE DEF m
  <2>3. /\ Append(SubSeq(ss, 1, m), ss[m + 1]) = SubSeq(ss, 1, m + 1)
        /\ Append(SubSeq(ss, a + 1, m), ss[m + 1]) = SubSeq(ss, a + 1, m + 1)
    BY <2>1, PartStep
  <2>4. /\ SubSeq(ss, 1, m) \in Seq(Seq(S)) /\ SubSeq(ss, a + 1, m) \in Seq(Seq(S))
        /\ ss[m + 1] \in Seq(S)
    BY <2>1, PartIs, Elements
  <2>5. F(m + 1) = F(m) \o ss[m + 1] /\ G(m + 1) = G(m) \o ss[m + 1]
    BY <2>3, <2>4, FlattenAppend
  <2>6. F(a) \in Seq(S) /\ G(m) \in Seq(S)
    BY <1>2, <2>1
  <2> HIDE DEF F, G
  <2>7. (F(a) \o G(m)) \o ss[m + 1] = F(a) \o (G(m) \o ss[m + 1])
    BY <1>0, <2>4, <2>6 DEF Associative
  <2>8. QED
    BY <2>2, <2>5, <2>7
<1> HIDE DEF N
<1>5. Nat \subseteq N
  BY <1>3, <1>4, NatInductionOnSets
<1>6. c - a \in Nat /\ a + (c - a) = c /\ a + (c - a) <= l
  BY <1>1
<1> HIDE DEF F, G
<1>7. F(a) \o G(a + (c - a)) = F(a + (c - a))
  BY <1>5, <1>6 DEF N
<1>8. QED
  BY <1>6, <1>7 DEF F, G

\* Sequences of which those behind place k are empty, flattened.
LEMMA FlattenUpTo ==
    ASSUME NEW S, NEW ss \in Seq(Seq(S)), NEW k \in 1..Len(ss),
           \A i \in k + 1..Len(ss) : ss[i] = <<>>
    PROVE  /\ FlattenSeq(ss) = FlattenSeq(SubSeq(ss, 1, k - 1)) \o ss[k]
           /\ SubSeq(ss, 1, k - 1) \in Seq(Seq(S))
           /\ FlattenSeq(SubSeq(ss, 1, k - 1)) \in Seq(S) /\ ss[k] \in Seq(S)
<1> DEFINE n == Len(ss)
           x == SubSeq(ss, 1, k - 1)
           y == SubSeq(ss, 1, k)
           z == SubSeq(ss, k + 1, n)
<1>1. n \in Nat /\ k \in 1..n /\ 1 \in 1..n /\ 1 \in 1..n + 1 /\ k - 1 \in 1 - 1..n - 1
      /\ k - 1 \in 1 - 1..n /\ k + 1 \in 1..n + 1 /\ n \in (k + 1) - 1..n
      /\ k \in 0..n /\ n \in k..n /\ (k - 1) + 1 = k
  OBVIOUS
<1>2. ss[k] \in Seq(S)
  BY <1>1, Elements
<1>3. x \in Seq(Seq(S))
  BY <1>1, PartIs
<1>4. y = Append(x, ss[k])
  <2>1. Append(SubSeq(ss, 1, k - 1), ss[(k - 1) + 1]) = SubSeq(ss, 1, (k - 1) + 1)
    BY <1>1, PartStep
  <2>2. QED
    BY <1>1, <2>1
<1>5. FlattenSeq(y) = FlattenSeq(x) \o ss[k]
  BY <1>2, <1>3, <1>4, FlattenAppend
<1>6. /\ z \in Seq(Seq(S)) /\ Len(z) = n - (k + 1) + 1
      /\ \A j \in 1..n - (k + 1) + 1 : z[j] = ss[(k + 1) + j - 1]
  BY <1>1, PartIs
<1>7. FlattenSeq(z) = <<>>
  <2>1. ASSUME NEW j \in 1..Len(z)
        PROVE  Len(z[j]) = 0
    <3>1. (k + 1) + j - 1 \in k + 1..n /\ j \in 1..n - (k + 1) + 1
      <4> HIDE DEF z, n
      <4>1. QED
        BY <1>1, <1>6
    <3>2. z[j] = <<>>
      BY <1>6, <3>1
    <3>3. QED
      BY <3>2
  <2> DEFINE m == Len(z)
  <2>2. m \in Nat /\ 0 \in Nat
    BY <1>6
  <2>3. Len(FlattenSeq(z)) = m * 0
    <3> HIDE DEF z
    <3>1. QED
      BY <1>6, <2>1, <2>2, FlattenLength
  <2>4. FlattenSeq(z) \in Seq(S)
    BY <1>6, FlattenType
  <2> HIDE DEF m, z
  <2>5. m * 0 = 0
    BY <2>2
  <2>6. Len(FlattenSeq(z)) = 0
    BY <2>3, <2>5
  <2>7. QED
    BY <2>4, <2>6
<1>8. FlattenSeq(y) \o FlattenSeq(z) = FlattenSeq(SubSeq(ss, 1, n))
  BY <1>1, FlattenParts
<1>9. FlattenSeq(x) \in Seq(S)
  BY <1>3, FlattenType
<1>10. FlattenSeq(x) \o ss[k] \in Seq(S)
  BY <1>2, <1>9
<1> DEFINE g == FlattenSeq(x) \o ss[k]
<1>11. g \o <<>> = g
  <2> HIDE DEF x
  <2>1. g \in Seq(S)
    BY <1>10
  <2> HIDE DEF g
  <2>2. QED
    BY <2>1
<1>12. FlattenSeq(ss) = g
  <2>1. SubSeq(ss, 1, n) = ss
    BY PartWhole
  <2> HIDE DEF x, y, z, n
  <2>2. QED
    BY <1>5, <1>7, <1>8, <1>11, <2>1
<1>13. QED
  BY <1>2, <1>3, <1>9, <1>12

\* Pairs, flattened: their first and second parts in turn.
Pairs(a, b, n) == [k \in 1..n |-> <<a[k], b[k]>>]
InTurn(F, a, b, n) ==
    /\ Len(F) = 2 * n
    /\ \A k \in 1..n : F[2 * k - 1] = a[k] /\ F[2 * k] = b[k]

\* Pairs are sequences.
LEMMA PairsAre ==
    ASSUME NEW S, NEW n \in Nat, NEW a, NEW b, \A k \in 1..n : a[k] \in S /\ b[k] \in S
    PROVE  Pairs(a, b, n) \in Seq(Seq(S)) /\ Len(Pairs(a, b, n)) = n
<1>1. \A k \in 1..n : <<a[k], b[k]>> \in Seq(S)
  OBVIOUS
<1> DEFINE P == [k \in 1..n |-> <<a[k], b[k]>>]
<1>2. \A k \in 1..n : P[k] \in Seq(S)
  BY <1>1
<1>3. P = [k \in 1..n |-> P[k]] /\ Len(P) = n
  OBVIOUS
<1> HIDE DEF P
<1>4. P \in Seq(Seq(S))
  BY <1>2, <1>3, IsASeq
<1>5. QED
  BY <1>3, <1>4 DEF P, Pairs

\* Flattened, they are their parts in turn.
LEMMA FlattenPairs ==
    ASSUME NEW S, NEW n \in Nat, NEW a, NEW b, \A k \in 1..n : a[k] \in S /\ b[k] \in S
    PROVE  /\ FlattenSeq(Pairs(a, b, n)) \in Seq(S)
           /\ InTurn(FlattenSeq(Pairs(a, b, n)), a, b, n)
<1> DEFINE F(m) == FlattenSeq(Pairs(a, b, m))
           N == {m \in Nat : m <= n => F(m) \in Seq(S) /\ InTurn(F(m), a, b, m)}
<1>1. 0 \in N
  <2>a. 0 \in Nat /\ \A k \in 1..0 : a[k] \in S /\ b[k] \in S
    OBVIOUS
  <2>1. Pairs(a, b, 0) \in Seq(Seq(S)) /\ Len(Pairs(a, b, 0)) = 0
    BY <2>a, PairsAre
  <2> DEFINE P == Pairs(a, b, 0)
  <2> HIDE DEF P
  <2>2. P = <<>>
    BY <2>1 DEF P
  <2>3. F(0) = <<>>
    BY <2>2, FlattenEmpty DEF P
  <2> DEFINE f == F(0)
  <2>4. f = <<>>
    BY <2>3
  <2> HIDE DEF f, F
  <2>5. f \in Seq(S) /\ InTurn(f, a, b, 0)
    BY <2>4 DEF InTurn
  <2>6. QED
    BY <2>5 DEF f
<1>2. ASSUME NEW m \in Nat, m \in N
      PROVE  m + 1 \in N
  <2> SUFFICES ASSUME m + 1 <= n
               PROVE  F(m + 1) \in Seq(S) /\ InTurn(F(m + 1), a, b, m + 1)
    OBVIOUS
  <2>1. m + 1 \in Nat /\ m + 1 \in 1..n /\ \A k \in 1..m + 1 : a[k] \in S /\ b[k] \in S
    OBVIOUS
  <2> DEFINE P == Pairs(a, b, m)
             Q == Pairs(a, b, m + 1)
             e == <<a[m + 1], b[m + 1]>>
  <2>2. P \in Seq(Seq(S)) /\ Len(P) = m
    BY <2>1, PairsAre
  <2>3. Q \in Seq(Seq(S)) /\ Len(Q) = m + 1
    BY <2>1, PairsAre
  <2>4. /\ \A k \in 1..m : P[k] = <<a[k], b[k]>>
        /\ \A k \in 1..m + 1 : Q[k] = <<a[k], b[k]>>
    BY DEF Pairs
  <2>5. e \in Seq(S) /\ Len(e) = 2 /\ e[1] = a[m + 1] /\ e[2] = b[m + 1]
    BY <2>1
  <2>6. Q[m + 1] = e
    BY <2>1, <2>4
  <2>7. \A k \in 1..m : P[k] = Q[k]
    BY <2>4
  <2>a. F(m) \in Seq(S) /\ InTurn(F(m), a, b, m)
    BY <1>2
  <2> DEFINE f == F(m)
             g == F(m + 1)
  <2>b. f \in Seq(S) /\ InTurn(f, a, b, m)
    BY <2>a
  <2>c. g = FlattenSeq(Q) /\ f = FlattenSeq(P)
    OBVIOUS
  <2> HIDE DEF P, Q, e, f, g, F, N
  <2>8. Append(P, e) = Q
    <3>1. /\ Append(P, e) \in Seq(Seq(S)) /\ Len(Append(P, e)) = m + 1
          /\ Append(P, e)[m + 1] = e /\ \A k \in 1..m : Append(P, e)[k] = P[k]
      BY <2>2, <2>5, AppendProperties
    <3>2. \A k \in 1..m + 1 : Append(P, e)[k] = Q[k]
      BY <2>6, <2>7, <3>1
    <3>3. QED
      BY <2>3, <3>1, <3>2, SeqEqual
  <2>9. g = f \o e
    BY <2>2, <2>5, <2>8, <2>c, FlattenAppend
  <2>10. Len(f) = 2 * m /\ \A k \in 1..m : f[2 * k - 1] = a[k] /\ f[2 * k] = b[k]
    BY <2>b DEF InTurn
  <2>11. /\ g \in Seq(S) /\ Len(g) = 2 * m + 2
         /\ \A i \in 1..2 * m + 2 : g[i] = IF i <= 2 * m THEN f[i] ELSE e[i - 2 * m]
    <3> DEFINE l == 2 * m
    <3>1. l \in Nat /\ Len(f) = l
      BY <2>10
    <3> HIDE DEF l
    <3>2. /\ g \in Seq(S) /\ Len(g) = l + 2
          /\ \A i \in 1..l + 2 : g[i] = IF i <= l THEN f[i] ELSE e[i - l]
      <4>1. /\ f \o e \in Seq(S) /\ Len(f \o e) = Len(f) + Len(e)
            /\ \A i \in 1..Len(f) + Len(e) :
                  (f \o e)[i] = IF i <= Len(f) THEN f[i] ELSE e[i - Len(f)]
        BY <2>b, <2>5, Joined
      <4>2. QED
        BY <2>5, <2>9, <3>1, <4>1
    <3>3. QED
      BY <3>2 DEF l
  <2>12. ASSUME NEW k \in 1..m + 1
         PROVE  g[2 * k - 1] = a[k] /\ g[2 * k] = b[k]
    <3>1. CASE k <= m
      <4>1. 2 * k - 1 \in 1..2 * m + 2 /\ 2 * k \in 1..2 * m + 2 /\ 2 * k <= 2 * m
            /\ 2 * k - 1 <= 2 * m /\ k \in 1..m
        BY <3>1
      <4>2. QED
        BY <2>10, <2>11, <4>1
    <3>2. CASE k = m + 1
      <4>1. 2 * k - 1 \in 1..2 * m + 2 /\ 2 * k \in 1..2 * m + 2 /\ ~(2 * k <= 2 * m)
            /\ ~(2 * k - 1 <= 2 * m) /\ (2 * k - 1) - 2 * m = 1 /\ 2 * k - 2 * m = 2
        BY <3>2
      <4>2. g[2 * k - 1] = e[1] /\ g[2 * k] = e[2]
        BY <2>11, <4>1
      <4>3. QED
        BY <2>5, <3>2, <4>2
    <3>3. QED
      BY <3>1, <3>2
  <2>13. Len(g) = 2 * (m + 1)
    BY <2>11
  <2>14. InTurn(g, a, b, m + 1)
    BY <2>12, <2>13 DEF InTurn
  <2>15. QED
    BY <2>11, <2>14 DEF g
<1> HIDE DEF N
<1>3. Nat \subseteq N
  BY <1>1, <1>2, NatInductionOnSets
<1>4. F(n) \in Seq(S) /\ InTurn(F(n), a, b, n)
  <2>1. n \in N
    BY <1>3
  <2>2. n <= n
    OBVIOUS
  <2> HIDE DEF F
  <2>3. QED
    BY <2>1, <2>2 DEF N
<1>5. QED
  BY <1>4

\* y is x with one sequence more.
Extends(y, x, S) ==
    /\ x \in Seq(Seq(S)) /\ y \in Seq(Seq(S)) /\ Len(y) = Len(x) + 1
    /\ \A i \in 1..Len(x) : y[i] = x[i]

\* Flattened, it has the elements of that one at the end.
LEMMA ExtendsFlat ==
    ASSUME NEW S, NEW x, NEW y, Extends(y, x, S)
    PROVE  FlattenSeq(y) = FlattenSeq(x) \o y[Len(x) + 1]
<1> DEFINE n == Len(x)
           e == y[n + 1]
           z == Append(x, e)
<1>1. x \in Seq(Seq(S)) /\ y \in Seq(Seq(S)) /\ n \in Nat /\ Len(y) = n + 1
      /\ \A i \in 1..n : y[i] = x[i]
  BY DEF Extends
<1>2. n + 1 \in 1..Len(y)
  <2> HIDE DEF n
  <2>1. QED
    BY <1>1
<1>3. e \in Seq(S)
  BY <1>1, <1>2, Elements
<1> HIDE DEF e
<1>4. z \in Seq(Seq(S)) /\ Len(z) = n + 1 /\ z[n + 1] = e /\ \A i \in 1..n : z[i] = x[i]
  BY <1>1, <1>3, AppendProperties
<1> HIDE DEF z, n
<1>5. \A i \in 1..n + 1 : y[i] = z[i]
  <2>1. \A i \in 1..n + 1 : i \in 1..n \/ i = n + 1
    BY <1>1
  <2>2. QED
    BY <1>1, <1>4, <2>1 DEF e
<1>6. y = z
  BY <1>1, <1>4, <1>5, SeqEqual
<1>7. FlattenSeq(z) = FlattenSeq(x) \o e
  BY <1>1, <1>3, FlattenAppend DEF z
<1>8. QED
  BY <1>6, <1>7 DEF e, n

\* A sequence given by its elements.
LEMMA Listed ==
    ASSUME NEW T, NEW n \in Nat, NEW x, x = [i \in 1..n |-> x[i]], \A i \in 1..n : x[i] \in T
    PROVE  x \in Seq(T) /\ Len(x) = n
<1>1. x \in Seq(T)
  BY IsASeq
<1>2. DOMAIN x = 1..Len(x) /\ Len(x) \in Nat
  BY <1>1, LenProperties
<1>3. DOMAIN x = 1..n
  OBVIOUS
<1> DEFINE m == Len(x)
<1>4. 1..m = 1..n /\ m \in Nat
  BY <1>2, <1>3
<1> HIDE DEF m
<1>5. m = n
  BY <1>4
<1>6. QED
  BY <1>1, <1>5 DEF m

\* q is p with one sequence more.
Longer(q, p, n, S) ==
    /\ p = [i \in 1..n |-> p[i]] /\ q = [i \in 1..n + 1 |-> q[i]]
    /\ \A i \in 1..n : p[i] = q[i]
    /\ \A i \in 1..n + 1 : q[i] \in Seq(S)

LEMMA OnePieceMore ==
    ASSUME NEW S, NEW n \in Nat, NEW p, NEW q, Longer(q, p, n, S)
    PROVE  FlattenSeq(q) = FlattenSeq(p) \o q[n + 1] /\ FlattenSeq(p) \in Seq(S)
<1> DEFINE T == Seq(S)
<1>1. /\ p = [i \in 1..n |-> p[i]] /\ q = [i \in 1..n + 1 |-> q[i]]
      /\ \A i \in 1..n : p[i] = q[i]
      /\ \A i \in 1..n + 1 : q[i] \in T
  BY DEF Longer
<1> HIDE DEF T
<1>2. n + 1 \in Nat /\ \A i \in 1..n : i \in 1..n + 1
  OBVIOUS
<1>3. \A i \in 1..n : p[i] \in T
  BY <1>1, <1>2
<1>4. p \in Seq(T) /\ Len(p) = n
  BY ONLY <1>1, <1>3, n \in Nat, Listed
<1>5. q \in Seq(T) /\ Len(q) = n + 1
  BY ONLY <1>1, <1>2, Listed
<1>6. Extends(q, p, S)
  BY <1>1, <1>4, <1>5 DEF Extends, T
<1>7. FlattenSeq(q) = FlattenSeq(p) \o q[n + 1]
  BY <1>4, <1>6, ExtendsFlat
<1>8. FlattenSeq(p) \in Seq(S)
  BY <1>4, FlattenType DEF T
<1>9. QED
  BY <1>7, <1>8
=============================================================================
