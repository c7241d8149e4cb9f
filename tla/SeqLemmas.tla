----------------------------- MODULE SeqLemmas ------------------------------
(***************************************************************************)
(* What InsertAt and RemoveAt do to a sequence, element by element, and    *)
(* what Kept leaves of one: the facts that the proofs about chains of      *)
(* rules rest on.  Before them, induction over numbers in the form that    *)
(* the provers can use: by sets of numbers.                                *)
(***************************************************************************)
EXTENDS Integers, KernelChain, Sublists, SequenceTheorems, FiniteSetTheorems,
        WellFoundedInduction, TLAPS

(* A set of numbers has a least one.                                       *)
LEMMA LeastNumber ==
  ASSUME NEW T, T \subseteq Nat, T # {}
  PROVE  \E x \in T : \A y \in T : x <= y
<1> DEFINE R == OpToRel(<, Nat)
<1>1. IsWellFoundedOn(R, Nat)
  BY NatLessThanWellFounded
<1>2. \A x, y \in Nat : x < y => <<x, y>> \in R
  BY DEF OpToRel
<1> HIDE DEF R
<1>3. PICK x \in T : \A y \in T : ~(<<y, x>> \in R)
  BY <1>1, WFMin
<1>4. ASSUME NEW y \in T PROVE x <= y
  <2>1. x \in Nat /\ y \in Nat
    OBVIOUS
  <2>2. ~(y < x)
    BY <1>2, <1>3, <2>1
  <2> QED BY <2>1, <2>2
<1> QED BY <1>4

(* What holds at 0, and of the next number if of this one, holds up to n.  *)
LEMMA UpTo ==
  ASSUME NEW n \in Nat, NEW G, 0 \in G,
         \A k \in 0 .. n - 1 : k \in G => k + 1 \in G
  PROVE  0 .. n \subseteq G
<1> SUFFICES ASSUME NEW x \in 0 .. n, x \notin G PROVE FALSE
  OBVIOUS
<1> DEFINE T == {k \in 0 .. n : k \notin G}
<1>1. T \subseteq Nat /\ T # {}
  OBVIOUS
<1>2. PICK k \in T : \A y \in T : k <= y
  BY <1>1, LeastNumber
<1>3. k # 0 /\ k - 1 \in 0 .. n - 1 /\ k - 1 + 1 = k
  OBVIOUS
<1>4. k - 1 \in G
  BY <1>2, <1>3
<1> QED BY <1>3, <1>4
-----------------------------------------------------------------------------
(* The sequence t is s with e in at i, and the rest shifted by one.        *)
Inserted(S, s, i, e, t) ==
    /\ t \in Seq(S) /\ Len(t) = Len(s) + 1
    /\ \A j \in 1 .. Len(s) + 1 : t[j] = IF j < i THEN s[j]
                                        ELSE IF j = i THEN e ELSE s[j - 1]

(* InsertAt inserts: the step of a kernel chain when a rule is added       *)
(* beside another one.                                                     *)
LEMMA InsertAtInserts ==
  ASSUME NEW S, NEW s \in Seq(S), NEW e \in S, NEW i \in 1 .. Len(s) + 1,
         NEW t, t = InsertAt(s, i, e)
  PROVE  Inserted(S, s, i, e, t)
<1> DEFINE a == SubSeq(s, 1, i - 1)
           b == SubSeq(s, i, Len(s))
<1>1. /\ Len(s) \in Nat
      /\ \A j \in 1 .. Len(s) : s[j] \in S
  BY ElementOfSeq, LenProperties
<1>2. /\ a \in Seq(S) /\ Len(a) = i - 1
      /\ \A j \in 1 .. i - 1 : a[j] = s[j]
  <2>1. i - 1 \in Int /\ \A j \in 1 .. i - 1 : s[j] \in S
    BY <1>1
  <2> QED BY <2>1, <1>1, SubSeqProperties
<1>3. /\ b \in Seq(S) /\ Len(b) = Len(s) - i + 1
      /\ \A j \in 1 .. Len(s) - i + 1 : b[j] = s[i + j - 1]
  <2>1. \A j \in i .. Len(s) : s[j] \in S
    BY <1>1
  <2> QED BY <2>1, <1>1, SubSeqProperties
<1>4. <<e>> \in Seq(S) /\ Len(<<e>>) = 1 /\ <<e>>[1] = e
  OBVIOUS
<1> HIDE DEF a, b
<1>5. /\ a \o <<e>> \in Seq(S) /\ Len(a \o <<e>>) = i
      /\ \A j \in 1 .. i : (a \o <<e>>)[j] = IF j < i THEN s[j] ELSE e
  BY <1>1, <1>2, <1>4, ConcatProperties
<1>6. /\ (a \o <<e>>) \o b \in Seq(S)
      /\ Len((a \o <<e>>) \o b) = Len(s) + 1
      /\ \A j \in 1 .. Len(s) + 1 :
           ((a \o <<e>>) \o b)[j] = IF j < i THEN s[j]
                                    ELSE IF j = i THEN e ELSE s[j - 1]
  <2> DEFINE c == a \o <<e>>
  <2>1. c \in Seq(S) /\ Len(c) = i
        /\ \A j \in 1 .. i : c[j] = IF j < i THEN s[j] ELSE e
    BY <1>5
  <2> HIDE DEF c
  <2>2. /\ c \o b \in Seq(S)
        /\ Len(c \o b) = Len(c) + Len(b)
        /\ \A j \in 1 .. Len(c) + Len(b) :
             (c \o b)[j] = IF j <= Len(c) THEN c[j] ELSE b[j - Len(c)]
    BY <2>1, <1>3, ConcatProperties
  <2>3. Len(c) + Len(b) = Len(s) + 1
    BY <1>1, <1>3, <2>1
  <2>4. ASSUME NEW j \in 1 .. Len(s) + 1
        PROVE  (c \o b)[j] = IF j < i THEN s[j]
                              ELSE IF j = i THEN e ELSE s[j - 1]
    <3>1. CASE j <= i
      BY <3>1, <1>1, <2>1, <2>2, <2>3
    <3>2. CASE j > i
      <4>1. (c \o b)[j] = b[j - i]
        BY <3>2, <1>1, <2>1, <2>2, <2>3
      <4>2. j - i \in 1 .. Len(s) - i + 1
        BY <3>2, <1>1
      <4>3. b[j - i] = s[i + (j - i) - 1]
        BY <4>2, <1>3
      <4>4. i + (j - i) - 1 = j - 1
        BY <1>1
      <4> QED BY <3>2, <4>1, <4>3, <4>4, <1>1
    <3>3. j <= i \/ j > i
      BY <1>1
    <3> QED BY <3>1, <3>2, <3>3
  <2> QED BY <2>2, <2>3, <2>4 DEF c
<1>7. t = (a \o <<e>>) \o b
  BY DEF InsertAt, a, b
<1> QED BY <1>6, <1>7 DEF Inserted

(* The same, as facts of InsertAt.                                         *)
LEMMA InsertAtFacts ==
  ASSUME NEW S, NEW s \in Seq(S), NEW e \in S, NEW i \in 1 .. Len(s) + 1
  PROVE  /\ InsertAt(s, i, e) \in Seq(S)
         /\ Len(InsertAt(s, i, e)) = Len(s) + 1
         /\ \A j \in 1 .. Len(s) + 1 :
              InsertAt(s, i, e)[j] = IF j < i THEN s[j]
                                     ELSE IF j = i THEN e ELSE s[j - 1]
<1> DEFINE t == InsertAt(s, i, e)
<1>1. Inserted(S, s, i, e, t)
  BY InsertAtInserts
<1> HIDE DEF t
<1>2. /\ t \in Seq(S) /\ Len(t) = Len(s) + 1
      /\ \A j \in 1 .. Len(s) + 1 : t[j] = IF j < i THEN s[j]
                                          ELSE IF j = i THEN e ELSE s[j - 1]
  BY <1>1 DEF Inserted
<1> QED BY <1>2 DEF t

(* An append is an insertion at the end. *)
LEMMA AppendIsInsert ==
  ASSUME NEW S, NEW s \in Seq(S), NEW r \in S
  PROVE  /\ Append(s, r) = InsertAt(s, Len(s) + 1, r)
         /\ Len(s) + 1 \in 1 .. Len(s) + 1
<1>1. Len(s) \in Nat /\ Len(s) + 1 \in 1 .. Len(s) + 1
  BY LenProperties
<1>2. /\ InsertAt(s, Len(s) + 1, r) \in Seq(S)
      /\ Len(InsertAt(s, Len(s) + 1, r)) = Len(s) + 1
      /\ \A j \in 1 .. Len(s) + 1 : InsertAt(s, Len(s) + 1, r)[j]
                                     = IF j <= Len(s) THEN s[j] ELSE r
  <2> DEFINE q == Len(s) + 1
             t == InsertAt(s, q, r)
  <2>1. q \in 1 .. Len(s) + 1
    BY <1>1
  <2> HIDE DEF q
  <2>2. Inserted(S, s, q, r, t)
    BY <2>1, InsertAtInserts
  <2> HIDE DEF t
  <2>3. /\ t \in Seq(S) /\ Len(t) = Len(s) + 1
        /\ \A j \in 1 .. Len(s) + 1 : t[j] = IF j <= Len(s) THEN s[j] ELSE r
    BY <1>1, <2>2 DEF Inserted, q
  <2> QED BY <2>3 DEF t, q
<1>3. /\ Append(s, r) \in Seq(S)
      /\ Len(Append(s, r)) = Len(s) + 1
      /\ \A j \in 1 .. Len(s) + 1 : Append(s, r)[j]
                                     = IF j <= Len(s) THEN s[j] ELSE r
  BY <1>1, AppendProperties
<1>4. \A j \in 1 .. Len(Append(s, r)) :
        Append(s, r)[j] = InsertAt(s, Len(s) + 1, r)[j]
  BY <1>2, <1>3
<1>5. Append(s, r) = InsertAt(s, Len(s) + 1, r)
  BY <1>2, <1>3, <1>4, SeqEqual
<1> QED BY <1>1, <1>5

(* Removing position i closes the gap: a rule deleted from a chain.        *)
LEMMA RemoveAtFacts ==
  ASSUME NEW S, NEW s \in Seq(S), NEW i \in 1 .. Len(s)
  PROVE  /\ RemoveAt(s, i) \in Seq(S)
         /\ Len(RemoveAt(s, i)) = Len(s) - 1
         /\ \A j \in 1 .. Len(s) - 1 :
              RemoveAt(s, i)[j] = IF j < i THEN s[j] ELSE s[j + 1]
<1> DEFINE a == SubSeq(s, 1, i - 1)
           b == SubSeq(s, i + 1, Len(s))
<1>1. /\ Len(s) \in Nat
      /\ \A j \in 1 .. Len(s) : s[j] \in S
  BY ElementOfSeq, LenProperties
<1>2. /\ a \in Seq(S) /\ Len(a) = i - 1
      /\ \A j \in 1 .. i - 1 : a[j] = s[j]
  <2>1. i - 1 \in Int /\ \A j \in 1 .. i - 1 : s[j] \in S
    BY <1>1
  <2> QED BY <2>1, <1>1, SubSeqProperties
<1>3. /\ b \in Seq(S) /\ Len(b) = Len(s) - i
      /\ \A j \in 1 .. Len(s) - i : b[j] = s[i + j]
  <2>1. i + 1 \in Int /\ \A j \in i + 1 .. Len(s) : s[j] \in S
    BY <1>1
  <2> QED BY <2>1, <1>1, SubSeqProperties
<1> HIDE DEF a, b
<1>4. /\ a \o b \in Seq(S) /\ Len(a \o b) = Len(s) - 1
      /\ \A j \in 1 .. Len(s) - 1 :
           (a \o b)[j] = IF j < i THEN s[j] ELSE s[j + 1]
  <2>1. /\ a \o b \in Seq(S)
        /\ Len(a \o b) = Len(a) + Len(b)
        /\ \A j \in 1 .. Len(a) + Len(b) :
             (a \o b)[j] = IF j <= Len(a) THEN a[j] ELSE b[j - Len(a)]
    BY <1>2, <1>3, ConcatProperties
  <2>2. Len(a) + Len(b) = Len(s) - 1
    BY <1>1, <1>2, <1>3
  <2>3. ASSUME NEW j \in 1 .. Len(s) - 1
        PROVE  (a \o b)[j] = IF j < i THEN s[j] ELSE s[j + 1]
    <3>1. CASE j < i
      BY <3>1, <1>1, <1>2, <2>1, <2>2
    <3>2. CASE j >= i
      <4>1. (a \o b)[j] = b[j - i + 1]
        <5>1. ~(j <= Len(a)) /\ j - Len(a) = j - i + 1
          BY <3>2, <1>1, <1>2
        <5> QED BY <5>1, <2>1, <2>2
      <4>2. j - i + 1 \in 1 .. Len(s) - i
        BY <3>2, <1>1
      <4>3. b[j - i + 1] = s[i + (j - i + 1)]
        BY <4>2, <1>3
      <4>4. i + (j - i + 1) = j + 1
        BY <1>1
      <4> QED BY <3>2, <4>1, <4>3, <4>4, <1>1
    <3>3. j < i \/ j >= i
      BY <1>1
    <3> QED BY <3>1, <3>2, <3>3
  <2> QED BY <2>1, <2>2, <2>3
<1> QED BY <1>4 DEF RemoveAt, a, b

-----------------------------------------------------------------------------

(* How many of the positions I are not after i. *)
Rank(I, i) == Cardinality({k \in I : k <= i})

(* Of positions in a list of length L, the later has the higher rank.     *)
LEMMA RankFacts ==
  ASSUME NEW L \in Nat, NEW I \in SUBSET (1 .. L)
  PROVE  /\ IsFiniteSet(I) /\ Cardinality(I) \in 0 .. L
         /\ \A i \in I : Rank(I, i) \in 1 .. Cardinality(I)
         /\ \A i, j \in I : i < j => Rank(I, i) < Rank(I, j)
<1>1. /\ IsFiniteSet(I) /\ Cardinality(I) \in Nat /\ Cardinality(I) <= L
  <2>1. IsFiniteSet(1 .. L) /\ Cardinality(1 .. L) = L
    BY FS_Interval
  <2> QED BY <2>1, FS_Subset, FS_CardinalityType
<1>2. ASSUME NEW T \in SUBSET I
      PROVE  /\ IsFiniteSet(T) /\ Cardinality(T) \in Nat
             /\ Cardinality(T) <= Cardinality(I)
  BY <1>1, <1>2, FS_Subset, FS_CardinalityType
<1>3. ASSUME NEW i \in I PROVE Rank(I, i) \in 1 .. Cardinality(I)
  <2> DEFINE T == {k \in I : k <= i}
  <2>1. /\ T \in SUBSET I /\ i \in T
    OBVIOUS
  <2>2. Cardinality(T) # 0
    BY <2>1, <1>2, FS_EmptySet
  <2> QED BY <2>1, <2>2, <1>1, <1>2 DEF Rank
<1>4. ASSUME NEW i \in I, NEW j \in I, i < j
      PROVE  Rank(I, i) < Rank(I, j)
  <2> DEFINE T == {k \in I : k <= i}
             U == {k \in I : k <= j}
  <2>0. I \subseteq Nat /\ i \in Nat /\ j \in Nat
    OBVIOUS
  <2>1. /\ T \in SUBSET U /\ U \in SUBSET I /\ T \in SUBSET I
        /\ j \in U /\ j \notin T
    <3>1. \A k \in I : k <= i => k <= j
      BY <2>0, <1>4
    <3>2. j <= j /\ ~(j <= i)
      BY <2>0, <1>4
    <3> QED BY <3>1, <3>2
  <2> HIDE DEF T, U
  <2>2. /\ IsFiniteSet(U) /\ Cardinality(T) \in Nat /\ Cardinality(U) \in Nat
    BY <2>1, <1>2
  <2>3. Cardinality(T) <= Cardinality(U) /\ Cardinality(T) # Cardinality(U)
    BY <2>1, <2>2, FS_Subset
  <2>4. Cardinality(T) < Cardinality(U)
    BY <2>2, <2>3
  <2> QED BY <2>4 DEF Rank, T, U
<1> QED BY <1>1, <1>3, <1>4

(* There is an n-th position for each n up to their number, so Nth, which  *)
(* Kept counts with, chooses one.                                          *)
LEMMA NthFacts ==
  ASSUME NEW L \in Nat, NEW I \in SUBSET (1 .. L), NEW n \in 1 .. Cardinality(I)
  PROVE  Nth(I, n) \in I /\ Rank(I, Nth(I, n)) = n
<1> DEFINE C == 1 .. Cardinality(I)
           f == [i \in I |-> Rank(I, i)]
<1>1. /\ IsFiniteSet(I) /\ Cardinality(I) \in Nat
      /\ f \in [I -> C]
  BY RankFacts
<1>2. \A i, j \in I : f[i] = f[j] => i = j
  <2>1. ASSUME NEW i \in I, NEW j \in I, f[i] = f[j] PROVE i = j
    <3>1. /\ i \in Int /\ j \in Int
          /\ Rank(I, i) \in Int /\ Rank(I, i) = Rank(I, j)
      BY <2>1, RankFacts, <1>1
    <3>2. /\ i < j => Rank(I, i) < Rank(I, j)
          /\ j < i => Rank(I, j) < Rank(I, i)
      BY RankFacts
    <3>3. ~(i < j) /\ ~(j < i)
      BY <3>1, <3>2
    <3> QED BY <3>1, <3>3
  <2> QED BY <2>1
<1>3. f \in Injection(I, C)
  BY <1>1, <1>2 DEF Injection, IsInjective
<1>4. IsFiniteSet(C) /\ Cardinality(C) = Cardinality(I)
  BY <1>1, FS_Interval
<1>5. f \in Surjection(I, C)
  BY <1>1, <1>3, <1>4, FS_Injection
<1>6. \E i \in I : f[i] = n
  BY <1>5 DEF Surjection
<1> QED BY <1>6 DEF Nth, Rank

(* What is kept of a sequence is a sequence of some of its elements: the   *)
(* rules that a filter shows are rules of the list.                        *)
LEMMA KeptFacts ==
  ASSUME NEW S, NEW s \in Seq(S), NEW I \in SUBSET (1 .. Len(s))
  PROVE  /\ Kept(s, I) \in Seq(S)
         /\ Len(Kept(s, I)) = Cardinality(I)
         /\ Len(Kept(s, I)) \in 0 .. Len(s)
         /\ \A n \in 1 .. Len(Kept(s, I)) : \E i \in I : Kept(s, I)[n] = s[i]
<1>1. Len(s) \in Nat /\ \A i \in 1 .. Len(s) : s[i] \in S
  BY ElementOfSeq, LenProperties
<1>2. Cardinality(I) \in Nat /\ Cardinality(I) \in 0 .. Len(s)
  BY <1>1, RankFacts
<1>3. \A n \in 1 .. Cardinality(I) : Nth(I, n) \in I /\ s[Nth(I, n)] \in S
  BY <1>1, NthFacts
<1>4. Kept(s, I) \in [1 .. Cardinality(I) -> S]
  BY <1>3 DEF Kept
<1>5. Kept(s, I) \in Seq(S) /\ Len(Kept(s, I)) = Cardinality(I)
  BY <1>2, <1>4, IsASeq
<1> QED BY <1>2, <1>3, <1>5 DEF Kept

(* To keep all positions but one is to remove that one: the rules that a  *)
(* ledger calls the others are what DelRule leaves.                        *)
LEMMA KeptAllButOne ==
  ASSUME NEW S, NEW s \in Seq(S), NEW i \in 1 .. Len(s)
  PROVE  Kept(s, 1 .. Len(s) \ {i}) = RemoveAt(s, i)
<1> DEFINE I == 1 .. Len(s) \ {i}
<1>1. /\ Len(s) \in Nat /\ I \in SUBSET (1 .. Len(s))
  BY LenProperties
<1>2. IsFiniteSet(1 .. Len(s)) /\ Cardinality(1 .. Len(s)) = Len(s)
  BY <1>1, FS_Interval
<1>3. Cardinality(I) = Len(s) - 1
  BY <1>2, FS_RemoveElement
<1>4. ASSUME NEW n \in 1 .. Len(s) - 1
      PROVE  Nth(I, n) = IF n < i THEN n ELSE n + 1
  <2> DEFINE k == Nth(I, n)
  <2>1. k \in I /\ Rank(I, k) = n
    BY <1>1, <1>3, NthFacts
  <2> HIDE DEF k
  <2>2. k \in 1 .. Len(s) /\ k # i /\ k \in Nat
    BY <2>1
  <2>3. CASE k < i
    <3>1. {j \in I : j <= k} = 1 .. k
      BY <2>2, <2>3, <1>1
    <3>2. Cardinality(1 .. k) = k
      <4>1. Cardinality(1 .. k) = IF 1 > k THEN 0 ELSE k - 1 + 1
        BY <2>2, FS_Interval
      <4> QED BY <4>1, <2>2
    <3>3. n = k
      BY <3>1, <3>2, <2>1 DEF Rank
    <3> QED BY <3>3, <2>3 DEF k
  <2>4. CASE k > i
    <3>1. {j \in I : j <= k} = 1 .. k \ {i}
      BY <2>2, <2>4, <1>1
    <3>2. IsFiniteSet(1 .. k) /\ Cardinality(1 .. k) = k /\ i \in 1 .. k
      <4>1. /\ IsFiniteSet(1 .. k)
            /\ Cardinality(1 .. k) = IF 1 > k THEN 0 ELSE k - 1 + 1
        BY <2>2, FS_Interval
      <4> QED BY <4>1, <2>2, <2>4
    <3>3. Cardinality(1 .. k \ {i}) = k - 1
      BY <3>2, FS_RemoveElement
    <3>4. n = k - 1
      BY <3>1, <3>3, <2>1 DEF Rank
    <3> QED BY <3>4, <2>4, <2>2 DEF k
  <2>5. k < i \/ k > i
    BY <2>2
  <2> QED BY <2>3, <2>4, <2>5
<1> HIDE DEF I
<1>5. /\ Kept(s, I) \in Seq(S) /\ Len(Kept(s, I)) = Len(s) - 1
      /\ \A n \in 1 .. Len(s) - 1 :
           Kept(s, I)[n] = IF n < i THEN s[n] ELSE s[n + 1]
  BY <1>1, <1>3, <1>4, KeptFacts DEF Kept
<1>6. /\ RemoveAt(s, i) \in Seq(S) /\ Len(RemoveAt(s, i)) = Len(s) - 1
      /\ \A n \in 1 .. Len(s) - 1 :
           RemoveAt(s, i)[n] = IF n < i THEN s[n] ELSE s[n + 1]
  BY RemoveAtFacts
<1>7. \A n \in 1 .. Len(Kept(s, I)) : Kept(s, I)[n] = RemoveAt(s, i)[n]
  BY <1>5, <1>6
<1> QED BY <1>5, <1>6, <1>7, SeqEqual DEF I

-----------------------------------------------------------------------------
(* Lists of rules with a handle and an id, as KernelChain has them.        *)

(* The list s has the rule x under the handle h. *)
Holds(s, h, x) == \E i \in DOMAIN s : s[i].handle = h /\ s[i].id = x

(* The list has no two rules with one id or one handle. *)
Distinct(s) ==
  \A i, j \in DOMAIN s :
    s[i].id = s[j].id \/ s[i].handle = s[j].handle => i = j

(* Find locates a rule that is there. *)
LEMMA FindFacts ==
  ASSUME NEW S, NEW s \in Seq(S), NEW h, Has(s, h)
  PROVE  /\ Len(s) \in Nat
         /\ DOMAIN s = 1 .. Len(s)
         /\ Find(s, h) \in 1 .. Len(s)
         /\ s[Find(s, h)] \in S
         /\ s[Find(s, h)].handle = h
<1>1. Len(s) \in Nat /\ DOMAIN s = 1 .. Len(s)
  BY LenProperties
<1>2. Find(s, h) \in DOMAIN s /\ s[Find(s, h)].handle = h
  BY DEF Has, Find
<1> QED BY <1>1, <1>2, ElementOfSeq

(* Rules come into a list by being inserted, and in no other way.          *)
LEMMA InsertHolds ==
  ASSUME NEW S, NEW s \in Seq(S), NEW i \in 1 .. Len(s) + 1, NEW r \in S,
         NEW h, NEW x, Holds(InsertAt(s, i, r), h, x)
  PROVE  Holds(s, h, x) \/ (h = r.handle /\ x = r.id)
<1> DEFINE t == InsertAt(s, i, r)
<1>1. /\ Len(s) \in Nat /\ DOMAIN s = 1 .. Len(s)
      /\ DOMAIN t = 1 .. Len(s) + 1
  BY InsertAtFacts, LenProperties
<1>2. PICK j \in 1 .. Len(s) + 1 : t[j].handle = h /\ t[j].id = x
  BY <1>1 DEF Holds
<1>3. t[j] = IF j < i THEN s[j] ELSE IF j = i THEN r ELSE s[j - 1]
  BY InsertAtFacts
<1> HIDE DEF t
<1>4. CASE j < i
  <2>1. j \in DOMAIN s /\ t[j] = s[j]
    BY <1>1, <1>3, <1>4
  <2> QED BY <2>1, <1>2 DEF Holds
<1>5. CASE j = i
  BY <1>2, <1>3, <1>5
<1>6. CASE j > i
  <2>1. j - 1 \in DOMAIN s /\ t[j] = s[j - 1]
    BY <1>1, <1>3, <1>6
  <2> QED BY <2>1, <1>2 DEF Holds
<1>7. j < i \/ j = i \/ j > i
  BY <1>1
<1> QED BY <1>4, <1>5, <1>6, <1>7

(* A list that lost an element mentions no pair that it did not mention    *)
(* before.                                                                 *)
LEMMA RemoveHolds ==
  ASSUME NEW S, NEW s \in Seq(S), NEW i \in 1 .. Len(s),
         NEW h, NEW x, Holds(RemoveAt(s, i), h, x)
  PROVE  Holds(s, h, x)
<1> DEFINE t == RemoveAt(s, i)
<1>1. /\ Len(s) \in Nat /\ DOMAIN s = 1 .. Len(s)
      /\ DOMAIN t = 1 .. Len(s) - 1
  BY RemoveAtFacts, LenProperties
<1>2. PICK j \in 1 .. Len(s) - 1 : t[j].handle = h /\ t[j].id = x
  BY <1>1 DEF Holds
<1>3. t[j] = IF j < i THEN s[j] ELSE s[j + 1]
  BY RemoveAtFacts
<1> HIDE DEF t
<1>4. j \in DOMAIN s /\ j + 1 \in DOMAIN s
  BY <1>1
<1> QED BY <1>2, <1>3, <1>4 DEF Holds

(* A list without doubles stays one when a rule it has not got comes in,   *)
(* and when one goes out; the one that went out is then nowhere in it.     *)
LEMMA InsertDistinct ==
  ASSUME NEW S, NEW s \in Seq(S), NEW i \in 1 .. Len(s) + 1, NEW r \in S,
         Distinct(s),
         \A j \in DOMAIN s : s[j].id # r.id /\ s[j].handle # r.handle
  PROVE  Distinct(InsertAt(s, i, r))
<1> DEFINE t == InsertAt(s, i, r)
<1>1. /\ Len(s) \in Nat /\ DOMAIN s = 1 .. Len(s)
      /\ DOMAIN t = 1 .. Len(s) + 1
  BY InsertAtFacts, LenProperties
<1>2. \A j \in 1 .. Len(s) + 1 :
        t[j] = IF j < i THEN s[j] ELSE IF j = i THEN r ELSE s[j - 1]
  BY InsertAtFacts
<1> HIDE DEF t
<1> DEFINE At(j) == IF j < i THEN j ELSE j - 1
<1>3. \A j \in 1 .. Len(s) + 1 :
        j # i => At(j) \in DOMAIN s /\ t[j] = s[At(j)]
  BY <1>1, <1>2
<1>4. \A j, k \in 1 .. Len(s) + 1 :
        j # i /\ k # i /\ At(j) = At(k) => j = k
  BY <1>1
<1> HIDE DEF At
<1>5. t[i] = r
  BY <1>1, <1>2
<1>6. ASSUME NEW j \in DOMAIN t, NEW k \in DOMAIN t,
             t[j].id = t[k].id \/ t[j].handle = t[k].handle
      PROVE  j = k
  <2>1. CASE j # i /\ k # i
    BY <2>1, <1>1, <1>3, <1>4, <1>6 DEF Distinct
  <2>2. CASE j = i /\ k # i
    BY <2>2, <1>1, <1>3, <1>5, <1>6
  <2>3. CASE j # i /\ k = i
    BY <2>3, <1>1, <1>3, <1>5, <1>6
  <2> QED BY <2>1, <2>2, <2>3
<1> QED BY <1>6 DEF Distinct, t

(* A list without doubles that lost an element has no doubles, and neither *)
(* the identity nor the handle of that element is left in it.              *)
LEMMA RemoveDistinct ==
  ASSUME NEW S, NEW s \in Seq(S), NEW i \in 1 .. Len(s), Distinct(s)
  PROVE  /\ Distinct(RemoveAt(s, i))
         /\ \A j \in DOMAIN RemoveAt(s, i) :
              /\ RemoveAt(s, i)[j].id # s[i].id
              /\ RemoveAt(s, i)[j].handle # s[i].handle
<1> DEFINE t == RemoveAt(s, i)
           At(j) == IF j < i THEN j ELSE j + 1
<1>1. /\ Len(s) \in Nat /\ DOMAIN s = 1 .. Len(s)
      /\ DOMAIN t = 1 .. Len(s) - 1
  BY RemoveAtFacts, LenProperties
<1>2. \A j \in 1 .. Len(s) - 1 : t[j] = s[At(j)]
  BY RemoveAtFacts
<1> HIDE DEF t
<1>3. \A j \in DOMAIN t : At(j) \in DOMAIN s /\ At(j) # i
  BY <1>1
<1>4. \A j, k \in DOMAIN t : At(j) = At(k) => j = k
  BY <1>1
<1> HIDE DEF At
<1>5. ASSUME NEW j \in DOMAIN t, NEW k \in DOMAIN t,
             t[j].id = t[k].id \/ t[j].handle = t[k].handle
      PROVE  j = k
  <2>1. At(j) = At(k)
    BY <1>1, <1>2, <1>3, <1>5 DEF Distinct
  <2> QED BY <2>1, <1>4
<1>6. \A j \in DOMAIN t : t[j].id # s[i].id /\ t[j].handle # s[i].handle
  BY <1>1, <1>2, <1>3 DEF Distinct
<1> QED BY <1>5, <1>6 DEF Distinct, t
=============================================================================
