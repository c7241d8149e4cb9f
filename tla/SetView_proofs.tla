--------------------------- MODULE SetView_proofs ----------------------------
(***************************************************************************)
(* Proofs about SetView, for key spaces of any size, and any number of     *)
(* commands and other programs.                                            *)
(***************************************************************************)
EXTENDS SetView, SeqLemmas, WellFoundedInduction

-----------------------------------------------------------------------------
(* Numbers. *)

(* Min is it.                                                              *)
LEMMA MinIsLeast ==
  ASSUME NEW T, T \subseteq Nat, T # {}
  PROVE  Min(T) \in T /\ \A y \in T : Min(T) <= y
BY LeastNumber DEF Min

(* Numbers up to a bound have a greatest, which is Max.                    *)
LEMMA MaxIsGreatest ==
  ASSUME NEW m \in Nat, NEW T, T \subseteq 1 .. m, T # {}
  PROVE  Max(T) \in T /\ \A y \in T : y <= Max(T)
<1> DEFINE U == {m - x : x \in T}
<1>1. U \subseteq Nat /\ U # {}
  <2>1. \A x \in T : m - x \in Nat
    OBVIOUS
  <2> QED BY <2>1
<1>2. PICK u \in U : \A v \in U : u <= v
  BY <1>1, LeastNumber
<1>3. PICK x \in T : u = m - x
  OBVIOUS
<1>4. \A y \in T : y <= x
  <2> TAKE y \in T
  <2>1. m - x <= m - y
    BY <1>2, <1>3
  <2> QED BY <2>1
<1> QED BY <1>4 DEF Max

-----------------------------------------------------------------------------
(* From elements to rows. *)

(* A list of the elements of a set: each once, in the order of their keys. *)
Listing(elems, es) ==
  /\ es \in Seq(Element)
  /\ \A n \in 1 .. Len(es) : es[n] \in elems
  /\ \A e \in elems : \E n \in 1 .. Len(es) : es[n] = e
  /\ \A i, j \in 1 .. Len(es) : i < j => es[i].key <= es[j].key /\ es[i] # es[j]

(* All elements are in their list.                                         *)
LEMMA AllInOrder ==
  ASSUME NEW first \in BOOLEAN
  PROVE  /\ InOrder(first) \in Seq(Element)
         /\ Len(InOrder(first)) = 2 * KeySpace
         /\ \A e \in Element : \E p \in 1 .. 2 * KeySpace : InOrder(first)[p] = e
         /\ \A p, q \in 1 .. 2 * KeySpace : p < q =>
              /\ InOrder(first)[p].key <= InOrder(first)[q].key
              /\ InOrder(first)[p] # InOrder(first)[q]
<1> DEFINE s == InOrder(first)
           At(p) == [key |-> (p - 1) \div 2, end |-> (p % 2 = 0) = first]
<1>1. KeySpace \in Nat \ {0}
  BY SetViewAssumption
<1>2. ASSUME NEW p \in 1 .. 2 * KeySpace
      PROVE  /\ At(p) \in Element
             /\ (p - 1) \div 2 \in Int /\ p % 2 \in {0, 1}
             /\ p = 2 * ((p - 1) \div 2) + (IF p % 2 = 0 THEN 2 ELSE 1)
  <2>1. (p - 1) \div 2 \in 0 .. KeySpace - 1
    BY <1>1
  <2>2. p % 2 \in {0, 1} /\ p = 2 * ((p - 1) \div 2) + (IF p % 2 = 0 THEN 2 ELSE 1)
    BY <1>1
  <2> QED BY <2>1, <2>2 DEF Element, Key
<1>3. s = [p \in 1 .. 2 * KeySpace |-> At(p)]
  BY DEF InOrder
<1>4. s \in Seq(Element) /\ Len(s) = 2 * KeySpace
  BY <1>1, <1>2, <1>3, IsASeq
<1>5. ASSUME NEW e \in Element
      PROVE  \E p \in 1 .. 2 * KeySpace : s[p] = e
  <2> DEFINE p == 2 * e.key + (IF e.end = first THEN 2 ELSE 1)
  <2>1. e.key \in 0 .. KeySpace - 1 /\ e.end \in BOOLEAN
    BY DEF Element, Key
  <2>2. p \in 1 .. 2 * KeySpace /\ (p - 1) \div 2 = e.key
        /\ (p % 2 = 0 <=> e.end = first)
    BY <1>1, <2>1
  <2>3. At(p) = [key |-> e.key, end |-> e.end]
    BY <2>1, <2>2
  <2>4. e = [key |-> e.key, end |-> e.end]
    BY DEF Element
  <2> QED BY <1>3, <2>2, <2>3, <2>4
<1>6. ASSUME NEW p \in 1 .. 2 * KeySpace, NEW q \in 1 .. 2 * KeySpace, p < q
      PROVE  s[p].key <= s[q].key /\ s[p] # s[q]
  <2>1. (p - 1) \div 2 <= (q - 1) \div 2
    BY <1>1, <1>6
  <2>2. (p - 1) \div 2 = (q - 1) \div 2 => p % 2 # q % 2 /\ p % 2 \in {0, 1} /\ q % 2 \in {0, 1}
    BY <1>1, <1>6
  <2>3. At(p) # At(q)
    BY <2>2
  <2> QED BY <2>1, <2>3, <1>3
<1> QED BY <1>4, <1>5, <1>6

(* What is there of them makes the sorted list of a reading.               *)
LEMMA SortedIsListing ==
  ASSUME NEW elems \in SUBSET Element, NEW first \in BOOLEAN
  PROVE  Listing(elems, Sorted(elems, first))
<1> DEFINE s == InOrder(first)
           L == 2 * KeySpace
           I == {p \in 1 .. L : s[p] \in elems}
           es == Kept(s, I)
<1>1. /\ L \in Nat /\ s \in Seq(Element) /\ Len(s) = L /\ I \in SUBSET (1 .. L)
  BY SetViewAssumption, AllInOrder
<1>2. es = Sorted(elems, first)
  BY DEF Sorted
<1>3. es \in Seq(Element) /\ Len(es) = Cardinality(I) /\ Len(es) \in Nat
      /\ \A n \in 1 .. Len(es) : es[n] = s[Nth(I, n)]
  <2>1. es \in Seq(Element) /\ Len(es) = Cardinality(I) /\ Len(es) \in 0 .. Len(s)
    BY <1>1, KeptFacts
  <2>2. Len(es) \in Nat
    BY <1>1, <2>1
  <2>3. \A n \in 1 .. Cardinality(I) : es[n] = s[Nth(I, n)]
    BY DEF Kept
  <2> QED BY <2>1, <2>2, <2>3
<1>4. ASSUME NEW n \in 1 .. Len(es)
      PROVE  Nth(I, n) \in I /\ Rank(I, Nth(I, n)) = n
  BY <1>1, <1>3, NthFacts
<1>5. ASSUME NEW e \in elems
      PROVE  \E n \in 1 .. Len(es) : es[n] = e
  <2>1. PICK p \in 1 .. L : s[p] = e
    BY AllInOrder
  <2>2. p \in I /\ Rank(I, p) \in 1 .. Len(es)
    BY <2>1, <1>1, <1>3, RankFacts
  <2>3. Nth(I, Rank(I, p)) = p
    <3> DEFINE q == Nth(I, Rank(I, p))
    <3>1. q \in I /\ Rank(I, q) = Rank(I, p)
      BY <2>2, <1>4
    <3>2. /\ q < p => Rank(I, q) < Rank(I, p)
          /\ p < q => Rank(I, p) < Rank(I, q)
      BY <1>1, <2>2, <3>1, RankFacts
    <3>3. p \in Int /\ q \in Int /\ Rank(I, p) \in Int
      BY <1>1, <1>3, <2>2, <3>1
    <3> HIDE DEF q, I
    <3>4. ~(q < p) /\ ~(p < q)
      BY <3>1, <3>2, <3>3
    <3> QED BY <3>3, <3>4 DEF q
  <2> QED BY <2>1, <2>2, <2>3, <1>3
<1>6. ASSUME NEW i \in 1 .. Len(es), NEW j \in 1 .. Len(es), i < j
      PROVE  es[i].key <= es[j].key /\ es[i] # es[j]
  <2> DEFINE p == Nth(I, i)
             q == Nth(I, j)
  <2>1. p \in I /\ q \in I /\ Rank(I, p) = i /\ Rank(I, q) = j
    BY <1>4
  <2>2. q < p => Rank(I, q) < Rank(I, p)
    BY <1>1, <2>1, RankFacts
  <2>3. es[i] = s[p] /\ es[j] = s[q]
    BY <1>3
  <2> HIDE DEF p, q
  <2>4. p < q
    BY <2>1, <2>2, <1>1, <1>3, <1>6
  <2>5. s[p].key <= s[q].key /\ s[p] # s[q]
    BY <2>1, <2>4, <1>1, AllInOrder
  <2> QED BY <2>3, <2>5
<1>7. ASSUME NEW n \in 1 .. Len(es) PROVE es[n] \in elems
  BY <1>3, <1>4
<1> HIDE DEF es
<1> QED BY <1>2, <1>3, <1>5, <1>6, <1>7 DEF Listing
(* The pairing goes through the list one element at a time: f[k] is what   *)
(* the first k elements have become.                                       *)
Pairs(f, es) ==
  /\ f[0] = << >>
  /\ \A k \in 1 .. Len(es) : f[k] = FoldMarker(f[k - 1], es[k])

(* So it does.                                                             *)
LEMMA PairingIsStepwise ==
  ASSUME NEW es \in Seq(Element)
  PROVE  \E f : Pairs(f, es) /\ pairIntervalElements(es) = f[Len(es)]
<1> DEFINE n == Len(es)
           Step(g, s) == IF s = {} THEN << >>
                         ELSE FoldMarker(g[s \ {Max(s)}], es[Max(s)])
           G == {m \in 0 .. n : \E g : g = [s \in SUBSET (1 .. m) |-> Step(g, s)]}
           it == CHOOSE g : g = [s \in SUBSET (1 .. n) |-> Step(g, s)]
<1>1. n \in Nat /\ DOMAIN es = 1 .. n
  BY LenProperties
<1>2. pairIntervalElements(es) = it[1 .. n]
  BY <1>1 DEF pairIntervalElements, FoldLeft, MapThenFoldSet
<1>3. 0 \in G
  <2>1. SUBSET (1 .. 0) = {{}}
    OBVIOUS
  <2> DEFINE g == [s \in SUBSET (1 .. 0) |-> << >>]
  <2>2. g = [s \in SUBSET (1 .. 0) |-> Step(g, s)]
    BY <2>1
  <2> QED BY <1>1, <2>2
<1>4. ASSUME NEW m \in 0 .. n - 1, m \in G
      PROVE  m + 1 \in G
  <2>1. PICK g : g = [s \in SUBSET (1 .. m) |-> Step(g, s)]
    BY <1>4
  <2> DEFINE h == [s \in SUBSET (1 .. m + 1) |->
                     IF m + 1 \in s THEN FoldMarker(g[s \ {m + 1}], es[m + 1])
                     ELSE g[s]]
  <2>2. \A s \in SUBSET (1 .. m) : s \in SUBSET (1 .. m + 1) /\ h[s] = g[s]
    BY <1>1
  <2>3. ASSUME NEW s \in SUBSET (1 .. m + 1)
        PROVE  h[s] = Step(h, s)
    <3>1. CASE m + 1 \in s
      <4>1. Max(s) = m + 1
        <5>1. m + 1 \in Nat /\ s \subseteq 1 .. m + 1 /\ s # {}
          BY <3>1, <1>1
        <5>2. Max(s) \in s /\ m + 1 <= Max(s)
          BY <3>1, <5>1, MaxIsGreatest
        <5>3. Max(s) \in 1 .. m + 1
          BY <5>1, <5>2
        <5> QED BY <5>1, <5>2, <5>3
      <4>2. s \ {m + 1} \in SUBSET (1 .. m)
        BY <1>1
      <4>3. h[s \ {m + 1}] = g[s \ {m + 1}]
        BY <4>2, <2>2
      <4> QED BY <3>1, <4>1, <4>3
    <3>2. CASE m + 1 \notin s
      <4>1. s \in SUBSET (1 .. m)
        BY <3>2, <1>1
      <4>2. h[s] = g[s] /\ g[s] = Step(g, s)
        BY <4>1, <2>1, <2>2
      <4>3. ASSUME s # {} PROVE h[s \ {Max(s)}] = g[s \ {Max(s)}]
        <5>1. s \ {Max(s)} \in SUBSET (1 .. m)
          BY <4>1
        <5> QED BY <5>1, <2>2
      <4> QED BY <4>2, <4>3
    <3> QED BY <3>1, <3>2
  <2>4. DOMAIN h = SUBSET (1 .. m + 1)
    OBVIOUS
  <2>5. h = [s \in SUBSET (1 .. m + 1) |-> h[s]]
    OBVIOUS
  <2> HIDE DEF h
  <2>6. h = [s \in SUBSET (1 .. m + 1) |-> Step(h, s)]
    BY <2>3, <2>5
  <2>7. m + 1 \in 0 .. n
    BY <1>1
  <2>8. \E j : j = [s \in SUBSET (1 .. m + 1) |-> Step(j, s)]
    BY <2>6
  <2> QED BY <2>7, <2>8
<1>5. n \in G
  <2> HIDE DEF G
  <2>1. 0 .. n \subseteq G
    BY <1>1, <1>3, <1>4, UpTo
  <2> QED BY <1>1, <2>1
<1>6. it = [s \in SUBSET (1 .. n) |-> Step(it, s)]
  BY <1>5
<1> HIDE DEF it, G
<1> DEFINE f == [k \in 0 .. n |-> it[1 .. k]]
<1>7. f[0] = << >>
  <2>1. 1 .. 0 = {} /\ {} \in SUBSET (1 .. n) /\ 0 \in 0 .. n
    BY <1>1
  <2> QED BY <2>1, <1>6
<1>8. ASSUME NEW k \in 1 .. n PROVE f[k] = FoldMarker(f[k - 1], es[k])
  <2>1. 1 .. k \in SUBSET (1 .. n) /\ k \in 1 .. k /\ k \in Nat
    BY <1>1
  <2>2. Max(1 .. k) \in 1 .. k /\ k <= Max(1 .. k)
    BY <2>1, MaxIsGreatest
  <2>3. Max(1 .. k) = k
    BY <2>1, <2>2
  <2>4. (1 .. k) \ {k} = 1 .. k - 1
    BY <2>1
  <2>5. it[1 .. k] = FoldMarker(it[1 .. k - 1], es[k])
    BY <1>6, <2>1, <2>3, <2>4
  <2> QED BY <2>5, <1>1
<1>9. f[n] = it[1 .. n]
  BY <1>1
<1> HIDE DEF f
<1> QED BY <1>2, <1>7, <1>8, <1>9 DEF Pairs

(* A row ends nowhere, or not before the key before its first.             *)
Row == {r \in Range_ : r.keyEnd = NoEnd \/ r.key <= r.keyEnd + 1}

(* The key after the last one is the first one, and the other way round.   *)
LEMMA Wraps ==
  ASSUME NEW k \in Key
  PROVE  /\ incrementBytes(k) = IF k = KeySpace - 1 THEN 0 ELSE k + 1
         /\ decrementBytes(k) = IF k = 0 THEN KeySpace - 1 ELSE k - 1
BY SetViewAssumption DEF Key, incrementBytes, decrementBytes

(* What the pairing makes of the rows so far and one more element: a       *)
(* start adds a row without an end, a marker ends the last row if it has   *)
(* none.                                                                   *)
Folded(out, el, new) ==
  /\ new \in Seq(Row)
  /\ ~el.end =>
       /\ Len(new) = Len(out) + 1
       /\ \A i \in 1 .. Len(out) : new[i] = out[i]
       /\ new[Len(out) + 1] = [key |-> el.key, keyEnd |-> NoEnd]
  /\ el.end =>
       /\ Len(new) = Len(out)
       /\ \A i \in 1 .. Len(out) :
            new[i] = IF i = Len(out) /\ out[i].keyEnd = NoEnd
                     THEN [key |-> out[i].key,
                           keyEnd |-> decrementBytes(el.key)]
                     ELSE out[i]

(* The two things that the pairing does.                                   *)
LEMMA FoldFacts ==
  ASSUME NEW out \in Seq(Row), NEW el \in Element,
         \A i \in 1 .. Len(out) : out[i].key <= el.key,
         NEW new, new = FoldMarker(out, el)
  PROVE  Folded(out, el, new)
<1> DEFINE n == Len(out)
           r == [key |-> el.key, keyEnd |-> NoEnd]
<1>1. /\ n \in Nat /\ DOMAIN out = 1 .. n /\ \A i \in 1 .. n : out[i] \in Row
      /\ out = [i \in 1 .. n |-> out[i]]
  BY LenProperties, ElementOfSeq
<1>2. KeySpace \in Nat \ {0} /\ el.key \in 0 .. KeySpace - 1 /\ el.end \in BOOLEAN
      /\ el.key \in Key
  BY SetViewAssumption DEF Element, Key
<1>3. CASE ~el.end
  <2>1. r \in Row
    BY <1>2 DEF Row, Range_
  <2>2. new = Append(out, r)
    BY <1>3 DEF FoldMarker
  <2>3. /\ new \in Seq(Row) /\ Len(new) = n + 1
        /\ \A i \in 1 .. n + 1 : new[i] = IF i = n + 1 THEN r ELSE out[i]
    BY <1>1, <2>1, <2>2, AppendProperties
  <2>4. new[n + 1] = r /\ \A i \in 1 .. n : new[i] = out[i]
    BY <1>1, <2>3
  <2> QED BY <1>3, <2>3, <2>4 DEF Folded
<1>4. CASE el.end
  <2> DEFINE d == decrementBytes(el.key)
             q == [key |-> out[n].key, keyEnd |-> d]
  <2>1. CASE out # << >> /\ Last(out).keyEnd = NoEnd
    <3>1. n >= 1 /\ n \in 1 .. n /\ Last(out) = out[n]
      BY <1>1, <2>1, EmptySeq DEF Last
    <3>2. out[n] \in Range_ /\ out[n].key \in Key /\ out[n].key <= el.key
      BY <1>1, <3>1 DEF Row, Range_
    <3>3. d \in 0 .. KeySpace - 1 /\ out[n].key <= d + 1
      BY <1>2, <3>2, Wraps DEF Key
    <3>4. q \in Row
      BY <3>2, <3>3 DEF Row, Range_, Key
    <3>5. new = [out EXCEPT ![n].keyEnd = d]
      BY <1>4, <2>1 DEF FoldMarker
    <3>6. [out[n] EXCEPT !.keyEnd = d] = q
      BY <3>2 DEF Range_
    <3>7. new = [i \in 1 .. n |-> IF i = n THEN q ELSE out[i]]
      BY <1>1, <3>1, <3>5, <3>6
    <3>8. new \in Seq(Row) /\ Len(new) = n
      BY <1>1, <3>4, <3>7, IsASeq
    <3>9. out[n].keyEnd = NoEnd
      BY <2>1, <3>1
    <3> HIDE DEF q, n
    <3> QED BY <1>4, <3>7, <3>8, <3>9 DEF q, n, Folded
  <2>2. CASE ~(out # << >> /\ Last(out).keyEnd = NoEnd)
    <3>1. new = out
      BY <1>4, <2>2 DEF FoldMarker
    <3>2. \A i \in 1 .. n : i = n => out[i].keyEnd # NoEnd
      BY <1>1, <2>2, EmptySeq DEF Last
    <3> QED BY <1>1, <1>4, <3>1, <3>2 DEF Folded
  <2> QED BY <2>1, <2>2
<1> QED BY <1>2, <1>3, <1>4

(* So what the pairing makes are rows.                                     *)
LEMMA PairsAreRows ==
  ASSUME NEW elems, NEW es, Listing(elems, es), NEW f, Pairs(f, es),
         NEW k \in 0 .. Len(es)
  PROVE  /\ f[k] \in Seq(Row)
         /\ \A i \in 1 .. Len(f[k]) : \A j \in k + 1 .. Len(es) :
              f[k][i].key <= es[j].key
<1> DEFINE n == Len(es)
           Good(x) == /\ f[x] \in Seq(Row)
                      /\ \A i \in 1 .. Len(f[x]) : \A j \in x + 1 .. n :
                           f[x][i].key <= es[j].key
           G == {x \in 0 .. n : Good(x)}
<1>1. /\ n \in Nat /\ \A i \in 1 .. n : es[i] \in Element
      /\ \A i, j \in 1 .. n : i < j => es[i].key <= es[j].key
  BY LenProperties, ElementOfSeq DEF Listing
<1>2. 0 \in G
  <2>1. f[0] = << >> /\ << >> \in Seq(Row) /\ Len(<< >>) = 0
    BY EmptySeq DEF Pairs
  <2>2. 0 \in 0 .. n /\ 1 .. 0 = {}
    BY <1>1
  <2> QED BY <2>1, <2>2
<1>3. ASSUME NEW x \in 0 .. n - 1, x \in G PROVE x + 1 \in G
  <2> DEFINE out == f[x]
             el == es[x + 1]
             new == f[x + 1]
  <2>1. x + 1 \in 1 .. n /\ x + 1 \in 0 .. n /\ x + 1 - 1 = x /\ x \in Nat
    BY <1>1
  <2>2. new = FoldMarker(out, el) /\ el \in Element
    BY <1>1, <2>1 DEF Pairs
  <2>3. out \in Seq(Row) /\ Len(out) \in Nat
    BY <1>3, LenProperties
  <2>4. ASSUME NEW i \in 1 .. Len(out) PROVE out[i].key <= el.key
    BY <1>3, <2>1
  <2> HIDE DEF out, el, new
  <2>5. Folded(out, el, new)
    BY <2>2, <2>3, <2>4, FoldFacts
  <2>6. /\ new \in Seq(Row)
        /\ ~el.end =>
             /\ Len(new) = Len(out) + 1
             /\ \A i \in 1 .. Len(out) : new[i] = out[i]
             /\ new[Len(out) + 1] = [key |-> el.key, keyEnd |-> NoEnd]
        /\ el.end =>
             /\ Len(new) = Len(out)
             /\ \A i \in 1 .. Len(out) :
                  new[i] = IF i = Len(out) /\ out[i].keyEnd = NoEnd
                           THEN [key |-> out[i].key,
                                 keyEnd |-> decrementBytes(el.key)]
                           ELSE out[i]
    BY <2>5 DEF Folded
  <2> USE DEF out, el, new
  <2>7. ASSUME NEW i \in 1 .. Len(new), NEW j \in x + 1 + 1 .. n
        PROVE  new[i].key <= es[j].key
    <3>1. j \in x + 1 .. n /\ j \in 1 .. n /\ x + 1 < j
      BY <2>1, <1>1
    <3>2. el.key <= es[j].key
      BY <1>1, <2>1, <3>1
    <3>3. CASE i \in 1 .. Len(out)
      <4>1. out[i].key <= es[j].key
        BY <1>3, <3>1, <3>3
      <4>2. CASE el.end
        <5>1. new[i] \in {out[i], [key |-> out[i].key,
                                   keyEnd |-> decrementBytes(el.key)]}
          BY <2>6, <3>3, <4>2
        <5> QED BY <4>1, <5>1
      <4>3. CASE ~el.end
        BY <2>6, <3>3, <4>1, <4>3
      <4> QED BY <4>2, <4>3
    <3>4. CASE i \notin 1 .. Len(out)
      <4> HIDE DEF out, el, new
      <4>1. ~el.end
        BY <2>6, <3>4
      <4>2. i = Len(out) + 1
        BY <2>3, <2>6, <3>4, <4>1
      <4> QED BY <4>1, <4>2, <2>6, <3>2
    <3> QED BY <3>3, <3>4
  <2> QED BY <2>1, <2>6, <2>7
<1>4. 0 .. n \subseteq G
  <2> HIDE DEF G
  <2> QED BY <1>1, <1>2, <1>3, UpTo
<1> QED BY <1>4

(* What a reading yields are rows.                                         *)
LEMMA ReadingsAreRows ==
  ASSUME NEW kd \in Kinds, NEW elems \in SUBSET Element, NEW first \in BOOLEAN
  PROVE  decodeSetElements(kd, elems, first) \in Seq(Row)
<1>1. CASE kd.interval
  <2> DEFINE es == Sorted(elems, first)
  <2>1. Listing(elems, es)
    BY SortedIsListing
  <2>2. es \in Seq(Element) /\ Len(es) \in 0 .. Len(es)
    BY <2>1, LenProperties DEF Listing
  <2>3. PICK f : Pairs(f, es) /\ pairIntervalElements(es) = f[Len(es)]
    BY <2>2, PairingIsStepwise
  <2>4. f[Len(es)] \in Seq(Row)
    BY <2>1, <2>2, <2>3, PairsAreRows
  <2> QED BY <1>1, <2>3, <2>4 DEF decodeSetElements
<1>2. CASE ~kd.interval
  <2> DEFINE es == Sorted(elems, TRUE)
             rs == [i \in DOMAIN es |-> [key |-> es[i].key, keyEnd |-> NoEnd]]
  <2>1. Listing(elems, es)
    BY SortedIsListing
  <2>2. es \in Seq(Element) /\ Len(es) \in Nat /\ DOMAIN es = 1 .. Len(es)
    BY <2>1, LenProperties DEF Listing
  <2> HIDE DEF es
  <2>3. ASSUME NEW i \in 1 .. Len(es) PROVE es[i].key \in Key
    <3>1. es[i] \in Element
      BY <2>2, ElementOfSeq
    <3> QED BY <3>1 DEF Element
  <2>4. \A i \in 1 .. Len(es) : [key |-> es[i].key, keyEnd |-> NoEnd] \in Row
    BY <2>3 DEF Row, Range_
  <2>5. rs = [i \in 1 .. Len(es) |-> [key |-> es[i].key, keyEnd |-> NoEnd]]
    BY <2>2
  <2>6. rs \in Seq(Row)
    BY <2>2, <2>4, <2>5, IsASeq
  <2>7. decodeSetElements(kd, elems, first) = rs
    BY <1>2 DEF decodeSetElements, es
  <2> QED BY <2>6, <2>7
<1> QED BY <1>1, <1>2

-----------------------------------------------------------------------------
(* What a set matches. *)

(* Nothing begins or ends after k and up to l.                             *)
Free(elems, k, l) == \A x \in elems : ~(k < x.key /\ x.key <= l)

(* A key is under a start if nothing lies between.                         *)
Under(elems, c) ==
  \E s \in elems : ~s.end /\ s.key <= c /\ Free(elems, s.key, c)

(* A range goes on until the next thing.                                   *)
LEMMA LastKeyFacts ==
  ASSUME NEW elems \in SUBSET Element, NEW k \in Key
  PROVE  /\ LastKey(elems, k) \in k .. KeySpace - 1
         /\ Free(elems, k, LastKey(elems, k))
         /\ LastKey(elems, k) # KeySpace - 1 =>
              \E x \in elems : x.key = LastKey(elems, k) + 1
<1> DEFINE after == {e.key : e \in {x \in elems : x.key > k}}
<1>1. KeySpace \in Nat /\ k \in 0 .. KeySpace - 1
      /\ \A x \in elems : x.key \in 0 .. KeySpace - 1
  BY SetViewAssumption DEF Key, Element
<1>2. CASE after = {}
  <2>1. LastKey(elems, k) = KeySpace - 1
    BY <1>2 DEF LastKey
  <2> QED BY <1>1, <1>2, <2>1 DEF Free
<1>3. CASE after # {}
  <2>1. LastKey(elems, k) = Min(after) - 1
    BY <1>3 DEF LastKey
  <2>2. after \subseteq Nat
    BY <1>1
  <2>3. Min(after) \in after /\ \A y \in after : Min(after) <= y
    BY <1>3, <2>2, MinIsLeast
  <2>4. PICK x \in elems : x.key = Min(after) /\ x.key > k
    BY <2>3
  <2>5. ASSUME NEW y \in elems, k < y.key PROVE Min(after) <= y.key
    BY <2>3, <2>5, <1>1
  <2> HIDE DEF after
  <2>6. Min(after) \in k + 1 .. KeySpace - 1
    BY <2>4, <1>1
  <2>7. Free(elems, k, Min(after) - 1)
    BY <2>5, <2>6, <1>1 DEF Free
  <2> QED BY <2>1, <2>4, <2>6, <2>7, <1>1
<1> QED BY <1>2, <1>3

(* So a set of intervals matches the keys under its starts.                *)
LEMMA CoveredIsUnder ==
  ASSUME NEW kd \in Kinds, kd.interval, NEW elems \in SUBSET Element, NEW c
  PROVE  c \in Covered(kd, elems) <=> c \in Key /\ Under(elems, c)
<1>1. KeySpace \in Nat /\ Key = 0 .. KeySpace - 1
      /\ \A x \in elems : x.key \in Key
  BY SetViewAssumption DEF Key, Element
<1>2. c \in Covered(kd, elems) <=>
        \E s \in elems : ~s.end /\ c \in s.key .. LastKey(elems, s.key)
  <2> DEFINE R(s) == [key |-> s.key, keyEnd |-> LastKey(elems, s.key)]
  <2>1. Ranges(kd, elems) = {R(s) : s \in {x \in elems : ~x.end}}
    BY DEF Ranges
  <2>2. c \in Covered(kd, elems)
          <=> \E r \in Ranges(kd, elems) : c \in r.key .. r.keyEnd
    BY DEF Covered
  <2>3. (\E r \in Ranges(kd, elems) : c \in r.key .. r.keyEnd)
          <=> \E s \in {x \in elems : ~x.end} : c \in R(s).key .. R(s).keyEnd
    BY <2>1
  <2> QED BY <2>2, <2>3
<1>3. ASSUME NEW s \in elems
      PROVE  c \in s.key .. LastKey(elems, s.key)
               <=> c \in Key /\ s.key <= c /\ Free(elems, s.key, c)
  <2> DEFINE k == s.key
             l == LastKey(elems, s.key)
  <2>1. /\ k \in Key /\ l \in k .. KeySpace - 1 /\ Free(elems, k, l)
        /\ l # KeySpace - 1 => \E x \in elems : x.key = l + 1
    BY <1>1, LastKeyFacts
  <2> HIDE DEF k, l
  <2>2. ASSUME c \in k .. l PROVE c \in Key /\ k <= c /\ Free(elems, k, c)
    <3>1. c \in Key /\ k <= c /\ c <= l
      BY <2>1, <2>2, <1>1
    <3> QED BY <2>1, <3>1, <1>1 DEF Free
  <2>3. ASSUME c \in Key, k <= c, Free(elems, k, c) PROVE c \in k .. l
    <3>1. CASE l = KeySpace - 1
      BY <2>1, <2>3, <3>1, <1>1
    <3>2. CASE l # KeySpace - 1
      <4>1. PICK x \in elems : x.key = l + 1
        BY <2>1, <3>2
      <4>2. ~(k < l + 1 /\ l + 1 <= c)
        BY <2>3, <4>1 DEF Free
      <4> QED BY <2>1, <2>3, <4>2, <1>1
    <3> QED BY <3>1, <3>2
  <2> QED BY <2>2, <2>3 DEF k, l
<1> QED BY <1>2, <1>3 DEF Under

(* Every marker but one at 0 closes a range.                               *)
Closes(elems) ==
  \A m \in {e \in elems : e.end /\ e.key # 0} :
    \E s \in elems : ~s.end /\ s.key < m.key /\
        \A x \in elems : x.key > s.key /\ x.key < m.key => FALSE

(* A range that is added: its keys are matched from then on, and nothing   *)
(* else changes; and its marker closes it.                                 *)
LEMMA AddedRange ==
  ASSUME NEW elems \in SUBSET Element, Closes(elems),
         NEW k \in Key, NEW l \in Key, k <= l,
         NEW both, both = {Start(k), Marker(incrementBytes(l))},
         \/ both \subseteq elems /\ Free(elems, k, l)
         \/ \A c \in k .. l : ~Under(elems, c),
         NEW new, new = elems \cup both
  PROVE  /\ new \in SUBSET Element /\ Closes(new)
         /\ \A c \in Key : Under(new, c) <=> Under(elems, c) \/ c \in k .. l
<1> DEFINE S == Start(k)
           b == incrementBytes(l)
           M == Marker(b)
<1>1. KeySpace \in Nat /\ Key = 0 .. KeySpace - 1
      /\ \A x \in elems : x.key \in Key /\ x.end \in BOOLEAN
  BY SetViewAssumption DEF Key, Element
<1>2. /\ b \in Key
      /\ b = IF l = KeySpace - 1 THEN 0 ELSE l + 1
  BY <1>1, Wraps
<1>3. /\ S.key = k /\ ~S.end /\ M.key = b /\ M.end
      /\ S \in Element /\ M \in Element
  BY <1>2 DEF Start, Marker, Element
<1> HIDE DEF b, S, M
<1>4. both = {S, M}
  BY DEF S, M, b
<1>5. CASE both \subseteq elems /\ Free(elems, k, l)
  <2>1. new = elems /\ S \in elems
    BY <1>4, <1>5
  <2>2. ASSUME NEW c \in k .. l PROVE Under(elems, c)
    <3>1. Free(elems, k, c)
      BY <1>1, <1>5, <2>2 DEF Free
    <3> QED BY <1>1, <1>3, <2>1, <2>2, <3>1 DEF Under
  <2> QED BY <2>1, <2>2
<1>6. CASE \A c \in k .. l : ~Under(elems, c)
  <2>1. ASSUME NEW s \in elems, ~s.end, NEW c \in k .. l, s.key <= c,
               Free(elems, s.key, c)
        PROVE  FALSE
    BY <1>6, <2>1 DEF Under
  <2>2. ASSUME NEW s \in elems, ~s.end PROVE ~(k <= s.key /\ s.key <= l)
    <3> SUFFICES ASSUME k <= s.key /\ s.key <= l PROVE FALSE
      OBVIOUS
    <3>1. Free(elems, s.key, s.key) /\ s.key \in k .. l /\ s.key <= s.key
      BY <1>1 DEF Free
    <3> QED BY <2>1, <2>2, <3>1
  <2>3. Free(elems, k, l)
    <3> SUFFICES ASSUME NEW x \in elems, k < x.key, x.key <= l PROVE FALSE
      BY DEF Free
    <3>1. x.end /\ x.key # 0
      BY <1>1, <2>2
    <3>2. PICK s \in elems : ~s.end /\ s.key < x.key /\
            \A y \in elems : y.key > s.key /\ y.key < x.key => FALSE
      BY <3>1 DEF Closes
    <3>3. s.key < k
      BY <1>1, <2>2, <3>2
    <3>4. Free(elems, s.key, k)
      BY <1>1, <3>2 DEF Free
    <3>5. k \in k .. l /\ s.key <= k
      BY <1>1, <3>3
    <3> QED BY <2>1, <3>2, <3>4, <3>5
  <2>4. \A x \in new : x \in elems \/ x = S \/ x = M
    BY <1>4
  <2>5. S \in new /\ M \in new /\ elems \subseteq new
    BY <1>4
  <2>6. ASSUME NEW s \in elems, ~s.end, NEW c \in Key, s.key <= c,
               Free(elems, s.key, c)
        PROVE  Free(new, s.key, c)
    <3>1. ~(s.key < k /\ k <= c)
      <4> SUFFICES ASSUME s.key < k, k <= c PROVE FALSE
        OBVIOUS
      <4>1. Free(elems, s.key, k) /\ k \in k .. l /\ s.key <= k
        BY <1>1, <2>6 DEF Free
      <4> QED BY <2>1, <2>6, <4>1
    <3>2. ~(s.key < b /\ b <= c)
      <4> SUFFICES ASSUME s.key < b, b <= c PROVE FALSE
        OBVIOUS
      <4>1. b = l + 1
        BY <1>1, <1>2
      <4>2. Free(elems, s.key, l) /\ l \in k .. l /\ s.key <= l
        BY <1>1, <2>6, <4>1 DEF Free
      <4> QED BY <2>1, <2>6, <4>2
    <3> QED BY <2>4, <2>6, <3>1, <3>2, <1>3 DEF Free
  <2>7. ASSUME NEW c \in Key, Under(elems, c) PROVE Under(new, c)
    <3>1. PICK s \in elems : ~s.end /\ s.key <= c /\ Free(elems, s.key, c)
      BY <2>7 DEF Under
    <3> QED BY <2>5, <2>6, <3>1 DEF Under
  <2>8. ASSUME NEW c \in k .. l PROVE Under(new, c)
    <3>1. Free(elems, k, c)
      BY <1>1, <2>3 DEF Free
    <3>2. ~(k < b /\ b <= c)
      BY <1>1, <1>2
    <3>3. Free(new, k, c)
      BY <2>4, <3>1, <3>2, <1>1, <1>3 DEF Free
    <3> QED BY <2>5, <3>3, <1>1, <1>3 DEF Under
  <2>9. ASSUME NEW c \in Key, Under(new, c)
        PROVE  Under(elems, c) \/ c \in k .. l
    <3>1. PICK s \in new : ~s.end /\ s.key <= c /\ Free(new, s.key, c)
      BY <2>9 DEF Under
    <3>2. CASE s \in elems
      BY <3>1, <3>2, <2>5 DEF Under, Free
    <3>3. CASE s \notin elems
      <4>1. s = S
        BY <3>1, <3>3, <2>4, <1>3
      <4>2. ~(k < b /\ b <= c) /\ k <= c
        BY <3>1, <4>1, <2>5, <1>3 DEF Free
      <4>3. c <= l
        BY <4>2, <1>1, <1>2
      <4> QED BY <4>2, <4>3, <1>1
    <3> QED BY <3>2, <3>3
  <2>10. Closes(new)
    <3> SUFFICES ASSUME NEW m \in new, m.end, m.key # 0
                 PROVE  \E s \in new : ~s.end /\ s.key < m.key /\
                          \A x \in new : x.key > s.key /\ x.key < m.key => FALSE
      BY DEF Closes
    <3>1. CASE m \in elems
      <4>1. PICK s \in elems : ~s.end /\ s.key < m.key /\
              \A y \in elems : y.key > s.key /\ y.key < m.key => FALSE
        BY <3>1 DEF Closes
      <4>2. m.key - 1 \in Key /\ s.key <= m.key - 1 /\ Free(elems, s.key, m.key - 1)
        BY <1>1, <3>1, <4>1 DEF Free
      <4>3. Free(new, s.key, m.key - 1)
        BY <2>6, <4>1, <4>2
      <4>4. ASSUME NEW x \in new PROVE x.key \in Int
        <5>1. k \in Int /\ b \in Int /\ \A y \in elems : y.key \in Int
          BY <1>1, <1>2
        <5> QED BY <2>4, <1>3, <5>1
      <4>5. \A x \in new : x.key > s.key /\ x.key < m.key => FALSE
        BY <4>3, <4>4, <1>1, <3>1 DEF Free
      <4> QED BY <2>5, <4>1, <4>5
    <3>2. CASE m \notin elems
      <4>1. m = M /\ b = l + 1
        BY <3>2, <2>4, <1>2, <1>3
      <4>2. \A x \in new : x.key > k /\ x.key < b => FALSE
        BY <4>1, <2>3, <2>4, <1>1, <1>3 DEF Free
      <4> QED BY <2>5, <4>1, <4>2, <1>1, <1>3
    <3> QED BY <3>1, <3>2
  <2>11. new \in SUBSET Element
    BY <2>4, <1>3
  <2> QED BY <2>7, <2>8, <2>9, <2>10, <2>11
<1> QED BY <1>5, <1>6

(* A range that is deleted, and is still one, leaves no marker behind.     *)
LEMMA DeletedRange ==
  ASSUME NEW elems \in SUBSET Element, Closes(elems),
         NEW a \in Key, NEW e \in Key, a <= e + 1, Free(elems, a, e),
         NEW gone, gone = {Start(a), Marker(incrementBytes(e))},
         gone \subseteq elems
  PROVE  Closes(elems \ gone)
<1> DEFINE S == Start(a)
           b == incrementBytes(e)
           M == Marker(b)
<1>1. /\ KeySpace \in Nat /\ Key = 0 .. KeySpace - 1
      /\ \A y \in elems : y.key \in Key /\ y.end \in BOOLEAN
      /\ \A y \in elems : y = [key |-> y.key, end |-> y.end]
  BY SetViewAssumption DEF Key, Element
<1>2. /\ b \in Key
      /\ b = IF e = KeySpace - 1 THEN 0 ELSE e + 1
  BY <1>1, Wraps
<1>3. S.key = a /\ ~S.end /\ M.key = b /\ M.end
  BY DEF Start, Marker
<1>4. \A y \in elems : /\ y.key = a /\ ~y.end => y = S
                       /\ y.key = b /\ y.end => y = M
  BY <1>1 DEF Start, Marker
<1> HIDE DEF b, S, M
<1>5. gone = {S, M}
  BY DEF S, M, b
<1> SUFFICES ASSUME NEW m \in elems \ gone, m.end, m.key # 0
             PROVE  \E s \in elems \ gone : ~s.end /\ s.key < m.key /\
                      \A x \in elems \ gone :
                        x.key > s.key /\ x.key < m.key => FALSE
  BY DEF Closes
<1>6. PICK s \in elems : ~s.end /\ s.key < m.key /\
        \A y \in elems : y.key > s.key /\ y.key < m.key => FALSE
  BY DEF Closes
<1>7. CASE s # S
  BY <1>3, <1>5, <1>6, <1>7
<1>8. CASE s = S
  <2>1. a < m.key /\ ~(m.key <= e)
    BY <1>3, <1>6, <1>8 DEF Free
  <2>2. e # KeySpace - 1 /\ b = e + 1
    BY <1>1, <1>2, <2>1
  <2>3. M \in elems /\ ~(b > a /\ b < m.key) /\ m # M
    BY <1>3, <1>5, <1>6, <1>8
  <2>4. m.key # b
    BY <1>4, <2>3
  <2>5. b = a /\ M.key # 0
    BY <1>1, <1>2, <1>3, <2>1, <2>2, <2>3, <2>4
  <2>6. PICK t \in elems : ~t.end /\ t.key < M.key /\
          \A y \in elems : y.key > t.key /\ y.key < M.key => FALSE
    BY <1>3, <2>3, <2>5 DEF Closes
  <2>7. t.key < a /\ t.key \in Int /\ a \in Int /\ m.key \in Int
    BY <1>1, <1>3, <2>5, <2>6
  <2>8. t.key < m.key
    BY <2>1, <2>7
  <2>9. t # S /\ t # M
    BY <1>3, <2>6, <2>7
  <2>10. ASSUME NEW x \in elems \ gone, x.key > t.key, x.key < m.key
        PROVE  FALSE
    <3>1. x.key # a
      BY <1>1, <1>4, <1>5, <2>5
    <3>2. ~(x.key > a /\ x.key < m.key) /\ ~(x.key > t.key /\ x.key < a)
      BY <1>3, <1>6, <1>8, <2>5, <2>6
    <3> QED BY <1>1, <2>10, <3>1, <3>2
  <2> QED BY <1>5, <2>6, <2>8, <2>9, <2>10
<1> QED BY <1>7, <1>8

-----------------------------------------------------------------------------
(* The invariant. *)

(* A deletion under way is of a row, an addition of what the kind of set   *)
(* allows.                                                                 *)
Legal(op) ==
  op.at = "sent" => IF op.cmd = "delete" THEN op.range \in Row
                    ELSE ParseSetElementKey(kind, op.range)

SetTypes ==
  /\ kind \in StartKinds /\ kernel \in SUBSET Element
  /\ elements \in Seq(Row) /\ cursor \in Nat
  /\ open \in BOOLEAN /\ showAddPrompt \in BOOLEAN /\ addErr \in BOOLEAN
  /\ showDelete \in BOOLEAN /\ statusMsg \in BOOLEAN
  /\ setCreate \in {"none", "shown", "behind"}
  /\ odd \subseteq {"upside down", "top", "split", "outside"}
  /\ seen \in {"fresh", "changed", "blind"}
  /\ ops \in Seq(Op) /\ addLastHint \in 0 .. Len(ops)
  /\ outside \in 0 .. MaxOutside
  /\ \A o \in 1 .. Len(ops) : Legal(ops[o])

(* A plain set has no markers.                                             *)
KernelInv ==
  /\ ~kind.interval => \A e \in kernel : ~e.end
  /\ odd \subseteq {"top"} => Closes(kernel)

(* A hint is only there in the prompt, and the prompt only in the view.    *)
HintInv ==
  /\ showAddPrompt => open
  /\ addLastHint # NoHint => showAddPrompt
  /\ HintIsTrue

(* A view that has seen everything shows a reading of what is there; if it *)
(* has not, an answer is under way that makes it read again.               *)
RowsInv ==
  /\ cursor < Len(elements) \/ (cursor = 0 /\ elements = << >>)
  /\ open /\ seen = "fresh" => elements \in Readings
  /\ open /\ seen = "changed" =>
       \E o \in 1 .. Len(ops) : ops[o].at = "done" /\ ops[o].ok

SetInv == SetTypes /\ KernelInv /\ HintInv /\ RowsInv

(* Rows are ranges.                                                        *)
LEMMA RowFacts ==
  /\ Row \subseteq Range_
  /\ \A r \in Row : /\ r.key \in Key
                    /\ r.keyEnd \in Key \cup {NoEnd}
                    /\ r.keyEnd # NoEnd => r.key <= r.keyEnd + 1
  /\ NoEnd \notin Key /\ Key \subseteq Int
BY SetViewAssumption DEF Row, Range_, Key, NoEnd

(* What the form and the answers to other commands do to the view.         *)
LEMMA FormSteps ==
  ASSUME setCreateSelectedMsg \/ SetCreateBack \/ AnsweredElsewhere
  PROVE  /\ UNCHANGED <<kind, kernel, outside, odd, ops, seen>>
         /\ \/ /\ UNCHANGED <<open, elements, cursor, showAddPrompt>>
               /\ addLastHint' \in {addLastHint, NoHint}
            \/ /\ open' = FALSE /\ elements' = << >> /\ cursor' = 0
               /\ showAddPrompt' = FALSE /\ addLastHint' = NoHint
BY DEF setCreateSelectedMsg, SetCreateBack, AnsweredElsewhere, ShowError,
       setAddErr, prompt, rows

(* The set stays what kind of set it is.                                   *)
LEMMA KindKept ==
  ASSUME [Next]_vars
  PROVE  kind' = kind
BY FormSteps
DEF Next, Keys, newSetView, Up, Down, Add, PromptEsc, EnterRefused, Enter,
    Confirm, Delete, Decline, Back, Outside, SetElementDone, setOpErrMsg,
    Flush, vars, world

(* How the commands change.                                                *)
NewOp(new) ==
  /\ new \in Op /\ new.at = "sent" /\ Legal(new)
  /\ ops' = Append(ops, new)
  /\ UNCHANGED <<kernel, odd, kind, open, seen>>
ChangedOp(o, new) ==
  /\ o \in 1 .. Len(ops)
  /\ new \in Op /\ new.at # "sent"
  /\ new.at \notin {"handled", "strayed"} => ops[o].at = "sent"
  /\ new.at \in {"handled", "strayed"} =>
       ops[o].at = "done" /\ new.ok = ops[o].ok
  /\ ops' = [ops EXCEPT ![o] = new]

(* Enter and y start commands.                                             *)
LEMMA EnterIsNew ==
  ASSUME NEW typed \in Inputs, Enter(typed)
  PROVE  \E new : NewOp(new)
<1> DEFINE new == [cmd |-> "add", range |-> typed, at |-> "sent", ok |-> FALSE]
<1>1. new \in Op /\ new.at = "sent" /\ Legal(new)
  BY SetViewAssumption DEF Op, Legal, Enter
<1>2. ops' = Append(ops, new) /\ UNCHANGED <<kernel, odd, kind, open, seen>>
  BY DEF Enter, Start_, world
<1> HIDE DEF new
<1> QED BY <1>1, <1>2 DEF NewOp

(* The y of the delete dialog.                                             *)
LEMMA ConfirmIsNew ==
  ASSUME SetTypes, Confirm
  PROVE  ops' = ops \/ \E new : NewOp(new)
<1>1. CASE ~(cursor < Len(elements))
  BY <1>1 DEF Confirm
<1>2. CASE cursor < Len(elements)
  <2> DEFINE new == [cmd |-> "delete", range |-> elements[cursor + 1],
                     at |-> "sent", ok |-> FALSE]
  <2>1. Len(elements) \in Nat /\ cursor \in Nat
    BY LenProperties DEF SetTypes
  <2>2. cursor + 1 \in 1 .. Len(elements)
    BY <1>2, <2>1
  <2>3. elements[cursor + 1] \in Row
    BY <2>2, ElementOfSeq DEF SetTypes
  <2>4. new \in Op /\ new.at = "sent" /\ Legal(new)
    BY <2>3, RowFacts DEF Op, Legal
  <2>5. ops' = Append(ops, new) /\ UNCHANGED <<kernel, odd, kind, open, seen>>
    BY <1>2 DEF Confirm, Start_, world
  <2> HIDE DEF new
  <2> QED BY <2>4, <2>5 DEF NewOp
<1> QED BY <1>1, <1>2

(* The kernel has worked a command off.                                    *)
Flushed(o) ==
  /\ AddSetElement(o) \/ DeleteSetElement(o)
  /\ odd' = odd \cup Oddities(o)
  /\ seen' = IF seen = "fresh" THEN "changed" ELSE seen

(* It becomes done, and only what the kernel took has an effect.           *)
LEMMA FlushChanges ==
  ASSUME SetTypes, NEW o \in DOMAIN ops, Flush(o)
  PROVE  \E new : /\ ChangedOp(o, new) /\ new.at = "done"
                  /\ \/ new.ok /\ Flushed(o)
                     \/ new.ok = ops[o].ok /\ UNCHANGED <<kernel, odd, seen>>
<1>1. o \in 1 .. Len(ops) /\ ops[o] \in Op /\ ops[o].at = "sent"
  <2>1. o \in 1 .. Len(ops) /\ ops \in Seq(Op)
    BY LenProperties DEF SetTypes
  <2>2. ops[o] \in Op
    BY <2>1, ElementOfSeq
  <2>3. ops[o].at = "sent"
    BY DEF Flush
  <2> QED BY <2>1, <2>2, <2>3
<1>2. \/ /\ ops' = [ops EXCEPT ![o] = [ops[o] EXCEPT !.at = "done", !.ok = TRUE]]
         /\ Flushed(o)
      \/ /\ ops' = [ops EXCEPT ![o] = [ops[o] EXCEPT !.at = "done"]]
         /\ UNCHANGED <<kernel, odd, seen>>
  BY DEF Flush, Flushed
<1>3. /\ \A new \in {[ops[o] EXCEPT !.at = "done", !.ok = TRUE],
                     [ops[o] EXCEPT !.at = "done"]} :
           new \in Op /\ new.at = "done"
      /\ [ops[o] EXCEPT !.at = "done", !.ok = TRUE].ok
      /\ [ops[o] EXCEPT !.at = "done"].ok = ops[o].ok
  BY <1>1 DEF Op
<1>4. PICK new : /\ new \in Op /\ new.at = "done"
                 /\ ops' = [ops EXCEPT ![o] = new]
                 /\ \/ new.ok /\ Flushed(o)
                    \/ new.ok = ops[o].ok /\ UNCHANGED <<kernel, odd, seen>>
  BY <1>2, <1>3
<1> QED BY <1>1, <1>4 DEF ChangedOp

(* An answer is handled.                                                   *)
LEMMA AnswerChanges ==
  ASSUME SetTypes, NEW o \in DOMAIN ops, NEW at \in {"handled", "strayed"},
         Answered(o, at)
  PROVE  \E new : ChangedOp(o, new) /\ new.at = at /\ new.ok = ops[o].ok
<1>1. o \in 1 .. Len(ops) /\ ops[o] \in Op /\ ops[o].at = "done"
  BY LenProperties, ElementOfSeq DEF SetTypes, Answered
<1>2. 0 \in Key
  BY SetViewAssumption DEF Key
<1>3. ops' = [ops EXCEPT ![o] = Handled(at, ops[o].ok)]
  BY DEF Answered
<1>4. /\ Handled(at, ops[o].ok) \in Op /\ Handled(at, ops[o].ok).at = at
      /\ Handled(at, ops[o].ok).ok = ops[o].ok
  BY <1>1, <1>2 DEF Handled, Op, Range_
<1> QED BY <1>1, <1>3, <1>4 DEF ChangedOp

(* Nothing else happens to the commands.                                   *)
LEMMA OpsSteps ==
  ASSUME SetTypes, [Next]_vars
  PROVE  \/ ops' = ops
         \/ \E new : NewOp(new)
         \/ \E o, new : ChangedOp(o, new)
<1>1. /\ DOMAIN ops = 1 .. Len(ops)
      /\ \A o \in 1 .. Len(ops) : ops[o] \in Op
  BY LenProperties, ElementOfSeq DEF SetTypes
<1>2. ASSUME NEW typed \in Inputs, Enter(typed) PROVE \E new : NewOp(new)
  BY <1>2, EnterIsNew
<1>3. CASE Confirm
  BY <1>3, ConfirmIsNew
<1>4. ASSUME NEW o \in DOMAIN ops, Flush(o)
      PROVE  \E x, new : ChangedOp(x, new)
  BY <1>4, FlushChanges
<1>5. ASSUME NEW o \in DOMAIN ops, NEW at \in {"handled", "strayed"},
             Answered(o, at)
      PROVE  \E x, new : ChangedOp(x, new)
  BY <1>5, AnswerChanges
<1>6. CASE UNCHANGED ops
  BY <1>6
<1> QED
  BY FormSteps, <1>2, <1>3, <1>4, <1>5, <1>6
  DEF Next, Keys, newSetView, Up, Down, Add, PromptEsc, EnterRefused, Delete,
      Decline, Back, Outside, SetElementDone, setOpErrMsg, vars

(* What each change does to the list of commands.                          *)
LEMMA NewOpFacts ==
  ASSUME SetTypes, NEW new, NewOp(new)
  PROVE  /\ ops' \in Seq(Op) /\ Len(ops') = Len(ops) + 1 /\ Len(ops) \in Nat
         /\ \A i \in 1 .. Len(ops) : ops'[i] = ops[i]
         /\ ops'[Len(ops')] = new
         /\ \A i \in 1 .. Len(ops') : Legal(ops[i])' 
<1>1. ops \in Seq(Op) /\ new \in Op /\ ops' = Append(ops, new)
  BY DEF SetTypes, NewOp
<1>2. /\ ops' \in Seq(Op) /\ Len(ops') = Len(ops) + 1 /\ Len(ops) \in Nat
      /\ \A i \in 1 .. Len(ops) : ops'[i] = ops[i]
      /\ ops'[Len(ops')] = new
  BY <1>1, AppendProperties, LenProperties
<1>3. \A i \in 1 .. Len(ops) : Legal(ops[i])
  BY DEF SetTypes
<1>4. Legal(new) /\ kind' = kind
  BY DEF NewOp
<1>5. ASSUME NEW i \in 1 .. Len(ops') PROVE Legal(ops[i])'
  <2>1. CASE i = Len(ops')
    BY <1>2, <1>4, <2>1 DEF Legal
  <2>2. CASE i # Len(ops')
    <3>1. i \in 1 .. Len(ops)
      BY <1>2, <2>2
    <3> QED BY <1>2, <1>3, <1>4, <3>1 DEF Legal
  <2> QED BY <2>1, <2>2
<1> QED BY <1>2, <1>5

(* A command that changes leaves the others and the types.                 *)
LEMMA ChangedOpFacts ==
  ASSUME SetTypes, NEW o, NEW new, ChangedOp(o, new), kind' = kind
  PROVE  /\ ops' \in Seq(Op) /\ Len(ops') = Len(ops) /\ Len(ops) \in Nat
         /\ \A i \in 1 .. Len(ops) : ops'[i] = IF i = o THEN new ELSE ops[i]
         /\ \A i \in 1 .. Len(ops') : Legal(ops[i])'
<1>1. /\ ops \in Seq(Op) /\ new \in Op /\ ops' = [ops EXCEPT ![o] = new]
      /\ o \in 1 .. Len(ops)
  BY DEF SetTypes, ChangedOp
<1>2. /\ ops' \in Seq(Op) /\ Len(ops') = Len(ops) /\ Len(ops) \in Nat
      /\ \A i \in 1 .. Len(ops) : ops'[i] = IF i = o THEN new ELSE ops[i]
  BY <1>1, ExceptSeq, LenProperties
<1>3. \A i \in 1 .. Len(ops) : Legal(ops[i])
  BY DEF SetTypes
<1>4. new.at # "sent"
  BY DEF ChangedOp
<1>5. ASSUME NEW i \in 1 .. Len(ops') PROVE Legal(ops[i])'
  BY <1>2, <1>3, <1>4 DEF Legal
<1> QED BY <1>2, <1>5

(* What was typed becomes elements.                                        *)
LEMMA BuiltAreElements ==
  ASSUME NEW kd, NEW r \in Range_
  PROVE  /\ buildSetElements(kd, r) \subseteq Element
         /\ r.keyEnd # NoEnd \/ kd.interval =>
              buildSetElements(kd, r) =
                {Start(r.key), Marker(incrementBytes(LastTyped(r)))}
         /\ r.keyEnd = NoEnd /\ ~kd.interval =>
              buildSetElements(kd, r) = {Start(r.key)}
         /\ LastTyped(r) \in Key
<1>1. r.key \in Key /\ r.keyEnd \in Key \cup {NoEnd} /\ LastTyped(r) \in Key
  BY DEF Range_, LastTyped
<1>2. /\ incrementBytes(r.key) \in Key
      /\ r.keyEnd # NoEnd => incrementBytes(r.keyEnd) \in Key
  BY <1>1, Wraps, SetViewAssumption DEF Key
<1>3. \A k \in Key : Start(k) \in Element /\ Marker(k) \in Element
  BY DEF Start, Marker, Element
<1>4. r.keyEnd # NoEnd \/ kd.interval =>
        buildSetElements(kd, r) =
          {Start(r.key), Marker(incrementBytes(LastTyped(r)))}
  BY DEF buildSetElements, LastTyped
<1>5. r.keyEnd = NoEnd /\ ~kd.interval =>
        buildSetElements(kd, r) = {Start(r.key)}
  BY DEF buildSetElements
<1>6. buildSetElements(kd, r) \subseteq Element
  BY <1>1, <1>2, <1>3 DEF buildSetElements
<1> QED BY <1>1, <1>4, <1>5, <1>6

(* Every variable keeps its type, and the cursor is on a row.              *)
LEMMA TypesKept ==
  ASSUME SetInv, [Next]_vars
  PROVE  /\ SetTypes'
         /\ cursor' < Len(elements') \/ (cursor' = 0 /\ elements' = << >>)
<1>1. SetTypes /\ kind' = kind /\ kind \in Kinds
  BY KindKept, SetViewAssumption DEF SetInv, SetTypes
<1>2. /\ ops' \in Seq(Op) /\ Len(ops) \in Nat /\ Len(ops') \in Nat
      /\ Len(ops) <= Len(ops')
      /\ \A o \in 1 .. Len(ops') : Legal(ops[o])'
  <2>1. CASE ops' = ops
    <3>1. ops \in Seq(Op) /\ \A o \in 1 .. Len(ops) : Legal(ops[o])
      BY <1>1 DEF SetTypes
    <3>2. Len(ops) \in Nat
      BY <3>1, LenProperties
    <3>3. \A o \in 1 .. Len(ops') : Legal(ops[o])'
      BY <1>1, <2>1, <3>1 DEF Legal
    <3> QED BY <2>1, <3>1, <3>2, <3>3
  <2>2. CASE \E new : NewOp(new)
    <3>1. PICK new : NewOp(new)
      BY <2>2
    <3> QED BY <1>1, <3>1, NewOpFacts, LenProperties
  <2>3. CASE \E o, new : ChangedOp(o, new)
    <3>1. PICK o, new : ChangedOp(o, new)
      BY <2>3
    <3> QED BY <1>1, <3>1, ChangedOpFacts, LenProperties
  <2> QED BY <1>1, <2>1, <2>2, <2>3, OpsSteps
<1>3. kernel' \in SUBSET Element
  <2>1. CASE UNCHANGED kernel
    BY <1>1, <2>1 DEF SetTypes
  <2>2. ASSUME NEW o \in DOMAIN ops, Flush(o) PROVE kernel' \in SUBSET Element
    <3>1. ops[o] \in Op
      BY <1>1, LenProperties, ElementOfSeq DEF SetTypes
    <3>2. buildSetElements(kind, ops[o].range) \subseteq Element
      BY <3>1, BuiltAreElements DEF Op
    <3> QED BY <1>1, <2>2, <3>2 DEF SetTypes, Flush, AddSetElement, DeleteSetElement
  <2>3. CASE Outside
    <3>1. \A r \in Inputs : buildSetElements(kind, r) \subseteq Element
      BY BuiltAreElements, SetViewAssumption
    <3> QED BY <1>1, <2>3, <3>1 DEF SetTypes, Outside
  <2> QED
    BY FormSteps, <2>1, <2>2, <2>3
    DEF Next, Keys, newSetView, Up, Down, Add, PromptEsc, EnterRefused,
        Enter, Confirm, Delete, Decline, Back, SetElementDone,
        setOpErrMsg, vars, world
<1>4. /\ elements' \in Seq(Row) /\ cursor' \in Nat
      /\ cursor' < Len(elements') \/ (cursor' = 0 /\ elements' = << >>)
  <2>0. /\ Len(elements) \in Nat /\ cursor \in Nat /\ elements \in Seq(Row)
        /\ cursor < Len(elements) \/ (cursor = 0 /\ elements = << >>)
    BY <1>1, LenProperties DEF SetInv, RowsInv, SetTypes
  <2>1. CASE UNCHANGED rows
    BY <1>1, <2>1 DEF SetInv, SetTypes, RowsInv, rows
  <2>2. ASSUME elements' \in Readings \/ elements' = << >> PROVE elements' \in Seq(Row)
    BY <1>1, <2>2, ReadingsAreRows, EmptySeq DEF Readings, SetTypes
  <2>3. ASSUME elements' \in Seq(Row) PROVE
          /\ Len(elements') \in Nat
          /\ elements' = << >> <=> Len(elements') = 0
    BY <2>3, LenProperties, EmptySeq
  <2>4. CASE newSetView
    BY <2>2, <2>3, <2>4 DEF newSetView
  <2>5. CASE RefreshElements /\ ~UNCHANGED rows
    <3>1. /\ elements' \in Seq(Row) /\ Len(elements') \in Nat
          /\ elements' = << >> <=> Len(elements') = 0
          /\ cursor' = Clamp(cursor, Len(elements'))
      BY <2>2, <2>3, <2>5 DEF RefreshElements
    <3>2. \A n \in Nat : /\ Clamp(cursor, n) \in Nat
                         /\ Clamp(cursor, n) < n \/ (Clamp(cursor, n) = 0 /\ n = 0)
      BY <2>0 DEF Clamp
    <3> QED BY <3>1, <3>2
  <2>6. CASE Back
    BY <2>2, <2>3, <2>6 DEF Back
  <2>7. CASE Up
    <3>1. elements' = elements /\ cursor' = cursor - 1 /\ cursor > 0
      BY <2>7 DEF Up
    <3>2. cursor < Len(elements)
      BY <2>0, <3>1
    <3> QED BY <2>0, <3>1, <3>2
  <2>8. CASE Down
    <3>1. /\ elements' = elements /\ cursor' = cursor + 1
          /\ cursor < Len(elements) - 1
      BY <2>8 DEF Down
    <3> QED BY <2>0, <3>1
  <2>9. CASE setCreateSelectedMsg \/ SetCreateBack \/ AnsweredElsewhere
    <3>1. CASE UNCHANGED <<elements, cursor>>
      BY <2>1, <3>1 DEF rows
    <3>2. CASE elements' = << >> /\ cursor' = 0
      BY <2>2, <3>2
    <3> QED BY <2>9, <3>1, <3>2, FormSteps
  <2> QED
    BY <2>1, <2>4, <2>5, <2>6, <2>7, <2>8, <2>9
    DEF Next, Keys, Add, PromptEsc, EnterRefused, Enter, Confirm, Delete,
        Decline, Outside, SetElementDone, setOpErrMsg, Flush, vars, rows
<1>5. addLastHint' \in 0 .. Len(ops')
  <2>1. addLastHint \in 0 .. Len(ops)
    BY <1>1 DEF SetTypes
  <2>2. addLastHint' \in {addLastHint, NoHint, Len(ops')}
    BY FormSteps
    DEF Next, Keys, newSetView, Up, Down, Add, PromptEsc, EnterRefused, Enter,
        Confirm, Delete, Decline, Back, Outside, SetElementDone, setOpErrMsg,
        ShowError, setAddErr, Flush, vars, world, prompt
  <2> QED BY <1>2, <2>1, <2>2 DEF NoHint
<1> DEFINE Switches ==
             /\ open' \in BOOLEAN /\ showAddPrompt' \in BOOLEAN
             /\ addErr' \in BOOLEAN /\ showDelete' \in BOOLEAN
             /\ statusMsg' \in BOOLEAN /\ seen' \in {"fresh", "changed", "blind"}
             /\ setCreate' \in {"none", "shown", "behind"}
<1>6. Switches
  <2>1. /\ open \in BOOLEAN /\ showAddPrompt \in BOOLEAN
        /\ addErr \in BOOLEAN /\ showDelete \in BOOLEAN
        /\ statusMsg \in BOOLEAN /\ seen \in {"fresh", "changed", "blind"}
        /\ setCreate \in {"none", "shown", "behind"}
    BY <1>1 DEF SetTypes
  <2>2. CASE newSetView
    BY <2>1, <2>2 DEF newSetView, prompt, world
  <2>3. CASE Keys
    <3>1. CASE Up \/ Down \/ Back
      BY <2>1, <3>1 DEF Up, Down, Back, prompt, AnyKey, world
    <3>2. CASE Add \/ PromptEsc \/ EnterRefused
      BY <2>1, <3>2 DEF Add, PromptEsc, EnterRefused, setAddErr, AnyKey, world
    <3>3. ASSUME NEW typed \in Inputs, Enter(typed) PROVE Switches
      BY <2>1, <3>3 DEF Enter, AnyKey, world
    <3>4. CASE Delete \/ Decline
      BY <2>1, <3>4 DEF Delete, Decline, prompt, AnyKey, world
    <3>5. CASE Confirm
      BY <2>1, <3>5 DEF Confirm, prompt, AnyKey, world
    <3> QED BY <2>3, <3>1, <3>2, <3>3, <3>4, <3>5 DEF Keys
  <2>4. CASE Outside
    BY <2>1, <2>4 DEF Outside, prompt
  <2>5. ASSUME NEW o \in DOMAIN ops,
               Flush(o) \/ SetElementDone(o) \/ setOpErrMsg(o)
        PROVE  Switches
    BY <2>1, <2>5 DEF Flush, SetElementDone, setOpErrMsg, ShowError,
       setAddErr, RefreshElements, world, prompt
  <2>6. CASE UNCHANGED vars
    BY <2>1, <2>6 DEF vars, world, prompt
  <2>7. CASE setCreateSelectedMsg \/ SetCreateBack
    BY <2>1, <2>7 DEF setCreateSelectedMsg, SetCreateBack, prompt
  <2>8. CASE AnsweredElsewhere
    BY <2>1, <2>8 DEF AnsweredElsewhere, ShowError, setAddErr, prompt
  <2> QED BY <2>2, <2>3, <2>4, <2>5, <2>6, <2>7, <2>8 DEF Next
<1>7. odd' \subseteq {"upside down", "top", "split", "outside"}
  <2>1. \A o : Oddities(o) \subseteq {"upside down", "top", "split"}
    BY DEF Oddities
  <2>2. \/ odd' = odd \/ odd' = odd \cup {"outside"}
        \/ \E o : odd' = odd \cup Oddities(o)
    <3>1. ASSUME NEW o, Flush(o)
          PROVE  odd' = odd \/ odd' = odd \cup Oddities(o)
      BY <3>1 DEF Flush
    <3>2. CASE Outside
      BY <3>2 DEF Outside
    <3> QED
      BY FormSteps, <3>1, <3>2
      DEF Next, Keys, newSetView, Up, Down, Add, PromptEsc, EnterRefused,
          Enter, Confirm, Delete, Decline, Back, SetElementDone, setOpErrMsg,
          vars, world
  <2>3. odd \subseteq {"upside down", "top", "split", "outside"}
    BY <1>1 DEF SetTypes
  <2> QED BY <2>1, <2>2, <2>3
<1>8. outside' \in 0 .. MaxOutside
  <2>1. outside' = outside \/ (outside < MaxOutside /\ outside' = outside + 1)
    <3>1. CASE Outside
      BY <3>1 DEF Outside
    <3> QED
      BY FormSteps, <3>1
      DEF Next, Keys, newSetView, Up, Down, Add, PromptEsc, EnterRefused,
          Enter, Confirm, Delete, Decline, Back, SetElementDone, setOpErrMsg,
          Flush, vars, world
  <2>2. outside \in 0 .. MaxOutside /\ MaxOutside \in Nat
    BY <1>1, SetViewAssumption DEF SetTypes
  <2> QED BY <2>1, <2>2
<1> QED BY <1>1, <1>2, <1>3, <1>4, <1>5, <1>6, <1>7, <1>8 DEF SetTypes

(* A command that was handled as refused has taken its hint away.          *)
LEMMA HintKept ==
  ASSUME SetInv, [Next]_vars
  PROVE  HintInv'
<1>1. /\ ops \in Seq(Op) /\ Len(ops) \in Nat /\ DOMAIN ops = 1 .. Len(ops)
      /\ addLastHint \in 0 .. Len(ops) /\ kind' = kind /\ SetTypes
  <2>1. kind' = kind
    BY KindKept
  <2> QED BY <2>1, LenProperties DEF SetInv, SetTypes
<1>2. /\ showAddPrompt => open
      /\ addLastHint # NoHint => showAddPrompt
      /\ addLastHint # NoHint =>
           /\ addLastHint \in 1 .. Len(ops)
           /\ \/ ops[addLastHint].at \in {"sent", "done", "strayed"}
              \/ ops[addLastHint].ok
  BY <1>1 DEF SetInv, HintInv, HintIsTrue, NoHint
<1>3. /\ showAddPrompt' => open'
      /\ addLastHint' # NoHint => showAddPrompt'
  <2>1. CASE UNCHANGED <<open, prompt>>
    BY <1>2, <2>1 DEF prompt
  <2>2. CASE newSetView
    BY <1>2, <2>2 DEF newSetView, prompt
  <2>3. CASE Back
    BY <1>2, <2>3 DEF Back, Browsing, IsModal, prompt
  <2>4. CASE Add \/ PromptEsc \/ EnterRefused
    BY <1>2, <2>4 DEF Add, PromptEsc, EnterRefused, Browsing, setAddErr
  <2>5. ASSUME NEW typed \in Inputs, Enter(typed)
        PROVE  /\ showAddPrompt' => open'
               /\ addLastHint' # NoHint => showAddPrompt'
    BY <1>2, <2>5 DEF Enter
  <2>6. ASSUME NEW o, setOpErrMsg(o)
        PROVE  /\ showAddPrompt' => open'
               /\ addLastHint' # NoHint => showAddPrompt'
    BY <1>2, <2>6 DEF setOpErrMsg, ShowError, setAddErr, prompt
  <2>7. ASSUME setCreateSelectedMsg \/ SetCreateBack \/ AnsweredElsewhere
        PROVE  /\ showAddPrompt' => open'
               /\ addLastHint' # NoHint => showAddPrompt'
    <3>1. \/ /\ UNCHANGED <<open, showAddPrompt>>
             /\ addLastHint' \in {addLastHint, NoHint}
          \/ showAddPrompt' = FALSE /\ addLastHint' = NoHint
      BY <2>7, FormSteps
    <3>2. /\ showAddPrompt => open
          /\ addLastHint # NoHint => showAddPrompt
      BY <1>2
    <3> QED BY <3>1, <3>2
  <2> QED
    BY <2>1, <2>2, <2>3, <2>4, <2>5, <2>6, <2>7
    DEF Next, Keys, Up, Down, Confirm, Delete, Decline, Outside,
        SetElementDone, Flush, vars
<1>4. HintIsTrue'
  <2>1. ASSUME NEW typed \in Inputs, Enter(typed) PROVE HintIsTrue'
    <3> DEFINE new == [cmd |-> "add", range |-> typed, at |-> "sent",
                       ok |-> FALSE]
    <3>1. new \in Op /\ ops' = Append(ops, new) /\ addLastHint' = Len(ops')
      BY <2>1, SetViewAssumption DEF Op, Enter, Start_
    <3>2. ops'[Len(ops')] = new
      BY <3>1, <1>1, AppendProperties
    <3> QED BY <3>1, <3>2 DEF HintIsTrue
  <2>2. CASE Confirm
    <3>1. addLastHint' = addLastHint
      BY <2>2 DEF Confirm, prompt
    <3>2. \/ ops' = ops
          \/ ops' = Append(ops, [cmd |-> "delete", at |-> "sent", ok |-> FALSE,
                                 range |-> elements[cursor + 1]])
      BY <2>2 DEF Confirm, Start_
    <3>3. addLastHint # NoHint => ops'[addLastHint] = ops[addLastHint]
      BY <1>1, <3>2 DEF NoHint
    <3> QED BY <1>2, <3>1, <3>3 DEF HintIsTrue
  <2>3. ASSUME NEW o \in DOMAIN ops, Flush(o) PROVE HintIsTrue'
    <3>1. addLastHint' = addLastHint /\ ops[o].at = "sent"
      BY <2>3 DEF Flush, prompt
    <3>2. PICK new : ChangedOp(o, new) /\ new.at = "done"
      BY <1>1, <2>3, FlushChanges
    <3>3. \A i \in 1 .. Len(ops) : ops'[i] = IF i = o THEN new ELSE ops[i]
      BY <1>1, <3>2, ChangedOpFacts
    <3> QED BY <1>2, <3>1, <3>2, <3>3 DEF HintIsTrue
  <2>4. ASSUME NEW o \in DOMAIN ops, SetElementDone(o) PROVE HintIsTrue'
    <3>1. addLastHint' = addLastHint /\ ops[o].ok
      BY <2>4 DEF SetElementDone, prompt
    <3>2. PICK new : ChangedOp(o, new) /\ new.ok = ops[o].ok
      BY <1>1, <2>4, AnswerChanges DEF SetElementDone
    <3>3. \A i \in 1 .. Len(ops) : ops'[i] = IF i = o THEN new ELSE ops[i]
      BY <1>1, <3>2, ChangedOpFacts
    <3> QED BY <1>2, <3>1, <3>2, <3>3 DEF HintIsTrue
  <2>5. ASSUME NEW o \in DOMAIN ops, setOpErrMsg(o) PROVE HintIsTrue'
    <3>1. CASE setCreate # "none"
      <4>1. addLastHint' = addLastHint /\ Answered(o, "strayed")
        BY <2>5, <3>1 DEF setOpErrMsg, prompt
      <4>2. PICK new : ChangedOp(o, new) /\ new.at = "strayed"
        BY <1>1, <4>1, AnswerChanges
      <4>3. \A i \in 1 .. Len(ops) : ops'[i] = IF i = o THEN new ELSE ops[i]
        BY <1>1, <4>2, ChangedOpFacts
      <4> QED BY <1>2, <4>1, <4>2, <4>3 DEF HintIsTrue
    <3>2. CASE setCreate = "none"
      <4>1. addLastHint' = NoHint
        BY <1>2, <2>5, <3>2 DEF setOpErrMsg, ShowError, setAddErr, prompt
      <4> QED BY <4>1 DEF HintIsTrue
    <3> QED BY <3>1, <3>2
  <2>6. CASE addLastHint' \in {addLastHint, NoHint} /\ ops' = ops
    BY <1>2, <2>6 DEF HintIsTrue
  <2> QED
    BY FormSteps, <2>1, <2>2, <2>3, <2>4, <2>5, <2>6
    DEF Next, Keys, newSetView, Up, Down, Add, PromptEsc, EnterRefused,
        Delete, Decline, Back, Outside, setAddErr, vars, prompt
<1> QED BY <1>3, <1>4 DEF HintInv

(* A view that has not seen the last change will be told to read again.    *)
LEMMA RowsKept ==
  ASSUME SetInv, [Next]_vars
  PROVE  /\ open' /\ seen' = "fresh" => elements' \in Readings'
         /\ open' /\ seen' = "changed" =>
              \E o \in 1 .. Len(ops') : ops'[o].at = "done" /\ ops'[o].ok
<1>1. /\ ops \in Seq(Op) /\ Len(ops) \in Nat /\ DOMAIN ops = 1 .. Len(ops)
      /\ kind' = kind /\ SetTypes
  <2>1. kind' = kind
    BY KindKept
  <2> QED BY <2>1, LenProperties DEF SetInv, SetTypes
<1>2. /\ open /\ seen = "fresh" => elements \in Readings
      /\ open /\ seen = "changed" =>
           \E o \in 1 .. Len(ops) : ops[o].at = "done" /\ ops[o].ok
  BY DEF SetInv, RowsInv
<1>3. kernel' = kernel => Readings' = Readings
  BY <1>1 DEF Readings
<1> DEFINE Told == \E i \in 1 .. Len(ops') : ops'[i].at = "done" /\ ops'[i].ok
           Both == /\ open' /\ seen' = "fresh" => elements' \in Readings'
                   /\ open' /\ seen' = "changed" => Told
<1>4. ASSUME NEW o \in DOMAIN ops, Flush(o) PROVE Both
  <2>1. UNCHANGED <<open, elements>>
    BY <1>4 DEF Flush, rows
  <2>2. PICK new : /\ ChangedOp(o, new) /\ new.at = "done"
                   /\ \/ new.ok /\ Flushed(o)
                      \/ new.ok = ops[o].ok /\ UNCHANGED <<kernel, odd, seen>>
    BY <1>1, <1>4, FlushChanges
  <2>3. /\ Len(ops') = Len(ops)
        /\ \A i \in 1 .. Len(ops) : ops'[i] = IF i = o THEN new ELSE ops[i]
    BY <1>1, <2>2, ChangedOpFacts
  <2>4. CASE new.ok /\ Flushed(o) /\ ~UNCHANGED <<kernel, odd, seen>>
    <3>1. seen' # "fresh"
      BY <2>4 DEF Flushed
    <3>2. Told
      BY <1>1, <2>2, <2>3, <2>4
    <3> QED BY <3>1, <3>2
  <2>5. CASE UNCHANGED <<kernel, odd, seen>>
    <3>1. open' /\ seen' = "fresh" => elements' \in Readings'
      BY <1>2, <1>3, <2>1, <2>5
    <3>2. ops[o].at = "sent"
      BY <1>4 DEF Flush
    <3>3. open' /\ seen' = "changed" => Told
      BY <1>2, <2>1, <2>3, <2>5, <3>2
    <3> QED BY <3>1, <3>3
  <2> QED BY <2>2, <2>4, <2>5
<1>5. ASSUME NEW o \in DOMAIN ops, NEW at \in {"handled", "strayed"},
             Answered(o, at), UNCHANGED <<world, open, rows, seen>>,
             ~ops[o].ok \/ ~open
      PROVE  Both
  <2>1. PICK new : ChangedOp(o, new)
    BY <1>1, <1>5, AnswerChanges
  <2>2. /\ Len(ops') = Len(ops)
        /\ \A i \in 1 .. Len(ops) : ops'[i] = IF i = o THEN new ELSE ops[i]
    BY <1>1, <2>1, ChangedOpFacts
  <2>3. open' /\ seen' = "fresh" => elements' \in Readings'
    BY <1>2, <1>3, <1>5 DEF world, rows
  <2>4. open' /\ seen' = "changed" => Told
    BY <1>2, <1>5, <2>2
  <2> QED BY <2>3, <2>4
<1>6. ASSUME NEW o \in DOMAIN ops, SetElementDone(o) PROVE Both
  <2>1. CASE open
    <3>1. RefreshElements /\ UNCHANGED world
      BY <1>6, <2>1 DEF SetElementDone
    <3> QED BY <1>3, <3>1 DEF RefreshElements, world
  <2>2. CASE ~open
    BY <1>5, <1>6, <2>2 DEF SetElementDone
  <2> QED BY <2>1, <2>2
<1>7. ASSUME NEW o \in DOMAIN ops, setOpErrMsg(o) PROVE Both
  <2>1. PICK at \in {"handled", "strayed"} : Answered(o, at)
    BY <1>7 DEF setOpErrMsg
  <2> QED BY <1>5, <1>7, <2>1 DEF setOpErrMsg
<1>8. ASSUME newSetView PROVE Both
  BY <1>3, <1>8 DEF newSetView, world
<1>9. ASSUME Outside PROVE Both
  BY <1>9 DEF Outside
<1>10. ASSUME Back PROVE Both
  BY <1>10 DEF Back
<1>11. ASSUME UNCHANGED <<kernel, open, elements, seen>>,
             ops' = ops \/ \E new : NewOp(new)
      PROVE  Both
  <2>1. open' /\ seen' = "fresh" => elements' \in Readings'
    BY <1>2, <1>3, <1>11
  <2>2. Len(ops) <= Len(ops') /\ \A i \in 1 .. Len(ops) : ops'[i] = ops[i]
    BY <1>1, <1>11, NewOpFacts
  <2>3. \A i \in 1 .. Len(ops) : i \in 1 .. Len(ops')
    BY <1>1, <1>11, NewOpFacts
  <2>4. open' /\ seen' = "changed" => Told
    BY <1>2, <1>11, <2>2, <2>3
  <2> QED BY <2>1, <2>4
<1>12. ASSUME NEW typed \in Inputs, Enter(typed) PROVE Both
  BY <1>11, <1>12, <1>1, EnterIsNew DEF Enter, world, rows
<1>13. ASSUME Confirm PROVE Both
  BY <1>11, <1>13, <1>1, ConfirmIsNew DEF Confirm, world, rows
<1>14. ASSUME \/ Up \/ Down \/ Add \/ PromptEsc \/ EnterRefused \/ Delete
              \/ Decline \/ UNCHANGED vars
       PROVE  Both
  <2>1. UNCHANGED <<kernel, open, elements, seen, ops>>
    BY <1>14 DEF Up, Down, Add, PromptEsc, EnterRefused, Delete, Decline,
                 vars, world, rows
  <2> QED BY <1>11, <2>1
<1>17. ASSUME setCreateSelectedMsg \/ SetCreateBack \/ AnsweredElsewhere
       PROVE  Both
  <2>1. CASE UNCHANGED <<kernel, open, elements, seen, ops>>
    BY <1>11, <2>1
  <2>2. CASE ~open'
    BY <2>2
  <2> QED BY <1>17, <2>1, <2>2, FormSteps
<1> HIDE DEF Both
<1>15. ASSUME Next PROVE Both
  BY <1>4, <1>6, <1>7, <1>8, <1>9, <1>10, <1>12, <1>13, <1>14, <1>15, <1>17
  DEF Next, Keys
<1>16. ASSUME UNCHANGED vars PROVE Both
  BY <1>14, <1>16
<1> QED BY <1>15, <1>16 DEF Both

(* A plain set matches its keys.                                           *)
LEMMA PlainCovered ==
  ASSUME NEW kd, ~kd.interval, NEW elems \in SUBSET Element, NEW c
  PROVE  c \in Covered(kd, elems) <=> \E e \in elems : ~e.end /\ e.key = c
<1>1. \A e \in elems : e.key \in Int /\ e.key .. e.key = {e.key}
  BY SetViewAssumption DEF Element, Key
<1>2. Ranges(kd, elems) =
        {[key |-> e.key, keyEnd |-> e.key] : e \in {x \in elems : ~x.end}}
  BY DEF Ranges
<1>3. ASSUME NEW r \in Ranges(kd, elems), c \in r.key .. r.keyEnd
      PROVE  \E e \in elems : ~e.end /\ e.key = c
  BY <1>1, <1>2, <1>3
<1>4. ASSUME NEW e \in elems, ~e.end, e.key = c
      PROVE  \E r \in Ranges(kd, elems) : c \in r.key .. r.keyEnd
  <2>1. [key |-> e.key, keyEnd |-> e.key] \in Ranges(kd, elems)
    BY <1>2, <1>4
  <2> QED BY <1>1, <1>4, <2>1
<1> QED BY <1>3, <1>4 DEF Covered

(* The same of what an interval set matches.                               *)
Addable(kd, elems, k, l, both) ==
  /\ kd \in Kinds /\ kd.interval
  /\ elems \in SUBSET Element /\ Closes(elems)
  /\ k \in Key /\ l \in Key /\ k <= l
  /\ both = {Start(k), Marker(incrementBytes(l))}
  /\ \/ both \subseteq elems /\ Free(elems, k, l)
     \/ \A c \in k .. l : ~Under(elems, c)

(* A range that can be added is matched from then on, and no other key.    *)
LEMMA AddedCovers ==
  ASSUME NEW kd, NEW elems, NEW k, NEW l, NEW both,
         Addable(kd, elems, k, l, both)
  PROVE  /\ Closes(elems \cup both)
         /\ \A c : c \in Covered(kd, elems \cup both) <=>
                    c \in Covered(kd, elems) \/ c \in k .. l
<1> DEFINE new == elems \cup both
<1>1. /\ new \in SUBSET Element /\ Closes(new)
      /\ \A c \in Key : Under(new, c) <=> Under(elems, c) \/ c \in k .. l
  BY AddedRange DEF Addable
<1> HIDE DEF new
<1>2. \A c \in k .. l : c \in Key
  BY SetViewAssumption DEF Key, Addable
<1>3. \A c : c \in Covered(kd, new) <=> c \in Covered(kd, elems) \/ c \in k .. l
  BY <1>1, <1>2, CoveredIsUnder DEF Addable
<1> QED BY <1>1, <1>3 DEF new

(* What an addition makes of the set.                                      *)
LEMMA AddStep ==
  ASSUME SetInv, NEW o \in 1 .. Len(ops), ops[o].at = "sent", AddSetElement(o),
         odd' = odd \cup Oddities(o)
  PROVE  /\ ~kind.interval => \A e \in kernel' : ~e.end
         /\ odd' \subseteq {"top"} =>
              /\ Closes(kernel')
              /\ Covered(kind, kernel') = Covered(kind, kernel) \cup
                   ops[o].range.key .. LastTyped(ops[o].range)
<1> DEFINE r == ops[o].range
           new == buildSetElements(kind, r)
<1>1. /\ ops[o] \in Op /\ ops[o].cmd = "add" /\ Legal(ops[o])
      /\ kernel \in SUBSET Element /\ kind \in Kinds
  BY ElementOfSeq, SetViewAssumption DEF SetInv, SetTypes, AddSetElement
<1>2. /\ r \in Range_ /\ ParseSetElementKey(kind, r)
      /\ kernel' = kernel \cup new /\ TakesAdd(kind, kernel, r)
  BY <1>1 DEF Op, Legal, AddSetElement
<1>3. /\ r.key \in Key /\ LastTyped(r) \in Key /\ Key = 0 .. KeySpace - 1
      /\ KeySpace \in Nat
  BY <1>2, BuiltAreElements, SetViewAssumption DEF Range_, Key
<1> HIDE DEF r
<1>4. CASE ~kind.interval
  <2>1. r.keyEnd = NoEnd
    BY <1>2, <1>4 DEF ParseSetElementKey
  <2>2. new = {Start(r.key)} /\ LastTyped(r) = r.key
    BY <1>2, <1>4, <2>1, BuiltAreElements DEF LastTyped
  <2>3. kernel' = kernel \cup {Start(r.key)} /\ \A e \in kernel : ~e.end
    BY <1>2, <1>4, <2>2 DEF SetInv, KernelInv
  <2>4. /\ Start(r.key).key = r.key /\ ~Start(r.key).end
        /\ Start(r.key) \in Element
    BY <1>3 DEF Start, Element
  <2>5. \A e \in kernel' : ~e.end
    BY <2>3, <2>4
  <2>6. Closes(kernel')
    BY <2>5 DEF Closes
  <2>7. \A c : c \in Covered(kind, kernel') <=>
                 c \in Covered(kind, kernel) \/ c = r.key
    BY <1>1, <1>4, <2>3, <2>4, PlainCovered
  <2>8. r.key .. LastTyped(r) = {r.key}
    BY <1>3, <2>2
  <2> QED BY <2>5, <2>6, <2>7, <2>8 DEF r
<1>5. CASE kind.interval
  <2>1. SUFFICES ASSUME odd' \subseteq {"top"}
                 PROVE  /\ Closes(kernel')
                        /\ Covered(kind, kernel') = Covered(kind, kernel) \cup
                             r.key .. LastTyped(r)
    BY <1>5 DEF r
  <2>2. odd \subseteq {"top"} /\ Oddities(o) \subseteq {"top"}
    BY <2>1
  <2>3. ~UpsideDown(r) /\ ~Splits(kernel, r)
    BY <1>1, <2>2 DEF Oddities, r
  <2>4. r.key <= LastTyped(r) /\ Free(kernel, r.key, LastTyped(r))
    BY <1>3, <2>3 DEF UpsideDown, Splits, Free
  <2>5. Closes(kernel)
    BY <2>2 DEF SetInv, KernelInv
  <2>6. new = {Start(r.key), Marker(incrementBytes(LastTyped(r)))}
    BY <1>2, <1>5, BuiltAreElements
  <2>7. \/ new \subseteq kernel /\ Free(kernel, r.key, LastTyped(r))
        \/ \A c \in r.key .. LastTyped(r) : ~Under(kernel, c)
    <3>1. CASE new \subseteq kernel
      BY <2>4, <3>1
    <3>2. CASE r.key .. LastTyped(r) \cap Covered(kind, kernel) = {}
      <4>1. \A c \in r.key .. LastTyped(r) : c \in Key
        BY <1>3
      <4> QED BY <1>1, <1>5, <3>2, <4>1, CoveredIsUnder
    <3> QED BY <1>2, <3>1, <3>2 DEF TakesAdd
  <2> HIDE DEF new
  <2>8. /\ Closes(kernel \cup new)
        /\ Covered(kind, kernel \cup new) =
             Covered(kind, kernel) \cup r.key .. LastTyped(r)
    <3>1. Addable(kind, kernel, r.key, LastTyped(r), new)
      BY <1>1, <1>3, <1>5, <2>4, <2>5, <2>6, <2>7 DEF Addable
    <3>2. Closes(kernel \cup new)
      BY <3>1, AddedCovers
    <3>3. \A c : c \in Covered(kind, kernel \cup new) <=>
                    c \in Covered(kind, kernel) \/ c \in r.key .. LastTyped(r)
      BY <3>1, AddedCovers
    <3> QED BY <3>2, <3>3
  <2> QED BY <1>2, <2>8
<1> QED BY <1>4, <1>5

(* A deletion leaves no marker behind.                                     *)
LEMMA DeleteStep ==
  ASSUME SetInv, NEW o \in 1 .. Len(ops), ops[o].at = "sent",
         DeleteSetElement(o), odd' = odd \cup Oddities(o)
  PROVE  /\ ~kind.interval => \A e \in kernel' : ~e.end
         /\ odd' \subseteq {"top"} => Closes(kernel')
<1> DEFINE r == ops[o].range
           gone == deleteSetElements(kind, r)
<1>1. /\ ops[o] \in Op /\ ops[o].cmd = "delete" /\ Legal(ops[o])
      /\ kernel \in SUBSET Element /\ kind \in Kinds
  BY ElementOfSeq, SetViewAssumption DEF SetInv, SetTypes, DeleteSetElement
<1>2. r \in Row /\ gone \subseteq kernel /\ kernel' = kernel \ gone
  BY <1>1 DEF Legal, DeleteSetElement, TakesDelete
<1>3. ~kind.interval => \A e \in kernel' : ~e.end
  BY <1>2 DEF SetInv, KernelInv
<1>4. ASSUME ~kind.interval PROVE Closes(kernel')
  BY <1>3, <1>4 DEF Closes
<1>5. ASSUME kind.interval, odd' \subseteq {"top"} PROVE Closes(kernel')
  <2>1. Closes(kernel) /\ Oddities(o) \subseteq {"top"}
    BY <1>5 DEF SetInv, KernelInv
  <2>2. ~Splits(kernel, r)
    BY <2>1 DEF Oddities
  <2> HIDE DEF r
  <2>3. /\ r.key \in Key /\ LastTyped(r) \in Key /\ r.key <= LastTyped(r) + 1
        /\ gone = {Start(r.key), Marker(incrementBytes(LastTyped(r)))}
    <3>1. /\ r.key \in Key /\ r.keyEnd \in Key \cup {NoEnd}
          /\ r.keyEnd # NoEnd => r.key <= r.keyEnd + 1
          /\ r.key \in Int
      BY <1>2, RowFacts
    <3>2. /\ LastTyped(r) \in Key /\ r.key <= LastTyped(r) + 1
      BY <3>1 DEF LastTyped
    <3>3. gone = {Start(r.key), Marker(incrementBytes(LastTyped(r)))}
      BY <1>5 DEF LastTyped, deleteSetElements
    <3> QED BY <3>1, <3>2, <3>3
  <2>4. Free(kernel, r.key, LastTyped(r))
    BY <2>2 DEF Free, Splits
  <2> HIDE DEF gone
  <2> QED BY <1>1, <1>2, <2>1, <2>3, <2>4, DeletedRange
<1> QED BY <1>3, <1>4, <1>5

(* So no step leaves a marker behind that closes nothing.                  *)
LEMMA KernelKept ==
  ASSUME SetInv, [Next]_vars
  PROVE  KernelInv'
<1> DEFINE Good == /\ ~kind.interval => \A e \in kernel' : ~e.end
                   /\ odd' \subseteq {"top"} => Closes(kernel')
<1>1. kind' = kind /\ DOMAIN ops = 1 .. Len(ops)
  <2>1. kind' = kind
    BY KindKept
  <2> QED BY <2>1, LenProperties DEF SetInv, SetTypes
<1>2. ASSUME UNCHANGED <<kernel, odd>> PROVE Good
  BY <1>2 DEF SetInv, KernelInv
<1>3. ASSUME NEW o \in DOMAIN ops, Flush(o) PROVE Good
  <2>1. ops[o].at = "sent" /\ (Flushed(o) \/ UNCHANGED <<kernel, odd>>)
    BY <1>3 DEF Flush, Flushed
  <2>2. CASE AddSetElement(o) /\ odd' = odd \cup Oddities(o)
    BY <1>1, <2>1, <2>2, AddStep
  <2>3. CASE DeleteSetElement(o) /\ odd' = odd \cup Oddities(o)
    BY <1>1, <2>1, <2>3, DeleteStep
  <2> QED BY <1>2, <2>1, <2>2, <2>3 DEF Flushed
<1>4. ASSUME Outside PROVE Good
  <2>1. "outside" \in odd'
    BY <1>4 DEF Outside
  <2>2. ASSUME ~kind.interval, NEW r \in Inputs, ParseSetElementKey(kind, r)
        PROVE  buildSetElements(kind, r) = {Start(r.key)} /\ ~Start(r.key).end
    BY <2>2 DEF buildSetElements, ParseSetElementKey, Start
  <2>3. ~kind.interval => \A e \in kernel : ~e.end
    BY DEF SetInv, KernelInv
  <2>4. ~kind.interval => \A e \in kernel' : ~e.end
    BY <1>4, <2>2, <2>3 DEF Outside
  <2> QED BY <2>1, <2>4
<1> HIDE DEF Good
<1>5. Good
  BY FormSteps, <1>2, <1>3, <1>4
  DEF Next, Keys, newSetView, Up, Down, Add, PromptEsc, EnterRefused, Enter,
      Confirm, Delete, Decline, Back, SetElementDone, setOpErrMsg, vars, world
<1> QED BY <1>1, <1>5 DEF KernelInv, Good

-----------------------------------------------------------------------------
(* What the pairing makes of ranges that keep apart. *)

ApartIn(elems) ==
  /\ Marker(0) \notin elems
  /\ \A s \in elems : ~s.end =>
       /\ Marker(LastKey(elems, s.key) + 1) \in elems
       /\ Start(LastKey(elems, s.key) + 1) \notin elems
       /\ Marker(s.key) \notin elems

(* A start is followed by its marker.                                      *)
LEMMA StartThenMarker ==
  ASSUME NEW elems \in SUBSET Element, ApartIn(elems),
         NEW es, Listing(elems, es),
         NEW n \in 1 .. Len(es), ~es[n].end
  PROVE  /\ n + 1 \in 1 .. Len(es)
         /\ es[n + 1] = Marker(LastKey(elems, es[n].key) + 1)
         /\ LastKey(elems, es[n].key) \in Key
         /\ LastKey(elems, es[n].key) + 1 \in Key
<1> DEFINE L == LastKey(elems, es[n].key)
<1>1. /\ Len(es) \in Nat /\ \A i \in 1 .. Len(es) : es[i] \in elems
      /\ \A e \in elems : \E i \in 1 .. Len(es) : es[i] = e
      /\ \A i, j \in 1 .. Len(es) : i < j => es[i].key <= es[j].key
      /\ \A i, j \in 1 .. Len(es) : i < j => es[i] # es[j]
  BY LenProperties DEF Listing
<1>2. /\ KeySpace \in Nat /\ Key = 0 .. KeySpace - 1
      /\ \A y \in elems : y.key \in Key /\ y.end \in BOOLEAN
      /\ \A y \in elems : y = [key |-> y.key, end |-> y.end]
  BY SetViewAssumption DEF Key, Element
<1>3. /\ es[n] \in elems /\ es[n].key \in Key
      /\ L \in es[n].key .. KeySpace - 1 /\ Free(elems, es[n].key, L)
  BY <1>1, <1>2, LastKeyFacts
<1>4. /\ Marker(L + 1) \in elems /\ Start(L + 1) \notin elems
      /\ Marker(es[n].key) \notin elems
  BY <1>3 DEF ApartIn
<1> HIDE DEF L
<1>5. /\ Marker(L + 1).key = L + 1
      /\ \A y \in elems : /\ y.key = es[n].key => y = es[n]
                          /\ y.key = L + 1 => y = Marker(L + 1)
  <2>1. Marker(L + 1).key = L + 1
    BY DEF Marker
  <2>2. \A y \in elems : y = Start(y.key) \/ y = Marker(y.key)
    BY <1>2 DEF Start, Marker
  <2>3. es[n] = Start(es[n].key)
    BY <1>2, <1>3 DEF Start
  <2> QED BY <1>4, <2>1, <2>2, <2>3
<1>6. PICK m \in 1 .. Len(es) : es[m] = Marker(L + 1)
  BY <1>1, <1>4
<1>7. m > n
  <2>1. m # n /\ ~(m < n)
    BY <1>1, <1>2, <1>3, <1>5, <1>6
  <2> QED BY <2>1, <1>1
<1>8. n + 1 \in 1 .. Len(es) /\ n < n + 1 /\ (m # n + 1 => n + 1 < m)
  BY <1>1, <1>7
<1>9. m = n + 1
  <2> SUFFICES ASSUME m # n + 1 PROVE FALSE
    OBVIOUS
  <2>1. /\ es[n + 1] \in elems /\ es[n].key <= es[n + 1].key
        /\ es[n + 1].key <= L + 1
        /\ es[n + 1] # es[n] /\ es[n + 1] # Marker(L + 1)
    BY <1>1, <1>5, <1>6, <1>8
  <2>2. es[n + 1].key # es[n].key /\ es[n + 1].key # L + 1
    BY <1>5, <2>1
  <2> QED BY <1>2, <1>3, <2>1, <2>2 DEF Free
<1>10. L \in Key /\ L + 1 \in Key
  BY <1>2, <1>3, <1>4, <1>5
<1> QED BY <1>6, <1>8, <1>9, <1>10 DEF L

(* What the start at n has become after the first k elements.              *)
RowAt(elems, es, n, k) ==
  [key |-> es[n].key,
   keyEnd |-> IF n = k THEN NoEnd ELSE LastKey(elems, es[n].key)]
PairedUpTo(elems, es, out, k) ==
  /\ \A i \in 1 .. Len(out) : \E n \in 1 .. k :
       ~es[n].end /\ out[i] = RowAt(elems, es, n, k) /\ (n = k => i = Len(out))
  /\ \A n \in 1 .. k : ~es[n].end => \E i \in 1 .. Len(out) :
       out[i] = RowAt(elems, es, n, k) /\ (n = k => i = Len(out))

(* One more element keeps it so.                                           *)
LEMMA PairingPairs ==
  ASSUME NEW elems \in SUBSET Element, ApartIn(elems),
         NEW es, Listing(elems, es), NEW f, Pairs(f, es),
         NEW k \in 0 .. Len(es) - 1, PairedUpTo(elems, es, f[k], k)
  PROVE  PairedUpTo(elems, es, f[k + 1], k + 1)
<1> DEFINE out == f[k]
           new == f[k + 1]
           el  == es[k + 1]
<1>1. /\ es \in Seq(Element) /\ Len(es) \in Nat /\ k \in Nat
      /\ k + 1 \in 1 .. Len(es) /\ k \in 0 .. Len(es)
      /\ \A n \in 1 .. k : n \in 1 .. Len(es) /\ n # k + 1
  BY LenProperties DEF Listing
<1>2. /\ el \in Element /\ new = FoldMarker(out, el)
  BY <1>1, ElementOfSeq DEF Pairs
<1>3. out \in Seq(Row) /\ \A i \in 1 .. Len(out) : out[i].key <= el.key
  BY <1>1, PairsAreRows
<1>4. Len(out) \in Nat
  BY <1>3, LenProperties
<1>5. /\ ~el.end =>
           /\ Len(new) = Len(out) + 1
           /\ \A i \in 1 .. Len(out) : new[i] = out[i]
           /\ new[Len(out) + 1] = [key |-> el.key, keyEnd |-> NoEnd]
      /\ el.end =>
           /\ Len(new) = Len(out)
           /\ \A i \in 1 .. Len(out) :
                new[i] = IF i = Len(out) /\ out[i].keyEnd = NoEnd
                         THEN [key |-> out[i].key,
                               keyEnd |-> decrementBytes(el.key)]
                         ELSE out[i]
  <2>1. Folded(out, el, new)
    BY <1>2, <1>3, FoldFacts
  <2> QED BY <2>1 DEF Folded
<1>6. ASSUME NEW n \in 1 .. k, ~es[n].end
      PROVE  /\ LastKey(elems, es[n].key) # NoEnd
             /\ n = k => /\ el.end
                         /\ decrementBytes(el.key) = LastKey(elems, es[n].key)
  <2>1. /\ n + 1 \in 1 .. Len(es)
        /\ es[n + 1] = Marker(LastKey(elems, es[n].key) + 1)
        /\ LastKey(elems, es[n].key) \in Key
        /\ LastKey(elems, es[n].key) + 1 \in Key
    BY <1>1, <1>6, StartThenMarker
  <2>2. LastKey(elems, es[n].key) \in Nat
    BY <2>1, SetViewAssumption DEF Key
  <2>3. decrementBytes(LastKey(elems, es[n].key) + 1) = LastKey(elems, es[n].key)
    BY <2>1, <2>2, Wraps
  <2>4. n = k => el.end /\ el.key = LastKey(elems, es[n].key) + 1
    BY <2>1 DEF Marker
  <2> QED BY <2>2, <2>3, <2>4 DEF NoEnd
<1>7. /\ \A i \in 1 .. Len(out) : \E n \in 1 .. k :
           /\ ~es[n].end /\ out[i] = RowAt(elems, es, n, k)
           /\ n = k => i = Len(out)
      /\ \A n \in 1 .. k : ~es[n].end => \E i \in 1 .. Len(out) :
           out[i] = RowAt(elems, es, n, k) /\ (n = k => i = Len(out))
  BY DEF PairedUpTo
<1> HIDE DEF out, new, el
<1>8. ASSUME NEW i \in 1 .. Len(out), NEW n \in 1 .. k, ~es[n].end,
             out[i] = RowAt(elems, es, n, k), n = k => i = Len(out)
      PROVE  i \in 1 .. Len(new) /\ new[i] = RowAt(elems, es, n, k + 1)
  <2>1. CASE n = k
    <3>1. /\ el.end /\ decrementBytes(el.key) = LastKey(elems, es[n].key)
          /\ i = Len(out) /\ out[i].keyEnd = NoEnd /\ out[i].key = es[n].key
      BY <1>6, <1>8, <2>1 DEF RowAt
    <3> QED BY <1>1, <1>5, <3>1 DEF RowAt
  <2>2. CASE n # k
    <3>1. out[i].keyEnd # NoEnd
      BY <1>6, <1>8, <2>2 DEF RowAt
    <3>2. new[i] = out[i] /\ i \in 1 .. Len(new)
      <4>1. CASE el.end
        BY <1>4, <1>5, <3>1, <4>1
      <4>2. CASE ~el.end
        BY <1>4, <1>5, <4>2
      <4> QED BY <4>1, <4>2
    <3> QED BY <1>1, <1>8, <2>2, <3>2 DEF RowAt
  <2> QED BY <2>1, <2>2
<1>9. ASSUME ~el.end
      PROVE  /\ Len(new) \in 1 .. Len(new)
             /\ new[Len(new)] = RowAt(elems, es, k + 1, k + 1)
  BY <1>4, <1>5, <1>9 DEF RowAt, el
<1>10. ASSUME NEW i \in 1 .. Len(new)
       PROVE  i \in 1 .. Len(out) \/ (~el.end /\ i = Len(new))
  BY <1>2, <1>4, <1>5 DEF Element
<1>11. ASSUME NEW i \in 1 .. Len(new)
       PROVE  \E n \in 1 .. k + 1 :
                /\ ~es[n].end /\ new[i] = RowAt(elems, es, n, k + 1)
                /\ n = k + 1 => i = Len(new)
  <2>1. CASE i \in 1 .. Len(out)
    <3>1. PICK n \in 1 .. k : /\ ~es[n].end /\ out[i] = RowAt(elems, es, n, k)
                              /\ n = k => i = Len(out)
      BY <1>7, <2>1
    <3>2. new[i] = RowAt(elems, es, n, k + 1)
      BY <1>8, <2>1, <3>1
    <3>3. n \in 1 .. k + 1 /\ n # k + 1
      BY <1>1
    <3> QED BY <3>1, <3>2, <3>3
  <2>2. CASE ~el.end /\ i = Len(new)
    <3>1. k + 1 \in 1 .. k + 1 /\ ~es[k + 1].end
      BY <1>1, <2>2 DEF el
    <3> QED BY <1>9, <2>2, <3>1
  <2> QED BY <1>10, <2>1, <2>2
<1>12. ASSUME NEW n \in 1 .. k + 1, ~es[n].end
       PROVE  \E i \in 1 .. Len(new) :
                new[i] = RowAt(elems, es, n, k + 1) /\ (n = k + 1 => i = Len(new))
  <2>1. CASE n = k + 1
    BY <1>9, <1>12, <2>1 DEF el
  <2>2. CASE n # k + 1
    <3>1. n \in 1 .. k
      BY <1>1, <2>2
    <3>2. PICK i \in 1 .. Len(out) : /\ out[i] = RowAt(elems, es, n, k)
                                     /\ n = k => i = Len(out)
      BY <1>7, <1>12, <3>1
    <3> QED BY <1>8, <1>12, <2>2, <3>1, <3>2
  <2> QED BY <2>1, <2>2
<1> QED BY <1>11, <1>12 DEF PairedUpTo, new

(* So one row for every range, from its first key to its last.             *)
LEMMA ApartPairing ==
  ASSUME NEW elems \in SUBSET Element, ApartIn(elems),
         NEW es, Listing(elems, es), NEW f, Pairs(f, es), NEW r
  PROVE  (\E i \in 1 .. Len(f[Len(es)]) : f[Len(es)][i] = r) <=>
         \E s \in elems : /\ ~s.end
                          /\ r = [key |-> s.key, keyEnd |-> LastKey(elems, s.key)]
<1> DEFINE N == Len(es)
           G == {k \in 0 .. N : PairedUpTo(elems, es, f[k], k)}
<1>1. /\ N \in Nat /\ \A n \in 1 .. N : es[n] \in elems
      /\ \A e \in elems : \E n \in 1 .. N : es[n] = e
  BY LenProperties DEF Listing
<1>2. 0 \in G
  <2>1. f[0] = << >> /\ Len(<< >>) = 0
    BY DEF Pairs
  <2> QED BY <1>1, <2>1 DEF PairedUpTo
<1>3. ASSUME NEW k \in 0 .. N - 1, k \in G PROVE k + 1 \in G
  BY <1>1, <1>3, PairingPairs
<1> HIDE DEF G
<1>4. 0 .. N \subseteq G
  BY <1>1, <1>2, <1>3, UpTo
<1>5. PairedUpTo(elems, es, f[N], N)
  BY <1>1, <1>4 DEF G
<1>6. ASSUME NEW n \in 1 .. N, ~es[n].end
      PROVE  RowAt(elems, es, n, N) =
               [key |-> es[n].key, keyEnd |-> LastKey(elems, es[n].key)]
  <2>1. n + 1 \in 1 .. N
    BY <1>6, StartThenMarker
  <2>2. n # N
    BY <1>1, <2>1
  <2> QED BY <2>2 DEF RowAt
<1>7. ASSUME NEW i \in 1 .. Len(f[N]), f[N][i] = r
      PROVE  \E s \in elems : /\ ~s.end
               /\ r = [key |-> s.key, keyEnd |-> LastKey(elems, s.key)]
  <2>1. PICK n \in 1 .. N : ~es[n].end /\ f[N][i] = RowAt(elems, es, n, N)
    BY <1>5 DEF PairedUpTo
  <2> QED BY <1>1, <1>6, <1>7, <2>1
<1>8. ASSUME NEW s \in elems, ~s.end,
             r = [key |-> s.key, keyEnd |-> LastKey(elems, s.key)]
      PROVE  \E i \in 1 .. Len(f[N]) : f[N][i] = r
  <2>1. PICK n \in 1 .. N : es[n] = s
    BY <1>1
  <2>2. PICK i \in 1 .. Len(f[N]) : f[N][i] = RowAt(elems, es, n, N)
    BY <1>5, <1>8, <2>1 DEF PairedUpTo
  <2> QED BY <1>6, <1>8, <2>1, <2>2
<1> QED BY <1>7, <1>8

(* A reading shows the ranges: of a plain set its keys.                    *)
LEMMA ReadingsAgree ==
  ASSUME SetTypes, KernelInv, kind.interval => Apart, elements \in Readings
  PROVE  Agree
<1>1. /\ kind \in Kinds /\ kernel \in SUBSET Element
      /\ elements \in Seq(Row) /\ DOMAIN elements = 1 .. Len(elements)
  BY SetViewAssumption, LenProperties DEF SetTypes
<1>2. PICK first \in BOOLEAN : elements = decodeSetElements(kind, kernel, first)
  BY DEF Readings
<1>3. ASSUME NEW row
      PROVE  (\E i \in 1 .. Len(elements) : elements[i] = row) <=>
             \E r \in Ranges(kind, kernel) : row = RowOf(r)
  <2>1. CASE kind.interval
    <3>1. ApartIn(kernel)
      <4>1. ASSUME NEW s \in kernel, ~s.end
            PROVE  [key |-> s.key, keyEnd |-> LastKey(kernel, s.key)]
                     \in Ranges(kind, kernel)
        BY <2>1, <4>1 DEF Ranges
      <4> QED BY <2>1, <4>1 DEF Apart, ApartIn
    <3> DEFINE es == Sorted(kernel, first)
    <3>2. Listing(kernel, es) /\ elements = pairIntervalElements(es)
      BY <1>1, <1>2, <2>1, SortedIsListing DEF decodeSetElements
    <3> HIDE DEF es
    <3>3. PICK f : Pairs(f, es) /\ pairIntervalElements(es) = f[Len(es)]
      BY <3>2, PairingIsStepwise DEF Listing
    <3>4. (\E i \in 1 .. Len(elements) : elements[i] = row) <=>
          \E s \in kernel : /\ ~s.end
            /\ row = [key |-> s.key, keyEnd |-> LastKey(kernel, s.key)]
      BY <1>1, <3>1, <3>2, <3>3, ApartPairing
    <3>5. (\E r \in Ranges(kind, kernel) : row = RowOf(r)) <=>
          \E s \in kernel : /\ ~s.end
            /\ row = [key |-> s.key, keyEnd |-> LastKey(kernel, s.key)]
      BY <2>1 DEF Ranges, RowOf
    <3> QED BY <3>4, <3>5
  <2>2. CASE ~kind.interval
    <3> DEFINE es == Sorted(kernel, TRUE)
    <3>1. Listing(kernel, es)
      BY <1>1, SortedIsListing
    <3>2. elements = [i \in DOMAIN es |-> [key |-> es[i].key, keyEnd |-> NoEnd]]
      BY <1>2, <2>2 DEF decodeSetElements
    <3> HIDE DEF es
    <3>3. DOMAIN elements = DOMAIN es /\ DOMAIN es = 1 .. Len(es)
      BY <3>1, <3>2, LenProperties DEF Listing
    <3>4. \A e \in kernel : ~e.end
      BY <2>2 DEF KernelInv
    <3>5. (\E i \in 1 .. Len(elements) : elements[i] = row) <=>
          \E e \in kernel : row = [key |-> e.key, keyEnd |-> NoEnd]
      BY <1>1, <3>1, <3>2, <3>3 DEF Listing
    <3>6. (\E r \in Ranges(kind, kernel) : row = RowOf(r)) <=>
          \E e \in kernel : row = [key |-> e.key, keyEnd |-> NoEnd]
      <4>1. /\ \A e \in kernel : [key |-> e.key, keyEnd |-> e.key]
                                  \in Ranges(kind, kernel)
            /\ \A r \in Ranges(kind, kernel) : \E e \in kernel :
                 r = [key |-> e.key, keyEnd |-> e.key]
        BY <2>2, <3>4 DEF Ranges
      <4>2. \A k : RowOf([key |-> k, keyEnd |-> k]) =
                     [key |-> k, keyEnd |-> NoEnd]
        BY <2>2 DEF RowOf
      <4>3. ASSUME NEW r \in Ranges(kind, kernel), row = RowOf(r)
            PROVE  \E e \in kernel : row = [key |-> e.key, keyEnd |-> NoEnd]
        <5>1. PICK e \in kernel : r = [key |-> e.key, keyEnd |-> e.key]
          BY <4>1
        <5> QED BY <4>2, <4>3, <5>1
      <4>4. ASSUME NEW e \in kernel, row = [key |-> e.key, keyEnd |-> NoEnd]
            PROVE  \E r \in Ranges(kind, kernel) : row = RowOf(r)
        <5>1. row = RowOf([key |-> e.key, keyEnd |-> e.key])
          BY <4>2, <4>4
        <5> QED BY <4>1, <5>1
      <4> QED BY <4>3, <4>4
    <3> QED BY <3>5, <3>6
  <2> QED BY <2>1, <2>2
<1>4. \A row : row \in ToSet(elements) <=>
               \E i \in 1 .. Len(elements) : elements[i] = row
  BY <1>1 DEF ToSet
<1> QED BY <1>3, <1>4 DEF Agree

-----------------------------------------------------------------------------
(* THEOREMS *)

(* The invariant holds at first, and every step keeps it.                  *)
LEMMA SetInvHolds == Spec => []SetInv
<1>1. ASSUME Init PROVE SetInv
  <2>1. << >> \in Seq(Row) /\ << >> \in Seq(Op) /\ Len(<< >>) = 0
    BY EmptySeq
  <2>2. SetTypes
    <3>1. /\ elements \in Seq(Row) /\ ops \in Seq(Op) /\ Len(ops) = 0
          /\ kind \in StartKinds /\ kernel \in SUBSET Element /\ cursor \in Nat
      BY <1>1, <2>1 DEF Init
    <3>2. /\ addLastHint \in 0 .. Len(ops) /\ outside \in 0 .. MaxOutside
          /\ \A o \in 1 .. Len(ops) : Legal(ops[o])
      BY <1>1, <3>1, SetViewAssumption DEF Init, NoHint
    <3> QED BY <1>1, <3>1, <3>2 DEF Init, SetTypes
  <2>3. KernelInv /\ HintInv /\ RowsInv
    BY <1>1 DEF Init, KernelInv, HintInv, RowsInv, HintIsTrue, NoHint, Closes
  <2> QED BY <2>2, <2>3 DEF SetInv
<1>2. ASSUME SetInv, [Next]_vars PROVE SetInv'
  <2>1. /\ cursor' < Len(elements') \/ (cursor' = 0 /\ elements' = << >>)
        /\ SetTypes'
    BY <1>2, TypesKept
  <2>2. RowsInv'
    BY <1>2, <2>1, RowsKept DEF RowsInv
  <2> QED BY <1>2, <2>1, <2>2, KernelKept, HintKept DEF SetInv
<1> QED BY <1>1, <1>2, PTL DEF Spec

(* The cursor is on a row whenever there are rows.                         *)
THEOREM CursorAlwaysOnRows == Spec => []CursorOnRows
<1>1. ASSUME SetInv PROVE CursorOnRows
  <2>1. Seq(Row) \subseteq Seq(Range_)
    <3> SUFFICES ASSUME NEW s \in Seq(Row) PROVE s \in Seq(Range_)
      OBVIOUS
    <3> QED BY LenProperties, ElementOfSeq, SeqDef, RowFacts
  <2>2. TypeOK
    BY <1>1, <2>1 DEF SetInv, SetTypes, TypeOK
  <2> QED BY <1>1, <2>2 DEF CursorOnRows, SetInv, RowsInv
<1> QED BY <1>1, SetInvHolds, PTL

(* "added" is left for an entry that was refused only if a form that was   *)
(* left behind has taken the refusal.                                      *)
THEOREM HintsAreTrue == Spec => []HintIsTrue
<1>1. ASSUME SetInv PROVE HintIsTrue
  BY <1>1 DEF SetInv, HintInv
<1> QED BY <1>1, SetInvHolds, PTL

(* Every marker closes a range, however additions and deletions overlap.   *)
THEOREM MarkersCloseRanges == Spec => []NoOrphans
<1>1. ASSUME SetInv PROVE NoOrphans
  BY <1>1 DEF SetInv, KernelInv, NoOrphans, MarkersClose, Closes
<1> QED BY <1>1, SetInvHolds, PTL

(* A view with nothing under way shows the ranges of the set.              *)
THEOREM RowsShowRanges == Spec => []ApartRowsAreRanges
<1>1. ASSUME SetInv PROVE ApartRowsAreRanges
  <2> SUFFICES ASSUME open, seen = "fresh" \/ (InFlight = {} /\ seen # "blind"),
                      kind.interval => Apart
               PROVE  Agree
    BY DEF ApartRowsAreRanges
  <2>1. seen = "fresh"
    <3> SUFFICES ASSUME InFlight = {}, seen = "changed" PROVE FALSE
      BY <1>1 DEF SetInv, SetTypes
    <3>1. PICK o \in 1 .. Len(ops) : ops[o].at = "done"
      BY <1>1 DEF SetInv, RowsInv
    <3>2. o \in DOMAIN ops
      BY <1>1, LenProperties DEF SetInv, SetTypes
    <3> QED BY <3>1, <3>2 DEF InFlight
  <2>2. elements \in Readings
    BY <1>1, <2>1 DEF SetInv, RowsInv
  <2> QED BY <1>1, <2>2, ReadingsAgree DEF SetInv
<1> QED BY <1>1, SetInvHolds, PTL

(* What was typed is what the set then matches, no key more or less.       *)
THEOREM AdditionsAreExact == Spec => AddsWhatWasTyped
<1> DEFINE Exact(o) ==
             ops[o].cmd = "add" /\ ~ops[o].ok /\ ops'[o].ok
             /\ odd' \subseteq {"top"} =>
                Covered(kind, kernel') = Covered(kind, kernel) \cup
                    ops[o].range.key .. LastTyped(ops[o].range)
<1>1. ASSUME SetInv, [Next]_vars, NEW o \in DOMAIN ops PROVE Exact(o)
  <2>1. SetTypes /\ o \in 1 .. Len(ops) /\ kind' = kind
    <3>1. kind' = kind
      BY <1>1, KindKept
    <3> QED BY <1>1, <3>1, LenProperties DEF SetInv, SetTypes
  <2>2. CASE ops'[o].ok = ops[o].ok
    BY <2>2
  <2>3. CASE Flush(o)
    <3>1. PICK new : /\ ChangedOp(o, new) /\ new.at = "done"
                     /\ \/ new.ok /\ Flushed(o)
                        \/ new.ok = ops[o].ok /\ UNCHANGED <<kernel, odd, seen>>
      BY <1>1, <2>1, <2>3, FlushChanges
    <3>2. ops'[o] = new /\ ops[o].at = "sent"
      BY <2>1, <2>3, <3>1, ChangedOpFacts DEF Flush
    <3>3. CASE new.ok = ops[o].ok
      BY <2>2, <3>2, <3>3
    <3>4. CASE Flushed(o) /\ ops[o].cmd = "add"
      <4>1. AddSetElement(o) /\ odd' = odd \cup Oddities(o)
        BY <3>4 DEF Flushed, DeleteSetElement
      <4> QED BY <1>1, <2>1, <3>2, <4>1, AddStep
    <3> QED BY <3>1, <3>3, <3>4
  <2>4. ASSUME NEW p \in DOMAIN ops, p # o, NEW at \in {"handled", "strayed"},
               Flush(p) \/ Answered(p, at)
        PROVE  ops'[o].ok = ops[o].ok
    <3>1. PICK new : ChangedOp(p, new)
      BY <2>1, <2>4, FlushChanges, AnswerChanges
    <3> QED BY <2>1, <2>4, <3>1, ChangedOpFacts
  <2>5. ASSUME NEW at \in {"handled", "strayed"}, Answered(o, at)
        PROVE  ops'[o].ok = ops[o].ok
    <3>1. PICK new : ChangedOp(o, new) /\ new.ok = ops[o].ok
      BY <1>1, <2>1, <2>5, AnswerChanges
    <3> QED BY <2>1, <3>1, ChangedOpFacts
  <2>6. ASSUME \/ \E typed \in Inputs : Enter(typed)
               \/ Confirm
        PROVE  ops'[o].ok = ops[o].ok
    <3>1. ops' = ops \/ \E new : NewOp(new)
      BY <2>1, <2>6, EnterIsNew, ConfirmIsNew
    <3> QED BY <2>1, <3>1, NewOpFacts
  <2>7. ASSUME UNCHANGED ops PROVE ops'[o].ok = ops[o].ok
    BY <2>7
  <2> QED
    BY FormSteps, <1>1, <2>2, <2>3, <2>4, <2>5, <2>6, <2>7
    DEF Next, Keys, newSetView, Up, Down, Add, PromptEsc, EnterRefused,
        Delete, Decline, Back, Outside, SetElementDone, setOpErrMsg, vars
<1>2. ASSUME SetInv, [Next]_vars PROVE [\A o \in DOMAIN ops : Exact(o)]_vars
  BY <1>1, <1>2
<1> QED BY <1>2, SetInvHolds, PTL DEF Spec, AddsWhatWasTyped

=============================================================================
