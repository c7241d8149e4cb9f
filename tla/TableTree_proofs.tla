-------------------------- MODULE TableTree_proofs ---------------------------
(***************************************************************************)
(* Proofs about TableTree, for any number of tables, leaves and changes.   *)
(***************************************************************************)
EXTENDS TableTree, SeqLemmas

-----------------------------------------------------------------------------
(* Lists of lists.  A list is flattened one part at a time: g[k] is what   *)
(* the first k parts make.                                                 *)
Flattens(g, ss) ==
  /\ g[0] = << >>
  /\ \A k \in 1 .. Len(ss) : g[k] = g[k - 1] \o ss[k]

(* FlattenSeq does so.                                                     *)
LEMMA FlattenIsStepwise ==
  ASSUME NEW S, NEW ss \in Seq(Seq(S))
  PROVE  \E g : Flattens(g, ss) /\ FlattenSeq(ss) = g[Len(ss)]
<1> DEFINE n == Len(ss)
           Step(g, i) == IF i = 1 THEN ss[i] ELSE g[i - 1] \o ss[i]
           G == {m \in 0 .. n : \E g : g = [i \in 1 .. m |-> Step(g, i)]}
           it == CHOOSE g : g = [i \in 1 .. n |-> Step(g, i)]
<1>1. n \in Nat /\ \A i \in 1 .. n : ss[i] \in Seq(S)
  BY LenProperties, ElementOfSeq
<1>2. FlattenSeq(ss) = IF n = 0 THEN ss ELSE it[n]
  BY DEF FlattenSeq
<1>3. 0 \in G
  <2> DEFINE g == [i \in 1 .. 0 |-> << >>]
  <2>1. g = [i \in 1 .. 0 |-> Step(g, i)]
    OBVIOUS
  <2> HIDE DEF g
  <2>2. \E j : j = [i \in 1 .. 0 |-> Step(j, i)]
    BY <2>1
  <2>3. 0 \in 0 .. n
    BY <1>1
  <2> HIDE DEF Step
  <2> QED BY <2>2, <2>3
<1>4. ASSUME NEW m \in 0 .. n - 1, m \in G
      PROVE  m + 1 \in G
  <2>1. PICK g : g = [i \in 1 .. m |-> Step(g, i)]
    BY <1>4
  <2> DEFINE h == [i \in 1 .. m + 1 |-> IF i = m + 1 THEN Step(g, i) ELSE g[i]]
  <2>2. ASSUME NEW i \in 1 .. m + 1 PROVE h[i] = Step(h, i)
    <3>1. i # 1 => i - 1 \in 1 .. m + 1 /\ i - 1 # m + 1
      BY <1>1
    <3>2. i # 1 => h[i - 1] = g[i - 1]
      BY <3>1
    <3>3. Step(h, i) = Step(g, i)
      BY <3>2
    <3>4. i # m + 1 => i \in 1 .. m
      BY <1>1
    <3>5. i # m + 1 => g[i] = Step(g, i)
      BY <2>1, <3>4
    <3> QED BY <3>3, <3>5
  <2>3. h = [i \in 1 .. m + 1 |-> h[i]]
    OBVIOUS
  <2> HIDE DEF h
  <2>4. h = [i \in 1 .. m + 1 |-> Step(h, i)]
    BY <2>2, <2>3
  <2>5. \E j : j = [i \in 1 .. m + 1 |-> Step(j, i)]
    BY <2>4
  <2>6. m + 1 \in 0 .. n
    BY <1>1
  <2> HIDE DEF Step
  <2> QED BY <2>5, <2>6
<1>5. n \in G
  <2> HIDE DEF G
  <2>1. 0 .. n \subseteq G
    BY <1>1, <1>3, <1>4, UpTo
  <2> QED BY <1>1, <2>1
<1>6. it = [i \in 1 .. n |-> Step(it, i)]
  BY <1>5
<1> HIDE DEF it, G
<1> DEFINE f == [k \in 0 .. n |-> IF k = 0 THEN << >> ELSE it[k]]
<1>7. ASSUME NEW k \in 1 .. n PROVE f[k] = f[k - 1] \o ss[k]
  <2>1. k \in 0 .. n /\ k - 1 \in 0 .. n /\ k # 0
    BY <1>1
  <2>2. it[k] = Step(it, k)
    BY <1>6
  <2>3. k = 1 => << >> \o ss[k] = ss[k]
    BY <1>1, ConcatEmptySeq
  <2>4. k - 1 = 0 <=> k = 1
    BY <2>1
  <2> QED BY <2>1, <2>2, <2>3, <2>4
<1>8. f[0] = << >> /\ f[n] = FlattenSeq(ss)
  <2>1. n = 0 => ss = << >>
    BY EmptySeq
  <2> QED BY <1>1, <1>2, <2>1
<1> HIDE DEF f
<1> QED BY <1>7, <1>8 DEF Flattens

(* One part more.                                                          *)
Longer(S, ss, g, k) ==
  /\ g[k + 1] \in Seq(S) /\ ss[k + 1] \in Seq(S)
  /\ Len(g[k]) \in Nat /\ Len(ss[k + 1]) \in Nat
  /\ Len(g[k + 1]) = Len(g[k]) + Len(ss[k + 1])
  /\ \A p \in 1 .. Len(g[k]) : g[k + 1][p] = g[k][p]
  /\ \A q \in 1 .. Len(ss[k + 1]) : g[k + 1][Len(g[k]) + q] = ss[k + 1][q]

(* Every part makes the list longer by itself.                             *)
LEMMA FlattenStep ==
  ASSUME NEW S, NEW ss \in Seq(Seq(S)), NEW g, Flattens(g, ss),
         NEW k \in Nat, k < Len(ss), g[k] \in Seq(S)
  PROVE  Longer(S, ss, g, k)
<1>1. Len(ss) \in Nat
  BY LenProperties
<1>2. k + 1 \in 1 .. Len(ss) /\ k + 1 - 1 = k
  BY <1>1
<1>3. PICK x : x = ss[k + 1]
  OBVIOUS
<1>4. x \in Seq(S)
  BY <1>2, <1>3, ElementOfSeq
<1>5. g[k + 1] = g[k] \o x
  <2>1. PICK i : i = k + 1
    OBVIOUS
  <2>2. i \in 1 .. Len(ss) /\ i - 1 = k /\ x = ss[i]
    BY <1>2, <1>3, <2>1
  <2>3. g[i] = g[i - 1] \o ss[i]
    BY <2>2 DEF Flattens
  <2> QED BY <2>1, <2>2, <2>3
<1>6. PICK y : y = g[k]
  OBVIOUS
<1>7. y \in Seq(S) /\ g[k + 1] = y \o x
  BY <1>5, <1>6
<1>8. /\ y \o x \in Seq(S) /\ Len(y \o x) = Len(y) + Len(x)
      /\ \A i \in 1 .. Len(y) + Len(x) :
           (y \o x)[i] = IF i <= Len(y) THEN y[i] ELSE x[i - Len(y)]
  BY <1>4, <1>7, ConcatProperties
<1>9. Len(y) \in Nat /\ Len(x) \in Nat
  BY <1>4, <1>7, LenProperties
<1>10. \A p \in 1 .. Len(y) : (y \o x)[p] = y[p]
  <2> TAKE p \in 1 .. Len(y)
  <2>1. p \in 1 .. Len(y) + Len(x) /\ p <= Len(y)
    BY <1>9
  <2> QED BY <1>8, <2>1
<1>11. \A q \in 1 .. Len(x) : (y \o x)[Len(y) + q] = x[q]
  <2> TAKE q \in 1 .. Len(x)
  <2>1. /\ Len(y) + q \in 1 .. Len(y) + Len(x) /\ ~(Len(y) + q <= Len(y))
        /\ Len(y) + q - Len(y) = q
    BY <1>9
  <2> QED BY <1>8, <2>1
<1> QED BY <1>3, <1>4, <1>6, <1>7, <1>8, <1>9, <1>10, <1>11 DEF Longer

(* Where things are in a flattened list: every part lies together, at the  *)
(* place where the parts before it end.                                    *)
Lies(g, ss, k) ==
  /\ \A p \in 1 .. Len(g[k]) : \E j \in 1 .. k : \E q \in 1 .. Len(ss[j]) :
       p = Len(g[j - 1]) + q /\ g[k][p] = ss[j][q]
  /\ \A j \in 1 .. k : \A q \in 1 .. Len(ss[j]) :
       /\ Len(g[j - 1]) + q \in 1 .. Len(g[k])
       /\ g[k][Len(g[j - 1]) + q] = ss[j][q]

(* They lie so.                                                            *)
LEMMA FlattenFacts ==
  ASSUME NEW S, NEW ss \in Seq(Seq(S)), NEW g, Flattens(g, ss)
  PROVE  \A k \in 0 .. Len(ss) : g[k] \in Seq(S) /\ Lies(g, ss, k)
<1> DEFINE n == Len(ss)
           G == {k \in 0 .. n : g[k] \in Seq(S) /\ Lies(g, ss, k)}
<1>1. n \in Nat
  BY LenProperties
<1>2. 0 \in G
  <2>1. g[0] = << >>
    BY DEF Flattens
  <2>2. g[0] \in Seq(S) /\ Len(g[0]) = 0
    BY <2>1, EmptySeq
  <2>3. 0 \in 0 .. n
    BY <1>1
  <2> QED BY <2>2, <2>3 DEF Lies
<1>3. ASSUME NEW k \in 0 .. n - 1, k \in G PROVE k + 1 \in G
  <2>1. k \in Nat /\ k < n /\ k + 1 \in 0 .. n /\ k + 1 - 1 = k
    BY <1>1
  <2>2. g[k] \in Seq(S) /\ Lies(g, ss, k)
    BY <1>3
  <2>3. PICK a \in Nat, b \in Nat, l \in Nat :
          /\ a = Len(g[k]) /\ b = Len(ss[k + 1])
          /\ l = Len(g[k + 1]) /\ l = a + b
          /\ g[k + 1] \in Seq(S)
          /\ \A p \in 1 .. a : g[k + 1][p] = g[k][p]
          /\ \A q \in 1 .. b : g[k + 1][a + q] = ss[k + 1][q]
    <3>1. k < Len(ss) /\ g[k] \in Seq(S)
      BY <2>1, <2>2
    <3>2. /\ g[k + 1] \in Seq(S)
          /\ Len(g[k]) \in Nat /\ Len(ss[k + 1]) \in Nat
          /\ Len(g[k + 1]) = Len(g[k]) + Len(ss[k + 1])
          /\ \A p \in 1 .. Len(g[k]) : g[k + 1][p] = g[k][p]
          /\ \A q \in 1 .. Len(ss[k + 1]) :
               g[k + 1][Len(g[k]) + q] = ss[k + 1][q]
      <4>1. Longer(S, ss, g, k)
        BY <2>1, <3>1, FlattenStep
      <4> QED BY <4>1 DEF Longer
    <3>3. Len(g[k + 1]) \in Nat
      BY <3>2, LenProperties
    <3> QED BY <3>2, <3>3
  <2>7. l = a + b /\ a \in Nat /\ b \in Nat /\ l \in Nat
    BY <2>3
  <2>4. ASSUME NEW p \in 1 .. l
        PROVE  \E j \in 1 .. k + 1 : \E q \in 1 .. Len(ss[j]) :
                 p = Len(g[j - 1]) + q /\ g[k + 1][p] = ss[j][q]
    <3>1. ASSUME p <= a
          PROVE  \E j \in 1 .. k + 1 : \E q \in 1 .. Len(ss[j]) :
                   p = Len(g[j - 1]) + q /\ g[k + 1][p] = ss[j][q]
      <4>1. p \in 1 .. a
        BY <2>3, <3>1
      <4>2. PICK j \in 1 .. k : \E q \in 1 .. Len(ss[j]) :
                 p = Len(g[j - 1]) + q /\ g[k][p] = ss[j][q]
        BY <2>2, <2>3, <4>1 DEF Lies
      <4>3. PICK q \in 1 .. Len(ss[j]) :
                 p = Len(g[j - 1]) + q /\ g[k][p] = ss[j][q]
        BY <4>2
      <4>4. j \in 1 .. k + 1 /\ g[k + 1][p] = g[k][p]
        BY <2>1, <2>3, <4>1
      <4> QED BY <4>3, <4>4
    <3>2. ASSUME ~(p <= a)
          PROVE  \E j \in 1 .. k + 1 : \E q \in 1 .. Len(ss[j]) :
                   p = Len(g[j - 1]) + q /\ g[k + 1][p] = ss[j][q]
      <4>1. PICK q \in 1 .. b : p = a + q
        <5>1. p - a \in 1 .. b /\ p = a + (p - a)
          BY <2>7, <3>2
        <5> QED BY <5>1
      <4>2. PICK j : j = k + 1
        OBVIOUS
      <4>3. j \in 1 .. k + 1 /\ j - 1 = k
        BY <2>1, <4>2
      <4>4. g[k + 1][p] = ss[j][q] /\ p = Len(g[j - 1]) + q
        BY <2>3, <4>1, <4>2, <4>3
      <4>5. q \in 1 .. Len(ss[j])
        BY <2>3, <4>2
      <4> QED BY <4>3, <4>4, <4>5
    <3> QED BY <3>1, <3>2
  <2>5. ASSUME NEW j \in 1 .. k + 1, NEW q \in 1 .. Len(ss[j])
        PROVE  /\ Len(g[j - 1]) + q \in 1 .. l
               /\ g[k + 1][Len(g[j - 1]) + q] = ss[j][q]
    <3>1. ASSUME j = k + 1
          PROVE  /\ Len(g[j - 1]) + q \in 1 .. l
                 /\ g[k + 1][Len(g[j - 1]) + q] = ss[j][q]
      <4>1. Len(g[j - 1]) = a /\ q \in 1 .. b
        BY <2>1, <2>3, <3>1
      <4>2. a + q \in 1 .. l
        BY <2>7, <4>1
      <4> QED BY <2>3, <3>1, <4>1, <4>2
    <3>2. ASSUME j # k + 1
          PROVE  /\ Len(g[j - 1]) + q \in 1 .. l
                 /\ g[k + 1][Len(g[j - 1]) + q] = ss[j][q]
      <4>1. j \in 1 .. k
        BY <2>1, <3>2
      <4>2. PICK p \in 1 .. a : p = Len(g[j - 1]) + q /\ g[k][p] = ss[j][q]
        BY <2>2, <2>3, <4>1 DEF Lies
      <4>3. p \in 1 .. l
        BY <2>7
      <4> QED BY <2>3, <4>2, <4>3
    <3> QED BY <3>1, <3>2
  <2>6. Lies(g, ss, k + 1)
    BY <2>3, <2>4, <2>5 DEF Lies
  <2> HIDE DEF n
  <2> QED BY <2>1, <2>3, <2>6
<1> HIDE DEF G
<1>4. 0 .. n \subseteq G
  BY <1>1, <1>2, <1>3, UpTo
<1> QED BY <1>4 DEF G

(* A list whose parts are no shorter is no shorter.                        *)
LEMMA FlattenIsMonotone ==
  ASSUME NEW S, NEW ss \in Seq(Seq(S)), NEW tt \in Seq(Seq(S)),
         NEW g, Flattens(g, ss), NEW h, Flattens(h, tt),
         NEW m \in Nat, m <= Len(ss), m <= Len(tt),
         \A i \in 1 .. m : Len(ss[i]) <= Len(tt[i])
  PROVE  Len(g[m]) <= Len(h[m])
<1> DEFINE G == {k \in 0 .. m : Len(g[k]) <= Len(h[k])}
<1>1. Len(ss) \in Nat /\ Len(tt) \in Nat
  BY LenProperties
<1>2. ASSUME NEW k \in 0 .. m PROVE g[k] \in Seq(S) /\ h[k] \in Seq(S)
  <2>1. k \in 0 .. Len(ss) /\ k \in 0 .. Len(tt)
    BY <1>1
  <2>2. g[k] \in Seq(S)
    BY <2>1, FlattenFacts
  <2>3. h[k] \in Seq(S)
    BY <2>1, FlattenFacts
  <2> QED BY <2>2, <2>3
<1>3. 0 \in G
  BY EmptySeq DEF Flattens
<1>4. ASSUME NEW k \in 0 .. m - 1, k \in G PROVE k + 1 \in G
  <2>1. /\ k \in Nat /\ k < Len(ss) /\ k < Len(tt)
        /\ k + 1 \in 1 .. m /\ k \in 0 .. m /\ k + 1 \in 0 .. m
    BY <1>1
  <2>2. /\ Len(g[k]) \in Nat /\ Len(ss[k + 1]) \in Nat
        /\ Len(g[k + 1]) = Len(g[k]) + Len(ss[k + 1])
    <3>1. g[k] \in Seq(S)
      BY <1>2, <2>1
    <3>2. Longer(S, ss, g, k)
      BY <2>1, <3>1, FlattenStep
    <3> QED BY <3>2 DEF Longer
  <2>3. /\ Len(h[k]) \in Nat /\ Len(tt[k + 1]) \in Nat
        /\ Len(h[k + 1]) = Len(h[k]) + Len(tt[k + 1])
    <3>1. h[k] \in Seq(S)
      BY <1>2, <2>1
    <3>2. Longer(S, tt, h, k)
      BY <2>1, <3>1, FlattenStep
    <3> QED BY <3>2 DEF Longer
  <2>4. Len(g[k]) <= Len(h[k])
    BY <1>4
  <2>5. Len(ss[k + 1]) <= Len(tt[k + 1])
    BY <2>1
  <2>6. Len(g[k + 1]) <= Len(h[k + 1])
    <3>1. PICK a, b, c, d : /\ a = Len(g[k]) /\ b = Len(ss[k + 1])
                           /\ c = Len(h[k]) /\ d = Len(tt[k + 1])
      OBVIOUS
    <3>2. /\ a \in Nat /\ b \in Nat /\ c \in Nat /\ d \in Nat
          /\ a <= c /\ b <= d
      BY <2>2, <2>3, <2>4, <2>5, <3>1
    <3>3. a + b <= c + d
      BY <3>2
    <3> QED BY <2>2, <2>3, <3>1, <3>3
  <2> QED BY <2>1, <2>6
<1> HIDE DEF G
<1>5. 0 .. m \subseteq G
  BY <1>3, <1>4, UpTo
<1> QED BY <1>5 DEF G

-----------------------------------------------------------------------------
(* What holds of the tree, and of every answer that may replace it: a      *)
(* table is listed once.                                                   *)
Tables == ToSet(TableSeq)
Leaves == ToSet(LeafSeq)
Row    == Tables \X (Leaves \cup {Root})
Node   == [table : Tables, expanded : BOOLEAN, leaves : Seq(Leaves)]
Tree   == {ns \in Seq(Node) :
             \A i, j \in 1 .. Len(ns) : ns[i].table = ns[j].table => i = j}

(* Every variable has its type.                                            *)
Places ==
  /\ cursor \in Nat /\ scrollOffset \in Nat
  /\ matches \in Seq(Nat) /\ active \in Nat
  /\ active < Len(matches) \/ active = 0
  /\ query \in Queries \cup {{}}
Trees == nodes \in Tree /\ answers \subseteq Tree
Kernels ==
  /\ DOMAIN kernel \subseteq Tables
  /\ \A t \in DOMAIN kernel : kernel[t] \subseteq Leaves
  /\ changes \in 0 .. MaxChanges
Flags == {showDeleteConfirm, searchMode, hint, replaced, lowered}
           \subseteq BOOLEAN
Screens == maxHeight \in Heights \cup {0} /\ commands \in 0 .. MaxCommands

(* The hint on the screen is the one the newest timer takes away.          *)
Hints == /\ statusGen \in Nat /\ timers \subseteq 1 .. statusGen
         /\ HintHasItsTimer

(* The place of the cursor is inside the window.                           *)
InWindow == scrollOffset <= cursor /\ ~Below(cursor, scrollOffset)

(* Until a reload, the dialog is about the row under the cursor, and every *)
(* match is a row whose name the query matches, the cursor on the active   *)
(* one, and the window around it unless the terminal got lower.            *)
Asks == showDeleteConfirm /\ ~replaced => OnRow /\ Selected = asked
Matching ==
  searchMode /\ ~replaced =>
    /\ \A m \in 1 .. Len(matches) :
         /\ matches[m] < Len(rows)
         /\ NameOf(rows[matches[m] + 1]) \in query
    /\ matches # << >> =>
         /\ cursor = matches[active + 1]
         /\ lowered \/ InWindow
TreeInv == /\ Places /\ Trees /\ Kernels /\ Flags /\ Screens /\ Hints
           /\ Asks /\ Matching

-----------------------------------------------------------------------------
(* A node is drawn as a row for its table and rows for leaves below it.    *)
NodeRows(n, rs) ==
  /\ rs \in Seq(Row) /\ Len(rs) \in Nat /\ Len(rs) >= 1
  /\ rs[1] = <<n.table, Root>>
  /\ \A q \in 1 .. Len(rs) : rs[q][1] = n.table
  /\ \A q \in 1 .. Len(rs) : rs[q][2] = Root => q = 1
  /\ Len(rs) = IF n.expanded THEN Len(n.leaves) + 1 ELSE 1

(* RowsOf draws it so.                                                     *)
LEMMA RowsOfNode ==
  ASSUME NEW n \in Node
  PROVE  NodeRows(n, RowsOf(n))
<1> DEFINE h == << <<n.table, Root>> >>
           b == IF n.expanded THEN [i \in DOMAIN n.leaves |->
                                      <<n.table, n.leaves[i]>>]
                ELSE << >>
           l == IF n.expanded THEN Len(n.leaves) ELSE 0
<1>1. /\ n.table \in Tables /\ n.leaves \in Seq(Leaves)
      /\ Len(n.leaves) \in Nat /\ DOMAIN n.leaves = 1 .. Len(n.leaves)
      /\ n.expanded \in BOOLEAN
  BY LenProperties DEF Node
<1>2. \A i \in 1 .. Len(n.leaves) : n.leaves[i] \in Leaves /\ n.leaves[i] # Root
  BY <1>1, ElementOfSeq, TreeAssumption DEF Leaves
<1>3. h \in Seq(Row) /\ Len(h) = 1 /\ h[1] = <<n.table, Root>>
  BY <1>1 DEF Row
<1>4. /\ b \in Seq(Row) /\ Len(b) = l /\ l \in Nat
      /\ \A i \in 1 .. l : b[i][1] = n.table /\ b[i][2] # Root
  <2>1. CASE n.expanded
    <3>1. b \in [1 .. Len(n.leaves) -> Row]
      BY <1>1, <1>2, <2>1 DEF Row
    <3>2. b \in Seq(Row) /\ Len(b) = Len(n.leaves)
      BY <1>1, <3>1, IsASeq, LenProperties
    <3>3. \A i \in 1 .. Len(n.leaves) : b[i] = <<n.table, n.leaves[i]>>
      BY <1>1, <2>1
    <3> QED BY <1>1, <1>2, <2>1, <3>2, <3>3
  <2>2. CASE ~n.expanded
    BY <2>2, EmptySeq
  <2> QED BY <2>1, <2>2
<1>5. RowsOf(n) = h \o b
  BY DEF RowsOf
<1> HIDE DEF h, b
<1>6. /\ h \o b \in Seq(Row) /\ Len(h \o b) = Len(h) + Len(b)
      /\ \A i \in 1 .. Len(h) + Len(b) :
           (h \o b)[i] = IF i <= Len(h) THEN h[i] ELSE b[i - Len(h)]
  BY <1>3, <1>4, ConcatProperties
<1>7. PICK rs : rs = RowsOf(n)
  OBVIOUS
<1>8. l \in Nat /\ l = IF n.expanded THEN Len(n.leaves) ELSE 0
  BY <1>1
<1> HIDE DEF l
<1>9. /\ rs \in Seq(Row) /\ Len(rs) = l + 1
      /\ \A i \in 1 .. l + 1 : rs[i] = IF i <= 1 THEN h[i] ELSE b[i - 1]
  BY <1>3, <1>4, <1>5, <1>6, <1>7, <1>8
<1>10. rs[1] = <<n.table, Root>>
  <2>1. 1 \in 1 .. l + 1 /\ 1 <= 1
    BY <1>8
  <2> QED BY <1>3, <1>9, <2>1
<1>11. ASSUME NEW q \in 1 .. l + 1
       PROVE  rs[q][1] = n.table /\ (rs[q][2] = Root => q = 1)
  <2>1. CASE q = 1
    BY <1>10, <2>1
  <2>2. CASE q # 1
    <3>1. q - 1 \in 1 .. l /\ ~(q <= 1)
      BY <1>8, <2>2
    <3>2. rs[q] = b[q - 1]
      BY <1>9, <3>1
    <3> QED BY <1>4, <3>1, <3>2
  <2> QED BY <2>1, <2>2
<1>12. Len(rs) \in Nat /\ Len(rs) >= 1
  BY <1>8, <1>9
<1>13. Len(rs) = IF n.expanded THEN Len(n.leaves) + 1 ELSE 1
  BY <1>8, <1>9
<1> QED BY <1>7, <1>9, <1>10, <1>11, <1>12, <1>13 DEF NodeRows

(* The rows of a tree, part by part: g[k] holds the rows of the first k    *)
(* nodes.                                                                  *)
Parts(ns) == [i \in DOMAIN ns |-> RowsOf(ns[i])]
Drawing(ns, g) ==
  /\ Flattens(g, Parts(ns))
  /\ getFlattenedItems(ns) = g[Len(ns)]
  /\ \A k \in 0 .. Len(ns) : g[k] \in Seq(Row) /\ Lies(g, Parts(ns), k)

(* Every part is the rows of its node.                                     *)
LEMMA PartsOfTree ==
  ASSUME NEW ns \in Tree
  PROVE  /\ Parts(ns) \in Seq(Seq(Row)) /\ Len(Parts(ns)) = Len(ns)
         /\ Len(ns) \in Nat /\ DOMAIN ns = 1 .. Len(ns)
         /\ \A i \in 1 .. Len(ns) : /\ ns[i] \in Node
                                    /\ Parts(ns)[i] = RowsOf(ns[i])
                                    /\ NodeRows(ns[i], Parts(ns)[i])
<1>1. ns \in Seq(Node) /\ Len(ns) \in Nat /\ DOMAIN ns = 1 .. Len(ns)
  BY LenProperties DEF Tree
<1>2. \A i \in 1 .. Len(ns) : ns[i] \in Node
  BY <1>1, ElementOfSeq
<1>3. \A i \in 1 .. Len(ns) : Parts(ns)[i] = RowsOf(ns[i])
  BY <1>1 DEF Parts
<1>4. \A i \in 1 .. Len(ns) : NodeRows(ns[i], Parts(ns)[i])
  BY <1>2, <1>3, RowsOfNode
<1>5. Parts(ns) \in [1 .. Len(ns) -> Seq(Row)]
  <2>1. \A i \in 1 .. Len(ns) : RowsOf(ns[i]) \in Seq(Row)
    BY <1>3, <1>4 DEF NodeRows
  <2> QED BY <1>1, <2>1 DEF Parts
<1>6. Parts(ns) \in Seq(Seq(Row)) /\ Len(Parts(ns)) = Len(ns)
  BY <1>1, <1>5, IsASeq, LenProperties
<1> QED BY <1>1, <1>2, <1>3, <1>4, <1>6

(* Every tree is drawn so.                                                 *)
LEMMA TreeIsDrawn ==
  ASSUME NEW ns \in Tree
  PROVE  \E g : Drawing(ns, g)
<1>1. Parts(ns) \in Seq(Seq(Row)) /\ Len(Parts(ns)) = Len(ns)
  BY PartsOfTree
<1>2. PICK g : /\ Flattens(g, Parts(ns))
               /\ FlattenSeq(Parts(ns)) = g[Len(Parts(ns))]
  BY <1>1, FlattenIsStepwise
<1>3. \A k \in 0 .. Len(ns) : g[k] \in Seq(Row) /\ Lies(g, Parts(ns), k)
  BY <1>1, <1>2, FlattenFacts
<1>4. getFlattenedItems(ns) = FlattenSeq(Parts(ns))
  BY DEF getFlattenedItems, Parts
<1> QED BY <1>1, <1>2, <1>3, <1>4 DEF Drawing

(* The row of every node's table is where its part begins.                 *)
LEMMA RootIsDrawn ==
  ASSUME NEW ns \in Tree, NEW g, Drawing(ns, g), NEW j \in 1 .. Len(ns)
  PROVE  /\ Len(g[j - 1]) \in Nat
         /\ Len(g[j - 1]) + 1 \in 1 .. Len(getFlattenedItems(ns))
         /\ getFlattenedItems(ns)[Len(g[j - 1]) + 1] = <<ns[j].table, Root>>
<1>1. /\ Len(ns) \in Nat /\ Parts(ns)[j] = RowsOf(ns[j])
      /\ NodeRows(ns[j], Parts(ns)[j])
  BY PartsOfTree
<1>2. PICK r : r = Parts(ns)[j]
  OBVIOUS
<1>3. Len(r) \in Nat /\ Len(r) >= 1 /\ r[1] = <<ns[j].table, Root>>
  BY <1>1, <1>2 DEF NodeRows
<1>4. 1 \in 1 .. Len(Parts(ns)[j])
  BY <1>2, <1>3
<1>5. Len(ns) \in 0 .. Len(ns) /\ j - 1 \in 0 .. Len(ns)
  BY <1>1
<1>6. Lies(g, Parts(ns), Len(ns)) /\ g[j - 1] \in Seq(Row)
  BY <1>5 DEF Drawing
<1>7. /\ Len(g[j - 1]) + 1 \in 1 .. Len(g[Len(ns)])
      /\ g[Len(ns)][Len(g[j - 1]) + 1] = Parts(ns)[j][1]
  BY <1>4, <1>6 DEF Lies
<1>8. Len(g[j - 1]) \in Nat
  BY <1>6, LenProperties
<1> QED BY <1>2, <1>3, <1>7, <1>8 DEF Drawing

(* Every row belongs to a node, and the row of a table is where the part   *)
(* of that node begins.                                                    *)
LEMMA RowHasNode ==
  ASSUME NEW ns \in Tree, NEW g, Drawing(ns, g),
         NEW p \in 1 .. Len(getFlattenedItems(ns))
  PROVE  \E j \in 1 .. Len(ns) :
           /\ getFlattenedItems(ns)[p][1] = ns[j].table
           /\ getFlattenedItems(ns)[p][2] = Root => p = Len(g[j - 1]) + 1
<1>1. Len(ns) \in Nat /\ Len(ns) \in 0 .. Len(ns)
  BY PartsOfTree
<1>2. Lies(g, Parts(ns), Len(ns)) /\ p \in 1 .. Len(g[Len(ns)])
  BY <1>1 DEF Drawing
<1>3. PICK j \in 1 .. Len(ns) : \E q \in 1 .. Len(Parts(ns)[j]) :
        p = Len(g[j - 1]) + q /\ g[Len(ns)][p] = Parts(ns)[j][q]
  BY <1>2 DEF Lies
<1>4. PICK q \in 1 .. Len(Parts(ns)[j]) :
        p = Len(g[j - 1]) + q /\ g[Len(ns)][p] = Parts(ns)[j][q]
  BY <1>3
<1>5. NodeRows(ns[j], Parts(ns)[j])
  BY PartsOfTree
<1>6. PICK r : r = Parts(ns)[j]
  OBVIOUS
<1>7. r[q][1] = ns[j].table /\ (r[q][2] = Root => q = 1)
  BY <1>5, <1>6 DEF NodeRows
<1>8. getFlattenedItems(ns)[p] = r[q]
  BY <1>4, <1>6 DEF Drawing
<1>9. getFlattenedItems(ns)[p][2] = Root => p = Len(g[j - 1]) + 1
  BY <1>4, <1>7, <1>8
<1> QED BY <1>7, <1>8, <1>9

(* The rows are a list of rows.                                            *)
LEMMA RowsAreRows ==
  ASSUME NEW ns \in Tree
  PROVE  /\ getFlattenedItems(ns) \in Seq(Row)
         /\ Len(getFlattenedItems(ns)) \in Nat
         /\ DOMAIN getFlattenedItems(ns) = 1 .. Len(getFlattenedItems(ns))
<1>1. PICK g : Drawing(ns, g)
  BY TreeIsDrawn
<1>2. Len(ns) \in 0 .. Len(ns)
  BY PartsOfTree
<1>3. getFlattenedItems(ns) \in Seq(Row)
  BY <1>1, <1>2 DEF Drawing
<1> QED BY <1>3, LenProperties

(* A table that has a row in the tree has a root row, and RootRow finds    *)
(* it.                                                                     *)
LEMMA RootRowIsARow ==
  ASSUME nodes \in Tree, NEW p \in 1 .. Len(rows)
  PROVE  /\ RootRow(rows[p][1]) \in 0 .. Len(rows) - 1
         /\ RootRow(rows[p][1]) \in Nat
<1>1. PICK g : Drawing(nodes, g)
  BY TreeIsDrawn
<1>2. PICK j \in 1 .. Len(nodes) : rows[p][1] = nodes[j].table
  BY <1>1, RowHasNode DEF rows
<1>3. PICK l : l = Len(g[j - 1])
  OBVIOUS
<1>4. /\ l \in Nat /\ l + 1 \in 1 .. Len(rows)
      /\ rows[l + 1] = <<nodes[j].table, Root>>
  BY <1>1, <1>3, RootIsDrawn DEF rows
<1>5. Len(rows) \in Nat
  BY RowsAreRows DEF rows
<1>6. l \in 0 .. Len(rows) - 1
  BY <1>4, <1>5
<1>7. \E i \in 0 .. Len(rows) - 1 : rows[i + 1] = <<rows[p][1], Root>>
  BY <1>2, <1>4, <1>6
<1>8. RootRow(rows[p][1]) \in 0 .. Len(rows) - 1
  BY <1>7 DEF RootRow
<1> QED BY <1>5, <1>8

-----------------------------------------------------------------------------
(* Opening and closing nodes: the same nodes, open as o says.              *)
Opened(ns, ms, o) ==
  /\ ms \in Tree /\ Len(ms) = Len(ns)
  /\ \A i \in 1 .. Len(ns) :
       /\ ms[i].table = ns[i].table /\ ms[i].leaves = ns[i].leaves
       /\ ms[i].expanded = o[i]

(* Opening and closing nodes leaves a tree.                                *)
LEMMA OpeningIsATree ==
  ASSUME NEW ns \in Tree, NEW o, \A i \in DOMAIN ns : o[i] \in BOOLEAN,
         NEW ms, ms = [i \in DOMAIN ns |-> [ns[i] EXCEPT !.expanded = o[i]]]
  PROVE  Opened(ns, ms, o)
<1>1. /\ Len(ns) \in Nat /\ DOMAIN ns = 1 .. Len(ns)
      /\ \A i \in 1 .. Len(ns) : ns[i] \in Node
  BY PartsOfTree
<1>2. ASSUME NEW i \in 1 .. Len(ns)
      PROVE  /\ ms[i] \in Node
             /\ ms[i].table = ns[i].table /\ ms[i].leaves = ns[i].leaves
             /\ ms[i].expanded = o[i]
  <2>1. ns[i] \in Node /\ o[i] \in BOOLEAN
    BY <1>1
  <2>2. ms[i] = [ns[i] EXCEPT !.expanded = o[i]]
    BY <1>1
  <2>3. PICK n, b : n = ns[i] /\ b = o[i]
    OBVIOUS
  <2>4. n \in Node /\ b \in BOOLEAN /\ ms[i] = [n EXCEPT !.expanded = b]
    BY <2>1, <2>2, <2>3
  <2>5. [n EXCEPT !.expanded = b] = [table |-> n.table, expanded |-> b,
                                     leaves |-> n.leaves]
    BY <2>4 DEF Node
  <2>6. n.table \in Tables /\ n.leaves \in Seq(Leaves)
    BY <2>4 DEF Node
  <2> QED BY <2>3, <2>4, <2>5, <2>6 DEF Node
<1>3. ms \in [1 .. Len(ns) -> Node]
  BY <1>1, <1>2
<1>4. ms \in Seq(Node) /\ Len(ms) = Len(ns)
  BY <1>1, <1>3, IsASeq, LenProperties
<1>5. \A i, j \in 1 .. Len(ms) : ms[i].table = ms[j].table => i = j
  BY <1>2, <1>4 DEF Tree
<1> QED BY <1>2, <1>4, <1>5 DEF Opened, Tree

(* Opening every table hides no row.                                       *)
LEMMA OpeningHidesNothing ==
  ASSUME NEW ns \in Tree, NEW ms, NEW o, Opened(ns, ms, o),
         NEW n \in 0 .. Len(ns),
         \A i \in 1 .. n : o[i] = ns[i].expanded \/ o[i] = TRUE,
         NEW g, Drawing(ns, g), NEW h, Drawing(ms, h)
  PROVE  Len(g[n]) <= Len(h[n])
<1>1. /\ Len(ns) \in Nat /\ ms \in Tree /\ Len(ms) = Len(ns)
      /\ Parts(ns) \in Seq(Seq(Row)) /\ Len(Parts(ns)) = Len(ns)
      /\ Parts(ms) \in Seq(Seq(Row)) /\ Len(Parts(ms)) = Len(ns)
  BY PartsOfTree DEF Opened
<1>2. n \in Nat /\ n <= Len(Parts(ns)) /\ n <= Len(Parts(ms))
  BY <1>1
<1>3. ASSUME NEW i \in 1 .. n
      PROVE  Len(Parts(ns)[i]) <= Len(Parts(ms)[i])
  <2>1. i \in 1 .. Len(ns)
    BY <1>1
  <2>2. /\ ns[i] \in Node /\ NodeRows(ns[i], Parts(ns)[i])
        /\ NodeRows(ms[i], Parts(ms)[i])
    BY <1>1, <2>1, PartsOfTree
  <2>3. PICK x, y : x = Parts(ns)[i] /\ y = Parts(ms)[i]
    OBVIOUS
  <2>4. /\ Len(x) = IF ns[i].expanded THEN Len(ns[i].leaves) + 1 ELSE 1
        /\ Len(y) = IF ms[i].expanded THEN Len(ms[i].leaves) + 1 ELSE 1
    BY <2>2, <2>3 DEF NodeRows
  <2>5. ms[i].leaves = ns[i].leaves /\ ms[i].expanded = o[i]
    BY <2>1 DEF Opened
  <2>6. o[i] = ns[i].expanded \/ o[i] = TRUE
    OBVIOUS
  <2>7. Len(ns[i].leaves) \in Nat /\ ns[i].expanded \in BOOLEAN
    BY <2>2, LenProperties DEF Node
  <2>8. PICK l \in Nat : l = Len(ns[i].leaves)
    BY <2>7
  <2>9. Len(x) \in Nat /\ Len(y) \in Nat /\ Len(x) <= Len(y)
    BY <2>4, <2>5, <2>6, <2>7, <2>8
  <2> QED BY <2>3, <2>9
<1>4. Flattens(g, Parts(ns)) /\ Flattens(h, Parts(ms))
  BY DEF Drawing
<1> QED BY <1>1, <1>2, <1>3, <1>4, FlattenIsMonotone

(* Opening or closing one table leaves its own row where it is.            *)
LEMMA OpeningKeepsRoot ==
  ASSUME NEW ns \in Tree, NEW ms, NEW o, Opened(ns, ms, o),
         NEW p \in 1 .. Len(getFlattenedItems(ns)),
         getFlattenedItems(ns)[p][2] = Root,
         \A i \in 1 .. Len(ns) : getFlattenedItems(ns)[p][1] # ns[i].table
                                   => o[i] = ns[i].expanded
  PROVE  p \in 1 .. Len(getFlattenedItems(ms))
<1>1. /\ Len(ns) \in Nat /\ ms \in Tree /\ Len(ms) = Len(ns)
  BY PartsOfTree DEF Opened
<1>2. PICK g : Drawing(ns, g)
  BY TreeIsDrawn
<1>3. PICK h : Drawing(ms, h)
  BY <1>1, TreeIsDrawn
<1>4. PICK j \in 1 .. Len(ns) :
        /\ getFlattenedItems(ns)[p][1] = ns[j].table
        /\ p = Len(g[j - 1]) + 1
  BY <1>2, RowHasNode
<1>5. PICK n : n = j - 1
  OBVIOUS
<1>6. n \in 0 .. Len(ns) /\ n < j
  BY <1>1, <1>5
<1>7. \A i \in 1 .. n : o[i] = ns[i].expanded
  <2> TAKE i \in 1 .. n
  <2>1. i \in 1 .. Len(ns) /\ i # j
    BY <1>1, <1>6
  <2>2. ns[i].table # ns[j].table
    BY <2>1 DEF Tree
  <2> QED BY <1>4, <2>1, <2>2
<1>8. Len(g[n]) <= Len(h[n])
  BY <1>2, <1>3, <1>6, <1>7, OpeningHidesNothing
<1>9. Len(h[n]) <= Len(g[n])
  <2> DEFINE r == [i \in 1 .. Len(ns) |-> ns[i].expanded]
  <2>1. \A i \in 1 .. Len(ns) : r[i] = ns[i].expanded
    OBVIOUS
  <2> HIDE DEF r
  <2>2. Opened(ms, ns, r)
    BY <1>1, <2>1 DEF Opened
  <2>3. \A i \in 1 .. n : r[i] = ms[i].expanded
    <3> TAKE i \in 1 .. n
    <3>1. i \in 1 .. Len(ns)
      BY <1>1, <1>6
    <3>2. ms[i].expanded = o[i]
      BY <3>1 DEF Opened
    <3> QED BY <1>7, <2>1, <3>1, <3>2
  <2>4. n \in 0 .. Len(ms)
    BY <1>1, <1>6
  <2> QED BY <1>1, <1>2, <1>3, <2>2, <2>3, <2>4, OpeningHidesNothing
<1>10. PICK a, b : a = Len(g[n]) /\ b = Len(h[n])
  OBVIOUS
<1>11. a \in Nat /\ p = a + 1
  BY <1>2, <1>4, <1>5, <1>10, RootIsDrawn
<1>12. b \in Nat /\ b + 1 \in 1 .. Len(getFlattenedItems(ms))
  <2>1. j \in 1 .. Len(ms)
    BY <1>1
  <2> QED BY <1>1, <1>3, <1>5, <1>10, <2>1, RootIsDrawn
<1>13. a = b
  BY <1>8, <1>9, <1>10, <1>11, <1>12
<1> QED BY <1>11, <1>12, <1>13

(* What a reload reads is a tree.                                          *)
LEMMA SkeletonIsATree ==
  ASSUME NEW k
  PROVE  Skeleton(k) \in Tree
<1> DEFINE I == {i \in DOMAIN TableSeq : TableSeq[i] \in DOMAIN k}
           there == Kept(TableSeq, I)
           LeavesOf(t) == {i \in DOMAIN LeafSeq : LeafSeq[i] \in k[t]}
           Made(t) == [table |-> t, expanded |-> FALSE,
                       leaves |-> Kept(LeafSeq, LeavesOf(t))]
           ns == [i \in DOMAIN there |-> Made(there[i])]
<1>1. /\ TableSeq \in Seq(Tables) /\ IsInjective(TableSeq)
      /\ Len(TableSeq) \in Nat /\ DOMAIN TableSeq = 1 .. Len(TableSeq)
  BY TreeAssumption, LenProperties DEF Tables
<1>2. /\ LeafSeq \in Seq(Leaves)
      /\ Len(LeafSeq) \in Nat /\ DOMAIN LeafSeq = 1 .. Len(LeafSeq)
  BY TreeAssumption, LenProperties DEF Leaves
<1>3. I \in SUBSET (1 .. Len(TableSeq))
  BY <1>1
<1>4. \A t : LeavesOf(t) \in SUBSET (1 .. Len(LeafSeq))
  BY <1>2
<1>5. Skeleton(k) = ns
  BY DEF Skeleton
<1> HIDE DEF I, LeavesOf
<1>6. /\ there \in Seq(Tables) /\ Len(there) = Cardinality(I)
      /\ Len(there) \in Nat /\ DOMAIN there = 1 .. Len(there)
      /\ \A n \in 1 .. Len(there) : there[n] = TableSeq[Nth(I, n)]
  <2>1. there \in Seq(Tables) /\ Len(there) = Cardinality(I)
    BY <1>1, <1>3, KeptFacts
  <2>2. Len(there) \in Nat /\ DOMAIN there = 1 .. Len(there)
    BY <2>1, LenProperties
  <2>3. \A n \in 1 .. Cardinality(I) : there[n] = TableSeq[Nth(I, n)]
    BY DEF Kept
  <2> QED BY <2>1, <2>2, <2>3
<1>7. ASSUME NEW n \in 1 .. Len(there), NEW m \in 1 .. Len(there),
             there[n] = there[m]
      PROVE  n = m
  <2>1. n \in 1 .. Cardinality(I) /\ m \in 1 .. Cardinality(I)
    BY <1>6
  <2>2. /\ Nth(I, n) \in I /\ Rank(I, Nth(I, n)) = n
        /\ Nth(I, m) \in I /\ Rank(I, Nth(I, m)) = m
    BY <1>1, <1>3, <2>1, NthFacts
  <2>3. TableSeq[Nth(I, n)] = TableSeq[Nth(I, m)]
    BY <1>6, <1>7
  <2>4. Nth(I, n) \in DOMAIN TableSeq /\ Nth(I, m) \in DOMAIN TableSeq
    BY <1>1, <1>3, <2>2
  <2>5. Nth(I, n) = Nth(I, m)
    BY <1>1, <2>3, <2>4 DEF IsInjective
  <2> QED BY <2>2, <2>5
<1> HIDE DEF there
<1>8. \A i \in 1 .. Len(there) : there[i] \in Tables
  BY <1>6, ElementOfSeq
<1>9. \A t : Kept(LeafSeq, LeavesOf(t)) \in Seq(Leaves)
  BY <1>2, <1>4, KeptFacts
<1>10. \A t \in Tables : Made(t) \in Node /\ Made(t).table = t
  BY <1>9 DEF Node
<1> HIDE DEF Made
<1>11. ns \in [1 .. Len(there) -> Node]
  BY <1>6, <1>8, <1>10
<1>12. ns \in Seq(Node) /\ Len(ns) = Len(there)
  BY <1>6, <1>11, IsASeq, LenProperties
<1>13. \A i \in 1 .. Len(ns) : ns[i].table = there[i]
  BY <1>6, <1>8, <1>10, <1>12
<1> HIDE DEF ns
<1>14. \A i, j \in 1 .. Len(ns) : ns[i].table = ns[j].table => i = j
  BY <1>7, <1>12, <1>13
<1> QED BY <1>5, <1>12, <1>14 DEF Tree

(* The matches of a query are the rows it matches, counted from 0.         *)
LEMMA MatchesAreRows ==
  ASSUME NEW list \in Seq(Row), NEW q, NEW ms,
         ms = Kept([i \in DOMAIN list |-> i - 1],
                   {i \in DOMAIN list : NameOf(list[i]) \in q})
  PROVE  /\ ms \in Seq(Nat)
         /\ \A m \in 1 .. Len(ms) :
              ms[m] < Len(list) /\ NameOf(list[ms[m] + 1]) \in q
<1> DEFINE f == [i \in DOMAIN list |-> i - 1]
           I == {i \in DOMAIN list : NameOf(list[i]) \in q}
<1>1. Len(list) \in Nat /\ DOMAIN list = 1 .. Len(list)
  BY LenProperties
<1>2. f \in [1 .. Len(list) -> Nat]
  BY <1>1
<1>3. f \in Seq(Nat) /\ Len(f) = Len(list)
  BY <1>1, <1>2, IsASeq, LenProperties
<1>4. I \in SUBSET (1 .. Len(f))
  BY <1>1, <1>3
<1>5. \A i \in I : i \in 1 .. Len(list) /\ f[i] = i - 1 /\ NameOf(list[i]) \in q
  BY <1>1
<1> HIDE DEF f, I
<1>6. /\ Kept(f, I) \in Seq(Nat)
      /\ \A n \in 1 .. Len(Kept(f, I)) : \E i \in I : Kept(f, I)[n] = f[i]
  BY <1>3, <1>4, KeptFacts
<1>7. ms = Kept(f, I)
  BY DEF f, I
<1>8. ASSUME NEW m \in 1 .. Len(ms)
      PROVE  ms[m] < Len(list) /\ NameOf(list[ms[m] + 1]) \in q
  <2>1. PICK i \in I : ms[m] = f[i]
    BY <1>6, <1>7
  <2>2. /\ i \in 1 .. Len(list) /\ ms[m] = i - 1 /\ i - 1 + 1 = i
        /\ NameOf(list[i]) \in q
    BY <1>1, <1>5, <2>1
  <2>3. ms[m] < Len(list)
    BY <1>1, <2>2
  <2>4. ms[m] + 1 = i
    BY <1>1, <2>2
  <2> QED BY <2>2, <2>3, <2>4
<1> QED BY <1>6, <1>7, <1>8

-----------------------------------------------------------------------------
(* Opening, closing and a reload leave a tree.                             *)
LEMMA SetExpandedOpens ==
  ASSUME nodes \in Tree, NEW t, NEW open \in BOOLEAN, SetExpanded(t, open)
  PROVE  \E o : /\ Opened(nodes, nodes', o)
                /\ \A i \in 1 .. Len(nodes) : t # nodes[i].table
                                                => o[i] = nodes[i].expanded
<1> DEFINE o == [i \in DOMAIN nodes |-> IF nodes[i].table = t THEN open
                                        ELSE nodes[i].expanded]
<1>1. /\ DOMAIN nodes = 1 .. Len(nodes)
      /\ \A i \in 1 .. Len(nodes) : nodes[i] \in Node
  BY PartsOfTree
<1>2. \A i \in DOMAIN nodes : o[i] \in BOOLEAN
  BY <1>1 DEF Node
<1>3. nodes' = [i \in DOMAIN nodes |-> [nodes[i] EXCEPT !.expanded = o[i]]]
  BY DEF SetExpanded
<1>4. \A i \in 1 .. Len(nodes) : t # nodes[i].table => o[i] = nodes[i].expanded
  BY <1>1
<1> HIDE DEF o
<1>5. Opened(nodes, nodes', o)
  BY <1>2, <1>3, OpeningIsATree
<1> QED BY <1>4, <1>5

(* So does opening all of them.                                            *)
LEMMA EnterSearchOpens ==
  ASSUME nodes \in Tree, EnterSearch
  PROVE  \E o : /\ Opened(nodes, nodes', o)
                /\ \A i \in 1 .. Len(nodes) : o[i] = TRUE
<1> DEFINE o == [i \in DOMAIN nodes |-> TRUE]
<1>1. DOMAIN nodes = 1 .. Len(nodes)
  BY PartsOfTree
<1>2. /\ \A i \in DOMAIN nodes : o[i] \in BOOLEAN
      /\ \A i \in 1 .. Len(nodes) : o[i] = TRUE
  BY <1>1
<1>3. nodes' = [i \in DOMAIN nodes |-> [nodes[i] EXCEPT !.expanded = o[i]]]
  BY DEF EnterSearch
<1> HIDE DEF o
<1>4. Opened(nodes, nodes', o)
  BY <1>2, <1>3, OpeningIsATree
<1> QED BY <1>2, <1>4

(* The tree and the answer on its way.                                     *)
LEMMA TreesStay ==
  ASSUME TreeInv, [Next]_vars
  PROVE  Trees'
<1>1. nodes \in Tree /\ answers \subseteq Tree
  BY DEF TreeInv, Trees
<1>2. ASSUME NEW t, NEW open, SetExpanded(t, open), open \in BOOLEAN
      PROVE  nodes' \in Tree
  BY <1>1, <1>2, SetExpandedOpens DEF Opened
<1>3. CASE Toggle
  <2>1. PICK open : open = ~nodes[NodeOf(Selected[1])].expanded
    OBVIOUS
  <2>2. open \in BOOLEAN
    BY <2>1
  <2>3. SetExpanded(Selected[1], open)
    BY <1>3, <2>1 DEF Toggle
  <2> QED BY <1>1, <1>2, <1>3, <2>2, <2>3 DEF Toggle, Trees, world
<1>4. CASE Left
  <2>1. nodes' \in Tree
    BY <1>1, <1>2, <1>4 DEF Left
  <2> QED BY <1>1, <1>4, <2>1 DEF Left, Trees, world
<1>5. CASE EnterSearch
  <2>1. nodes' \in Tree
    BY <1>1, <1>5, EnterSearchOpens DEF Opened
  <2> QED BY <1>1, <1>5, <2>1 DEF EnterSearch, Trees, world
<1>6. CASE Reload
  BY <1>1, <1>6, SkeletonIsATree DEF Reload, Trees, view
<1>7. CASE tableTreeRefreshedMsg
  BY <1>1, <1>7 DEF tableTreeRefreshedMsg, Trees
<1>8. CASE KernelChanges
  BY <1>1, <1>8 DEF KernelChanges, Trees, view
<1>9. ASSUME NEW gen \in timers, StatusFade(gen) PROVE Trees'
  BY <1>1, <1>9 DEF StatusFade, Trees, view, world
<1>10. CASE Up \/ Down \/ SearchType \/ SearchStep(1) \/ SearchStep(-1)
  BY <1>1, <1>10 DEF Up, Down, SearchType, SearchStep, Trees, world
<1>11. CASE Delete \/ Decline \/ ResetHint \/ ExitSearch
  BY <1>1, <1>11 DEF Delete, Decline, ResetHint, ExitSearch, Trees, view, world
<1>13. ASSUME UNCHANGED <<nodes, answers>> PROVE Trees'
  BY <1>1, <1>13 DEF Trees
<1>14. CASE Confirm \/ Reset \/ namedObjectOpErrMsg \/ namedObjectDone
  BY <1>13, <1>14 DEF Confirm, Reset, Start, namedObjectOpErrMsg,
                      namedObjectDone, view, world
<1>15. ASSUME NEW h \in Heights, WindowSizeMsg(h) PROVE Trees'
  BY <1>13, <1>15 DEF WindowSizeMsg, world
<1>12. CASE UNCHANGED vars
  BY <1>1, <1>12 DEF Trees, vars, view, world
<1> QED BY <1>3, <1>4, <1>5, <1>6, <1>7, <1>8, <1>9, <1>10, <1>11, <1>12,
           <1>14, <1>15 DEF Next, Keys

(* The kernel and its counter.                                             *)
LEMMA KernelsStay ==
  ASSUME TreeInv, [Next]_vars
  PROVE  Kernels'
<1>1. Kernels
  BY DEF TreeInv
<1>2. CASE UNCHANGED <<kernel, changes>>
  BY <1>1, <1>2 DEF Kernels
<1>3. CASE KernelChanges
  <2>1. changes \in Nat /\ MaxChanges \in Nat /\ changes' \in 0 .. MaxChanges
    BY <1>1, <1>3, TreeAssumption DEF KernelChanges, Kernels
  <2>2. PICK t \in Tables :
         \/ kernel' = [u \in DOMAIN kernel \ {t} |-> kernel[u]]
         \/ /\ t \in DOMAIN kernel
            /\ \E x \in kernel[t] : kernel' = [kernel EXCEPT ![t] = @ \ {x}]
         \/ kernel' = [u \in DOMAIN kernel \cup {t} |->
                            IF u = t THEN {} ELSE kernel[u]]
    BY <1>3 DEF KernelChanges, Tables
  <2>3. DOMAIN kernel' \subseteq Tables
    BY <1>1, <2>2 DEF Kernels
  <2>4. \A u \in DOMAIN kernel' : kernel'[u] \subseteq Leaves
    BY <1>1, <2>2 DEF Kernels
  <2> QED BY <2>1, <2>3, <2>4 DEF Kernels
<1>4. ASSUME Next, ~KernelChanges PROVE UNCHANGED <<kernel, changes>>
  BY <1>4 DEF Next, Keys, Up, Down, Toggle, Left, Delete, Confirm, Decline,
       Start, Reset, namedObjectOpErrMsg, namedObjectDone, WindowSizeMsg,
       ResetHint, EnterSearch, ExitSearch, SearchType, SearchStep, StatusFade,
       Reload, tableTreeRefreshedMsg, world
<1> QED BY <1>2, <1>3, <1>4 DEF vars, world

(* The window, and the commands on objects.                                *)
LEMMA ScreensStay ==
  ASSUME TreeInv, [Next]_vars
  PROVE  Screens'
<1>1. Screens
  BY DEF TreeInv
<1>2. CASE UNCHANGED <<maxHeight, commands>>
  BY <1>1, <1>2 DEF Screens
<1>3. ASSUME NEW h \in Heights, WindowSizeMsg(h) PROVE Screens'
  BY <1>1, <1>3 DEF WindowSizeMsg, Screens, world
<1>4. ASSUME UNCHANGED maxHeight, commands' \in {commands + 1, commands - 1},
             commands' = commands + 1 => commands < MaxCommands,
             commands' = commands - 1 => commands > 0
      PROVE  Screens'
  BY <1>1, <1>4, TreeAssumption DEF Screens
<1>5. CASE Confirm
  <2>1. CASE OnObject
    BY <1>1, <1>4, <1>5, <2>1 DEF Confirm, Start, view, Screens
  <2>2. CASE ~OnObject
    BY <1>2, <1>5, <2>2 DEF Confirm, view, world
  <2> QED BY <2>1, <2>2
<1>6. CASE Reset
  BY <1>1, <1>4, <1>6 DEF Reset, Start, view, Screens
<1>7. CASE namedObjectOpErrMsg \/ namedObjectDone
  BY <1>1, <1>4, <1>7 DEF namedObjectOpErrMsg, namedObjectDone, view, Screens
<1>8. ASSUME NEW gen \in timers, StatusFade(gen) PROVE Screens'
  BY <1>2, <1>8 DEF StatusFade, view, world
<1>9. CASE Up \/ Down \/ Toggle \/ Left \/ Delete \/ Decline \/ ResetHint
  BY <1>2, <1>9 DEF Up, Down, Toggle, Left, Delete, Decline, ResetHint, view,
                    world
<1>10. CASE EnterSearch \/ ExitSearch \/ SearchType \/ SearchStep(1)
            \/ SearchStep(-1)
  BY <1>2, <1>10 DEF EnterSearch, ExitSearch, SearchType, SearchStep, view,
                     world
<1>11. CASE KernelChanges \/ Reload \/ tableTreeRefreshedMsg \/ UNCHANGED vars
  BY <1>2, <1>11 DEF KernelChanges, Reload, tableTreeRefreshedMsg, vars, view,
                     world
<1> QED BY <1>3, <1>5, <1>6, <1>7, <1>8, <1>9, <1>10, <1>11 DEF Next, Keys

(* A hint that is shown and the timer of its number.                       *)
LEMMA HintsStay ==
  ASSUME TreeInv, [Next]_vars
  PROVE  Hints' /\ Flags'
<1>1. /\ statusGen \in Nat /\ timers \subseteq 1 .. statusGen
      /\ hint <=> statusGen \in timers
      /\ showDeleteConfirm \in BOOLEAN /\ searchMode \in BOOLEAN
      /\ hint \in BOOLEAN /\ replaced \in BOOLEAN /\ lowered \in BOOLEAN
  BY DEF TreeInv, Hints, HintHasItsTimer, Flags
<1>2. /\ statusGen' \in Nat /\ timers' \subseteq 1 .. statusGen'
      /\ (hint' <=> statusGen' \in timers') /\ hint' \in BOOLEAN
  <2>1. CASE UNCHANGED status
    BY <1>1, <2>1 DEF status
  <2>2. CASE setStatus
    <3>1. statusGen' \in Nat /\ timers' \subseteq 1 .. statusGen'
      BY <1>1, <2>2 DEF setStatus
    <3>2. hint' = TRUE /\ statusGen' \in timers'
      BY <2>2 DEF setStatus
    <3> QED BY <3>1, <3>2
  <2>3. ASSUME NEW gen \in timers, StatusFade(gen)
        PROVE  /\ statusGen' \in Nat /\ timers' \subseteq 1 .. statusGen'
               /\ (hint' <=> statusGen' \in timers') /\ hint' \in BOOLEAN
    BY <1>1, <2>3 DEF StatusFade
  <2> QED BY <2>1, <2>2, <2>3 DEF Next, Keys, Up, Down, Toggle, Left, Delete,
         Confirm, Decline, Reset, ResetHint, EnterSearch, ExitSearch,
         SearchType, SearchStep, namedObjectOpErrMsg, KernelChanges, Reload,
         tableTreeRefreshedMsg,
         namedObjectDone, WindowSizeMsg, vars
<1>3. /\ showDeleteConfirm' \in BOOLEAN /\ searchMode' \in BOOLEAN
      /\ replaced' \in BOOLEAN /\ lowered' \in BOOLEAN
  BY <1>1 DEF Next, Keys, Up, Down, Toggle, Left, Delete, Confirm, Decline,
       Reset, ResetHint, EnterSearch, ExitSearch, SearchType, SearchStep,
       StatusFade, KernelChanges, Reload, tableTreeRefreshedMsg, WindowSizeMsg,
       namedObjectOpErrMsg, namedObjectDone, vars, dialog, search
<1>4. HintHasItsTimer'
  BY <1>2 DEF HintHasItsTimer
<1>5. Hints'
  BY <1>2, <1>4 DEF Hints
<1>6. Flags'
  <2>1. \A x \in {showDeleteConfirm', searchMode', hint', replaced', lowered'} :
          x \in BOOLEAN
    BY <1>2, <1>3
  <2> QED BY <2>1 DEF Flags
<1> QED BY <1>5, <1>6

(* A jump puts the cursor on the active match and the window around it.    *)
LEMMA JumpLands ==
  ASSUME cursor \in Nat, scrollOffset \in Nat, Screens, UNCHANGED maxHeight,
         matches' \in Seq(Nat), active' \in Nat,
         active' < Len(matches') \/ matches' = << >>,
         jumpToActiveMatch
  PROVE  /\ cursor' \in Nat /\ scrollOffset' \in Nat
         /\ matches' # << >> =>
              /\ active' + 1 \in 1 .. Len(matches')
              /\ cursor' = matches'[active' + 1]
              /\ InWindow'
         /\ matches' = << >> => UNCHANGED <<cursor, scrollOffset>>
<1>1. CASE matches' = << >>
  BY <1>1 DEF jumpToActiveMatch
<1>2. CASE matches' # << >>
  <2>1. Len(matches') \in Nat /\ active' < Len(matches')
    BY <1>2, LenProperties
  <2>2. active' + 1 \in 1 .. Len(matches')
    <3>1. PICK a, l : a = active' /\ l = Len(matches')
      OBVIOUS
    <3>2. a \in Nat /\ l \in Nat /\ a < l
      BY <2>1, <3>1
    <3>3. a + 1 \in 1 .. l
      BY <3>2
    <3> QED BY <3>1, <3>3
  <2>3. cursor' = matches'[active' + 1] /\ cursor' \in Nat
    <3>1. cursor' = matches'[active' + 1]
      BY <1>2 DEF jumpToActiveMatch
    <3> QED BY <2>2, <3>1, ElementOfSeq
  <2>4. maxHeight \in Int
    BY TreeAssumption DEF Screens
  <2>5. scrollOffset' = IF cursor' < scrollOffset THEN cursor'
                        ELSE IF Below(cursor', scrollOffset)
                        THEN cursor' - maxHeight + 1 ELSE scrollOffset
    BY <1>2 DEF jumpToActiveMatch
  <2>6. scrollOffset' \in Nat /\ InWindow'
    <3>1. PICK c, s, h, t : c = cursor' /\ s = scrollOffset /\ h = maxHeight
                              /\ t = scrollOffset'
      OBVIOUS
    <3>2. c \in Nat /\ s \in Nat /\ h \in Int
      BY <2>3, <2>4, <3>1
    <3>3. t = IF c < s THEN c ELSE IF h > 0 /\ c >= s + h THEN c - h + 1 ELSE s
      BY <2>5, <3>1 DEF Below
    <3>4. t \in Nat /\ t <= c /\ ~(h > 0 /\ c >= t + h)
      BY <3>2, <3>3
    <3>5. maxHeight' = h
      BY <3>1
    <3> QED BY <3>1, <3>4, <3>5 DEF InWindow, Below
  <2> QED BY <1>2, <2>2, <2>3, <2>6
<1> QED BY <1>1, <1>2

(* Stepping through the matches stays among them.                          *)
LEMMA StepStays ==
  ASSUME TreeInv, NEW step \in {1, -1}, SearchStep(step)
  PROVE  /\ matches' = matches /\ matches \in Seq(Nat) /\ matches # << >>
         /\ active' \in Nat /\ active' < Len(matches)
<1>1. matches' = matches /\ matches \in Seq(Nat) /\ active \in Nat
  BY DEF TreeInv, Places, SearchStep
<1>2. matches # << >> /\ Len(matches) \in Nat /\ Len(matches) # 0
  BY <1>1, EmptySeq, LenProperties DEF SearchStep
<1>3. PICK l : l = Len(matches)
  OBVIOUS
<1>4. l \in Nat /\ l > 0 /\ active + step \in Int
  BY <1>1, <1>2, <1>3
<1>5. (active + step) % l \in 0 .. l - 1
  BY <1>4
<1>6. active' = (active + step) % l
  BY <1>3 DEF SearchStep
<1> QED BY <1>1, <1>2, <1>3, <1>4, <1>5, <1>6

(* What typing finds.                                                      *)
LEMMA TypeFinds ==
  ASSUME TreeInv, SearchType
  PROVE  /\ matches' \in Seq(Nat) /\ active' = 0
         /\ active' < Len(matches') \/ matches' = << >>
         /\ query' \in Queries
         /\ \A m \in 1 .. Len(matches') :
              /\ matches'[m] < Len(rows)
              /\ NameOf(rows[matches'[m] + 1]) \in query'
<1>1. rows \in Seq(Row)
  BY RowsAreRows DEF TreeInv, Trees, rows
<1>2. PICK q \in Queries :
        /\ query' = q
        /\ matches' = Kept([i \in DOMAIN rows |-> i - 1],
                           {i \in DOMAIN rows : NameOf(rows[i]) \in q})
  BY DEF SearchType
<1>3. /\ matches' \in Seq(Nat)
      /\ \A m \in 1 .. Len(matches') :
           matches'[m] < Len(rows) /\ NameOf(rows[matches'[m] + 1]) \in q
  BY <1>1, <1>2, MatchesAreRows
<1>4. Len(matches') \in Nat /\ (Len(matches') = 0 => matches' = << >>)
  BY <1>3, EmptySeq, LenProperties
<1>5. active' = 0
  BY DEF SearchType
<1>6. active' < Len(matches') \/ matches' = << >>
  BY <1>4, <1>5
<1> QED BY <1>2, <1>3, <1>5, <1>6

(* Cursor, window and search.                                              *)
LEMMA PlacesStay ==
  ASSUME TreeInv, [Next]_vars
  PROVE  Places'
<1>1. Places /\ Screens
  BY DEF TreeInv
<1>2. maxHeight \in Int
  BY <1>1, TreeAssumption DEF Screens
<1>3. CASE UNCHANGED <<cursor, scrollOffset, search>>
  BY <1>1, <1>3 DEF Places, search
<1>4. CASE Up \/ Down
  <2>1. cursor' \in Nat /\ scrollOffset' \in Nat
    BY <1>1, <1>2, <1>4 DEF Up, Down, Below, Places
  <2> QED BY <1>1, <1>4, <2>1 DEF Up, Down, Places, search
<1>5. CASE Left
  <2>1. nodes \in Tree /\ Len(rows) \in Nat
    BY RowsAreRows DEF TreeInv, Trees, rows
  <2>2. OnRow /\ cursor + 1 \in 1 .. Len(rows)
    BY <1>1, <1>5, <2>1 DEF Left, OnRow, Places
  <2>3. Selected = rows[cursor + 1]
    BY <2>2 DEF Selected
  <2>4. RootRow(Selected[1]) \in Nat
    BY <2>1, <2>2, <2>3, RootRowIsARow
  <2>5. cursor' \in Nat
    BY <1>1, <1>5, <2>4 DEF Left, Places
  <2> QED BY <1>1, <1>5, <2>5 DEF Left, Places, search
<1>6. CASE EnterSearch \/ ExitSearch
  <2>1. /\ UNCHANGED <<cursor, scrollOffset>>
        /\ matches' = << >> /\ active' = 0 /\ query' = {}
    BY <1>6 DEF EnterSearch, ExitSearch, view
  <2>2. matches' \in Seq(Nat)
    BY <2>1
  <2> QED BY <1>1, <2>1, <2>2 DEF Places
<1>7. CASE SearchType
  <2>1. /\ matches' \in Seq(Nat) /\ active' = 0 /\ query' \in Queries
        /\ active' < Len(matches') \/ matches' = << >>
        /\ jumpToActiveMatch /\ UNCHANGED maxHeight
    BY <1>7, TypeFinds DEF SearchType
  <2>2. cursor' \in Nat /\ scrollOffset' \in Nat
    BY <1>1, <2>1, JumpLands DEF Places
  <2> QED BY <2>1, <2>2 DEF Places
<1>8. ASSUME NEW step \in {1, -1}, SearchStep(step) PROVE Places'
  <2>1. /\ matches' \in Seq(Nat) /\ active' \in Nat /\ active' < Len(matches')
        /\ query' = query /\ jumpToActiveMatch /\ UNCHANGED maxHeight
    BY <1>8, StepStays DEF SearchStep
  <2>2. cursor' \in Nat /\ scrollOffset' \in Nat
    BY <1>1, <2>1, JumpLands DEF Places
  <2> QED BY <1>1, <2>1, <2>2 DEF Places
<1>9. CASE Toggle \/ Delete \/ Confirm \/ Decline \/ Reset \/ ResetHint
  <2>1. UNCHANGED <<cursor, scrollOffset, search>>
    BY <1>9 DEF Toggle, Delete, Confirm, Decline, Reset, ResetHint, view
  <2> QED BY <1>3, <2>1
<1>12. CASE namedObjectOpErrMsg \/ namedObjectDone
  <2>1. UNCHANGED <<cursor, scrollOffset, search>>
    BY <1>12 DEF namedObjectOpErrMsg, namedObjectDone, view
  <2> QED BY <1>3, <2>1
<1>13. ASSUME NEW h \in Heights, WindowSizeMsg(h) PROVE Places'
  BY <1>1, <1>13 DEF WindowSizeMsg, Places
<1>10. ASSUME NEW gen \in timers, StatusFade(gen) PROVE Places'
  <2>1. UNCHANGED <<cursor, scrollOffset, search>>
    BY <1>10 DEF StatusFade, view
  <2> QED BY <1>3, <2>1
<1>11. CASE KernelChanges \/ Reload \/ tableTreeRefreshedMsg \/ UNCHANGED vars
  <2>1. UNCHANGED <<cursor, scrollOffset, search>>
    BY <1>11 DEF KernelChanges, Reload, tableTreeRefreshedMsg, vars, view
  <2> QED BY <1>3, <2>1
<1> QED BY <1>4, <1>5, <1>6, <1>7, <1>8, <1>9, <1>10, <1>11, <1>12, <1>13
        DEF Next, Keys

(* Where neither the tree nor the cursor changes, the rows are the same.   *)
LEMMA SameRows ==
  ASSUME UNCHANGED <<nodes, cursor>>
  PROVE  rows' = rows /\ OnRow' = OnRow /\ Selected' = Selected
<1>1. rows' = rows
  BY DEF rows
<1> QED BY <1>1 DEF OnRow, Selected

(* And with the window in its place, so is what is drawn.                  *)
LEMMA SameView ==
  ASSUME UNCHANGED view
  PROVE  /\ rows' = rows /\ OnRow' = OnRow /\ Selected' = Selected
         /\ cursor' = cursor /\ InWindow' = InWindow
<1>1. /\ UNCHANGED <<nodes, cursor>> /\ cursor' = cursor
      /\ scrollOffset' = scrollOffset /\ maxHeight' = maxHeight
  BY DEF view
<1>2. InWindow' = InWindow
  BY <1>1 DEF InWindow, Below
<1> QED BY <1>1, <1>2, SameRows

(* The dialog.                                                             *)
LEMMA AsksStay ==
  ASSUME TreeInv, [Next]_vars
  PROVE  Asks'
<1>1. Asks
  BY DEF TreeInv
<1>2. CASE UNCHANGED <<view, dialog, replaced>>
  <2>1. /\ OnRow' = OnRow /\ Selected' = Selected /\ asked' = asked
        /\ showDeleteConfirm' = showDeleteConfirm /\ replaced' = replaced
    BY <1>2, SameView DEF dialog
  <2> QED BY <1>1, <2>1 DEF Asks
<1>3. CASE ~showDeleteConfirm' \/ replaced'
  BY <1>3 DEF Asks
<1>4. CASE Delete
  <2>1. OnRow' /\ asked' = Selected'
    BY <1>4, SameView DEF Delete
  <2> QED BY <2>1 DEF Asks
<1>5. CASE Up \/ Down \/ Toggle \/ Left \/ EnterSearch
  <2>1. ~showDeleteConfirm'
    BY <1>5 DEF Up, Down, Toggle, Left, EnterSearch, Browsing, dialog
  <2> QED BY <1>3, <2>1
<1>6. CASE ExitSearch \/ SearchType \/ SearchStep(1) \/ SearchStep(-1)
  <2>1. ~showDeleteConfirm'
    BY <1>6 DEF ExitSearch, SearchType, SearchStep, SearchKey, dialog
  <2> QED BY <1>3, <2>1
<1>7. CASE Confirm \/ Decline
  <2>1. ~showDeleteConfirm'
    BY <1>7 DEF Confirm, Decline
  <2> QED BY <1>3, <2>1
<1>8. CASE Reset \/ ResetHint \/ namedObjectOpErrMsg \/ namedObjectDone
           \/ KernelChanges \/ Reload \/ UNCHANGED vars
  <2>1. UNCHANGED <<view, dialog, replaced>>
    BY <1>8 DEF Reset, ResetHint, namedObjectOpErrMsg, namedObjectDone,
                KernelChanges, Reload, vars
  <2> QED BY <1>2, <2>1
<1>11. ASSUME NEW h \in Heights, WindowSizeMsg(h) PROVE Asks'
  <2>1. UNCHANGED <<nodes, cursor>> /\ UNCHANGED <<dialog, replaced>>
    BY <1>11 DEF WindowSizeMsg
  <2>2. /\ OnRow' = OnRow /\ Selected' = Selected /\ asked' = asked
        /\ showDeleteConfirm' = showDeleteConfirm /\ replaced' = replaced
    BY <2>1, SameRows DEF dialog
  <2> QED BY <1>1, <2>2 DEF Asks
<1>9. ASSUME NEW gen \in timers, StatusFade(gen) PROVE Asks'
  <2>1. UNCHANGED <<view, dialog, replaced>>
    BY <1>9 DEF StatusFade
  <2> QED BY <1>2, <2>1
<1>10. CASE tableTreeRefreshedMsg
  BY <1>3, <1>10 DEF tableTreeRefreshedMsg
<1> QED BY <1>4, <1>5, <1>6, <1>7, <1>8, <1>9, <1>10, <1>11 DEF Next, Keys

(* The matches.                                                            *)
LEMMA MatchingStays ==
  ASSUME TreeInv, [Next]_vars
  PROVE  Matching'
<1>1. Matching /\ Places /\ Screens
  BY DEF TreeInv
<1>2. CASE UNCHANGED <<view, search, replaced>>
  <2>1. /\ rows' = rows /\ cursor' = cursor /\ InWindow' = InWindow
        /\ lowered' = lowered /\ searchMode' = searchMode /\ matches' = matches
        /\ active' = active /\ query' = query /\ replaced' = replaced
    BY <1>2, SameView DEF search
  <2> QED BY <1>1, <2>1 DEF Matching
<1>3. CASE ~searchMode' \/ replaced'
  BY <1>3 DEF Matching
<1>4. CASE Up \/ Down \/ Toggle \/ Left \/ Delete
  <2>1. ~searchMode'
    BY <1>4 DEF Up, Down, Toggle, Left, Delete, Writing, Browsing, search
  <2> QED BY <1>3, <2>1
<1>5. CASE ExitSearch
  BY <1>3, <1>5 DEF ExitSearch
<1>6. CASE EnterSearch
  <2>1. matches' = << >> /\ Len(matches') = 0
    BY <1>6, EmptySeq DEF EnterSearch
  <2> QED BY <2>1 DEF Matching
<1>7. CASE SearchType
  <2>1. /\ matches' \in Seq(Nat) /\ active' \in Nat
        /\ active' < Len(matches') \/ matches' = << >>
        /\ \A m \in 1 .. Len(matches') :
             /\ matches'[m] < Len(rows)
             /\ NameOf(rows[matches'[m] + 1]) \in query'
    BY <1>7, TypeFinds
  <2>2. /\ jumpToActiveMatch /\ UNCHANGED maxHeight
        /\ cursor \in Nat /\ scrollOffset \in Nat
    BY <1>1, <1>7 DEF SearchType, Places
  <2>3. matches' # << >> =>
          /\ cursor' = matches'[active' + 1]
          /\ InWindow'
    BY <1>1, <2>1, <2>2, JumpLands
  <2>4. rows' = rows
    BY <1>7 DEF SearchType, rows
  <2> QED BY <2>1, <2>3, <2>4 DEF Matching
<1>8. ASSUME NEW step \in {1, -1}, SearchStep(step) PROVE Matching'
  <2>1. /\ matches' = matches /\ matches \in Seq(Nat)
        /\ active' \in Nat /\ active' < Len(matches)
    BY <1>8, StepStays
  <2>2. /\ jumpToActiveMatch /\ UNCHANGED maxHeight
        /\ cursor \in Nat /\ scrollOffset \in Nat
        /\ searchMode' = searchMode /\ query' = query /\ replaced' = replaced
    BY <1>1, <1>8 DEF SearchStep, Places
  <2>3. matches' # << >> =>
          /\ cursor' = matches'[active' + 1]
          /\ InWindow'
    BY <1>1, <2>1, <2>2, JumpLands
  <2>4. rows' = rows
    BY <1>8 DEF SearchStep, rows
  <2> QED BY <1>1, <2>1, <2>2, <2>3, <2>4 DEF Matching
<1>9. CASE Confirm \/ Decline \/ Reset \/ ResetHint
           \/ namedObjectOpErrMsg \/ namedObjectDone
  <2>1. UNCHANGED <<view, search, replaced>>
    BY <1>9 DEF Confirm, Decline, Reset, ResetHint, namedObjectOpErrMsg,
                namedObjectDone
  <2> QED BY <1>2, <2>1
<1>13. ASSUME NEW h \in Heights, WindowSizeMsg(h) PROVE Matching'
  <2>1. /\ rows' = rows
        /\ cursor' = cursor /\ scrollOffset' = scrollOffset /\ maxHeight' = h
        /\ searchMode' = searchMode /\ matches' = matches
        /\ active' = active /\ query' = query /\ replaced' = replaced
        /\ lowered' = (lowered \/ (h > 0 /\ (maxHeight > 0 => h < maxHeight)))
    BY <1>13, SameRows DEF WindowSizeMsg
  <2>2. ASSUME ~lowered', InWindow PROVE InWindow'
    <3>1. /\ cursor \in Nat /\ scrollOffset \in Nat
          /\ h \in Int /\ maxHeight \in Int
      BY <1>1, TreeAssumption DEF Places, Screens
    <3>5. ~(h > 0 /\ (maxHeight > 0 => h < maxHeight))
      BY <2>1, <2>2, Zenon
    <3>2. h > 0 => maxHeight > 0 /\ h >= maxHeight
      BY <3>1, <3>5
    <3>3. /\ scrollOffset <= cursor
          /\ ~(maxHeight > 0 /\ cursor >= scrollOffset + maxHeight)
      BY <2>2 DEF InWindow, Below
    <3>4. ~(h > 0 /\ cursor >= scrollOffset + h)
      BY <3>1, <3>2, <3>3
    <3> QED BY <2>1, <3>3, <3>4 DEF InWindow, Below
  <2>3. lowered => lowered'
    BY <2>1
  <2> QED BY <1>1, <2>1, <2>2, <2>3 DEF Matching
<1>10. CASE KernelChanges \/ Reload \/ UNCHANGED vars
  <2>1. UNCHANGED <<view, search, replaced>>
    BY <1>10 DEF KernelChanges, Reload, vars
  <2> QED BY <1>2, <2>1
<1>11. ASSUME NEW gen \in timers, StatusFade(gen) PROVE Matching'
  <2>1. UNCHANGED <<view, search, replaced>>
    BY <1>11 DEF StatusFade
  <2> QED BY <1>2, <2>1
<1>12. CASE tableTreeRefreshedMsg
  BY <1>3, <1>12 DEF tableTreeRefreshedMsg
<1> QED BY <1>4, <1>5, <1>6, <1>7, <1>8, <1>9, <1>10, <1>11, <1>12, <1>13
        DEF Next, Keys

-----------------------------------------------------------------------------
(* The inductive invariant.                                                *)
LEMMA TreeInvHolds == Spec => []TreeInv
<1>1. Init => TreeInv
  <2> SUFFICES ASSUME Init PROVE TreeInv
    OBVIOUS
  <2>1. Trees
    BY SkeletonIsATree DEF Init, Trees
  <2>2. Kernels
    <3>1. /\ kernel = [t \in Tables |-> Leaves] /\ changes = 0
          /\ MaxChanges \in Nat
      BY TreeAssumption DEF Init, Tables, Leaves
    <3> QED BY <3>1 DEF Kernels
  <2>3. Places
    <3>1. << >> \in Seq(Nat)
      BY EmptySeq
    <3> QED BY <3>1 DEF Init, Places
  <2>4. Flags
    BY DEF Init, Flags
  <2>5. Hints /\ Screens
    BY TreeAssumption DEF Init, Hints, HintHasItsTimer, Screens
  <2>6. Asks /\ Matching
    BY DEF Init, Asks, Matching
  <2> QED BY <2>1, <2>2, <2>3, <2>4, <2>5, <2>6 DEF TreeInv
<1>2. TreeInv /\ [Next]_vars => TreeInv'
  BY TreesStay, KernelsStay, ScreensStay, HintsStay, PlacesStay, AsksStay,
     MatchingStays DEF TreeInv
<1> QED BY <1>1, <1>2, PTL DEF Spec

(* Whatever is pressed, fades or arrives short of a reload, the delete     *)
(* dialog is about the row under the cursor, the one "yes" deletes         *)
(* (main_window_table_list.go: the key is routed by showDeleteConfirm, and *)
(* the row is looked up again when it is answered).                        *)
THEOREM DialogIsAboutItsRow == Spec => []DialogKeepsItsRow
<1>1. TreeInv => DialogKeepsItsRow
  <2> SUFFICES ASSUME TreeInv PROVE DialogKeepsItsRow
    OBVIOUS
  <2>1. ASSUME NEW ns \in answers \cup {nodes}, NEW i \in DOMAIN ns
        PROVE  /\ ns[i].table \in ToSet(TableSeq)
               /\ ns[i].expanded \in BOOLEAN
               /\ ToSet(ns[i].leaves) \subseteq ToSet(LeafSeq)
    <3>1. ns \in Tree
      BY DEF TreeInv, Trees
    <3>2. ns[i] \in Node
      BY <3>1, PartsOfTree
    <3>3. /\ ns[i].table \in Tables /\ ns[i].expanded \in BOOLEAN
          /\ ns[i].leaves \in Seq(Leaves)
      BY <3>2 DEF Node
    <3>4. ToSet(ns[i].leaves) \subseteq Leaves
      BY <3>3, LenProperties, ElementOfSeq DEF ToSet
    <3> QED BY <3>3, <3>4 DEF Tables, Leaves
  <2>2. /\ Places /\ Kernels /\ Flags /\ Screens
        /\ timers \subseteq 1 .. statusGen
    BY DEF TreeInv, Hints
  <2>3. TypeOK
    BY <2>1, <2>2 DEF TypeOK, Places, Kernels, Flags, Screens, Tables, Leaves
  <2>4. Asks
    BY DEF TreeInv
  <2> QED BY <2>3, <2>4 DEF DialogKeepsItsRow, Asks
<1> QED BY <1>1, TreeInvHolds, PTL

(* A search that has matches keeps the cursor on its active match, until a *)
(* reload replaces the rows the matches count, and the window around it,   *)
(* until a terminal gets lower (jumpToActiveMatch, recomputeSearchMatches; *)
(* main_window.go: WindowSizeMsg, which does not scroll).                  *)
THEOREM SearchStaysOnItsMatch == Spec => []SearchParksOnMatch
<1>1. TreeInv => SearchParksOnMatch
  <2> SUFFICES ASSUME TreeInv, searchMode, matches # << >>, ~replaced
               PROVE  /\ OnRow /\ NameOf(Selected) \in query
                      /\ cursor = matches[active + 1]
                      /\ lowered \/ Drawn
    BY DEF SearchParksOnMatch
  <2>1. Matching /\ matches \in Seq(Nat) /\ active \in Nat /\ cursor \in Nat
    BY DEF TreeInv, Places
  <2>2. Len(matches) \in Nat /\ Len(matches) # 0
    BY <2>1, EmptySeq, LenProperties
  <2>3. active + 1 \in 1 .. Len(matches)
    <3>1. active < Len(matches)
      BY <2>1, <2>2 DEF TreeInv, Places
    <3> QED BY <2>1, <2>2, <3>1
  <2>4. /\ cursor = matches[active + 1] /\ cursor < Len(rows)
        /\ NameOf(rows[cursor + 1]) \in query
        /\ lowered \/ InWindow
    BY <2>1, <2>3 DEF Matching
  <2> QED BY <2>4 DEF Drawn, InWindow, OnRow, Selected
<1> QED BY <1>1, TreeInvHolds, PTL

(* A hint is on the screen while the timer with its number runs, and no    *)
(* longer (setStatus, statusFadeMsg).                                      *)
THEOREM HintsHaveTheirTimer == Spec => []HintHasItsTimer
<1>1. TreeInv => HintHasItsTimer
  BY DEF TreeInv, Hints
<1> QED BY <1>1, TreeInvHolds, PTL

(* What a step of the keys keeps: a cursor that is on a row stays on one.  *)
LEMMA KeysKeepTheCursor ==
  ASSUME TreeInv, TreeInv', Keys, OnRow, ~(searchMode /\ replaced)
  PROVE  OnRow'
<1>1. /\ nodes \in Tree /\ nodes' \in Tree /\ cursor \in Nat
      /\ Len(rows) \in Nat /\ Len(rows') \in Nat
  BY RowsAreRows DEF TreeInv, Trees, Places, rows
<1>2. cursor < Len(rows) /\ Selected = rows[cursor + 1]
  BY DEF OnRow, Selected
<1>3. cursor + 1 \in 1 .. Len(rows)
  BY <1>1, <1>2
<1>4. ASSUME UNCHANGED nodes PROVE rows' = rows
  BY <1>4 DEF rows
<1>5. ASSUME rows' = rows, cursor' < Len(rows) PROVE OnRow'
  BY <1>5 DEF OnRow
<1>6. CASE Up \/ Down
  <2>1. rows' = rows
    BY <1>4, <1>6 DEF Up, Down
  <2>2. cursor' < Len(rows)
    BY <1>1, <1>2, <1>6 DEF Up, Down
  <2> QED BY <1>5, <2>1, <2>2
<1>7. ASSUME NEW open \in BOOLEAN, IsTable, SetExpanded(Selected[1], open),
             cursor' = cursor
      PROVE  OnRow'
  <2>1. PICK o :
          /\ Opened(nodes, nodes', o)
          /\ \A i \in 1 .. Len(nodes) : Selected[1] # nodes[i].table
                                          => o[i] = nodes[i].expanded
    BY <1>1, <1>7, SetExpandedOpens
  <2>2. PICK p : p = cursor + 1
    OBVIOUS
  <2>3. /\ p \in 1 .. Len(getFlattenedItems(nodes))
        /\ getFlattenedItems(nodes)[p] = Selected
    BY <1>2, <1>3, <2>2 DEF rows
  <2>4. Selected[2] = Root
    BY <1>7 DEF IsTable
  <2>5. p \in 1 .. Len(getFlattenedItems(nodes'))
    BY <1>1, <2>1, <2>3, <2>4, OpeningKeepsRoot
  <2>6. Len(rows') = Len(getFlattenedItems(nodes'))
    BY DEF rows
  <2>7. p <= Len(rows')
    BY <1>1, <2>5, <2>6
  <2>8. cursor' < Len(rows')
    BY <1>1, <1>7, <2>2, <2>7
  <2> QED BY <2>8 DEF OnRow
<1>8. CASE Toggle
  <2>1. PICK open : open = ~nodes[NodeOf(Selected[1])].expanded
    OBVIOUS
  <2>2. open \in BOOLEAN
    BY <2>1
  <2>3. IsTable /\ SetExpanded(Selected[1], open) /\ cursor' = cursor
    BY <1>8, <2>1 DEF Toggle
  <2> QED BY <1>7, <2>2, <2>3
<1>9. CASE Left
  <2>1. CASE IsTable
    BY <1>7, <1>9, <2>1 DEF Left
  <2>2. CASE ~IsTable
    <3>1. UNCHANGED nodes /\ cursor' = RootRow(Selected[1])
      BY <1>9, <2>2 DEF Left
    <3>2. RootRow(Selected[1]) \in 0 .. Len(rows) - 1
      BY <1>1, <1>2, <1>3, RootRowIsARow
    <3>3. cursor' < Len(rows)
      BY <1>1, <3>1, <3>2
    <3> QED BY <1>4, <1>5, <3>1, <3>3
  <2> QED BY <2>1, <2>2
<1>10. CASE EnterSearch
  <2>1. PICK o : /\ Opened(nodes, nodes', o)
                 /\ \A i \in 1 .. Len(nodes) : o[i] = TRUE
    BY <1>1, <1>10, EnterSearchOpens
  <2>2. PICK n : n = Len(nodes)
    OBVIOUS
  <2>3. /\ n \in 0 .. Len(nodes) /\ Len(nodes') = n
        /\ \A i \in 1 .. n : o[i] = nodes[i].expanded \/ o[i] = TRUE
    BY <1>1, <2>1, <2>2, PartsOfTree DEF Opened
  <2>4. PICK g : Drawing(nodes, g)
    BY <1>1, TreeIsDrawn
  <2>5. PICK h : Drawing(nodes', h)
    BY <1>1, TreeIsDrawn
  <2>6. Len(g[n]) <= Len(h[n])
    BY <1>1, <2>1, <2>3, <2>4, <2>5, OpeningHidesNothing
  <2>7. rows = g[n] /\ rows' = h[n]
    BY <2>2, <2>3, <2>4, <2>5 DEF Drawing, rows
  <2>8. Len(rows) <= Len(rows') /\ cursor' = cursor
    BY <1>10, <2>6, <2>7 DEF EnterSearch
  <2>9. cursor' < Len(rows')
    BY <1>1, <1>2, <2>8
  <2> QED BY <2>9 DEF OnRow
<1>11. ASSUME UNCHANGED <<nodes, maxHeight>>, jumpToActiveMatch,
              matches' \in Seq(Nat), active' \in Nat,
              active' < Len(matches') \/ matches' = << >>,
              \A m \in 1 .. Len(matches') : matches'[m] < Len(rows)
       PROVE  OnRow'
  <2>1. cursor \in Nat /\ scrollOffset \in Nat /\ Screens
    BY DEF TreeInv, Places
  <2>2. cursor' < Len(rows)
    BY <1>2, <1>11, <2>1, JumpLands
  <2> QED BY <1>4, <1>5, <1>11, <2>2
<1>12. CASE SearchType
  <2>1. UNCHANGED <<nodes, maxHeight>> /\ jumpToActiveMatch
    BY <1>12 DEF SearchType
  <2>2. /\ matches' \in Seq(Nat) /\ active' \in Nat
        /\ active' < Len(matches') \/ matches' = << >>
        /\ \A m \in 1 .. Len(matches') : matches'[m] < Len(rows)
    BY <1>12, TypeFinds
  <2> QED BY <1>11, <2>1, <2>2
<1>13. ASSUME NEW step \in {1, -1}, SearchStep(step) PROVE OnRow'
  <2>1. UNCHANGED <<nodes, maxHeight>> /\ jumpToActiveMatch /\ searchMode
    BY <1>13 DEF SearchStep, SearchKey
  <2>2. /\ matches' = matches /\ matches \in Seq(Nat)
        /\ active' \in Nat /\ active' < Len(matches)
    BY <1>13, StepStays
  <2>3. \A m \in 1 .. Len(matches) : matches[m] < Len(rows)
    BY <2>1 DEF TreeInv, Matching
  <2> QED BY <1>11, <2>1, <2>2, <2>3
<1>14. CASE Delete \/ Confirm \/ Decline \/ Reset \/ ResetHint \/ ExitSearch
  <2>1. UNCHANGED view
    BY <1>14 DEF Delete, Confirm, Decline, Reset, ResetHint, ExitSearch
  <2> QED BY <2>1, SameView
<1> QED BY <1>6, <1>8, <1>9, <1>10, <1>12, <1>13, <1>14 DEF Keys

(* Going up or down keeps the row inside the window.                       *)
LEMMA UpAndDownScroll ==
  ASSUME TreeInv, Drawn, Up \/ Down
  PROVE  Drawn'
<1>1. /\ cursor \in Nat /\ scrollOffset \in Nat /\ Len(rows) \in Nat
      /\ maxHeight \in Int
  BY RowsAreRows, TreeAssumption DEF TreeInv, Trees, Places, Screens, rows
<1>2. rows' = rows /\ maxHeight' = maxHeight
  BY DEF Up, Down, rows
<1>3. /\ cursor < Len(rows) /\ scrollOffset <= cursor
      /\ ~(maxHeight > 0 /\ cursor >= scrollOffset + maxHeight)
  BY DEF Drawn, OnRow, Below
<1>4. CASE Up
  <2>1. /\ cursor > 0 /\ cursor' = cursor - 1
        /\ scrollOffset' = IF cursor' < scrollOffset THEN cursor'
                           ELSE scrollOffset
    BY <1>4 DEF Up
  <2>2. /\ cursor' < Len(rows) /\ scrollOffset' <= cursor'
        /\ ~(maxHeight > 0 /\ cursor' >= scrollOffset' + maxHeight)
    BY <1>1, <1>3, <2>1
  <2> QED BY <1>2, <2>2 DEF Drawn, OnRow, Below
<1>5. CASE Down
  <2>1. /\ cursor < Len(rows) - 1 /\ cursor' = cursor + 1
        /\ scrollOffset' =
             IF maxHeight > 0 /\ cursor' >= scrollOffset + maxHeight
             THEN cursor' - maxHeight + 1 ELSE scrollOffset
    BY <1>5 DEF Down, Below
  <2>2. /\ cursor' < Len(rows) /\ scrollOffset' <= cursor'
        /\ ~(maxHeight > 0 /\ cursor' >= scrollOffset' + maxHeight)
    BY <1>1, <1>3, <2>1
  <2> QED BY <1>2, <2>2 DEF Drawn, OnRow, Below
<1> QED BY <1>4, <1>5

(* No key takes the cursor off the rows: a table that closes keeps its own *)
(* row, a leaf's table is above it, a search opens every table before it   *)
(* counts.  Only a reload does, and a search that steps through matches    *)
(* counted before it (handleTableTreeKey, jumpToActiveMatch).              *)
THEOREM KeysKeepOnRows == Spec => KeysStayOnRows
<1>1. TreeInv /\ TreeInv' /\ [Next]_vars =>
        [/\ OnRow /\ ~OnRow' => ~Keys \/ (searchMode /\ replaced)
         /\ Drawn /\ ~Drawn' => ~Up /\ ~Down]_vars
  BY KeysKeepTheCursor, UpAndDownScroll
<1> QED BY <1>1, TreeInvHolds, PTL DEF KeysStayOnRows, Spec

=============================================================================
