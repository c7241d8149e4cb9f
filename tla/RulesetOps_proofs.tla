-------------------------- MODULE RulesetOps_proofs --------------------------
(***************************************************************************)
(* Proofs about RulesetOps, for any number of commands, names, rules and   *)
(* other programs.                                                         *)
(***************************************************************************)
EXTENDS RulesetOps, SequenceTheorems, TLAPS

-----------------------------------------------------------------------------
(* What With and Without do to a function.                                 *)
IsFunction(f) == f = [x \in DOMAIN f |-> f[x]]

(* With adds an argument, or keeps it.                                     *)
LEMMA WithShape ==
  ASSUME NEW f, NEW x, NEW y
  PROVE  /\ IsFunction(With(f, x, y))
         /\ DOMAIN With(f, x, y) = DOMAIN f \cup {x}
BY DEF With, IsFunction

(* The value With sets, and those it leaves.                               *)
LEMMA WithValues ==
  ASSUME NEW f, NEW x, NEW y
  PROVE  \A z \in DOMAIN f \cup {x} :
           With(f, x, y)[z] = IF z = x THEN y ELSE f[z]
BY DEF With

(* Without leaves one argument out.                                        *)
LEMMA WithoutShape ==
  ASSUME NEW f, NEW x
  PROVE  /\ IsFunction(Without(f, x))
         /\ DOMAIN Without(f, x) = DOMAIN f \ {x}
BY DEF Without, Restrict, IsFunction

(* The values that Without leaves.                                         *)
LEMMA WithoutValues ==
  ASSUME NEW f, NEW x
  PROVE  \A z \in DOMAIN f \ {x} : Without(f, x)[z] = f[z]
BY DEF Without, Restrict

(* EXCEPT changes one value.                                               *)
LEMMA ExceptShape ==
  ASSUME NEW f, NEW x, NEW y
  PROVE  /\ IsFunction([f EXCEPT ![x] = y])
         /\ DOMAIN [f EXCEPT ![x] = y] = DOMAIN f
BY DEF IsFunction

(* The value that EXCEPT sets, and those it leaves.                        *)
LEMMA ExceptValues ==
  ASSUME NEW f, NEW x, NEW y
  PROVE  \A z \in DOMAIN f :
           [f EXCEPT ![x] = y][z] = IF z = x THEN y ELSE f[z]
OBVIOUS

(* Two functions with one domain and the same values are the same.         *)
LEMMA SameFunction ==
  ASSUME NEW f, NEW g, IsFunction(f), IsFunction(g), DOMAIN f = DOMAIN g,
         \A x \in DOMAIN f : f[x] = g[x]
  PROVE  f = g
BY DEF IsFunction

-----------------------------------------------------------------------------
(* A table is a function from chain names to chains.                       *)
LEMMA IsTableIs ==
  ASSUME NEW T
  PROVE  IsTable(T) <=> /\ IsFunction(T) /\ DOMAIN T \subseteq ChainNames
                        /\ \A n \in DOMAIN T : T[n] \in Chains
BY DEF IsTable, IsFunction

(* A ruleset is a function from table names to tables.                     *)
LEMMA IsRulesetIs ==
  ASSUME NEW k
  PROVE  IsRuleset(k) <=> /\ IsFunction(k) /\ DOMAIN k \subseteq TableNames
                          /\ \A t \in DOMAIN k : IsTable(k[t])
BY DEF IsRuleset, IsFunction

(* The types of rulesets, tables and chains.                               *)
LEMMA TableFacts ==
  ASSUME NEW k, IsRuleset(k), NEW t \in DOMAIN k
  PROVE  /\ t \in TableNames /\ IsTable(k[t]) /\ IsFunction(k[t])
         /\ DOMAIN k[t] \subseteq ChainNames
         /\ \A n \in DOMAIN k[t] : k[t][n] \in Chains
BY IsRulesetIs, IsTableIs

(* A table with another chain is a table.                                  *)
LEMMA TableWith ==
  ASSUME NEW T, IsTable(T), NEW n \in ChainNames, NEW c \in Chains
  PROVE  IsTable(With(T, n, c))
<1> DEFINE W == With(T, n, c)
<1>1. IsFunction(W) /\ DOMAIN W = DOMAIN T \cup {n}
  BY WithShape
<1>2. \A z \in DOMAIN T \cup {n} : W[z] = IF z = n THEN c ELSE T[z]
  BY WithValues
<1>3. DOMAIN T \subseteq ChainNames /\ \A z \in DOMAIN T : T[z] \in Chains
  BY IsTableIs
<1> HIDE DEF W
<1>4. IsTable(W)
  BY <1>1, <1>2, <1>3, IsTableIs
<1> QED BY <1>4 DEF W

(* So is one without a chain.                                              *)
LEMMA TableWithout ==
  ASSUME NEW T, IsTable(T), NEW n
  PROVE  IsTable(Without(T, n))
<1> DEFINE W == Without(T, n)
<1>1. IsFunction(W) /\ DOMAIN W = DOMAIN T \ {n}
  BY WithoutShape
<1>2. \A z \in DOMAIN T \ {n} : W[z] = T[z]
  BY WithoutValues
<1>3. DOMAIN T \subseteq ChainNames /\ \A z \in DOMAIN T : T[z] \in Chains
  BY IsTableIs
<1> HIDE DEF W
<1>4. IsTable(W)
  BY <1>1, <1>2, <1>3, IsTableIs
<1> QED BY <1>4 DEF W

(* A new table has no chains.                                              *)
LEMMA NoChains == IsTable(<< >>) /\ DOMAIN << >> = {}
<1>1. DOMAIN << >> = {} /\ << >> = [n \in DOMAIN << >> |-> << >>[n]]
  OBVIOUS
<1> QED BY <1>1 DEF IsTable

(* The ruleset j is k with T as its table t, or k without the table t.     *)
TableSet(k, j, t, T) ==
    /\ IsRuleset(j) /\ DOMAIN j = DOMAIN k \cup {t} /\ j[t] = T
    /\ \A z \in DOMAIN k : z # t => j[z] = k[z]
TableCut(k, j, t) ==
    /\ IsRuleset(j) /\ DOMAIN j = DOMAIN k \ {t}
    /\ \A z \in DOMAIN k \ {t} : j[z] = k[z]

(* What With does to a ruleset.                                            *)
LEMMA RulesetWith ==
  ASSUME NEW k, IsRuleset(k), NEW t \in TableNames, NEW T, IsTable(T),
         NEW j, j = With(k, t, T)
  PROVE  TableSet(k, j, t, T)
<1>1. IsFunction(j) /\ DOMAIN j = DOMAIN k \cup {t}
  BY WithShape
<1>2. \A z \in DOMAIN k \cup {t} : j[z] = IF z = t THEN T ELSE k[z]
  BY WithValues
<1>3. DOMAIN k \subseteq TableNames /\ \A z \in DOMAIN k : IsTable(k[z])
  BY IsRulesetIs
<1>4. \A z \in DOMAIN j : IsTable(j[z])
  BY <1>1, <1>2, <1>3
<1>5. IsRuleset(j)
  BY <1>1, <1>3, <1>4, IsRulesetIs
<1> QED BY <1>1, <1>2, <1>5 DEF TableSet

(* What Without does to it.                                                *)
LEMMA RulesetWithout ==
  ASSUME NEW k, IsRuleset(k), NEW t, NEW j, j = Without(k, t)
  PROVE  TableCut(k, j, t)
<1>1. IsFunction(j) /\ DOMAIN j = DOMAIN k \ {t}
  BY WithoutShape
<1>2. \A z \in DOMAIN k \ {t} : j[z] = k[z]
  BY WithoutValues
<1>3. DOMAIN k \subseteq TableNames /\ \A z \in DOMAIN k : IsTable(k[z])
  BY IsRulesetIs
<1>4. \A z \in DOMAIN j : IsTable(j[z])
  BY <1>1, <1>2, <1>3
<1>5. IsRuleset(j)
  BY <1>1, <1>3, <1>4, IsRulesetIs
<1> QED BY <1>1, <1>2, <1>5 DEF TableCut

(* And EXCEPT.                                                             *)
LEMMA RulesetExcept ==
  ASSUME NEW k, IsRuleset(k), NEW t \in DOMAIN k, NEW T, IsTable(T),
         NEW j, j = [k EXCEPT ![t] = T]
  PROVE  TableSet(k, j, t, T)
<1>1. IsFunction(j) /\ DOMAIN j = DOMAIN k
  BY ExceptShape
<1>2. \A z \in DOMAIN k : j[z] = IF z = t THEN T ELSE k[z]
  BY ExceptValues
<1>3. DOMAIN k \subseteq TableNames /\ \A z \in DOMAIN k : IsTable(k[z])
  BY IsRulesetIs
<1>4. \A z \in DOMAIN j : IsTable(j[z])
  BY <1>1, <1>2, <1>3
<1>5. IsRuleset(j)
  BY <1>1, <1>3, <1>4, IsRulesetIs
<1> QED BY <1>1, <1>2, <1>5 DEF TableSet

(* The fields of a chain.                                                  *)
LEMMA ChainFacts ==
  ASSUME NEW c \in Chains
  PROVE  /\ c.rules \in Seq(Nat)
         /\ Len(c.rules) \in Nat /\ DOMAIN c.rules = 1 .. Len(c.rules)
         /\ c.decl \in Decls \cup {NoDecl}
         /\ c.policy \in Policies \cup {NoPolicy}
         /\ c.decl = NoDecl <=> c.policy = NoPolicy
<1>1. /\ c.rules \in Seq(Nat)
      /\ c.decl \in Decls \cup {NoDecl}
      /\ c.policy \in Policies \cup {NoPolicy}
      /\ c.decl = NoDecl <=> c.policy = NoPolicy
  BY DeclAssumption, PolicyAssumption DEF Chains
<1> QED BY <1>1, LenProperties

(* What a chain may be given: a full specification, or a policy alone.     *)
AnySpec == Specs \cup [decl : {NoDecl}, policy : Policies \cup {NoPolicy}]

(* A chain that is made of one.                                            *)
LEMMA ChainOfFacts ==
  ASSUME NEW s \in AnySpec, NEW rules \in Seq(Nat),
         s.decl = NoDecl => s.policy = NoPolicy
  PROVE  /\ ChainOf(s, rules) \in Chains
         /\ ChainOf(s, rules).rules = rules
BY DEF ChainOf, Chains, AnySpec, Specs

(* Declaring an existing chain changes its policy at most.                 *)
LEMMA DeclaredFacts ==
  ASSUME NEW c \in Chains, NEW s, Accepts(c, s),
         s.policy \in Policies \cup {NoPolicy}
  PROVE  /\ Declared(c, s) \in Chains /\ Declared(c, s).rules = c.rules
         /\ Declared(c, s).decl = c.decl
         /\ Declared(c, s).policy =
              IF s.policy = NoPolicy THEN c.policy ELSE s.policy
<1> DEFINE p == IF s.policy = NoPolicy THEN c.policy ELSE s.policy
           d == [c EXCEPT !.policy = p]
<1>1. Declared(c, s) = d
  BY DEF Declared
<1>2. c.decl \in Decls => p \in Policies
  BY DeclAssumption, PolicyAssumption DEF Chains
<1>3. c.decl = NoDecl => p = NoPolicy
  BY DeclAssumption, PolicyAssumption DEF Chains, Accepts
<1> HIDE DEF p
<1>4. d \in Chains /\ d.rules = c.rules /\ d.decl = c.decl /\ d.policy = p
  BY <1>2, <1>3 DEF Chains
<1> QED BY <1>1, <1>4 DEF p

(* A chain keeps its declaration when its rules change.                    *)
LEMMA RulesChange ==
  ASSUME NEW c \in Chains, NEW rules \in Seq(Nat)
  PROVE  /\ [c EXCEPT !.rules = rules] \in Chains
         /\ [c EXCEPT !.rules = rules].rules = rules
BY DEF Chains
-----------------------------------------------------------------------------
(* What each transaction does to the chains of a ruleset: which there are  *)
(* afterwards, and which of them are not the ones there were.              *)

(* The ruleset j is k with c as its chain n of the table t.                *)
ChainSet(k, j, t, n, c) ==
    /\ IsRuleset(j) /\ DOMAIN j = DOMAIN k
    /\ \A t2, n2 : HasChain(j, t2, n2) <=>
                     HasChain(k, t2, n2) \/ (t2 = t /\ n2 = n)
    /\ j[t][n] = c
    /\ \A t2, n2 : HasChain(k, t2, n2) /\ ~(t2 = t /\ n2 = n)
                     => j[t2][n2] = k[t2][n2]

(* A chain is put into a table, or replaced in it.                         *)
LEMMA PutChain ==
  ASSUME NEW k, IsRuleset(k), NEW t \in DOMAIN k, NEW n \in ChainNames,
         NEW c \in Chains, NEW j, j = [k EXCEPT ![t] = With(@, n, c)]
  PROVE  ChainSet(k, j, t, n, c)
<1> DEFINE T == With(k[t], n, c)
<1>1. /\ DOMAIN T = DOMAIN k[t] \cup {n} /\ T[n] = c /\ IsTable(T)
      /\ \A z \in DOMAIN k[t] : z # n => T[z] = k[t][z]
  <2>1. IsTable(k[t])
    BY TableFacts
  <2>2. DOMAIN T = DOMAIN k[t] \cup {n}
    BY WithShape
  <2>3. \A z \in DOMAIN k[t] \cup {n} : T[z] = IF z = n THEN c ELSE k[t][z]
    BY WithValues
  <2>4. IsTable(T)
    BY <2>1, TableWith
  <2> HIDE DEF T
  <2> QED BY <2>2, <2>3, <2>4
<1>2. j = [k EXCEPT ![t] = T]
  OBVIOUS
<1> HIDE DEF T
<1>3. TableSet(k, j, t, T)
  BY <1>1, <1>2, RulesetExcept
<1> QED BY <1>1, <1>3 DEF ChainSet, TableSet, HasChain, HasTable

(* The ruleset j is k without the chain n of the table t.                  *)
ChainCut(k, j, t, n) ==
    /\ IsRuleset(j) /\ DOMAIN j = DOMAIN k
    /\ \A t2, n2 : HasChain(j, t2, n2) <=>
                     HasChain(k, t2, n2) /\ ~(t2 = t /\ n2 = n)
    /\ \A t2, n2 : HasChain(j, t2, n2) => j[t2][n2] = k[t2][n2]

(* A chain is taken out.                                                   *)
LEMMA DropChain ==
  ASSUME NEW k, IsRuleset(k), NEW t \in DOMAIN k, NEW n,
         NEW j, j = DelChain(k, t, n)
  PROVE  ChainCut(k, j, t, n)
<1> DEFINE T == Without(k[t], n)
<1>1. /\ DOMAIN T = DOMAIN k[t] \ {n} /\ IsTable(T)
      /\ \A z \in DOMAIN k[t] \ {n} : T[z] = k[t][z]
  BY WithoutShape, WithoutValues, TableWithout, TableFacts
<1>2. j = [k EXCEPT ![t] = T]
  BY DEF DelChain
<1> HIDE DEF T
<1>3. TableSet(k, j, t, T)
  BY <1>1, <1>2, RulesetExcept
<1> QED BY <1>1, <1>3 DEF ChainCut, TableSet, HasChain, HasTable

(* The ruleset j is k with the chain n of the table t under the name m.    *)
ChainNamed(k, j, t, n, m) ==
    /\ IsRuleset(j) /\ DOMAIN j = DOMAIN k /\ n # m
    /\ HasChain(k, t, n) /\ ~HasChain(k, t, m)
    /\ \A t2, n2 : HasChain(j, t2, n2) <=>
                     \/ t2 = t /\ n2 = m
                     \/ HasChain(k, t2, n2) /\ ~(t2 = t /\ n2 = n)
    /\ j[t][m] = k[t][n]
    /\ \A t2, n2 : HasChain(j, t2, n2) /\ ~(t2 = t /\ n2 = m)
                     => j[t2][n2] = k[t2][n2]

(* A chain goes by another name.                                           *)
LEMMA NameChain ==
  ASSUME NEW k, IsRuleset(k), NEW t, NEW n, NEW m \in ChainNames,
         CanRenameChain(k, t, n, m), NEW j, j = RenameChain(k, t, n, m)
  PROVE  ChainNamed(k, j, t, n, m)
<1> DEFINE W == Without(k[t], n)
           T == With(W, m, k[t][n])
<1>1. t \in DOMAIN k /\ n \in DOMAIN k[t] /\ n # m /\ m \notin DOMAIN k[t]
  BY DEF CanRenameChain, HasChain, HasTable
<1>2. /\ DOMAIN W = DOMAIN k[t] \ {n} /\ IsTable(W)
      /\ \A z \in DOMAIN k[t] \ {n} : W[z] = k[t][z]
      /\ k[t][n] \in Chains
  BY <1>1, WithoutShape, WithoutValues, TableWithout, TableFacts
<1>3. j = [k EXCEPT ![t] = T]
  BY DEF RenameChain
<1> HIDE DEF W
<1>4. /\ DOMAIN T = DOMAIN W \cup {m} /\ IsTable(T) /\ T[m] = k[t][n]
      /\ \A z \in DOMAIN W : z # m => T[z] = W[z]
  <2>1. DOMAIN T = DOMAIN W \cup {m}
    BY WithShape
  <2>2. \A z \in DOMAIN W \cup {m} : T[z] = IF z = m THEN k[t][n] ELSE W[z]
    BY WithValues
  <2>3. IsTable(T)
    BY <1>2, TableWith
  <2> HIDE DEF T
  <2> QED BY <2>1, <2>2, <2>3
<1> HIDE DEF T
<1>5. TableSet(k, j, t, T)
  BY <1>1, <1>3, <1>4, RulesetExcept
<1> QED BY <1>1, <1>2, <1>4, <1>5 DEF ChainNamed, TableSet, HasChain, HasTable

(* A table is taken out.                                                   *)
LEMMA DropTable ==
  ASSUME NEW k, IsRuleset(k), NEW t, NEW j, j = DelTable(k, t)
  PROVE  TableCut(k, j, t)
BY RulesetWithout DEF DelTable

(* The rulesets j and k have the same chains.                              *)
SameChains(k, j) ==
    /\ \A t, n : HasChain(j, t, n) <=> HasChain(k, t, n)
    /\ \A t, n : HasChain(j, t, n) => j[t][n] = k[t][n]

(* A table is put in, unless it is there: no chain is another one.         *)
LEMMA PutTable ==
  ASSUME NEW k, IsRuleset(k), NEW t \in TableNames, NEW j, j = AddTable(k, t)
  PROVE  IsRuleset(j) /\ SameChains(k, j)
<1>1. CASE HasTable(k, t)
  BY <1>1 DEF AddTable, HasTable, HasChain, SameChains
<1>2. CASE ~HasTable(k, t)
  <2>1. j = With(k, t, << >>) /\ IsTable(<< >>)
    BY <1>2, NoChains DEF AddTable
  <2>2. TableSet(k, j, t, << >>)
    BY <2>1, RulesetWith
  <2> QED BY <2>2, <1>2, NoChains DEF TableSet, HasChain, HasTable, SameChains
<1> QED BY <1>1, <1>2

(* A chain is declared: a new one has no rules, an old one keeps its own.  *)
LEMMA DeclareChain ==
  ASSUME NEW k, IsRuleset(k), NEW t, NEW n \in ChainNames, NEW s \in AnySpec,
         CanAddChain(k, t, n, s), NEW j, j = AddChain(k, t, n, s)
  PROVE  \E c \in Chains :
           /\ ChainSet(k, j, t, n, c)
           /\ HasChain(k, t, n) => /\ c = Declared(k[t][n], s)
                                   /\ c.rules = k[t][n].rules
           /\ ~HasChain(k, t, n) => /\ c = ChainOf(s, << >>)
                                    /\ c.rules = << >>
<1> DEFINE c == IF HasChain(k, t, n) THEN Declared(k[t][n], s)
                ELSE ChainOf(s, << >>)
<1>1. t \in DOMAIN k
  BY DEF CanAddChain, HasTable
<1>2. /\ c \in Chains
      /\ HasChain(k, t, n) => /\ c = Declared(k[t][n], s)
                              /\ c.rules = k[t][n].rules
      /\ ~HasChain(k, t, n) => /\ c = ChainOf(s, << >>)
                               /\ c.rules = << >>
  <2>1. CASE HasChain(k, t, n)
    <3>1. k[t][n] \in Chains /\ Accepts(k[t][n], s)
      BY <2>1, TableFacts DEF HasChain, HasTable, CanAddChain
    <3>2. s.policy \in Policies \cup {NoPolicy}
      BY DEF AnySpec, Specs
    <3> QED BY <3>1, <3>2, <2>1, DeclaredFacts
  <2>2. CASE ~HasChain(k, t, n)
    <3>1. s.decl = NoDecl => s.policy = NoPolicy
      BY <2>2 DEF CanAddChain
    <3>2. << >> \in Seq(Nat)
      OBVIOUS
    <3> QED BY <3>1, <3>2, <2>2, ChainOfFacts
  <2> QED BY <2>1, <2>2
<1>3. j = [k EXCEPT ![t] = With(@, n, c)]
  BY DEF AddChain
<1> HIDE DEF c
<1>4. ChainSet(k, j, t, n, c)
  BY <1>1, <1>2, <1>3, PutChain
<1> QED BY <1>2, <1>4

(* The ruleset j is k with the chains of dump, dumped from the table t,    *)
(* in the table u, beside or after what was there.                         *)
TableMoved(k, j, t, u, dump) ==
    /\ IsRuleset(j) /\ t \in DOMAIN k
    /\ DOMAIN j = (DOMAIN k \ {t}) \cup {u}
    /\ \A t2, n2 : HasChain(j, t2, n2) <=> \/ HasChain(k, t2, n2) /\ t2 # t
                                           \/ t2 = u /\ n2 \in DOMAIN dump
    /\ \A t2, n2 : HasChain(k, t2, n2) /\ t2 \notin {t, u}
                     => j[t2][n2] = k[t2][n2]
    /\ \A n : HasChain(k, u, n) /\ n \notin DOMAIN dump => j[u][n] = k[u][n]
    /\ \A n \in DOMAIN dump : ~HasChain(k, u, n) => j[u][n] = dump[n]
    /\ \A n \in DOMAIN dump : HasChain(k, u, n) =>
         j[u][n].rules = k[u][n].rules \o dump[n].rules

(* What the script of a renamed table does.                                *)
LEMMA TakeTable ==
  ASSUME NEW k, IsRuleset(k), NEW t, NEW u \in TableNames, u # t,
         NEW dump, IsTable(dump), CanMoveTable(k, t, u, dump),
         NEW j, j = MoveTable(k, t, u, dump)
  PROVE  TableMoved(k, j, t, u, dump)
<1> DEFINE there == IF HasTable(k, u) THEN k[u] ELSE << >>
           mix(n) == [Declared(there[n], dump[n]) EXCEPT
                        !.rules = @ \o dump[n].rules]
           both  == [n \in DOMAIN there \cup DOMAIN dump |->
                       IF n \notin DOMAIN there THEN dump[n]
                       ELSE IF n \notin DOMAIN dump THEN there[n]
                       ELSE mix(n)]
<1>1. /\ IsTable(there) /\ t \in DOMAIN k
      /\ \A n : n \in DOMAIN there <=> HasChain(k, u, n)
      /\ \A n \in DOMAIN there : there[n] = k[u][n] /\ there[n] \in Chains
  BY NoChains, TableFacts DEF HasTable, HasChain, CanMoveTable
<1>2. \A n \in DOMAIN dump : dump[n] \in Chains
  BY DEF IsTable
<1>3. ASSUME NEW n \in DOMAIN dump, n \in DOMAIN there
      PROVE  mix(n) \in Chains /\ mix(n).rules = there[n].rules \o dump[n].rules
  <2> DEFINE d == Declared(there[n], dump[n])
             r == d.rules \o dump[n].rules
  <2>1. /\ Accepts(there[n], dump[n]) /\ there[n] \in Chains
        /\ dump[n].policy \in Policies \cup {NoPolicy}
        /\ dump[n].rules \in Seq(Nat)
    BY <1>1, <1>2, <1>3, ChainFacts DEF CanMoveTable
  <2>2. d \in Chains /\ d.rules = there[n].rules
    BY <2>1, DeclaredFacts
  <2>3. r \in Seq(Nat)
    BY <2>1, <2>2, ChainFacts, ConcatProperties
  <2>4. mix(n) = [d EXCEPT !.rules = r]
    OBVIOUS
  <2> HIDE DEF d, r, mix
  <2>5. mix(n) \in Chains /\ mix(n).rules = r
    BY <2>2, <2>3, <2>4, RulesChange
  <2> QED BY <2>2, <2>5 DEF r
<1>4. j = With(Without(k, t), u, both)
  BY DEF MoveTable
<1> HIDE DEF there, mix
<1>5. /\ IsTable(both) /\ DOMAIN both = DOMAIN there \cup DOMAIN dump
      /\ \A n \in DOMAIN there : n \notin DOMAIN dump => both[n] = there[n]
      /\ \A n \in DOMAIN dump : n \notin DOMAIN there => both[n] = dump[n]
      /\ \A n \in DOMAIN dump : n \in DOMAIN there => both[n] = mix(n)
  BY <1>1, <1>2, <1>3 DEF IsTable
<1> HIDE DEF both
<1> DEFINE i == Without(k, t)
<1>6. TableCut(k, i, t)
  BY RulesetWithout
<1> HIDE DEF i
<1>7. IsRuleset(i)
  BY <1>6 DEF TableCut
<1>8. j = With(i, u, both)
  BY <1>4 DEF i
<1>9. TableSet(i, j, u, both)
  BY <1>5, <1>7, <1>8, RulesetWith
<1>10. /\ IsRuleset(j) /\ DOMAIN j = (DOMAIN k \ {t}) \cup {u} /\ j[u] = both
       /\ \A z \in DOMAIN k \ {t} : z # u => j[z] = k[z]
  BY <1>6, <1>9 DEF TableCut, TableSet
<1>11. \A t2, n2 : HasChain(j, t2, n2) <=> \/ HasChain(k, t2, n2) /\ t2 # t
                                           \/ t2 = u /\ n2 \in DOMAIN dump
  BY <1>1, <1>5, <1>10 DEF HasChain, HasTable
<1>12. \A t2, n2 : HasChain(k, t2, n2) /\ t2 \notin {t, u}
                     => j[t2][n2] = k[t2][n2]
  BY <1>10 DEF HasChain, HasTable
<1> QED BY <1>1, <1>3, <1>5, <1>10, <1>11, <1>12 DEF TableMoved

-----------------------------------------------------------------------------
(* Where the rules stand.  The rule r is the i-th of the chain n of the    *)
(* table t; it is the i-th of the chain n of a dump.                       *)
Holds(k, t, n, i, r) ==
    /\ HasChain(k, t, n)
    /\ i \in DOMAIN k[t][n].rules /\ k[t][n].rules[i] = r
InDump(D, n, i, r) ==
    /\ n \in DOMAIN D
    /\ i \in DOMAIN D[n].rules /\ D[n].rules[i] = r

(* Two rulesets hold the same rules at the same places.                    *)
SameRules(k, j) == \A t, n, i, r : Holds(j, t, n, i, r) <=> Holds(k, t, n, i, r)

(* The rules of a table are those that stand in it.                        *)
LEMMA RulesOfHolds ==
  ASSUME NEW k, NEW t \in DOMAIN k, NEW r
  PROVE  r \in RulesOf(k, t) <=> \E n, i : Holds(k, t, n, i, r)
BY DEF RulesOf, Range, Holds, HasChain, HasTable

(* And those of a chain.                                                   *)
LEMMA RangeHolds ==
  ASSUME NEW k, NEW t, NEW n, HasChain(k, t, n), NEW r
  PROVE  r \in Range(k[t][n].rules) <=> \E i : Holds(k, t, n, i, r)
BY DEF Range, Holds

(* What a dump stands for.                                                 *)
LEMMA DumpedHolds ==
  ASSUME NEW k, NEW o, NEW r
  PROVE  r \in DumpedRules(k, o) <=>
           /\ o.at = "apply"
           /\ \/ /\ o.kind = "renameTable"
                 /\ \E n, i : Holds(k, o.table, n, i, r)
              \/ /\ o.kind = "updateChain"
                 /\ \E i : Holds(k, o.table, o.name, i, r)
<1>1. CASE o.at = "apply" /\ o.kind = "renameTable" /\ HasTable(k, o.table)
  <2>1. DumpedRules(k, o) = RulesOf(k, o.table)
    BY <1>1 DEF DumpedRules
  <2> QED BY <1>1, <2>1, RulesOfHolds DEF HasTable
<1>2. CASE /\ o.at = "apply" /\ o.kind = "updateChain"
           /\ HasChain(k, o.table, o.name)
  <2>1. DumpedRules(k, o) = Range(k[o.table][o.name].rules)
    BY <1>2 DEF DumpedRules
  <2> QED BY <1>2, <2>1, RangeHolds
<1>3. CASE /\ ~(/\ o.at = "apply" /\ o.kind = "renameTable"
                /\ HasTable(k, o.table))
           /\ ~(/\ o.at = "apply" /\ o.kind = "updateChain"
                /\ HasChain(k, o.table, o.name))
  <2>1. DumpedRules(k, o) = {}
    BY <1>3 DEF DumpedRules
  <2> QED BY <1>3, <2>1 DEF Holds, HasChain
<1> QED BY <1>1, <1>2, <1>3

-----------------------------------------------------------------------------
(* What a command is at each of its steps.                                 *)

(* A command is a record with the fields of Op.                            *)
IsOp(o) ==
    o = [kind |-> o.kind, at |-> o.at, table |-> o.table, chain |-> o.chain,
         name |-> o.name, spec |-> o.spec, old |-> o.old, dump |-> o.dump,
         log |-> o.log, calm |-> o.calm]

(* What it is asked to do, which no step changes.                          *)
ArgsOK(o) ==
    /\ o.table \in TableNames /\ o.spec \in Specs \cup {Regular}
    /\ IsRuleset(o.old)
    /\ \/ /\ o.kind \in {"createTable", "deleteTable"}
          /\ o.chain = NoDecl /\ o.name = NoDecl
       \/ /\ o.kind \in {"createChain", "deleteChain"}
          /\ o.chain \in ChainNames /\ o.name = o.chain
       \/ /\ o.kind = "renameTable"
          /\ o.chain = NoDecl /\ o.name \in TableNames \ {o.table}
       \/ /\ o.kind = "updateChain"
          /\ {o.chain, o.name} \subseteq ChainNames
          /\ HasChain(o.old, o.table, o.chain)
          /\ IF o.old[o.table][o.chain].decl = NoDecl THEN o.spec = Regular
             ELSE o.spec \in Specs

(* The steps of each kind of command.                                      *)
StepsOf(kind) ==
    CASE kind = "renameTable" -> {"dump", "apply", "done", "failed"}
      [] kind = "updateChain" ->
           {"rename", "policy", "dump", "apply", "done", "failed"}
      [] OTHER                -> {"flush", "done", "failed"}

(* The most records it has left at each step.                              *)
Logged(step) == CASE step \in {"flush", "rename"} -> 0
                  [] step \in {"done", "failed"}  -> 2
                  [] OTHER                        -> 1

(* What holds at a step besides.                                           *)
StepOK(o, at, dump) ==
    /\ at = "rename" => o.chain # o.name
    /\ at = "policy" => /\ o.spec \in Specs
                        /\ o.spec.decl = o.old[o.table][o.chain].decl
    /\ at = "apply" /\ o.kind = "updateChain" => DOMAIN dump = {o.name}
Records == Seq(Transactions \X {"ok", "error"})
StateOK(o, at, dump, log) ==
    /\ at \in StepsOf(o.kind)
    /\ StepOK(o, at, dump)
    /\ IsTable(dump)
    /\ log \in Records /\ Len(log) <= Logged(at)
OpInv(o) ==
    /\ IsOp(o) /\ ArgsOK(o) /\ o.calm \in BOOLEAN
    /\ StateOK(o, o.at, o.dump, o.log)

(* A step of a command changes where it is, its dump and its records.      *)
Stepped(o, p, at, dump, log) ==
    /\ IsOp(p)
    /\ p.kind = o.kind /\ p.table = o.table /\ p.chain = o.chain
    /\ p.name = o.name /\ p.spec = o.spec /\ p.old = o.old
    /\ p.calm = o.calm
    /\ p.at = at /\ p.dump = dump /\ p.log = log

(* The command after a transaction.                                        *)
LEMMA AuditedSteps ==
  ASSUME NEW o, IsOp(o), NEW tx, NEW result, NEW next,
         NEW p, p = [Audited(o, tx, result) EXCEPT !.at = next]
  PROVE  Stepped(o, p, next, << >>, Append(o.log, <<tx, result>>))
BY DEF IsOp, Audited, Stepped

(* The command after its dump.                                             *)
LEMMA DumpSteps ==
  ASSUME NEW o, IsOp(o), NEW dump, NEW next,
         NEW p, p = [o EXCEPT !.at = next, !.dump = dump]
  PROVE  Stepped(o, p, next, dump, o.log)
BY DEF IsOp, Stepped

(* The command that failed before it sent anything.                        *)
LEMMA NextSteps ==
  ASSUME NEW o, IsOp(o), NEW next, NEW p, p = [o EXCEPT !.at = next]
  PROVE  Stepped(o, p, next, o.dump, o.log)
BY DEF IsOp, Stepped

(* A step to a state that is right for the command leaves it right.        *)
LEMMA SteppedOpInv ==
  ASSUME NEW o, OpInv(o), NEW p, NEW at, NEW dump, NEW log,
         Stepped(o, p, at, dump, log), StateOK(o, at, dump, log)
  PROVE  OpInv(p)
<1>1. ArgsOK(p)
  BY DEF OpInv, ArgsOK, Stepped
<1>2. StateOK(p, p.at, p.dump, p.log)
  BY DEF StateOK, StepOK, Stepped
<1> QED BY <1>1, <1>2 DEF OpInv, Stepped

(* A command in flight that somebody disturbs is the same, but not calm.   *)
SameButCalm(o, p) ==
    /\ IsOp(p)
    /\ p.kind = o.kind /\ p.table = o.table /\ p.chain = o.chain
    /\ p.name = o.name /\ p.spec = o.spec /\ p.old = o.old
    /\ p.at = o.at /\ p.dump = o.dump /\ p.log = o.log
    /\ p.calm = FALSE

(* Disturbing a command.                                                   *)
LEMMA DisturbedIs ==
  ASSUME NEW o, IsOp(o), NEW p, p = [o EXCEPT !.calm = FALSE]
  PROVE  SameButCalm(o, p)
BY DEF IsOp, SameButCalm

(* A disturbed command is still right.                                     *)
LEMMA DisturbedOpInv ==
  ASSUME NEW o, OpInv(o), NEW p, SameButCalm(o, p)
  PROVE  OpInv(p)
<1>1. ArgsOK(p)
  BY DEF OpInv, ArgsOK, SameButCalm
<1>2. StateOK(p, p.at, p.dump, p.log)
  BY DEF OpInv, StateOK, StepOK, SameButCalm
<1> QED BY <1>1, <1>2 DEF OpInv, SameButCalm

-----------------------------------------------------------------------------
(* The types, and that no rule is in the kernel or in a dump before it has *)
(* been made.                                                              *)
OpsInv == /\ ops = [c \in Cmd |-> ops[c]]
          /\ \A c \in Cmd : ops[c] = Idle \/ OpInv(ops[c])
Fresh  == \A t, n, i, r : Holds(tables, t, n, i, r) => r \in 1 .. rule
Dumped == \A c \in Cmd : InFlight(c) =>
            \A n, i, r : InDump(ops[c].dump, n, i, r) => r \in 1 .. rule
BaseInv ==
    /\ IsRuleset(tables) /\ IsRuleset(seen)
    /\ OpsInv /\ Fresh /\ Dumped
    /\ keys \in 0 .. MaxKeys /\ outside \in 0 .. MaxOutside
    /\ rule \in Nat
    /\ gone \subseteq 1 .. rule /\ raced \subseteq 1 .. rule

(* What the others are after the ruleset has become k.                     *)
OthersAfter(c, k) ==
    \A d \in Cmd \ {c} :
        \/ ops'[d] = ops[d] /\ (k = tables \/ ops[d] = Idle)
        \/ OpInv(ops[d]) /\ k # tables /\ SameButCalm(ops[d], ops'[d])

(* A ruleset that changes: the command that did it is at its next step,    *)
(* the others are disturbed at most.                                       *)
LEMMA BecomeOps ==
  ASSUME OpsInv, NEW c, NEW k, NEW o, Become(c, k, o)
  PROVE  /\ ops' = [d \in Cmd |-> ops'[d]]
         /\ c \in Cmd => ops'[c] = o
         /\ OthersAfter(c, k)
<1>1. /\ ops' = [d \in Cmd |-> ops'[d]]
      /\ c \in Cmd => ops'[c] = o
      /\ \A d \in Cmd \ {c} :
           ops'[d] = IF k = tables THEN ops[d] ELSE Disturbed(d)
  BY DEF Become
<1>2. ASSUME NEW d \in Cmd \ {c}
      PROVE  \/ ops'[d] = ops[d] /\ (k = tables \/ ops[d] = Idle)
             \/ OpInv(ops[d]) /\ k # tables /\ SameButCalm(ops[d], ops'[d])
  <2>1. CASE k = tables
    BY <1>1, <2>1
  <2>2. CASE k # tables /\ ops[d] = Idle
    BY <1>1, <2>2 DEF Disturbed, InFlight, Idle
  <2>3. CASE k # tables /\ ops[d] # Idle
    <3>1. OpInv(ops[d])
      BY <2>3 DEF OpsInv
    <3>2. ops[d].at # "idle"
      BY <3>1 DEF OpInv, StateOK, StepsOf
    <3>3. ops'[d] = [ops[d] EXCEPT !.calm = FALSE]
      BY <1>1, <2>3, <3>2 DEF Disturbed, InFlight
    <3> QED BY <3>1, <3>3, <2>3, DisturbedIs DEF OpInv
  <2> QED BY <2>1, <2>2, <2>3
<1> QED BY <1>1, <1>2 DEF OthersAfter

(* So the commands stay right if the one that moved is.                    *)
LEMMA BecomeOpsInv ==
  ASSUME OpsInv, NEW c, NEW k, NEW o, Become(c, k, o),
         c \in Cmd => o = Idle \/ OpInv(o)
  PROVE  OpsInv'
<1>1. /\ ops' = [d \in Cmd |-> ops'[d]]
      /\ c \in Cmd => ops'[c] = o
      /\ OthersAfter(c, k)
  BY BecomeOps
<1>2. ASSUME NEW d \in Cmd
      PROVE  ops'[d] = Idle \/ OpInv(ops'[d])
  <2>1. CASE d = c
    BY <1>1, <2>1
  <2>2. CASE d # c
    BY <1>1, <2>2, DisturbedOpInv DEF OthersAfter, OpsInv
  <2> QED BY <2>1, <2>2
<1> QED BY <1>1, <1>2 DEF OpsInv

-----------------------------------------------------------------------------
(* Where the rules stand after each transaction.                           *)

(* In a chain that is put in, or replaced.                                 *)
LEMMA HoldsChainSet ==
  ASSUME NEW k, NEW j, NEW t \in DOMAIN k, NEW n, NEW c,
         ChainSet(k, j, t, n, c)
  PROVE  \A t2, n2, i, r : Holds(j, t2, n2, i, r) <=>
           IF t2 = t /\ n2 = n THEN i \in DOMAIN c.rules /\ c.rules[i] = r
           ELSE Holds(k, t2, n2, i, r)
BY DEF ChainSet, Holds

(* A chain with the rules it had is the same to its rules.                 *)
LEMMA HoldsSameRules ==
  ASSUME NEW k, NEW j, NEW t \in DOMAIN k, NEW n, NEW c,
         ChainSet(k, j, t, n, c),
         IF HasChain(k, t, n) THEN c.rules = k[t][n].rules
         ELSE c.rules = << >>
  PROVE  SameRules(k, j)
BY DEF ChainSet, Holds, SameRules

(* A chain that is taken out.                                              *)
LEMMA HoldsChainCut ==
  ASSUME NEW k, NEW j, NEW t, NEW n, ChainCut(k, j, t, n)
  PROVE  \A t2, n2, i, r : Holds(j, t2, n2, i, r) <=>
           Holds(k, t2, n2, i, r) /\ ~(t2 = t /\ n2 = n)
BY DEF ChainCut, Holds

(* A chain that is renamed.                                                *)
LEMMA HoldsChainNamed ==
  ASSUME NEW k, NEW j, NEW t, NEW n, NEW m, ChainNamed(k, j, t, n, m)
  PROVE  \A t2, n2, i, r : Holds(j, t2, n2, i, r) <=>
           \/ t2 = t /\ n2 = m /\ Holds(k, t, n, i, r)
           \/ ~(t2 = t /\ n2 = n) /\ Holds(k, t2, n2, i, r)
BY DEF ChainNamed, Holds

(* A table that is taken out.                                              *)
LEMMA HoldsTableCut ==
  ASSUME NEW k, NEW j, NEW t, TableCut(k, j, t)
  PROVE  \A t2, n2, i, r :
           Holds(j, t2, n2, i, r) <=> Holds(k, t2, n2, i, r) /\ t2 # t
BY DEF TableCut, Holds, HasChain, HasTable

(* A table that is put in.                                                 *)
LEMMA HoldsAddTable ==
  ASSUME NEW k, IsRuleset(k), NEW t \in TableNames, NEW j, j = AddTable(k, t)
  PROVE  SameRules(k, j) /\ IsRuleset(j)
<1>1. SameChains(k, j) /\ IsRuleset(j)
  BY PutTable
<1> QED BY <1>1 DEF SameRules, SameChains, Holds

(* A chain that is declared.                                               *)
LEMMA HoldsAddChain ==
  ASSUME NEW k, IsRuleset(k), NEW t, NEW n \in ChainNames, NEW s \in AnySpec,
         CanAddChain(k, t, n, s), NEW j, j = AddChain(k, t, n, s)
  PROVE  SameRules(k, j) /\ IsRuleset(j)
<1>1. PICK c \in Chains :
        /\ ChainSet(k, j, t, n, c)
        /\ HasChain(k, t, n) => c.rules = k[t][n].rules
        /\ ~HasChain(k, t, n) => c.rules = << >>
  BY DeclareChain
<1>2. t \in DOMAIN k
  BY DEF CanAddChain, HasTable
<1>3. SameRules(k, j)
  BY <1>1, <1>2, HoldsSameRules
<1> QED BY <1>1, <1>3 DEF ChainSet

(* The rules of a dump come after those that a chain of the name has.      *)
Shift(k, u, n) == IF HasChain(k, u, n) THEN Len(k[u][n].rules) ELSE 0

(* A table that is replaced by what was dumped from it.                    *)
LEMMA HoldsTableMoved ==
  ASSUME NEW k, NEW j, NEW t, NEW u, NEW dump, IsRuleset(k), IsTable(dump),
         u # t, TableMoved(k, j, t, u, dump)
  PROVE  \A t2, n2, i, r : Holds(j, t2, n2, i, r) <=>
           \/ t2 # t /\ Holds(k, t2, n2, i, r)
           \/ /\ t2 = u /\ i \in Nat
              /\ InDump(dump, n2, i - Shift(k, u, n2), r)
<1> SUFFICES ASSUME NEW t2, NEW n2, NEW i, NEW r
             PROVE  Holds(j, t2, n2, i, r) <=>
                      \/ t2 # t /\ Holds(k, t2, n2, i, r)
                      \/ /\ t2 = u /\ i \in Nat
                         /\ InDump(dump, n2, i - Shift(k, u, n2), r)
  OBVIOUS
<1>1. CASE t2 # u
  BY <1>1 DEF TableMoved, Holds
<1>2. CASE t2 = u /\ n2 \notin DOMAIN dump
  <2>1. ~InDump(dump, n2, i - Shift(k, u, n2), r)
    BY <1>2 DEF InDump
  <2>2. Holds(j, u, n2, i, r) <=> Holds(k, u, n2, i, r)
    BY <1>2 DEF TableMoved, Holds
  <2> QED BY <1>2, <2>1, <2>2
<1>3. CASE t2 = u /\ n2 \in DOMAIN dump
  <2> DEFINE a == dump[n2].rules
  <2>1. a \in Seq(Nat) /\ Len(a) \in Nat /\ DOMAIN a = 1 .. Len(a)
    BY <1>3, IsTableIs, ChainFacts
  <2>2. HasChain(j, u, n2)
    BY <1>3 DEF TableMoved
  <2>3. CASE HasChain(k, u, n2)
    <3> DEFINE b == k[u][n2].rules
               e == b \o a
    <3>1. b \in Seq(Nat) /\ Len(b) \in Nat /\ DOMAIN b = 1 .. Len(b)
      BY <2>3, TableFacts, ChainFacts DEF HasChain, HasTable
    <3>2. j[u][n2].rules = e
      BY <1>3, <2>3 DEF TableMoved
    <3> HIDE DEF a, b
    <3>3. /\ Len(e) = Len(b) + Len(a) /\ DOMAIN e = 1 .. Len(e)
          /\ \A x \in 1 .. Len(b) + Len(a) :
               e[x] = IF x <= Len(b) THEN b[x] ELSE a[x - Len(b)]
      BY <2>1, <3>1, ConcatProperties, LenProperties
    <3> HIDE DEF e
    <3>4. /\ Holds(j, u, n2, i, r) <=> i \in 1 .. Len(e) /\ e[i] = r
          /\ Holds(k, u, n2, i, r) <=> i \in 1 .. Len(b) /\ b[i] = r
          /\ \A x : InDump(dump, n2, x, r) <=> x \in 1 .. Len(a) /\ a[x] = r
          /\ Shift(k, u, n2) = Len(b)
      BY <1>3, <2>1, <2>2, <2>3, <3>1, <3>2, <3>3
         DEF Holds, InDump, Shift, a, b
    <3>5. CASE i \in 1 .. Len(b)
      <4>1. i \in 1 .. Len(e) /\ e[i] = b[i]
        BY <2>1, <3>1, <3>3, <3>5
      <4>2. i - Len(b) \notin 1 .. Len(a)
        BY <2>1, <3>1, <3>5
      <4> QED BY <4>1, <4>2, <3>4, <3>5, <1>3
    <3>6. CASE i \in Len(b) + 1 .. Len(b) + Len(a)
      <4>1. i \in 1 .. Len(e) /\ e[i] = a[i - Len(b)] /\ i \in Nat
        BY <2>1, <3>1, <3>3, <3>6
      <4>2. i - Len(b) \in 1 .. Len(a) /\ i \notin 1 .. Len(b)
        BY <2>1, <3>1, <3>6
      <4> QED BY <4>1, <4>2, <3>4, <1>3
    <3>7. CASE i \notin 1 .. Len(b) + Len(a)
      <4>1. i \notin 1 .. Len(e) /\ i \notin 1 .. Len(b)
        BY <2>1, <3>1, <3>3, <3>7
      <4>2. i \in Nat => i - Len(b) \notin 1 .. Len(a)
        BY <2>1, <3>1, <3>7
      <4> QED BY <4>1, <4>2, <3>4, <1>3
    <3> QED BY <3>1, <2>1, <3>5, <3>6, <3>7
  <2>4. CASE ~HasChain(k, u, n2)
    <3>1. j[u][n2].rules = a
      BY <1>3, <2>4 DEF TableMoved
    <3>2. /\ Holds(j, u, n2, i, r) <=> i \in DOMAIN a /\ a[i] = r
          /\ ~Holds(k, u, n2, i, r)
          /\ \A x : InDump(dump, n2, x, r) <=> x \in DOMAIN a /\ a[x] = r
          /\ Shift(k, u, n2) = 0
      BY <1>3, <2>2, <2>4, <3>1 DEF Holds, InDump, Shift
    <3> HIDE DEF a
    <3>3. i \in Nat => i - 0 = i
      OBVIOUS
    <3>4. i \in DOMAIN a => i \in Nat
      BY <2>1
    <3> QED BY <3>2, <3>3, <3>4, <1>3
  <2> QED BY <2>3, <2>4
<1> QED BY <1>1, <1>2, <1>3

(* A chain of a table is edited in place.                                  *)
LEMMA EditChain ==
  ASSUME NEW k, IsRuleset(k), NEW t \in DOMAIN k, NEW n \in DOMAIN k[t],
         NEW c \in Chains,
         NEW j, j = [k EXCEPT ![t] = [k[t] EXCEPT ![n] = c]]
  PROVE  ChainSet(k, j, t, n, c)
<1> DEFINE T == [k[t] EXCEPT ![n] = c]
<1>1. IsTable(k[t]) /\ DOMAIN k[t] \subseteq ChainNames
      /\ \A z \in DOMAIN k[t] : k[t][z] \in Chains
  BY TableFacts
<1>2. IsFunction(T) /\ DOMAIN T = DOMAIN k[t]
  BY ExceptShape
<1>3. \A z \in DOMAIN k[t] : T[z] = IF z = n THEN c ELSE k[t][z]
  BY ExceptValues
<1> HIDE DEF T
<1>4. IsTable(T)
  BY <1>1, <1>2, <1>3, IsTableIs
<1>5. TableSet(k, j, t, T)
  BY <1>4, RulesetExcept DEF T
<1> QED BY <1>2, <1>3, <1>5 DEF ChainSet, TableSet, HasChain, HasTable

(* Another program appends a rule.                                         *)
LEMMA HoldsAppendRule ==
  ASSUME NEW k, IsRuleset(k), NEW t \in DOMAIN k, NEW n \in DOMAIN k[t],
         NEW x \in Nat, NEW j, j = AppendRule(k, t, n, x)
  PROVE  /\ IsRuleset(j)
         /\ \A t2, n2, i, r : Holds(j, t2, n2, i, r) <=>
              \/ Holds(k, t2, n2, i, r)
              \/ /\ t2 = t /\ n2 = n
                 /\ i = Len(k[t][n].rules) + 1 /\ r = x
<1> DEFINE a == k[t][n].rules
           b == Append(a, x)
           c == [k[t][n] EXCEPT !.rules = b]
<1>1. k[t][n] \in Chains /\ HasChain(k, t, n)
  BY TableFacts DEF HasChain, HasTable
<1>2. a \in Seq(Nat) /\ Len(a) \in Nat /\ DOMAIN a = 1 .. Len(a)
  BY <1>1, ChainFacts
<1>3. /\ b \in Seq(Nat) /\ DOMAIN b = 1 .. Len(a) + 1 /\ b[Len(a) + 1] = x
      /\ \A i \in 1 .. Len(a) : b[i] = a[i]
  BY <1>2, AppendProperties, LenProperties
<1>4. j = [k EXCEPT ![t] = [k[t] EXCEPT ![n] = c]]
  BY DEF AppendRule
<1> HIDE DEF b
<1>5. c \in Chains /\ c.rules = b
  BY <1>1, <1>3, RulesChange
<1> HIDE DEF c
<1>6. ChainSet(k, j, t, n, c)
  BY <1>4, <1>5, EditChain
<1>7. \A t2, n2, i, r : Holds(j, t2, n2, i, r) <=>
           IF t2 = t /\ n2 = n THEN i \in DOMAIN c.rules /\ c.rules[i] = r
           ELSE Holds(k, t2, n2, i, r)
  BY <1>6, HoldsChainSet
<1>8. \A i, r : Holds(k, t, n, i, r) <=> i \in DOMAIN a /\ a[i] = r
  BY <1>1 DEF Holds
<1> HIDE DEF a
<1>9. \A i, r : i \in DOMAIN b /\ b[i] = r <=>
                  \/ i \in DOMAIN a /\ a[i] = r
                  \/ i = Len(a) + 1 /\ r = x
  BY <1>2, <1>3
<1>10. \A t2, n2, i, r : Holds(j, t2, n2, i, r) <=>
         Holds(k, t2, n2, i, r) \/ (t2 = t /\ n2 = n /\ i = Len(a) + 1 /\ r = x)
  BY <1>5, <1>7, <1>8, <1>9
<1> QED BY <1>6, <1>10 DEF ChainSet, a

(* Another program sets the policy of a base chain.                        *)
LEMMA HoldsSetPolicy ==
  ASSUME NEW k, IsRuleset(k), NEW t \in DOMAIN k, NEW n \in DOMAIN k[t],
         NEW p \in Policies, k[t][n].policy # NoPolicy,
         NEW j, j = [k EXCEPT ![t][n].policy = p]
  PROVE  IsRuleset(j) /\ SameRules(k, j)
<1> DEFINE c == [k[t][n] EXCEPT !.policy = p]
<1>1. k[t][n] \in Chains /\ HasChain(k, t, n)
  BY TableFacts DEF HasChain, HasTable
<1>2. c \in Chains /\ c.rules = k[t][n].rules
  BY <1>1 DEF Chains
<1>3. j = [k EXCEPT ![t] = [k[t] EXCEPT ![n] = c]]
  OBVIOUS
<1> HIDE DEF c
<1>4. ChainSet(k, j, t, n, c)
  BY <1>2, <1>3, EditChain
<1>5. SameRules(k, j)
  BY <1>1, <1>2, <1>4, HoldsSameRules
<1> QED BY <1>4, <1>5 DEF ChainSet

-----------------------------------------------------------------------------
(* The base invariant is inductive.                                        *)

(* A rule may be in the kernel as soon as it has been made.                *)
HoldsFresh(k, m) == \A t, n, i, r : Holds(k, t, n, i, r) => r \in 1 .. m

(* Rules are only marked as raced if they have been made.                  *)
LEMMA RacedFresh ==
  ASSUME NEW c, NEW k, NEW o, NEW m, Become(c, k, o), raced \subseteq 1 .. m,
         HoldsFresh(tables, m), HoldsFresh(k, m)
  PROVE  raced' \subseteq 1 .. m
<1> SUFFICES ASSUME NEW r \in raced' PROVE r \in 1 .. m
  OBVIOUS
<1>1. CASE r \in raced
  BY <1>1
<1>2. CASE r \notin raced
  <2>1. PICK d \in Cmd \ {c} :
          r \in Differ(DumpedRules(tables, ops[d]), DumpedRules(k, ops[d]))
    BY <1>2 DEF Become
  <2>2. r \in DumpedRules(tables, ops[d]) \/ r \in DumpedRules(k, ops[d])
    BY <2>1 DEF Differ
  <2> DEFINE o2 == ops[d]
  <2> HIDE DEF o2
  <2>3. (\E t, n, i : Holds(tables, t, n, i, r))
          \/ (\E t, n, i : Holds(k, t, n, i, r))
    <3>1. CASE r \in DumpedRules(tables, o2)
      BY <3>1, DumpedHolds
    <3>2. CASE r \in DumpedRules(k, o2)
      BY <3>2, DumpedHolds
    <3> QED BY <2>2, <3>1, <3>2 DEF o2
  <2> QED BY <2>3 DEF HoldsFresh
<1> QED BY <1>1, <1>2

(* The ruleset becomes k: what the base invariant says of the kernel and   *)
(* of the commands still holds.                                            *)
BecomeGood ==
    /\ IsRuleset(tables') /\ OpsInv' /\ Fresh' /\ Dumped'
    /\ raced' \subseteq 1 .. rule'

(* So it does if nothing is in k, or in the dump of c, before it is made.  *)
LEMMA BecomeBase ==
  ASSUME BaseInv, NEW c, NEW k, NEW o, Become(c, k, o),
         rule' \in Nat, rule <= rule',
         IsRuleset(k), HoldsFresh(k, rule'),
         c \in Cmd => OpInv(o) /\ o.dump = << >>
  PROVE  BecomeGood
<1>1. tables' = k
  BY DEF Become
<1>2. OpsInv'
  BY BecomeOpsInv DEF BaseInv
<1>3. 1 .. rule \subseteq 1 .. rule'
  BY DEF BaseInv
<1>4. HoldsFresh(tables, rule')
  BY <1>3 DEF BaseInv, Fresh, HoldsFresh
<1>5. raced' \subseteq 1 .. rule'
  BY <1>3, <1>4, RacedFresh DEF BaseInv
<1>6. Fresh'
  BY <1>1 DEF Fresh, HoldsFresh
<1>7. Dumped'
  <2> SUFFICES ASSUME NEW d \in Cmd, ops'[d].at # "idle", NEW n, NEW i, NEW r,
                      InDump(ops'[d].dump, n, i, r)
               PROVE  r \in 1 .. rule'
    BY DEF Dumped, InFlight
  <2>1. OthersAfter(c, k) /\ (c \in Cmd => ops'[c] = o)
    BY BecomeOps DEF BaseInv
  <2>2. CASE d = c
    <3>1. DOMAIN ops'[d].dump = {}
      BY <2>1, <2>2, NoChains
    <3> QED BY <3>1 DEF InDump
  <2>3. CASE d # c
    <3>1. ops'[d].dump = ops[d].dump /\ ops'[d].at = ops[d].at
      BY <2>1, <2>3 DEF OthersAfter, SameButCalm
    <3> QED BY <3>1, <1>3 DEF BaseInv, Dumped, InFlight
  <2> QED BY <2>2, <2>3
<1> QED BY <1>1, <1>2, <1>5, <1>6, <1>7 DEF BecomeGood

(* A transaction whose effect is good keeps the base invariant.            *)
LEMMA TransactBase ==
  ASSUME BaseInv, NEW c \in Cmd, OpInv(ops[c]), NEW tx \in Transactions,
         NEW can, NEW k, NEW next, NEW deleted,
         Transact(c, tx, can, k, next, deleted),
         can => /\ IsRuleset(k) /\ HoldsFresh(k, rule)
                /\ deleted \subseteq 1 .. rule,
         next \in StepsOf(ops[c].kind) \ {"apply"},
         StepOK(ops[c], next, << >>),
         Len(ops[c].log) + 1 <= Logged(next)
  PROVE  BaseInv'
<1>1. /\ ops[c].log \in Records
      /\ Len(ops[c].log) \in Nat /\ IsOp(ops[c])
  BY LenProperties DEF OpInv, StateOK, Records
<1>2. ASSUME NEW result \in {"ok", "error"}, NEW step, NEW p,
             p = [Audited(ops[c], tx, result) EXCEPT !.at = step],
             step \in StepsOf(ops[c].kind), StepOK(ops[c], step, << >>),
             Len(ops[c].log) + 1 <= Logged(step)
      PROVE  OpInv(p) /\ p.dump = << >>
  <2> DEFINE l == Append(ops[c].log, <<tx, result>>)
  <2>1. l \in Records /\ Len(l) = Len(ops[c].log) + 1
    BY <1>1, AppendProperties DEF Records
  <2>2. Stepped(ops[c], p, step, << >>, l)
    BY <1>1, <1>2, AuditedSteps
  <2> HIDE DEF l
  <2>3. StateOK(ops[c], step, << >>, l)
    BY <1>2, <2>1, NoChains DEF StateOK
  <2> QED BY <2>2, <2>3, SteppedOpInv DEF Stepped
<1>3. rule' = rule /\ rule \in Nat /\ UNCHANGED <<seen, keys, outside>>
  BY DEF Transact, BaseInv
<1>4. CASE /\ can
           /\ Become(c, k, [Audited(ops[c], tx, "ok") EXCEPT !.at = next])
           /\ gone' = gone \cup deleted
  <2> DEFINE p == [Audited(ops[c], tx, "ok") EXCEPT !.at = next]
  <2>1. OpInv(p) /\ p.dump = << >>
    BY <1>2
  <2>2. Become(c, k, p)
    BY <1>4
  <2> HIDE DEF p
  <2>3. BecomeGood
    BY <1>3, <1>4, <2>1, <2>2, BecomeBase
  <2> QED BY <1>3, <1>4, <2>3 DEF BecomeGood, BaseInv
<1>5. CASE /\ Become(c, tables, [Audited(ops[c], tx, "error") EXCEPT
                                   !.at = "failed"])
           /\ gone' = gone
  <2> DEFINE p == [Audited(ops[c], tx, "error") EXCEPT !.at = "failed"]
  <2>1. /\ "failed" \in StepsOf(ops[c].kind)
        /\ StepOK(ops[c], "failed", << >>)
        /\ Len(ops[c].log) + 1 <= Logged("failed")
    BY <1>1 DEF StepsOf, StepOK, Logged
  <2>2. OpInv(p) /\ p.dump = << >>
    BY <1>2, <2>1
  <2>3. Become(c, tables, p)
    BY <1>5
  <2> HIDE DEF p
  <2>4. IsRuleset(tables) /\ HoldsFresh(tables, rule)
    BY DEF BaseInv, Fresh, HoldsFresh
  <2>5. BecomeGood
    BY <1>3, <2>2, <2>3, <2>4, BecomeBase
  <2> QED BY <1>3, <1>5, <2>5 DEF BecomeGood, BaseInv
<1> QED BY <1>4, <1>5 DEF Transact

(* A step in which the command c alone changes and the ruleset does not.   *)
Alone(c, p) ==
    /\ ops' = [ops EXCEPT ![c] = p]
    /\ UNCHANGED <<tables, seen, outside, rule, gone, raced>>

(* It keeps the base invariant if p is right.                              *)
LEMMA AloneBase ==
  ASSUME BaseInv, NEW c \in Cmd, NEW p, Alone(c, p),
         keys' \in 0 .. MaxKeys,
         p = Idle \/ OpInv(p),
         p = Idle \/ \A n, i, r : InDump(p.dump, n, i, r) => r \in 1 .. rule
  PROVE  BaseInv'
<1>1. /\ ops' = [d \in Cmd |-> ops'[d]] /\ ops'[c] = p
      /\ \A d \in Cmd \ {c} : ops'[d] = ops[d]
  BY DEF Alone, BaseInv, OpsInv
<1>2. OpsInv'
  BY <1>1 DEF BaseInv, OpsInv
<1>3. Dumped'
  <2> SUFFICES ASSUME NEW d \in Cmd, ops'[d].at # "idle", NEW n, NEW i, NEW r,
                      InDump(ops'[d].dump, n, i, r)
               PROVE  r \in 1 .. rule'
    BY DEF Dumped, InFlight
  <2>1. CASE d = c
    BY <1>1, <2>1 DEF Alone, Idle
  <2>2. CASE d # c
    BY <1>1, <2>2 DEF Alone, BaseInv, Dumped, InFlight
  <2> QED BY <2>1, <2>2
<1>4. Fresh'
  BY DEF Alone, BaseInv, Fresh
<1> QED BY <1>2, <1>3, <1>4 DEF Alone, BaseInv

-----------------------------------------------------------------------------
(* The commands that start.                                                *)

(* A command in flight is right.                                           *)
LEMMA RunsRight ==
  ASSUME OpsInv, NEW c \in Cmd, InFlight(c)
  PROVE  OpInv(ops[c])
BY DEF OpsInv, InFlight, Idle

(* What is left to do after the name is right, by what differs.            *)
LEMMA AfterRenameIs ==
  ASSUME NEW old \in Chains, NEW s,
         IF old.decl = NoDecl THEN s = Regular ELSE s \in Specs,
         NEW x, x = AfterRename(old, s)
  PROVE  /\ x \in {"dump", "policy", "done"}
         /\ x # "done" => s \in Specs
         /\ x = "policy" => s.decl = old.decl
         /\ x = "done" => s.decl = old.decl /\ s.policy = old.policy
<1> DEFINE base == NoDecl \notin {s.decl, old.decl}
<1>1. old.decl = NoDecl => ~base /\ s.decl = old.decl /\ s.policy = old.policy
  BY ChainFacts DEF Regular
<1>2. old.decl # NoDecl => base /\ s \in Specs
  BY DeclAssumption DEF Specs
<1>3. CASE old.decl = NoDecl
  <2>1. x = "done"
    BY <1>1, <1>3 DEF AfterRename
  <2> QED BY <2>1, <1>1, <1>3
<1>4. CASE old.decl # NoDecl /\ s.decl # old.decl
  <2>1. x = "dump"
    BY <1>2, <1>4 DEF AfterRename
  <2> QED BY <2>1, <1>2, <1>4
<1>5. CASE old.decl # NoDecl /\ s.decl = old.decl /\ s.policy # old.policy
  <2>1. x = "policy"
    BY <1>2, <1>5 DEF AfterRename
  <2> QED BY <2>1, <1>2, <1>5
<1>6. CASE old.decl # NoDecl /\ s.decl = old.decl /\ s.policy = old.policy
  <2>1. x = "done"
    BY <1>2, <1>6 DEF AfterRename
  <2> QED BY <2>1, <1>6
<1> QED BY <1>3, <1>4, <1>5, <1>6

(* The fields of a new command.                                            *)
NewOp(p, kind, t, n, m, s, step) ==
    /\ IsOp(p)
    /\ p.kind = kind /\ p.at = step /\ p.table = t /\ p.chain = n
    /\ p.name = m /\ p.spec = s /\ p.old = seen /\ p.dump = << >>
    /\ p.log = << >> /\ p.calm = (seen = tables)

(* Op makes one.                                                           *)
LEMMA OpIsNew ==
  ASSUME NEW kind, NEW t, NEW n, NEW m, NEW s, NEW step,
         NEW p, p = Op(kind, t, n, m, s, step)
  PROVE  NewOp(p, kind, t, n, m, s, step)
BY DEF Op, NewOp, IsOp

(* A command that starts is right.                                         *)
LEMMA NewOpInv ==
  ASSUME BaseInv, NEW kind, NEW t, NEW n, NEW m, NEW s, NEW step, NEW p,
         NewOp(p, kind, t, n, m, s, step), ArgsOK(p),
         step \in StepsOf(kind) \ {"apply"}, StepOK(p, step, << >>)
  PROVE  OpInv(p) /\ ~\E x, i, r : InDump(p.dump, x, i, r)
<1>1. << >> \in Records /\ Len(<< >>) = 0
  BY DEF Records
<1>2. Logged(step) \in Nat
  BY DEF Logged
<1>3. StateOK(p, p.at, p.dump, p.log)
  BY <1>1, <1>2, NoChains DEF StateOK, NewOp
<1>4. p.calm \in BOOLEAN
  BY DEF NewOp
<1>5. OpInv(p)
  BY <1>3, <1>4 DEF OpInv, NewOp
<1>6. DOMAIN p.dump = {}
  BY NoChains DEF NewOp
<1> QED BY <1>5, <1>6 DEF InDump

(* The command of a start, as it begins.                                   *)
Begins(c, p) ==
    /\ c \in Cmd /\ ~InFlight(c)
    /\ OpInv(p) /\ p.log = << >> /\ p.old = seen /\ p.calm = (seen = tables)
    /\ p.at \in {"flush", "rename", "policy", "dump"}
    /\ p.kind = "updateChain" /\ p.at # "rename" => p.chain = p.name
    /\ ~\E x, i, r : InDump(p.dump, x, i, r)
    /\ keys' \in 0 .. MaxKeys
    /\ Alone(c, p)

(* Every start begins a command that is right.                             *)
LEMMA StartBegins ==
  ASSUME BaseInv, NEW c \in Cmd, Starts(c)
  PROVE  \E p : Begins(c, p)
<1>1. ASSUME NEW kind, NEW t, NEW n, NEW m, NEW s, NEW step,
             Start(c, Op(kind, t, n, m, s, step)),
             \A p : NewOp(p, kind, t, n, m, s, step) => ArgsOK(p),
             \A p : NewOp(p, kind, t, n, m, s, step)
                      => StepOK(p, step, << >>),
             step \in StepsOf(kind) \cap {"flush", "rename", "policy", "dump"},
             kind = "updateChain" /\ step # "rename" => n = m
      PROVE  \E p : Begins(c, p)
  <2> DEFINE q == Op(kind, t, n, m, s, step)
  <2>1. NewOp(q, kind, t, n, m, s, step)
    BY OpIsNew
  <2>2. Start(c, q)
    BY <1>1
  <2> HIDE DEF q
  <2>3. OpInv(q) /\ ~\E x, i, r : InDump(q.dump, x, i, r)
    BY <1>1, <2>1, NewOpInv
  <2>4. keys' \in 0 .. MaxKeys /\ ~InFlight(c) /\ Alone(c, q)
    BY <2>2, BoundAssumption DEF Start, Alone, BaseInv
  <2>5. Begins(c, q)
    BY <1>1, <2>1, <2>3, <2>4 DEF Begins, NewOp
  <2> QED BY <2>5
<1>2. \A t \in DOMAIN seen :
        /\ t \in TableNames /\ DOMAIN seen[t] \subseteq ChainNames
        /\ \A n \in DOMAIN seen[t] : seen[t][n] \in Chains
  BY TableFacts DEF BaseInv
<1>3. IsRuleset(seen)
  BY DEF BaseInv
<1>4. CASE CreateTable(c)
  <2>1. PICK t \in TableNames :
          Start(c, Op("createTable", t, NoDecl, NoDecl, Regular, "flush"))
    BY <1>4 DEF CreateTable
  <2> QED BY <2>1, <1>1, <1>3 DEF NewOp, ArgsOK, StepOK, StepsOf
<1>5. CASE DeleteTable(c)
  <2>1. PICK t \in DOMAIN seen :
          Start(c, Op("deleteTable", t, NoDecl, NoDecl, Regular, "flush"))
    BY <1>5 DEF DeleteTable
  <2> QED BY <2>1, <1>1, <1>2, <1>3 DEF NewOp, ArgsOK, StepOK, StepsOf
<1>6. CASE RenameTable(c)
  <2>1. PICK t \in DOMAIN seen, u \in TableNames :
          /\ u # t
          /\ Start(c, Op("renameTable", t, NoDecl, u, Regular, "dump"))
    BY <1>6 DEF RenameTable
  <2> QED BY <2>1, <1>1, <1>2, <1>3 DEF NewOp, ArgsOK, StepOK, StepsOf
<1>7. CASE CreateChain(c)
  <2>1. PICK t \in DOMAIN seen, n \in ChainNames, s \in Specs \cup {Regular} :
          Start(c, Op("createChain", t, n, n, s, "flush"))
    BY <1>7 DEF CreateChain
  <2> QED BY <2>1, <1>1, <1>2, <1>3 DEF NewOp, ArgsOK, StepOK, StepsOf
<1>8. CASE DeleteChain(c)
  <2>1. PICK t \in DOMAIN seen : \E n \in DOMAIN seen[t] :
          Start(c, Op("deleteChain", t, n, n, Regular, "flush"))
    BY <1>8 DEF DeleteChain
  <2>2. PICK n \in DOMAIN seen[t] :
          Start(c, Op("deleteChain", t, n, n, Regular, "flush"))
    BY <2>1
  <2>3. n \in ChainNames
    BY <1>2
  <2> QED BY <2>2, <2>3, <1>1, <1>2, <1>3 DEF NewOp, ArgsOK, StepOK, StepsOf
<1>9. CASE UpdateChain(c)
  <2>1. PICK t \in DOMAIN seen : \E n \in DOMAIN seen[t] : \E m \in ChainNames :
          \E s \in IF seen[t][n].decl = NoDecl THEN {Regular} ELSE Specs :
            /\ m # n \/ s # [decl |-> seen[t][n].decl,
                             policy |-> seen[t][n].policy]
            /\ Start(c, Op("updateChain", t, n, m, s,
                           IF m # n THEN "rename"
                           ELSE AfterRename(seen[t][n], s)))
    BY <1>9 DEF UpdateChain
  <2>0. PICK n \in DOMAIN seen[t], m \in ChainNames :
          \E s \in IF seen[t][n].decl = NoDecl THEN {Regular} ELSE Specs :
            /\ m # n \/ s # [decl |-> seen[t][n].decl,
                             policy |-> seen[t][n].policy]
            /\ Start(c, Op("updateChain", t, n, m, s,
                           IF m # n THEN "rename"
                           ELSE AfterRename(seen[t][n], s)))
    BY <2>1
  <2>2. PICK s \in IF seen[t][n].decl = NoDecl THEN {Regular} ELSE Specs :
            /\ m # n \/ s # [decl |-> seen[t][n].decl,
                             policy |-> seen[t][n].policy]
            /\ Start(c, Op("updateChain", t, n, m, s,
                           IF m # n THEN "rename"
                           ELSE AfterRename(seen[t][n], s)))
    BY <2>0
  <2> DEFINE old == seen[t][n]
             x == AfterRename(old, s)
             step == IF m # n THEN "rename" ELSE x
  <2>3. old \in Chains /\ n \in ChainNames /\ t \in TableNames
    BY <1>2
  <2>4. /\ IF old.decl = NoDecl THEN s = Regular ELSE s \in Specs
        /\ s \in Specs \cup {Regular}
    OBVIOUS
  <2>5. HasChain(seen, t, n)
    BY DEF HasChain, HasTable
  <2> HIDE DEF x
  <2>6. /\ x \in {"dump", "policy", "done"}
        /\ x # "done" => s \in Specs
        /\ x = "policy" => s.decl = old.decl
        /\ x = "done" => s.decl = old.decl /\ s.policy = old.policy
    BY <2>3, <2>4, AfterRenameIs DEF x
  <2>7. Start(c, Op("updateChain", t, n, m, s, step))
    BY <2>2 DEF x
  <2>8. m # n \/ x # "done"
    <3>1. s = [decl |-> s.decl, policy |-> s.policy]
      BY <2>4 DEF Specs, Regular
    <3> QED BY <2>2, <2>6, <3>1
  <2>9. /\ step \in StepsOf("updateChain")
                      \cap {"flush", "rename", "policy", "dump"}
        /\ step # "rename" => n = m /\ step = x
        /\ step = "rename" => n # m
    BY <2>6, <2>8 DEF StepsOf
  <2>10. ASSUME NEW p, NewOp(p, "updateChain", t, n, m, s, step)
         PROVE  ArgsOK(p) /\ StepOK(p, step, << >>)
    <3> HIDE DEF step
    <3>1. p.old[p.table][p.chain] = old
      BY <2>10 DEF NewOp
    <3>2. ArgsOK(p)
      BY <1>3, <2>3, <2>4, <2>5, <2>10, <3>1 DEF NewOp, ArgsOK
    <3>3. StepOK(p, step, << >>)
      BY <2>6, <2>9, <2>10, <3>1 DEF NewOp, StepOK
    <3> QED BY <3>2, <3>3
  <2> HIDE DEF step
  <2> QED BY <1>1, <2>7, <2>9, <2>10
<1> QED BY <1>4, <1>5, <1>6, <1>7, <1>8, <1>9 DEF Starts

-----------------------------------------------------------------------------
(* The base invariant, action by action.                                   *)

(* Nothing new is held when nothing moves.                                 *)
LEMMA SameRulesFresh ==
  ASSUME NEW k, NEW j, NEW m, SameRules(k, j), HoldsFresh(k, m)
  PROVE  HoldsFresh(j, m)
BY DEF SameRules, HoldsFresh

(* Where a command is when it acts.                                        *)
LEMMA AtStep ==
  ASSUME OpsInv, NEW c \in Cmd, NEW step \in Steps, At(c, step)
  PROVE  /\ OpInv(ops[c]) /\ ops[c].at = step /\ InFlight(c)
         /\ step \in StepsOf(ops[c].kind)
         /\ Len(ops[c].log) \in Nat /\ Len(ops[c].log) <= Logged(step)
<1>1. step # "idle" /\ ops[c].at = step
  BY DEF At, Steps
<1>2. OpInv(ops[c]) /\ InFlight(c)
  BY <1>1, RunsRight DEF InFlight
<1>3. ops[c].log \in Records
  BY <1>2 DEF OpInv, StateOK
<1> QED BY <1>1, <1>2, <1>3, LenProperties DEF OpInv, StateOK, Records

(* What a table command finds.                                             *)
LEMMA FlushTableBase ==
  ASSUME BaseInv, NEW c \in Cmd, FlushTable(c)
  PROVE  BaseInv'
<1> DEFINE o == ops[c]
<1>1. At(c, "flush") /\ IsRuleset(tables) /\ HoldsFresh(tables, rule) /\ OpsInv
  BY DEF FlushTable, BaseInv, Fresh, HoldsFresh
<1>2. OpInv(o) /\ o.at = "flush" /\ "flush" \in StepsOf(o.kind)
      /\ Len(o.log) \in Nat /\ Len(o.log) <= Logged("flush")
  BY <1>1, AtStep DEF Steps
<1>3. /\ "done" \in StepsOf(o.kind) \ {"apply"} /\ StepOK(o, "done", << >>)
      /\ Len(o.log) + 1 <= Logged("done")
  BY <1>2 DEF StepsOf, StepOK, Logged
<1>4. o.table \in TableNames
  BY <1>2 DEF OpInv, ArgsOK
<1>5. CASE Transact(c, "create-table", TRUE, AddTable(tables, o.table),
                    "done", {})
  <2> DEFINE k == AddTable(tables, o.table)
  <2>1. IsRuleset(k) /\ HoldsFresh(k, rule)
    BY <1>1, <1>4, HoldsAddTable, SameRulesFresh
  <2> HIDE DEF k
  <2>2. Transact(c, "create-table", TRUE, k, "done", {})
    BY <1>5 DEF k
  <2> QED BY <1>2, <1>3, <2>1, <2>2, TransactBase
     DEF Transactions
<1>6. CASE Transact(c, "delete-table", CanDelTable(tables, o.table),
                    DelTable(tables, o.table), "done",
                    RulesOf(tables, o.table))
  <2> DEFINE k   == DelTable(tables, o.table)
             can == CanDelTable(tables, o.table)
             d   == RulesOf(tables, o.table)
  <2>1. TableCut(tables, k, o.table)
    BY <1>1, DropTable
  <2>2. d \subseteq 1 .. rule \/ ~can
    BY <1>1, RulesOfHolds DEF HoldsFresh, CanDelTable, HasTable
  <2> HIDE DEF k, d
  <2>3. IsRuleset(k)
    BY <2>1 DEF TableCut
  <2>4. HoldsFresh(k, rule)
    BY <1>1, <2>1, HoldsTableCut DEF HoldsFresh
  <2> HIDE DEF can
  <2>5. Transact(c, "delete-table", can, k, "done", d)
    BY <1>6 DEF k, can, d
  <2> QED BY <1>2, <1>3, <2>2, <2>3, <2>4, <2>5, TransactBase
     DEF Transactions
<1> QED BY <1>5, <1>6 DEF FlushTable

(* The specification of a command can be declared.                         *)
LEMMA SpecsAny ==
  /\ Specs \cup {Regular} \subseteq AnySpec
  /\ \A s \in Specs \cup {Regular} :
       [decl |-> NoDecl, policy |-> s.policy] \in AnySpec
BY DEF Specs, Regular, AnySpec

(* A chain is created or deleted.                                          *)
LEMMA FlushChainBase ==
  ASSUME BaseInv, NEW c \in Cmd, FlushChain(c)
  PROVE  BaseInv'
<1> DEFINE o == ops[c]
<1>1. At(c, "flush") /\ IsRuleset(tables) /\ HoldsFresh(tables, rule) /\ OpsInv
  BY DEF FlushChain, BaseInv, Fresh, HoldsFresh
<1>2. OpInv(o) /\ o.at = "flush" /\ "flush" \in StepsOf(o.kind)
      /\ Len(o.log) \in Nat /\ Len(o.log) <= Logged("flush")
  BY <1>1, AtStep DEF Steps
<1>3. /\ "done" \in StepsOf(o.kind) \ {"apply"} /\ StepOK(o, "done", << >>)
      /\ Len(o.log) + 1 <= Logged("done")
  BY <1>2 DEF StepsOf, StepOK, Logged
<1>4. CASE /\ o.kind = "createChain"
           /\ Transact(c, "create-chain",
                       CanAddChain(tables, o.table, o.chain, o.spec),
                       AddChain(tables, o.table, o.chain, o.spec), "done", {})
  <2> DEFINE k   == AddChain(tables, o.table, o.chain, o.spec)
             can == CanAddChain(tables, o.table, o.chain, o.spec)
  <2>1. o.spec \in AnySpec /\ o.chain \in ChainNames
    BY <1>2, <1>4, SpecsAny DEF OpInv, ArgsOK
  <2>2. can => SameRules(tables, k) /\ IsRuleset(k)
    BY <1>1, <2>1, HoldsAddChain
  <2> HIDE DEF k, can
  <2>3. can => HoldsFresh(k, rule)
    BY <1>1, <2>2, SameRulesFresh
  <2>4. Transact(c, "create-chain", can, k, "done", {})
    BY <1>4 DEF k, can
  <2> QED BY <1>2, <1>3, <2>2, <2>3, <2>4, TransactBase
     DEF Transactions
<1>5. CASE Transact(c, "delete-chain", CanDelChain(tables, o.table, o.chain),
                    DelChain(tables, o.table, o.chain), "done",
                    Range(tables[o.table][o.chain].rules))
  <2> DEFINE k   == DelChain(tables, o.table, o.chain)
             can == CanDelChain(tables, o.table, o.chain)
             d   == Range(tables[o.table][o.chain].rules)
  <2>1. can => ChainCut(tables, k, o.table, o.chain)
    <3>1. can => o.table \in DOMAIN tables
      BY DEF CanDelChain, HasChain, HasTable
    <3> QED BY <3>1, <1>1, DropChain
  <2>2. can => d \subseteq 1 .. rule
    BY <1>1, RangeHolds DEF HoldsFresh, CanDelChain
  <2> HIDE DEF k, d, can
  <2>3. can => IsRuleset(k)
    BY <2>1 DEF ChainCut
  <2>4. can => HoldsFresh(k, rule)
    BY <1>1, <2>1, HoldsChainCut DEF HoldsFresh
  <2>5. Transact(c, "delete-chain", can, k, "done", d)
    BY <1>5 DEF k, can, d
  <2> QED BY <1>2, <1>3, <2>2, <2>3, <2>4, <2>5, TransactBase
     DEF Transactions
<1> QED BY <1>4, <1>5 DEF FlushChain

(* What comes after the rename of a chain.                                 *)
LEMMA NextAfterRename ==
  ASSUME NEW o, OpInv(o), o.kind = "updateChain",
         NEW x, x = AfterRename(o.old[o.table][o.chain], o.spec)
  PROVE  /\ x \in {"dump", "policy", "done"} /\ StepOK(o, x, << >>)
         /\ x = "done" => /\ o.spec.decl = o.old[o.table][o.chain].decl
                          /\ o.spec.policy = o.old[o.table][o.chain].policy
<1> DEFINE old == o.old[o.table][o.chain]
<1>1. HasChain(o.old, o.table, o.chain) /\ IsRuleset(o.old)
      /\ IF old.decl = NoDecl THEN o.spec = Regular ELSE o.spec \in Specs
  BY DEF OpInv, ArgsOK
<1>2. old \in Chains
  BY <1>1, TableFacts DEF HasChain, HasTable
<1> HIDE DEF old
<1>3. /\ x \in {"dump", "policy", "done"}
      /\ x # "done" => o.spec \in Specs
      /\ x = "policy" => o.spec.decl = old.decl
      /\ x = "done" => o.spec.decl = old.decl /\ o.spec.policy = old.policy
  BY <1>1, <1>2, AfterRenameIs DEF old
<1> QED BY <1>3 DEF StepOK, old

(* A chain is renamed.                                                     *)
LEMMA FlushRenameBase ==
  ASSUME BaseInv, NEW c \in Cmd, FlushRename(c)
  PROVE  BaseInv'
<1> DEFINE o == ops[c]
           x == AfterRename(o.old[o.table][o.chain], o.spec)
           k == RenameChain(tables, o.table, o.chain, o.name)
           can == CanRenameChain(tables, o.table, o.chain, o.name)
<1>1. At(c, "rename") /\ IsRuleset(tables) /\ HoldsFresh(tables, rule)
      /\ OpsInv /\ Transact(c, "rename-chain", can, k, x, {})
  BY DEF FlushRename, BaseInv, Fresh, HoldsFresh
<1>2. OpInv(o) /\ o.at = "rename" /\ "rename" \in StepsOf(o.kind)
      /\ Len(o.log) \in Nat /\ Len(o.log) <= Logged("rename")
  BY <1>1, AtStep DEF Steps
<1>3. o.kind = "updateChain"
  BY <1>2 DEF StepsOf
<1>4. o.name \in ChainNames
  BY <1>2, <1>3 DEF OpInv, ArgsOK
<1>5. can => ChainNamed(tables, k, o.table, o.chain, o.name)
  BY <1>1, <1>4, NameChain
<1>6. x \in {"dump", "policy", "done"} /\ StepOK(o, x, << >>)
  BY <1>2, <1>3, NextAfterRename
<1> HIDE DEF x, k, can
<1>7. can => IsRuleset(k)
  BY <1>5 DEF ChainNamed
<1>8. can => HoldsFresh(k, rule)
  BY <1>1, <1>5, HoldsChainNamed DEF HoldsFresh
<1>9. x \in StepsOf(o.kind) \ {"apply"} /\ Len(o.log) + 1 <= Logged(x)
  BY <1>2, <1>3, <1>6 DEF StepsOf, Logged
<1> QED BY <1>1, <1>2, <1>6, <1>7, <1>8, <1>9, TransactBase
     DEF Transactions

(* A policy is set.                                                        *)
LEMMA FlushPolicyBase ==
  ASSUME BaseInv, NEW c \in Cmd, FlushPolicy(c)
  PROVE  BaseInv'
<1> DEFINE o == ops[c]
           s == [decl |-> NoDecl, policy |-> o.spec.policy]
           k == AddChain(tables, o.table, o.name, s)
           can == CanAddChain(tables, o.table, o.name, s)
<1>1. At(c, "policy") /\ IsRuleset(tables) /\ HoldsFresh(tables, rule)
      /\ OpsInv /\ Transact(c, "update-chain-policy", can, k, "done", {})
  BY DEF FlushPolicy, BaseInv, Fresh, HoldsFresh
<1>2. OpInv(o) /\ o.at = "policy" /\ "policy" \in StepsOf(o.kind)
      /\ Len(o.log) \in Nat /\ Len(o.log) <= Logged("policy")
  BY <1>1, AtStep DEF Steps
<1>3. o.kind = "updateChain"
  BY <1>2 DEF StepsOf
<1>4. o.name \in ChainNames /\ s \in AnySpec
  BY <1>2, <1>3, SpecsAny DEF OpInv, ArgsOK
<1> HIDE DEF s
<1>5. can => SameRules(tables, k) /\ IsRuleset(k)
  BY <1>1, <1>4, HoldsAddChain
<1> HIDE DEF k, can
<1>6. can => HoldsFresh(k, rule)
  BY <1>1, <1>5, SameRulesFresh
<1>7. /\ "done" \in StepsOf(o.kind) \ {"apply"} /\ StepOK(o, "done", << >>)
      /\ Len(o.log) + 1 <= Logged("done")
  BY <1>2, <1>3 DEF StepsOf, StepOK, Logged
<1> QED BY <1>1, <1>2, <1>5, <1>6, <1>7, TransactBase
     DEF Transactions

(* What a dump takes: the table, or the chain alone.                       *)
DumpOf(o) == IF o.kind = "renameTable" THEN tables[o.table]
             ELSE Restrict(tables[o.table], {o.name})
Dumps(c, p) ==
    /\ OpInv(ops[c]) /\ ops[c].at = "dump"
    /\ ops[c].kind \in {"renameTable", "updateChain"}
    /\ HasTable(tables, ops[c].table)
    /\ ops[c].kind = "updateChain" =>
         HasChain(tables, ops[c].table, ops[c].name)
    /\ Stepped(ops[c], p, "apply", DumpOf(ops[c]), ops[c].log)
    /\ OpInv(p)
    /\ \A n, i, r : InDump(p.dump, n, i, r) <=>
         /\ Holds(tables, ops[c].table, n, i, r)
         /\ ops[c].kind = "updateChain" => n = ops[c].name
    /\ keys' = keys
    /\ Alone(c, p)

(* Dump takes one.                                                         *)
LEMMA DumpDumps ==
  ASSUME BaseInv, NEW c \in Cmd, Dump(c)
  PROVE  \E p : Dumps(c, p)
<1> DEFINE o == ops[c]
           T == tables[o.table]
           D == DumpOf(o)
           p == [o EXCEPT !.at = "apply", !.dump = D]
<1>1. /\ At(c, "dump") /\ IsRuleset(tables) /\ OpsInv
      /\ IF o.kind = "renameTable" THEN HasTable(tables, o.table)
         ELSE HasChain(tables, o.table, o.name)
      /\ keys' = keys
  BY DEF Dump, BaseInv
<1>2. OpInv(o) /\ o.at = "dump" /\ "dump" \in StepsOf(o.kind)
      /\ Len(o.log) \in Nat /\ Len(o.log) <= Logged("dump")
  BY <1>1, AtStep DEF Steps
<1>3. o.kind \in {"renameTable", "updateChain"}
  BY <1>2 DEF StepsOf
<1>4. HasTable(tables, o.table) /\ IsTable(T)
      /\ (o.kind = "updateChain" => HasChain(tables, o.table, o.name))
  BY <1>1, <1>3, TableFacts DEF HasChain, HasTable
<1>5. /\ IsTable(D)
      /\ DOMAIN D = IF o.kind = "renameTable" THEN DOMAIN T ELSE {o.name}
      /\ \A n \in DOMAIN D : D[n] = T[n]
  <2>1. CASE o.kind = "renameTable"
    <3>1. D = T
      BY <2>1 DEF DumpOf
    <3> QED BY <3>1, <2>1, <1>4
  <2>2. CASE o.kind = "updateChain"
    <3>1. D = [n \in {o.name} |-> T[n]]
      BY <2>2 DEF DumpOf, Restrict
    <3>2. o.name \in DOMAIN T
      BY <1>4, <2>2 DEF HasChain
    <3>3. IsFunction(D) /\ DOMAIN D = {o.name} /\ D[o.name] = T[o.name]
      BY <3>1 DEF IsFunction
    <3> HIDE DEF D
    <3>4. DOMAIN T \subseteq ChainNames /\ T[o.name] \in Chains
      BY <1>4, <3>2, IsTableIs
    <3>5. IsTable(D)
      BY <3>2, <3>3, <3>4, IsTableIs
    <3> QED BY <3>3, <3>5, <2>2
  <2> QED BY <1>3, <2>1, <2>2
<1>6. Alone(c, p)
  <2>1. ops' = [ops EXCEPT ![c].at = "apply", ![c].dump = D]
    BY DEF Dump, DumpOf
  <2>2. ops' = [ops EXCEPT ![c] = p]
    BY <2>1 DEF BaseInv, OpsInv
  <2> QED BY <2>2 DEF Dump, Alone
<1> HIDE DEF D
<1>7. Stepped(o, p, "apply", D, o.log)
  BY <1>2, DumpSteps DEF OpInv
<1>8. StateOK(o, "apply", D, o.log)
  BY <1>2, <1>3, <1>5 DEF OpInv, StateOK, StepOK, StepsOf, Logged
<1> HIDE DEF p
<1>9. OpInv(p)
  BY <1>2, <1>7, <1>8, SteppedOpInv
<1>10. \A n, i, r : InDump(D, n, i, r) <=>
         /\ Holds(tables, o.table, n, i, r)
         /\ o.kind = "updateChain" => n = o.name
  BY <1>3, <1>4, <1>5 DEF InDump, Holds, HasChain
<1>11. p.dump = D
  BY <1>7 DEF Stepped
<1>12. Dumps(c, p)
  BY <1>1, <1>2, <1>3, <1>4, <1>6, <1>7, <1>9, <1>10, <1>11 DEF Dumps, D
<1> QED BY <1>12

(* A dump is taken.                                                        *)
LEMMA DumpBase ==
  ASSUME BaseInv, NEW c \in Cmd, Dump(c)
  PROVE  BaseInv'
<1>1. PICK p : Dumps(c, p)
  BY DumpDumps
<1>2. \A n, i, r : InDump(p.dump, n, i, r) => r \in 1 .. rule
  BY <1>1 DEF Dumps, BaseInv, Fresh
<1>3. OpInv(p) /\ Alone(c, p) /\ keys' \in 0 .. MaxKeys
  BY <1>1 DEF Dumps, BaseInv
<1> QED BY <1>2, <1>3, AloneBase

(* What the two scripts do where they are accepted.                        *)
MoveDoes(o, k) ==
    CanMoveTable(tables, o.table, o.name, o.dump) =>
      TableMoved(tables, k, o.table, o.name, o.dump)
RecreateDoes(o, k) ==
    CanRecreate(tables, o.table, o.name) =>
      \E ch \in Chains : /\ ChainSet(tables, k, o.table, o.name, ch)
                         /\ ch = ChainOf(o.spec, o.dump[o.name].rules)
                         /\ ch.rules = o.dump[o.name].rules

(* A table is moved by its script.                                         *)
LEMMA ApplyMoveDoes ==
  ASSUME BaseInv, NEW c \in Cmd, ApplyMove(c),
         NEW k, k = MoveTable(tables, ops[c].table, ops[c].name, ops[c].dump)
  PROVE  /\ OpInv(ops[c]) /\ ops[c].at = "apply" /\ InFlight(c)
         /\ ops[c].kind = "renameTable"
         /\ MoveDoes(ops[c], k)
<1>1. At(c, "apply") /\ OpsInv /\ IsRuleset(tables)
      /\ ops[c].kind = "renameTable"
  BY DEF ApplyMove, BaseInv
<1>2. OpInv(ops[c]) /\ ops[c].at = "apply" /\ InFlight(c)
  BY <1>1, AtStep DEF Steps
<1>3. /\ ops[c].name \in TableNames /\ ops[c].name # ops[c].table
      /\ IsTable(ops[c].dump)
  BY <1>1, <1>2 DEF OpInv, ArgsOK, StateOK
<1>4. CanMoveTable(tables, ops[c].table, ops[c].name, ops[c].dump) =>
        TableMoved(tables, k, ops[c].table, ops[c].name, ops[c].dump)
  BY <1>1, <1>3, TakeTable
<1> QED BY <1>1, <1>2, <1>4 DEF MoveDoes

(* A chain is made anew by its script.                                     *)
LEMMA ApplyRecreateDoes ==
  ASSUME BaseInv, NEW c \in Cmd, ApplyRecreate(c),
         NEW k, k = Recreate(tables, ops[c].table, ops[c].name, ops[c].spec,
                             ops[c].dump[ops[c].name].rules)
  PROVE  /\ OpInv(ops[c]) /\ ops[c].at = "apply" /\ InFlight(c)
         /\ ops[c].kind = "updateChain"
         /\ RecreateDoes(ops[c], k)
<1> DEFINE o  == ops[c]
           rs == o.dump[o.name].rules
           ch == ChainOf(o.spec, rs)
<1>1. At(c, "apply") /\ OpsInv /\ IsRuleset(tables) /\ o.kind = "updateChain"
  BY DEF ApplyRecreate, BaseInv
<1>2. OpInv(o) /\ o.at = "apply" /\ InFlight(c)
  BY <1>1, AtStep DEF Steps
<1>3. /\ o.name \in ChainNames /\ o.spec \in Specs \cup {Regular}
      /\ IsTable(o.dump) /\ DOMAIN o.dump = {o.name}
  BY <1>1, <1>2 DEF OpInv, ArgsOK, StateOK, StepOK
<1>4. o.dump[o.name] \in Chains
  BY <1>3, IsTableIs
<1>5. rs \in Seq(Nat)
  BY <1>4, ChainFacts
<1>6. o.spec \in AnySpec /\ (o.spec.decl = NoDecl => o.spec.policy = NoPolicy)
  BY <1>3, SpecsAny, DeclAssumption DEF Specs, Regular
<1> HIDE DEF rs
<1>7. ch \in Chains /\ ch.rules = rs
  BY <1>5, <1>6, ChainOfFacts
<1>8. k = [tables EXCEPT ![o.table] = With(@, o.name, ch)]
  BY DEF Recreate, rs
<1> HIDE DEF ch
<1>9. CanRecreate(tables, o.table, o.name) =>
        ChainSet(tables, k, o.table, o.name, ch)
  <2> SUFFICES ASSUME CanRecreate(tables, o.table, o.name)
               PROVE  ChainSet(tables, k, o.table, o.name, ch)
    OBVIOUS
  <2>1. o.table \in DOMAIN tables
    BY DEF CanRecreate, HasChain, HasTable
  <2> QED BY <1>1, <1>3, <1>7, <1>8, <2>1, PutChain
<1> QED BY <1>1, <1>2, <1>7, <1>9 DEF RecreateDoes, rs, ch

(* The base invariant after the script of a table.                         *)
LEMMA ApplyMoveBase ==
  ASSUME BaseInv, NEW c \in Cmd, ApplyMove(c)
  PROVE  BaseInv'
<1> DEFINE o   == ops[c]
           k   == MoveTable(tables, o.table, o.name, o.dump)
           can == CanMoveTable(tables, o.table, o.name, o.dump)
<1>1. /\ OpInv(o) /\ o.at = "apply" /\ InFlight(c) /\ o.kind = "renameTable"
      /\ can => TableMoved(tables, k, o.table, o.name, o.dump)
  BY ApplyMoveDoes DEF MoveDoes
<1>2. Transact(c, "rename-table", can, k, "done", {})
  BY DEF ApplyMove
<1>3. /\ IsRuleset(tables) /\ IsTable(o.dump) /\ o.name # o.table
      /\ \A n, i, r : InDump(o.dump, n, i, r) => r \in 1 .. rule
      /\ HoldsFresh(tables, rule)
  BY <1>1 DEF BaseInv, Dumped, OpInv, ArgsOK, StateOK, Fresh, HoldsFresh
<1> HIDE DEF k, can
<1>4. can => IsRuleset(k)
  BY <1>1 DEF TableMoved
<1>5. can => HoldsFresh(k, rule)
  <2> SUFFICES ASSUME can, NEW t, NEW n, NEW i, NEW r, Holds(k, t, n, i, r)
               PROVE  r \in 1 .. rule
    BY DEF HoldsFresh
  <2>1. \/ t # o.table /\ Holds(tables, t, n, i, r)
        \/ \E x : InDump(o.dump, n, x, r)
    BY <1>1, <1>3, HoldsTableMoved
  <2>2. CASE Holds(tables, t, n, i, r)
    BY <1>3, <2>2 DEF HoldsFresh
  <2>3. CASE \E x : InDump(o.dump, n, x, r)
    BY <1>3, <2>3
  <2> QED BY <2>1, <2>2, <2>3
<1>6. /\ "done" \in StepsOf(o.kind) \ {"apply"} /\ StepOK(o, "done", << >>)
      /\ Len(o.log) + 1 <= Logged("done")
  <2>1. Len(o.log) \in Nat /\ Len(o.log) <= Logged("apply")
    BY <1>1, LenProperties DEF OpInv, StateOK, Records
  <2> QED BY <1>1, <2>1 DEF StepsOf, StepOK, Logged
<1> QED BY <1>1, <1>2, <1>4, <1>5, <1>6, TransactBase DEF Transactions

(* And after the script of a chain.                                        *)
LEMMA ApplyRecreateBase ==
  ASSUME BaseInv, NEW c \in Cmd, ApplyRecreate(c)
  PROVE  BaseInv'
<1> DEFINE o   == ops[c]
           k   == Recreate(tables, o.table, o.name, o.spec,
                           o.dump[o.name].rules)
           can == CanRecreate(tables, o.table, o.name)
<1>1. /\ OpInv(o) /\ o.at = "apply" /\ InFlight(c) /\ o.kind = "updateChain"
      /\ can => \E ch \in Chains :
                  /\ ChainSet(tables, k, o.table, o.name, ch)
                  /\ ch.rules = o.dump[o.name].rules
  BY ApplyRecreateDoes DEF RecreateDoes
<1>2. Transact(c, "recreate-chain", can, k, "done", {})
  BY DEF ApplyRecreate
<1>3. /\ DOMAIN o.dump = {o.name}
      /\ \A n, i, r : InDump(o.dump, n, i, r) => r \in 1 .. rule
      /\ HoldsFresh(tables, rule)
  BY <1>1 DEF BaseInv, Dumped, OpInv, StateOK, StepOK, Fresh, HoldsFresh
<1>4. can => o.table \in DOMAIN tables
  BY DEF CanRecreate, HasChain, HasTable
<1> HIDE DEF k, can
<1>5. can => IsRuleset(k)
  BY <1>1 DEF ChainSet
<1>6. can => HoldsFresh(k, rule)
  <2> SUFFICES ASSUME can, NEW t, NEW n, NEW i, NEW r, Holds(k, t, n, i, r)
               PROVE  r \in 1 .. rule
    BY DEF HoldsFresh
  <2>1. PICK ch \in Chains : /\ ChainSet(tables, k, o.table, o.name, ch)
                             /\ ch.rules = o.dump[o.name].rules
    BY <1>1
  <2>2. IF t = o.table /\ n = o.name
        THEN i \in DOMAIN ch.rules /\ ch.rules[i] = r
        ELSE Holds(tables, t, n, i, r)
    BY <1>4, <2>1, HoldsChainSet
  <2>3. CASE t = o.table /\ n = o.name
    <3>1. InDump(o.dump, o.name, i, r)
      BY <1>3, <2>1, <2>2, <2>3 DEF InDump
    <3> QED BY <1>3, <3>1
  <2> QED BY <1>3, <2>2, <2>3 DEF HoldsFresh
<1>7. /\ "done" \in StepsOf(o.kind) \ {"apply"} /\ StepOK(o, "done", << >>)
      /\ Len(o.log) + 1 <= Logged("done")
  <2>1. Len(o.log) \in Nat /\ Len(o.log) <= Logged("apply")
    BY <1>1, LenProperties DEF OpInv, StateOK, Records
  <2> QED BY <1>1, <2>1 DEF StepsOf, StepOK, Logged
<1> QED BY <1>1, <1>2, <1>5, <1>6, <1>7, TransactBase DEF Transactions

(* A command fails before it sends anything.                               *)
Fails(c, p) ==
    /\ OpInv(ops[c]) /\ InFlight(c)
    /\ ops[c].at \in {"flush", "policy", "dump"}
    /\ Stepped(ops[c], p, "failed", ops[c].dump, ops[c].log)
    /\ OpInv(p) /\ keys' = keys /\ Alone(c, p)

(* NothingSent is such a failure.                                          *)
LEMMA NothingSentFails ==
  ASSUME BaseInv, NEW c \in Cmd, NothingSent(c)
  PROVE  \E p : Fails(c, p)
<1> DEFINE o == ops[c]
           p == [o EXCEPT !.at = "failed"]
<1>1. /\ o.at \in {"flush", "policy", "dump"} /\ OpsInv /\ keys' = keys
      /\ ops' = [ops EXCEPT ![c].at = "failed"]
      /\ UNCHANGED <<tables, seen, outside, rule, gone, raced>>
  BY DEF NothingSent, BaseInv
<1>2. OpInv(o) /\ InFlight(c)
  BY <1>1, RunsRight DEF InFlight
<1>3. Alone(c, p)
  BY <1>1 DEF Alone, OpsInv
<1>4. Stepped(o, p, "failed", o.dump, o.log)
  BY <1>2, NextSteps DEF OpInv
<1> HIDE DEF p
<1>5. StateOK(o, "failed", o.dump, o.log)
  <2>1. Len(o.log) \in Nat /\ Len(o.log) <= Logged(o.at)
    BY <1>2, LenProperties DEF OpInv, StateOK, Records
  <2>2. Len(o.log) <= Logged("failed")
    BY <1>1, <2>1 DEF Logged
  <2> QED BY <1>2, <2>2 DEF OpInv, StateOK, StepOK, StepsOf
<1>6. OpInv(p)
  BY <1>2, <1>4, <1>5, SteppedOpInv
<1>7. Fails(c, p)
  BY <1>1, <1>2, <1>3, <1>4, <1>6 DEF Fails
<1> QED BY <1>7

(* The message of a command is taken.                                      *)
LEMMA DeliverAlone ==
  ASSUME BaseInv, NEW c \in Cmd, Deliver(c)
  PROVE  Alone(c, Idle) /\ keys' = keys
BY DEF Deliver, Alone

(* The ruleset is changed by another program.                              *)
LEMMA ElsewhereBase ==
  ASSUME BaseInv, NEW k, NEW deleted, Elsewhere(k, deleted),
         rule' \in Nat, rule <= rule',
         IsRuleset(k), HoldsFresh(k, rule'), deleted \subseteq 1 .. rule
  PROVE  BaseInv'
<1>1. Become(World, k, Idle) /\ World \notin Cmd
  BY CmdAssumption DEF Elsewhere
<1>2. BecomeGood
  BY <1>1, BecomeBase
<1>3. outside' \in 0 .. MaxOutside
  BY BoundAssumption DEF Elsewhere, BaseInv
<1>4. 1 .. rule \subseteq 1 .. rule'
  BY DEF BaseInv
<1> QED BY <1>2, <1>3, <1>4 DEF BecomeGood, BaseInv, Elsewhere

(* What the other programs do.                                             *)
LEMMA OthersBase ==
  ASSUME BaseInv, Others
  PROVE  BaseInv'
<1>1. /\ IsRuleset(tables) /\ HoldsFresh(tables, rule) /\ rule \in Nat
      /\ 1 .. rule \subseteq 1 .. rule + 1 /\ rule + 1 \in 1 .. rule + 1
      /\ rule + 1 \in Nat /\ rule <= rule /\ rule <= rule + 1
  BY DEF BaseInv, Fresh, HoldsFresh
<1>2. CASE OutsideAddRule
  <2>1. PICK t \in DOMAIN tables : \E n \in DOMAIN tables[t] :
          /\ Elsewhere(AppendRule(tables, t, n, rule + 1), {})
          /\ rule' = rule + 1
    BY <1>2 DEF OutsideAddRule
  <2>2. PICK n \in DOMAIN tables[t] :
          /\ Elsewhere(AppendRule(tables, t, n, rule + 1), {})
          /\ rule' = rule + 1
    BY <2>1
  <2> DEFINE k == AppendRule(tables, t, n, rule + 1)
             x == rule + 1
  <2> HIDE DEF x
  <2>3. /\ IsRuleset(k)
        /\ \A t2, n2, i, r : Holds(k, t2, n2, i, r) <=>
              \/ Holds(tables, t2, n2, i, r)
              \/ /\ t2 = t /\ n2 = n
                 /\ i = Len(tables[t][n].rules) + 1 /\ r = x
    BY <1>1, HoldsAppendRule DEF x
  <2> HIDE DEF k
  <2>4. HoldsFresh(k, rule')
    BY <1>1, <2>2, <2>3 DEF HoldsFresh, x
  <2>5. Elsewhere(k, {})
    BY <2>2 DEF k
  <2>6. rule' \in Nat /\ rule <= rule'
    BY <1>1, <2>2
  <2> QED BY <2>3, <2>4, <2>5, <2>6, ElsewhereBase
<1>3. CASE OutsideDeleteChain
  <2>1. PICK t \in DOMAIN tables : \E n \in DOMAIN tables[t] :
          /\ Elsewhere(DelChain(tables, t, n), Range(tables[t][n].rules))
          /\ UNCHANGED rule
    BY <1>3 DEF OutsideDeleteChain
  <2>2. PICK n \in DOMAIN tables[t] :
          /\ Elsewhere(DelChain(tables, t, n), Range(tables[t][n].rules))
          /\ UNCHANGED rule
    BY <2>1
  <2> DEFINE k == DelChain(tables, t, n)
             d == Range(tables[t][n].rules)
  <2>3. ChainCut(tables, k, t, n)
    BY <1>1, DropChain
  <2>4. HasChain(tables, t, n)
    BY DEF HasChain, HasTable
  <2>5. d \subseteq 1 .. rule
    BY <1>1, <2>4, RangeHolds DEF HoldsFresh
  <2>6. Elsewhere(k, d)
    BY <2>2
  <2> HIDE DEF k, d
  <2>7. IsRuleset(k)
    BY <2>3 DEF ChainCut
  <2>8. HoldsFresh(k, rule')
    BY <1>1, <2>2, <2>3, HoldsChainCut DEF HoldsFresh
  <2> QED BY <1>1, <2>2, <2>5, <2>6, <2>7, <2>8, ElsewhereBase
<1>4. CASE OutsideSetPolicy
  <2>1. PICK t \in DOMAIN tables :
          \E n \in DOMAIN tables[t], p \in Policies :
            /\ tables[t][n].policy \notin {NoPolicy, p}
            /\ Elsewhere([tables EXCEPT ![t][n].policy = p], {})
            /\ UNCHANGED rule
    BY <1>4 DEF OutsideSetPolicy
  <2>2. PICK n \in DOMAIN tables[t], p \in Policies :
            /\ tables[t][n].policy \notin {NoPolicy, p}
            /\ Elsewhere([tables EXCEPT ![t][n].policy = p], {})
            /\ UNCHANGED rule
    BY <2>1
  <2> DEFINE k == [tables EXCEPT ![t][n].policy = p]
  <2>3. IsRuleset(k) /\ SameRules(tables, k)
    BY <1>1, <2>2, HoldsSetPolicy
  <2>4. Elsewhere(k, {})
    BY <2>2
  <2> HIDE DEF k
  <2>5. HoldsFresh(k, rule')
    BY <1>1, <2>2, <2>3, SameRulesFresh
  <2> QED BY <1>1, <2>2, <2>3, <2>4, <2>5, ElsewhereBase
<1> QED BY <1>2, <1>3, <1>4 DEF Others

(* Every step keeps the base invariant.                                    *)
LEMMA BaseStep ==
  ASSUME BaseInv, [Next]_vars
  PROVE  BaseInv'
<1>1. ASSUME NEW c \in Cmd, Starts(c)
      PROVE  BaseInv'
  <2>1. PICK p : Begins(c, p)
    BY <1>1, StartBegins
  <2> QED BY <2>1, AloneBase DEF Begins
<1>2. ASSUME NEW c \in Cmd, Runs(c)
      PROVE  BaseInv'
  <2>1. CASE FlushTable(c)
    BY <2>1, FlushTableBase
  <2>2. CASE FlushChain(c)
    BY <2>2, FlushChainBase
  <2>3. CASE FlushRename(c)
    BY <2>3, FlushRenameBase
  <2>4. CASE FlushPolicy(c)
    BY <2>4, FlushPolicyBase
  <2>5. CASE Dump(c)
    BY <2>5, DumpBase
  <2>6. CASE ApplyMove(c)
    BY <2>6, ApplyMoveBase
  <2>7. CASE ApplyRecreate(c)
    BY <2>7, ApplyRecreateBase
  <2>8. CASE NothingSent(c)
    <3>1. PICK p : Fails(c, p)
      BY <2>8, NothingSentFails
    <3>2. p.dump = ops[c].dump /\ InFlight(c)
      BY <3>1 DEF Fails, Stepped
    <3>3. \A n, i, r : InDump(p.dump, n, i, r) => r \in 1 .. rule
      BY <3>2 DEF BaseInv, Dumped
    <3> QED BY <3>1, <3>3, AloneBase DEF Fails, BaseInv
  <2>9. CASE Deliver(c)
    BY <2>9, DeliverAlone, AloneBase DEF BaseInv
  <2> QED BY <1>2, <2>1, <2>2, <2>3, <2>4, <2>5, <2>6, <2>7, <2>8, <2>9
          DEF Runs
<1>3. CASE Reload
  BY <1>3 DEF Reload, BaseInv, OpsInv, Fresh, Dumped, InFlight
<1>4. CASE Others
  BY <1>4, OthersBase
<1>5. CASE UNCHANGED vars
  BY <1>5 DEF vars, BaseInv, OpsInv, Fresh, Dumped, InFlight
<1> QED BY <1>1, <1>2, <1>3, <1>4, <1>5 DEF Next

(* The ruleset that a behaviour starts with: one rule.                     *)
LEMMA BaseInit ==
  ASSUME Init
  PROVE  /\ BaseInv
         /\ \E t \in TableNames, n \in ChainNames :
              \A t2, n2, i, r : Holds(tables, t2, n2, i, r) <=>
                                  t2 = t /\ n2 = n /\ i = 1 /\ r = 1
<1>1. PICK t \in TableNames, n \in ChainNames, d \in Decls, p \in Policies :
        tables = [x \in {t} |->
                    [y \in {n} |-> [decl |-> d, policy |-> p,
                                    rules |-> <<1>>]]]
  BY DEF Init
<1> DEFINE ch == [decl |-> d, policy |-> p, rules |-> <<1>>]
           T  == [y \in {n} |-> ch]
<1>2. ch \in Chains /\ DOMAIN ch.rules = {1} /\ ch.rules[1] = 1
  BY DEF Chains
<1> HIDE DEF ch
<1>3. IsFunction(T) /\ DOMAIN T = {n} /\ T[n] = ch
  BY DEF IsFunction
<1>4. tables = [x \in {t} |-> T]
  BY <1>1 DEF ch
<1> HIDE DEF T
<1>5. IsTable(T)
  BY <1>2, <1>3, IsTableIs
<1>6. IsFunction(tables) /\ DOMAIN tables = {t} /\ tables[t] = T
  BY <1>4 DEF IsFunction
<1>7. IsRuleset(tables)
  BY <1>5, <1>6, IsRulesetIs
<1>8. \A t2, n2, i, r : Holds(tables, t2, n2, i, r) <=>
                          t2 = t /\ n2 = n /\ i = 1 /\ r = 1
  BY <1>2, <1>3, <1>6 DEF Holds, HasChain, HasTable
<1>9. /\ seen = tables /\ ops = [c \in Cmd |-> Idle]
      /\ keys = 0 /\ outside = 0 /\ rule = 1 /\ gone = {} /\ raced = {}
  BY DEF Init
<1>10. OpsInv /\ Dumped
  BY <1>9 DEF OpsInv, Dumped, InFlight, Idle
<1>11. Fresh
  BY <1>8, <1>9 DEF Fresh
<1>12. BaseInv
  BY <1>7, <1>9, <1>10, <1>11, BoundAssumption DEF BaseInv
<1> QED BY <1>8, <1>12

(* The base invariant holds the types.                                     *)
LEMMA BaseTypeOK ==
  ASSUME BaseInv
  PROVE  TypeOK
<1>1. ASSUME NEW c \in Cmd
      PROVE  OpTypeOK(ops[c])
  <2> DEFINE o == ops[c]
  <2>1. CASE OpInv(o)
    <3>1. o.kind \in Kinds
      BY <2>1 DEF OpInv, ArgsOK, Kinds
    <3>2. o.at \in Steps
      BY <2>1 DEF OpInv, StateOK, StepsOf, Steps
    <3>3. {o.chain, o.name} \subseteq ChainNames \cup TableNames \cup {NoDecl}
      BY <2>1 DEF OpInv, ArgsOK
    <3>4. o.log \in Records /\ Len(o.log) \in Nat /\ Len(o.log) <= Logged(o.at)
      BY <2>1, LenProperties DEF OpInv, StateOK, Records
    <3>5. Len(o.log) <= 2
      BY <3>4 DEF Logged
    <3> QED BY <2>1, <3>1, <3>2, <3>3, <3>4, <3>5
            DEF OpTypeOK, OpInv, ArgsOK, StateOK, Records
  <2>2. CASE o = Idle
    BY <2>2 DEF OpTypeOK
  <2> QED BY <2>1, <2>2 DEF BaseInv, OpsInv
<1> QED BY <1>1 DEF BaseInv, TypeOK

-----------------------------------------------------------------------------
(* The audit log.                                                          *)

(* A command whose log stays adds no record.                               *)
LEMMA NoNewRecord ==
  ASSUME NEW d \in Cmd, ops[d].log \in Records, ops'[d].log = ops[d].log
  PROVE  NewRecords(d) = {}
<1>1. Len(ops[d].log) \in Nat
  BY LenProperties DEF Records
<1> QED BY <1>1 DEF NewRecords

(* A command that comes, goes or stands leaves no record.                  *)
Quiet(d) == \/ ~(InFlight(d) /\ InFlight(d)')
            \/ ops[d].log \in Records /\ ops'[d].log = ops[d].log

(* A step of quiet commands adds no record.                                *)
LEMMA QuietStep ==
  ASSUME \A d \in Cmd : Quiet(d)
  PROVE  StepRecords = {}
BY NoNewRecord DEF Quiet, StepRecords

(* The others are quiet when the ruleset changes.                          *)
LEMMA OthersQuiet ==
  ASSUME BaseInv, NEW c, NEW k, NEW o, Become(c, k, o), NEW d \in Cmd, d # c
  PROVE  Quiet(d)
<1>1. OthersAfter(c, k)
  BY BecomeOps DEF BaseInv
<1>2. CASE ops[d] = Idle
  BY <1>2 DEF Quiet, InFlight, Idle
<1>3. CASE OpInv(ops[d])
  <2>1. ops'[d].log = ops[d].log
    BY <1>1 DEF OthersAfter, SameButCalm
  <2> QED BY <1>3, <2>1 DEF OpInv, StateOK, Quiet
<1> QED BY <1>2, <1>3 DEF BaseInv, OpsInv

(* A transaction leaves the one record that says how it went.              *)
LEMMA TransactAudited ==
  ASSUME BaseInv, NEW c \in Cmd, OpInv(ops[c]), InFlight(c),
         NEW tx \in Transactions, NEW can, NEW k, NEW next \in Steps,
         NEW deleted, Transact(c, tx, can, k, next, deleted)
  PROVE  ChangeAudited
<1>1. ASSUME NEW result, NEW step \in Steps, NEW j, NEW p,
             p = [Audited(ops[c], tx, result) EXCEPT !.at = step],
             Become(c, j, p)
      PROVE  StepRecords = {<<tx, result>>}
  <2> DEFINE l  == ops[c].log
             l2 == Append(l, <<tx, result>>)
  <2>1. l \in Seq(Transactions \X {"ok", "error"}) /\ IsOp(ops[c])
    BY DEF OpInv, StateOK, Records
  <2>2. Stepped(ops[c], p, step, << >>, l2)
    BY <1>1, <2>1, AuditedSteps
  <2>3. ops'[c] = p
    BY <1>1, BecomeOps DEF BaseInv
  <2>4. /\ Len(l) \in Nat /\ Len(l2) = Len(l) + 1
        /\ l2[Len(l2)] = <<tx, result>>
    <3>1. l \in Seq(Transactions \X {"ok", "error", result})
      BY <2>1, LenProperties, ElementOfSeq, SeqDef
    <3> QED BY <3>1, AppendProperties, LenProperties
  <2>5. ops'[c].log = l2 /\ ops'[c].at = step
    BY <2>2, <2>3 DEF Stepped
  <2> HIDE DEF l2
  <2>6. NewRecords(c) = {<<tx, result>>}
    <3>1. Len(l2) > Len(l)
      BY <2>4
    <3> QED BY <2>4, <2>5, <3>1 DEF NewRecords
  <2>7. InFlight(c)'
    BY <2>5 DEF InFlight, Steps
  <2>8. \A d \in Cmd \ {c} : Quiet(d)
    BY <1>1, OthersQuiet
  <2>9. \A d \in Cmd \ {c} :
          (InFlight(d) /\ InFlight(d)') => NewRecords(d) = {}
    BY <2>8, NoNewRecord DEF Quiet
  <2> QED BY <2>6, <2>7, <2>9 DEF StepRecords
<1>2. CASE Become(c, k, [Audited(ops[c], tx, "ok") EXCEPT !.at = next])
  <2>1. StepRecords = {<<tx, "ok">>}
    BY <1>1, <1>2
  <2> QED BY <2>1 DEF ChangeAudited
<1>3. CASE Become(c, tables, [Audited(ops[c], tx, "error") EXCEPT
                                !.at = "failed"])
  <2>1. StepRecords = {<<tx, "error">>}
    BY <1>1, <1>3 DEF Steps
  <2>2. tables' = tables
    BY <1>3 DEF Become
  <2> QED BY <2>1, <2>2 DEF ChangeAudited
<1> QED BY <1>2, <1>3 DEF Transact

(* A step that leaves the ruleset and the logs leaves no record.           *)
LEMMA AloneAudited ==
  ASSUME BaseInv, NEW c \in Cmd, NEW p, Alone(c, p),
         \/ ~InFlight(c)
         \/ p.at = "idle"
         \/ ops[c].log \in Records /\ p.log = ops[c].log
  PROVE  ChangeAudited
<1>1. /\ ops'[c] = p /\ \A d \in Cmd \ {c} : ops'[d] = ops[d]
      /\ tables' = tables
  BY DEF Alone, BaseInv, OpsInv
<1> QED BY <1>1 DEF ChangeAudited

(* The step of a command that sends a transaction.                         *)
LEMMA SendsAudited ==
  ASSUME BaseInv, NEW c \in Cmd,
         \/ FlushTable(c) \/ FlushChain(c) \/ FlushRename(c) \/ FlushPolicy(c)
         \/ ApplyMove(c) \/ ApplyRecreate(c)
  PROVE  ChangeAudited
<1> DEFINE o == ops[c]
<1>1. \A step \in Steps : At(c, step) => OpInv(o) /\ InFlight(c)
  BY AtStep DEF BaseInv
<1>2. "done" \in Steps /\ {"flush", "rename", "policy", "apply"} \subseteq Steps
  BY DEF Steps
<1>3. CASE FlushTable(c)
  <2>1. OpInv(o) /\ InFlight(c)
    BY <1>1, <1>2, <1>3 DEF FlushTable
  <2>2. CASE Transact(c, "create-table", TRUE, AddTable(tables, o.table),
                      "done", {})
    BY <1>2, <2>1, <2>2, TransactAudited DEF Transactions
  <2>3. CASE Transact(c, "delete-table", CanDelTable(tables, o.table),
                      DelTable(tables, o.table), "done",
                      RulesOf(tables, o.table))
    BY <1>2, <2>1, <2>3, TransactAudited DEF Transactions
  <2> QED BY <1>3, <2>2, <2>3 DEF FlushTable
<1>4. CASE FlushChain(c)
  <2>1. OpInv(o) /\ InFlight(c)
    BY <1>1, <1>2, <1>4 DEF FlushChain
  <2>2. CASE Transact(c, "create-chain",
                      CanAddChain(tables, o.table, o.chain, o.spec),
                      AddChain(tables, o.table, o.chain, o.spec), "done", {})
    BY <1>2, <2>1, <2>2, TransactAudited DEF Transactions
  <2>3. CASE Transact(c, "delete-chain", CanDelChain(tables, o.table, o.chain),
                      DelChain(tables, o.table, o.chain), "done",
                      Range(tables[o.table][o.chain].rules))
    BY <1>2, <2>1, <2>3, TransactAudited DEF Transactions
  <2> QED BY <1>4, <2>2, <2>3 DEF FlushChain
<1>5. CASE FlushRename(c)
  <2> DEFINE x == AfterRename(o.old[o.table][o.chain], o.spec)
  <2>1. OpInv(o) /\ InFlight(c) /\ o.at = "rename"
    BY <1>1, <1>2, <1>5 DEF FlushRename, At
  <2>2. x \in Steps
    <3>1. o.kind = "updateChain"
      BY <2>1 DEF OpInv, StateOK, StepsOf
    <3>2. x \in {"dump", "policy", "done"}
      BY <2>1, <3>1, NextAfterRename
    <3> QED BY <3>2 DEF Steps
  <2> HIDE DEF x
  <2>3. Transact(c, "rename-chain",
                 CanRenameChain(tables, o.table, o.chain, o.name),
                 RenameChain(tables, o.table, o.chain, o.name), x, {})
    BY <1>5 DEF FlushRename, x
  <2> QED BY <2>1, <2>2, <2>3, TransactAudited DEF Transactions
<1>6. CASE FlushPolicy(c)
  <2> DEFINE s == [decl |-> NoDecl, policy |-> o.spec.policy]
  <2>1. OpInv(o) /\ InFlight(c)
    BY <1>1, <1>2, <1>6 DEF FlushPolicy
  <2>2. Transact(c, "update-chain-policy",
                 CanAddChain(tables, o.table, o.name, s),
                 AddChain(tables, o.table, o.name, s), "done", {})
    BY <1>6 DEF FlushPolicy
  <2> HIDE DEF s
  <2> QED BY <1>2, <2>1, <2>2, TransactAudited DEF Transactions
<1>7. CASE ApplyMove(c)
  <2>1. OpInv(o) /\ InFlight(c)
    BY <1>1, <1>2, <1>7 DEF ApplyMove
  <2>2. Transact(c, "rename-table",
                 CanMoveTable(tables, o.table, o.name, o.dump),
                 MoveTable(tables, o.table, o.name, o.dump), "done", {})
    BY <1>7 DEF ApplyMove
  <2> QED BY <1>2, <2>1, <2>2, TransactAudited DEF Transactions
<1>8. CASE ApplyRecreate(c)
  <2>1. OpInv(o) /\ InFlight(c)
    BY <1>1, <1>2, <1>8 DEF ApplyRecreate
  <2>2. Transact(c, "recreate-chain", CanRecreate(tables, o.table, o.name),
                 Recreate(tables, o.table, o.name, o.spec,
                          o.dump[o.name].rules), "done", {})
    BY <1>8 DEF ApplyRecreate
  <2> QED BY <1>2, <2>1, <2>2, TransactAudited DEF Transactions
<1> QED BY <1>3, <1>4, <1>5, <1>6, <1>7, <1>8

(* The base invariant is an invariant.                                     *)
LEMMA BaseAlways == Spec => []BaseInv
<1>1. Init => BaseInv
  BY BaseInit
<1>2. BaseInv /\ [Next]_vars => BaseInv'
  BY BaseStep
<1> QED BY <1>1, <1>2, PTL DEF Spec

(* EveryChangeAudited for any number of commands, names and rules: no      *)
(* interleaving of commands changes the ruleset without its record, and a  *)
(* record never says error of a change that was made (flushAndAudit and    *)
(* the two scripts of nft_linux.go).                                       *)
THEOREM ChangesAreAudited == Spec => EveryChangeAudited
<1>1. ASSUME BaseInv, [Next]_vars
      PROVE  [ChangeAudited]_vars
  <2>1. ASSUME NEW c \in Cmd, Starts(c)
        PROVE  ChangeAudited
    <3>1. PICK p : Begins(c, p)
      BY <1>1, <2>1, StartBegins
    <3> QED BY <1>1, <3>1, AloneAudited DEF Begins
  <2>2. ASSUME NEW c \in Cmd, Runs(c)
        PROVE  ChangeAudited
    <3>1. CASE \/ FlushTable(c) \/ FlushChain(c) \/ FlushRename(c)
               \/ FlushPolicy(c) \/ ApplyMove(c) \/ ApplyRecreate(c)
      BY <1>1, <3>1, SendsAudited
    <3>2. CASE Dump(c)
      <4>1. PICK p : Dumps(c, p)
        BY <1>1, <3>2, DumpDumps
      <4> QED BY <1>1, <4>1, AloneAudited DEF Dumps, Stepped, OpInv, StateOK
    <3>3. CASE NothingSent(c)
      <4>1. PICK p : Fails(c, p)
        BY <1>1, <3>3, NothingSentFails
      <4> QED BY <1>1, <4>1, AloneAudited DEF Fails, Stepped, OpInv, StateOK
    <3>4. CASE Deliver(c)
      <4>1. Alone(c, Idle) /\ Idle.at = "idle"
        BY <1>1, <3>4, DeliverAlone DEF Idle
      <4> QED BY <1>1, <4>1, AloneAudited
    <3> QED BY <2>2, <3>1, <3>2, <3>3, <3>4 DEF Runs
  <2>3. CASE Reload
    BY <2>3 DEF Reload, ChangeAudited, StepRecords, NewRecords
  <2>4. CASE Others
    <3>1. PICK k, deleted : Elsewhere(k, deleted)
      BY <2>4 DEF Others, OutsideAddRule, OutsideDeleteChain, OutsideSetPolicy
    <3>2. Become(World, k, Idle) /\ outside' # outside
      BY <1>1, <3>1 DEF Elsewhere, BaseInv
    <3>3. \A d \in Cmd : Quiet(d)
      BY <1>1, <3>2, OthersQuiet, CmdAssumption
    <3> QED BY <3>2, <3>3, QuietStep DEF ChangeAudited
  <2>5. CASE UNCHANGED vars
    BY <2>5
  <2> QED BY <1>1, <2>1, <2>2, <2>3, <2>4, <2>5 DEF Next
<1> QED BY <1>1, BaseAlways, PTL DEF Spec, EveryChangeAudited

-----------------------------------------------------------------------------
(* No rule is lost, doubled or brought back.                               *)

(* A rule stands nowhere, or in one place.                                 *)
Nowhere(k, r) == \A t, n, i : ~Holds(k, t, n, i, r)
Only(k, t, n, i, r) ==
    /\ Holds(k, t, n, i, r)
    /\ \A t2, n2, i2 : Holds(k, t2, n2, i2, r) => t2 = t /\ n2 = n /\ i2 = i
Once(k, r) == \E t, n, i : Only(k, t, n, i, r)
RuleOK(k, r, g) == IF r \in g THEN Nowhere(k, r) ELSE Once(k, r)

(* A dump waiting for its script has the rules that stand where it was     *)
(* taken, each once.  Which chain of a table they stand in may have        *)
(* changed: the rename of a chain is no loss.                              *)
DumpOK(k, o, r) ==
    /\ (\E n, i : InDump(o.dump, n, i, r)) <=> r \in DumpedRules(k, o)
    /\ \A n, i, n2, i2 : InDump(o.dump, n, i, r) /\ InDump(o.dump, n2, i2, r)
                           => n2 = n /\ i2 = i
RuleInv ==
    \A r \in (1 .. rule) \ raced :
        /\ RuleOK(tables, r, gone)
        /\ \A c \in Cmd : ops[c].at = "apply" => DumpOK(tables, ops[c], r)

(* The rule r does not move.                                               *)
LEMMA StaysOK ==
  ASSUME NEW k, NEW j, NEW r, NEW g, RuleOK(k, r, g),
         \A t, n, i : Holds(j, t, n, i, r) <=> Holds(k, t, n, i, r)
  PROVE  RuleOK(j, r, g)
BY DEF RuleOK, Nowhere, Once, Only

(* Some places are taken away, and the rules that stood there are gone.    *)
LEMMA CutOK ==
  ASSUME NEW k, NEW j, NEW r, NEW g, NEW d, RuleOK(k, r, g),
         \A t, n, i : Holds(j, t, n, i, r) => Holds(k, t, n, i, r),
         r \in d <=> \E t, n, i : Holds(k, t, n, i, r) /\ ~Holds(j, t, n, i, r)
  PROVE  RuleOK(j, r, g \cup d)
<1>1. CASE r \in g
  BY <1>1 DEF RuleOK, Nowhere
<1>2. CASE r \notin g /\ r \in d
  <2>1. PICK t, n, i : Only(k, t, n, i, r)
    BY <1>2 DEF RuleOK, Once
  <2>2. ~Holds(j, t, n, i, r)
    BY <1>2, <2>1 DEF Only
  <2>3. Nowhere(j, r)
    BY <2>1, <2>2 DEF Nowhere, Only
  <2> QED BY <1>2, <2>3 DEF RuleOK
<1>3. CASE r \notin g /\ r \notin d
  <2>1. PICK t, n, i : Only(k, t, n, i, r)
    BY <1>3 DEF RuleOK, Once
  <2>2. Holds(j, t, n, i, r)
    BY <1>3, <2>1 DEF Only
  <2>3. Only(j, t, n, i, r)
    BY <2>1, <2>2 DEF Only
  <2> QED BY <1>3, <2>3 DEF RuleOK, Once
<1> QED BY <1>1, <1>2, <1>3

(* A chain is renamed: its rules move with it.                             *)
LEMMA NamedOK ==
  ASSUME NEW k, NEW j, NEW t, NEW n, NEW m, NEW r, NEW g, RuleOK(k, r, g),
         ChainNamed(k, j, t, n, m)
  PROVE  RuleOK(j, r, g)
<1>1. \A t2, n2, i : Holds(j, t2, n2, i, r) <=>
           \/ t2 = t /\ n2 = m /\ Holds(k, t, n, i, r)
           \/ ~(t2 = t /\ n2 = n) /\ Holds(k, t2, n2, i, r)
  BY HoldsChainNamed
<1>2. n # m /\ \A i : ~Holds(k, t, m, i, r)
  BY DEF ChainNamed, Holds
<1>3. CASE r \in g
  BY <1>1, <1>3 DEF RuleOK, Nowhere
<1>4. CASE r \notin g
  <2>1. PICK t1, n1, i1 : Only(k, t1, n1, i1, r)
    BY <1>4 DEF RuleOK, Once
  <2>2. CASE t1 = t /\ n1 = n
    <3>1. Only(j, t, m, i1, r)
      BY <1>1, <1>2, <2>1, <2>2 DEF Only
    <3> QED BY <1>4, <3>1 DEF RuleOK, Once
  <2>3. CASE ~(t1 = t /\ n1 = n)
    <3>1. Only(j, t1, n1, i1, r)
      BY <1>1, <1>2, <2>1, <2>3 DEF Only
    <3> QED BY <1>4, <3>1 DEF RuleOK, Once
  <2> QED BY <2>2, <2>3
<1> QED BY <1>3, <1>4

(* A chain is made anew from its dump.                                     *)
LEMMA RecreatedOK ==
  ASSUME NEW k, NEW j, NEW o, NEW ch, NEW r, NEW g, RuleOK(k, r, g),
         o.at = "apply", o.kind = "updateChain", DOMAIN o.dump = {o.name},
         DumpOK(k, o, r), o.table \in DOMAIN k,
         ChainSet(k, j, o.table, o.name, ch),
         ch.rules = o.dump[o.name].rules
  PROVE  RuleOK(j, r, g)
<1> DEFINE t == o.table
           n == o.name
<1>1. \A t2, n2, i : Holds(j, t2, n2, i, r) <=>
           IF t2 = t /\ n2 = n THEN i \in DOMAIN ch.rules /\ ch.rules[i] = r
           ELSE Holds(k, t2, n2, i, r)
  BY HoldsChainSet
<1>2. \A i : InDump(o.dump, n, i, r)
               <=> i \in DOMAIN ch.rules /\ ch.rules[i] = r
  BY DEF InDump
<1>3. \A n2, i : InDump(o.dump, n2, i, r) => n2 = n
  BY DEF InDump
<1>4. r \in DumpedRules(k, o) <=> \E i : Holds(k, t, n, i, r)
  BY DumpedHolds
<1>5. /\ (\E i : InDump(o.dump, n, i, r)) <=> (\E i : Holds(k, t, n, i, r))
      /\ \A i, i2 : InDump(o.dump, n, i, r) /\ InDump(o.dump, n, i2, r)
                      => i2 = i
  BY <1>3, <1>4 DEF DumpOK
<1>6. \A t2, n2, i : Holds(j, t2, n2, i, r) <=>
           IF t2 = t /\ n2 = n THEN InDump(o.dump, n, i, r)
           ELSE Holds(k, t2, n2, i, r)
  BY <1>1, <1>2
<1> HIDE DEF t, n
<1>7. CASE r \in g
  <2>1. Nowhere(k, r)
    BY <1>7 DEF RuleOK
  <2>2. Nowhere(j, r)
    BY <1>5, <1>6, <2>1 DEF Nowhere
  <2> QED BY <1>7, <2>2 DEF RuleOK
<1>8. CASE r \notin g
  <2>1. PICK t1, n1, i1 : Only(k, t1, n1, i1, r)
    BY <1>8 DEF RuleOK, Once
  <2>2. CASE t1 = t /\ n1 = n
    <3>1. PICK i2 : InDump(o.dump, n, i2, r)
      BY <1>5, <2>1, <2>2 DEF Only
    <3>2. Only(j, t, n, i2, r)
      BY <1>5, <1>6, <2>1, <2>2, <3>1 DEF Only
    <3> QED BY <1>8, <3>2 DEF RuleOK, Once
  <2>3. CASE ~(t1 = t /\ n1 = n)
    <3>1. \A i : ~InDump(o.dump, n, i, r)
      BY <1>5, <2>1, <2>3 DEF Only
    <3>2. Only(j, t1, n1, i1, r)
      BY <1>6, <2>1, <2>3, <3>1 DEF Only
    <3> QED BY <1>8, <3>2 DEF RuleOK, Once
  <2> QED BY <2>2, <2>3
<1> QED BY <1>7, <1>8

(* A table is moved by its dump.                                           *)
LEMMA MovedOK ==
  ASSUME NEW k, IsRuleset(k), NEW j, NEW o, NEW r, NEW g, RuleOK(k, r, g),
         o.at = "apply", o.kind = "renameTable", IsTable(o.dump),
         o.name # o.table, DumpOK(k, o, r),
         TableMoved(k, j, o.table, o.name, o.dump)
  PROVE  RuleOK(j, r, g)
<1> DEFINE t == o.table
           u == o.name
<1>1. \A t2, n2, i : Holds(j, t2, n2, i, r) <=>
           \/ t2 # t /\ Holds(k, t2, n2, i, r)
           \/ /\ t2 = u /\ i \in Nat
              /\ InDump(o.dump, n2, i - Shift(k, u, n2), r)
  BY HoldsTableMoved
<1>2. r \in DumpedRules(k, o) <=> \E n, i : Holds(k, t, n, i, r)
  BY DumpedHolds
<1>3. /\ (\E n, i : InDump(o.dump, n, i, r))
           <=> (\E n, i : Holds(k, t, n, i, r))
      /\ \A n, i, n2, i2 : InDump(o.dump, n, i, r) /\ InDump(o.dump, n2, i2, r)
                             => n2 = n /\ i2 = i
  BY <1>2 DEF DumpOK
<1>4. t # u
  OBVIOUS
<1>5. ASSUME NEW n, NEW i, InDump(o.dump, n, i, r)
      PROVE  i \in Nat /\ i # 0 /\ Shift(k, u, n) \in Nat
  <2>1. n \in DOMAIN o.dump /\ i \in DOMAIN o.dump[n].rules
    BY <1>5 DEF InDump
  <2>2. o.dump[n] \in Chains
    BY <2>1, IsTableIs
  <2>3. i \in Nat /\ i # 0
    BY <2>1, <2>2, ChainFacts
  <2>4. HasChain(k, u, n) => Len(k[u][n].rules) \in Nat
    BY TableFacts, ChainFacts DEF HasChain, HasTable
  <2> QED BY <2>3, <2>4 DEF Shift
<1> HIDE DEF t, u
<1>6. CASE ~\E n, i : InDump(o.dump, n, i, r)
  <2>1. \A n, i : ~Holds(k, t, n, i, r)
    BY <1>3, <1>6
  <2>2. \A t2, n2, i : Holds(j, t2, n2, i, r) <=> Holds(k, t2, n2, i, r)
    BY <1>1, <1>6, <2>1
  <2> QED BY <2>2, StaysOK
<1>7. CASE \E n, i : InDump(o.dump, n, i, r)
  <2>1. PICK n, i : InDump(o.dump, n, i, r)
    BY <1>7
  <2>2. PICK n1, i1 : Holds(k, t, n1, i1, r)
    BY <1>3, <2>1
  <2>3. r \notin g /\ Only(k, t, n1, i1, r)
    BY <2>2 DEF RuleOK, Nowhere, Once, Only
  <2>4. \A t2, n2, i2 : t2 # t => ~Holds(k, t2, n2, i2, r)
    BY <2>3 DEF Only
  <2> DEFINE s == Shift(k, u, n)
             x == i + s
  <2>5. i \in Nat /\ s \in Nat
    BY <1>5, <2>1
  <2> HIDE DEF s
  <2>6. x \in Nat /\ x - s = i
    BY <2>5
  <2>7. Holds(j, u, n, x, r)
    BY <1>1, <2>1, <2>6 DEF s
  <2> HIDE DEF x
  <2>8. ASSUME NEW t2, NEW n2, NEW i2, Holds(j, t2, n2, i2, r)
        PROVE  t2 = u /\ n2 = n /\ i2 = x
    <3>1. /\ t2 = u /\ i2 \in Nat
          /\ InDump(o.dump, n2, i2 - Shift(k, u, n2), r)
      BY <1>1, <2>4, <2>8
    <3> DEFINE y == i2 - Shift(k, u, n2)
    <3>2. InDump(o.dump, n2, y, r)
      BY <3>1
    <3> HIDE DEF y
    <3>3. n2 = n /\ y = i
      BY <1>3, <2>1, <3>2
    <3>4. i2 - s = i
      BY <3>3 DEF y, s
    <3>5. i2 = x
      BY <2>5, <3>1, <3>4 DEF x
    <3> QED BY <3>1, <3>3, <3>5
  <2>9. Only(j, u, n, x, r)
    BY <2>7, <2>8 DEF Only
  <2> QED BY <2>3, <2>9 DEF RuleOK, Once
<1> QED BY <1>6, <1>7

-----------------------------------------------------------------------------
(* What a change of the ruleset leaves of the dumps: a rule that entered   *)
(* or left the place a dump stands for has raced.                          *)
LEMMA DumpsAfter ==
  ASSUME BaseInv, RuleInv, NEW c, NEW k, NEW o, Become(c, k, o),
         rule' \in Nat, rule <= rule', HoldsFresh(k, rule'),
         NEW r \in (1 .. rule') \ raced', NEW d \in Cmd, d # c,
         ops'[d].at = "apply"
  PROVE  DumpOK(k, ops'[d], r)
<1>1. OthersAfter(c, k)
  BY BecomeOps DEF BaseInv
<1>2. /\ ops'[d].at = ops[d].at /\ ops'[d].dump = ops[d].dump
      /\ ops'[d].kind = ops[d].kind /\ ops'[d].table = ops[d].table
      /\ ops'[d].name = ops[d].name
  BY <1>1 DEF OthersAfter, SameButCalm
<1> DEFINE p == ops[d]
           q == ops'[d]
<1>3. /\ r \notin raced
      /\ r \in DumpedRules(tables, p) <=> r \in DumpedRules(k, p)
  BY DEF Become, Differ
<1> HIDE DEF p, q
<1>4. r \in DumpedRules(k, q) <=> r \in DumpedRules(k, p)
  BY <1>2, DumpedHolds DEF p, q
<1>5. q.dump = p.dump /\ p.at = "apply"
  BY <1>2 DEF p, q
<1>6. CASE r \in 1 .. rule
  <2>1. DumpOK(tables, p, r)
    BY <1>3, <1>5, <1>6 DEF RuleInv, p
  <2>2. DumpOK(k, q, r)
    BY <2>1, <1>3, <1>4, <1>5 DEF DumpOK
  <2> QED BY <2>2 DEF q
<1>7. CASE r \notin 1 .. rule
  <2>1. \A n, i : ~InDump(p.dump, n, i, r)
    BY <1>5, <1>7 DEF BaseInv, Dumped, InFlight, p
  <2>2. \A t, n, i : ~Holds(tables, t, n, i, r)
    BY <1>7 DEF BaseInv, Fresh
  <2>3. r \notin DumpedRules(tables, p)
    BY <2>2, DumpedHolds
  <2>4. DumpOK(k, q, r)
    BY <1>3, <1>4, <1>5, <2>1, <2>3 DEF DumpOK
  <2> QED BY <2>4 DEF q
<1> QED BY <1>6, <1>7

(* A change of the ruleset that is right for its rules.                    *)
LEMMA BecomeRules ==
  ASSUME BaseInv, RuleInv, NEW c, NEW k, NEW o, Become(c, k, o),
         rule' \in Nat, rule <= rule', HoldsFresh(k, rule'),
         c \in Cmd => o.at # "apply",
         \A r \in (1 .. rule') \ raced : RuleOK(k, r, gone')
  PROVE  RuleInv'
<1>1. tables' = k /\ raced \subseteq raced'
  BY DEF Become
<1>2. ASSUME NEW r \in (1 .. rule') \ raced'
      PROVE  /\ RuleOK(k, r, gone')
             /\ \A d \in Cmd : ops'[d].at = "apply" => DumpOK(k, ops'[d], r)
  <2>1. RuleOK(k, r, gone')
    BY <1>1
  <2>2. ASSUME NEW d \in Cmd, ops'[d].at = "apply"
        PROVE  DumpOK(k, ops'[d], r)
    <3>1. CASE d = c
      <4>1. ops'[c] = o
        BY <3>1, BecomeOps DEF BaseInv
      <4> QED BY <2>2, <3>1, <4>1
    <3>2. CASE d # c
      BY <2>2, <3>2, DumpsAfter
    <3> QED BY <3>1, <3>2
  <2> QED BY <2>1, <2>2
<1> QED BY <1>1, <1>2 DEF RuleInv

(* A transaction that is right for the rules.                              *)
LEMMA TransactRules ==
  ASSUME BaseInv, RuleInv, NEW c \in Cmd, OpInv(ops[c]),
         NEW tx, NEW can, NEW k, NEW next \in Steps \ {"apply"}, NEW deleted,
         Transact(c, tx, can, k, next, deleted), BaseInv',
         can => \A r \in (1 .. rule) \ raced : RuleOK(k, r, gone \cup deleted)
  PROVE  RuleInv'
<1>1. rule' = rule /\ rule \in Nat /\ rule <= rule' /\ IsOp(ops[c])
  BY DEF Transact, BaseInv, OpInv
<1>2. ASSUME NEW j, Become(c, j, ops'[c]) PROVE HoldsFresh(j, rule')
  BY <1>2 DEF Become, BaseInv, Fresh, HoldsFresh
<1>3. CASE /\ can
           /\ Become(c, k, [Audited(ops[c], tx, "ok") EXCEPT !.at = next])
           /\ gone' = gone \cup deleted
  <2> DEFINE p == [Audited(ops[c], tx, "ok") EXCEPT !.at = next]
  <2>1. p.at = next
    BY <1>1, AuditedSteps DEF Stepped
  <2>2. Become(c, k, p)
    BY <1>3
  <2> HIDE DEF p
  <2>3. ops'[c] = p
    BY <2>2, BecomeOps DEF BaseInv
  <2>4. HoldsFresh(k, rule')
    BY <1>2, <2>2, <2>3
  <2>5. \A r \in (1 .. rule') \ raced : RuleOK(k, r, gone')
    BY <1>1, <1>3
  <2> QED BY <1>1, <2>1, <2>2, <2>4, <2>5, BecomeRules
<1>4. CASE /\ Become(c, tables, [Audited(ops[c], tx, "error") EXCEPT
                                   !.at = "failed"])
           /\ gone' = gone
  <2> DEFINE p == [Audited(ops[c], tx, "error") EXCEPT !.at = "failed"]
  <2>1. p.at = "failed"
    BY <1>1, AuditedSteps DEF Stepped
  <2>2. Become(c, tables, p)
    BY <1>4
  <2> HIDE DEF p
  <2>3. HoldsFresh(tables, rule')
    BY <1>1 DEF BaseInv, Fresh, HoldsFresh
  <2>4. \A r \in (1 .. rule') \ raced : RuleOK(tables, r, gone')
    BY <1>1, <1>4 DEF RuleInv
  <2> QED BY <1>1, <2>1, <2>2, <2>3, <2>4, BecomeRules
<1> QED BY <1>3, <1>4 DEF Transact

(* Every step of a command that sends a transaction is right for the rules.*)
LEMMA FlushTableRules ==
  ASSUME BaseInv, BaseInv', RuleInv, NEW c \in Cmd, FlushTable(c)
  PROVE  RuleInv'
<1> DEFINE o == ops[c]
<1>1. /\ OpInv(o) /\ IsRuleset(tables) /\ "done" \in Steps \ {"apply"}
      /\ o.table \in TableNames
      /\ \A r \in (1 .. rule) \ raced : RuleOK(tables, r, gone)
  BY AtStep DEF FlushTable, BaseInv, Steps, RuleInv, OpInv, ArgsOK
<1>2. CASE Transact(c, "create-table", TRUE, AddTable(tables, o.table),
                    "done", {})
  <2> DEFINE k == AddTable(tables, o.table)
  <2>1. SameRules(tables, k)
    BY <1>1, HoldsAddTable
  <2> HIDE DEF k
  <2>2. \A r \in (1 .. rule) \ raced : RuleOK(k, r, gone \cup {})
    <3> SUFFICES ASSUME NEW r \in (1 .. rule) \ raced
                 PROVE  RuleOK(k, r, gone)
      BY DEF RuleOK
    <3> QED BY <1>1, <2>1, StaysOK DEF SameRules
  <2>3. Transact(c, "create-table", TRUE, k, "done", {})
    BY <1>2 DEF k
  <2> QED BY <1>1, <2>2, <2>3, TransactRules
<1>3. CASE Transact(c, "delete-table", CanDelTable(tables, o.table),
                    DelTable(tables, o.table), "done",
                    RulesOf(tables, o.table))
  <2> DEFINE k   == DelTable(tables, o.table)
             can == CanDelTable(tables, o.table)
             d   == RulesOf(tables, o.table)
  <2>1. TableCut(tables, k, o.table)
    BY <1>1, DropTable
  <2>2. can => \A r : r \in d <=> \E n, i : Holds(tables, o.table, n, i, r)
    BY RulesOfHolds DEF CanDelTable, HasTable
  <2> HIDE DEF k, d, can
  <2>3. \A t, n, i, r : Holds(k, t, n, i, r)
                          <=> Holds(tables, t, n, i, r) /\ t # o.table
    BY <2>1, HoldsTableCut
  <2>4. can => \A r \in (1 .. rule) \ raced : RuleOK(k, r, gone \cup d)
    <3> SUFFICES ASSUME can, NEW r \in (1 .. rule) \ raced
                 PROVE  RuleOK(k, r, gone \cup d)
      OBVIOUS
    <3>1. \A t, n, i : Holds(k, t, n, i, r) => Holds(tables, t, n, i, r)
      BY <2>3
    <3>2. r \in d <=>
            \E t, n, i : Holds(tables, t, n, i, r) /\ ~Holds(k, t, n, i, r)
      BY <2>2, <2>3
    <3>3. RuleOK(tables, r, gone)
      BY <1>1
    <3> QED BY <3>1, <3>2, <3>3, CutOK
  <2>5. Transact(c, "delete-table", can, k, "done", d)
    BY <1>3 DEF k, can, d
  <2> QED BY <1>1, <2>4, <2>5, TransactRules
<1> QED BY <1>2, <1>3 DEF FlushTable

(* The creation and the deletion of a chain.                               *)
LEMMA FlushChainRules ==
  ASSUME BaseInv, BaseInv', RuleInv, NEW c \in Cmd, FlushChain(c)
  PROVE  RuleInv'
<1> DEFINE o == ops[c]
<1>1. /\ OpInv(o) /\ IsRuleset(tables) /\ "done" \in Steps \ {"apply"}
      /\ \A r \in (1 .. rule) \ raced : RuleOK(tables, r, gone)
  BY AtStep DEF FlushChain, BaseInv, Steps, RuleInv
<1>2. CASE /\ o.kind = "createChain"
           /\ Transact(c, "create-chain",
                       CanAddChain(tables, o.table, o.chain, o.spec),
                       AddChain(tables, o.table, o.chain, o.spec), "done", {})
  <2> DEFINE k   == AddChain(tables, o.table, o.chain, o.spec)
             can == CanAddChain(tables, o.table, o.chain, o.spec)
  <2>1. o.spec \in AnySpec /\ o.chain \in ChainNames
    BY <1>1, <1>2, SpecsAny DEF OpInv, ArgsOK
  <2>2. can => SameRules(tables, k)
    BY <1>1, <2>1, HoldsAddChain
  <2> HIDE DEF k, can
  <2>3. can => \A r \in (1 .. rule) \ raced : RuleOK(k, r, gone \cup {})
    <3> SUFFICES ASSUME can, NEW r \in (1 .. rule) \ raced
                 PROVE  RuleOK(k, r, gone)
      BY DEF RuleOK
    <3> QED BY <1>1, <2>2, StaysOK DEF SameRules
  <2>4. Transact(c, "create-chain", can, k, "done", {})
    BY <1>2 DEF k, can
  <2> QED BY <1>1, <2>3, <2>4, TransactRules
<1>3. CASE Transact(c, "delete-chain", CanDelChain(tables, o.table, o.chain),
                    DelChain(tables, o.table, o.chain), "done",
                    Range(tables[o.table][o.chain].rules))
  <2> DEFINE k   == DelChain(tables, o.table, o.chain)
             can == CanDelChain(tables, o.table, o.chain)
             d   == Range(tables[o.table][o.chain].rules)
  <2>1. can => ChainCut(tables, k, o.table, o.chain)
    <3>1. can => o.table \in DOMAIN tables
      BY DEF CanDelChain, HasChain, HasTable
    <3> QED BY <3>1, <1>1, DropChain
  <2>2. can => \A r : r \in d <=> \E i : Holds(tables, o.table, o.chain, i, r)
    BY RangeHolds DEF CanDelChain
  <2> HIDE DEF k, d, can
  <2>3. can => \A t, n, i, r : Holds(k, t, n, i, r) <=>
          Holds(tables, t, n, i, r) /\ ~(t = o.table /\ n = o.chain)
    BY <2>1, HoldsChainCut
  <2>4. can => \A r \in (1 .. rule) \ raced : RuleOK(k, r, gone \cup d)
    <3> SUFFICES ASSUME can, NEW r \in (1 .. rule) \ raced
                 PROVE  RuleOK(k, r, gone \cup d)
      OBVIOUS
    <3>1. \A t, n, i : Holds(k, t, n, i, r) => Holds(tables, t, n, i, r)
      BY <2>3
    <3>2. r \in d <=>
            \E t, n, i : Holds(tables, t, n, i, r) /\ ~Holds(k, t, n, i, r)
      BY <2>2, <2>3
    <3>3. RuleOK(tables, r, gone)
      BY <1>1
    <3> QED BY <3>1, <3>2, <3>3, CutOK
  <2>5. Transact(c, "delete-chain", can, k, "done", d)
    BY <1>3 DEF k, can, d
  <2> QED BY <1>1, <2>4, <2>5, TransactRules
<1> QED BY <1>2, <1>3 DEF FlushChain

(* The rename of a chain and the change of its policy.                     *)
LEMMA FlushUpdateRules ==
  ASSUME BaseInv, BaseInv', RuleInv, NEW c \in Cmd,
         FlushRename(c) \/ FlushPolicy(c)
  PROVE  RuleInv'
<1> DEFINE o == ops[c]
<1>1. IsRuleset(tables) /\ OpsInv
      /\ \A r \in (1 .. rule) \ raced : RuleOK(tables, r, gone)
  BY DEF BaseInv, RuleInv
<1>2. CASE FlushRename(c)
  <2> DEFINE x   == AfterRename(o.old[o.table][o.chain], o.spec)
             k   == RenameChain(tables, o.table, o.chain, o.name)
             can == CanRenameChain(tables, o.table, o.chain, o.name)
  <2>1. Transact(c, "rename-chain", can, k, x, {}) /\ At(c, "rename")
    BY <1>2 DEF FlushRename
  <2>2. OpInv(o) /\ "rename" \in StepsOf(o.kind)
    BY <1>1, <2>1, AtStep DEF Steps
  <2>3. o.kind = "updateChain"
    BY <2>2 DEF StepsOf
  <2>4. o.name \in ChainNames
    BY <2>2, <2>3 DEF OpInv, ArgsOK
  <2>5. can => ChainNamed(tables, k, o.table, o.chain, o.name)
    BY <1>1, <2>4, NameChain
  <2>6. x \in {"dump", "policy", "done"}
    BY <2>2, <2>3, NextAfterRename
  <2> HIDE DEF x, k, can
  <2>7. can => \A r \in (1 .. rule) \ raced : RuleOK(k, r, gone \cup {})
    <3> SUFFICES ASSUME can, NEW r \in (1 .. rule) \ raced
                 PROVE  RuleOK(k, r, gone)
      BY DEF RuleOK
    <3> QED BY <1>1, <2>5, NamedOK
  <2>8. x \in Steps \ {"apply"}
    BY <2>6 DEF Steps
  <2> QED BY <2>1, <2>2, <2>7, <2>8, TransactRules
<1>3. CASE FlushPolicy(c)
  <2> DEFINE s   == [decl |-> NoDecl, policy |-> o.spec.policy]
             k   == AddChain(tables, o.table, o.name, s)
             can == CanAddChain(tables, o.table, o.name, s)
  <2>1. Transact(c, "update-chain-policy", can, k, "done", {})
        /\ At(c, "policy")
    BY <1>3 DEF FlushPolicy
  <2>2. OpInv(o) /\ "policy" \in StepsOf(o.kind)
    BY <1>1, <2>1, AtStep DEF Steps
  <2>3. o.kind = "updateChain"
    BY <2>2 DEF StepsOf
  <2>4. o.name \in ChainNames /\ s \in AnySpec
    BY <2>2, <2>3, SpecsAny DEF OpInv, ArgsOK
  <2> HIDE DEF s
  <2>5. can => SameRules(tables, k)
    BY <1>1, <2>4, HoldsAddChain
  <2> HIDE DEF k, can
  <2>6. can => \A r \in (1 .. rule) \ raced : RuleOK(k, r, gone \cup {})
    <3> SUFFICES ASSUME can, NEW r \in (1 .. rule) \ raced
                 PROVE  RuleOK(k, r, gone)
      BY DEF RuleOK
    <3> QED BY <1>1, <2>5, StaysOK DEF SameRules
  <2>7. "done" \in Steps \ {"apply"}
    BY DEF Steps
  <2> QED BY <2>1, <2>2, <2>6, <2>7, TransactRules
<1> QED BY <1>2, <1>3

(* The two scripts.                                                        *)
LEMMA ApplyRules ==
  ASSUME BaseInv, BaseInv', RuleInv, NEW c \in Cmd,
         ApplyMove(c) \/ ApplyRecreate(c)
  PROVE  RuleInv'
<1> DEFINE o == ops[c]
<1>1. /\ IsRuleset(tables) /\ "done" \in Steps \ {"apply"}
      /\ \A r \in (1 .. rule) \ raced : RuleOK(tables, r, gone)
      /\ o.at = "apply" =>
           \A r \in (1 .. rule) \ raced : DumpOK(tables, o, r)
  BY DEF BaseInv, RuleInv, Steps
<1>2. CASE ApplyMove(c)
  <2> DEFINE k   == MoveTable(tables, o.table, o.name, o.dump)
             can == CanMoveTable(tables, o.table, o.name, o.dump)
  <2>1. /\ OpInv(o) /\ o.at = "apply" /\ o.kind = "renameTable"
        /\ can => TableMoved(tables, k, o.table, o.name, o.dump)
    BY <1>2, ApplyMoveDoes DEF MoveDoes
  <2>2. Transact(c, "rename-table", can, k, "done", {})
    BY <1>2 DEF ApplyMove
  <2>3. IsTable(o.dump) /\ o.name # o.table
    BY <2>1 DEF OpInv, ArgsOK, StateOK
  <2> HIDE DEF k, can
  <2>4. can => \A r \in (1 .. rule) \ raced : RuleOK(k, r, gone \cup {})
    <3> SUFFICES ASSUME can, NEW r \in (1 .. rule) \ raced
                 PROVE  RuleOK(k, r, gone)
      BY DEF RuleOK
    <3> HIDE DEF o
    <3> QED BY <1>1, <2>1, <2>3, MovedOK
  <2> QED BY <1>1, <2>1, <2>2, <2>4, TransactRules
<1>3. CASE ApplyRecreate(c)
  <2> DEFINE k   == Recreate(tables, o.table, o.name, o.spec,
                             o.dump[o.name].rules)
             can == CanRecreate(tables, o.table, o.name)
  <2>1. /\ OpInv(o) /\ o.at = "apply" /\ o.kind = "updateChain"
        /\ can => \E ch \in Chains :
                    /\ ChainSet(tables, k, o.table, o.name, ch)
                    /\ ch.rules = o.dump[o.name].rules
    BY <1>3, ApplyRecreateDoes DEF RecreateDoes
  <2>2. Transact(c, "recreate-chain", can, k, "done", {})
    BY <1>3 DEF ApplyRecreate
  <2>3. DOMAIN o.dump = {o.name}
    BY <2>1 DEF OpInv, StateOK, StepOK
  <2>4. can => o.table \in DOMAIN tables
    BY DEF CanRecreate, HasChain, HasTable
  <2> HIDE DEF k, can
  <2>5. can => \A r \in (1 .. rule) \ raced : RuleOK(k, r, gone \cup {})
    <3> SUFFICES ASSUME can, NEW r \in (1 .. rule) \ raced
                 PROVE  RuleOK(k, r, gone)
      BY DEF RuleOK
    <3>1. PICK ch \in Chains :
            /\ ChainSet(tables, k, o.table, o.name, ch)
            /\ ch.rules = o.dump[o.name].rules
      BY <2>1
    <3> HIDE DEF o
    <3> QED BY <1>1, <2>1, <2>3, <2>4, <3>1, RecreatedOK
  <2> QED BY <1>1, <2>1, <2>2, <2>5, TransactRules
<1> QED BY <1>2, <1>3

(* A dump holds what stands where it is taken.                             *)
LEMMA DumpRules ==
  ASSUME BaseInv, RuleInv, NEW c \in Cmd, Dump(c)
  PROVE  RuleInv'
<1>1. PICK p : Dumps(c, p)
  BY DumpDumps
<1>2. /\ Alone(c, p) /\ ops'[c] = p /\ \A d \in Cmd \ {c} : ops'[d] = ops[d]
      /\ tables' = tables /\ rule' = rule /\ raced' = raced /\ gone' = gone
  BY <1>1 DEF Dumps, Alone, BaseInv, OpsInv
<1> DEFINE o == ops[c]
<1>3. /\ p.at = "apply" /\ p.kind = o.kind /\ p.table = o.table
      /\ p.name = o.name /\ o.kind \in {"renameTable", "updateChain"}
      /\ \A n, i, r : InDump(p.dump, n, i, r) <=>
           /\ Holds(tables, o.table, n, i, r)
           /\ o.kind = "updateChain" => n = o.name
  BY <1>1 DEF Dumps, Stepped
<1> HIDE DEF o
<1>4. ASSUME NEW r \in (1 .. rule) \ raced
      PROVE  DumpOK(tables, p, r)
  <2>1. (\E n, i : InDump(p.dump, n, i, r)) <=> r \in DumpedRules(tables, p)
    BY <1>3, DumpedHolds
  <2>2. RuleOK(tables, r, gone)
    BY <1>4 DEF RuleInv
  <2>3. ASSUME NEW n, NEW i, NEW n2, NEW i2,
               InDump(p.dump, n, i, r), InDump(p.dump, n2, i2, r)
        PROVE  n2 = n /\ i2 = i
    <3>1. Holds(tables, o.table, n, i, r) /\ Holds(tables, o.table, n2, i2, r)
      BY <1>3, <2>3
    <3> QED BY <2>2, <3>1 DEF RuleOK, Nowhere, Once, Only
  <2> QED BY <2>1, <2>3 DEF DumpOK
<1> QED BY <1>2, <1>4 DEF RuleInv

(* A command that moves alone, to no dump, leaves the rules.               *)
LEMMA AloneRules ==
  ASSUME BaseInv, RuleInv, NEW c \in Cmd, NEW p, Alone(c, p), p.at # "apply"
  PROVE  RuleInv'
<1>1. /\ ops'[c] = p /\ \A d \in Cmd \ {c} : ops'[d] = ops[d]
      /\ tables' = tables /\ rule' = rule /\ raced' = raced /\ gone' = gone
  BY DEF Alone, BaseInv, OpsInv
<1> QED BY <1>1 DEF RuleInv

(* What another program does, if it is right for the rules.                *)
LEMMA ElsewhereRules ==
  ASSUME BaseInv, RuleInv, NEW k, NEW deleted, Elsewhere(k, deleted),
         rule' \in Nat, rule <= rule', BaseInv',
         \A r \in (1 .. rule') \ raced : RuleOK(k, r, gone \cup deleted)
  PROVE  RuleInv'
<1>1. Become(World, k, Idle) /\ World \notin Cmd /\ gone' = gone \cup deleted
  BY CmdAssumption DEF Elsewhere
<1>2. HoldsFresh(k, rule')
  BY <1>1 DEF Become, BaseInv, Fresh, HoldsFresh
<1> QED BY <1>1, <1>2, BecomeRules

(* The changes of the other programs.                                      *)
LEMMA OthersRules ==
  ASSUME BaseInv, BaseInv', RuleInv, Others
  PROVE  RuleInv'
<1>1. /\ IsRuleset(tables) /\ rule \in Nat /\ rule <= rule /\ rule <= rule + 1
      /\ \A r \in (1 .. rule) \ raced : RuleOK(tables, r, gone)
  BY DEF BaseInv, RuleInv
<1>2. CASE OutsideAddRule
  <2>1. PICK t \in DOMAIN tables : \E n \in DOMAIN tables[t] :
          /\ Elsewhere(AppendRule(tables, t, n, rule + 1), {})
          /\ rule' = rule + 1
    BY <1>2 DEF OutsideAddRule
  <2>2. PICK n \in DOMAIN tables[t] :
          /\ Elsewhere(AppendRule(tables, t, n, rule + 1), {})
          /\ rule' = rule + 1
    BY <2>1
  <2> DEFINE k == AppendRule(tables, t, n, rule + 1)
             x == rule + 1
             e == Len(tables[t][n].rules) + 1
  <2>3. x \in Nat /\ x \notin 1 .. rule /\ 1 .. x = (1 .. rule) \cup {x}
    BY <1>1
  <2> HIDE DEF x
  <2>4. \A t2, n2, i, r : Holds(k, t2, n2, i, r) <=>
              \/ Holds(tables, t2, n2, i, r)
              \/ t2 = t /\ n2 = n /\ i = e /\ r = x
    BY <1>1, <2>3, HoldsAppendRule DEF x
  <2> HIDE DEF k, e
  <2>5. ASSUME NEW r \in (1 .. x) \ raced
        PROVE  RuleOK(k, r, gone)
    <3>1. CASE r = x
      <4>1. r \notin gone
        BY <2>3, <3>1 DEF BaseInv
      <4>2. \A t2, n2, i : ~Holds(tables, t2, n2, i, r)
        BY <2>3, <3>1 DEF BaseInv, Fresh
      <4>3. Only(k, t, n, e, r)
        BY <2>4, <3>1, <4>2 DEF Only
      <4> QED BY <4>1, <4>3 DEF RuleOK, Once
    <3>2. CASE r # x
      <4>1. RuleOK(tables, r, gone)
        BY <1>1, <2>3, <2>5, <3>2
      <4>2. \A t2, n2, i : Holds(k, t2, n2, i, r)
                              <=> Holds(tables, t2, n2, i, r)
        BY <2>4, <3>2
      <4> QED BY <4>1, <4>2, StaysOK
    <3> QED BY <3>1, <3>2
  <2>6. Elsewhere(k, {}) /\ rule' = x
    BY <2>2 DEF k, x
  <2>7. \A r \in (1 .. rule') \ raced : RuleOK(k, r, gone \cup {})
    BY <2>5, <2>6 DEF RuleOK
  <2>8. rule' \in Nat /\ rule <= rule'
    BY <1>1, <2>2
  <2> QED BY <2>6, <2>7, <2>8, ElsewhereRules
<1>3. CASE OutsideDeleteChain
  <2>1. PICK t \in DOMAIN tables : \E n \in DOMAIN tables[t] :
          /\ Elsewhere(DelChain(tables, t, n), Range(tables[t][n].rules))
          /\ UNCHANGED rule
    BY <1>3 DEF OutsideDeleteChain
  <2>2. PICK n \in DOMAIN tables[t] :
          /\ Elsewhere(DelChain(tables, t, n), Range(tables[t][n].rules))
          /\ UNCHANGED rule
    BY <2>1
  <2> DEFINE k == DelChain(tables, t, n)
             d == Range(tables[t][n].rules)
  <2>3. ChainCut(tables, k, t, n)
    BY <1>1, DropChain
  <2>4. HasChain(tables, t, n)
    BY DEF HasChain, HasTable
  <2>5. \A r : r \in d <=> \E i : Holds(tables, t, n, i, r)
    BY <2>4, RangeHolds
  <2>6. Elsewhere(k, d)
    BY <2>2
  <2> HIDE DEF k, d
  <2>7. \A t2, n2, i, r : Holds(k, t2, n2, i, r) <=>
          Holds(tables, t2, n2, i, r) /\ ~(t2 = t /\ n2 = n)
    BY <2>3, HoldsChainCut
  <2>8. \A r \in (1 .. rule) \ raced : RuleOK(k, r, gone \cup d)
    <3> SUFFICES ASSUME NEW r \in (1 .. rule) \ raced
                 PROVE  RuleOK(k, r, gone \cup d)
      OBVIOUS
    <3>1. \A t2, n2, i : Holds(k, t2, n2, i, r) => Holds(tables, t2, n2, i, r)
      BY <2>7
    <3>2. r \in d <=> \E t2, n2, i : /\ Holds(tables, t2, n2, i, r)
                                      /\ ~Holds(k, t2, n2, i, r)
      BY <2>5, <2>7
    <3>3. RuleOK(tables, r, gone)
      BY <1>1
    <3> QED BY <3>1, <3>2, <3>3, CutOK
  <2> QED BY <1>1, <2>2, <2>6, <2>8, ElsewhereRules
<1>4. CASE OutsideSetPolicy
  <2>1. PICK t \in DOMAIN tables :
          \E n \in DOMAIN tables[t], p \in Policies :
            /\ tables[t][n].policy \notin {NoPolicy, p}
            /\ Elsewhere([tables EXCEPT ![t][n].policy = p], {})
            /\ UNCHANGED rule
    BY <1>4 DEF OutsideSetPolicy
  <2>2. PICK n \in DOMAIN tables[t], p \in Policies :
            /\ tables[t][n].policy \notin {NoPolicy, p}
            /\ Elsewhere([tables EXCEPT ![t][n].policy = p], {})
            /\ UNCHANGED rule
    BY <2>1
  <2> DEFINE k == [tables EXCEPT ![t][n].policy = p]
  <2>3. SameRules(tables, k)
    BY <1>1, <2>2, HoldsSetPolicy
  <2>4. Elsewhere(k, {})
    BY <2>2
  <2> HIDE DEF k
  <2>5. \A r \in (1 .. rule) \ raced : RuleOK(k, r, gone \cup {})
    <3> SUFFICES ASSUME NEW r \in (1 .. rule) \ raced
                 PROVE  RuleOK(k, r, gone)
      BY DEF RuleOK
    <3> QED BY <1>1, <2>3, StaysOK DEF SameRules
  <2> QED BY <1>1, <2>2, <2>4, <2>5, ElsewhereRules
<1> QED BY <1>2, <1>3, <1>4 DEF Others

(* Every step is right for the rules.                                      *)
LEMMA RuleStep ==
  ASSUME BaseInv, RuleInv, [Next]_vars
  PROVE  RuleInv'
<1>0. BaseInv'
  BY BaseStep
<1>1. ASSUME NEW c \in Cmd, Starts(c)
      PROVE  RuleInv'
  <2>1. PICK p : Begins(c, p)
    BY <1>1, StartBegins
  <2> QED BY <2>1, AloneRules DEF Begins
<1>2. ASSUME NEW c \in Cmd, Runs(c)
      PROVE  RuleInv'
  <2>1. CASE FlushTable(c)
    BY <1>0, <2>1, FlushTableRules
  <2>2. CASE FlushChain(c)
    BY <1>0, <2>2, FlushChainRules
  <2>3. CASE FlushRename(c) \/ FlushPolicy(c)
    BY <1>0, <2>3, FlushUpdateRules
  <2>4. CASE ApplyMove(c) \/ ApplyRecreate(c)
    BY <1>0, <2>4, ApplyRules
  <2>5. CASE Dump(c)
    BY <2>5, DumpRules
  <2>6. CASE NothingSent(c)
    <3>1. PICK p : Fails(c, p)
      BY <2>6, NothingSentFails
    <3>2. p.at = "failed" /\ Alone(c, p)
      BY <3>1 DEF Fails, Stepped
    <3> QED BY <3>2, AloneRules
  <2>7. CASE Deliver(c)
    <3>1. Alone(c, Idle) /\ Idle.at # "apply"
      BY <2>7, DeliverAlone DEF Idle
    <3> QED BY <3>1, AloneRules
  <2> QED BY <1>2, <2>1, <2>2, <2>3, <2>4, <2>5, <2>6, <2>7 DEF Runs
<1>3. CASE Reload
  BY <1>3 DEF Reload, RuleInv
<1>4. CASE Others
  BY <1>0, <1>4, OthersRules
<1>5. CASE UNCHANGED vars
  BY <1>5 DEF vars, RuleInv
<1> QED BY <1>1, <1>2, <1>3, <1>4, <1>5 DEF Next

(* The one rule at the start stands where it stands.                       *)
LEMMA RuleInit ==
  ASSUME Init
  PROVE  RuleInv
<1>1. /\ ops = [c \in Cmd |-> Idle] /\ rule = 1 /\ gone = {} /\ raced = {}
  BY DEF Init
<1>2. PICK t \in TableNames, n \in ChainNames :
        \A t2, n2, i, r : Holds(tables, t2, n2, i, r) <=>
                            t2 = t /\ n2 = n /\ i = 1 /\ r = 1
  BY BaseInit
<1>3. Only(tables, t, n, 1, 1)
  BY <1>2 DEF Only
<1>4. RuleOK(tables, 1, gone)
  BY <1>1, <1>3 DEF RuleOK, Once
<1>5. \A r \in 1 .. rule : r = 1
  BY <1>1
<1> QED BY <1>1, <1>4, <1>5 DEF RuleInv, Idle

(* The copies of a rule are the places it stands at.                       *)
LEMMA CopiesHold ==
  ASSUME IsRuleset(tables), NEW r, NEW x
  PROVE  x \in Copies(r) <=>
           \E t, n, i : x = <<t, n, i>> /\ Holds(tables, t, n, i, r)
<1>1. \A t, n : HasChain(tables, t, n) => t \in TableNames /\ n \in ChainNames
  BY TableFacts DEF HasChain, HasTable, IsRuleset
<1>2. \A t, n, i : i \in DOMAIN RulesIn(t, n) /\ RulesIn(t, n)[i] = r
                     <=> Holds(tables, t, n, i, r)
  BY NoChains DEF RulesIn, Holds
<1> DEFINE Here(t, n) ==
             {<<t, n, i>> : i \in {j \in DOMAIN RulesIn(t, n) :
                                     RulesIn(t, n)[j] = r}}
<1>3. Copies(r) = UNION {Here(t, n) : t \in TableNames, n \in ChainNames}
  BY DEF Copies
<1>4. \A t, n : x \in Here(t, n) <=>
          \E i : /\ x = <<t, n, i>>
                 /\ i \in DOMAIN RulesIn(t, n) /\ RulesIn(t, n)[i] = r
  OBVIOUS
<1> HIDE DEF Here
<1>5. x \in Copies(r) <=>
        \E t \in TableNames, n \in ChainNames : x \in Here(t, n)
  BY <1>3
<1>6. x \in Copies(r) <=>
        \E t \in TableNames, n \in ChainNames :
          \E i : /\ x = <<t, n, i>>
                 /\ i \in DOMAIN RulesIn(t, n) /\ RulesIn(t, n)[i] = r
  BY <1>4, <1>5
<1>7. \A t, n, i : Holds(tables, t, n, i, r)
                     => t \in TableNames /\ n \in ChainNames
  BY <1>1 DEF Holds
<1> QED BY <1>2, <1>6, <1>7

(* RulesSurvive for any number of commands, tables, chains, rules and      *)
(* other programs: the scripts that delete a table or a chain and write it *)
(* anew from a dump lose no rule, double none and bring none back, unless  *)
(* the rule itself was added, deleted or moved while the dump was held     *)
(* (RenameTable and recreateChain of nft_linux.go).                        *)
THEOREM RulesAlwaysSurvive == Spec => []RulesSurvive
<1>1. Init => BaseInv /\ RuleInv
  BY BaseInit, RuleInit
<1>2. BaseInv /\ RuleInv /\ [Next]_vars => (BaseInv /\ RuleInv)'
  BY BaseStep, RuleStep
<1>3. ASSUME BaseInv, RuleInv
      PROVE  RulesSurvive
  <2>1. TypeOK /\ IsRuleset(tables)
    BY <1>3, BaseTypeOK DEF BaseInv
  <2>2. ASSUME NEW r \in (1 .. rule) \ raced
        PROVE  IF r \in gone THEN Copies(r) = {}
               ELSE \E p \in Copies(r) : Copies(r) = {p}
    <3>1. RuleOK(tables, r, gone)
      BY <1>3 DEF RuleInv
    <3>2. \A x : x \in Copies(r) <=>
            \E t, n, i : x = <<t, n, i>> /\ Holds(tables, t, n, i, r)
      BY <2>1, CopiesHold
    <3>3. CASE r \in gone
      BY <3>1, <3>2, <3>3 DEF RuleOK, Nowhere
    <3>4. CASE r \notin gone
      <4>1. PICK t, n, i : Only(tables, t, n, i, r)
        BY <3>1, <3>4 DEF RuleOK, Once
      <4> DEFINE p == <<t, n, i>>
      <4>2. \A x : x \in Copies(r) <=> x = p
        BY <3>2, <4>1 DEF Only
      <4> HIDE DEF p
      <4>3. p \in Copies(r) /\ Copies(r) = {p}
        BY <4>2
      <4> QED BY <3>4, <4>3
    <3> QED BY <3>3, <3>4
  <2> QED BY <2>1, <2>2 DEF RulesSurvive
<1> QED BY <1>1, <1>2, <1>3, PTL DEF Spec

-----------------------------------------------------------------------------
(* A command that nobody interferes with.                                  *)

(* A value that is set twice, and one that is taken out to be set.         *)
LEMMA WithOver ==
  ASSUME NEW f, NEW x, NEW y, NEW z
  PROVE  With(With(f, x, y), x, z) = With(f, x, z)
<1> DEFINE g == With(f, x, y)
           a == With(g, x, z)
           b == With(f, x, z)
<1>1. IsFunction(a) /\ DOMAIN a = DOMAIN g \cup {x}
  BY WithShape
<1>2. IsFunction(b) /\ DOMAIN b = DOMAIN f \cup {x}
  BY WithShape
<1>3. DOMAIN g = DOMAIN f \cup {x}
  BY WithShape
<1>4. \A w \in DOMAIN f \cup {x} : g[w] = IF w = x THEN y ELSE f[w]
  BY WithValues
<1>5. \A w \in DOMAIN f \cup {x} : b[w] = IF w = x THEN z ELSE f[w]
  BY WithValues
<1> HIDE DEF g, b
<1>6. \A w \in DOMAIN g \cup {x} : a[w] = IF w = x THEN z ELSE g[w]
  BY WithValues
<1> HIDE DEF a
<1>7. DOMAIN a = DOMAIN b /\ \A w \in DOMAIN a : a[w] = b[w]
  BY <1>1, <1>2, <1>3, <1>4, <1>5, <1>6
<1>8. a = b
  BY <1>1, <1>2, <1>7, SameFunction
<1> QED BY <1>8 DEF a, b, g

(* A value that is taken out to be set.                                    *)
LEMMA WithBack ==
  ASSUME NEW f, NEW x, NEW z
  PROVE  With(Without(f, x), x, z) = With(f, x, z)
<1> DEFINE g == Without(f, x)
           a == With(g, x, z)
           b == With(f, x, z)
<1>1. IsFunction(a) /\ DOMAIN a = DOMAIN g \cup {x}
  BY WithShape
<1>2. IsFunction(b) /\ DOMAIN b = DOMAIN f \cup {x}
  BY WithShape
<1>3. DOMAIN g = DOMAIN f \ {x}
  BY WithoutShape
<1>4. \A w \in DOMAIN f \ {x} : g[w] = f[w]
  BY WithoutValues
<1>5. \A w \in DOMAIN f \cup {x} : b[w] = IF w = x THEN z ELSE f[w]
  BY WithValues
<1> HIDE DEF g, b
<1>6. \A w \in DOMAIN g \cup {x} : a[w] = IF w = x THEN z ELSE g[w]
  BY WithValues
<1> HIDE DEF a
<1>7. DOMAIN a = DOMAIN b /\ \A w \in DOMAIN a : a[w] = b[w]
  BY <1>1, <1>2, <1>3, <1>4, <1>5, <1>6
<1>8. a = b
  BY <1>1, <1>2, <1>7, SameFunction
<1> QED BY <1>8 DEF a, b, g

(* The ruleset after the first transaction of an update, which is the      *)
(* rename if there is one, and after the last.                             *)
Base(o) ==
    IF o.kind = "updateChain" /\ o.chain # o.name
    THEN RenameChain(o.old, o.table, o.chain, o.name) ELSE o.old
Updated(o) ==
    [o.old EXCEPT ![o.table] =
       With(Without(@, o.chain), o.name, ChainOf(o.spec, @[o.chain].rules))]

(* What a command does if it succeeds.                                     *)
Does(k, o) ==
    /\ o.kind = "createTable" => k = AddTable(o.old, o.table)
    /\ o.kind = "deleteTable" => k = DelTable(o.old, o.table)
    /\ o.kind = "renameTable" =>
         \/ HasTable(o.old, o.name)
         \/ k = With(Without(o.old, o.table), o.name, o.old[o.table])
    /\ o.kind = "createChain" =>
         \/ HasChain(o.old, o.table, o.chain)
         \/ k = AddChain(o.old, o.table, o.chain, o.spec)
    /\ o.kind = "deleteChain" => k = DelChain(o.old, o.table, o.chain)
    /\ o.kind = "updateChain" => k = Updated(o)

(* The ruleset k, while the command o that nobody has disturbed is at a    *)
(* step and has taken a dump.                                              *)
CalmAt(k, o, at, dump) ==
    /\ at \in {"flush", "rename"} => k = o.old
    /\ at \in {"policy", "dump", "apply"} => k = Base(o)
    /\ at = "apply" => IF o.kind = "renameTable" THEN dump = k[o.table]
                       ELSE dump[o.name] = k[o.table][o.name]
    /\ at = "done" => Does(k, o)
    /\ at = "failed" => k \in {o.old, Base(o)}
CalmInv == \A c \in Cmd : InFlight(c) /\ ops[c].calm =>
                            CalmAt(tables, ops[c], ops[c].at, ops[c].dump)

(* A calm command has found the ruleset it started from, or its rename.    *)
LEMMA SteppedCalm ==
  ASSUME NEW k, NEW o, NEW p, NEW at, NEW dump, NEW log,
         Stepped(o, p, at, dump, log), CalmAt(k, o, at, dump)
  PROVE  CalmAt(k, p, p.at, p.dump)
<1>1. Base(p) = Base(o) /\ (Does(k, o) => Does(k, p))
  BY DEF Stepped, Base, Does, Updated
<1> QED BY <1>1 DEF Stepped, CalmAt

(* The others stay calm if nothing changes, and are not calm otherwise.    *)
LEMMA BecomeCalm ==
  ASSUME BaseInv, CalmInv, NEW c, NEW k, NEW o, Become(c, k, o),
         c \in Cmd => (o.calm => CalmAt(k, o, o.at, o.dump))
  PROVE  CalmInv'
<1>1. OthersAfter(c, k) /\ tables' = k /\ (c \in Cmd => ops'[c] = o)
  BY BecomeOps DEF BaseInv, Become
<1>2. ASSUME NEW d \in Cmd, ops'[d].at # "idle", ops'[d].calm
      PROVE  CalmAt(k, ops'[d], ops'[d].at, ops'[d].dump)
  <2>1. CASE d = c
    BY <1>1, <1>2, <2>1
  <2>2. CASE d # c
    <3>1. ops'[d] = ops[d] /\ (k = tables \/ ops[d] = Idle)
      BY <1>1, <1>2, <2>2 DEF OthersAfter, SameButCalm
    <3>2. k = tables
      BY <1>2, <3>1 DEF Idle
    <3> QED BY <1>2, <3>1, <3>2 DEF CalmInv, InFlight
  <2> QED BY <2>1, <2>2
<1> QED BY <1>1, <1>2 DEF CalmInv, InFlight

(* A transaction of a calm command.                                        *)
LEMMA TransactCalm ==
  ASSUME BaseInv, CalmInv, NEW c \in Cmd, OpInv(ops[c]), InFlight(c),
         ops[c].at \in {"flush", "rename", "policy", "apply"},
         NEW tx, NEW can, NEW k, NEW next, NEW deleted,
         Transact(c, tx, can, k, next, deleted),
         can /\ ops[c].calm => CalmAt(k, ops[c], next, << >>)
  PROVE  CalmInv'
<1>1. IsOp(ops[c])
  BY DEF OpInv
<1>2. CASE can /\ Become(c, k, [Audited(ops[c], tx, "ok") EXCEPT !.at = next])
  <2> DEFINE p == [Audited(ops[c], tx, "ok") EXCEPT !.at = next]
  <2>1. Stepped(ops[c], p, next, << >>, Append(ops[c].log, <<tx, "ok">>))
    BY <1>1, AuditedSteps
  <2>2. Become(c, k, p)
    BY <1>2
  <2> HIDE DEF p
  <2>3. p.calm => CalmAt(k, p, p.at, p.dump)
    <3>1. p.calm = ops[c].calm
      BY <2>1 DEF Stepped
    <3> QED BY <1>2, <2>1, <3>1, SteppedCalm
  <2> QED BY <2>2, <2>3, BecomeCalm
<1>3. CASE Become(c, tables, [Audited(ops[c], tx, "error") EXCEPT
                                !.at = "failed"])
  <2> DEFINE p == [Audited(ops[c], tx, "error") EXCEPT !.at = "failed"]
  <2>1. Stepped(ops[c], p, "failed", << >>, Append(ops[c].log, <<tx, "error">>))
    BY <1>1, AuditedSteps
  <2>2. Become(c, tables, p)
    BY <1>3
  <2> HIDE DEF p
  <2>3. p.calm => CalmAt(tables, p, p.at, p.dump)
    <3>1. p.calm = ops[c].calm
      BY <2>1 DEF Stepped
    <3>2. ops[c].calm => CalmAt(tables, ops[c], "failed", << >>)
      BY DEF CalmInv, CalmAt
    <3> QED BY <2>1, <3>1, <3>2, SteppedCalm
  <2> QED BY <2>2, <2>3, BecomeCalm
<1> QED BY <1>2, <1>3 DEF Transact

(* A command that moves alone stays as calm as it was.                     *)
LEMMA AloneCalm ==
  ASSUME BaseInv, CalmInv, NEW c \in Cmd, NEW p, Alone(c, p),
         p.at # "idle" /\ p.calm => CalmAt(tables, p, p.at, p.dump)
  PROVE  CalmInv'
<1>1. /\ ops'[c] = p /\ \A d \in Cmd \ {c} : ops'[d] = ops[d]
      /\ tables' = tables
  BY DEF Alone, BaseInv, OpsInv
<1> QED BY <1>1 DEF CalmInv, InFlight

-----------------------------------------------------------------------------
(* The transactions of a calm command, one by one.                         *)

(* The commands of one transaction.                                        *)
LEMMA FlushCalm ==
  ASSUME BaseInv, CalmInv, NEW c \in Cmd, FlushTable(c) \/ FlushChain(c)
  PROVE  CalmInv'
<1> DEFINE o == ops[c]
<1>1. /\ OpInv(o) /\ o.at = "flush" /\ InFlight(c)
      /\ o.calm => tables = o.old
  <2>1. OpsInv /\ At(c, "flush")
    BY DEF BaseInv, FlushTable, FlushChain
  <2>2. OpInv(o) /\ o.at = "flush" /\ InFlight(c)
    BY <2>1, AtStep DEF Steps
  <2> QED BY <2>2 DEF CalmInv, CalmAt
<1>2. CASE /\ o.kind = "createTable"
           /\ Transact(c, "create-table", TRUE, AddTable(tables, o.table),
                       "done", {})
  <2>1. o.calm => CalmAt(AddTable(tables, o.table), o, "done", << >>)
    BY <1>1, <1>2 DEF CalmAt, Does
  <2> QED BY <1>1, <1>2, <2>1, TransactCalm
<1>3. CASE /\ o.kind = "deleteTable"
           /\ Transact(c, "delete-table", CanDelTable(tables, o.table),
                       DelTable(tables, o.table), "done",
                       RulesOf(tables, o.table))
  <2>1. o.calm => CalmAt(DelTable(tables, o.table), o, "done", << >>)
    BY <1>1, <1>3 DEF CalmAt, Does
  <2> QED BY <1>1, <1>3, <2>1, TransactCalm
<1>4. CASE /\ o.kind = "createChain"
           /\ Transact(c, "create-chain",
                       CanAddChain(tables, o.table, o.chain, o.spec),
                       AddChain(tables, o.table, o.chain, o.spec), "done", {})
  <2>1. o.calm => CalmAt(AddChain(tables, o.table, o.chain, o.spec), o,
                         "done", << >>)
    BY <1>1, <1>4 DEF CalmAt, Does
  <2> QED BY <1>1, <1>4, <2>1, TransactCalm
<1>5. CASE /\ o.kind = "deleteChain"
           /\ Transact(c, "delete-chain",
                       CanDelChain(tables, o.table, o.chain),
                       DelChain(tables, o.table, o.chain), "done",
                       Range(tables[o.table][o.chain].rules))
  <2>1. o.calm => CalmAt(DelChain(tables, o.table, o.chain), o, "done", << >>)
    BY <1>1, <1>5 DEF CalmAt, Does
  <2> QED BY <1>1, <1>5, <2>1, TransactCalm
<1> QED BY <1>2, <1>3, <1>4, <1>5 DEF FlushTable, FlushChain

(* The table of an update in Base: the chain is there under its name, as   *)
(* it was, and replacing it gives what the update promises.                *)
Renamed(o, B) ==
    /\ o.table \in DOMAIN o.old /\ o.old[o.table][o.chain] \in Chains
    /\ Base(o) = [o.old EXCEPT ![o.table] = B]
    /\ o.name \in DOMAIN B /\ B[o.name] = o.old[o.table][o.chain]
    /\ \A ch : With(B, o.name, ch)
                 = With(Without(o.old[o.table], o.chain), o.name, ch)

(* There is one.                                                           *)
LEMMA BaseRenamed ==
  ASSUME NEW o, OpInv(o), o.kind = "updateChain"
  PROVE  \E B : Renamed(o, B)
<1> DEFINE T == o.old[o.table]
           n == o.chain
           m == o.name
           W == With(Without(T, n), m, T[n])
<1>1. /\ IsRuleset(o.old) /\ o.table \in DOMAIN o.old
      /\ n \in DOMAIN T
  BY DEF OpInv, ArgsOK, HasChain, HasTable
<1>2. T[n] \in Chains /\ IsFunction(T) /\ IsFunction(o.old)
  BY <1>1, TableFacts, IsRulesetIs
<1>3. CASE n # m
  <2>1. Base(o) = [o.old EXCEPT ![o.table] = W]
    BY <1>3 DEF Base, RenameChain
  <2>2. DOMAIN W = DOMAIN Without(T, n) \cup {m}
    BY WithShape
  <2>3. W[m] = T[n]
    BY WithValues
  <2>4. \A ch : With(W, m, ch) = With(Without(T, n), m, ch)
    BY WithOver
  <2> HIDE DEF W
  <2>5. Renamed(o, W)
    BY <1>1, <1>2, <2>1, <2>2, <2>3, <2>4 DEF Renamed
  <2> QED BY <2>5
<1>4. CASE n = m
  <2>1. Base(o) = o.old
    BY <1>4 DEF Base
  <2>2. o.old = [o.old EXCEPT ![o.table] = T]
    BY <1>1, <1>2 DEF IsFunction
  <2>3. \A ch : With(T, m, ch) = With(Without(T, n), m, ch)
    BY <1>4, WithBack
  <2>4. Renamed(o, T)
    BY <1>1, <1>2, <1>4, <2>1, <2>2, <2>3 DEF Renamed
  <2> QED BY <2>4
<1> QED BY <1>3, <1>4

(* Replacing that chain by one of the specification is what is promised.   *)
LEMMA ReplaceUpdates ==
  ASSUME NEW o, NEW B, Renamed(o, B), NEW ch,
         ch = ChainOf(o.spec, o.old[o.table][o.chain].rules),
         NEW k, k = Base(o),
         NEW j, j = [k EXCEPT ![o.table] = With(@, o.name, ch)]
  PROVE  j = Updated(o)
<1> DEFINE W == With(B, o.name, ch)
<1>1. k = [o.old EXCEPT ![o.table] = B] /\ o.table \in DOMAIN o.old
  BY DEF Renamed
<1>2. k[o.table] = B
  BY <1>1
<1>3. j = [k EXCEPT ![o.table] = W]
  BY <1>2
<1>4. W = With(Without(o.old[o.table], o.chain), o.name, ch)
  BY DEF Renamed
<1>5. Updated(o) = [o.old EXCEPT ![o.table] = W]
  BY <1>4 DEF Updated
<1> HIDE DEF W
<1>6. j = [o.old EXCEPT ![o.table] = W]
  BY <1>1, <1>3
<1> QED BY <1>5, <1>6

(* A chain is its specification and its rules.                             *)
LEMMA ChainIs ==
  ASSUME NEW ch \in Chains, NEW s, s.decl = ch.decl, s.policy = ch.policy
  PROVE  ch = ChainOf(s, ch.rules)
BY DEF Chains, ChainOf

(* So is one whose policy alone is another.                                *)
LEMMA PolicyChange ==
  ASSUME NEW ch \in Chains, NEW s, s.decl = ch.decl
  PROVE  [ch EXCEPT !.policy = s.policy] = ChainOf(s, ch.rules)
BY DEF Chains, ChainOf

(* The rename of a calm update.                                            *)
LEMMA FlushRenameCalm ==
  ASSUME BaseInv, CalmInv, NEW c \in Cmd, FlushRename(c)
  PROVE  CalmInv'
<1> DEFINE o   == ops[c]
           x   == AfterRename(o.old[o.table][o.chain], o.spec)
           k   == RenameChain(tables, o.table, o.chain, o.name)
           can == CanRenameChain(tables, o.table, o.chain, o.name)
<1>1. /\ At(c, "rename") /\ OpsInv
      /\ Transact(c, "rename-chain", can, k, x, {})
  BY DEF FlushRename, BaseInv
<1>2. OpInv(o) /\ o.at = "rename" /\ InFlight(c) /\ "rename" \in StepsOf(o.kind)
  BY <1>1, AtStep DEF Steps
<1>3. o.kind = "updateChain" /\ o.chain # o.name
  BY <1>2 DEF StepsOf, OpInv, StateOK, StepOK
<1>4. /\ x \in {"dump", "policy", "done"}
      /\ x = "done" => /\ o.spec.decl = o.old[o.table][o.chain].decl
                       /\ o.spec.policy = o.old[o.table][o.chain].policy
  BY <1>2, <1>3, NextAfterRename
<1>5. o.calm => k = Base(o)
  BY <1>2, <1>3 DEF CalmInv, CalmAt, Base
<1>6. x = "done" => Base(o) = Updated(o)
  <2> SUFFICES ASSUME x = "done" PROVE Base(o) = Updated(o)
    OBVIOUS
  <2>1. PICK B : Renamed(o, B)
    BY <1>2, <1>3, BaseRenamed
  <2> DEFINE T  == o.old[o.table]
             ch == ChainOf(o.spec, T[o.chain].rules)
  <2>2. T[o.chain] = ch
    BY <1>4, <2>1, ChainIs DEF Renamed
  <2> HIDE DEF ch
  <2>3. Updated(o) = [o.old EXCEPT ![o.table] =
                        With(Without(T, o.chain), o.name, ch)]
    BY DEF Updated, ch
  <2>4. Base(o) = [o.old EXCEPT ![o.table] =
                     With(Without(T, o.chain), o.name, ch)]
    BY <1>3, <2>2 DEF Base, RenameChain
  <2> QED BY <2>3, <2>4
<1> HIDE DEF x, k, can
<1>7. o.calm => CalmAt(k, o, x, << >>)
  BY <1>3, <1>4, <1>5, <1>6 DEF CalmAt, Does
<1> QED BY <1>1, <1>2, <1>7, TransactCalm

(* Its policy.                                                             *)
LEMMA FlushPolicyCalm ==
  ASSUME BaseInv, CalmInv, NEW c \in Cmd, FlushPolicy(c)
  PROVE  CalmInv'
<1> DEFINE o   == ops[c]
           s   == [decl |-> NoDecl, policy |-> o.spec.policy]
           k   == AddChain(tables, o.table, o.name, s)
           can == CanAddChain(tables, o.table, o.name, s)
<1>1. /\ At(c, "policy") /\ OpsInv
      /\ Transact(c, "update-chain-policy", can, k, "done", {})
  BY DEF FlushPolicy, BaseInv
<1>2. OpInv(o) /\ o.at = "policy" /\ InFlight(c) /\ "policy" \in StepsOf(o.kind)
  BY <1>1, AtStep DEF Steps
<1>3. /\ o.kind = "updateChain" /\ o.spec \in Specs
      /\ o.spec.decl = o.old[o.table][o.chain].decl
  BY <1>2 DEF StepsOf, OpInv, StateOK, StepOK
<1>4. PICK B : Renamed(o, B)
  BY <1>2, <1>3, BaseRenamed
<1> DEFINE T  == o.old[o.table]
           ch == ChainOf(o.spec, T[o.chain].rules)
<1>5. o.calm => k = Updated(o)
  <2> SUFFICES ASSUME o.calm PROVE k = Updated(o)
    OBVIOUS
  <2>1. tables = Base(o)
    BY <1>2 DEF CalmInv, CalmAt
  <2>2. tables = [o.old EXCEPT ![o.table] = B] /\ o.table \in DOMAIN o.old
    BY <1>4, <2>1 DEF Renamed
  <2>3. tables[o.table] = B /\ HasChain(tables, o.table, o.name)
    BY <1>4, <2>2 DEF Renamed, HasChain, HasTable
  <2>4. k = [tables EXCEPT ![o.table] = With(@, o.name, Declared(B[o.name], s))]
    BY <2>3 DEF AddChain
  <2>5. Declared(B[o.name], s) = ch
    <3>1. B[o.name] = T[o.chain] /\ T[o.chain] \in Chains
      BY <1>4 DEF Renamed
    <3>2. o.spec.policy # NoPolicy
      BY <1>3, PolicyAssumption DEF Specs
    <3>3. Declared(T[o.chain], s) = [T[o.chain] EXCEPT !.policy = o.spec.policy]
      BY <3>2 DEF Declared
    <3>4. [T[o.chain] EXCEPT !.policy = o.spec.policy] = ch
      BY <1>3, <3>1, PolicyChange
    <3> QED BY <3>1, <3>3, <3>4
  <2> HIDE DEF k
  <2>6. k = [tables EXCEPT ![o.table] = With(@, o.name, ch)]
    BY <2>4, <2>5
  <2> HIDE DEF o, ch
  <2>7. ch = ChainOf(o.spec, o.old[o.table][o.chain].rules)
    BY DEF ch
  <2> QED BY <1>4, <2>1, <2>6, <2>7, ReplaceUpdates
<1> HIDE DEF k, can
<1>6. o.calm => CalmAt(k, o, "done", << >>)
  BY <1>3, <1>5 DEF CalmAt, Does
<1> QED BY <1>1, <1>2, <1>6, TransactCalm

(* The chain made anew.                                                    *)
LEMMA ApplyRecreateCalm ==
  ASSUME BaseInv, CalmInv, NEW c \in Cmd, ApplyRecreate(c)
  PROVE  CalmInv'
<1> DEFINE o   == ops[c]
           ch  == ChainOf(o.spec, o.dump[o.name].rules)
           k   == Recreate(tables, o.table, o.name, o.spec,
                           o.dump[o.name].rules)
           can == CanRecreate(tables, o.table, o.name)
<1>1. /\ At(c, "apply") /\ OpsInv /\ o.kind = "updateChain"
      /\ Transact(c, "recreate-chain", can, k, "done", {})
  BY DEF ApplyRecreate, BaseInv
<1>2. OpInv(o) /\ o.at = "apply" /\ InFlight(c)
  BY <1>1, AtStep DEF Steps
<1>3. PICK B : Renamed(o, B)
  BY <1>1, <1>2, BaseRenamed
<1>4. o.calm => k = Updated(o)
  <2> SUFFICES ASSUME o.calm PROVE k = Updated(o)
    OBVIOUS
  <2>1. /\ tables = Base(o)
        /\ o.dump[o.name] = tables[o.table][o.name]
    BY <1>1, <1>2 DEF CalmInv, CalmAt
  <2>2. tables = [o.old EXCEPT ![o.table] = B] /\ o.table \in DOMAIN o.old
    BY <1>3, <2>1 DEF Renamed
  <2>3. o.dump[o.name] = o.old[o.table][o.chain]
    BY <1>3, <2>1, <2>2 DEF Renamed
  <2>4. k = [tables EXCEPT ![o.table] = With(@, o.name, ch)]
    BY DEF Recreate
  <2>5. ch = ChainOf(o.spec, o.old[o.table][o.chain].rules)
    BY <2>3
  <2> HIDE DEF k, o, ch
  <2> QED BY <1>3, <2>1, <2>4, <2>5, ReplaceUpdates
<1> HIDE DEF k, can
<1>5. o.calm => CalmAt(k, o, "done", << >>)
  BY <1>1, <1>4 DEF CalmAt, Does
<1> QED BY <1>1, <1>2, <1>5, TransactCalm

(* The table moved.                                                        *)
LEMMA ApplyMoveCalm ==
  ASSUME BaseInv, CalmInv, NEW c \in Cmd, ApplyMove(c)
  PROVE  CalmInv'
<1> DEFINE o   == ops[c]
           k   == MoveTable(tables, o.table, o.name, o.dump)
           can == CanMoveTable(tables, o.table, o.name, o.dump)
<1>1. /\ At(c, "apply") /\ OpsInv /\ o.kind = "renameTable"
      /\ Transact(c, "rename-table", can, k, "done", {})
  BY DEF ApplyMove, BaseInv
<1>2. OpInv(o) /\ o.at = "apply" /\ InFlight(c)
  BY <1>1, AtStep DEF Steps
<1>3. IsFunction(o.dump)
  BY <1>2, IsTableIs DEF OpInv, StateOK
<1>4. o.calm => tables = o.old /\ o.dump = o.old[o.table]
  BY <1>1, <1>2 DEF CalmInv, CalmAt, Base
<1>5. ~HasTable(tables, o.name) =>
        k = With(Without(tables, o.table), o.name, o.dump)
  <2> SUFFICES ASSUME ~HasTable(tables, o.name)
               PROVE  k = With(Without(tables, o.table), o.name, o.dump)
    OBVIOUS
  <2> DEFINE both == [n \in DOMAIN << >> \cup DOMAIN o.dump |->
                        IF n \notin DOMAIN << >> THEN o.dump[n]
                        ELSE IF n \notin DOMAIN o.dump THEN << >>[n]
                        ELSE [Declared(<< >>[n], o.dump[n]) EXCEPT
                                !.rules = @ \o o.dump[n].rules]]
  <2>1. k = With(Without(tables, o.table), o.name, both)
    BY DEF MoveTable
  <2>2. both = [n \in DOMAIN o.dump |-> o.dump[n]]
    BY NoChains
  <2>3. both = o.dump
    BY <1>3, <2>2 DEF IsFunction
  <2> QED BY <2>1, <2>3
<1> HIDE DEF k, can
<1>6. o.calm => CalmAt(k, o, "done", << >>)
  BY <1>1, <1>4, <1>5 DEF CalmAt, Does
<1> QED BY <1>1, <1>2, <1>6, TransactCalm

(* The dump that a calm command takes.                                     *)
LEMMA DumpCalm ==
  ASSUME BaseInv, CalmInv, NEW c \in Cmd, Dump(c)
  PROVE  CalmInv'
<1>1. PICK p : Dumps(c, p)
  BY DumpDumps
<1> DEFINE o == ops[c]
           D == DumpOf(o)
<1>2. /\ Alone(c, p) /\ Stepped(o, p, "apply", D, o.log) /\ o.at = "dump"
      /\ o.kind \in {"renameTable", "updateChain"} /\ InFlight(c)
  BY <1>1 DEF Dumps, InFlight
<1>3. IF o.kind = "renameTable" THEN D = tables[o.table]
      ELSE D[o.name] = tables[o.table][o.name]
  BY DEF DumpOf, Restrict
<1> HIDE DEF D
<1>4. o.calm => CalmAt(tables, o, "apply", D)
  BY <1>2, <1>3 DEF CalmInv, CalmAt
<1>5. p.calm => CalmAt(tables, p, p.at, p.dump)
  <2>1. p.calm = o.calm
    BY <1>2 DEF Stepped
  <2> QED BY <1>2, <1>4, <2>1, SteppedCalm
<1> QED BY <1>2, <1>5, AloneCalm

(* Every step keeps what calm commands have found.                         *)
LEMMA CalmStep ==
  ASSUME BaseInv, CalmInv, [Next]_vars
  PROVE  CalmInv'
<1>1. ASSUME NEW c \in Cmd, Starts(c)
      PROVE  CalmInv'
  <2>1. PICK p : Begins(c, p)
    BY <1>1, StartBegins
  <2>2. p.calm => CalmAt(tables, p, p.at, p.dump)
    BY <2>1 DEF Begins, CalmAt, Base
  <2> QED BY <2>1, <2>2, AloneCalm DEF Begins
<1>2. ASSUME NEW c \in Cmd, Runs(c)
      PROVE  CalmInv'
  <2>1. CASE FlushTable(c) \/ FlushChain(c)
    BY <2>1, FlushCalm
  <2>2. CASE FlushRename(c)
    BY <2>2, FlushRenameCalm
  <2>3. CASE FlushPolicy(c)
    BY <2>3, FlushPolicyCalm
  <2>4. CASE Dump(c)
    BY <2>4, DumpCalm
  <2>5. CASE ApplyMove(c)
    BY <2>5, ApplyMoveCalm
  <2>6. CASE ApplyRecreate(c)
    BY <2>6, ApplyRecreateCalm
  <2>7. CASE NothingSent(c)
    <3> DEFINE o == ops[c]
    <3>1. PICK p : Fails(c, p)
      BY <2>7, NothingSentFails
    <3>2. /\ Alone(c, p) /\ Stepped(o, p, "failed", o.dump, o.log)
          /\ o.at \in {"flush", "policy", "dump"} /\ InFlight(c)
      BY <3>1 DEF Fails
    <3>3. o.calm => CalmAt(tables, o, "failed", o.dump)
      BY <3>2 DEF CalmInv, CalmAt
    <3>4. p.calm => CalmAt(tables, p, p.at, p.dump)
      <4>1. p.calm = o.calm
        BY <3>2 DEF Stepped
      <4> QED BY <3>2, <3>3, <4>1, SteppedCalm
    <3> QED BY <3>2, <3>4, AloneCalm
  <2>8. CASE Deliver(c)
    <3>1. Alone(c, Idle) /\ Idle.at = "idle"
      BY <2>8, DeliverAlone DEF Idle
    <3> QED BY <3>1, AloneCalm
  <2> QED BY <1>2, <2>1, <2>2, <2>3, <2>4, <2>5, <2>6, <2>7, <2>8 DEF Runs
<1>3. CASE Reload
  BY <1>3 DEF Reload, CalmInv, InFlight
<1>4. CASE Others
  <2>1. PICK k, deleted : Elsewhere(k, deleted)
    BY <1>4 DEF Others, OutsideAddRule, OutsideDeleteChain, OutsideSetPolicy
  <2>2. Become(World, k, Idle)
    BY <2>1 DEF Elsewhere
  <2> QED BY <2>2, BecomeCalm, CmdAssumption
<1>5. CASE UNCHANGED vars
  BY <1>5 DEF vars, CalmInv, InFlight
<1> QED BY <1>1, <1>2, <1>3, <1>4, <1>5 DEF Next

(* What a calm command does is what it promises.                           *)
LEMMA DoesPromised ==
  ASSUME NEW o, OpInv(o), Does(tables, o)
  PROVE  Promised(o)
<1>1. CASE o.kind = "createTable"
  BY <1>1 DEF Does, Promised, AddTable
<1>2. CASE o.kind = "deleteTable"
  BY <1>2 DEF Does, Promised, DelTable
<1>3. CASE o.kind = "renameTable"
  BY <1>3 DEF Does, Promised
<1>4. CASE o.kind = "createChain"
  BY <1>4 DEF Does, Promised, AddChain
<1>5. CASE o.kind = "deleteChain"
  BY <1>5 DEF Does, Promised, DelChain
<1>6. CASE o.kind = "updateChain"
  BY <1>6 DEF Does, Promised, Updated
<1> QED BY <1>1, <1>2, <1>3, <1>4, <1>5, <1>6 DEF OpInv, ArgsOK

(* CalmIsAtomic for any number of commands, tables, chains and rules: a    *)
(* command of several round trips that nobody interferes with does all it  *)
(* is asked to or, but for its rename, nothing (UpdateChain, RenameTable   *)
(* and recreateChain of nft_linux.go).                                     *)
THEOREM CalmCommandsAreAtomic == Spec => []CalmIsAtomic
<1>1. Init => BaseInv /\ CalmInv
  <2>1. Init => CalmInv
    BY DEF Init, CalmInv, InFlight, Idle
  <2> QED BY <2>1, BaseInit
<1>2. BaseInv /\ CalmInv /\ [Next]_vars => (BaseInv /\ CalmInv)'
  BY BaseStep, CalmStep
<1>3. ASSUME BaseInv, CalmInv
      PROVE  CalmIsAtomic
  <2> SUFFICES ASSUME NEW c \in Cmd, Ended(c), ops[c].calm
               PROVE  IF ops[c].at = "done" THEN Promised(ops[c])
                      ELSE tables = ops[c].old \/ OnlyRenamed(ops[c])
    BY DEF CalmIsAtomic
  <2> DEFINE o == ops[c]
  <2>1. InFlight(c) /\ o.at \in {"done", "failed"}
    BY DEF Ended, InFlight
  <2>2. OpInv(o) /\ CalmAt(tables, o, o.at, o.dump)
    BY <1>3, <2>1, RunsRight DEF BaseInv, CalmInv
  <2>3. CASE o.at = "done"
    BY <2>2, <2>3, DoesPromised DEF CalmAt
  <2>4. CASE o.at = "failed"
    BY <2>2, <2>4 DEF CalmAt, Base, OnlyRenamed
  <2> QED BY <2>1, <2>3, <2>4
<1> QED BY <1>1, <1>2, <1>3, PTL DEF Spec
=============================================================================
