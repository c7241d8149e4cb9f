---------------------------- MODULE KernelRuleset ----------------------------
(***************************************************************************)
(* The ruleset of the kernel as far as the commands on tables and chains   *)
(* change it: which transactions are accepted and what each does.  Kernel, *)
(* netlink library and nft(8) are external; they are modelled from how     *)
(* nft_linux.go uses them and from what its comments say of them.          *)
(*                                                                         *)
(* A ruleset k maps table names to tables, a table maps chain names to     *)
(* chains.  A chain has a declaration (type, hook and priority, which the  *)
(* kernel never changes in place), a policy, and its rules in order.       *)
(***************************************************************************)
EXTENDS Naturals, Sequences, Functions

CONSTANTS
    TableNames, ChainNames,
    Decls,              \* type, hook and priority of a base chain, as one
    Policies            \* the policies of a base chain

(* What a regular chain has in their place (nil in nftables.Chain). *)
NoDecl   == "regular"
NoPolicy == "none"

ASSUME DeclAssumption   == NoDecl \notin Decls
ASSUME PolicyAssumption == NoPolicy \notin Policies

Specs    == [decl : Decls, policy : Policies]
Regular  == [decl |-> NoDecl, policy |-> NoPolicy]
Chains   == [decl : Decls, policy : Policies, rules : Seq(Nat)]
              \cup [decl : {NoDecl}, policy : {NoPolicy}, rules : Seq(Nat)]
(* A chain of specification s that holds some rules. *)
ChainOf(s, rules) == [decl |-> s.decl, policy |-> s.policy, rules |-> rules]

IsTable(T) ==
    /\ T = [n \in DOMAIN T |-> T[n]] /\ DOMAIN T \subseteq ChainNames
    /\ \A n \in DOMAIN T : T[n] \in Chains
IsRuleset(k) ==
    /\ k = [t \in DOMAIN k |-> k[t]] /\ DOMAIN k \subseteq TableNames
    /\ \A t \in DOMAIN k : IsTable(k[t])

HasTable(k, t)    == t \in DOMAIN k
HasChain(k, t, n) == HasTable(k, t) /\ n \in DOMAIN k[t]

Without(fun, x)  == Restrict(fun, DOMAIN fun \ {x})
With(fun, x, y)  == [z \in DOMAIN fun \cup {x} |-> IF z = x THEN y ELSE fun[z]]
RulesOf(k, t)    == UNION {Range(k[t][n].rules) : n \in DOMAIN k[t]}

(* NEWCHAIN on a chain that exists: type, hook and priority must be left   *)
(* out or be the ones it has; a policy needs a base chain.                 *)
Accepts(chain, s) ==
    /\ s.decl \in {NoDecl, chain.decl}
    /\ s.policy # NoPolicy => chain.decl # NoDecl

Declared(chain, s) ==
    [chain EXCEPT !.policy = IF s.policy = NoPolicy THEN @ ELSE s.policy]

(* AddTable: creating a table that exists is no error and changes nothing. *)
AddTable(k, t) == IF HasTable(k, t) THEN k ELSE With(k, t, << >>)

CanDelTable(k, t) == HasTable(k, t)
DelTable(k, t)    == Without(k, t)

(* AddChain: creates the chain, or sets the policy of the one there is.  A *)
(* policy without a hook is refused where there is no chain yet.           *)
CanAddChain(k, t, n, s) ==
    /\ HasTable(k, t)
    /\ IF HasChain(k, t, n) THEN Accepts(k[t][n], s)
       ELSE s.decl = NoDecl => s.policy = NoPolicy

AddChain(k, t, n, s) ==
    LET chain == IF HasChain(k, t, n) THEN Declared(k[t][n], s)
                 ELSE ChainOf(s, << >>)
    IN  [k EXCEPT ![t] = With(@, n, chain)]

(* DelChain takes the rules of the chain with it. *)
CanDelChain(k, t, n) == HasChain(k, t, n)
DelChain(k, t, n)    == [k EXCEPT ![t] = Without(@, n)]

(* nft rename chain *)
CanRenameChain(k, t, n, m) == HasChain(k, t, n) /\ ~HasChain(k, t, m)
RenameChain(k, t, n, m)    == [k EXCEPT ![t] = With(Without(@, n), m, @[n])]

(* nft -f with "delete chain", "add chain" and one "add rule" for each     *)
(* rule of the dump: refused as a whole if there is no chain to delete.    *)
CanRecreate(k, t, n) == HasChain(k, t, n)
Recreate(k, t, n, s, rules) ==
    [k EXCEPT ![t] = With(@, n, ChainOf(s, rules))]

(* nft -f with a dumped table under a new header and "delete table" for    *)
(* the old one.  A table of the new name is added to, not replaced: its    *)
(* chains must accept the declarations, and rules are appended to them.    *)
CanMoveTable(k, t, u, dump) ==
    /\ HasTable(k, t)
    /\ \A n \in DOMAIN dump : HasChain(k, u, n) => Accepts(k[u][n], dump[n])

MoveTable(k, t, u, dump) ==
    LET there == IF HasTable(k, u) THEN k[u] ELSE << >>
        both  == [n \in DOMAIN there \cup DOMAIN dump |->
                    IF n \notin DOMAIN there THEN dump[n]
                    ELSE IF n \notin DOMAIN dump THEN there[n]
                    ELSE [Declared(there[n], dump[n]) EXCEPT
                            !.rules = @ \o dump[n].rules]]
    IN  With(Without(k, t), u, both)

(* Another program appends a rule. *)
AppendRule(k, t, n, r) == [k EXCEPT ![t][n].rules = Append(@, r)]
=============================================================================
