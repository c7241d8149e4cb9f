---------------------------- MODULE MCRulesetOps -----------------------------
(* A small instance of RulesetOps for TLC. *)
EXTENDS RulesetOps, TLC

CONSTANTS
    c1, c2,             \* two commands whose goroutines overlap
    t, u, a, b,         \* names of tables and of chains
    d1, d2, p1, p2      \* declarations and policies of base chains

TwoCmds  == {c1, c2}
TwoNames == {t, u}
TwoChain == {a, b}
TwoDecls == {d1, d2}
TwoPols  == {p1, p2}

(* No action tells one name, declaration, policy or command from another.  *)
Alike == {f @@ g @@ h @@ i @@ j :
            f \in Permutations(TwoCmds), g \in Permutations(TwoNames),
            h \in Permutations(TwoChain), i \in Permutations(TwoDecls),
            j \in Permutations(TwoPols)}
=============================================================================
