----------------------------- MODULE MCRuleOps ------------------------------
(* Small instances of RuleOps for TLC. *)
EXTENDS RuleOps

CONSTANTS c1, c2    \* two key presses whose goroutines overlap

TwoCmds == {c1, c2}
Either  == Permutations(TwoCmds)
=============================================================================
