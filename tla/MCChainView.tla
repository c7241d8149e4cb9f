---------------------------- MODULE MCChainView -----------------------------
(* Small instances of ChainView for TLC. *)
EXTENDS ChainView

CONSTANTS j1, j2    \* two commands whose goroutines overlap

TwoJobs    == {j1, j2}
EitherJob  == Permutations(TwoJobs)
TwoRules   == <<"accept", "drop">>
ThreeRules == <<"accept", "drop", "drop">>
=============================================================================
