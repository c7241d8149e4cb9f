----------------------------- MODULE MCTreeLoad -----------------------------
(* Small instances of TreeLoad for TLC. *)
EXTENDS TreeLoad, TLC

CONSTANTS input, output, loadingRow

TwoChains     == {input, output}
OneChain      == {input}
EitherChain   == Permutations(TwoChains)
=============================================================================
