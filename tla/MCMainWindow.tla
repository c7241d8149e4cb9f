---------------------------- MODULE MCMainWindow ----------------------------
(* Small instances of MainWindow for TLC. *)
EXTENDS MainWindow

CONSTANTS g1, g2    \* two goroutines in flight together

TwoGoroutines == {g1, g2}
=============================================================================
