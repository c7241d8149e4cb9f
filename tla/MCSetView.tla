----------------------------- MODULE MCSetView -------------------------------
(* A small instance of SetView for TLC. *)
EXTENDS SetView

(* A plain set, a set of intervals, and a map of intervals. *)
Intervals == {[interval |-> TRUE, map |-> FALSE]}
MCKinds   == Intervals \cup {[interval |-> FALSE, map |-> FALSE],
                             [interval |-> TRUE, map |-> TRUE]}

(* Keys alone and in ranges that keep apart, touch, overlap, cover others, *)
(* end at the last key, or are upside down.                                *)
Alone(k)  == [key |-> k, keyEnd |-> NoEnd]
To(k, l)  == [key |-> k, keyEnd |-> l]
Upright   == {Alone(0), Alone(2), To(1, 2), To(0, 2), To(2, 3)}
MCInputs  == {Alone(0), Alone(2), To(0, 2), To(1, 3), To(1, 0)}
=============================================================================
