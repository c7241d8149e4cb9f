------------------------------ MODULE FieldBase ------------------------------
(***************************************************************************)
(* What the field editors of the rule editor share.  An editor e is a      *)
(* record naming its kind (fam) and its constants; the state of one is     *)
(* [now, was]: what its inputs hold and what it compares them with to know *)
(* whether it was changed.  Both are records [op, v, dir] (operator or     *)
(* first selector, value, direction or second selector).                   *)
(***************************************************************************)
EXTENDS RuleDecode

Shown(op, v, dir) == [op |-> op, v |-> v, dir |-> dir]

\* NumberInput: the empty input reads as zero, and zero opens as empty.
Blank == <<-1>>
GetUint64(v) == IF v = Blank THEN <<>> ELSE v
Typed(n) == IF n = <<>> THEN Blank ELSE n

\* Select: a value that is not an option leaves the first one selected.
Choose_First(options, x) == options[1]
Choose(options, x) ==
  IF \E i \in DOMAIN options : options[i] = x THEN x ELSE options[1]
AllOps == <<"==", "!=", "<", "<=", ">", ">=">>
EqOps == <<"==", "!=">>

\* The editors read the conditions one after the other: the last one that
\* matches gives the operator, the last one of the right type the value.
OpOf(cs) == IF cs = <<>> THEN "==" ELSE Last(cs).op
ValueOf(cs, t) ==
  LET typed == SelectSeq(cs, LAMBDA c: c.v.t = t)
  IN IF typed = <<>> THEN Val(t, <<>>) ELSE Last(typed).v

\* An IPv4 address in four bytes or in sixteen.
Mapped == Zeros(10) \o <<255, 255>>
To4(b) ==
  CASE Len(b) = 4 -> b
    [] Len(b) = 16 /\ SubSeq(b, 1, 12) = Mapped -> SubSeq(b, 13, 16)
    [] OTHER -> <<>>
To16(b) == IF Len(b) = 4 THEN Mapped \o b ELSE IF Len(b) = 16 THEN b ELSE <<>>

\* Slicing past the end of the expressions.
Panic == <<[k |-> "panic"]>>
SpliceOrPanic(xs, i, ys) == IF CanSplice(xs, i) THEN Splice(xs, i, ys) ELSE Panic

\* The comparison right behind each position of S takes op and d.
SetCmpsBehind(xs, S, op, d) ==
  [i \in DOMAIN xs |-> IF i - 1 \in S /\ IsCmp(xs, i)
                         THEN [xs[i] EXCEPT !.op = op, !.data = d] ELSE xs[i]]

\* The first expression satisfying Test whose next one is a comparison, as
\* long as it is the first that satisfies Test at all.
FirstMatch(xs, Test(_)) ==
  LET i == FirstWhere(xs, Test) IN IF i # 0 /\ IsCmp(xs, i + 1) THEN i ELSE 0
=============================================================================
