------------------------------ MODULE FieldCells ------------------------------
(***************************************************************************)
(* Most editors of the rule editor edit one match: load a cell (a part of  *)
(* a header, a metadata key), perhaps mask it, compare it.  They come in   *)
(* four families that search, write, insert and delete the match each in   *)
(* its own way; an editor is a record with the constants of its match.     *)
(***************************************************************************)
EXTENDS FieldBase

\* The conditions an editor reads.
CondsOf(e, rd) ==
  SelectSeq(rd.conds, LAMBDA c: /\ c.c = e.sel[1] /\ c.proto = e.sel[2]
                                /\ c.field = e.sel[3])
Typed1(cs, t) == SelectSeq(cs, LAMBDA c: c.v.t = t)
LastValue(cs, t, none) ==
  IF Typed1(cs, t) = <<>> THEN none ELSE Last(Typed1(cs, t)).v.b

\* x loads the cell that load names; the operation of an extension header
\* match is not looked at.
SameLoad(x, load) ==
  /\ Is(x, load.k)
  /\ CASE load.k = "payload" ->
            /\ x.base = load.base
            /\ <<x.off, x.len>> = <<load.off, load.len>>
       [] load.k = "exthdr" ->
            <<x.type, x.off, x.len>> = <<load.type, load.off, load.len>>
       [] OTHER -> x.key = load.key
FirstLoad(xs, load) == FirstWhere(xs, LAMBDA x: SameLoad(x, load))

Invalid == <<-2>>
AndBytes(a, b) == [i \in DOMAIN a |-> AndByte(a[i], b[i])]

(***************************************************************************)
(* pair: a load and the comparison right behind it.  t: the type of value  *)
(* it reads, none: what it holds when there is none, codes: the values its *)
(* select offers.  A number input is empty for zero.                       *)
(***************************************************************************)
PairCell(sel, t, load, w) ==
  [fam |-> "pair", sel |-> sel, t |-> t, load |-> load, w |-> w,
   none |-> <<>>, codes |-> <<>>, ops |-> AllOps, pad |-> FALSE]

PairOpen(e, rd) ==
  LET cs == CondsOf(e, rd)
      v == LastValue(cs, e.t, e.none)
  IN Shown(OpOf(cs), IF e.codes # <<>> /\ v # e.none THEN Trunc(v, e.w) ELSE v, "")
PairInputs(e, was) ==
  Shown(Choose(e.ops, was.op),
        CASE was.v = e.none -> Blank
          [] was.v # e.none /\ e.codes # <<>> ->
               Choose(<<Blank>> \o e.codes, was.v)
          [] OTHER -> was.v,
        "")
PairCanon(e, now) == [now EXCEPT !.v = IF @ = Blank THEN e.none ELSE @]

PairData_Reversed(e, v) == LE(v, e.w)
PairData(e, v) ==
  IF e.pad THEN SubSeq(v \o Zeros(e.w), 1, e.w) ELSE BE(v, e.w)
PairSave(e, now, xs) ==
  LET i == FirstMatch(xs, LAMBDA x: SameLoad(x, e.load))
      op == CmpOpOf(now.op)
  IN CASE now.v = Blank /\ i # 0 -> Cut(xs, i, 2)
       [] now.v = Blank /\ i = 0 -> xs
       [] now.v # Blank /\ i # 0 -> SetCmp(xs, i + 1, op, PairData(e, now.v))
       [] OTHER -> xs \o <<e.load, Cmp(op, PairData(e, now.v))>>
\* Clearing what the rule does not match leaves the operator's original alone.
PairWas(e, now, was, xs) ==
  IF now.v = Blank /\ FirstMatch(xs, LAMBDA x: SameLoad(x, e.load)) = 0
    THEN [was EXCEPT !.v = e.none] ELSE PairCanon(e, now)

(***************************************************************************)
(* bits: a load, a mask and a comparison with the value times by.  skip:   *)
(* a cell under another mask is passed over, instead of ending the search; *)
(* clip: what is kept of the value; keep: the bytes the editor remembers.  *)
(***************************************************************************)
BitsCell(sel, load, mask, by) ==
  [fam |-> "bits", sel |-> sel, load |-> load, w |-> Len(mask), mask |-> mask,
   by |-> by, clip |-> mask, skip |-> FALSE, keep |-> 8]

BitsOpen(e, rd) ==
  LET cs == CondsOf(e, rd)
  IN Shown(OpOf(cs), LastValue(cs, "num", <<>>), "")
BitsInputs(was) == Shown(Choose(AllOps, was.op), Typed(was.v), "")
BitsCanon(now) == [now EXCEPT !.v = GetUint64(@)]

BitsAt(e, xs) ==
  LET shaped(i) == IsBitwise(xs, i + 1) /\ IsCmp(xs, i + 2)
      mine(i) == shaped(i) /\ xs[i + 1].mask = e.mask
      i == FirstIn({j \in DOMAIN xs : /\ SameLoad(xs[j], e.load)
                                      /\ mine(j) \/ ~shaped(j) \/ ~e.skip})
  IN IF i # 0 /\ mine(i) THEN i ELSE 0
BitsData(e, v) == AndBytes(BE(Times(v, e.by, e.w), e.w), e.clip)
BitsSave(e, now, xs) ==
  LET i == BitsAt(e, xs)
      op == CmpOpOf(now.op)
      d == BitsData(e, GetUint64(now.v))
  IN CASE now.v = Blank /\ i # 0 -> Cut(xs, i, 3)
       [] now.v = Blank /\ i = 0 -> xs
       [] now.v # Blank /\ i # 0 -> SetCmp(xs, i + 2, op, d)
       [] OTHER -> xs \o <<e.load, Bitwise(e.mask, Zeros(e.w)), Cmp(op, d)>>
BitsWas(e, now, was, xs) ==
  IF now.v = Blank /\ BitsAt(e, xs) = 0
    THEN [was EXCEPT !.v = <<>>]
    ELSE [now EXCEPT !.v = Trunc(GetUint64(@), e.keep)]

(***************************************************************************)
(* opt: a match that is set or not, always an equality unless the editor   *)
(* has an operator.  raw: what a value of another type reads as; zero: a   *)
(* zero is shown; top: bytes beyond which the input reads as not set; dep: *)
(* the match put at the head of the rule when it is missing; exact: the    *)
(* search looks at the mask too; names: the values a select offers by name *)
(* next to the number input, the choice in the select being dir.           *)
(***************************************************************************)
OptCell(sel, load, w) ==
  [fam |-> "opt", sel |-> sel, t |-> "num", load |-> load, w |-> w,
   mask |-> <<>>, by |-> 1, dep |-> <<>>, ops |-> <<"==">>, raw |-> <<>>,
   zero |-> FALSE, top |-> 8, exact |-> FALSE, names |-> {}]

OptOpen(e, rd) ==
  LET cs == CondsOf(e, rd)
  IN Shown(IF Len(e.ops) > 1 THEN OpOf(cs) ELSE "==",
           IF cs = <<>> THEN Blank ELSE LastValue(cs, e.t, e.raw), "")
\* A value that has a name is chosen in the select, and the input stays empty.
OptInputs(e, was) ==
  LET named == was.v \in e.names
  IN Shown(Choose(e.ops, was.op),
           IF named \/ (was.v = <<>> /\ ~e.zero) THEN Blank ELSE was.v,
           IF e.names = {} THEN "" ELSE IF named THEN was.v ELSE Blank)
\* While a name is chosen, the number input is not looked at.
NameChosen(e, now) == e.names # {} /\ now.dir # Blank
OptCanon(e, now) ==
  Shown(now.op,
        CASE NameChosen(e, now) -> now.dir
          [] ~NameChosen(e, now) /\ now.v # Blank /\ Len(now.v) > e.top -> Blank
          [] OTHER -> now.v,
        "")

OptAt(e, xs) ==
  FirstIn({i \in DOMAIN xs :
             /\ SameLoad(xs[i], e.load)
             /\ e.exact => /\ i + 2 \in DOMAIN xs /\ IsBitwise(xs, i + 1)
                           /\ xs[i + 1].mask = e.mask})
\* The equality the match depends on stands anywhere in the rule.
HasDep(e, xs) ==
  \E i \in DOMAIN xs : /\ SameLoad(xs[i], e.dep[1]) /\ IsCmp(xs, i + 1)
                       /\ xs[i + 1].op = "=="
                       /\ xs[i + 1].data = e.dep[2].data
OptSave(e, now, xs) ==
  LET v == OptCanon(e, now).v
      op == CmpOpOf(now.op)
      n == IF e.mask = <<>> THEN 2 ELSE 3
      ys == IF v = Blank \/ e.dep = <<>> \/ HasDep(e, xs) THEN xs
            ELSE e.dep \o xs
      i == OptAt(e, ys)
      d == IF e.mask = <<>> THEN BE(v, e.w)
           ELSE AndBytes(BE(Times(v, e.by, e.w), e.w), e.mask)
      ready == /\ i # 0 /\ IsCmp(ys, i + n - 1)
               /\ e.mask = <<>> \/ IsBitwise(ys, i + 1)
      mask == IF e.mask = <<>> THEN <<>> ELSE <<Bitwise(e.mask, Zeros(e.w))>>
  IN CASE v = Blank /\ i # 0 /\ i + n - 1 \in DOMAIN ys -> Cut(ys, i, n)
       [] v # Blank /\ ready -> SetCmp(ys, i + n - 1, op, d)
       [] v # Blank /\ ~ready -> ys \o <<e.load>> \o mask \o <<Cmp(op, d)>>
       [] OTHER -> ys

(***************************************************************************)
(* set: named flags in one byte, always an equality.                       *)
(***************************************************************************)
SetCell(sel, load, bits) ==
  [fam |-> "set", sel |-> sel, load |-> load, bits |-> bits]
SetOpen(e, rd) ==
  LET v == ByteOf(LastValue(CondsOf(e, rd), "num", <<>>))
  IN Shown("", {n \in DOMAIN e.bits : BitSet(v, e.bits[n])}, "")
SetSave(e, now, xs) ==
  LET i == FirstMatch(xs, LAMBDA x: SameLoad(x, e.load))
      d == <<FoldSet(LAMBDA n, s: s + 2^(e.bits[n]), 0, now.v)>>
  IN CASE now.v = {} /\ i # 0 -> Cut(xs, i, 2)
       [] now.v # {} /\ i # 0 -> SetCmp(xs, i + 1, "==", d)
       [] now.v # {} /\ i = 0 -> xs \o <<e.load, Cmp("==", d)>>
       [] OTHER -> xs
=============================================================================
