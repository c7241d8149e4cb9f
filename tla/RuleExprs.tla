------------------------------ MODULE RuleExprs ------------------------------
(***************************************************************************)
(* The expressions of a rule as nftui edits them: rule.Exprs is a sequence *)
(* of records, one per Go expression, with the fields the editors read or  *)
(* write.  A number is the sequence of its bytes, most significant first,  *)
(* without leading zeros, so that every width (up to 64 bits) and byte     *)
(* order is exact.  The data of a comparison is a sequence of bytes as the *)
(* expression holds it.                                                    *)
(***************************************************************************)
EXTENDS Integers, Sequences, FiniteSetsExt, SequencesExt

(***************************************************************************)
(* Numbers and their encodings.                                            *)
(***************************************************************************)
Zeros(n) == [i \in 1..n |-> 0]

\* A number without the leading zero bytes of its encoding.
Num(b) ==
  LET used == {i \in DOMAIN b : b[i] # 0}
  IN IF used = {} THEN <<>> ELSE SubSeq(b, Min(used), Len(b))

\* binary.BigEndian.PutUint and binary.LittleEndian.AppendUint on w bytes: a
\* number that does not fit loses its high bytes.
BE(n, w) == [i \in 1..w |-> LET j == Len(n) - (w - i)
                            IN IF j \in 1..Len(n) THEN n[j] ELSE 0]
LE(n, w) == Reverse(BE(n, w))

\* The conversion of a Go unsigned integer to one of w bytes.
Trunc(n, w) == Num(BE(n, w))

\* The number a data of any length holds, in either byte order.
FromBE(d) == Num(d)
FromLE(d) == Num(Reverse(d))

\* The small numbers the tables of the code name.
Byte(n) == IF n = 0 THEN <<>> ELSE <<n>>
ByteOf(n) == IF n = <<>> THEN 0 ELSE n[Len(n)]

\* Arithmetic on numbers too long for an integer: times and divided by a small
\* one, the product in w bytes.
Times(n, by, w) ==
  LET step(s, b) == <<(s[1] + b * by) \div 256,
                      <<(s[1] + b * by) % 256>> \o s[2]>>
  IN Num(FoldLeft(step, <<0, <<>>>>, LE(n, w))[2])
Div(n, by) ==
  LET step(s, b) == <<(s[1] * 256 + b) % by,
                      Append(s[2], (s[1] * 256 + b) \div by)>>
  IN Num(FoldLeft(step, <<0, <<>>>>, n)[2])
\* A number of at most 30 bits as an integer, and back.
ToInt(n) == FoldLeft(LAMBDA s, b: s * 256 + b, 0, n)
NumOf(i) == Num(<<i \div 16777216, (i \div 65536) % 256,
                  (i \div 256) % 256, i % 256>>)

BitSet(byte, i) == (byte \div (2^i)) % 2 = 1
AndByte(a, b) ==
  FoldSet(LAMBDA i, s: s + IF BitSet(a, i) /\ BitSet(b, i) THEN 2^i ELSE 0,
          0, 0..7)

\* A set of named flags in the four bytes of a mask, and back.
FlagMask(bit, S) ==
  [i \in 1..4 |->
     FoldSet(LAMBDA n, s: s + IF n \div 8 = i - 1 THEN 2^(n % 8) ELSE 0,
             0, {bit[s] : s \in S})]
FlagsOf(bit, d) ==
  {s \in DOMAIN bit : BitSet(d[(bit[s] \div 8) + 1], bit[s] % 8)}

(***************************************************************************)
(* Expressions.                                                            *)
(***************************************************************************)
CmpOps == {"==", "!=", "<", "<=", ">", ">="}

\* compareOpToExprCmpOp and cmpOpToCompareOp name the same operators.
CmpOpOf(op) == IF op \in CmpOps THEN op ELSE "=="

Payload(base, off, len) ==
  [k |-> "payload", base |-> base, off |-> off, len |-> len, reg |-> 1]
Meta(key) == [k |-> "meta", key |-> key, reg |-> 1]
\* dir 255 and opt FALSE: no direction; set: the statement that writes the key.
Ct(key, dir, opt) ==
  [k |-> "ct", key |-> key, dir |-> dir, opt |-> opt, set |-> FALSE, reg |-> 1]
CtSet(key) == [Ct(key, 0, FALSE) EXCEPT !.set = TRUE, !.reg = 0]
Cmp(op, d) == [k |-> "cmp", op |-> op, data |-> d, reg |-> 1]
Bitwise(mask, xor) == [k |-> "bitwise", mask |-> mask, xor |-> xor, reg |-> 1]
RangeExpr(op, from, to) ==
  [k |-> "range", op |-> op, from |-> from, to |-> to, reg |-> 1]
Lookup(set) == [k |-> "lookup", name |-> set, reg |-> 1]
Exthdr(op, type, off, len, present) ==
  [k |-> "exthdr", xop |-> op, type |-> type, off |-> off, len |-> len,
   present |-> present, reg |-> 1]
Immediate(reg, d) == [k |-> "immediate", reg |-> reg, data |-> d]
Verdict(kind, chain) == [k |-> "verdict", kind |-> kind, chain |-> chain]

Is(e, kind) == e.k = kind
IsCmp(xs, i) == i \in DOMAIN xs /\ xs[i].k = "cmp"
IsBitwise(xs, i) == i \in DOMAIN xs /\ xs[i].k = "bitwise"

(***************************************************************************)
(* Surgery on rule.Exprs.  Positions count from 1.                         *)
(***************************************************************************)
FirstIn(S) == IF S = {} THEN 0 ELSE Min(S)
LastIn(S)  == IF S = {} THEN 0 ELSE Max(S)
Where(xs, Test(_)) == {i \in DOMAIN xs : Test(xs[i])}
FirstWhere(xs, Test(_)) == FirstIn(Where(xs, Test))

\* append(xs[:i], xs[i+n:]...): n expressions from position i are gone.
Cut(xs, i, n) == SubSeq(xs, 1, i - 1) \o SubSeq(xs, i + n, Len(xs))

\* ys in front of position i; slicing past the end panics.
CanSplice(xs, i) == i \in 1..(Len(xs) + 1)
Splice(xs, i, ys) == SubSeq(xs, 1, i - 1) \o ys \o SubSeq(xs, i, Len(xs))

\* The comparison behind position i takes an operator and a value; anything
\* else there is left alone.
SetCmp(xs, i, op, d) ==
  IF IsCmp(xs, i) THEN [xs EXCEPT ![i].op = op, ![i].data = d] ELSE xs
=============================================================================
