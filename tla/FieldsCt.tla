------------------------------- MODULE FieldsCt ------------------------------
(***************************************************************************)
(* The Conntrack tab of the rule editor: one editor per conntrack key.     *)
(***************************************************************************)
EXTENDS FieldBase

CtConds(rd, key) == SelectSeq(rd.conds, LAMBDA c: c.c = "ct" /\ c.proto = key)
IsCt(x) == Is(x, "ct")
CtAt(xs, key) == {i \in DOMAIN xs : IsCt(xs[i]) /\ xs[i].key = key}

\* Two behind the last conntrack expression, or the head of the rule.
ctInsertIndex_Next(xs) == LastIn(Where(xs, IsCt)) + 1
ctInsertIndex(xs) == LET i == LastIn(Where(xs, IsCt)) IN IF i = 0 THEN 1 ELSE i + 2
InsertCt(xs, ys) == SpliceOrPanic(xs, ctInsertIndex(xs), ys)

ctDirectionToExpr(dir) ==
  CASE dir = "original" -> <<0, TRUE>>
    [] dir = "reply" -> <<1, TRUE>>
    [] OTHER -> <<255, FALSE>>

(***************************************************************************)
(* Flags: state, status, event mask.  They only rewrite what is there.     *)
(* lone: a single flag is needed to rewrite a comparison without mask.     *)
(***************************************************************************)
CtFlags(key, bits, lone) ==
  [fam |-> "ctflags", key |-> key, bits |-> bits, lone |-> lone]
CtState == CtFlags("state", CtStateBits, FALSE)
CtStatus == CtFlags("status", CtStatusBits, TRUE)
CtEventmask == CtFlags("eventmask", CtEventBits, TRUE)

CtFlagsOpen(e, rd) == Shown("", ValueOf(CtConds(rd, e.key), "flags").s, "")
CtFlagsSave(e, now, xs) ==
  LET d == FlagMask(e.bits, now.v)
      behind(i) == i - 1 \in CtAt(xs, e.key)
      many == IF e.lone THEN Cardinality(now.v) = 1 ELSE now.v # {}
  IN [i \in DOMAIN xs |->
        CASE behind(i) /\ IsBitwise(xs, i) -> [xs[i] EXCEPT !.mask = d]
          [] behind(i) /\ IsCmp(xs, i) /\ many -> [xs[i] EXCEPT !.data = d]
          [] OTHER -> xs[i]]

(***************************************************************************)
(* Numbers of w bytes.  insert: never, when the value is not zero, or also *)
(* when the operator was touched.                                          *)
(***************************************************************************)
CtNumber(key, w, order, ops, dirs, insert) ==
  [fam |-> "ctnumber", key |-> key, w |-> w, order |-> order, ops |-> ops,
   dirs |-> dirs, insert |-> insert]
CtMark == CtNumber("mark", 4, "le", AllOps, FALSE, "never")
CtSecmark == CtNumber("secmark", 4, "le", AllOps, FALSE, "never")
CtZone == CtNumber("zone", 2, "le", AllOps, FALSE, "touched")
CtBytes == CtNumber("bytes", 8, "le", AllOps, TRUE, "touched")
CtPkts == CtNumber("pkts", 8, "le", AllOps, TRUE, "touched")
CtAvgpkt == CtNumber("avgpkt", 8, "le", AllOps, TRUE, "touched")
CtProtoSrc == CtNumber("proto_src", 2, "be", EqOps, TRUE, "value")
CtProtoDst == CtNumber("proto_dst", 2, "be", EqOps, TRUE, "value")

CtNumberOpen(e, rd) ==
  LET cs == CtConds(rd, e.key)
  IN Shown(OpOf(cs), ValueOf(cs, "num").b,
           IF e.dirs /\ cs # <<>> THEN Last(cs).dir ELSE "")
CtNumberInputs(e, was) ==
  Shown(Choose(e.ops, was.op), Typed(was.v), was.dir)
CtNumberCanon(e, now) == [now EXCEPT !.v = Trunc(GetUint64(@), e.w)]

\* Every expression of the key takes the direction, every comparison right
\* behind one the operator and the value.
CtNumberSave(e, now, was, xs) ==
  LET n == Trunc(GetUint64(now.v), e.w)
      d == IF e.order = "le" THEN LE(n, e.w) ELSE BE(n, e.w)
      hits == CtAt(xs, e.key)
      dir == IF e.dirs THEN ctDirectionToExpr(now.dir) ELSE <<0, FALSE>>
      directed == [i \in DOMAIN xs |->
                     IF i \in hits /\ e.dirs
                       THEN [xs[i] EXCEPT !.dir = dir[1], !.opt = dir[2]]
                       ELSE xs[i]]
      wanted == \/ e.insert # "never" /\ n # <<>>
                \/ e.insert = "touched" /\ now.op # was.op
  IN CASE hits # {} -> SetCmpsBehind(directed, hits, CmpOpOf(now.op), d)
       [] hits = {} /\ wanted ->
            InsertCt(xs, <<Ct(e.key, dir[1], dir[2]), Cmp(CmpOpOf(now.op), d)>>)
       [] OTHER -> xs

(***************************************************************************)
(* Names: layer 3 and layer 4 protocol.  Only the first match is written.  *)
(***************************************************************************)
CtName(key) == [fam |-> "ctname", key |-> key]
CtL3Proto == CtName("l3proto")
CtProtocol == CtName("protocol")
CtNames(e) ==
  IF e.key = "l3proto" THEN <<"", "ipv4", "ipv6">>
  ELSE <<"", "icmp", "tcp", "udp", "dccp", "icmpv6", "sctp">>
CtNameByte(e, x) ==
  IF e.key = "l3proto" THEN CtL3ProtoByte(x) ELSE CtProtocolByte(x)

CtNameOpen(e, rd) ==
  LET cs == SelectSeq(CtConds(rd, e.key), LAMBDA c: c.v.t = "name")
  IN IF cs = <<>> THEN Shown("==", "", "")
     ELSE Shown(Last(cs).op, CHOOSE x \in Last(cs).v.s : TRUE, "")
CtNameInputs(e, was) ==
  Shown(Choose(EqOps, was.op), Choose(CtNames(e), was.v), "")
CtNameSave(e, now, xs) ==
  LET i == FirstIn(CtAt(xs, e.key))
      d == <<CtNameByte(e, now.v)>>
  IN CASE i # 0 -> SetCmp(xs, i + 1, CmpOpOf(now.op), d)
       [] i = 0 /\ now.v # "" ->
            InsertCt(xs, <<Ct(e.key, 0, FALSE), Cmp(CmpOpOf(now.op), d)>>)
       [] OTHER -> xs

(***************************************************************************)
(* Helper: a name, ended by a NUL byte.                                    *)
(***************************************************************************)
CtHelper == [fam |-> "cthelper"]
CtHelperOpen(rd) == Shown("", ValueOf(CtConds(rd, "helper"), "str").b, "")
CtHelperSave(now, xs) ==
  LET hits == CtAt(xs, "helper")
      d == Append(now.v, 0)
  IN CASE hits # {} ->
            [i \in DOMAIN xs |-> IF i - 1 \in hits /\ IsCmp(xs, i)
                                   THEN [xs[i] EXCEPT !.data = d] ELSE xs[i]]
       [] hits = {} /\ now.v # <<>> ->
            InsertCt(xs, <<Ct("helper", 0, FALSE), Cmp("==", d)>>)
       [] OTHER -> xs

(***************************************************************************)
(* Direction: a rule without the key shows the first option as changed.    *)
(***************************************************************************)
CtDirection == [fam |-> "ctdirection"]
CtDirectionOpen(rd) ==
  LET cs == SelectSeq(CtConds(rd, "direction"), LAMBDA c: c.v.t = "name")
  IN Shown("", IF cs = <<>> THEN "" ELSE CHOOSE x \in Last(cs).v.s : TRUE, "")
CtDirectionInputs(was) == [was EXCEPT !.v = Choose(<<"original", "reply">>, @)]
CtDirectionSave(now, xs) ==
  LET d == <<IF now.v = "original" THEN 0 ELSE 1>>
  IN [i \in DOMAIN xs |-> IF i - 1 \in CtAt(xs, "direction") /\ IsCmp(xs, i)
                            THEN [xs[i] EXCEPT !.data = d] ELSE xs[i]]

(***************************************************************************)
(* Labels: a set of bits, inserted even when it is empty.                  *)
(***************************************************************************)
CtLabels == [fam |-> "ctlabels"]
CtLabelsOpen(rd) == Shown("", ValueOf(CtConds(rd, "labels"), "flags").s, "")
CtLabelsSave(now, xs) ==
  LET hits == CtAt(xs, "labels")
      mask == LabelMask(now.v)
  IN IF hits = {}
       THEN InsertCt(xs, <<Ct("labels", 0, FALSE), Bitwise(mask, Zeros(16)),
                           Cmp("!=", Zeros(16))>>)
       ELSE [i \in DOMAIN xs |->
               IF i - 1 \in hits /\ IsBitwise(xs, i)
                 THEN [xs[i] EXCEPT !.mask = mask, !.xor = Zeros(16)]
                 ELSE xs[i]]

(***************************************************************************)
(* Expiration: a text that may be a duration, a range or a set of them.    *)
(* The decoded operator is not shown, and neither is a range.              *)
(***************************************************************************)
CtExpiration == [fam |-> "ctexpiration"]
\* form "one", "range" or "set"; the empty text parses as zero.
Duration(op, form, ns) == [op |-> op, form |-> form, ns |-> ns]
NoText == Duration("==", "none", <<<<>>>>)
CtExpirationOpen(rd) ==
  LET n == ValueOf(CtConds(rd, "expiration"), "num").b
  IN Shown("", IF n = <<>> THEN NoText ELSE Duration("==", "one", <<n>>), "")
CtExpirationSave(now, xs) ==
  LET t == now.v
      ms(n) == BE(Times(n, 1000, 4), 4)
      new(i) ==
        CASE t.form = "range" ->
               [RangeExpr(t.op, ms(t.ns[1]), ms(t.ns[2])) EXCEPT
                  !.reg = xs[i - 1].reg]
          [] t.form = "set" /\ Len(t.ns) > 1 /\ Is(xs[i], "lookup") -> xs[i]
          [] OTHER -> [Cmp(t.op, ms(t.ns[1])) EXCEPT !.reg = xs[i - 1].reg]
  IN [i \in DOMAIN xs |->
        IF i - 1 \in CtAt(xs, "expiration") THEN new(i) ELSE xs[i]]

(***************************************************************************)
(* Count: the connection limit of the rule, ahead of the verdict.          *)
(***************************************************************************)
CtCount == [fam |-> "ctcount"]
Connlimit(n, over) == [k |-> "connlimit", count |-> n, over |-> over]
IsConnlimit(x) == Is(x, "connlimit")
IsVerdict(x) == Is(x, "verdict")
CtCountOpen(rd) ==
  LET cs == SelectSeq(rd.conds, LAMBDA c: c.c = "connlimit")
  IN IF cs = <<>> THEN Shown("", <<>>, "")
     ELSE Shown(IF Last(cs).v.b.over THEN "over" ELSE "", Last(cs).v.b.count, "")
CtCountInputs(was) == [was EXCEPT !.v = Typed(@)]
CtCountCanon(now) == [now EXCEPT !.v = Trunc(GetUint64(@), 4)]
CtCountSave_Appended(now, was, xs) ==
  SelectSeq(xs, LAMBDA x: ~IsConnlimit(x))
  \o <<Connlimit(Trunc(GetUint64(now.v), 4), now.op = "over")>>
CtCountSave(now, was, xs) ==
  LET new == Connlimit(Trunc(GetUint64(now.v), 4), now.op = "over")
      found == Where(xs, IsConnlimit)
      v == FirstWhere(xs, IsVerdict)
      wanted == new.count # <<>> \/ now.op # was.op
  IN CASE found # {} -> [i \in DOMAIN xs |-> IF i \in found THEN new ELSE xs[i]]
       [] found = {} /\ wanted ->
            Splice(xs, IF v = 0 THEN Len(xs) + 1 ELSE v, <<new>>)
       [] OTHER -> xs
=============================================================================
