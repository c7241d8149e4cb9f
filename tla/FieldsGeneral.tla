----------------------------- MODULE FieldsGeneral ----------------------------
(***************************************************************************)
(* The General and Limit tabs of the rule editor: position, comment and    *)
(* the statements of the rule.  Each editor has its own form: Inputs is    *)
(* what its widgets hold, Open what it compares them with.                 *)
(***************************************************************************)
EXTENDS FieldBase

ActsOf(rd, kind) == SelectSeq(rd.acts, LAMBDA a: a.a = kind)
FirstOf(xs, kind) == FirstWhere(xs, LAMBDA x: Is(x, kind))
\* The first expression of a kind is replaced; nothing is added.
Replace(xs, kind, y) ==
  LET i == FirstOf(xs, kind) IN IF i = 0 THEN xs ELSE [xs EXCEPT ![i] = y]
Without(xs, kind) == SelectSeq(xs, LAMBDA x: ~Is(x, kind))

\* An input of at most ten digits shows the first ten of a longer number.
Clip10(n) ==
  LET fits(m) == Div(Div(m, 100000), 100000) = <<>>
  IN FoldLeft(LAMBDA m, i: IF fits(m) THEN m ELSE Div(m, 10), n,
              [i \in 1..10 |-> i])

(***************************************************************************)
(* Position and comment.  A comment is the number of its bytes; the user   *)
(* data holds it behind a length byte that counts its NUL too.             *)
(***************************************************************************)
Position == [fam |-> "position"]

Comment == [fam |-> "comment"]
NoUserData == [len |-> 0, text |-> 0]
encodeCommentToUserData(n) ==
  IF n = 0 THEN NoUserData ELSE [len |-> (n + 1) % 256, text |-> n]
ExtractComment(u) == Min({u.len, u.text})

(***************************************************************************)
(* Verdict.                                                                *)
(***************************************************************************)
VerdictField == [fam |-> "verdict"]
Jumps == {"jump", "goto"}
VerdictState(kind, chain) == [kind |-> kind, chain |-> chain]
NoVerdict == VerdictState("none", "")
VerdictOpen(rd) ==
  LET vs == ActsOf(rd, "verdict")
  IN IF vs = <<>> THEN NoVerdict ELSE VerdictState(vs[1].kind, vs[1].chain)
VerdictChanged(now, was) ==
  /\ was # NoVerdict
  /\ now.kind # was.kind \/ (now.kind \in Jumps /\ now.chain # was.chain)
VerdictError(now, was) ==
  VerdictChanged(now, was) /\ now.kind \in Jumps /\ now.chain = ""
VerdictWas(now) == [now EXCEPT !.chain = IF now.kind \in Jumps THEN @ ELSE ""]
VerdictSave(now, xs) ==
  LET new == Verdict(now.kind, VerdictWas(now).chain)
      i == FirstWhere(xs, LAMBDA x: \/ Is(x, "verdict")
                                    \/ Is(x, "immediate") /\ x.reg = 0)
  IN IF i = 0 THEN Append(xs, new) ELSE [xs EXCEPT ![i] = new]

(***************************************************************************)
(* Reject.  What the wire calls icmp is shown under the table's own name;  *)
(* the codes each type offers are in the order of the select.              *)
(***************************************************************************)
RejectField(fam) == [fam |-> "reject", family |-> fam]
rejectTypeOptionsForFamily(fam) ==
  CASE fam = "ip" -> <<"icmp", "tcp reset">>
    [] fam = "ip6" -> <<"icmpv6", "tcp reset">>
    [] fam \in {"inet", "bridge"} -> <<"icmpx", "tcp reset">>
    [] OTHER -> <<"tcp reset">>
mapWireTypeToDisplay(t, fam) ==
  CASE t = "icmp" /\ fam = "ip6" -> "icmpv6"
    [] t = "icmp" /\ fam \in {"inet", "bridge"} -> "icmpx"
    [] OTHER -> t
RejectCodes(shown) ==
  CASE shown = "icmp" -> <<0, 1, 2, 3, 5, 9, 10, 13>>
    [] shown = "icmpv6" -> <<0, 1, 3, 4, 5, 6>>
    [] shown = "icmpx" -> <<0, 1, 2, 3>>
    [] OTHER -> <<>>
NoCode == -1
RejectState(type, code) == [type |-> type, code |-> code]
NoReject == RejectState("none", NoCode)

\* The original keeps the type and the code the select has a name for.
RejectOpen(e, rd) ==
  LET rs == ActsOf(rd, "reject")
      shown == mapWireTypeToDisplay(rs[1].type, e.family)
      named == \E i \in DOMAIN RejectCodes(shown) :
                 RejectCodes(shown)[i] = rs[1].code
  IN IF rs = <<>> THEN NoReject
     ELSE RejectState(shown, IF named THEN rs[1].code ELSE NoCode)
\* The select of codes is built for the original type, even when the select of
\* types does not offer it.
RejectInputs(e, was) ==
  LET codes == RejectCodes(was.type)
  IN IF was = NoReject THEN was
     ELSE RejectState(Choose(rejectTypeOptionsForFamily(e.family), was.type),
                      IF codes = <<>> THEN NoCode ELSE Choose(codes, was.code))
\* Another type starts at its first code, the original one at its own.
rebuildCodeSelect(type, was) ==
  CASE type = was.type /\ was.code # NoCode -> was.code
    [] RejectCodes(type) = <<>> -> NoCode
    [] OTHER -> RejectCodes(type)[1]
RejectChanged(now, was) ==
  /\ was # NoReject
  /\ now.type # was.type \/ (now.type # "tcp reset" /\ now.code # was.code)
\* A code the type has no name for is written as zero.
RejectSave(now, xs) ==
  LET wire == IF now.type = "icmpv6" THEN "icmp" ELSE now.type
      known == \E i \in DOMAIN RejectCodes(now.type) :
                 RejectCodes(now.type)[i] = now.code
  IN Replace(xs, "reject", [k |-> "reject", type |-> wire,
                            code |-> IF known THEN now.code ELSE 0])

(***************************************************************************)
(* Log.  Group, packet length and queue threshold are numbers; the level   *)
(* is only sent to the system log, the other two only to a group.          *)
(***************************************************************************)
LogField == [fam |-> "log"]
LogLevels == {"emerg", "alert", "crit", "err", "warn", "notice", "info", "debug"}
LogState(prefix, level, group, snaplen, qthresh) ==
  [prefix |-> prefix, level |-> level, group |-> group, snaplen |-> snaplen,
   qthresh |-> qthresh]
NoLog == LogState("", "none", 0, 0, 0)
LogOpen(rd) ==
  LET ls == ActsOf(rd, "log")
  IN IF ls = <<>> THEN NoLog
     ELSE LogState(ls[1].prefix, ls[1].level, ls[1].group, ls[1].snaplen,
                   ls[1].qthresh)
LogChanged(now, was) == was # NoLog /\ now # was
LogError(now, was) ==
  /\ LogChanged(now, was)
  /\ \/ now.group # 0 /\ now.level # "warn"
     \/ now.group = 0 /\ (now.snaplen # 0 \/ now.qthresh # 0)
LogSave(now, xs) ==
  LET leveled == now.group = 0 /\ now.level # "warn"
      keys == [prefix |-> now.prefix # "", level |-> leveled,
               group |-> now.group # 0, snaplen |-> now.snaplen # 0,
               qthresh |-> now.qthresh # 0]
  IN Replace(xs, "log",
       [k |-> "log", prefix |-> now.prefix, group |-> now.group,
        qthresh |-> now.qthresh, snaplen |-> now.snaplen, flags |-> {},
        level |-> IF leveled THEN now.level ELSE "emerg",
        keys |-> {x \in DOMAIN keys : keys[x]}])

(***************************************************************************)
(* Counter.  The inputs hold ten digits.                                   *)
(***************************************************************************)
CounterField == [fam |-> "counter"]
Counter(packets, bytes) == [k |-> "counter", packets |-> packets, bytes |-> bytes]
NoCounter == Counter(Blank, Blank)
\* rd.Counter is the last counter of the rule, Save writes the first.
CounterOpen(rd) ==
  LET cs == ActsOf(rd, "counter")
  IN IF cs = <<>> THEN NoCounter ELSE Counter(Last(cs).packets, Last(cs).bytes)
CounterInputs(was) ==
  IF was = NoCounter THEN was ELSE Counter(Clip10(was.packets), Clip10(was.bytes))
CounterCanon(now) ==
  IF now = NoCounter THEN now
  ELSE Counter(GetUint64(now.packets), GetUint64(now.bytes))
CounterSave(now, xs) == Replace(xs, "counter", now)

(***************************************************************************)
(* Masquerade, replaced by one that has flags only.                        *)
(***************************************************************************)
MasqueradeField == [fam |-> "masq"]
MasqFlags == {"random", "fully-random", "persistent"}
MasqState(on, flags) == [on |-> on, flags |-> flags]
MasqOpen(rd) ==
  LET ms == ActsOf(rd, "masq")
  IN IF ms = <<>> THEN MasqState(FALSE, {}) ELSE MasqState(TRUE, ms[1].flags)
MasqWas(now) == IF now.on THEN now ELSE MasqState(FALSE, {})
MasqSave(now, xs) ==
  LET i == FirstOf(xs, "masq")
      new == [k |-> "masq", flags |-> now.flags, pmin |-> 0, pmax |-> 0]
  IN CASE ~now.on /\ i # 0 -> Cut(xs, i, 1)
       [] ~now.on /\ i = 0 -> xs
       [] now.on /\ i # 0 -> [xs EXCEPT ![i] = new]
       [] OTHER -> Append(xs, new)

(***************************************************************************)
(* SNAT and DNAT.  An address is its bytes; every table but an ip6 one     *)
(* takes IPv4 addresses.  A port is a number.                              *)
(***************************************************************************)
NATField(type, fam) == [fam |-> "nat", type |-> type, v6 |-> fam = "ip6"]
NatState(on, addr, port, flags) ==
  [on |-> on, addr |-> addr, port |-> port, flags |-> flags]
NatOff == NatState(FALSE, <<>>, <<>>, {})
NatOpen(e, rd) ==
  LET ns == SelectSeq(rd.acts, LAMBDA a: a.a = "nat" /\ a.type = e.type)
      lower(span) == IF span = <<>> THEN <<>> ELSE span[1]
      addr == lower(Last(ns).addr)
  IN IF ns = <<>> THEN NatOff
     ELSE NatState(TRUE, IF To4(addr) = <<>> THEN addr ELSE To4(addr),
                   FromBE(lower(Last(ns).ports)), Last(ns).flags)
NatInputs(was) == [was EXCEPT !.port = Typed(@)]
NatCanon(now) == [now EXCEPT !.port = GetUint64(@)]
NatError(e, now, was) ==
  /\ NatCanon(now) # was /\ now.on
  /\ Len(now.addr) \notin {4, 16} \/ (~e.v6 /\ To4(now.addr) = <<>>)
NatWas(now) == IF now.on THEN NatCanon(now) ELSE NatOff

\* The last translation of the types goes, with the nearest loads in front of
\* it of the registers it names.
DropNatOf(types, xs) ==
  LET i == LastIn({j \in DOMAIN xs : Is(xs[j], "nat") /\ xs[j].type \in types})
      regs == {xs[i].amin, xs[i].amax, xs[i].pmin, xs[i].pmax} \ {0}
      loads(r) == {j \in 1..(i - 1) : Is(xs[j], "immediate") /\ xs[j].reg = r}
      gone == {i} \cup {LastIn(loads(r)) : r \in regs}
      kept == SelectSeq([j \in DOMAIN xs |-> j], LAMBDA j: j \notin gone)
  IN IF i = 0 THEN xs ELSE [j \in DOMAIN kept |-> xs[kept[j]]]
DropNat_AnyType(e, xs) == DropNatOf({"snat", "dnat"}, xs)
DropNat(e, xs) == DropNatOf({e.type}, xs)
NatSave(e, now, xs) ==
  LET b == IF e.v6 THEN To16(now.addr) ELSE To4(now.addr)
      port == GetUint64(now.port)
      new == [k |-> "nat", type |-> e.type, flags |-> now.flags,
              amin |-> 1, amax |-> 0, pmax |-> 0,
              pmin |-> IF port = <<>> THEN 0 ELSE 2]
  IN DropNat(e, xs) \o
     IF ~now.on THEN <<>>
     ELSE <<Immediate(1, b)>>
          \o (IF port = <<>> THEN <<>> ELSE <<Immediate(2, BE(port, 2))>>)
          \o <<new>>

(***************************************************************************)
(* Queue: a number, the upper bound of a range or zero.                    *)
(***************************************************************************)
QueueField == [fam |-> "queue"]
QueueState(on, num, to, flags) ==
  [on |-> on, num |-> num, to |-> to, flags |-> flags]
QueueOff == QueueState(FALSE, 0, 0, {})
QueueOpen(rd) ==
  LET q == Last(ActsOf(rd, "queue"))
  IN IF ActsOf(rd, "queue") = <<>> THEN QueueOff
     ELSE QueueState(TRUE, q.num, IF q.range = <<>> THEN 0 ELSE q.range[2], q.flags)
QueueError(now, was) ==
  /\ now # was /\ now.on
  /\ (now.to # 0 /\ now.to < now.num) \/ ("fanout" \in now.flags /\ now.to = 0)
QueueWas(now) ==
  LET num == now.num % 65536
      to == now.to % 65536
  IN IF now.on THEN QueueState(TRUE, num, IF to > num THEN to ELSE 0, now.flags)
     ELSE QueueOff
QueueSave(now, xs) ==
  LET s == QueueWas(now)
      total == IF s.to > s.num THEN (s.to - s.num + 1) % 65536 ELSE 1
      new == [k |-> "queue", num |-> s.num, total |-> total, flags |-> s.flags]
  IN Without(xs, "queue") \o IF now.on THEN <<new>> ELSE <<>>

(***************************************************************************)
(* Quota: an amount of ten digits in a unit.                               *)
(***************************************************************************)
QuotaField == [fam |-> "quota"]
quotaUnitMultiplier(unit) ==
  CASE unit = "kbytes" -> 1024 [] unit = "mbytes" -> 1048576 [] OTHER -> 1
QuotaTimes(n, unit) ==
  IF unit = "mbytes" THEN Times(Times(n, 1024, 8), 1024, 8)
  ELSE Times(n, quotaUnitMultiplier(unit), 8)
\* The largest unit that divides the bytes.
inferQuotaUnit(b) ==
  LET k == Div(b, 1024)
      m == Div(k, 1024)
  IN CASE b # <<>> /\ QuotaTimes(m, "mbytes") = b -> <<m, "mbytes">>
       [] b # <<>> /\ QuotaTimes(m, "mbytes") # b /\ Times(k, 1024, 8) = b ->
            <<k, "kbytes">>
       [] OTHER -> <<b, "bytes">>
\* The inputs, and what they stand for.
QuotaInput(on, amount, unit, over) ==
  [on |-> on, amount |-> amount, unit |-> unit, over |-> over]
QuotaState(on, bytes, unit, over) ==
  [on |-> on, bytes |-> bytes, unit |-> unit, over |-> over]
QuotaOff == QuotaState(FALSE, <<>>, "bytes", FALSE)
QuotaOpen(rd) ==
  LET q == Last(ActsOf(rd, "quota"))
  IN IF ActsOf(rd, "quota") = <<>> THEN QuotaOff
     ELSE QuotaState(TRUE, q.bytes, inferQuotaUnit(q.bytes)[2], q.over)
QuotaInputs(was) ==
  QuotaInput(was.on, Typed(Clip10(inferQuotaUnit(was.bytes)[1])), was.unit,
             was.over)
QuotaCanon(now) ==
  QuotaState(now.on, QuotaTimes(GetUint64(now.amount), now.unit), now.unit,
             now.over)
QuotaError(now, was) ==
  QuotaCanon(now) # was /\ now.on /\ GetUint64(now.amount) = <<>>
QuotaWas(now) == IF now.on THEN QuotaCanon(now) ELSE QuotaOff
QuotaSave(now, xs) ==
  Without(xs, "quota") \o
  IF ~now.on THEN <<>>
  ELSE <<[k |-> "quota", bytes |-> QuotaCanon(now).bytes, over |-> now.over,
          consumed |-> <<>>]>>

(***************************************************************************)
(* Limit: five editors of one attribute each.  They show the last limit of *)
(* the rule, or a default, and write every one.                            *)
(***************************************************************************)
LimitField(attr, default) == [fam |-> "limit", attr |-> attr, default |-> default]
LimitOver == LimitField("over", FALSE)
LimitRate == LimitField("rate", <<>>)
LimitUnit == LimitField("unit", "second")
LimitBurst == LimitField("burst", <<>>)
LimitType == LimitField("type", "pkts")
Limit(rate, unit, burst, over, type) ==
  [k |-> "limit", rate |-> rate, unit |-> unit, burst |-> burst,
   over |-> over, type |-> type]
LimitOpen(e, rd) ==
  LET ls == SelectSeq(rd.conds, LAMBDA c: c.c = "limit")
  IN IF ls = <<>> THEN e.default ELSE Last(ls).v.b[e.attr]
LimitInputs(e, was) == IF e.attr = "rate" THEN Clip10(was) ELSE was
LimitWas(e, now) ==
  CASE e.attr = "rate" -> GetUint64(now)
    [] e.attr = "burst" -> Trunc(GetUint64(now), 4)
    [] OTHER -> now
LimitSave(e, now, xs) ==
  [i \in DOMAIN xs |->
     IF Is(xs[i], "limit") THEN [xs[i] EXCEPT ![e.attr] = LimitWas(e, now)]
     ELSE xs[i]]
=============================================================================
