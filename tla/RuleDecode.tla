----------------------------- MODULE RuleDecode ------------------------------
(***************************************************************************)
(* NftablesToRuleDefinition: what the rule editor is shown of a rule.  One *)
(* pass over the expressions keeps a register file and the protocol        *)
(* context latched from earlier matches, and yields the conditions and the *)
(* actions.  Conditions of ranges, lookups and limits come first, those of *)
(* comparisons are collected and converted at the end.                     *)
(***************************************************************************)
EXTENDS RuleExprs

(***************************************************************************)
(* Decoded values.  b holds bytes or a number, m a network mask, s flags.  *)
(***************************************************************************)
Val(t, b) == [t |-> t, b |-> b, m |-> <<>>, s |-> {}]
NumVal(n) == Val("num", n)
IpVal(a, mask) == [Val("ip", a) EXCEPT !.m = mask]
FlagVal(S) == [Val("flags", <<>>) EXCEPT !.s = S]
NoVal == Val("none", <<>>)

\* A condition: kind, protocol or key, field, operator, value, direction.
Cond(c, proto, field, op, v) ==
  [c |-> c, proto |-> proto, field |-> field, op |-> CmpOpOf(op), v |-> v,
   dir |-> ""]

(***************************************************************************)
(* Names of payload cells.  A cell is <<offset, length>>.                  *)
(***************************************************************************)
ICMP == 1
TCP == 6
UDP == 17
DCCP == 33
ESP == 50
AH == 51
ICMPV6 == 58
COMP == 108
HBH == 0
RT == 43
FRAG == 44
DST == 60
MH == 135
SCTP == 132
UDPLITE == 136
ETHERTYPE_ARP == <<8, 6>>

Cells(table, cell) ==
  LET hit == {r \in table : r[1] = cell}
  IN IF hit = {} THEN "" ELSE (CHOOSE r \in hit : TRUE)[2]

ArpCells == { <<<<0, 2>>, "htype">>, <<<<2, 2>>, "ptype">>,
  <<<<4, 1>>, "hlen">>, <<<<5, 1>>, "plen">>, <<<<6, 2>>, "operation">> }
Ip4Cells == { <<<<0, 1>>, "version_ihl">>, <<<<1, 1>>, "dscp_ecn">>,
  <<<<2, 2>>, "length">>, <<<<4, 2>>, "id">>, <<<<6, 2>>, "frag-off">>,
  <<<<8, 1>>, "ttl">>, <<<<9, 1>>, "protocol">>, <<<<10, 2>>, "checksum">> }
IcmpCells(last) == { <<<<0, 1>>, "type">>, <<<<1, 1>>, "code">>,
  <<<<2, 2>>, "checksum">>, <<<<4, 2>>, "id">>, <<<<6, 2>>, "sequence">>,
  <<<<4, 4>>, last>> }
L4Cells(l4) ==
  CASE l4 = ICMP -> IcmpCells("gateway")
    [] l4 = ICMPV6 -> IcmpCells("mtu")
    [] l4 = SCTP -> { <<<<0, 2>>, "sport">>, <<<<2, 2>>, "dport">>,
                      <<<<4, 4>>, "vtag">>, <<<<8, 4>>, "checksum">> }
    [] l4 = DCCP -> { <<<<0, 2>>, "sport">>, <<<<2, 2>>, "dport">> }
    [] l4 = AH -> { <<<<0, 1>>, "nexthdr">>, <<<<1, 1>>, "hdrlength">>,
                    <<<<2, 2>>, "reserved">>, <<<<4, 4>>, "spi">>,
                    <<<<8, 4>>, "sequence">> }
    [] l4 = ESP -> { <<<<0, 4>>, "spi">>, <<<<4, 4>>, "sequence">> }
    [] l4 = UDPLITE -> { <<<<4, 2>>, "csumcov">> }
    [] l4 = COMP -> { <<<<0, 1>>, "nexthdr">>, <<<<1, 1>>, "flags">>,
                      <<<<2, 2>>, "cpi">> }
    [] OTHER -> {}
L4Name(l4) ==
  CASE l4 = ICMP -> "icmp" [] l4 = ICMPV6 -> "icmpv6" [] l4 = SCTP -> "sctp"
    [] l4 = DCCP -> "dccp" [] l4 = AH -> "ah" [] l4 = ESP -> "esp"
    [] l4 = UDPLITE -> "udplite" [] l4 = COMP -> "comp" [] OTHER -> "tcp"
UdpCells == { <<<<4, 2>>, "length">>, <<<<6, 2>>, "checksum">> }
TcpCells == { <<<<0, 2>>, "sport">>, <<<<2, 2>>, "dport">>,
  <<<<4, 4>>, "sequence">>, <<<<8, 4>>, "ackseq">>, <<<<12, 1>>, "doff">>,
  <<<<13, 1>>, "flags">>, <<<<14, 2>>, "window">>, <<<<16, 2>>, "checksum">>,
  <<<<18, 2>>, "urgptr">> }
EtherCells == { <<<<0, 6>>, "daddr">>, <<<<6, 6>>, "saddr">>,
                <<<<12, 2>>, "type">> }

\* Network header: ARP under its ether type, then the cells only IPv6 has,
\* then the cell that needs the table's family, then IPv4.
NetworkField(off, len, fam, eth) ==
  LET c == <<off, len>>
      arp == IF eth = ETHERTYPE_ARP THEN Cells(ArpCells, c) ELSE ""
  IN CASE arp # "" -> <<"arp", arp>>
       [] off = 8 /\ len \in 5..16 -> <<"ip6", "saddr">>
       [] off = 24 /\ len \in 1..16 -> <<"ip6", "daddr">>
       [] c = <<6, 1>> -> <<"ip6", "nexthdr">>
       [] c = <<7, 1>> -> <<"ip6", "hoplimit">>
       [] fam = "ip6" /\ c = <<4, 2>> -> <<"ip6", "length">>
       [] off = 12 /\ len \in 1..4 -> <<"ip", "saddr">>
       [] off = 16 /\ len \in 1..4 -> <<"ip", "daddr">>
       [] OTHER -> <<"ip", Cells(Ip4Cells, c)>>

\* Transport header: the latched protocol's own layout first, then the
\* layouts of TCP and UDP whatever was latched.
TransportField(off, len, l4) ==
  LET c == <<off, len>>
      own == Cells(L4Cells(l4), c)
  IN CASE own # "" -> <<L4Name(l4), own>>
       [] c = <<0, 1>> -> <<"icmp", "type">>
       [] Cells(UdpCells, c) # "" -> <<"udp", Cells(UdpCells, c)>>
       [] OTHER -> <<"tcp", Cells(TcpCells, c)>>

\* IdentifyPayloadField; an unknown cell gets an empty name.
IdentifyPayloadField(r) ==
  CASE r.base = "network" -> NetworkField(r.off, r.len, r.fam, r.eth)
    [] r.base = "transport" -> TransportField(r.off, r.len, r.l4)
    [] r.base = "ll" -> <<"ether", Cells(EtherCells, <<r.off, r.len>>)>>
    [] OTHER -> <<"ip", "">>

(***************************************************************************)
(* Values.                                                                 *)
(***************************************************************************)
ByteFields == {"protocol", "type", "code", "ttl", "nexthdr", "hoplimit",
  "version_ihl", "dscp_ecn", "flags", "doff", "hdrlength", "hlen", "plen"}
WordFields == {"length", "csumcov", "id", "frag-off", "checksum", "window",
  "urgptr", "cpi", "htype", "ptype", "operation",
  "sequence", "ackseq", "gateway", "vtag", "spi"}

decodePayloadValue(proto, field, d) ==
  CASE proto = "ether" /\ field \in {"saddr", "daddr"} /\ Len(d) = 6 ->
         Val("mac", d)
    [] proto = "ether" /\ field = "type" /\ Len(d) = 2 -> NumVal(FromBE(d))
    [] field \in {"saddr", "daddr"} /\ Len(d) \in {4, 16} -> IpVal(d, <<>>)
    [] field \in {"sport", "dport"} /\ Len(d) = 2 -> Val("port", FromBE(d))
    [] field \in ByteFields /\ Len(d) >= 1 -> NumVal(Byte(d[1]))
    [] field \in WordFields /\ Len(d) \in {2, 4} -> NumVal(FromBE(d))
    [] field = "reserved" /\ Len(d) = 2 -> NumVal(FromBE(d))
    [] OTHER -> Val("raw", d)

NameKeys == {"iifname", "oifname", "bri_iifname", "bri_oifname"}
TrimNul(d) == SubSeq(d, 1, LastIn({i \in DOMAIN d : d[i] # 0}))

decodeMetaValue(key, d) ==
  CASE key \in {"iif", "oif"} /\ Len(d) = 4 -> Val("ifindex", FromBE(d))
    [] key \in NameKeys -> Val("str", TrimNul(d))
    [] Len(d) \in {1, 2, 4} /\ key \notin NameKeys -> NumVal(FromBE(d))
    [] OTHER -> Val("raw", d)

(***************************************************************************)
(* Conntrack values.                                                       *)
(***************************************************************************)
CtStateBits == [invalid |-> 0, established |-> 1, related |-> 2, new |-> 3,
                untracked |-> 6]
\* The bits the decoder knows; the encoder knows template and untracked too.
CtStatusShown == [expected |-> 0, seen_reply |-> 1, assured |-> 2,
  confirmed |-> 3, snat |-> 4, dnat |-> 5, seq_adjust |-> 6, snat_done |-> 7,
  dnat_done |-> 8, dying |-> 9, fixed_timeout |-> 10, helper |-> 13,
  offload |-> 14, hw_offload |-> 15]
CtStatusBits == CtStatusShown @@ [template |-> 11, untracked |-> 12]
CtEventBits == [new |-> 0, related |-> 1, destroy |-> 2, reply |-> 3,
  assured |-> 4, protoinfo |-> 5, helper |-> 6, mark |-> 7, seqadj |-> 8,
  secmark |-> 9, label |-> 10, synproxy |-> 11]

Named(x) == [Val("name", <<>>) EXCEPT !.s = {x}]
CtL3ProtoOf(n) ==
  CASE n = 10 -> "ipv6" [] n = 2 -> "ipv4" [] OTHER -> "other"
CtL3ProtoByte(x) == IF x = "ipv6" THEN 10 ELSE 2
CtProtocols == [icmp |-> 1, tcp |-> 6, udp |-> 17, dccp |-> 33,
                icmpv6 |-> 58, sctp |-> 132]
CtProtocolOf(n) ==
  IF \E x \in DOMAIN CtProtocols : CtProtocols[x] = n
    THEN CHOOSE x \in DOMAIN CtProtocols : CtProtocols[x] = n ELSE "other"
CtProtocolByte(x) == IF x \in DOMAIN CtProtocols THEN CtProtocols[x] ELSE 0

\* The byte order of an expiration is guessed from its size, then thousands
\* are taken for milliseconds.
Expiration(d) ==
  LET be == FromBE(SubSeq(d, Len(d) - 3, Len(d)))
      le == FromLE(SubSeq(d, 1, 4))
      small(n) == Len(n) < 3 \/ (Len(n) = 3 /\ ToInt(n) < 1000000)
      large(n) == ~small(n) /\ n # <<15, 66, 64>>
      v == IF large(be) /\ small(le) THEN le ELSE be
  IN IF Len(v) > 2 \/ ToInt(v) >= 1000 THEN Div(v, 1000) ELSE v

\* The byte order of a 64-bit counter is guessed from its size too.
CtCounter(d) ==
  LET high(n) == Len(n) > 6
      top == <<255, 255, 255, 255, 255, 255>>
  IN IF high(FromBE(d)) /\ ~high(FromLE(d)) /\ FromLE(d) # top
       THEN FromLE(d) ELSE FromBE(d)

LabelBits(d) ==
  {n \in 0..(8 * Len(d) - 1) : BitSet(d[(n \div 8) + 1], n % 8)}
LabelMask(bits) ==
  [i \in 1..16 |-> FoldSet(LAMBDA n, s: s + 2^(n % 8), 0,
                           {n \in bits : n \div 8 = i - 1})]

DecodeCTValue(key, d) ==
  LET four == Len(d) >= 4
      low == IF Len(d) = 1 THEN d[1] ELSE SubSeq(d, 1, 4)[1]
  IN
  CASE key = "state" /\ four -> FlagVal(FlagsOf(CtStateBits, d))
    [] key = "status" /\ four -> FlagVal(FlagsOf(CtStatusShown, d))
    [] key = "eventmask" /\ four -> FlagVal(FlagsOf(CtEventBits, d))
    [] key = "direction" /\ d # <<>> ->
         Named(IF FromLE(SubSeq(d, 1, IF four THEN 4 ELSE 1)) = <<>>
                 THEN "original" ELSE "reply")
    [] key = "expiration" -> NumVal(IF four THEN Expiration(d) ELSE <<>>)
    [] key = "l3proto" /\ (four \/ Len(d) = 1) -> Named(CtL3ProtoOf(low))
    [] key = "protocol" /\ (four \/ Len(d) = 1) -> Named(CtProtocolOf(low))
    [] key \in {"proto_src", "proto_dst"} /\ Len(d) = 2 -> NumVal(FromBE(d))
    [] key \in {"proto_src", "proto_dst"} /\ four ->
         NumVal(Trunc(FromLE(SubSeq(d, 1, 4)), 2))
    [] key \in {"bytes", "pkts", "avgpkt"} /\ Len(d) = 8 ->
         NumVal(CtCounter(d))
    [] key \in {"bytes", "pkts", "avgpkt"} /\ four ->
         NumVal(FromLE(SubSeq(d, 1, 4)))
    [] key = "helper" -> Val("str", TrimNul(d))
    [] key = "labels" -> FlagVal(LabelBits(d))
    [] key = "zone" /\ Len(d) = 2 -> NumVal(FromLE(d))
    [] key = "zone" /\ four -> NumVal(Trunc(FromLE(SubSeq(d, 1, 4)), 2))
    [] Len(d) = 4 -> NumVal(FromLE(d))
    [] OTHER -> Val("raw", d)

(***************************************************************************)
(* IPv6 extension headers and SCTP chunks.  Fields are <<offset, length>>. *)
(***************************************************************************)
ExthdrCells(type) ==
  LET common == { <<<<0, 1>>, "nexthdr">>, <<<<1, 1>>, "hdrlength">> }
  IN CASE type \in {HBH, DST} -> common
       [] type = FRAG -> { <<<<0, 1>>, "nexthdr">>, <<<<1, 1>>, "reserved">>,
            <<<<2, 2>>, "frag-off">>, <<<<3, 1>>, "more-fragments">>,
            <<<<4, 4>>, "id">> }
       [] type = RT -> common \cup
            { <<<<2, 1>>, "type">>, <<<<3, 1>>, "seg-left">> }
       [] type = MH -> common \cup { <<<<2, 1>>, "type">>,
            <<<<3, 1>>, "reserved">>, <<<<4, 2>>, "checksum">> }
       [] OTHER -> {}

\* The numbers of the chunk types; those without named fields are left out of
\* the table of fields.
ChunkTypes == 0..15 \cup {128, 130, 192, 193, 194}
InitCells == { <<<<4, 4>>, "init-tag">>, <<<<8, 4>>, "a-rwnd">>,
  <<<<12, 2>>, "os">>, <<<<14, 2>>, "mis">>, <<<<16, 4>>, "init-tsn">> }
ChunkCells(chunk) ==
  CASE chunk = 0 -> { <<<<4, 4>>, "tsn">>, <<<<8, 2>>, "stream">>,
                      <<<<10, 2>>, "ssn">>, <<<<12, 4>>, "ppid">> }
    [] chunk \in {1, 2} -> InitCells
    [] chunk = 3 -> { <<<<4, 4>>, "cum-tsn-ack">>, <<<<8, 4>>, "a-rwnd">>,
         <<<<12, 2>>, "num-gap-ack-blocks">>, <<<<14, 2>>, "num-dup-tsns">> }
    [] chunk = 7 -> { <<<<4, 4>>, "cum-tsn-ack">> }
    [] chunk \in {12, 13} -> { <<<<4, 4>>, "lowest-tsn">> }
    [] chunk = 15 -> { <<<<4, 2>>, "shared-key-id">>, <<<<6, 2>>, "hmac-id">> }
    [] chunk \in {193, 128} -> { <<<<4, 4>>, "serial-number">> }
    [] chunk = 130 -> { <<<<4, 4>>, "tsn">>, <<<<8, 2>>, "stream">>,
         <<<<10, 2>>, "reserved">>, <<<<12, 4>>, "mid">>,
         <<<<16, 4>>, "ppid-or-fsn">> }
    [] chunk \in {192, 194} -> { <<<<4, 4>>, "new-cum-tsn">> }
    [] OTHER -> {}

decodeExthdrValue(len, d) ==
  IF len \in {1, 2, 4} /\ Len(d) >= len
    THEN NumVal(FromBE(SubSeq(d, 1, len))) ELSE Val("raw", d)

(***************************************************************************)
(* Registers and the conversion of comparisons.                            *)
(***************************************************************************)
NoReg == [t |-> "none", key |-> "", base |-> "", off |-> 0, len |-> 0,
  fam |-> "", l4 |-> 0, eth |-> <<>>, dir |-> 0, bw |-> FALSE, mask |-> <<>>,
  imm |-> <<>>, xop |-> "", type |-> 0, present |-> FALSE]

\* The bit fields, named by the mask on their cell; the value is what the mask
\* keeps, shifted down to its lowest bit.
MaskCells == {
  [base |-> "network", cell |-> <<0, 1>>, mask |-> <<240>>, by |-> 16,
   name |-> <<"ip", "version">>],
  [base |-> "network", cell |-> <<0, 1>>, mask |-> <<15>>, by |-> 1,
   name |-> <<"ip", "hdrlength">>],
  [base |-> "network", cell |-> <<1, 1>>, mask |-> <<252>>, by |-> 4,
   name |-> <<"ip", "dscp">>],
  [base |-> "network", cell |-> <<0, 2>>, mask |-> <<15, 192>>, by |-> 64,
   name |-> <<"ip6", "dscp">>],
  [base |-> "network", cell |-> <<1, 3>>, mask |-> <<15, 255, 255>>, by |-> 1,
   name |-> <<"ip6", "flowlabel">>],
  [base |-> "transport", cell |-> <<12, 1>>, mask |-> <<240>>, by |-> 16,
   name |-> <<"tcp", "doff">>],
  [base |-> "ll", cell |-> <<14, 2>>, mask |-> <<15, 255>>, by |-> 1,
   name |-> <<"vlan", "id">>],
  [base |-> "ll", cell |-> <<14, 1>>, mask |-> <<16>>, by |-> 16,
   name |-> <<"vlan", "cfi">>],
  [base |-> "ll", cell |-> <<14, 1>>, mask |-> <<224>>, by |-> 32,
   name |-> <<"vlan", "pcp">>],
  [base |-> "transport", cell |-> <<8, 1>>, mask |-> <<30>>, by |-> 2,
   name |-> <<"dccp", "type">>] }
MaskCellsOf(r, d) ==
  {c \in MaskCells : /\ r.bw /\ r.mask = c.mask /\ Len(d) = Len(c.mask)
                     /\ r.base = c.base /\ <<r.off, r.len>> = c.cell
                     /\ c.name[1] = "dccp" => r.l4 = DCCP}
Masked(d, mask, by) ==
  NumOf(ToInt([i \in DOMAIN d |-> AndByte(d[i], mask[i])]) \div by)
CidrMask(n) == [i \in 1..4 |-> IF i <= n THEN 255 ELSE 0]

\* Bit fields first, then masked addresses, prefixes of whole bytes, and the
\* plain values.
payloadCompareToCondition(r, op, d) ==
  LET name == IdentifyPayloadField(r)
      addr == name[2] \in {"saddr", "daddr"}
      hit == MaskCellsOf(r, d)
      As(n, v) == Cond("payload", n[1], n[2], op, v)
  IN CASE hit # {} ->
            LET c == CHOOSE c \in hit : TRUE
            IN As(c.name, NumVal(Masked(d, c.mask, c.by)))
       [] addr /\ r.bw /\ d # <<>> /\ Len(r.mask) = Len(d) /\ hit = {} ->
            As(name, IpVal(d, r.mask))
       [] addr /\ ~r.bw /\ r.len \in 1..3 /\ Len(d) = r.len ->
            As(name, IpVal(d \o Zeros(4 - r.len), CidrMask(r.len)))
       [] OTHER -> As(name, decodePayloadValue(name[1], name[2], d))

\* A masked comparison with not-zero reads as equal to the mask.
ctCompareToCondition(r, op, d) ==
  LET flip == r.bw /\ op = "!=" /\ Num(d) = <<>>
      v == DecodeCTValue(r.key, IF flip THEN r.mask ELSE d)
      directed == {"bytes", "pkts", "avgpkt", "proto_src", "proto_dst"}
      dir == CASE r.key \in directed /\ r.dir = 0 -> "original"
               [] r.key \in directed /\ r.dir = 1 -> "reply"
               [] OTHER -> ""
  IN [Cond("ct", r.key, "", IF flip THEN "==" ELSE op, v) EXCEPT !.dir = dir]

compareToCondition(p) ==
  LET r == p.reg
      chunk == Cells(ChunkCells(r.type), <<r.off, r.len>>)
      ext == Cells(ExthdrCells(r.type), <<r.off, r.len>>)
  IN CASE r.t = "meta" ->
            Cond("meta", r.key, "", p.op, decodeMetaValue(r.key, p.data))
       [] r.t = "payload" -> payloadCompareToCondition(r, p.op, p.data)
       [] r.t = "ct" -> ctCompareToCondition(r, p.op, p.data)
       [] r.t = "exthdr" /\ r.xop = "sctp" /\ r.present ->
            Cond("chunk", r.type, "", p.op, NoVal)
       [] r.t = "exthdr" /\ r.xop = "sctp" /\ ~r.present ->
            Cond("chunk", r.type, IF chunk = "" THEN "@" ELSE chunk, p.op,
                 decodeExthdrValue(r.len, p.data))
       [] r.t = "exthdr" /\ r.xop # "sctp" ->
            Cond("exthdr", r.type, ext, p.op, decodeExthdrValue(r.len, p.data))
       [] OTHER -> Cond("custom", "", "", "==", NoVal)

(***************************************************************************)
(* Statements.  A port is two bytes; an address or port that comes from an *)
(* empty register is absent, and the upper bound defaults to the lower.    *)
(***************************************************************************)
FromReg(regs, reg) ==
  IF reg # 0 /\ regs[reg].t = "immediate" THEN regs[reg].imm ELSE <<>>
SpanOf(regs, lo, hi) ==
  LET from == FromReg(regs, lo)
      to == FromReg(regs, hi)
  IN IF from = <<>> THEN <<>> ELSE <<from, IF to = <<>> THEN from ELSE to>>

Actions == {"verdict", "counter", "objref", "log", "nat", "masq", "redir",
            "reject", "quota", "queue", "dynset"}

\* A verdict of another kind reads as drop.
verdictToAction(e) ==
  [a |-> "verdict", chain |-> e.chain,
   kind |-> IF e.kind \in {"accept", "drop", "return", "jump", "goto"}
              THEN e.kind ELSE "drop"]
\* The level counts only when the kernel sent it.
logToAction(e) ==
  [a |-> "log", prefix |-> e.prefix, group |-> e.group,
   qthresh |-> e.qthresh, snaplen |-> e.snaplen,
   level |-> IF "level" \in e.keys THEN e.level ELSE "warn"]
natToAction(e, regs) ==
  [a |-> "nat", type |-> e.type, flags |-> e.flags,
   addr |-> SpanOf(regs, e.amin, e.amax),
   ports |-> SpanOf(regs, e.pmin, e.pmax)]
masqToAction(e, regs) ==
  [a |-> "masq", flags |-> e.flags, ports |-> SpanOf(regs, e.pmin, e.pmax)]
redirToAction(e, regs) ==
  [a |-> "redir", ports |-> SpanOf(regs, e.pmin, e.pmax)]
rejectToAction(e) == [a |-> "reject", type |-> e.type, code |-> e.code]
quotaToAction(e) ==
  [a |-> "quota", bytes |-> e.bytes, over |-> e.over, consumed |-> e.consumed]
\* The range test compares the number with the total, not with one queue.
queueToAction(e) ==
  [a |-> "queue", num |-> e.num, flags |-> e.flags,
   range |-> IF e.num # e.total - 1 THEN <<e.num, e.num + e.total - 1>>
             ELSE <<>>]

\* The name of what a register holds.
regValueFieldLabel(r) ==
  CASE r.t = "payload" -> LET n == IdentifyPayloadField(r)
                          IN IF n[2] = "" THEN <<>> ELSE n
    [] r.t \in {"meta", "ct"} -> <<r.key>>
    [] OTHER -> <<>>
dynsetToAction(e, regs) ==
  [a |-> "dynset", set |-> e.set, op |-> e.op,
   key |-> regValueFieldLabel(regs[e.reg])]

Act(e, regs) ==
  CASE e.k = "verdict" -> verdictToAction(e)
    [] e.k = "log" -> logToAction(e)
    [] e.k = "nat" -> natToAction(e, regs)
    [] e.k = "masq" -> masqToAction(e, regs)
    [] e.k = "redir" -> redirToAction(e, regs)
    [] e.k = "reject" -> rejectToAction(e)
    [] e.k = "quota" -> quotaToAction(e)
    [] e.k = "queue" -> queueToAction(e)
    [] e.k = "dynset" -> dynsetToAction(e, regs)
    [] e.k = "counter" ->
         [a |-> "counter", packets |-> e.packets, bytes |-> e.bytes]
    [] OTHER -> [a |-> "objref", name |-> e.name]

(***************************************************************************)
(* The pass over the expressions.                                          *)
(***************************************************************************)
Start == [regs |-> [i \in 0..3 |-> NoReg], l4 |-> 0, eth |-> <<>>,
          conds |-> <<>>, pending |-> <<>>, acts |-> <<>>]

Load(s, reg, r) == [s EXCEPT !.regs[reg] = r]
AddCond(s, c) == [s EXCEPT !.conds = Append(@, c)]

\* An equality on meta l4proto or on the ether type latches the context of the
\* payload loads behind it.
Compare(s, e) ==
  LET r == s.regs[e.reg]
      isL4 == r.t = "meta" /\ r.key = "l4proto" /\ e.op = "==" /\ e.data # <<>>
      isEth == /\ r.t = "payload" /\ r.base = "ll" /\ r.off = 12 /\ r.len = 2
               /\ e.op = "==" /\ Len(e.data) = 2
  IN [s EXCEPT !.l4 = IF isL4 THEN e.data[1] ELSE @,
               !.eth = IF isEth THEN e.data ELSE @,
               !.pending = Append(@, [op |-> e.op, data |-> e.data, reg |-> r])]

\* The masked register keeps its source and forgets the rest: the direction,
\* the extension header, the immediate data.
Mask(s, e) ==
  LET r == s.regs[e.reg]
      masked == [r EXCEPT !.bw = TRUE, !.mask = e.mask, !.dir = 0, !.xop = "",
                          !.type = 0, !.present = FALSE, !.imm = <<>>]
  IN IF r.t = "none" THEN s
     ELSE Load(s, e.reg, IF r.t = "exthdr"
                           THEN [masked EXCEPT !.off = 0, !.len = 0] ELSE masked)

RangeCond(s, e) ==
  LET r == s.regs[e.reg]
      name == IdentifyPayloadField(r)
  IN CASE r.t = "payload" ->
            AddCond(s, Cond("payload", name[1], name[2], "==",
                            Val("range", <<e.from, e.to>>)))
       [] r.t = "ct" ->
            AddCond(s, Cond("ct", r.key, "", e.op,
                            Val("range", <<DecodeCTValue(r.key, e.from),
                                           DecodeCTValue(r.key, e.to)>>)))
       [] OTHER -> s

Convert(s, e, fam) ==
  CASE e.k = "ct" ->
         Load(s, e.reg, [NoReg EXCEPT !.t = "ct", !.key = e.key, !.dir = e.dir])
    [] e.k = "meta" ->
         Load(s, e.reg, [NoReg EXCEPT !.t = "meta", !.key = e.key])
    [] e.k = "payload" ->
         Load(s, e.reg, [NoReg EXCEPT !.t = "payload", !.base = e.base,
                           !.off = e.off, !.len = e.len, !.fam = fam,
                           !.l4 = s.l4, !.eth = s.eth])
    [] e.k = "exthdr" ->
         Load(s, e.reg, [NoReg EXCEPT !.t = "exthdr", !.xop = e.xop,
                           !.type = e.type, !.off = e.off, !.len = e.len,
                           !.present = e.present])
    [] e.k = "immediate" ->
         Load(s, e.reg, [NoReg EXCEPT !.t = "immediate", !.imm = e.data])
    [] e.k = "bitwise" -> Mask(s, e)
    [] e.k = "cmp" -> Compare(s, e)
    [] e.k = "range" -> RangeCond(s, e)
    [] e.k = "lookup" ->
         LET label == regValueFieldLabel(s.regs[e.reg])
         IN IF s.regs[e.reg].t = "none" THEN s
            ELSE AddCond(s, Cond("lookup", e.name, label, "==", NoVal))
    [] e.k \in {"limit", "connlimit"} ->
         AddCond(s, Cond(e.k, "", "", "==", [NoVal EXCEPT !.b = e]))
    [] e.k \in Actions -> [s EXCEPT !.acts = Append(@, Act(e, s.regs))]
    [] OTHER -> AddCond(s, Cond("custom", "", "", "==", NoVal))

NftablesToRuleDefinition(xs, fam) ==
  LET end == FoldLeft(LAMBDA s, e: Convert(s, e, fam), Start, xs)
  IN [conds |-> end.conds \o [i \in DOMAIN end.pending |->
                                compareToCondition(end.pending[i])],
      acts |-> end.acts]
=============================================================================
