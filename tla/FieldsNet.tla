------------------------------- MODULE FieldsNet ------------------------------
(***************************************************************************)
(* The Network and IP tabs of the rule editor: addresses, the fields of    *)
(* the Ethernet, VLAN, ARP, IPv4 and IPv6 headers and of the IPv6          *)
(* extension headers.                                                      *)
(***************************************************************************)
EXTENDS FieldCells

Net(off, len) == Payload("network", off, len)
Frame(off, len) == Payload("ll", off, len)

(***************************************************************************)
(* Addresses.  A text is an address and a mask: no mask without a prefix   *)
(* length; a mask that is no prefix is shown in a form that does not parse *)
(* back, and so are the addresses of the other family.                     *)
(***************************************************************************)
AddrCell(proto, field, off, w) ==
  [fam |-> "addr", sel |-> <<"payload", proto, field>>, off |-> off, w |-> w]
IPSaddr == AddrCell("ip", "saddr", 12, 4)
IPDaddr == AddrCell("ip", "daddr", 16, 4)
IP6Saddr == AddrCell("ip6", "saddr", 8, 16)
IP6Daddr == AddrCell("ip6", "daddr", 24, 16)

Addr(b, m) == [b |-> b, m |-> m]
NoAddr == Addr(<<>>, <<>>)
IsPrefixMask(m) ==
  LET bit(n) == BitSet(m[(n \div 8) + 1], 7 - (n % 8))
  IN \A n \in 1..(8 * Len(m) - 1) : bit(n) => bit(n - 1)
ToWidth(b, w) == IF w = 4 THEN To4(b) ELSE To16(b)
TextOf(v) == Addr(IF To4(v.b) # <<>> THEN To4(v.b) ELSE v.b, v.m)

\* Unlike the others these read the first condition.
AddrOpen(e, rd) ==
  LET cs == CondsOf(e, rd)
      ips == Typed1(cs, "ip")
  IN Shown(IF cs = <<>> THEN "==" ELSE cs[1].op,
           IF ips = <<>> THEN NoAddr ELSE TextOf(ips[1].v), "")
AddrInputs(was) == [was EXCEPT !.op = Choose(EqOps, @)]

AddrAt(e, xs) ==
  FirstWhere(xs, LAMBDA x: /\ Is(x, "payload") /\ x.base = "network"
                           /\ x.off = e.off
                           /\ IF e.w = 4 THEN x.len \in 1..4 ELSE x.len = 16)
AddrSave(e, now, xs) ==
  LET t == now.v
      op == CmpOpOf(now.op)
      cidr == t.m # <<>>
      ip == ToWidth(IF cidr THEN AndBytes(t.b, t.m) ELSE t.b, e.w)
      valid == ip # <<>> /\ (cidr => IsPrefixMask(t.m))
      i == AddrAt(e, xs)
      head == [SubSeq(xs, 1, i) EXCEPT ![i].len = e.w]
      mask(r) == IF cidr THEN <<[Bitwise(t.m, Zeros(e.w)) EXCEPT !.reg = r]>>
                 ELSE <<>>
      kept == IF cidr THEN <<[xs[i + 1] EXCEPT !.mask = t.m]>> ELSE <<>>
      rest(j) == <<[xs[j] EXCEPT !.op = op, !.data = ip]>>
                 \o SubSeq(xs, j + 1, Len(xs))
  IN CASE ~valid -> xs
       [] valid /\ i = 0 -> <<Net(e.off, e.w)>> \o mask(1) \o <<Cmp(op, ip)>> \o xs
       [] valid /\ i # 0 /\ IsCmp(xs, i + 1) ->
            head \o mask(xs[i].reg) \o rest(i + 1)
       [] valid /\ i # 0 /\ IsBitwise(xs, i + 1) /\ IsCmp(xs, i + 2) ->
            head \o kept \o rest(i + 2)
       [] OTHER -> head \o SubSeq(xs, i + 1, Len(xs))

(***************************************************************************)
(* Numbers of the IPv4 and IPv6 headers.                                   *)
(***************************************************************************)
IPPayloadUint(proto, field, off, w) ==
  PairCell(<<"payload", proto, field>>, "num", Net(off, w), w)
IPProtocol == IPPayloadUint("ip", "protocol", 9, 1)
IPTtl == IPPayloadUint("ip", "ttl", 8, 1)
IPLength == IPPayloadUint("ip", "length", 2, 2)
IPId == IPPayloadUint("ip", "id", 4, 2)
IPFragOff == IPPayloadUint("ip", "frag-off", 6, 2)
IPChecksum == IPPayloadUint("ip", "checksum", 10, 2)
IP6Nexthdr == IPPayloadUint("ip6", "nexthdr", 6, 1)
IP6Hoplimit == IPPayloadUint("ip6", "hoplimit", 7, 1)
IP6Length == IPPayloadUint("ip6", "length", 4, 2)

\* Only the header length is not shifted, and keeps the bits above its mask.
IPBitwise(proto, field, off, mask, by) ==
  [BitsCell(<<"payload", proto, field>>, Net(off, 1), <<mask>>, by)
     EXCEPT !.skip = TRUE, !.clip = IF by = 1 THEN <<255>> ELSE @]
IPVersion == IPBitwise("ip", "version", 0, 240, 16)
IPHdrlength == IPBitwise("ip", "hdrlength", 0, 15, 1)
IPDscp == IPBitwise("ip", "dscp", 1, 252, 4)
IP6Version == IPBitwise("ip6", "version", 0, 240, 16)

IP6Dscp ==
  [BitsCell(<<"payload", "ip6", "dscp">>, Net(0, 2), <<15, 192>>, 64)
     EXCEPT !.keep = 1]
IP6Flowlabel ==
  [BitsCell(<<"payload", "ip6", "flowlabel">>, Net(1, 3), <<15, 255, 255>>, 1)
     EXCEPT !.keep = 4]

(***************************************************************************)
(* Link layer.                                                             *)
(***************************************************************************)
EtherAddr(field, off) ==
  [OptCell(<<"payload", "ether", field>>, Frame(off, 6), 6)
     EXCEPT !.t = "mac", !.ops = EqOps, !.raw = Blank, !.zero = TRUE]
EtherSaddr == EtherAddr("saddr", 6)
EtherDaddr == EtherAddr("daddr", 0)
EtherType ==
  [OptCell(<<"payload", "ether", "type">>, Frame(12, 2), 2)
     EXCEPT !.raw = Blank, !.zero = TRUE, !.top = 2,
            !.names = {<<8, 0>>, <<8, 6>>, <<129, 0>>, <<134, 221>>,
                       <<136, 71>>, <<136, 168>>, <<136, 204>>}]

EtherIs(d) == <<Frame(12, 2), Cmp("==", d)>>
VlanCell(field, w, mask, by) ==
  [OptCell(<<"payload", "vlan", field>>, Frame(14, w), w)
     EXCEPT !.mask = mask, !.by = by, !.exact = TRUE, !.dep = EtherIs(<<129, 0>>)]
VlanId == VlanCell("id", 2, <<15, 255>>, 1)
VlanCfi == VlanCell("cfi", 1, <<16>>, 16)
VlanPcp == VlanCell("pcp", 1, <<224>>, 32)

ArpCell(field, off, w) ==
  [OptCell(<<"payload", "arp", field>>, Net(off, w), w)
     EXCEPT !.dep = EtherIs(ETHERTYPE_ARP), !.zero = field = "operation"]
ArpHtype == ArpCell("htype", 0, 2)
ArpPtype == ArpCell("ptype", 2, 2)
ArpHlen == ArpCell("hlen", 4, 1)
ArpPlen == ArpCell("plen", 5, 1)
ArpOperation ==
  [ArpCell("operation", 6, 2)
     EXCEPT !.names = {<<n>> : n \in 1..4 \cup 8..10}]

(***************************************************************************)
(* IPv6 extension headers.                                                 *)
(***************************************************************************)
ExthdrCell(type, field, off, w) ==
  OptCell(<<"exthdr", type, field>>, Exthdr("ipv6", type, off, w, FALSE), w)
ExthdrFields ==
  <<ExthdrCell(FRAG, "nexthdr", 0, 1), ExthdrCell(FRAG, "reserved", 1, 1),
    ExthdrCell(FRAG, "frag-off", 2, 2), ExthdrCell(FRAG, "more-fragments", 3, 1),
    ExthdrCell(FRAG, "id", 4, 4),
    ExthdrCell(HBH, "nexthdr", 0, 1), ExthdrCell(HBH, "hdrlength", 1, 1),
    ExthdrCell(DST, "nexthdr", 0, 1), ExthdrCell(DST, "hdrlength", 1, 1),
    ExthdrCell(MH, "nexthdr", 0, 1), ExthdrCell(MH, "hdrlength", 1, 1),
    ExthdrCell(MH, "type", 2, 1), ExthdrCell(MH, "reserved", 3, 1),
    ExthdrCell(MH, "checksum", 4, 2),
    ExthdrCell(RT, "nexthdr", 0, 1), ExthdrCell(RT, "hdrlength", 1, 1),
    ExthdrCell(RT, "type", 2, 1), ExthdrCell(RT, "seg-left", 3, 1)>>
=============================================================================
