---------------------------- MODULE FieldsTransport ---------------------------
(***************************************************************************)
(* The Transport and Meta tabs of the rule editor.                         *)
(***************************************************************************)
EXTENDS FieldCells

Tp(off, len) == Payload("transport", off, len)
L4(p) == <<Meta("l4proto"), Cmp("==", <<p>>)>>

(***************************************************************************)
(* TCP and UDP: these never ask for the protocol to be matched.            *)
(***************************************************************************)
TransportUint(proto, field, off, w) ==
  PairCell(<<"payload", proto, field>>,
           IF field \in {"sport", "dport"} THEN "port" ELSE "num",
           Tp(off, w), w)
TcpSport == TransportUint("tcp", "sport", 0, 2)
TcpDport == TransportUint("tcp", "dport", 2, 2)
TcpSequence == TransportUint("tcp", "sequence", 4, 4)
TcpAckseq == TransportUint("tcp", "ackseq", 8, 4)
TcpWindow == TransportUint("tcp", "window", 14, 2)
TcpChecksum == TransportUint("tcp", "checksum", 16, 2)
TcpUrgptr == TransportUint("tcp", "urgptr", 18, 2)
UdpChecksum == TransportUint("udp", "checksum", 6, 2)

\* The same cell under UDP-Lite is the checksum coverage; which one is
\* decided when the editor opens.
ruleIsUdplite(rd) ==
  \E i \in DOMAIN rd.conds :
    /\ rd.conds[i].c = "meta" /\ rd.conds[i].proto = "l4proto"
    /\ rd.conds[i].v = NumVal(<<UDPLITE>>)
UdpLength == [fam |-> "udplength"]
UdpLengthOf(udplite) ==
  IF udplite THEN TransportUint("udplite", "csumcov", 4, 2)
  ELSE TransportUint("udp", "length", 4, 2)

TcpFlagBits == [fin |-> 0, syn |-> 1, rst |-> 2, psh |-> 3, ack |-> 4,
                urg |-> 5, ecn |-> 6, cwr |-> 7]
TcpFlags == SetCell(<<"payload", "tcp", "flags">>, Tp(13, 1), TcpFlagBits)
TcpDoff == BitsCell(<<"payload", "tcp", "doff">>, Tp(12, 1), <<240>>, 16)

(***************************************************************************)
(* The protocols whose match is put at the head of the rule.               *)
(***************************************************************************)
L4Cell(l4, field, off, w) ==
  [OptCell(<<"payload", L4Name(l4), field>>, Tp(off, w), w)
     EXCEPT !.t = IF field \in {"sport", "dport"} THEN "port" ELSE @,
            !.dep = L4(l4)]

\* Types and codes are one byte: a larger number reads as not set.
IcmpByte(l4, field, off) ==
  [L4Cell(l4, field, off, 1) EXCEPT !.raw = Blank, !.zero = TRUE, !.top = 1]
Codes(S) == {IF n = 0 THEN <<>> ELSE <<n>> : n \in S}
IcmpType ==
  [IcmpByte(ICMP, "type", 0) EXCEPT !.names = Codes({0, 3, 4, 5} \cup 8..18)]
IcmpCode == IcmpByte(ICMP, "code", 1)
Icmpv6Type ==
  [IcmpByte(ICMPV6, "type", 0)
     EXCEPT !.names = Codes(1..4 \cup 128..137 \cup 141..143)]
Icmpv6Code == IcmpByte(ICMPV6, "code", 1)
IcmpHeader(field, off, w) == L4Cell(ICMP, field, off, w)
IcmpChecksum == IcmpHeader("checksum", 2, 2)
IcmpId == IcmpHeader("id", 4, 2)
IcmpSequence == IcmpHeader("sequence", 6, 2)
IcmpMtu == IcmpHeader("sequence", 6, 2)
IcmpGateway == IcmpHeader("gateway", 4, 4)
Icmpv6Header(field, off, w) == L4Cell(ICMPV6, field, off, w)
Icmpv6Checksum == Icmpv6Header("checksum", 2, 2)
Icmpv6Id == Icmpv6Header("id", 4, 2)
Icmpv6Sequence == Icmpv6Header("sequence", 6, 2)
Icmpv6Mtu == Icmpv6Header("mtu", 4, 4)
Icmpv6MaxDelay == Icmpv6Header("id", 4, 2)

SctpCell(field, off, w) == L4Cell(SCTP, field, off, w)
SctpSport == SctpCell("sport", 0, 2)
SctpDport == SctpCell("dport", 2, 2)
SctpVtag == SctpCell("vtag", 4, 4)
SctpChecksum == SctpCell("checksum", 8, 4)

DccpPort(field, off) == L4Cell(DCCP, field, off, 2)
DccpSport == DccpPort("sport", 0)
DccpDport == DccpPort("dport", 2)
DccpType ==
  [IcmpByte(DCCP, "type", 8)
     EXCEPT !.mask = <<30>>, !.by = 2, !.names = Codes(0..9)]

AhCell(field, off, w) == L4Cell(AH, field, off, w)
AhHdrlength == AhCell("hdrlength", 1, 1)
AhReserved == AhCell("reserved", 2, 2)
AhSpi == AhCell("spi", 4, 4)
AhSequence == AhCell("sequence", 8, 4)
EspCell(field, off) == L4Cell(ESP, field, off, 4)
EspSpi == EspCell("spi", 0)
EspSequence == EspCell("sequence", 4)
CompCell(field, off, w) == L4Cell(COMP, field, off, w)
CompNexthdr == CompCell("nexthdr", 0, 1)
CompFlags == CompCell("flags", 1, 1)
CompCpi == CompCell("cpi", 2, 2)

(***************************************************************************)
(* SCTP chunk: a chunk type (op), one of its fields (dir) and a value.     *)
(* Every save rewrites the match at the end of the rule.                   *)
(***************************************************************************)
SctpChunk == [fam |-> "sctpchunk"]
NoChunk == -1
ChunkFields(chunk) == {r[2] : r \in ChunkCells(chunk)}

SctpChunkOpen(rd) ==
  LET cs == SelectSeq(rd.conds, LAMBDA c: c.c = "chunk")
  IN IF cs = <<>> THEN Shown(NoChunk, <<>>, "")
     ELSE Shown(cs[1].proto, IF cs[1].v.t = "num" THEN cs[1].v.b ELSE <<>>,
                cs[1].field)
SctpChunkInputs(was) ==
  Shown(IF was.op \in ChunkTypes THEN was.op ELSE NoChunk,
        IF was.dir = "" THEN Blank ELSE was.v,
        IF was.dir \in ChunkFields(was.op) THEN was.dir ELSE "off")
SctpChunkChanged(now, was) ==
  CASE now.op = NoChunk \/ was.op # now.op -> was.op # now.op
    [] was.op = now.op /\ now.op # NoChunk /\ now.dir = "off" -> was.dir # ""
    [] OTHER -> now.dir # was.dir \/ (now.v # Invalid /\ GetUint64(now.v) # was.v)

stripSctpChunkExprs(xs) ==
  LET chunk(i) == Is(xs[i], "exthdr") /\ xs[i].xop = "sctp"
      gone(i) == \/ chunk(i)
                 \/ i > 1 /\ chunk(i - 1) /\ IsCmp(xs, i) /\ xs[i].reg = xs[i - 1].reg
      kept == SelectSeq([i \in DOMAIN xs |-> i], LAMBDA i: ~gone(i))
  IN [j \in DOMAIN kept |-> xs[kept[j]]]
\* A field without a number would be a bare match, but the empty input counts
\* as zero.
SctpChunkSave(now, xs) ==
  LET bare == Exthdr("sctp", now.op, 0, 1, TRUE)
      cell == (CHOOSE r \in ChunkCells(now.op) : r[2] = now.dir)[1]
      match ==
        CASE now.op = NoChunk -> <<>>
          [] now.op # NoChunk /\ (now.dir = "off" \/ now.v = Invalid) ->
               <<bare, Cmp("==", <<1>>)>>
          [] OTHER -> <<Exthdr("sctp", now.op, cell[1], cell[2], FALSE),
                        Cmp("==", BE(GetUint64(now.v), cell[2]))>>
  IN stripSctpChunkExprs(xs) \o match
SctpChunkWas(now) ==
  IF now.op = NoChunk \/ now.dir = "off" \/ now.v = Invalid
    THEN Shown(now.op, <<>>, "") ELSE Shown(now.op, GetUint64(now.v), now.dir)

(***************************************************************************)
(* Meta.  Every number is written most significant byte first.             *)
(***************************************************************************)
MetaSel(key) == <<"meta", key, "">>
MetaUint(key, w) == PairCell(MetaSel(key), "num", Meta(key), w)
MetaLength == MetaUint("length", 2)
MetaProtocol == MetaUint("protocol", 2)
MetaMark == MetaUint("mark", 4)
MetaPriority == MetaUint("priority", 4)
MetaSkuid == MetaUint("skuid", 4)
MetaSkgid == MetaUint("skgid", 4)
MetaCgroup == MetaUint("cgroup", 4)
MetaCpu == MetaUint("cpu", 4)
MetaIifgroup == MetaUint("iifgroup", 4)
MetaOifgroup == MetaUint("oifgroup", 4)
MetaRtclassid == MetaUint("rtclassid", 4)

\* A value that is not offered leaves the empty option selected.
MetaSelect(key, codes) ==
  [PairCell(MetaSel(key), "num", Meta(key), 1)
     EXCEPT !.none = Blank, !.ops = EqOps, !.codes = codes]
MetaNfproto == MetaSelect("nfproto", <<<<2>>, <<10>>>>)
MetaPkttype == MetaSelect("pkttype", <<<<>>, <<1>>, <<2>>, <<3>>>>)
MetaL4proto == MetaSelect("l4proto", <<<<TCP>>, <<UDP>>, <<ICMP>>, <<ICMPV6>>,
  <<UDPLITE>>, <<SCTP>>, <<DCCP>>, <<ESP>>, <<AH>>, <<47>>>>)
MetaIftype(key) ==
  [MetaSelect(key, <<<<1>>, <<3, 4>>, <<2, 0>>, <<3, 10>>, <<3, 8>>, <<3, 36>>>>)
     EXCEPT !.w = 2]
MetaIiftype == MetaIftype("iiftype")
MetaOiftype == MetaIftype("oiftype")

\* The text of an interface stands for its index.
MetaIif(key) ==
  [PairCell(MetaSel(key), "ifindex", Meta(key), 4)
     EXCEPT !.none = Blank, !.ops = EqOps]
MetaIifIn == MetaIif("iif")
MetaOif == MetaIif("oif")
MetaIifname ==
  [PairCell(MetaSel("iifname"), "str", Meta("iifname"), 16)
     EXCEPT !.none = Blank, !.ops = EqOps, !.pad = TRUE]
MetaOifname ==
  [PairCell(MetaSel("oifname"), "str", Meta("oifname"), 16)
     EXCEPT !.none = Blank, !.ops = EqOps, !.pad = TRUE]
=============================================================================
