------------------------------ MODULE RuleFields ------------------------------
(***************************************************************************)
(* The editors of the rule editor, tab by tab, behind the interface they   *)
(* share (FieldEditor): how one opens on a rule, whether it was changed,   *)
(* why it refuses to be saved and what it writes into the rule.            *)
(* A rule is its expressions xs, its position and its user data.           *)
(***************************************************************************)
EXTENDS FieldsGeneral, FieldsCt, FieldsNet, FieldsTransport

RuleOf(xs) == [xs |-> xs, position |-> <<>>, userdata |-> NoUserData]

(***************************************************************************)
(* The tabs.                                                               *)
(***************************************************************************)
GeneralTab(fam) ==
  <<Position, Comment, VerdictField, RejectField(fam), LogField, CounterField,
    MasqueradeField, NATField("snat", fam), NATField("dnat", fam), QueueField,
    QuotaField>>
CtTab ==
  <<CtL3Proto, CtProtocol, CtProtoSrc, CtProtoDst, CtState, CtDirection,
    CtStatus, CtLabels, CtEventmask, CtMark, CtSecmark, CtExpiration, CtHelper,
    CtZone, CtBytes, CtPkts, CtAvgpkt, CtCount>>
NetworkTab ==
  <<IPSaddr, IPDaddr, MetaIifname, MetaOifname, MetaIifIn, MetaOif, EtherSaddr,
    EtherDaddr, EtherType, VlanId, VlanCfi, VlanPcp, ArpHtype, ArpPtype,
    ArpHlen, ArpPlen, ArpOperation>>
IpTab ==
  <<IPProtocol, IPTtl, IPLength, IPDscp, IPVersion, IPHdrlength, IPId,
    IPFragOff, IPChecksum, IP6Saddr, IP6Daddr, IP6Length, IP6Nexthdr,
    IP6Hoplimit, IP6Version, IP6Dscp, IP6Flowlabel>> \o ExthdrFields
TransportTab ==
  <<TcpSport, TcpDport, TcpFlags, TcpSequence, TcpAckseq, TcpWindow,
    TcpChecksum, TcpUrgptr, TcpDoff, UdpLength, UdpChecksum, IcmpType,
    IcmpCode, IcmpChecksum, IcmpId, IcmpSequence, IcmpMtu, IcmpGateway,
    Icmpv6Type, Icmpv6Code, Icmpv6Checksum, Icmpv6Id, Icmpv6Sequence,
    Icmpv6Mtu, Icmpv6MaxDelay, SctpSport, SctpDport, SctpVtag, SctpChecksum,
    SctpChunk, DccpSport, DccpDport, DccpType, AhHdrlength, AhReserved, AhSpi,
    AhSequence, EspSpi, EspSequence, CompNexthdr, CompFlags, CompCpi>>
MetaTab ==
  <<MetaIiftype, MetaOiftype, MetaNfproto, MetaL4proto, MetaProtocol,
    MetaLength, MetaMark, MetaPriority, MetaRtclassid, MetaSkuid, MetaSkgid,
    MetaCgroup, MetaCpu, MetaIifgroup, MetaOifgroup, MetaPkttype>>
LimitTab == <<LimitOver, LimitRate, LimitUnit, LimitBurst, LimitType>>
Tabs(fam) ==
  <<GeneralTab(fam), CtTab, NetworkTab, IpTab, TransportTab, MetaTab, LimitTab>>
AllFields(fam) ==
  GeneralTab(fam) \o CtTab \o NetworkTab \o IpTab \o TransportTab \o MetaTab
  \o LimitTab
\* The places of the editors of tab k among all of them.
TabPlaces(fam, k) ==
  LET before == Len(FlattenSeq(SubSeq(Tabs(fam), 1, k - 1)))
  IN before + 1 .. before + Len(Tabs(fam)[k])

(***************************************************************************)
(* FieldEditor, as every family of editors implements it.                  *)
(***************************************************************************)
\* What the editor finds in the rule.
Original(e, rd, r) ==
  CASE e.fam = "position" -> r.position
    [] e.fam = "comment" -> ExtractComment(r.userdata)
    [] e.fam = "verdict" -> VerdictOpen(rd)
    [] e.fam = "reject" -> RejectOpen(e, rd)
    [] e.fam = "log" -> LogOpen(rd)
    [] e.fam = "counter" -> CounterOpen(rd)
    [] e.fam = "masq" -> MasqOpen(rd)
    [] e.fam = "nat" -> NatOpen(e, rd)
    [] e.fam = "queue" -> QueueOpen(rd)
    [] e.fam = "quota" -> QuotaOpen(rd)
    [] e.fam = "limit" -> LimitOpen(e, rd)
    [] e.fam = "ctflags" -> CtFlagsOpen(e, rd)
    [] e.fam = "ctnumber" -> CtNumberOpen(e, rd)
    [] e.fam = "ctname" -> CtNameOpen(e, rd)
    [] e.fam = "cthelper" -> CtHelperOpen(rd)
    [] e.fam = "ctdirection" -> CtDirectionOpen(rd)
    [] e.fam = "ctlabels" -> CtLabelsOpen(rd)
    [] e.fam = "ctexpiration" -> CtExpirationOpen(rd)
    [] e.fam = "ctcount" -> CtCountOpen(rd)
    [] e.fam = "addr" -> AddrOpen(e, rd)
    [] e.fam = "pair" -> PairOpen(e, rd)
    [] e.fam = "bits" -> BitsOpen(e, rd)
    [] e.fam = "opt" -> OptOpen(e, rd)
    [] e.fam = "set" -> SetOpen(e, rd)
    [] e.fam = "sctpchunk" -> SctpChunkOpen(rd)

\* What its widgets show of that.
Inputs(e, was) ==
  CASE e.fam = "reject" -> RejectInputs(e, was)
    [] e.fam = "counter" -> CounterInputs(was)
    [] e.fam = "nat" -> NatInputs(was)
    [] e.fam = "quota" -> QuotaInputs(was)
    [] e.fam = "limit" -> LimitInputs(e, was)
    [] e.fam = "ctnumber" -> CtNumberInputs(e, was)
    [] e.fam = "ctname" -> CtNameInputs(e, was)
    [] e.fam = "ctdirection" -> CtDirectionInputs(was)
    [] e.fam = "ctcount" -> CtCountInputs(was)
    [] e.fam = "addr" -> AddrInputs(was)
    [] e.fam = "pair" -> PairInputs(e, was)
    [] e.fam = "bits" -> BitsInputs(was)
    [] e.fam = "opt" -> OptInputs(e, was)
    [] e.fam = "sctpchunk" -> SctpChunkInputs(was)
    [] OTHER -> was

\* The widgets read as a value of the rule.
Canon(e, now) ==
  CASE e.fam = "position" -> GetUint64(now)
    [] e.fam = "counter" -> CounterCanon(now)
    [] e.fam = "nat" -> NatCanon(now)
    [] e.fam = "quota" -> QuotaCanon(now)
    [] e.fam = "ctnumber" -> CtNumberCanon(e, now)
    [] e.fam = "ctcount" -> CtCountCanon(now)
    [] e.fam = "pair" -> PairCanon(e, now)
    [] e.fam = "bits" -> BitsCanon(now)
    [] e.fam = "opt" -> OptCanon(e, now)
    [] OTHER -> now

Changed(e, now, was) ==
  CASE e.fam = "verdict" -> VerdictChanged(now, was)
    [] e.fam = "reject" -> RejectChanged(now, was)
    [] e.fam = "log" -> LogChanged(now, was)
    [] e.fam = "sctpchunk" -> SctpChunkChanged(now, was)
    [] OTHER -> Canon(e, now) # was

\* What the editor compares with after a save.
Was(e, now, was, xs) ==
  CASE e.fam = "verdict" -> VerdictWas(now)
    [] e.fam = "masq" -> MasqWas(now)
    [] e.fam = "nat" -> NatWas(now)
    [] e.fam = "queue" -> QueueWas(now)
    [] e.fam = "quota" -> QuotaWas(now)
    [] e.fam = "limit" -> LimitWas(e, now)
    [] e.fam = "pair" -> PairWas(e, now, was, xs)
    [] e.fam = "bits" -> BitsWas(e, now, was, xs)
    [] e.fam = "sctpchunk" -> SctpChunkWas(now)
    [] OTHER -> Canon(e, now)

\* ValidateForSave.
Refuses(e, now, was) ==
  CASE e.fam = "verdict" -> VerdictError(now, was)
    [] e.fam = "log" -> LogError(now, was)
    [] e.fam = "nat" -> NatError(e, now, was)
    [] e.fam = "queue" -> QueueError(now, was)
    [] e.fam = "quota" -> QuotaError(now, was)
    [] e.fam = "opt" /\ e.t = "mac" -> now.v = Invalid
    [] e.fam = "opt" /\ e = EtherType ->
         /\ Canon(e, now) # was /\ ~NameChosen(e, now)
         /\ now.v # Blank /\ Len(now.v) > 2
    [] e.fam = "pair" /\ e.t = "ifindex" -> now.v = Invalid
    [] OTHER -> FALSE

SaveXs(e, now, was, xs) ==
  CASE e.fam = "verdict" -> VerdictSave(now, xs)
    [] e.fam = "reject" -> RejectSave(now, xs)
    [] e.fam = "log" -> LogSave(now, xs)
    [] e.fam = "counter" -> CounterSave(CounterCanon(now), xs)
    [] e.fam = "masq" -> MasqSave(now, xs)
    [] e.fam = "nat" -> NatSave(e, now, xs)
    [] e.fam = "queue" -> QueueSave(now, xs)
    [] e.fam = "quota" -> QuotaSave(now, xs)
    [] e.fam = "limit" -> LimitSave(e, now, xs)
    [] e.fam = "ctflags" -> CtFlagsSave(e, now, xs)
    [] e.fam = "ctnumber" -> CtNumberSave(e, now, was, xs)
    [] e.fam = "ctname" -> CtNameSave(e, now, xs)
    [] e.fam = "cthelper" -> CtHelperSave(now, xs)
    [] e.fam = "ctdirection" -> CtDirectionSave(now, xs)
    [] e.fam = "ctlabels" -> CtLabelsSave(now, xs)
    [] e.fam = "ctexpiration" -> CtExpirationSave(now, xs)
    [] e.fam = "ctcount" -> CtCountSave(now, was, xs)
    [] e.fam = "addr" -> AddrSave(e, now, xs)
    [] e.fam = "pair" -> PairSave(e, now, xs)
    [] e.fam = "bits" -> BitsSave(e, now, xs)
    [] e.fam = "opt" -> OptSave(e, now, xs)
    [] e.fam = "set" -> SetSave(e, now, xs)
    [] e.fam = "sctpchunk" -> SctpChunkSave(now, xs)

SaveInto(e, now, was, r) ==
  CASE e.fam = "position" -> [r EXCEPT !.position = GetUint64(now)]
    [] e.fam = "comment" -> [r EXCEPT !.userdata = encodeCommentToUserData(now)]
    [] OTHER -> [r EXCEPT !.xs = SaveXs(e, now, was, @)]

\* Only a changed editor writes, the editor of the SCTP chunk always does.
Writes(e, f) == Changed(e, f.now, f.was) \/ e.fam = "sctpchunk"
FieldSave(e, f, r) ==
  IF Writes(e, f)
    THEN [rule |-> SaveInto(e, f.now, f.was, r),
          field |-> [f EXCEPT !.was = Was(e, f.now, f.was, r.xs)]]
    ELSE [rule |-> r, field |-> f]
=============================================================================
