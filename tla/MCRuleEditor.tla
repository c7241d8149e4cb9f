----------------------------- MODULE MCRuleEditor -----------------------------
(***************************************************************************)
(* Rules to open the rule editor on, grouped by what they match, and small *)
(* selections of editors.                                                  *)
(***************************************************************************)
EXTENDS RuleEditor

Accept == <<Verdict("accept", "")>>
Drop == <<Verdict("drop", "")>>
Eq(load, d) == <<load, Cmp("==", d)>>
Pad(d, w) == SubSeq(d \o Zeros(w), 1, w)
Eth0 == <<101, 116, 104, 48>>
LogExpr(prefix, level, group, flags, keys) ==
  [k |-> "log", prefix |-> prefix, group |-> group, qthresh |-> 0,
   snaplen |-> 0, level |-> level, flags |-> flags, keys |-> keys]
NatExpr(type, amin, amax, pmin, pmax) ==
  [k |-> "nat", type |-> type, flags |-> {}, amin |-> amin, amax |-> amax,
   pmin |-> pmin, pmax |-> pmax]
Dynset(set, op) == [k |-> "dynset", set |-> set, op |-> op, reg |-> 1]
Objref(name) == [k |-> "objref", name |-> name]
QueueExpr(num, total) ==
  [k |-> "queue", num |-> num, total |-> total, flags |-> {}]

StatementRules == <<
  Accept,
  <<Verdict("jump", "c1")>>,
  <<LogExpr("p1", "warn", 0, {"all"}, {"prefix", "level"})>> \o Accept,
  <<LogExpr("p1", "info", 0, {}, {"prefix", "level"})>> \o Accept,
  <<LogExpr("p1", "emerg", 5, {}, {"prefix", "group"})>> \o Accept,
  <<Counter(<<5>>, <<200>>)>> \o Accept,
  <<Counter(<<5>>, <<11, 58, 115, 206, 47>>)>> \o Accept,
  <<Counter(<<5>>, <<200>>), Counter(<<6>>, <<210>>)>> \o Accept,
  <<[k |-> "masq", flags |-> {"random"}, pmin |-> 0, pmax |-> 0]>>,
  <<Immediate(1, <<4, 0>>), Immediate(2, <<8, 0>>),
    [k |-> "masq", flags |-> {}, pmin |-> 1, pmax |-> 2]>>,
  <<Immediate(1, <<10, 0, 0, 5>>), Immediate(2, <<0, 80>>),
    NatExpr("dnat", 1, 0, 2, 0)>>,
  <<Immediate(1, <<10, 0, 0, 5>>), Immediate(2, <<10, 0, 0, 9>>),
    NatExpr("snat", 1, 2, 0, 0)>>,
  <<Lookup("m"), NatExpr("dnat", 1, 0, 0, 0)>>,
  <<QueueExpr(0, 1)>>, <<QueueExpr(5, 1)>>, <<QueueExpr(0, 4)>>,
  <<QueueExpr(3, 4)>>,
  <<[k |-> "quota", bytes |-> <<100, 0, 0>>, over |-> TRUE,
     consumed |-> <<9>>]>> \o Drop,
  <<Limit(<<5>>, "second", <<5>>, FALSE, "pkts")>> \o Accept,
  <<Limit(<<5>>, "second", <<5>>, FALSE, "pkts"),
    Limit(<<100>>, "hour", <<>>, TRUE, "pkts")>> \o Accept,
  <<[k |-> "reject", type |-> "icmpx", code |-> 1]>>,
  <<[k |-> "reject", type |-> "icmp", code |-> 13]>>,
  <<[k |-> "reject", type |-> "tcp reset", code |-> 0]>>,
  Eq(Meta("iifname"), Pad(Eth0, 16)) \o <<Dynset("s1", "add"), Objref("n1")>>
    \o Accept >>

CtRules == <<
  <<Ct("state", 0, FALSE), Bitwise(<<6, 0, 0, 0>>, Zeros(4)),
    Cmp("!=", Zeros(4))>> \o Accept,
  <<Ct("status", 0, FALSE), Bitwise(<<4, 0, 0, 0>>, Zeros(4)),
    Cmp("!=", Zeros(4))>> \o Accept,
  Eq(Ct("mark", 0, FALSE), <<1, 0, 0, 0>>) \o Accept,
  Eq(Meta("iifname"), Pad(Eth0, 16)) \o <<Immediate(1, <<1, 0, 0, 0>>),
                                          CtSet("mark")>>,
  Eq(Ct("zone", 0, FALSE), <<2, 0>>) \o Accept,
  <<Ct("bytes", 0, TRUE), Cmp(">", <<0, 4, 0, 0, 0, 0, 0, 0>>)>> \o Accept,
  <<Ct("pkts", 255, FALSE), Cmp("<", <<0, 0, 0, 1, 0, 0, 0, 0>>)>> \o Accept,
  Eq(Ct("helper", 0, FALSE), <<102, 116, 112, 0>>) \o Accept,
  Eq(Ct("direction", 0, FALSE), <<1>>) \o Accept,
  Eq(Ct("labels", 0, FALSE), Zeros(16)) \o Accept,
  <<Ct("labels", 0, FALSE), Bitwise(Pad(<<8>>, 16), Zeros(16)),
    Cmp("!=", Zeros(16))>> \o Accept,
  <<Ct("expiration", 0, FALSE), Cmp("<", <<0, 0, 234, 96>>)>> \o Accept,
  <<Ct("expiration", 0, FALSE), RangeExpr("==", <<0, 0, 39, 16>>,
                                          <<0, 0, 78, 32>>)>> \o Accept,
  Eq(Ct("l3proto", 0, FALSE), <<2>>) \o Eq(Ct("protocol", 0, FALSE), <<6>>)
    \o Eq(Ct("proto_dst", 0, TRUE), <<0, 22>>) \o Accept,
  Eq(Ct("protocol", 0, FALSE), <<136>>) \o Accept,
  <<Connlimit(<<10>>, TRUE)>> \o Drop >>

NetRules == <<
  Eq(Net(12, 4), <<10, 0, 0, 1>>) \o Drop,
  <<Net(12, 4), Cmp("!=", <<10, 0, 0, 1>>)>> \o Drop,
  Eq(Net(12, 1), <<10>>) \o Drop,
  <<Net(16, 4), Bitwise(<<255, 128, 0, 0>>, Zeros(4)),
    Cmp("==", <<10, 128, 0, 0>>)>> \o Drop,
  <<Net(12, 4), RangeExpr("==", <<10, 0, 0, 1>>, <<10, 0, 0, 9>>)>> \o Drop,
  <<Net(16, 4), Lookup("s1")>> \o Drop,
  Eq(Net(8, 16), <<32, 1>> \o Zeros(13) \o <<1>>) \o Drop,
  Eq(Meta("iifname"), Pad(Eth0, 16)) \o Accept,
  Eq(Meta("oifname"), <<101, 116, 104>>) \o Accept,
  Eq(Meta("iif"), <<0, 0, 0, 2>>) \o Accept,
  Eq(Frame(6, 6), <<2, 0, 0, 0, 0, 9>>) \o Accept,
  Eq(Frame(12, 2), <<8, 0>>) \o Accept,
  EtherIs(<<129, 0>>) \o <<Frame(14, 2), Bitwise(<<15, 255>>, Zeros(2)),
                           Cmp("==", <<0, 5>>)>> \o Accept,
  EtherIs(<<129, 0>>) \o <<Frame(14, 1), Bitwise(<<16>>, Zeros(1)),
                           Cmp("==", <<0>>)>> \o Accept,
  EtherIs(ETHERTYPE_ARP) \o Eq(Net(6, 2), <<0, 1>>) \o Accept,
  EtherIs(ETHERTYPE_ARP) \o Eq(Net(2, 2), <<8, 0>>) \o Accept >>

IpRules == <<
  Eq(Net(9, 1), <<6>>) \o Drop,
  <<Net(8, 1), Cmp("<", <<5>>)>> \o Drop,
  Eq(Net(4, 2), <<0, 7>>) \o Drop,
  <<Net(0, 1), Bitwise(<<15>>, <<0>>), Cmp("==", <<5>>)>> \o Drop,
  <<Net(1, 1), Bitwise(<<252>>, <<0>>), Cmp("==", <<40>>)>> \o Drop,
  Eq(Net(7, 1), <<64>>) \o Drop,
  <<Net(0, 2), Bitwise(<<15, 192>>, Zeros(2)), Cmp("==", <<2, 128>>)>> \o Drop,
  <<Net(1, 3), Bitwise(<<15, 255, 255>>, Zeros(3)), Cmp("==", <<0, 0, 9>>)>>
    \o Drop,
  Eq(Exthdr("ipv6", FRAG, 3, 1, FALSE), <<0>>) \o Drop,
  <<Exthdr("ipv6", HBH, 0, 1, FALSE), Cmp("!=", <<6>>)>> \o Drop,
  Eq(Exthdr("ipv6", MH, 2, 1, FALSE), <<1>>) \o Drop >>

TransportRules == <<
  L4(TCP) \o Eq(Tp(2, 2), <<0, 22>>) \o Accept,
  L4(TCP) \o <<Tp(0, 2), Cmp(">", <<4, 0>>)>> \o Accept,
  L4(TCP) \o Eq(Tp(13, 1), <<2>>) \o Accept,
  L4(TCP) \o <<Tp(13, 1), Bitwise(<<2>>, <<0>>), Cmp("!=", <<0>>)>> \o Accept,
  L4(TCP) \o <<Tp(12, 1), Bitwise(<<240>>, <<0>>), Cmp("==", <<80>>)>> \o Accept,
  L4(UDP) \o Eq(Tp(4, 2), <<0, 9>>) \o Accept,
  L4(UDPLITE) \o Eq(Tp(4, 2), <<0, 9>>) \o Accept,
  L4(ICMP) \o Eq(Tp(0, 1), <<8>>) \o Accept,
  L4(ICMP) \o Eq(Tp(4, 2), <<0, 7>>) \o Accept,
  L4(ICMPV6) \o Eq(Tp(0, 1), <<128>>) \o Accept,
  L4(ICMPV6) \o Eq(Tp(4, 4), <<0, 0, 5, 220>>) \o Accept,
  L4(SCTP) \o Eq(Tp(2, 2), <<0, 22>>) \o Accept,
  Eq(Exthdr("sctp", 0, 0, 1, TRUE), <<1>>) \o Accept,
  Eq(Exthdr("sctp", 7, 4, 4, FALSE), <<0, 0, 0, 5>>) \o Accept,
  L4(DCCP) \o <<Tp(8, 1), Bitwise(<<30>>, <<0>>), Cmp("==", <<4>>)>> \o Accept,
  L4(AH) \o Eq(Tp(4, 4), <<0, 0, 0, 9>>) \o Accept,
  L4(COMP) \o Eq(Tp(0, 1), <<0>>) \o Accept >>

MetaRules == <<
  Eq(Meta("mark"), <<0, 0, 0, 5>>) \o Accept,
  Eq(Meta("skuid"), Zeros(4)) \o Accept,
  <<Meta("priority"), Cmp("!=", <<0, 0, 0, 1>>)>> \o Accept,
  L4(2) \o Accept,
  Eq(Meta("nfproto"), <<2>>) \o Accept,
  <<Meta("nfproto"), Cmp("<", <<10>>)>> \o Accept,
  Eq(Meta("iiftype"), <<3, 9>>) \o Accept,
  Eq(Meta("pkttype"), <<0>>) \o Accept >>

\* Rules with the editors of some tabs, all of them open to change or none, for
\* one change and one save.
Opens(rules, tabs, open) ==
  LET all == AllFields("inet")
      places == {i \in DOMAIN all : \E k \in tabs : i \in TabPlaces("inet", k)}
      alike == {i \in places : all[i] \in ToSet(Tail(ExthdrFields))}
  IN [i \in DOMAIN rules |->
        [rule |-> RuleOf(rules[i]), shown |-> places, touches |-> 1, saves |-> 1,
         touch |-> IF open THEN places \ alike ELSE {}]]
\* Editors that get in each other's way, for two saves of two changes each.
Mixed == <<
  [rule |-> RuleOf(L4(TCP) \o Eq(Tp(2, 2), <<0, 22>>) \o Accept),
   editors |-> {TcpDport, UdpChecksum}],
  [rule |-> RuleOf(EtherIs(ETHERTYPE_ARP) \o <<Counter(<<5>>, <<200>>)>> \o Accept),
   editors |-> {ArpHtype, EtherType, VerdictField}],
  [rule |-> RuleOf(Eq(Ct("zone", 0, FALSE), <<2, 0>>) \o Accept),
   editors |-> {CtZone, Comment}],
  [rule |-> RuleOf(<<Limit(<<5>>, "second", <<5>>, FALSE, "pkts")>> \o Drop),
   editors |-> {LimitRate, LimitUnit}] >>
MixedScenes ==
  LET all == AllFields("inet")
      of(es) == {i \in DOMAIN all : all[i] \in es}
  IN [s \in DOMAIN Mixed |->
        [rule |-> Mixed[s].rule, shown |-> of(Mixed[s].editors), touches |-> 2,
         saves |-> 2, touch |-> of(Mixed[s].editors)]]
\* Each rule with the editors of the tab that shows it, and untouched with all.
MCScenes ==
  Opens(StatementRules, {1, 7}, TRUE) \o Opens(CtRules, {2}, TRUE)
  \o Opens(NetRules, {3}, TRUE) \o Opens(IpRules, {4}, TRUE)
  \o Opens(TransportRules, {5}, TRUE) \o Opens(MetaRules, {6}, TRUE)
  \o Opens(StatementRules \o CtRules \o NetRules \o IpRules \o TransportRules
           \o MetaRules, 1..7, FALSE)
  \o MixedScenes
MCNumbers == {<<>>, <<5>>, <<3, 231>>}
=============================================================================
