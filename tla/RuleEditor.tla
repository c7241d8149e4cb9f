------------------------------ MODULE RuleEditor ------------------------------
(***************************************************************************)
(* The rule editor at work.  It opens on a rule of the list, the user      *)
(* changes widgets, and the save key lets every editor write into the rule *)
(* (the same object the list and the commands in flight hold) and starts a *)
(* command that reads the rule and sends it to the kernel.                 *)
(***************************************************************************)
EXTENDS RuleFields

CONSTANTS
  Family,        \* the family of the table
  Scenes,        \* what is opened: a rule, the places of the editors that are
                 \* kept and of those the user changes, and the bounds: widgets
                 \* changed before each save (touches), presses of the save
                 \* key (saves)
  Numbers        \* the numbers typed into number inputs

ASSUME ScenesAssumption ==
  \A s \in DOMAIN Scenes :
    /\ Scenes[s].shown \subseteq DOMAIN AllFields(Family)
    /\ Scenes[s].touch \subseteq Scenes[s].shown
    /\ Scenes[s].touches \in Nat /\ Scenes[s].saves \in Nat

VARIABLES
  scene,    \* the scene that was opened
  udplite,  \* the rule that was opened matches UDP-Lite
  rule,     \* r.rule: shared with the list and with the commands
  fields,   \* per editor: its widgets and its original
  errStr,   \* a validation error is shown
  touched,  \* the editors whose widgets were changed since the last save
  typed,    \* the editors whose widgets were ever changed
  saves,    \* presses of the save key that passed the validation
  left,     \* history: the rules the presses of the save key left in r.rule
  jobs,     \* the commands in flight; a command that has read holds its rule
  kernel,   \* the rule as the kernel has it
  refused,  \* the kernel refused the last command that reached it
  overlap   \* a save ran while the command of another was in flight

sheet == <<scene, udplite>>
vars == <<sheet, rule, fields, errStr, touched, typed, saves, left, jobs,
          kernel, refused, overlap>>

(***************************************************************************)
(* The editors.                                                            *)
(***************************************************************************)
Decoded(r) == NftablesToRuleDefinition(r.xs, Family)
Found(e, was) == [now |-> Inputs(e, was), was |-> was]
OpenedAs(e, rd, r) == Found(e, Original(e, rd, r))

opened == scene.rule
Places == scene.shown
MaxTouches == scene.touches
MaxSaves == scene.saves
AllEditors == AllFields(Family)
\* What the cell of the UDP length stands for is decided when the editor opens.
Editor(i) ==
  IF AllEditors[i].fam = "udplength" THEN UdpLengthOf(udplite)
  ELSE AllEditors[i]
Panicked == rule.xs = Panic

Init ==
  /\ scene \in ToSet(Scenes)
  /\ rule = scene.rule
  /\ \E rd \in {Decoded(rule)} :
       /\ udplite = ruleIsUdplite(rd)
       /\ fields = [i \in Places |-> OpenedAs(Editor(i), rd, rule)]
  /\ errStr = FALSE
  /\ touched = {}
  /\ typed = {}
  /\ saves = 0
  /\ left = {rule}
  /\ jobs = {}
  /\ kernel = rule
  /\ refused = FALSE
  /\ overlap = FALSE

(***************************************************************************)
(* The widgets.  One step is what the user can do to one widget.           *)
(***************************************************************************)
Texts == {Blank} \cup Numbers
Toggle(S, bits) == {S \ {x} : x \in S} \cup {S \cup {x} : x \in bits}
OpsOf(e) ==
  CASE e.fam \in {"pair", "ctnumber", "opt"} -> ToSet(e.ops)
    [] e.fam \in {"ctname", "addr"} -> ToSet(EqOps)
    [] OTHER -> ToSet(AllOps)
ValuesOf(e) ==
  CASE e.fam = "pair" /\ e.codes # <<>> -> {Blank} \cup ToSet(e.codes)
    [] e.fam = "pair" /\ e.t = "ifindex" -> {Blank, <<7>>, Invalid}
    [] e.fam = "pair" /\ e.t = "str" -> {Blank, <<101, 116, 104, 49>>}
    [] e.fam = "opt" /\ e.t = "mac" -> {Blank, <<2, 0, 0, 0, 0, 1>>, Invalid}
    [] e = EtherType -> Texts \cup {<<1, 0, 0>>}
    [] e = DccpType -> {Blank, <<5>>, <<12>>, <<20>>}
    [] e.fam = "ctname" -> ToSet(CtNames(e))
    [] e.fam = "addr" ->
         {NoAddr, Addr(<<10, 0, 0, 9>>, <<>>),
          Addr(<<10, 9, 0, 0>>, <<255, 255, 0, 0>>),
          Addr(<<32, 1>> \o Zeros(13) \o <<7>>, <<>>)}
    [] OTHER -> Texts
NatAddrs == {<<>>, <<10, 0, 0, 1>>, <<32, 1>> \o Zeros(13) \o <<1>>}

Edits(e, f) ==
  LET now == f.now
      \* the values of one component of the widgets
      Set(c, S) == {[now EXCEPT ![c] = x] : x \in S}
  IN CASE e.fam = "position" -> Texts
       [] e.fam = "comment" -> {0, 3, 254, 255, 256}
       [] e.fam = "verdict" ->
            IF f.was = NoVerdict THEN {}
            ELSE Set("kind", {"accept", "drop", "return", "jump", "goto"})
                 \cup IF now.kind \in Jumps THEN Set("chain", {"", "c2"}) ELSE {}
       [] e.fam = "reject" ->
            IF f.was = NoReject THEN {}
            ELSE {RejectState(t, rebuildCodeSelect(t, f.was)) :
                    t \in ToSet(rejectTypeOptionsForFamily(e.family)) \ {now.type}}
                 \cup Set("code", ToSet(RejectCodes(now.type)))
       [] e.fam = "log" ->
            IF f.was = NoLog THEN {}
            ELSE Set("prefix", {"", "p2"}) \cup Set("level", LogLevels)
                 \cup Set("group", {0, 2}) \cup Set("snaplen", {0, 64})
                 \cup Set("qthresh", {0, 10})
       [] e.fam = "counter" ->
            IF f.was = NoCounter THEN {}
            ELSE Set("packets", Texts) \cup Set("bytes", Texts)
       [] e.fam = "masq" ->
            Set("on", BOOLEAN) \cup Set("flags", Toggle(now.flags, MasqFlags))
       [] e.fam = "nat" ->
            Set("on", BOOLEAN) \cup Set("flags", Toggle(now.flags, MasqFlags))
            \cup Set("addr", NatAddrs) \cup Set("port", Texts)
       [] e.fam = "queue" ->
            Set("on", BOOLEAN) \cup Set("num", {0, 3, 65537})
            \cup Set("to", {0, 6, 65535})
            \cup Set("flags", Toggle(now.flags, {"bypass", "fanout"}))
       [] e.fam = "quota" ->
            Set("on", BOOLEAN) \cup Set("amount", Texts) \cup Set("over", BOOLEAN)
            \cup Set("unit", {"bytes", "kbytes", "mbytes"})
       [] e.fam = "limit" ->
            CASE e.attr = "over" -> BOOLEAN
              [] e.attr = "unit" -> {"second", "minute", "hour", "day", "week"}
              [] e.attr = "type" -> {"pkts", "pktbytes"}
              [] OTHER -> Texts
       [] e.fam = "ctflags" -> Set("v", Toggle(now.v, DOMAIN e.bits))
       [] e.fam = "set" -> Set("v", Toggle(now.v, DOMAIN e.bits))
       [] e.fam = "ctlabels" -> Set("v", Toggle(now.v, {3, 127}))
       [] e.fam = "cthelper" -> Set("v", {<<>>, <<102, 116, 112>>})
       [] e.fam = "ctdirection" -> Set("v", {"original", "reply"})
       [] e.fam = "ctexpiration" ->
            Set("v", {NoText, Duration("==", "one", <<<<60>>>>),
                      Duration("<", "one", <<<<60>>>>),
                      Duration("==", "range", <<<<10>>, <<20>>>>),
                      Duration("==", "set", <<<<10>>, <<20>>>>)})
       [] e.fam = "ctcount" -> Set("v", Texts) \cup Set("op", {"", "over"})
       [] e.fam = "sctpchunk" ->
            {Shown(n, Blank, "off") : n \in {NoChunk, 0, 7, 10}}
            \cup IF now.op \in ChunkTypes
                   THEN Set("dir", {"off"} \cup ChunkFields(now.op))
                        \cup IF now.dir = "off" THEN {}
                             ELSE Set("v", Texts \cup {Invalid})
                   ELSE {}
       [] e.fam = "ctnumber" /\ e.dirs ->
            Set("op", OpsOf(e)) \cup Set("v", ValuesOf(e))
            \cup Set("dir", {"", "original", "reply"})
       [] e.fam = "opt" /\ e.names # {} ->
            {[now EXCEPT !.v = x, !.dir = n] :
               x \in ValuesOf(e), n \in {Blank} \cup e.names}
       [] e.fam = "opt" /\ e.names = {} /\ Len(e.ops) = 1 ->
            Set("v", ValuesOf(e))
       [] OTHER -> Set("op", OpsOf(e)) \cup Set("v", ValuesOf(e))

\* Keys for the focused widget, or for the two that stand side by side.
Touch(i) ==
  /\ ~Panicked /\ saves < MaxSaves
  /\ Cardinality(touched) < MaxTouches
  /\ i \notin touched
  /\ \E now \in Edits(Editor(i), fields[i]) \ {fields[i].now} :
       fields' = [fields EXCEPT ![i].now = now]
  /\ touched' = touched \cup {i}
  /\ typed' = typed \cup {i}
  /\ UNCHANGED <<sheet, rule, errStr, saves, left, jobs, kernel, refused,
                 overlap>>

(***************************************************************************)
(* The save key.  Everything is validated before anything is written.  A   *)
(* command in flight that has not read the rule yet may read it between    *)
(* the writes of two editors.                                              *)
(***************************************************************************)
Invalids ==
  {i \in Places : Refuses(Editor(i), fields[i].now, fields[i].was)}

\* Whether an editor writes does not depend on what the others wrote.
Writers == {i \in Places : Writes(Editor(i), fields[i])}
\* The saves of all editors, and the rules they leave behind one by one.
Saved(s, i, done) ==
  [rules |-> IF done.rule = Last(s.rules) THEN s.rules
             ELSE Append(s.rules, done.rule),
   fields |-> [s.fields EXCEPT ![i] = done.field]]
SaveAll ==
  LET step(s, i) ==
        IF Last(s.rules).xs = Panic THEN s
        ELSE Saved(s, i, FieldSave(Editor(i), s.fields[i], Last(s.rules)))
      writers == Writers
  IN FoldLeft(step, [rules |-> <<rule>>, fields |-> fields],
              SelectSeq([i \in 1..Max(Places) |-> i], LAMBDA i: i \in writers))

Job(n, r) == [n |-> n, read |-> r]
Unread == {j \in jobs : j.read = <<>>}
Save ==
  /\ ~Panicked /\ saves < MaxSaves
  /\ Invalids = {}
  /\ \E done \in {SaveAll} :
        /\ rule' = Last(done.rules)
        /\ fields' = done.fields
        /\ left' = left \cup {Last(done.rules)}
        /\ \E torn \in SUBSET Unread :
             \E read \in [torn -> ToSet(done.rules)] :
               jobs' = (jobs \ torn) \cup {Job(j.n, <<read[j]>>) : j \in torn}
                       \cup IF Last(done.rules).xs = Panic THEN {}
                            ELSE {Job(saves + 1, <<>>)}
  /\ saves' = saves + 1
  /\ errStr' = FALSE
  /\ touched' = {}
  /\ overlap' = (overlap \/ jobs # {})
  /\ UNCHANGED <<sheet, typed, kernel, refused>>

SaveRefused ==
  /\ ~Panicked /\ saves < MaxSaves
  /\ Invalids # {}
  /\ errStr' = TRUE
  /\ UNCHANGED <<sheet, rule, fields, touched, typed, saves, left, jobs,
                 kernel, refused, overlap>>

(***************************************************************************)
(* The command: conn.AddRule encodes the rule, conn.Flush sends it, and    *)
(* the kernel replaces the rule of that handle or refuses.                 *)
(***************************************************************************)
AddRule(j) ==
  /\ j.read = <<>>
  /\ jobs' = (jobs \ {j}) \cup {Job(j.n, <<rule>>)}
  /\ UNCHANGED <<sheet, rule, fields, errStr, touched, typed, saves, left,
                 kernel, refused, overlap>>
Flush_ErrorLost(j) ==
  /\ j.read # <<>>
  /\ jobs' = jobs \ {j}
  /\ \/ /\ kernel' = j.read[1]
        /\ refused' = FALSE
     \/ /\ refused' = FALSE
        /\ UNCHANGED kernel
  /\ UNCHANGED <<sheet, rule, fields, errStr, touched, typed, saves, left,
                 overlap>>
Flush(j) ==
  /\ j.read # <<>>
  /\ jobs' = jobs \ {j}
  /\ \/ /\ kernel' = j.read[1]
        /\ refused' = FALSE
     \/ /\ refused' = TRUE
        /\ UNCHANGED kernel
  /\ UNCHANGED <<sheet, rule, fields, errStr, touched, typed, saves, left,
                 overlap>>

Next ==
  \/ \E i \in scene.touch : Touch(i)
  \/ Save
  \/ SaveRefused
  \/ \E j \in jobs : AddRule(j) \/ Flush(j)

Spec == Init /\ [][Next]_vars

(***************************************************************************)
(* Properties.                                                             *)
(***************************************************************************)
\* The last step was the save key.
JustSaved ==
  /\ saves > 0 /\ touched = {} /\ ~Panicked
  /\ Job(saves, <<>>) \in jobs
\* What the editor at place i would show of the rule, decoded as rd, and what
\* an editor that was not touched shows since it was opened.
Reopened(i, rd) == OpenedAs(Editor(i), rd, rule).now
Showed(i) == fields[i].now

\* Type invariant.
TypeOK ==
  /\ Places \subseteq DOMAIN AllEditors
  /\ DOMAIN fields = Places
  /\ \A i \in Places : DOMAIN fields[i] = {"now", "was"}
  /\ {udplite, errStr, refused, overlap} \subseteq BOOLEAN
  /\ touched \subseteq typed /\ typed \subseteq scene.touch
  /\ saves \in 0..MaxSaves
  /\ \A j \in jobs : j.n \in 1..saves /\ Len(j.read) <= 1

\* What no editor can show.
Unshowable(e, c) ==
  \/ e.fam = "opt" /\ ~e.zero /\ (c.v.t # e.t \/ c.v.b = <<>>)
  \/ /\ e.fam = "pair" /\ e.codes # <<>>
     /\ \A i \in DOMAIN e.codes : e.codes[i] # c.v.b
  \/ e.fam = "pair" /\ c.op \notin ToSet(e.ops)
Unshown(rd, xs) ==
  \/ \E i \in Places :
       /\ Editor(i).fam \in {"opt", "pair"}
       /\ \E c \in ToSet(CondsOf(Editor(i), rd)) : Unshowable(Editor(i), c)
  \/ \E c \in ToSet(rd.conds) :
       \/ c.c = "chunk"
       \/ c.c = "ct" /\ c.v.s = {"other"}
  \/ \E i \in DOMAIN xs :
       \/ Is(xs[i], "reject") /\ xs[i].code > 3
       \/ /\ Is(xs[i], "counter")
          /\ \E n \in {xs[i].packets, xs[i].bytes} : Clip10(n) # n
\* The save key pressed again would change nothing.
SaveTwice ==
  \/ \E i \in DOMAIN rule.xs :
       Is(rule.xs[i], "exthdr") /\ rule.xs[i].xop = "sctp"
  \/ \E done \in {SaveAll} : Last(done.rules) = rule

\* A rule that is opened and saved untouched stays as it is, unless it holds
\* something the editors have no way to show: zero where the editor is blank
\* for zero, a value the select does not offer, a number of more than ten
\* digits, a reject code without a name, an SCTP chunk (which moves to the end).
\* And the save key pressed once more writes the same rule, unless it matches an
\* SCTP chunk.
QuietSave ==
  JustSaved =>
    /\ typed = {} => rule = opened \/ Unshown(Decoded(opened), opened.xs)
    /\ SaveTwice

\* Two editors that stand for one cell; one that writes a match of its own
\* which changes what the cell of the other is called.
SameCell(e, f) ==
  "load" \in DOMAIN e /\ "load" \in DOMAIN f /\ SameLoad(e.load, f.load)
Renames(e, f) ==
  /\ "dep" \in DOMAIN e /\ "sel" \in DOMAIN f
  /\ \/ e.dep # <<>> /\ f.sel \in {MetaL4proto.sel, EtherType.sel}
     \/ e = EtherType /\ f.sel[2] = "arp"

\* What RoundTrip is about: values that fit, cells that go by the same name.
Fits(e, v) ==
  /\ v \notin {Blank, Invalid}
  /\ v = <<>> => e.fam = "opt" /\ e.zero
  /\ CASE e.fam = "pair" -> Len(v) <= e.w
       [] e.fam = "opt" /\ e.mask = <<>> -> Len(v) <= e.w
       [] OTHER -> Masked(BE(Times(v, e.by, e.w), e.w), e.mask, e.by) = v
Latched(rd, sel) ==
  {c.v.b : c \in {x \in ToSet(rd.conds) :
                    <<x.c, x.proto, x.field>> = sel /\ x.op = "=="}}
Spoken(e, rd) ==
  LET l4 == Latched(rd, <<"meta", "l4proto", "">>)
      eth == Latched(rd, <<"payload", "ether", "type">>)
      own == /\ e \notin {Icmpv6Mtu, IP6Length, IP6Version}
             /\ e.sel[2] = "arp" => eth = {ETHERTYPE_ARP}
      l4s == IF e.sel[2] \in {"tcp", "udp"} THEN {<<TCP>>, <<UDP>>}
             ELSE {p \in l4 : L4Name(ByteOf(p)) = e.sel[2]}
  IN e.load.k = "payload" =>
       own /\ (e.load.base = "transport" => l4 \subseteq l4s)

\* An editor with a name select beside its number input asks for the name if
\* one is chosen, whatever the input holds, and shows a number by its name.
Asked(e, now) ==
  LET v == OptCanon(e, now).v
  IN CASE e.fam # "opt" \/ e.names = {} -> now
       [] OTHER -> IF v \in e.names THEN Shown("==", Blank, v)
                   ELSE Shown("==", v, Blank)

\* A number typed into an editor is what that editor shows when the saved rule
\* is opened again, whatever else the rule matches and whatever else was typed:
\* unless it is zero where the editor is blank for zero, does not fit the cell,
\* was typed for another name of the cell, or the rule matches another
\* protocol, whose names the cell then goes by; and unless a name is chosen in
\* the select beside the input, for then the name is what comes back and the
\* number is dropped.  A number that has a name comes back as that name.  The
\* decoder has no number for the MTU of ICMPv6 and takes the IPv6 cells that
\* IPv4 has too for IPv4.  A comment comes back if it is shorter than 255 bytes.
RoundTrip ==
  JustSaved => \A rd \in {Decoded(rule)}, i \in typed : \A e \in {Editor(i)} :
    LET now == fields[i].now
        mixed == \E j \in typed \ {i} : \E f \in {Editor(j)} :
                   SameCell(e, f) \/ Renames(f, e)
    IN \A back \in {Reopened(i, rd)} :
         /\ /\ e.fam \in {"pair", "bits", "opt"}
            /\ Fits(e, Canon(e, now).v) /\ ~mixed /\ Spoken(e, rd)
            => back = Asked(e, now)
         /\ e.fam = "comment" => (back = now <=> now < 255)

\* The last conntrack match has a mask.
MaskedCtLast(xs) ==
  LET i == LastIn(Where(xs, IsCt)) IN i # 0 /\ IsBitwise(xs, i + 1)
\* Changing one editor and saving leaves what the others show alone, unless
\* they stand for the same cell under another name, or the match the editor
\* puts in front (or the ether type itself) changes what they stand for; and
\* unless a conntrack match was put into the middle of a masked one.
OthersKeep ==
  \A i \in typed : JustSaved /\ typed = {i} =>
    \/ MaskedCtLast(opened.xs)
    \/ LET rd == Decoded(rule)
       IN \A j \in Places \ {i} :
            \/ SameCell(Editor(i), Editor(j)) \/ Renames(Editor(i), Editor(j))
            \/ Reopened(j, rd) = Showed(j)

\* What the kernel holds is a rule that some save completed, never one caught
\* between the writes of two editors, and when the commands are done and the
\* last one succeeded, it is the rule of the list - as long as no save ran
\* while the command of an earlier one was in flight.
CalmAgrees ==
  ~overlap =>
    /\ kernel \in left
    /\ jobs = {} /\ ~refused /\ ~Panicked => kernel = rule

\* Editors that append, and what stands behind the verdict.
Appending ==
  {"pair", "bits", "opt", "set", "sctpchunk", "masq", "nat", "queue", "quota"}
BehindVerdict(xs) ==
  LET i == LastIn({j \in DOMAIN xs : Is(xs[j], "verdict")})
  IN IF i = 0 THEN {} ELSE {xs[j] : j \in i + 1..Len(xs)}
\* Nothing is put behind the verdict of the rule, where it would never be
\* evaluated, by the editors that look for a place: addresses and conntrack
\* matches, the connection limit, the statements they replace in place.
VerdictStaysLast ==
  JustSaved /\ SctpChunk \notin {Editor(i) : i \in Places} =>
    \/ \E i \in typed : Editor(i).fam \in Appending
    \/ BehindVerdict(rule.xs) \subseteq BehindVerdict(opened.xs)

\* What each kind of statement needs.
Complete(xs, i) ==
  CASE Is(xs[i], "verdict") -> xs[i].kind \in Jumps => xs[i].chain # ""
    [] Is(xs[i], "nat") /\ xs[i].amin # 0 ->
         \E j \in 1..i - 1 : \/ Is(xs[j], "immediate") /\ xs[j].reg = xs[i].amin
                                /\ Len(xs[j].data) \in {4, 16}
                             \/ Is(xs[j], "lookup")
    [] Is(xs[i], "quota") -> xs[i].bytes # <<>>
    [] Is(xs[i], "log") ->
         /\ ~({"level", "group"} \subseteq xs[i].keys)
         /\ "group" \notin xs[i].keys => {"snaplen", "qthresh"} \cap xs[i].keys = {}
    [] Is(xs[i], "queue") -> xs[i].num + ((xs[i].total - 1) % 65536) <= 65535
    [] OTHER -> TRUE
\* The comparison or mask behind its load, the load before one of them.
Together(xs, i) ==
  CASE xs[i].k \in {"cmp", "range", "bitwise"} ->
         i > 1 /\ xs[i - 1].k \in {"payload", "exthdr", "meta", "ct", "bitwise"}
    [] xs[i].k \in {"payload", "exthdr", "meta"} ->
         /\ i < Len(xs)
         /\ xs[i + 1].k \in {"cmp", "range", "bitwise", "lookup", "dynset"}
    [] OTHER -> TRUE
\* What was validated is complete: a jump names its chain, a translation has
\* an address of the table's family, a quota has an amount, a log to a group
\* has no level, a range of queues has at least one and ends at 65535 at the
\* latest - where a total of zero stands for all 65536 of them, whose number
\* the two bytes of the total cannot hold.
\* And the comparisons, masks and loads of the rule stand together as they were
\* written, unless a conntrack match went behind a masked one.  The types are
\* part of it.
SavedIsComplete ==
  TypeOK /\ (JustSaved => \A i \in DOMAIN rule.xs :
    Complete(rule.xs, i) /\ (MaskedCtLast(opened.xs) \/ Together(rule.xs, i)))
=============================================================================
