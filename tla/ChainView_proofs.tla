-------------------------- MODULE ChainView_proofs --------------------------
(***************************************************************************)
(* The rule list keeps its cursor, its window, its filter and its dialog   *)
(* on the right rules, whatever answers arrive in whatever order.          *)
(***************************************************************************)
EXTENDS ChainView, SeqLemmas

-----------------------------------------------------------------------------
(* The inductive invariant.                                                *)

(* Somebody takes handle h for the rule x: the kernel, the list on the     *)
(* screen, or a goroutine that fetches a rule to open.                     *)
Mention(h, x) ==
  \/ Holds(chain, h, x) \/ Holds(rules, h, x)
  \/ \E j \in Job : /\ jobs[j].kind \in Opening /\ jobs[j].stage = "asked"
                    /\ jobs[j].handle = h /\ jobs[j].id = x

Identified ==
  /\ \A h, x, y : Mention(h, x) /\ Mention(h, y) => x = y
  /\ \A h, x : Mention(h, x) => h < nextHandle /\ x < nextHandle
  /\ Distinct(chain) /\ Distinct(rules)

(* What is remembered of a listed rule is its text as listed. *)
Remembered ==
  \A i \in DOMAIN rules :
    rules[i].handle \in DOMAIN matchCache
      => matchCache[rules[i].handle] = rules[i].body

OnScreen ==
  open => /\ cursor < Len(rules) \/ cursor = 0
          /\ scrollOffset < Len(activeRules) \/ scrollOffset = 0

(* The dialog is about the rule under the cursor, and only ever opens in a *)
(* session that may write.                                                 *)
Dialog ==
  showDeleteConfirm =>
    /\ ~readOnly
    /\ target # 0 => cursor < Len(rules) /\ rules[cursor + 1].id = target

(* If no command was under way when it opened, none is yet, the list is    *)
(* the one it opened over, and the view is still the active one.           *)
Undisturbed ==
  showDeleteConfirm /\ alone =>
    /\ activeView = "chain" /\ \A j \in Job : jobs[j].stage = "idle"
    /\ cursor < Len(rules) /\ rules[cursor + 1].id = target

(* Where the message of a move sends the cursor: NewCursor of a command.   *)
Goal(r) == IF r.kind = "up" THEN r.at - 1 ELSE r.at + 1

(* A calm move knows where its rule is: under the cursor it was asked at,  *)
(* and once done where its message says.                                   *)
Tracked(r) ==
  r.calm =>
    /\ r.kind \in Moving
    /\ r.stage = "asked" =>
         /\ r.at < Len(chain)
         /\ chain[r.at + 1].handle = r.handle
         /\ chain[r.at + 1].id = r.id
         /\ r.kind = "down" => r.at + 1 < Len(chain)
    /\ r.stage = "ok" =>
         Goal(r) < Len(chain) /\ chain[Goal(r) + 1].id = r.id

JobInv(r) ==
  /\ r.stage = "idle" => r.kind = "none"
  /\ readOnly => r.kind \notin Writing \cup {"edit"}
  /\ r.kind = "up" /\ r.stage \in {"asked", "ok"} => r.at > 0
  /\ Tracked(r)

JobsInv == \A j \in Job : JobInv(jobs[j])

KernelType == /\ chain \in Seq(Rule) /\ nextHandle \in Nat \ {0}
              /\ outside \in 0 .. MaxOutside
JobsType   == jobs \in [Job -> JobRecord] /\ keys \in 0 .. MaxKeys
ScreenType ==
  /\ rules \in Seq(Rule)
  /\ DOMAIN matchCache \subseteq Nat
  /\ \A h \in DOMAIN matchCache : matchCache[h] \in Body
  /\ cursor \in Nat /\ scrollOffset \in Nat /\ target \in Nat
  /\ filterMode \in BOOLEAN /\ filterQuery \in SUBSET Body
  /\ showDeleteConfirm \in BOOLEAN /\ open \in BOOLEAN /\ alone \in BOOLEAN
  /\ height \in Height /\ readOnly \in BOOLEAN
  /\ activeView \in {"main", "chain", "rule"}

ScreenInv == ScreenType /\ Remembered /\ OnScreen /\ Dialog

IInv == /\ KernelType /\ JobsType /\ ScreenInv /\ Undisturbed
        /\ Identified /\ JobsInv

USE TextAssumption, WindowAssumption, LimitAssumption

-----------------------------------------------------------------------------
(* The list on the screen.                                                 *)

(* A list keeps its rules in a filter.                                     *)
LEMMA ShowingFacts ==
  ASSUME NEW s \in Seq(Rule), NEW I \in SUBSET (DOMAIN s)
  PROVE  /\ Kept(s, I) \in Seq(Rule)
         /\ Len(Kept(s, I)) \in Nat /\ Len(Kept(s, I)) <= Len(s)
         /\ Len(s) \in Nat
         /\ \A n \in 1 .. Len(Kept(s, I)) :
              \E i \in DOMAIN s : Kept(s, I)[n] = s[i]
<1>1. Len(s) \in Nat /\ DOMAIN s = 1 .. Len(s)
  BY LenProperties
<1>2. I \in SUBSET (1 .. Len(s))
  BY <1>1
<1>3. /\ Kept(s, I) \in Seq(Rule)
      /\ Len(Kept(s, I)) \in 0 .. Len(s)
      /\ \A n \in 1 .. Len(Kept(s, I)) : \E i \in I : Kept(s, I)[n] = s[i]
  BY <1>2, KeptFacts
<1> QED BY <1>1, <1>3

(* The list on the screen: the rules, or those of them that the filter     *)
(* keeps.                                                                  *)
LEMMA ActiveFacts ==
  ASSUME ScreenType
  PROVE  /\ activeRules \in Seq(Rule)
         /\ Len(activeRules) \in Nat /\ Len(activeRules) <= Len(rules)
         /\ Len(rules) \in Nat
         /\ \A n \in 1 .. Len(activeRules) :
              \E i \in DOMAIN rules : activeRules[n] = rules[i]
         /\ ~filterMode => activeRules = rules
<1>1. /\ rules \in Seq(Rule) /\ Len(rules) \in Nat
      /\ DOMAIN rules = 1 .. Len(rules)
  BY LenProperties DEF ScreenType
<1> DEFINE I == {i \in DOMAIN rules : Haystack(rules[i]) \in filterQuery}
<1>2. I \in SUBSET (DOMAIN rules)
  OBVIOUS
<1> HIDE DEF I
<1>3. CASE Filtering
  <2>1. activeRules = Kept(rules, I)
    BY <1>3 DEF activeRules, I
  <2> QED BY <2>1, <1>1, <1>2, <1>3, ShowingFacts DEF Filtering
<1>4. CASE ~Filtering
  <2>1. activeRules = rules
    BY <1>4 DEF activeRules
  <2> QED BY <2>1, <1>1
<1> QED BY <1>3, <1>4

(* Where RefreshRules puts the cursor is in what it shows. *)
LEMMA ClampedFacts ==
  ASSUME ScreenType, NEW list \in Seq(Rule)
  PROVE  LET shown == IF Filtering THEN Matching(list) ELSE list
         IN  /\ Clamped(list) \in Nat
             /\ Len(shown) \in Nat /\ Len(shown) <= Len(list)
             /\ Len(list) \in Nat
             /\ Clamped(list) < Len(shown) \/ Clamped(list) = 0
<1> DEFINE shown == IF Filtering THEN Matching(list) ELSE list
<1>1. /\ shown \in Seq(Rule) /\ Len(shown) \in Nat /\ Len(shown) <= Len(list)
      /\ Len(list) \in Nat
  <2> DEFINE I == {i \in DOMAIN list : list[i].body \in filterQuery}
  <2>1. I \in SUBSET (DOMAIN list)
    OBVIOUS
  <2> HIDE DEF I
  <2>2. /\ Kept(list, I) \in Seq(Rule)
        /\ Len(Kept(list, I)) \in Nat /\ Len(Kept(list, I)) <= Len(list)
        /\ Len(list) \in Nat
    BY <2>1, ShowingFacts
  <2>3. Matching(list) = Kept(list, I)
    BY DEF Matching, I
  <2> QED BY <2>2, <2>3
<1>2. Clamped(list) = CASE cursor < Len(shown) -> cursor
                        [] shown = <<>>        -> 0
                        [] OTHER               -> Len(shown) - 1
  BY DEF Clamped
<1> HIDE DEF shown
<1>3. cursor \in Nat
  BY DEF ScreenType
<1>4. shown # <<>> => Len(shown) > 0
  BY <1>1, EmptySeq
<1>5. CASE cursor < Len(shown)
  <2>0. shown # <<>>
    BY <1>5, <1>1, <1>3, EmptySeq
  <2>1. Clamped(list) = cursor
    BY <1>2, <1>5, <2>0
  <2> QED BY <2>1, <1>1, <1>3, <1>5 DEF shown
<1>6. CASE ~(cursor < Len(shown)) /\ shown = <<>>
  BY <1>1, <1>2, <1>6 DEF shown
<1>7. CASE ~(cursor < Len(shown)) /\ shown # <<>>
  <2>1. Clamped(list) = Len(shown) - 1
    BY <1>2, <1>7
  <2> QED BY <2>1, <1>1, <1>4, <1>7 DEF shown
<1> QED BY <1>5, <1>6, <1>7

(* What is remembered for a filter is the text of each rule.               *)
LEMMA RememberFacts ==
  ASSUME NEW list \in Seq(Rule), Distinct(list), NEW cache,
         NEW filtering \in BOOLEAN, DOMAIN cache \subseteq Nat,
         \A h \in DOMAIN cache : cache[h] \in Body,
         \A i \in DOMAIN list : list[i].handle \in DOMAIN cache
            => cache[list[i].handle] = list[i].body
  PROVE  LET c == Remember(cache, list, filtering)
         IN  /\ DOMAIN c \subseteq Nat
             /\ \A h \in DOMAIN c : c[h] \in Body
             /\ \A i \in DOMAIN list : list[i].handle \in DOMAIN c
                  => c[list[i].handle] = list[i].body
<1>1. /\ DOMAIN list = 1 .. Len(list)
      /\ \A i \in DOMAIN list : /\ list[i].handle \in Nat
                                /\ list[i].body \in Body
  <2>1. DOMAIN list = 1 .. Len(list)
    BY LenProperties
  <2>2. \A i \in DOMAIN list : list[i] \in Rule
    BY <2>1, ElementOfSeq
  <2> QED BY <2>1, <2>2 DEF Rule
<1>2. \A i \in DOMAIN list : Find(list, list[i].handle) = i
  BY DEF Find, Distinct
<1>3. CASE ~filtering
  BY <1>3 DEF Remember
<1>4. CASE filtering
  <2> DEFINE H == {list[i].handle : i \in DOMAIN list}
             c == Remember(cache, list, filtering)
  <2>1. c = [h \in DOMAIN cache \cup H |->
               IF h \in DOMAIN cache THEN cache[h]
                                     ELSE list[Find(list, h)].body]
    BY <1>4 DEF Remember
  <2> HIDE DEF c
  <2>2. DOMAIN c \subseteq Nat
    BY <2>1, <1>1
  <2>3. ASSUME NEW h \in DOMAIN c PROVE c[h] \in Body
    <3>1. CASE h \in DOMAIN cache
      BY <3>1, <2>1
    <3>2. CASE h \notin DOMAIN cache
      <4>1. PICK i \in DOMAIN list : h = list[i].handle
        BY <3>2, <2>1
      <4> QED BY <4>1, <3>2, <2>1, <1>1, <1>2
    <3> QED BY <3>1, <3>2
  <2>4. ASSUME NEW i \in DOMAIN list
        PROVE  c[list[i].handle] = list[i].body
    <3>1. list[i].handle \in H
      OBVIOUS
    <3>2. CASE list[i].handle \in DOMAIN cache
      BY <3>2, <2>1
    <3>3. CASE list[i].handle \notin DOMAIN cache
      BY <3>1, <3>3, <2>1, <1>2
    <3> QED BY <3>2, <3>3
  <2> QED BY <2>2, <2>3, <2>4 DEF c
<1> QED BY <1>3, <1>4

(* What RefreshRules makes of the list, wherever the cursor then goes in   *)
(* it: the screen is as it should be, and has no dialog's rule.            *)
LEMMA RefreshScreen ==
  ASSUME IInv, NEW list \in {chain, rules}, RefreshRules(list),
         UNCHANGED <<filterMode, filterQuery, showDeleteConfirm, alone,
                     height, readOnly, open>>,
         \/ cursor' = Clamped(list)
         \/ cursor' \in Nat /\ cursor' < Len(list),
         activeView' \in {"main", "chain", "rule"}
  PROVE  ScreenInv'
<1> DEFINE shown == IF Filtering THEN Matching(list) ELSE list
<1>1. /\ ScreenType /\ list \in Seq(Rule) /\ Distinct(list)
  BY DEF IInv, ScreenInv, ScreenType, KernelType, Identified
<1>2. /\ Clamped(list) \in Nat
      /\ Len(shown) \in Nat /\ Len(shown) <= Len(list) /\ Len(list) \in Nat
      /\ Clamped(list) < Len(shown) \/ Clamped(list) = 0
  BY <1>1, ClampedFacts
<1> HIDE DEF shown
<1>3. /\ rules' = list /\ target' = 0
      /\ matchCache' = Remember(NoCache, list, Filtering)
      /\ scrollOffset' = IF scrollOffset > Clamped(list) THEN Clamped(list)
                                                         ELSE scrollOffset
  BY DEF RefreshRules
<1>4. /\ DOMAIN matchCache' \subseteq Nat
      /\ \A h \in DOMAIN matchCache' : matchCache'[h] \in Body
      /\ \A i \in DOMAIN list : list[i].handle \in DOMAIN matchCache'
           => matchCache'[list[i].handle] = list[i].body
  <2>1. DOMAIN NoCache = {}
    BY DEF NoCache
  <2>2. Filtering \in BOOLEAN
    BY <1>1 DEF ScreenType, Filtering
  <2> QED BY <2>1, <2>2, <1>1, <1>3, RememberFacts
<1>5. scrollOffset' \in Nat /\ scrollOffset' <= Clamped(list)
  BY <1>1, <1>2, <1>3 DEF ScreenType
<1>6. cursor' \in Nat /\ (cursor' < Len(list) \/ cursor' = 0)
  BY <1>2
<1>7. ScreenType'
  BY <1>1, <1>3, <1>4, <1>5, <1>6 DEF ScreenType
<1>8. Remembered'
  BY <1>3, <1>4 DEF Remembered
<1>9. activeRules' = shown
  <2>1. Filtering' = Filtering
    BY DEF Filtering
  <2>2. {i \in DOMAIN rules' : Haystack(rules[i])' \in filterQuery'}
          = {i \in DOMAIN list : list[i].body \in filterQuery}
    BY <1>3, <1>4 DEF Haystack
  <2>3. CASE Filtering
    <3>1. activeRules' = Kept(rules', {i \in DOMAIN rules' :
                                 Haystack(rules[i])' \in filterQuery'})
      BY <2>1, <2>3 DEF activeRules
    <3> QED BY <3>1, <2>2, <2>3, <1>3 DEF shown, Matching
  <2>4. CASE ~Filtering
    BY <2>1, <2>4, <1>3 DEF activeRules, shown
  <2> QED BY <2>3, <2>4
<1>10. OnScreen'
  <2>1. scrollOffset' < Len(shown) \/ scrollOffset' = 0
    BY <1>2, <1>5
  <2> QED BY <2>1, <1>3, <1>6, <1>9 DEF OnScreen
<1>11. Dialog'
  BY <1>3 DEF Dialog, IInv, ScreenInv
<1> QED BY <1>7, <1>8, <1>10, <1>11 DEF ScreenInv

(* Whatever leaves the screen alone.                                       *)
LEMMA SameScreen ==
  ASSUME ScreenInv, UNCHANGED <<listVars, modeVars, screenVars>>
  PROVE  ScreenInv'
<1>1. ScreenType'
  BY DEF ScreenInv, ScreenType, listVars, modeVars, screenVars
<1>2. Remembered' /\ Dialog'
  BY DEF ScreenInv, Remembered, Dialog, listVars, modeVars, screenVars
<1>3. activeRules' = activeRules
  BY DEF activeRules, Filtering, Haystack, listVars, modeVars
<1>4. OnScreen'
  BY <1>3 DEF ScreenInv, OnScreen, listVars, screenVars
<1> QED BY <1>1, <1>2, <1>4 DEF ScreenInv

(* A new query starts again at the top.                                    *)
LEMMA FilterScreen ==
  ASSUME IInv, ~showDeleteConfirm, NEW mode \in BOOLEAN,
         NEW query \in SUBSET Body, Filter(mode, query)
  PROVE  ScreenInv'
<1>1. /\ ScreenType /\ rules \in Seq(Rule) /\ Distinct(rules) /\ Remembered
      /\ DOMAIN matchCache \subseteq Nat
      /\ \A h \in DOMAIN matchCache : matchCache[h] \in Body
  BY DEF IInv, ScreenInv, ScreenType, Identified
<1>2. /\ rules' = rules /\ cursor' = 0 /\ scrollOffset' = 0
      /\ filterMode' = mode /\ filterQuery' = query
      /\ showDeleteConfirm' = showDeleteConfirm
      /\ matchCache' = Remember(matchCache, rules, mode /\ query # Blank)
  BY DEF Filter
<1>3. /\ DOMAIN matchCache' \subseteq Nat
      /\ \A h \in DOMAIN matchCache' : matchCache'[h] \in Body
      /\ \A i \in DOMAIN rules : rules[i].handle \in DOMAIN matchCache'
           => matchCache'[rules[i].handle] = rules[i].body
  <2>1. (mode /\ query # Blank) \in BOOLEAN
    OBVIOUS
  <2> QED BY <2>1, <1>1, <1>2, RememberFacts DEF Remembered
<1>4. ScreenType'
  BY <1>1, <1>2, <1>3 DEF ScreenType, Filter, screenVars
<1>5. Remembered'
  BY <1>2, <1>3 DEF Remembered
<1>6. OnScreen' /\ Dialog'
  BY <1>2 DEF OnScreen, Dialog
<1> QED BY <1>4, <1>5, <1>6 DEF ScreenInv

(* The arrows stay on the list, and keep the window on it.                 *)
LEMMA ArrowsScreen ==
  ASSUME IInv, Up \/ Down
  PROVE  ScreenInv'
<1>1. /\ ScreenType /\ Remembered /\ OnScreen /\ ~showDeleteConfirm
      /\ UNCHANGED <<rules, matchCache, modeVars, screenVars>>
  BY DEF IInv, ScreenInv, Up, Down, Browsing
<1>2. /\ Len(activeRules) \in Nat /\ Len(activeRules) <= Len(rules)
      /\ Len(rules) \in Nat
  BY <1>1, ActiveFacts
<1>3. activeRules' = activeRules
  BY <1>1 DEF activeRules, Filtering, Haystack, modeVars
<1>4. /\ cursor' \in Nat /\ scrollOffset' \in Nat
      /\ cursor' < Len(rules) \/ ~open
      /\ open => scrollOffset' < Len(activeRules) \/ scrollOffset' = 0
  <2>1. cursor \in Nat /\ scrollOffset \in Nat
    BY <1>1 DEF ScreenType
  <2>2. CASE Up
    <3>1. /\ cursor > 0 /\ cursor' = cursor - 1
          /\ scrollOffset' = IF cursor' < scrollOffset THEN cursor'
                                                       ELSE scrollOffset
      BY <2>2 DEF Up
    <3> QED BY <3>1, <2>1, <1>1, <1>2 DEF OnScreen
  <2>3. CASE Down
    <3>1. /\ cursor + 1 < Len(activeRules) /\ cursor' = cursor + 1
          /\ scrollOffset' = IF cursor' >= scrollOffset + maxVisibleRules
                             THEN cursor' + 1 - maxVisibleRules
                             ELSE scrollOffset
      BY <2>3 DEF Down
    <3>2. maxVisibleRules \in Nat /\ maxVisibleRules > 0
      <4>1. height \in Nat /\ headerLines \in {4, 6}
        BY <1>1 DEF ScreenType, headerLines
      <4> QED BY <4>1 DEF maxVisibleRules
    <3> HIDE DEF maxVisibleRules
    <3> QED BY <3>1, <3>2, <2>1, <1>1, <1>2 DEF OnScreen
  <2> QED BY <2>2, <2>3
<1>5. ScreenType'
  BY <1>1, <1>4 DEF ScreenType, modeVars, screenVars
<1>6. Remembered' /\ Dialog'
  BY <1>1 DEF Remembered, Dialog, modeVars
<1>7. OnScreen'
  BY <1>1, <1>3, <1>4 DEF OnScreen, screenVars
<1> QED BY <1>5, <1>6, <1>7 DEF ScreenInv

(* The other keys that act on the screen alone.                            *)
LEMMA ScreenKeys ==
  ASSUME IInv,
         \/ SelectChain \/ LeaveChain \/ BackToChain \/ Resize
         \/ EnterFilter \/ ExitFilter \/ Type \/ Backspace
         \/ Delete \/ DeclineDelete
  PROVE  ScreenInv'
<1>1. /\ ScreenType /\ Remembered /\ OnScreen /\ Dialog
      /\ chain \in Seq(Rule) /\ rules \in Seq(Rule)
  BY DEF IInv, ScreenInv, ScreenType, KernelType
<1>2. CASE SelectChain
  <2>1. /\ rules' = chain /\ matchCache' = NoCache /\ cursor' = 0
        /\ scrollOffset' = 0 /\ ~showDeleteConfirm'
      BY <1>2 DEF SelectChain
  <2>2. DOMAIN NoCache = {}
    BY DEF NoCache
  <2>3. ScreenType'
    BY <1>1, <1>2, <2>2 DEF SelectChain, ScreenType, Blank
  <2>4. Remembered' /\ OnScreen' /\ Dialog'
    BY <2>1, <2>2 DEF Remembered, OnScreen, Dialog
  <2> QED BY <2>3, <2>4 DEF ScreenInv
<1>3. CASE LeaveChain
  <2>1. /\ ~open' /\ open' \in BOOLEAN /\ ~showDeleteConfirm'
        /\ UNCHANGED <<listVars, modeVars, height, readOnly>>
        /\ activeView' = "main"
    BY <1>3 DEF LeaveChain, Normal, Browsing, modeVars
  <2>2. ScreenType'
    BY <1>1, <2>1 DEF ScreenType, listVars, modeVars
  <2>3. Remembered' /\ OnScreen' /\ Dialog'
    BY <1>1, <2>1 DEF Remembered, OnScreen, Dialog, listVars
  <2> QED BY <2>2, <2>3 DEF ScreenInv
<1>4. CASE BackToChain
  <2>1. CASE open
    <3>1. PICK list \in {chain, rules} :
            RefreshRules(list) /\ cursor' = Clamped(list)
      BY <1>4, <2>1 DEF BackToChain
    <3> QED BY <3>1, <1>4, RefreshScreen DEF BackToChain
  <2>2. CASE ~open
    <3>1. /\ ~open' /\ activeView' = "chain"
          /\ UNCHANGED <<listVars, modeVars, height, readOnly, open>>
      BY <1>4, <2>2 DEF BackToChain, modeVars
    <3>2. ScreenType'
      BY <1>1, <3>1 DEF ScreenType, listVars, modeVars
    <3>3. Remembered' /\ OnScreen' /\ Dialog'
      BY <1>1, <3>1 DEF Remembered, OnScreen, Dialog, listVars, modeVars
    <3> QED BY <3>2, <3>3 DEF ScreenInv
  <2> QED BY <2>1, <2>2
<1>5. CASE Resize
  <2>1. /\ UNCHANGED <<listVars, modeVars, readOnly, open, activeView>>
        /\ height' \in Height
    BY <1>5 DEF Resize
  <2>2. ScreenType'
    BY <1>1, <2>1 DEF ScreenType, listVars, modeVars
  <2>3. activeRules' = activeRules
    BY <2>1 DEF activeRules, Filtering, Haystack, listVars, modeVars
  <2>4. Remembered' /\ OnScreen' /\ Dialog'
    BY <1>1, <2>1, <2>3 DEF Remembered, OnScreen, Dialog, listVars, modeVars
  <2> QED BY <2>2, <2>4 DEF ScreenInv
<1>6. CASE EnterFilter \/ ExitFilter \/ Type \/ Backspace
  <2>1. /\ ~showDeleteConfirm
        /\ \E mode \in BOOLEAN, query \in SUBSET Body : Filter(mode, query)
    <3>1. filterQuery \in SUBSET Body
      BY <1>1 DEF ScreenType
    <3> QED BY <3>1, <1>6 DEF EnterFilter, ExitFilter, Type, Backspace,
               Normal, Browsing, Blank
  <2> QED BY <2>1, FilterScreen
<1>7. CASE Delete
  <2>1. /\ ~readOnly /\ ~filterMode /\ cursor < Len(activeRules)
        /\ showDeleteConfirm' = TRUE /\ target' = Selected.id
        /\ alone' \in BOOLEAN
        /\ UNCHANGED <<listVars, filterMode, filterQuery, screenVars>>
    BY <1>7 DEF Delete, Normal, OnRule
  <2>2. activeRules = rules /\ Len(rules) \in Nat /\ cursor \in Nat
    BY <1>1, <2>1, ActiveFacts DEF ScreenType
  <2>3. cursor < Len(rules) /\ target' = rules[cursor + 1].id
    BY <2>1, <2>2 DEF Selected
  <2>4. target' \in Nat
    <3>1. rules[cursor + 1] \in Rule
      BY <2>2, <2>3, <1>1, ElementOfSeq
    <3> QED BY <3>1, <2>3 DEF Rule
  <2>5. ScreenType'
    BY <1>1, <2>1, <2>4 DEF ScreenType, listVars, screenVars
  <2>6. activeRules' = activeRules
    BY <2>1 DEF activeRules, Filtering, Haystack, listVars
  <2>7. Remembered' /\ OnScreen' /\ Dialog'
    BY <1>1, <2>1, <2>3, <2>6 DEF Remembered, OnScreen, Dialog, listVars,
       screenVars
  <2> QED BY <2>5, <2>7 DEF ScreenInv
<1>8. CASE DeclineDelete
  <2>1. /\ ~showDeleteConfirm' /\ showDeleteConfirm' \in BOOLEAN
        /\ alone' = FALSE
        /\ UNCHANGED <<listVars, filterMode, filterQuery, target, screenVars>>
    BY <1>8 DEF DeclineDelete
  <2>2. ScreenType'
    BY <1>1, <2>1 DEF ScreenType, listVars, screenVars
  <2>3. activeRules' = activeRules
    BY <2>1 DEF activeRules, Filtering, Haystack, listVars
  <2>4. Remembered' /\ OnScreen' /\ Dialog'
    BY <1>1, <2>1, <2>3 DEF Remembered, OnScreen, Dialog, listVars, screenVars
  <2> QED BY <2>2, <2>4 DEF ScreenInv
<1> QED BY <1>2, <1>3, <1>4, <1>5, <1>6, <1>7, <1>8

(* Keys that start a command, and the commands.                            *)
LEMMA CommandsScreen ==
  ASSUME IInv, NEW j \in Job, Keys(j) \/ Commands(j)
  PROVE  ScreenInv'
<1>1. ScreenInv /\ ScreenType /\ Remembered /\ OnScreen /\ Dialog
  BY DEF IInv, ScreenInv
<1>2. CASE ConfirmDelete(j)
  <2>1. /\ ~showDeleteConfirm' /\ showDeleteConfirm' \in BOOLEAN
        /\ alone' = FALSE
        /\ UNCHANGED <<listVars, filterMode, filterQuery, target, screenVars>>
    BY <1>2 DEF ConfirmDelete
  <2>2. ScreenType'
    BY <1>1, <2>1 DEF ScreenType, listVars, screenVars
  <2>3. activeRules' = activeRules
    BY <2>1 DEF activeRules, Filtering, Haystack, listVars
  <2>4. Remembered' /\ OnScreen' /\ Dialog'
    BY <1>1, <2>1, <2>3 DEF Remembered, OnScreen, Dialog, listVars, screenVars
  <2> QED BY <2>2, <2>4 DEF ScreenInv
<1>3. CASE ~ConfirmDelete(j)
  <2>1. UNCHANGED <<listVars, modeVars, screenVars>>
    BY <1>3 DEF Keys, OpenRule, MoveRule, NewRule, Commands, DeleteRule,
       MoveRuleUp, MoveRuleDown, AddNewRuleToChain, InsertNewRuleBefore,
       Refused, fetchFreshRule, Fetched, Write
  <2> QED BY <2>1, <1>1, SameScreen
<1> QED BY <1>2, <1>3

(* Answers, on time or late.                                               *)
LEMMA AnswersScreen ==
  ASSUME IInv, NEW j \in Job, Answers(j)
  PROVE  ScreenInv'
<1>1. /\ ScreenInv /\ ScreenType /\ Remembered /\ OnScreen /\ Dialog
      /\ UNCHANGED <<filterMode, filterQuery, showDeleteConfirm, alone,
                     height, readOnly, open>>
      /\ activeView' \in {"main", "chain", "rule"}
  BY DEF IInv, ScreenInv, ScreenType, Answers, ruleDeletedMsg, ruleMovedMsg,
     ruleSelectedMsg, chainOpErrMsg, Answered
<1>2. ASSUME UNCHANGED <<listVars, target>> PROVE ScreenInv'
  <2>1. ScreenType'
    BY <1>1, <1>2 DEF ScreenType, listVars
  <2>2. activeRules' = activeRules
    BY <1>1, <1>2 DEF activeRules, Filtering, Haystack, listVars
  <2>3. Remembered' /\ OnScreen' /\ Dialog'
    BY <1>1, <1>2, <2>2 DEF Remembered, OnScreen, Dialog, listVars
  <2> QED BY <2>1, <2>3 DEF ScreenInv
<1>3. ASSUME NEW list \in {chain, rules}, RefreshRules(list),
             \/ cursor' = Clamped(list)
             \/ cursor' \in Nat /\ cursor' < Len(list)
      PROVE  ScreenInv'
  BY <1>1, <1>3, RefreshScreen
<1>4. CASE ruleSelectedMsg(j) \/ chainOpErrMsg(j)
  BY <1>2, <1>4 DEF ruleSelectedMsg, chainOpErrMsg
<1>5. CASE ruleDeletedMsg(j) /\ open
  <2>1. PICK list \in {chain, rules} :
          /\ RefreshRules(list)
          /\ cursor' = IF cursor >= Len(list) /\ list # <<>>
                       THEN Len(list) - 1 ELSE Clamped(list)
    BY <1>5 DEF ruleDeletedMsg
  <2>2. list # <<>> => Len(list) - 1 \in Nat /\ Len(list) - 1 < Len(list)
    <3>1. list \in Seq(Rule)
      BY DEF IInv, KernelType, ScreenInv, ScreenType
    <3>2. Len(list) \in Nat /\ (Len(list) = 0 => list = <<>>)
      BY <3>1, EmptySeq, LenProperties
    <3> QED BY <3>2
  <2> QED BY <2>1, <2>2, <1>3
<1>6. CASE ruleMovedMsg(j) /\ open
  <2>1. PICK list \in {chain, rules} :
          /\ RefreshRules(list)
          /\ cursor' = IF NewCursor(j) < Len(list) THEN NewCursor(j)
                                                   ELSE Clamped(list)
    BY <1>6 DEF ruleMovedMsg
  <2>2. NewCursor(j) \in Nat
    <3>1. /\ jobs[j] \in JobRecord /\ JobInv(jobs[j])
          /\ jobs[j].kind \in Moving /\ jobs[j].stage = "ok"
      BY <1>6 DEF IInv, JobsType, JobsInv, ruleMovedMsg, Answered
    <3>2. jobs[j].at \in Nat /\ (jobs[j].kind = "up" => jobs[j].at > 0)
      BY <3>1 DEF JobRecord, JobInv
    <3> QED BY <3>2 DEF NewCursor
  <2> QED BY <2>1, <2>2, <1>3
<1>7. CASE (ruleDeletedMsg(j) \/ ruleMovedMsg(j)) /\ ~open
  BY <1>2, <1>7 DEF ruleDeletedMsg, ruleMovedMsg
<1> QED BY <1>4, <1>5, <1>6, <1>7 DEF Answers

(* The screen after any step.                                              *)
LEMMA ScreenStep == IInv /\ [Next]_vars => ScreenInv'
<1> SUFFICES ASSUME IInv, [Next]_vars PROVE ScreenInv'
  OBVIOUS
<1>1. ASSUME NEW j \in Job, Keys(j) \/ Commands(j) PROVE ScreenInv'
  BY <1>1, CommandsScreen
<1>2. ASSUME NEW j \in Job, Answers(j) PROVE ScreenInv'
  BY <1>2, AnswersScreen
<1>3. CASE UNCHANGED vars
  <2>1. UNCHANGED <<listVars, modeVars, screenVars>>
    BY <1>3 DEF vars
  <2> QED BY <2>1, SameScreen DEF IInv
<1>4. CASE External
  <2>1. UNCHANGED <<listVars, modeVars, screenVars>>
    BY <1>4 DEF External
  <2> QED BY <2>1, SameScreen DEF IInv
<1> QED BY <1>1, <1>2, <1>3, <1>4, ScreenKeys, ArrowsScreen DEF Next

-----------------------------------------------------------------------------
(* The kernel's chain.                                                     *)

(* The next chain: its rules are the rules of the chain, and perhaps one   *)
(* under the kernel's next handle.                                         *)
Grown(x) == nextHandle' = nextHandle + 1 /\ x \in Nat /\ x <= nextHandle

GoodChain ==
  /\ chain' \in Seq(Rule)
  /\ \A h, x : Holds(chain', h, x) =>
        Holds(chain, h, x) \/ (h = nextHandle /\ Grown(x))
  /\ nextHandle' \in {nextHandle, nextHandle + 1}
  /\ Distinct(chain')

(* Every rule of the chain is older than the next handle.                  *)
LEMMA ChainFacts ==
  ASSUME IInv
  PROVE  /\ chain \in Seq(Rule) /\ nextHandle \in Nat \ {0}
         /\ Len(chain) \in Nat /\ DOMAIN chain = 1 .. Len(chain)
         /\ \A i \in DOMAIN chain :
              /\ chain[i] \in Rule
              /\ chain[i].handle < nextHandle /\ chain[i].id < nextHandle
              /\ Mention(chain[i].handle, chain[i].id)
<1>1. /\ chain \in Seq(Rule) /\ nextHandle \in Nat \ {0}
      /\ Len(chain) \in Nat /\ DOMAIN chain = 1 .. Len(chain)
  BY LenProperties DEF IInv, KernelType
<1>2. ASSUME NEW i \in DOMAIN chain
      PROVE  /\ chain[i] \in Rule
             /\ chain[i].handle < nextHandle /\ chain[i].id < nextHandle
             /\ Mention(chain[i].handle, chain[i].id)
  <2>1. Mention(chain[i].handle, chain[i].id)
    BY DEF Mention, Holds
  <2>2. chain[i] \in Rule
    BY <1>1, ElementOfSeq
  <2> QED BY <2>1, <2>2 DEF IInv, Identified
<1> QED BY <1>1, <1>2

(* A step that leaves the chain alone leaves it good.                      *)
LEMMA SameChain ==
  ASSUME IInv, UNCHANGED <<chain, nextHandle>>
  PROVE  GoodChain
BY DEF IInv, KernelType, Identified, GoodChain

(* So does a new rule at any place,                                        *)
LEMMA GoodInsert ==
  ASSUME IInv, NEW i \in 1 .. Len(chain) + 1, NEW b \in Body,
         chain' = InsertAt(chain, i, Fresh(nextHandle, b)), TakeHandle
  PROVE  GoodChain
<1>1. /\ chain \in Seq(Rule) /\ nextHandle \in Nat
      /\ \A j \in DOMAIN chain : /\ chain[j].id # nextHandle
                                 /\ chain[j].handle # nextHandle
  BY ChainFacts
<1>2. /\ Fresh(nextHandle, b) \in Rule
      /\ Fresh(nextHandle, b).id = nextHandle
      /\ Fresh(nextHandle, b).handle = nextHandle
  BY <1>1 DEF Fresh, Rule
<1>3. chain' \in Seq(Rule)
  BY <1>1, <1>2, InsertAtFacts
<1>4. Distinct(chain)
  BY DEF IInv, Identified
<1>5. Distinct(chain')
  BY <1>1, <1>2, <1>4, InsertDistinct
<1>6. \A h, x : Holds(chain', h, x) =>
        Holds(chain, h, x) \/ (h = nextHandle /\ x = nextHandle)
  BY <1>1, <1>2, InsertHolds
<1> QED BY <1>1, <1>3, <1>5, <1>6 DEF GoodChain, Grown, TakeHandle

(* a rule taken out,                                                       *)
LEMMA GoodRemove ==
  ASSUME IInv, NEW i \in DOMAIN chain, chain' = RemoveAt(chain, i),
         UNCHANGED nextHandle
  PROVE  GoodChain
<1>1. chain \in Seq(Rule) /\ i \in 1 .. Len(chain)
  BY ChainFacts
<1>2. Distinct(chain)
  BY DEF IInv, Identified
<1>3. chain' \in Seq(Rule)
  BY <1>1, RemoveAtFacts
<1>4. Distinct(chain')
  BY <1>1, <1>2, RemoveDistinct
<1>5. \A h, x : Holds(chain', h, x) => Holds(chain, h, x)
  BY <1>1, RemoveHolds
<1> QED BY <1>3, <1>4, <1>5 DEF GoodChain

(* and a rule rewritten in place.                                          *)
LEMMA GoodReplace ==
  ASSUME IInv, NEW i \in DOMAIN chain, NEW b \in Body,
         chain' = [chain EXCEPT ![i].body = b], UNCHANGED nextHandle
  PROVE  GoodChain
<1>1. /\ chain \in Seq(Rule) /\ chain \in [1 .. Len(chain) -> Rule]
      /\ Len(chain) \in Nat /\ DOMAIN chain = 1 .. Len(chain)
  BY ChainFacts, LenProperties
<1>2. [chain[i] EXCEPT !.body = b] \in Rule
  BY <1>1 DEF Rule
<1>3. chain' \in Seq(Rule)
  BY <1>1, <1>2, ExceptSeq
<1>4. /\ DOMAIN chain' = DOMAIN chain
      /\ \A j \in DOMAIN chain : /\ chain'[j].id = chain[j].id
                                 /\ chain'[j].handle = chain[j].handle
  BY <1>1 DEF Rule
<1>5. Distinct(chain')
  BY <1>4 DEF IInv, Identified, Distinct
<1>6. \A h, x : Holds(chain', h, x) => Holds(chain, h, x)
  BY <1>4 DEF Holds
<1> QED BY <1>3, <1>5, <1>6 DEF GoodChain

(* A rule and its neighbour trade places, and the rule gets a new handle.  *)
LEMMA SwappedFacts ==
  ASSUME IInv, NEW k \in DOMAIN chain, NEW n \in DOMAIN chain, k # n
  PROVE  /\ Swapped(k, n) \in Seq(Rule)
         /\ Len(Swapped(k, n)) = Len(chain)
         /\ DOMAIN Swapped(k, n) = DOMAIN chain
         /\ Swapped(k, n)[n].handle = nextHandle
         /\ Swapped(k, n)[n].id = chain[k].id
         /\ Swapped(k, n)[k] = chain[n]
         /\ \A i \in DOMAIN chain \ {k, n} : Swapped(k, n)[i] = chain[i]
<1> DEFINE s == Swapped(k, n)
<1>1. /\ Len(chain) \in Nat /\ DOMAIN chain = 1 .. Len(chain)
      /\ \A i \in DOMAIN chain : chain[i] \in Rule
      /\ nextHandle \in Nat
  BY ChainFacts
<1>2. DOMAIN s = DOMAIN chain
  BY DEF Swapped
<1>3. s[n] = [chain[k] EXCEPT !.handle = nextHandle]
  BY DEF Swapped
<1>4. s[k] = chain[n]
  BY DEF Swapped
<1>5. \A i \in DOMAIN chain \ {k, n} : s[i] = chain[i]
  BY DEF Swapped
<1>6. s \in [DOMAIN chain -> {s[i] : i \in DOMAIN chain}]
  BY DEF Swapped
<1> HIDE DEF s
<1>7. s[n] \in Rule /\ s[n].handle = nextHandle /\ s[n].id = chain[k].id
  BY <1>1, <1>3 DEF Rule
<1>8. \A i \in DOMAIN chain : s[i] \in Rule
  BY <1>1, <1>4, <1>5, <1>7
<1>9. s \in [1 .. Len(chain) -> Rule]
  BY <1>1, <1>6, <1>8
<1>10. s \in Seq(Rule) /\ Len(s) = Len(chain)
  BY <1>1, <1>9, IsASeq
<1> QED BY <1>2, <1>4, <1>5, <1>7, <1>10 DEF s

(* And so do two rules that change places, one of them under a new handle. *)
LEMMA GoodSwap ==
  ASSUME IInv, NEW k \in DOMAIN chain, NEW n \in DOMAIN chain, k # n,
         chain' = Swapped(k, n), TakeHandle
  PROVE  GoodChain
<1>1. /\ nextHandle \in Nat
      /\ \A i \in DOMAIN chain :
           /\ chain[i] \in Rule
           /\ chain[i].handle # nextHandle /\ chain[i].id < nextHandle
  BY ChainFacts
<1>2. /\ chain' \in Seq(Rule) /\ DOMAIN chain' = DOMAIN chain
      /\ chain'[n].handle = nextHandle /\ chain'[n].id = chain[k].id
      /\ chain'[k] = chain[n]
      /\ \A i \in DOMAIN chain \ {k, n} : chain'[i] = chain[i]
  BY SwappedFacts
<1>3. Distinct(chain)
  BY DEF IInv, Identified
<1>4. ASSUME NEW i \in DOMAIN chain, NEW j \in DOMAIN chain,
             chain'[i].id = chain'[j].id \/ chain'[i].handle = chain'[j].handle
      PROVE  i = j
  <2> DEFINE At(m) == IF m = n THEN k ELSE IF m = k THEN n ELSE m
  <2>1. \A m \in DOMAIN chain :
          /\ At(m) \in DOMAIN chain /\ chain'[m].id = chain[At(m)].id
          /\ m # n => chain'[m].handle = chain[At(m)].handle
    BY <1>2
  <2>2. At(i) = At(j) => i = j
    OBVIOUS
  <2> HIDE DEF At
  <2>3. CASE chain'[i].id = chain'[j].id
    BY <2>1, <2>2, <2>3, <1>3 DEF Distinct
  <2>4. CASE chain'[i].handle = chain'[j].handle /\ i # n /\ j # n
    BY <2>1, <2>2, <2>4, <1>3 DEF Distinct
  <2>5. CASE chain'[i].handle = chain'[j].handle /\ (i = n \/ j = n)
    <3>1. \A m \in DOMAIN chain : m # n => chain'[m].handle # nextHandle
      BY <2>1, <1>1
    <3> QED BY <3>1, <2>5, <1>2
  <2> QED BY <2>3, <2>4, <2>5, <1>4
<1>5. ASSUME NEW h, NEW x, Holds(chain', h, x)
      PROVE  Holds(chain, h, x) \/ (h = nextHandle /\ x = chain[k].id)
  <2>1. PICK i \in DOMAIN chain : chain'[i].handle = h /\ chain'[i].id = x
    BY <1>2, <1>5 DEF Holds
  <2> QED BY <2>1, <1>2 DEF Holds
<1>6. chain[k].id \in Nat /\ chain[k].id <= nextHandle
  BY <1>1 DEF Rule
<1> QED BY <1>1, <1>2, <1>4, <1>5, <1>6
           DEF GoodChain, Grown, Distinct, TakeHandle

(* Each command, and each batch of another program, keeps the chain good.  *)
LEMMA ChainStep ==
  ASSUME IInv, [Next]_vars
  PROVE  GoodChain
<1>1. /\ chain \in Seq(Rule) /\ Len(chain) \in Nat
      /\ DOMAIN chain = 1 .. Len(chain)
  BY ChainFacts
<1>2. ASSUME NEW h, Has(chain, h)
      PROVE  Find(chain, h) \in DOMAIN chain
  BY <1>1, <1>2, FindFacts
<1>3. FirstBody \in Body
  OBVIOUS
<1>4. ASSUME NEW j \in Job, DeleteRule(j) PROVE GoodChain
  <2>1. /\ Has(chain, jobs[j].handle) /\ UNCHANGED nextHandle
        /\ chain' = RemoveAt(chain, Find(chain, jobs[j].handle))
    BY <1>4 DEF DeleteRule, Write, DelRule
  <2> QED BY <2>1, <1>2, GoodRemove
<1>5. ASSUME NEW j \in Job, MoveRuleUp(j) PROVE GoodChain
  <2> DEFINE k == Find(chain, jobs[j].handle)
  <2>1. k \in DOMAIN chain
    BY <1>2, <1>5 DEF MoveRuleUp
  <2>2. IF k = 1 THEN chain' = chain /\ UNCHANGED nextHandle
                 ELSE chain' = Swapped(k, k - 1) /\ TakeHandle
    BY <1>5 DEF MoveRuleUp, Write
  <2> HIDE DEF k
  <2>3. k # 1 => k - 1 \in DOMAIN chain /\ k - 1 # k
    BY <2>1, <1>1
  <2> QED BY <2>1, <2>2, <2>3, SameChain, GoodSwap
<1>6. ASSUME NEW j \in Job, MoveRuleDown(j) PROVE GoodChain
  <2> DEFINE k == Find(chain, jobs[j].handle)
  <2>1. k \in DOMAIN chain
    BY <1>2, <1>6 DEF MoveRuleDown
  <2>2. IF k = Len(chain) THEN chain' = chain /\ UNCHANGED nextHandle
                          ELSE chain' = Swapped(k, k + 1) /\ TakeHandle
    BY <1>6 DEF MoveRuleDown, Write
  <2> HIDE DEF k
  <2>3. k # Len(chain) => k + 1 \in DOMAIN chain /\ k + 1 # k
    BY <2>1, <1>1
  <2> QED BY <2>1, <2>2, <2>3, SameChain, GoodSwap
<1>7. ASSUME NEW j \in Job, AddNewRuleToChain(j) PROVE GoodChain
  <2>1. /\ chain' = Append(chain, Fresh(nextHandle, FirstBody))
        /\ TakeHandle
    BY <1>7 DEF AddNewRuleToChain, Write
  <2>2. Fresh(nextHandle, FirstBody) \in Rule
    BY ChainFacts, <1>3 DEF Fresh, Rule
  <2>3. /\ Len(chain) + 1 \in 1 .. Len(chain) + 1
        /\ chain' = InsertAt(chain, Len(chain) + 1,
                             Fresh(nextHandle, FirstBody))
    BY <2>1, <2>2, <1>1, AppendIsInsert
  <2> QED BY <2>1, <2>3, <1>3, GoodInsert
<1>8. ASSUME NEW j \in Job, InsertNewRuleBefore(j) PROVE GoodChain
  <2> DEFINE i == IF jobs[j].handle = 0 THEN 1
                  ELSE Find(chain, jobs[j].handle) + 1
  <2>1. /\ chain' = InsertAt(chain, i, Fresh(nextHandle, FirstBody))
        /\ TakeHandle
    BY <1>8 DEF InsertNewRuleBefore, Write, AddAfter
  <2>2. i \in 1 .. Len(chain) + 1
    <3>1. jobs[j].handle # 0 => Find(chain, jobs[j].handle) \in DOMAIN chain
      BY <1>2, <1>8 DEF InsertNewRuleBefore
    <3> QED BY <3>1, <1>1
  <2> HIDE DEF i
  <2> QED BY <2>1, <2>2, <1>3, GoodInsert
<1>9. CASE External
  <2>1. CASE \E i \in 1 .. Len(chain) + 1 :
               /\ chain' = InsertAt(chain, i, Fresh(nextHandle, FirstBody))
               /\ TakeHandle
    BY <2>1, <1>3, GoodInsert
  <2>2. CASE \E i \in DOMAIN chain :
               chain' = RemoveAt(chain, i) /\ UNCHANGED nextHandle
    BY <2>2, GoodRemove
  <2>3. CASE \E i \in DOMAIN chain, b \in Body :
               /\ chain' = [chain EXCEPT ![i].body = b]
               /\ UNCHANGED nextHandle
    BY <2>3, GoodReplace
  <2> QED BY <1>9, <2>1, <2>2, <2>3 DEF External
<1>10. ASSUME NEW j \in Job,
              \/ Keys(j) \/ Answers(j) \/ Refused(j) \/ fetchFreshRule(j)
       PROVE  UNCHANGED <<chain, nextHandle>>
  BY <1>10 DEF Keys, OpenRule, ConfirmDelete, MoveRule, NewRule, Answers,
     ruleDeletedMsg, ruleMovedMsg, ruleSelectedMsg, chainOpErrMsg, Answered,
     Refused, fetchFreshRule, Fetched, kernelVars
<1>11. ASSUME \/ SelectChain \/ LeaveChain \/ BackToChain
              \/ Up \/ Down \/ EnterFilter \/ ExitFilter \/ Type \/ Backspace
              \/ Resize \/ Delete \/ DeclineDelete \/ UNCHANGED vars
       PROVE  UNCHANGED <<chain, nextHandle>>
  BY <1>11 DEF SelectChain, LeaveChain, BackToChain, Up, Down, EnterFilter,
     ExitFilter, Type, Backspace, Filter, Resize, Delete, DeclineDelete,
     vars, kernelVars
<1> QED BY <1>4, <1>5, <1>6, <1>7, <1>8, <1>9, <1>10, <1>11, SameChain
        DEF Next, Commands

-----------------------------------------------------------------------------
(* The commands in flight.                                                 *)

(* After a step: the commands are as they should be, and a goroutine that  *)
(* goes to fetch a rule takes a handle for the rule that others do.        *)
Fetches == \A i \in Job :
  jobs'[i].kind \in Opening /\ jobs'[i].stage = "asked"
    => Mention(jobs'[i].handle, jobs'[i].id)

GoodJobs == jobs' \in [Job -> JobRecord] /\ JobsInv' /\ Fetches

(* What the invariant says of one command.                                 *)
LEMMA JobFacts ==
  ASSUME IInv, NEW j \in Job
  PROVE  /\ jobs[j] \in JobRecord /\ JobInv(jobs[j])
         /\ jobs[j].kind \in Opening /\ jobs[j].stage = "asked"
              => Mention(jobs[j].handle, jobs[j].id)
BY DEF IInv, JobsType, JobsInv, Mention

(* It says nothing of a command that has not started.                      *)
LEMMA IdleFacts ==
  /\ IdleJob \in JobRecord /\ JobInv(IdleJob)
  /\ IdleJob.stage = "idle" /\ IdleJob.kind = "none" /\ ~IdleJob.calm
BY DEF IdleJob, JobRecord, JobInv, Tracked, Writing, Moving

(* A step that leaves the commands and the chain alone keeps what is said  *)
(* of them.                                                                *)
LEMMA SameJobs ==
  ASSUME IInv, UNCHANGED <<jobs, chain, readOnly>>
  PROVE  GoodJobs
<1>1. jobs' \in [Job -> JobRecord] /\ Fetches
  BY JobFacts DEF IInv, JobsType, Fetches
<1>2. JobsInv'
  BY DEF IInv, JobsInv, JobInv, Tracked, Goal
<1> QED BY <1>1, <1>2 DEF GoodJobs

(* One command goes on, and the chain stays as it is.                      *)
LEMMA OneJob ==
  ASSUME IInv, NEW j \in Job, NEW r \in JobRecord, JobInv(r),
         jobs' = [jobs EXCEPT ![j] = r], UNCHANGED <<chain, readOnly>>,
         r.kind \in Opening /\ r.stage = "asked" => Mention(r.handle, r.id)
  PROVE  GoodJobs
<1>1. /\ jobs \in [Job -> JobRecord]
      /\ \A i \in Job : jobs'[i] = IF i = j THEN r ELSE jobs[i]
  BY DEF IInv, JobsType
<1>2. jobs' \in [Job -> JobRecord]
  BY <1>1
<1>3. Fetches
  BY <1>1, JobFacts DEF Fetches
<1>4. ASSUME NEW i \in Job PROVE JobInv(jobs[i])'
  <2>1. PICK x : x = jobs'[i] /\ JobInv(x)
    BY <1>1, JobFacts
  <2> QED BY <2>1 DEF JobInv, Tracked, Goal
<1> QED BY <1>2, <1>3, <1>4 DEF GoodJobs, JobsInv

(* A key starts a command.  A move that is asked of an up to date list     *)
(* knows its rule.                                                         *)
LEMMA AskJob ==
  ASSUME IInv, NEW j \in Job, NEW kind \in Writing \cup Opening,
         NEW handle \in Nat, NEW id \in Nat, Ask(j, kind, handle, id),
         UNCHANGED <<chain, readOnly>>,
         readOnly => kind \notin Writing \cup {"edit"},
         kind \in Opening => Mention(handle, id) /\ Selected.body \in Body,
         kind = "up" => cursor > 0,
         kind \in Moving /\ rules = chain =>
           /\ cursor < Len(chain)
           /\ chain[cursor + 1].handle = handle /\ chain[cursor + 1].id = id
           /\ kind = "down" => cursor + 1 < Len(chain)
  PROVE  GoodJobs
<1> DEFINE r == [IdleJob EXCEPT
                   !.kind = kind, !.stage = "asked", !.handle = handle,
                   !.id = id, !.calm = kind \in Moving /\ rules = chain,
                   !.body = IF kind \in Opening THEN Selected.body ELSE @,
                   !.at = IF kind \in Moving \cup Opening THEN cursor ELSE 0]
<1>1. jobs' = [jobs EXCEPT ![j] = r]
  BY DEF Ask
<1>2. cursor \in Nat
  BY DEF IInv, ScreenInv, ScreenType
<1>3. /\ r.kind = kind /\ r.stage = "asked" /\ r.handle = handle
      /\ r.id = id /\ (r.calm <=> kind \in Moving /\ rules = chain)
      /\ r.at = IF kind \in Moving \cup Opening THEN cursor ELSE 0
  BY DEF IdleJob
<1>4. r \in JobRecord
  BY <1>2 DEF IdleJob, JobRecord
<1> HIDE DEF r
<1>5. JobInv(r)
  <2>1. kind = "up" => r.at > 0
    BY <1>3 DEF Moving
  <2>2. Tracked(r)
    BY <1>3 DEF Tracked
  <2> QED BY <2>1, <2>2, <1>3 DEF JobInv
<1> QED BY <1>1, <1>3, <1>4, <1>5, OneJob

(* What a message holds. *)
LEMMA MessageFacts ==
  ASSUME IInv, NEW j \in Job, jobs[j].stage = "asked",
         NEW stage \in {"ok", "error"}
  PROVE  LET m == Message(j, stage)
         IN  /\ m \in JobRecord /\ m.kind = jobs[j].kind /\ m.stage = stage
             /\ jobs[j].kind \in Moving /\ stage = "ok" =>
                  m.at = jobs[j].at /\ m.id = jobs[j].id
                    /\ m.calm = jobs[j].calm
             /\ ~(jobs[j].kind \in Moving /\ stage = "ok") => ~m.calm
<1>1. jobs[j] \in JobRecord
  BY JobFacts
<1>2. CASE jobs[j].kind \in Moving /\ stage = "ok"
  <2>1. Message(j, stage) = [jobs[j] EXCEPT !.stage = stage]
    BY <1>2 DEF Message
  <2>2. ASSUME NEW x \in JobRecord
        PROVE  LET m == [x EXCEPT !.stage = stage]
               IN  /\ m \in JobRecord /\ m.kind = x.kind /\ m.stage = stage
                   /\ m.at = x.at /\ m.id = x.id /\ m.calm = x.calm
    BY DEF JobRecord
  <2> QED BY <1>1, <1>2, <2>1, <2>2
<1>3. CASE ~(jobs[j].kind \in Moving /\ stage = "ok")
  <2>1. Message(j, stage) = [IdleJob EXCEPT !.kind = jobs[j].kind,
                                            !.stage = stage]
    BY <1>3 DEF Message
  <2>2. ASSUME NEW k \in Writing \cup Opening \cup {"none"}
        PROVE  LET m == [IdleJob EXCEPT !.kind = k, !.stage = stage]
               IN  /\ m \in JobRecord /\ m.kind = k /\ m.stage = stage
                   /\ ~m.calm
    BY DEF JobRecord, IdleJob
  <2>3. jobs[j].kind \in Writing \cup Opening \cup {"none"}
    BY <1>1 DEF JobRecord
  <2> QED BY <1>3, <2>1, <2>2, <2>3
<1> QED BY <1>2, <1>3

(* A command writes to the chain; a calm move leaves its rule where its    *)
(* message says.                                                           *)
LEMMA WriteJobs ==
  ASSUME IInv, NEW j \in Job, jobs[j].stage = "asked", NEW s, Write(j, s),
         jobs[j].calm => /\ Goal(jobs[j]) < Len(s)
                         /\ s[Goal(jobs[j]) + 1].id = jobs[j].id
  PROVE  GoodJobs
<1> DEFINE m == Message(j, "ok")
<1>1. /\ chain' = s /\ readOnly' = readOnly
      /\ jobs' = [i \in Job |-> IF i = j THEN m
                                ELSE [jobs[i] EXCEPT !.calm = FALSE]]
  BY DEF Write, screenVars
<1>2. /\ m \in JobRecord /\ m.kind = jobs[j].kind /\ m.stage = "ok"
      /\ m.calm => /\ jobs[j].kind \in Moving /\ jobs[j].calm
                   /\ m.at = jobs[j].at /\ m.id = jobs[j].id
      /\ m.kind = "up" => m.at = jobs[j].at
  BY MessageFacts DEF Moving
<1> HIDE DEF m
<1>3. \A i \in Job \ {j} :
        /\ jobs'[i] \in JobRecord /\ ~jobs'[i].calm
        /\ jobs'[i].kind = jobs[i].kind /\ jobs'[i].stage = jobs[i].stage
        /\ jobs'[i].at = jobs[i].at /\ jobs'[i].id = jobs[i].id
        /\ jobs'[i].handle = jobs[i].handle
  <2>1. ASSUME NEW x \in JobRecord
        PROVE  LET y == [x EXCEPT !.calm = FALSE]
               IN  /\ y \in JobRecord /\ ~y.calm
                   /\ y.kind = x.kind /\ y.stage = x.stage
                   /\ y.at = x.at /\ y.id = x.id /\ y.handle = x.handle
    BY DEF JobRecord
  <2>2. ASSUME NEW i \in Job \ {j}
        PROVE  /\ jobs[i] \in JobRecord
               /\ jobs'[i] = [jobs[i] EXCEPT !.calm = FALSE]
    BY <1>1, JobFacts
  <2>3. ASSUME NEW i \in Job \ {j}
        PROVE  /\ jobs'[i] \in JobRecord /\ ~jobs'[i].calm
               /\ jobs'[i].kind = jobs[i].kind
               /\ jobs'[i].stage = jobs[i].stage
               /\ jobs'[i].at = jobs[i].at /\ jobs'[i].id = jobs[i].id
               /\ jobs'[i].handle = jobs[i].handle
    BY <2>1, <2>2
  <2> QED BY <2>3
<1>4. jobs'[j] = m
  BY <1>1
<1>5. jobs' \in [Job -> JobRecord]
  BY <1>1, <1>2, <1>3, <1>4
<1>6. Fetches
  BY <1>2, <1>3, <1>4, JobFacts DEF Fetches
<1>7. ASSUME NEW i \in Job PROVE JobInv(jobs[i])'
  <2>1. JobInv(jobs[i])
    BY JobFacts
  <2>2. CASE i # j
    BY <2>1, <2>2, <1>1, <1>3 DEF JobInv, Tracked
  <2>3. CASE i = j
    <3>1. Tracked(jobs[i])'
      BY <2>3, <1>1, <1>2, <1>4 DEF Tracked, Goal
    <3> QED BY <3>1, <2>1, <2>3, <1>1, <1>2, <1>4 DEF JobInv
  <2> QED BY <2>2, <2>3
<1> QED BY <1>5, <1>6, <1>7 DEF GoodJobs, JobsInv

(* The rule under the cursor is a rule of the list.                        *)
LEMMA SelectedFacts ==
  ASSUME IInv
  PROVE  /\ rules \in Seq(Rule) /\ Len(rules) \in Nat /\ cursor \in Nat
         /\ \A i \in 1 .. Len(rules) :
              /\ rules[i] \in Rule
              /\ rules[i].handle \in Nat /\ rules[i].id \in Nat
              /\ rules[i].body \in Body
              /\ Mention(rules[i].handle, rules[i].id)
         /\ OnRule => \E i \in 1 .. Len(rules) : Selected = rules[i]
         /\ ~filterMode => activeRules = rules /\ Selected = rules[cursor + 1]
<1>1. /\ ScreenType /\ rules \in Seq(Rule) /\ Len(rules) \in Nat
      /\ DOMAIN rules = 1 .. Len(rules) /\ cursor \in Nat
  BY LenProperties DEF IInv, ScreenInv, ScreenType
<1>2. /\ Len(activeRules) \in Nat
      /\ \A n \in 1 .. Len(activeRules) :
           \E i \in DOMAIN rules : activeRules[n] = rules[i]
      /\ ~filterMode => activeRules = rules
  BY <1>1, ActiveFacts
<1>3. ASSUME NEW i \in 1 .. Len(rules)
      PROVE  /\ rules[i] \in Rule
             /\ rules[i].handle \in Nat /\ rules[i].id \in Nat
             /\ rules[i].body \in Body
             /\ Mention(rules[i].handle, rules[i].id)
  <2>1. rules[i] \in Rule
    BY <1>1, ElementOfSeq
  <2>2. Mention(rules[i].handle, rules[i].id)
    BY <1>1 DEF Mention, Holds
  <2> QED BY <2>1, <2>2 DEF Rule
<1>4. ASSUME OnRule PROVE \E i \in 1 .. Len(rules) : Selected = rules[i]
  <2>1. cursor + 1 \in 1 .. Len(activeRules)
    BY <1>1, <1>2, <1>4 DEF OnRule
  <2> QED BY <2>1, <1>1, <1>2 DEF Selected
<1>5. ~filterMode => activeRules = rules /\ Selected = rules[cursor + 1]
  BY <1>2 DEF Selected
<1> QED BY <1>1, <1>3, <1>4, <1>5

(* The keys that start a command give it what the invariant asks.          *)
LEMMA KeysJobs ==
  ASSUME IInv, NEW j \in Job, Keys(j)
  PROVE  GoodJobs
<1>1. UNCHANGED <<chain, readOnly>>
  BY DEF Keys, OpenRule, ConfirmDelete, MoveRule, NewRule, kernelVars,
     screenVars
<1>2. CASE OpenRule(j)
  <2>1. PICK kind \in Opening :
          /\ kind = "edit" => ~readOnly
          /\ Ask(j, kind, Selected.handle, Selected.id)
    BY <1>2 DEF OpenRule
  <2>2. /\ Selected.handle \in Nat /\ Selected.id \in Nat
        /\ Mention(Selected.handle, Selected.id) /\ Selected.body \in Body
    BY <1>2, SelectedFacts DEF OpenRule
  <2>3. /\ kind \in Writing \cup Opening /\ kind # "up" /\ kind \notin Moving
        /\ readOnly => kind \notin Writing \cup {"edit"}
    BY <2>1 DEF Opening, Writing, Moving
  <2> QED BY <2>1, <2>2, <2>3, <1>1, AskJob
<1>3. CASE ConfirmDelete(j)
  <2>1. CASE cursor < Len(rules)
    <3>1. /\ Ask(j, "delete", rules[cursor + 1].handle, rules[cursor + 1].id)
          /\ showDeleteConfirm
      BY <1>3, <2>1 DEF ConfirmDelete
    <3>2. rules[cursor + 1].handle \in Nat /\ rules[cursor + 1].id \in Nat
      BY <2>1, SelectedFacts
    <3>3. ~readOnly
      BY <3>1 DEF IInv, ScreenInv, Dialog
    <3>4. /\ "delete" \in Writing \cup Opening
          /\ "delete" \notin Moving \cup Opening
      BY DEF Writing, Opening, Moving
    <3> QED BY <3>1, <3>2, <3>3, <3>4, <1>1, AskJob
  <2>2. CASE ~(cursor < Len(rules))
    BY <1>1, <1>3, <2>2, SameJobs DEF ConfirmDelete
  <2> QED BY <2>1, <2>2
<1>4. CASE MoveRule(j)
  <2>1. /\ ~filterMode /\ ~readOnly /\ OnRule
        /\ \/ cursor > 0 /\ Ask(j, "up", Selected.handle, Selected.id)
           \/ /\ cursor + 1 < Len(rules)
              /\ Ask(j, "down", Selected.handle, Selected.id)
    BY <1>4 DEF MoveRule, Normal
  <2>2. /\ Selected = rules[cursor + 1] /\ cursor < Len(rules)
        /\ Selected.handle \in Nat /\ Selected.id \in Nat
    BY <2>1, SelectedFacts DEF OnRule
  <2>3. /\ "up" \in Writing \cup Opening /\ "up" \notin Opening
        /\ "down" \in Writing \cup Opening /\ "down" \notin Opening
    BY DEF Writing, Opening, Moving
  <2>4. CASE cursor > 0 /\ Ask(j, "up", Selected.handle, Selected.id)
    BY <2>1, <2>2, <2>3, <2>4, <1>1, AskJob
  <2>5. CASE /\ cursor + 1 < Len(rules)
             /\ Ask(j, "down", Selected.handle, Selected.id)
    BY <2>1, <2>2, <2>3, <2>5, <1>1, AskJob
  <2> QED BY <2>1, <2>4, <2>5
<1>5. CASE NewRule(j)
  <2> DEFINE h == IF cursor = 0 THEN 0 ELSE rules[cursor].handle
  <2>1. /\ open /\ ~readOnly
        /\ Ask(j, "add", 0, 0) \/ Ask(j, "insert", h, 0)
    BY <1>5 DEF NewRule, Normal, Browsing
  <2>2. h \in Nat
    <3>1. cursor # 0 => cursor \in 1 .. Len(rules)
      BY <2>1, SelectedFacts DEF IInv, ScreenInv, OnScreen
    <3> QED BY <3>1, SelectedFacts
  <2>3. \A k \in {"add", "insert"} :
          k \in Writing \cup Opening /\ k \notin Opening \cup Moving
    BY DEF Writing, Opening, Moving
  <2> HIDE DEF h
  <2>4. CASE Ask(j, "add", 0, 0)
    BY <2>1, <2>3, <2>4, <1>1, AskJob
  <2>5. CASE Ask(j, "insert", h, 0)
    BY <2>1, <2>2, <2>3, <2>5, <1>1, AskJob
  <2> QED BY <2>1, <2>4, <2>5
<1> QED BY <1>2, <1>3, <1>4, <1>5 DEF Keys

(* The commands keep it when they reach the kernel.                        *)
LEMMA CommandsJobs ==
  ASSUME IInv, NEW j \in Job, Commands(j)
  PROVE  GoodJobs
<1>1. /\ jobs[j] \in JobRecord /\ JobInv(jobs[j]) /\ jobs[j].stage = "asked"
      /\ jobs[j].at \in Nat
  <2>1. jobs[j].stage = "asked"
    BY DEF Commands, DeleteRule, MoveRuleUp, MoveRuleDown, AddNewRuleToChain,
       InsertNewRuleBefore, Refused, fetchFreshRule
  <2> QED BY <2>1, JobFacts DEF JobRecord
<1>2. /\ Distinct(chain) /\ DOMAIN chain = 1 .. Len(chain)
      /\ chain \in Seq(Rule) /\ Len(chain) \in Nat
  BY ChainFacts DEF IInv, Identified
<1>3. ASSUME jobs[j].calm, Has(chain, jobs[j].handle)
      PROVE  /\ Find(chain, jobs[j].handle) = jobs[j].at + 1
             /\ jobs[j].at + 1 \in DOMAIN chain
             /\ chain[jobs[j].at + 1].id = jobs[j].id
  <2> DEFINE k == Find(chain, jobs[j].handle)
  <2>1. k \in DOMAIN chain /\ chain[k].handle = jobs[j].handle
    BY <1>2, <1>3, FindFacts
  <2>2. /\ jobs[j].at + 1 \in DOMAIN chain
        /\ chain[jobs[j].at + 1].handle = jobs[j].handle
        /\ chain[jobs[j].at + 1].id = jobs[j].id
    BY <1>1, <1>2, <1>3 DEF JobInv, Tracked
  <2> HIDE DEF k
  <2>3. k = jobs[j].at + 1
    BY <2>1, <2>2, <1>2 DEF Distinct
  <2> QED BY <2>2, <2>3 DEF k
<1>4. ASSUME jobs[j].kind \notin Moving, NEW s, Write(j, s) PROVE GoodJobs
  <2>1. ~jobs[j].calm
    BY <1>1, <1>4 DEF JobInv, Tracked
  <2> QED BY <2>1, <1>1, <1>4, WriteJobs
<1>5. CASE DeleteRule(j)
  <2>1. jobs[j].kind \notin Moving /\ \E s : Write(j, s)
    BY <1>5 DEF DeleteRule, Moving
  <2> QED BY <2>1, <1>4
<1>6. CASE AddNewRuleToChain(j)
  <2>1. jobs[j].kind \notin Moving /\ \E s : Write(j, s)
    BY <1>6 DEF AddNewRuleToChain, Moving
  <2> QED BY <2>1, <1>4
<1>7. CASE InsertNewRuleBefore(j)
  <2>1. jobs[j].kind \notin Moving /\ \E s : Write(j, s)
    BY <1>7 DEF InsertNewRuleBefore, Moving
  <2> QED BY <2>1, <1>4
<1>8. CASE MoveRuleUp(j)
  <2> DEFINE k == Find(chain, jobs[j].handle)
  <2>1. /\ jobs[j].kind = "up" /\ Has(chain, jobs[j].handle)
        /\ IF k = 1 THEN Write(j, chain) ELSE Write(j, Swapped(k, k - 1))
    BY <1>8 DEF MoveRuleUp
  <2>2. k \in DOMAIN chain
    BY <2>1, <1>2, FindFacts
  <2>3. jobs[j].calm => /\ k = jobs[j].at + 1 /\ jobs[j].at > 0
                        /\ chain[k].id = jobs[j].id
    BY <2>1, <1>1, <1>3 DEF JobInv
  <2> HIDE DEF k
  <2>4. CASE k = 1
    <3>1. ~jobs[j].calm
      BY <2>3, <2>4, <1>1
    <3> QED BY <3>1, <2>1, <2>4, <1>1, WriteJobs
  <2>5. CASE k # 1
    <3>1. k - 1 \in DOMAIN chain /\ k - 1 # k
      BY <2>2, <2>5, <1>2
    <3>2. /\ Len(Swapped(k, k - 1)) = Len(chain)
          /\ Swapped(k, k - 1)[k - 1].id = chain[k].id
      BY <3>1, <2>2, SwappedFacts
    <3>3. jobs[j].calm => /\ Goal(jobs[j]) + 1 = k - 1
                          /\ Goal(jobs[j]) < Len(chain)
      BY <2>1, <2>2, <2>3, <1>1, <1>2 DEF Goal
    <3> QED BY <3>2, <3>3, <2>1, <2>3, <2>5, <1>1, WriteJobs
  <2> QED BY <2>4, <2>5
<1>9. CASE MoveRuleDown(j)
  <2> DEFINE k == Find(chain, jobs[j].handle)
  <2>1. /\ jobs[j].kind = "down" /\ Has(chain, jobs[j].handle)
        /\ IF k = Len(chain) THEN Write(j, chain)
                             ELSE Write(j, Swapped(k, k + 1))
    BY <1>9 DEF MoveRuleDown
  <2>2. k \in DOMAIN chain
    BY <2>1, <1>2, FindFacts
  <2>3. jobs[j].calm => /\ k = jobs[j].at + 1
                        /\ jobs[j].at + 1 < Len(chain)
                        /\ chain[k].id = jobs[j].id
    BY <2>1, <1>1, <1>3 DEF JobInv, Tracked
  <2> HIDE DEF k
  <2>4. CASE k = Len(chain)
    <3>1. ~jobs[j].calm
      BY <2>3, <2>4, <1>1, <1>2
    <3> QED BY <3>1, <2>1, <2>4, <1>1, WriteJobs
  <2>5. CASE k # Len(chain)
    <3>1. k + 1 \in DOMAIN chain /\ k + 1 # k
      BY <2>2, <2>5, <1>2
    <3>2. /\ Len(Swapped(k, k + 1)) = Len(chain)
          /\ Swapped(k, k + 1)[k + 1].id = chain[k].id
      BY <3>1, <2>2, SwappedFacts
    <3>3. jobs[j].calm => /\ Goal(jobs[j]) + 1 = k + 1
                          /\ Goal(jobs[j]) < Len(chain)
      BY <2>1, <2>2, <2>3, <1>1, <1>2 DEF Goal
    <3> QED BY <3>2, <3>3, <2>1, <2>3, <2>5, <1>1, WriteJobs
  <2> QED BY <2>4, <2>5
<1>10. CASE Refused(j)
  <2> DEFINE m == Message(j, "error")
  <2>1. /\ jobs' = [jobs EXCEPT ![j] = m] /\ UNCHANGED <<chain, readOnly>>
    BY <1>10 DEF Refused, kernelVars, screenVars
  <2>2. /\ m \in JobRecord /\ m.kind = jobs[j].kind /\ m.stage = "error"
        /\ ~m.calm
    BY <1>1, MessageFacts
  <2> HIDE DEF m
  <2>3. JobInv(m)
    BY <2>2, <1>1 DEF JobInv, Tracked
  <2> QED BY <2>1, <2>2, <2>3, OneJob
<1>11. CASE fetchFreshRule(j)
  <2>0. PICK r : /\ \E listed \in BOOLEAN : Fetched(j, r, listed)
                 /\ r.id \in Nat /\ r.body \in Body
    <3>1. /\ jobs[j].id \in Nat /\ jobs[j].body \in Body
          /\ jobs[j].at < Len(chain) =>
               /\ chain[jobs[j].at + 1].id \in Nat
               /\ chain[jobs[j].at + 1].body \in Body
          /\ Has(chain, jobs[j].handle) =>
               /\ chain[Find(chain, jobs[j].handle)].id \in Nat
               /\ chain[Find(chain, jobs[j].handle)].body \in Body
      <4>1. \A i \in DOMAIN chain :
              chain[i].id \in Nat /\ chain[i].body \in Body
        BY ChainFacts DEF Rule
      <4>2. jobs[j].id \in Nat /\ jobs[j].body \in Body
        BY <1>1 DEF JobRecord
      <4>3. Has(chain, jobs[j].handle)
              => Find(chain, jobs[j].handle) \in DOMAIN chain
        BY <1>2, FindFacts
      <4> QED BY <4>1, <4>2, <4>3, <1>1, <1>2
    <3> QED BY <3>1, <1>11 DEF fetchFreshRule
  <2>1. PICK listed \in BOOLEAN : Fetched(j, r, listed)
    BY <2>0
  <2> DEFINE m == Message(j, "ok")
             n == [m EXCEPT !.opened = r.id, !.body = r.body,
                            !.listed = listed]
  <2>2. jobs[j].kind \notin Moving
    BY <1>11 DEF fetchFreshRule, Fetched, Opening, Moving
  <2>3. /\ m \in JobRecord /\ m.kind = jobs[j].kind /\ m.stage = "ok"
        /\ ~m.calm
    BY <1>1, <2>2, MessageFacts
  <2> HIDE DEF m
  <2>4. /\ n \in JobRecord /\ n.kind = jobs[j].kind /\ n.stage = "ok"
        /\ ~n.calm
    BY <2>0, <2>1, <2>3 DEF JobRecord
  <2>5. jobs' = [jobs EXCEPT ![j] = n] /\ UNCHANGED <<chain, readOnly>>
    BY <2>1 DEF Fetched, kernelVars, screenVars, m
  <2> HIDE DEF n
  <2>6. JobInv(n)
    BY <2>2, <2>4, <1>1 DEF JobInv, Tracked, Moving
  <2> QED BY <2>4, <2>5, <2>6, OneJob
<1> QED BY <1>5, <1>6, <1>7, <1>8, <1>9, <1>10, <1>11 DEF Commands

(* Every step keeps what is said of the commands.                          *)
LEMMA JobsStep == IInv /\ [Next]_vars => GoodJobs
<1> SUFFICES ASSUME IInv, [Next]_vars PROVE GoodJobs
  OBVIOUS
<1>1. ASSUME NEW j \in Job, Answers(j) PROVE GoodJobs
  <2>1. /\ jobs' = [jobs EXCEPT ![j] = IdleJob]
        /\ UNCHANGED <<chain, readOnly>>
    BY <1>1 DEF Answers, ruleDeletedMsg, ruleMovedMsg, ruleSelectedMsg,
       chainOpErrMsg, Answered, kernelVars
  <2> QED BY <2>1, IdleFacts, OneJob
<1>2. CASE External
  <2>1. /\ readOnly' = readOnly
        /\ jobs' = [i \in Job |-> [jobs[i] EXCEPT !.calm = FALSE]]
    BY <1>2 DEF External, screenVars
  <2>2. \A i \in Job :
          /\ jobs'[i] \in JobRecord /\ ~jobs'[i].calm
          /\ jobs'[i].kind = jobs[i].kind /\ jobs'[i].stage = jobs[i].stage
          /\ jobs'[i].at = jobs[i].at /\ jobs'[i].id = jobs[i].id
          /\ jobs'[i].handle = jobs[i].handle
    <3>1. ASSUME NEW x \in JobRecord
          PROVE  LET y == [x EXCEPT !.calm = FALSE]
                 IN  /\ y \in JobRecord /\ ~y.calm
                     /\ y.kind = x.kind /\ y.stage = x.stage
                     /\ y.at = x.at /\ y.id = x.id /\ y.handle = x.handle
      BY DEF JobRecord
    <3>2. \A i \in Job : /\ jobs[i] \in JobRecord
                         /\ jobs'[i] = [jobs[i] EXCEPT !.calm = FALSE]
      BY <2>1, JobFacts
    <3> QED BY <3>1, <3>2
  <2>3. jobs' \in [Job -> JobRecord]
    BY <2>1, <2>2
  <2>4. Fetches
    BY <2>2, JobFacts DEF Fetches
  <2>5. JobsInv'
    BY <2>1, <2>2, JobFacts DEF JobsInv, JobInv, Tracked
  <2> QED BY <2>3, <2>4, <2>5 DEF GoodJobs
<1>3. ASSUME \/ SelectChain \/ LeaveChain \/ BackToChain
             \/ Up \/ Down \/ EnterFilter \/ ExitFilter \/ Type \/ Backspace
             \/ Resize \/ Delete \/ DeclineDelete \/ UNCHANGED vars
      PROVE  GoodJobs
  <2>1. UNCHANGED <<jobs, chain, readOnly>>
    BY <1>3 DEF SelectChain, LeaveChain, BackToChain, Up, Down, EnterFilter,
       ExitFilter, Type, Backspace, Filter, Resize, Delete, DeclineDelete,
       vars, kernelVars, screenVars
  <2> QED BY <2>1, SameJobs
<1> QED BY <1>1, <1>2, <1>3, KeysJobs, CommandsJobs DEF Next

-----------------------------------------------------------------------------
(* The dialog that opened while no command was under way.                  *)

(* Nothing but the keys of the dialog ends its rest.                       *)
LEMMA UndisturbedStep == IInv /\ [Next]_vars => Undisturbed'
<1> SUFFICES ASSUME IInv, [Next]_vars, showDeleteConfirm', alone'
             PROVE  /\ activeView' = "chain"
                    /\ \A j \in Job : jobs'[j].stage = "idle"
                    /\ cursor' < Len(rules')
                    /\ rules'[cursor' + 1].id = target'
  BY DEF Undisturbed
<1> DEFINE Rests == /\ activeView = "chain"
                    /\ \A j \in Job : jobs[j].stage = "idle"
                    /\ cursor < Len(rules) /\ rules[cursor + 1].id = target
<1>1. showDeleteConfirm /\ alone => Rests
  BY DEF IInv, Undisturbed
<1>2. CASE Delete
  <2>1. /\ activeView = "chain" /\ ~filterMode /\ cursor < Len(activeRules)
        /\ target' = Selected.id /\ \A j \in Job : jobs[j].stage = "idle"
        /\ UNCHANGED <<rules, cursor, activeView, jobs>>
    BY <1>2 DEF Delete, Normal, Browsing, OnRule, listVars, screenVars
  <2>2. activeRules = rules /\ Selected = rules[cursor + 1]
    BY <2>1, SelectedFacts
  <2> QED BY <2>1, <2>2
<1>3. ASSUME showDeleteConfirm, alone,
             UNCHANGED <<listVars, target, activeView>>,
             \A j \in Job : jobs'[j].stage = jobs[j].stage
      PROVE  Rests'
  BY <1>1, <1>3 DEF listVars
<1>4. CASE External
  <2>1. \A j \in Job : jobs'[j].stage = jobs[j].stage
    <3>1. ASSUME NEW x \in JobRecord
          PROVE  [x EXCEPT !.calm = FALSE].stage = x.stage
      BY DEF JobRecord
    <3>2. \A j \in Job : /\ jobs[j] \in JobRecord
                         /\ jobs'[j] = [jobs[j] EXCEPT !.calm = FALSE]
      BY <1>4, JobFacts DEF External
    <3> QED BY <3>1, <3>2
  <2> QED BY <2>1, <1>3, <1>4 DEF External, modeVars, screenVars
<1>5. CASE Resize \/ UNCHANGED vars
  <2>1. UNCHANGED <<listVars, modeVars, activeView, jobs>>
    BY <1>5 DEF Resize, vars, screenVars
  <2> QED BY <2>1, <1>3 DEF modeVars
<1>6. ASSUME NEW j \in Job, Commands(j) \/ Answers(j) PROVE FALSE
  <2>1. jobs[j].stage # "idle"
    BY <1>6 DEF Commands, DeleteRule, MoveRuleUp, MoveRuleDown,
       AddNewRuleToChain, InsertNewRuleBefore, Refused, fetchFreshRule,
       Answers, ruleDeletedMsg, ruleMovedMsg, ruleSelectedMsg, chainOpErrMsg,
       Answered
  <2>2. UNCHANGED <<showDeleteConfirm, alone>>
    BY <1>6 DEF Commands, DeleteRule, MoveRuleUp, MoveRuleDown,
       AddNewRuleToChain, InsertNewRuleBefore, Write, Refused,
       fetchFreshRule, Fetched, Answers, ruleDeletedMsg, ruleMovedMsg,
       ruleSelectedMsg, chainOpErrMsg, Answered, modeVars
  <2> QED BY <2>1, <2>2, <1>1
<1>7. ASSUME NEW j \in Job, Keys(j) PROVE FALSE
  BY <1>7 DEF Keys, OpenRule, ConfirmDelete, MoveRule, NewRule, Normal,
     Browsing, modeVars
<1>8. ASSUME \/ SelectChain \/ LeaveChain \/ Up \/ Down \/ EnterFilter
             \/ ExitFilter \/ Type \/ Backspace \/ DeclineDelete
      PROVE  FALSE
  BY <1>8 DEF SelectChain, LeaveChain, Up, Down, EnterFilter, ExitFilter,
     Type, Backspace, Filter, DeclineDelete, Normal, Browsing, modeVars
<1>9. CASE BackToChain
  BY <1>1, <1>9 DEF BackToChain
<1> QED BY <1>2, <1>4, <1>5, <1>6, <1>7, <1>8, <1>9 DEF Next

-----------------------------------------------------------------------------
(* The invariant.                                                          *)

(* The bounds of the model hold. *)
LEMMA CountersStep ==
  ASSUME IInv, [Next]_vars
  PROVE  keys' \in 0 .. MaxKeys /\ outside' \in 0 .. MaxOutside
<1>1. keys \in 0 .. MaxKeys /\ outside \in 0 .. MaxOutside
  BY DEF IInv, JobsType, KernelType
<1> DEFINE Counted ==
             /\ keys' = keys \/ (keys < MaxKeys /\ keys' = keys + 1)
             /\ outside' = outside
                  \/ (outside < MaxOutside /\ outside' = outside + 1)
<1>2. ASSUME NEW j \in Job, Keys(j) PROVE Counted
  BY <1>2 DEF Keys, OpenRule, ConfirmDelete, MoveRule, NewRule, Ask, kernelVars
<1>3. ASSUME NEW j \in Job, Commands(j) PROVE Counted
  BY <1>3 DEF Commands, DeleteRule, MoveRuleUp, MoveRuleDown,
     AddNewRuleToChain, InsertNewRuleBefore, Write, Refused, fetchFreshRule,
     Fetched, kernelVars
<1>4. ASSUME NEW j \in Job, Answers(j) PROVE Counted
  BY <1>4 DEF Answers, ruleDeletedMsg, ruleMovedMsg, ruleSelectedMsg,
     chainOpErrMsg, Answered, kernelVars
<1>5. ASSUME External PROVE Counted
  <2>1. keys' = keys /\ outside < MaxOutside /\ outside' = outside + 1
    BY <1>5 DEF External
  <2> QED BY <2>1
<1>6. ASSUME \/ SelectChain \/ LeaveChain \/ BackToChain
             \/ Up \/ Down \/ EnterFilter \/ ExitFilter \/ Type \/ Backspace
             \/ Resize \/ Delete \/ DeclineDelete \/ UNCHANGED vars
      PROVE  Counted
  BY <1>6 DEF SelectChain, LeaveChain, BackToChain, Up, Down, EnterFilter,
     ExitFilter, Type, Backspace, Filter, Resize, Delete, DeclineDelete,
     vars, kernelVars
<1> QED BY <1>1, <1>2, <1>3, <1>4, <1>5, <1>6 DEF Next

(* The list on the screen stays, or is the kernel's of the moment. *)
LEMMA ListStep ==
  ASSUME IInv, [Next]_vars
  PROVE  rules' \in {rules, chain}
<1>1. ASSUME NEW j \in Job, Keys(j) \/ Commands(j) PROVE rules' = rules
  BY <1>1 DEF Keys, OpenRule, ConfirmDelete, MoveRule, NewRule, Commands,
     DeleteRule, MoveRuleUp, MoveRuleDown, AddNewRuleToChain,
     InsertNewRuleBefore, Write, Refused, fetchFreshRule, Fetched,
     listVars
<1>2. ASSUME NEW j \in Job, Answers(j) PROVE rules' \in {rules, chain}
  BY <1>2 DEF Answers, ruleDeletedMsg, ruleMovedMsg, ruleSelectedMsg,
     chainOpErrMsg, RefreshRules, listVars
<1>3. CASE SelectChain \/ BackToChain
  BY <1>3 DEF SelectChain, BackToChain, RefreshRules, listVars
<1>4. ASSUME \/ LeaveChain
             \/ Up \/ Down \/ EnterFilter \/ ExitFilter \/ Type \/ Backspace
             \/ Resize \/ Delete \/ DeclineDelete \/ External
             \/ UNCHANGED vars
      PROVE  rules' = rules
  BY <1>4 DEF LeaveChain, Up, Down, EnterFilter, ExitFilter, Type, Backspace,
     Filter, Resize, Delete, DeclineDelete, External, vars, listVars
<1> QED BY <1>1, <1>2, <1>3, <1>4 DEF Next

(* A handle is taken for a rule it was taken for before, or is the one     *)
(* that the kernel just gave out.                                          *)
LEMMA MentionStep ==
  ASSUME IInv, [Next]_vars, NEW h, NEW x, Mention(h, x)'
  PROVE  \/ Mention(h, x)
         \/ h = nextHandle /\ Grown(x) /\ Holds(chain', h, x)
<1>1. GoodChain /\ GoodJobs /\ rules' \in {rules, chain}
  BY ChainStep, JobsStep, ListStep
<1>2. CASE Holds(chain', h, x)
  BY <1>1, <1>2 DEF GoodChain, Mention
<1>3. CASE Holds(rules', h, x)
  BY <1>1, <1>3 DEF Mention
<1>4. CASE \E j \in Job : /\ jobs'[j].kind \in Opening
                          /\ jobs'[j].stage = "asked"
                          /\ jobs'[j].handle = h /\ jobs'[j].id = x
  BY <1>1, <1>4 DEF GoodJobs, Fetches
<1> QED BY <1>2, <1>3, <1>4 DEF Mention

(* Every step keeps handles and identities together.                       *)
LEMMA IdentifiedStep == IInv /\ [Next]_vars => Identified'
<1> SUFFICES ASSUME IInv, [Next]_vars PROVE Identified'
  OBVIOUS
<1>1. GoodChain /\ rules' \in {rules, chain}
  BY ChainStep, ListStep
<1>2. nextHandle \in Nat /\ nextHandle' \in {nextHandle, nextHandle + 1}
  BY <1>1 DEF IInv, KernelType, GoodChain
<1>3. ASSUME NEW h, NEW x, Mention(h, x)
      PROVE  h < nextHandle /\ x < nextHandle /\ h \in Nat /\ x \in Nat
  <2>1. h \in Nat /\ x \in Nat
    <3>1. CASE Holds(chain, h, x)
      BY <3>1, ChainFacts DEF Holds, Rule
    <3>2. CASE Holds(rules, h, x)
      <4>1. rules \in Seq(Rule) /\ DOMAIN rules = 1 .. Len(rules)
        BY LenProperties DEF IInv, ScreenInv, ScreenType
      <4>2. \A i \in DOMAIN rules : rules[i] \in Rule
        BY <4>1, ElementOfSeq
      <4> QED BY <3>2, <4>2 DEF Holds, Rule
    <3>3. CASE \E j \in Job : jobs[j].handle = h /\ jobs[j].id = x
      BY <3>3, JobFacts DEF JobRecord
    <3> QED BY <1>3, <3>1, <3>2, <3>3 DEF Mention
  <2> QED BY <2>1, <1>3 DEF IInv, Identified
<1>4. ASSUME NEW h, NEW x, Mention(h, x)'
      PROVE  h < nextHandle' /\ x < nextHandle'
  <2>1. CASE Mention(h, x)
    BY <2>1, <1>2, <1>3
  <2>2. CASE h = nextHandle /\ Grown(x)
    BY <2>2, <1>2 DEF Grown
  <2> QED BY <1>4, <2>1, <2>2, MentionStep
<1>5. ASSUME NEW h, NEW x, NEW y, Mention(h, x)', Mention(h, y)'
      PROVE  x = y
  <2>1. CASE Mention(h, x) /\ Mention(h, y)
    BY <2>1 DEF IInv, Identified
  <2>2. CASE h = nextHandle
    <3>1. ~Mention(h, x) /\ ~Mention(h, y)
      BY <2>2, <1>2, <1>3
    <3>2. Holds(chain', h, x) /\ Holds(chain', h, y)
      BY <3>1, <1>5, MentionStep
    <3> QED BY <3>2, <1>1 DEF Holds, GoodChain, Distinct
  <2> QED BY <1>5, <2>1, <2>2, MentionStep
<1>6. Distinct(chain') /\ Distinct(rules')
  BY <1>1 DEF GoodChain, IInv, Identified
<1> QED BY <1>4, <1>5, <1>6 DEF Identified

(* The invariant holds initially.                                          *)
LEMMA IInvInit == Init => IInv
<1> SUFFICES ASSUME Init PROVE IInv
  OBVIOUS
<1>1. /\ Len(InitChain) \in Nat /\ DOMAIN InitChain = 1 .. Len(InitChain)
      /\ \A i \in 1 .. Len(InitChain) : InitChain[i] \in Body
  BY ElementOfSeq, LenProperties
<1>2. /\ chain \in Seq(Rule) /\ DOMAIN chain = 1 .. Len(InitChain)
      /\ \A i \in DOMAIN chain : chain[i].handle = i /\ chain[i].id = i
  <2>1. chain = Listed
    BY DEF Init
  <2>2. \A i \in 1 .. Len(InitChain) :
          [handle |-> i, id |-> i, body |-> InitChain[i]] \in Rule
    BY <1>1 DEF Rule
  <2>3. Listed \in [1 .. Len(InitChain) -> Rule]
    BY <1>1, <2>2 DEF Listed
  <2>4. Listed \in Seq(Rule)
    BY <1>1, <2>3, IsASeq
  <2>5. /\ DOMAIN Listed = 1 .. Len(InitChain)
        /\ \A i \in 1 .. Len(InitChain) :
             Listed[i].handle = i /\ Listed[i].id = i
    BY <1>1 DEF Listed
  <2> QED BY <2>1, <2>4, <2>5
<1>3. /\ rules = <<>> /\ rules \in Seq(Rule) /\ Len(rules) = 0
      /\ DOMAIN rules = {}
  <2>1. rules = <<>>
    BY DEF Init
  <2>2. rules \in Seq(Rule) /\ Len(rules) = 0
    BY <2>1, EmptySeq
  <2> QED BY <2>1, <2>2, LenProperties
<1>4. KernelType
  BY <1>1, <1>2 DEF Init, KernelType
<1>5. jobs = [j \in Job |-> IdleJob] /\ keys = 0
  BY DEF Init
<1>6. JobsType /\ JobsInv
  BY <1>5, IdleFacts DEF JobsType, JobsInv
<1>7. ScreenInv
  <2>1. DOMAIN matchCache = {}
    BY DEF Init, NoCache
  <2>2. ScreenType
    BY <1>3, <2>1 DEF Init, ScreenType, Blank
  <2>3. Remembered /\ OnScreen /\ Dialog
    BY <1>3 DEF Init, Remembered, OnScreen, Dialog
  <2> QED BY <2>2, <2>3 DEF ScreenInv
<1>8. Undisturbed
  BY DEF Init, Undisturbed
<1>9. Identified
  <2>1. \A h, x : Mention(h, x) => x = h /\ h \in 1 .. Len(InitChain)
    <3>1. \A h, x : ~Holds(rules, h, x)
      BY <1>3 DEF Holds
    <3>2. \A j \in Job : jobs[j].stage # "asked"
      BY <1>5, IdleFacts
    <3>3. \A h, x : Holds(chain, h, x) => x = h /\ h \in 1 .. Len(InitChain)
      BY <1>2 DEF Holds
    <3> QED BY <3>1, <3>2, <3>3 DEF Mention
  <2>2. nextHandle = Len(InitChain) + 1
    BY DEF Init
  <2>3. Distinct(chain) /\ Distinct(rules)
    BY <1>2, <1>3 DEF Distinct
  <2> QED BY <1>1, <2>1, <2>2, <2>3 DEF Identified
<1> QED BY <1>4, <1>6, <1>7, <1>8, <1>9 DEF IInv

(* It is inductive.                                                        *)
LEMMA IInvStep == IInv /\ [Next]_vars => IInv'
<1> SUFFICES ASSUME IInv, [Next]_vars PROVE IInv'
  OBVIOUS
<1>1. ScreenInv' /\ Undisturbed' /\ Identified'
  BY ScreenStep, UndisturbedStep, IdentifiedStep
<1>2. KernelType'
  <2>1. chain' \in Seq(Rule) /\ nextHandle' \in {nextHandle, nextHandle + 1}
    BY ChainStep DEF GoodChain
  <2>2. nextHandle' \in Nat \ {0}
    BY <2>1 DEF IInv, KernelType
  <2> QED BY <2>1, <2>2, CountersStep DEF KernelType
<1>3. JobsType' /\ JobsInv'
  BY JobsStep, CountersStep DEF GoodJobs, JobsType
<1> QED BY <1>1, <1>2, <1>3 DEF IInv

(* So it holds in every behaviour.                                         *)
LEMMA IInvariant == Spec => []IInv
<1> QED BY IInvInit, IInvStep, PTL DEF Spec

-----------------------------------------------------------------------------
(* What the invariant gives.                                               *)

(* The cursor never leaves a list that has rules, and every variable keeps *)
(* its type, whatever answers arrive late.                                 *)
THEOREM CursorStays == Spec => []CursorInRules
<1>1. IInv => CursorInRules
  BY DEF IInv, ScreenInv, KernelType, JobsType, ScreenType, OnScreen,
     CursorInRules, TypeOK
<1> QED BY <1>1, IInvariant, PTL

(* The window never starts past the end of the rules it shows.             *)
THEOREM WindowStays == Spec => []NeverBlank
<1>1. IInv => NeverBlank
  BY DEF IInv, ScreenInv, OnScreen, NeverBlank
<1> QED BY <1>1, IInvariant, PTL

(* The memo of texts never makes the filter show another rule than one     *)
(* whose listed text matches, nor miss one.                                *)
THEOREM FilterStaysExact == Spec => []FilterIsExact
<1>1. IInv => FilterIsExact
  <2> SUFFICES ASSUME IInv, Filtering PROVE activeRules = Matching(rules)
    BY DEF FilterIsExact
  <2>1. \A i \in DOMAIN rules : Haystack(rules[i]) = rules[i].body
    BY DEF IInv, ScreenInv, Remembered, Haystack
  <2>2. {i \in DOMAIN rules : Haystack(rules[i]) \in filterQuery}
          = {i \in DOMAIN rules : rules[i].body \in filterQuery}
    BY <2>1
  <2> QED BY <2>2 DEF activeRules, Matching
<1> QED BY <1>1, IInvariant, PTL

(* A command goes on by a step of its own only.                            *)
LEMMA OwnStep ==
  ASSUME IInv, [Next]_vars, NEW j \in Job,
         ~(Keys(j) \/ Commands(j) \/ Answers(j))
  PROVE  jobs'[j].kind = jobs[j].kind /\ jobs'[j].stage = jobs[j].stage
<1>1. jobs \in [Job -> JobRecord]
  BY DEF IInv, JobsType
<1>2. ASSUME NEW i \in Job, i # j, NEW r, jobs' = [jobs EXCEPT ![i] = r]
      PROVE  jobs'[j] = jobs[j]
  BY <1>1, <1>2
<1>3. ASSUME jobs'[j] = [jobs[j] EXCEPT !.calm = FALSE]
      PROVE  jobs'[j].kind = jobs[j].kind /\ jobs'[j].stage = jobs[j].stage
  <2>1. ASSUME NEW x \in JobRecord
        PROVE  LET y == [x EXCEPT !.calm = FALSE]
               IN  y.kind = x.kind /\ y.stage = x.stage
    BY DEF JobRecord
  <2> QED BY <2>1, <1>1, <1>3
<1>4. ASSUME NEW i \in Job, i # j, Keys(i) PROVE jobs'[j] = jobs[j]
  <2>1. jobs' = jobs \/ \E r : jobs' = [jobs EXCEPT ![i] = r]
    BY <1>4 DEF Keys, OpenRule, ConfirmDelete, MoveRule, NewRule, Ask
  <2> QED BY <2>1, <1>2, <1>4
<1>5. ASSUME NEW i \in Job, i # j, Answers(i) PROVE jobs'[j] = jobs[j]
  <2>1. jobs' = [jobs EXCEPT ![i] = IdleJob]
    BY <1>5 DEF Answers, ruleDeletedMsg, ruleMovedMsg, ruleSelectedMsg,
       chainOpErrMsg, Answered
  <2> QED BY <2>1, <1>2, <1>5
<1>6. ASSUME NEW i \in Job, i # j, Commands(i)
      PROVE  \/ jobs'[j] = jobs[j]
             \/ jobs'[j] = [jobs[j] EXCEPT !.calm = FALSE]
  <2>1. CASE Refused(i) \/ fetchFreshRule(i)
    <3>1. \E r : jobs' = [jobs EXCEPT ![i] = r]
      BY <2>1 DEF Refused, fetchFreshRule, Fetched
    <3> QED BY <3>1, <1>2, <1>6
  <2>2. CASE ~(Refused(i) \/ fetchFreshRule(i))
    <3>1. \E s : Write(i, s)
      BY <1>6, <2>2 DEF Commands, DeleteRule, MoveRuleUp, MoveRuleDown,
         AddNewRuleToChain, InsertNewRuleBefore
    <3> QED BY <3>1, <1>6 DEF Write
  <2> QED BY <2>1, <2>2
<1>7. ASSUME External PROVE jobs'[j] = [jobs[j] EXCEPT !.calm = FALSE]
  BY <1>7 DEF External
<1>8. ASSUME \/ SelectChain \/ LeaveChain \/ BackToChain
             \/ Up \/ Down \/ EnterFilter \/ ExitFilter \/ Type \/ Backspace
             \/ Resize \/ Delete \/ DeclineDelete \/ UNCHANGED vars
      PROVE  jobs'[j] = jobs[j]
  BY <1>8 DEF SelectChain, LeaveChain, BackToChain, Up, Down, EnterFilter,
     ExitFilter, Type, Backspace, Filter, Resize, Delete, DeclineDelete, vars
<1> QED BY <1>3, <1>4, <1>5, <1>6, <1>7, <1>8 DEF Next

(* The session stays read-only, or not.                                    *)
LEMMA OptionStays == [Next]_vars => readOnly' = readOnly
BY DEF Next, Keys, OpenRule, ConfirmDelete, MoveRule, NewRule,
   Commands, DeleteRule, MoveRuleUp, MoveRuleDown, AddNewRuleToChain,
   InsertNewRuleBefore, Write, Refused, fetchFreshRule, Fetched,
   Answers, ruleDeletedMsg, ruleMovedMsg, ruleSelectedMsg, chainOpErrMsg,
   Answered, SelectChain, LeaveChain, BackToChain, Up, Down, EnterFilter,
   ExitFilter, Type, Backspace, Filter, Resize, Delete, DeclineDelete,
   External, vars, screenVars

(* In a read-only session only other programs write to the chain.          *)
LEMMA ReadOnlyStep == IInv /\ [Next]_vars => ReadOnlyWritesNothing
<1> SUFFICES ASSUME IInv, [Next]_vars, readOnly
             PROVE  /\ chain' = chain \/ outside' = outside + 1
                    /\ \A j \in Job : jobs'[j].kind # "edit"
  BY DEF ReadOnlyWritesNothing
<1>1. \A j \in Job : jobs'[j].kind # "edit"
  BY JobsStep, OptionStays DEF GoodJobs, JobsInv, JobInv
<1>2. \A j \in Job : jobs[j].kind \notin Writing
  BY DEF IInv, JobsInv, JobInv
<1>3. ASSUME NEW j \in Job, Commands(j) PROVE chain' = chain
  BY <1>2, <1>3 DEF Commands, DeleteRule, MoveRuleUp, MoveRuleDown,
     AddNewRuleToChain, InsertNewRuleBefore, Refused, fetchFreshRule, Fetched,
     Writing, Moving, kernelVars
<1>4. ASSUME NEW j \in Job, Keys(j) \/ Answers(j) PROVE chain' = chain
  BY <1>4 DEF Keys, OpenRule, ConfirmDelete, MoveRule, NewRule, Answers,
     ruleDeletedMsg, ruleMovedMsg, ruleSelectedMsg, chainOpErrMsg, Answered,
     kernelVars
<1>5. ASSUME External PROVE outside' = outside + 1
  BY <1>5 DEF External
<1>6. ASSUME \/ SelectChain \/ LeaveChain \/ BackToChain
             \/ Up \/ Down \/ EnterFilter \/ ExitFilter \/ Type \/ Backspace
             \/ Resize \/ Delete \/ DeclineDelete \/ UNCHANGED vars
      PROVE  chain' = chain
  BY <1>6 DEF SelectChain, LeaveChain, BackToChain, Up, Down, EnterFilter,
     ExitFilter, Type, Backspace, Filter, Resize, Delete, DeclineDelete,
     vars, kernelVars
<1> QED BY <1>1, <1>3, <1>4, <1>5, <1>6 DEF Next

(* What a key makes of an idle goroutine.                                  *)
LEMMA AskedFacts ==
  ASSUME IInv, NEW j \in Job, NEW kind, NEW handle, NEW id,
         Ask(j, kind, handle, id)
  PROVE  jobs'[j].kind = kind /\ jobs'[j].stage = "asked" /\ jobs'[j].id = id
BY DEF Ask, IdleJob, IInv, JobsType

(* The rule that is deleted is the one the dialog was opened for, unless   *)
(* the answer of a command that was under way when it opened has renewed   *)
(* the list under it: the dialog keeps every other key from the list, and  *)
(* nothing else reaches it.  A read-only session deletes none.             *)
THEOREM DeletesWhatWasShown == Spec => ConfirmedIsDeleted
<1>1. ASSUME IInv, [Next]_vars, NEW j \in Job, jobs[j].stage = "idle",
             jobs'[j].kind = "delete"
      PROVE  jobs'[j].id = target \/ (target = 0 /\ ~alone)
  <2>1. /\ jobs[j].kind = "none" /\ jobs[j] \in JobRecord
        /\ jobs \in [Job -> JobRecord]
    BY <1>1, JobFacts DEF JobInv, IInv, JobsType
  <2>2. ~Commands(j)
    BY <1>1 DEF Commands, DeleteRule, MoveRuleUp, MoveRuleDown,
       AddNewRuleToChain, InsertNewRuleBefore, Refused, fetchFreshRule
  <2>3. ~Answers(j)
    BY <1>1 DEF Answers, ruleDeletedMsg, ruleMovedMsg, ruleSelectedMsg,
       chainOpErrMsg, Answered
  <2>4. Keys(j)
    BY <1>1, <2>1, <2>2, <2>3, OwnStep
  <2>5. ~OpenRule(j) /\ ~MoveRule(j) /\ ~NewRule(j)
    BY <1>1, AskedFacts DEF OpenRule, MoveRule, NewRule, Opening
  <2>6. /\ ConfirmDelete(j) /\ cursor < Len(rules)
    BY <1>1, <2>1, <2>4, <2>5 DEF Keys, ConfirmDelete
  <2>7. jobs'[j].id = rules[cursor + 1].id
    BY <1>1, <2>6, AskedFacts DEF ConfirmDelete
  <2>8. rules[cursor + 1].id = target \/ (target = 0 /\ ~alone)
    BY <1>1, <2>6 DEF IInv, ScreenInv, Dialog, Undisturbed, ConfirmDelete
  <2> QED BY <2>7, <2>8
<1>2. IInv /\ [Next]_vars =>
        [/\ ReadOnlyWritesNothing
         /\ \A j \in Job :
              jobs[j].stage = "idle" /\ jobs'[j].kind = "delete"
                => jobs'[j].id = target \/ (target = 0 /\ ~alone)]_vars
  BY <1>1, ReadOnlyStep
<1> QED BY <1>2, IInvariant, PTL DEF Spec, ConfirmedIsDeleted

(* The cursor follows the moved rule: a calm move's rule is where its      *)
(* message says, and the list that the answer takes has the chain's order. *)
THEOREM CursorGoesWithRule == Spec => CursorFollowsMove
<1>1. ASSUME IInv, [Next]_vars, NEW j \in Job, jobs[j].kind \in Moving,
             jobs[j].stage = "ok", jobs'[j].stage = "idle", jobs[j].calm,
             open, ~filterMode, rules' = chain
      PROVE  rules'[cursor' + 1].id = jobs[j].id
  <2>1. ~Keys(j) /\ ~Commands(j)
    <3>1. ~Keys(j)
      <4>1. ~OpenRule(j) /\ ~MoveRule(j) /\ ~NewRule(j)
        BY <1>1 DEF OpenRule, MoveRule, NewRule, Ask
      <4>2. ~ConfirmDelete(j)
        BY <1>1 DEF ConfirmDelete, Ask
      <4> QED BY <4>1, <4>2 DEF Keys
    <3>2. ~Commands(j)
      BY <1>1 DEF Commands, DeleteRule, MoveRuleUp, MoveRuleDown,
         AddNewRuleToChain, InsertNewRuleBefore, Refused, fetchFreshRule
    <3> QED BY <3>1, <3>2
  <2>2. Answers(j)
    BY <1>1, <2>1, OwnStep
  <2>3. ruleMovedMsg(j)
    <3>1. jobs[j].kind \notin {"delete", "add", "insert"} \cup Opening
      BY <1>1 DEF Moving, Opening
    <3> QED BY <3>1, <1>1, <2>2 DEF Answers, ruleDeletedMsg, ruleSelectedMsg,
               chainOpErrMsg, Answered
  <2>4. PICK list \in {chain, rules} :
          /\ RefreshRules(list)
          /\ cursor' = IF NewCursor(j) < Len(list) THEN NewCursor(j)
                                                   ELSE Clamped(list)
    BY <1>1, <2>3 DEF ruleMovedMsg
  <2>5. list = chain
    BY <1>1, <2>4 DEF RefreshRules
  <2>6. /\ NewCursor(j) < Len(chain)
        /\ chain[NewCursor(j) + 1].id = jobs[j].id
    BY <1>1, JobFacts DEF JobInv, Tracked, Goal, NewCursor
  <2> QED BY <1>1, <2>4, <2>5, <2>6
<1>2. IInv /\ [Next]_vars =>
        [\A j \in Job :
           /\ jobs[j].kind \in Moving /\ jobs[j].stage = "ok"
           /\ jobs'[j].stage = "idle" /\ jobs[j].calm
           /\ open /\ ~filterMode /\ rules' = chain
           => rules'[cursor' + 1].id = jobs[j].id]_vars
  BY <1>1
<1> QED BY <1>2, IInvariant, PTL DEF Spec, CursorFollowsMove

(* The rule that is opened is the one that was selected, as long as the    *)
(* chain has its handle: nobody takes that handle for another rule.  Its   *)
(* text is the chain's of that moment, if the chain could be listed, or    *)
(* else the one that the list on the screen had.                           *)
THEOREM OpensWhatWasSelected == Spec => OpenedIsSelected
<1>1. ASSUME IInv, [Next]_vars, NEW j \in Job, jobs[j].kind \in Opening,
             jobs[j].stage = "asked", jobs'[j].stage = "ok",
             Has(chain, jobs[j].handle)
      PROVE  /\ jobs'[j].opened = jobs[j].id
             /\ jobs'[j].body = IF jobs'[j].listed
                                THEN chain[Find(chain, jobs[j].handle)].body
                                ELSE jobs[j].body
  <2>1. ~Keys(j)
    <3>1. ~OpenRule(j) /\ ~MoveRule(j) /\ ~NewRule(j)
      BY <1>1 DEF OpenRule, MoveRule, NewRule, Ask
    <3>2. ~ConfirmDelete(j)
      BY <1>1 DEF ConfirmDelete, Ask
    <3> QED BY <3>1, <3>2 DEF Keys
  <2>2. ~Answers(j)
    BY <1>1 DEF Answers, ruleDeletedMsg, ruleMovedMsg, ruleSelectedMsg,
       chainOpErrMsg, Answered
  <2>3. Commands(j)
    BY <1>1, <2>1, <2>2, OwnStep
  <2>4. fetchFreshRule(j)
    <3>1. jobs[j].kind \notin Writing
      BY <1>1 DEF Writing, Moving, Opening
    <3> QED BY <3>1, <2>3 DEF Commands, DeleteRule, MoveRuleUp, MoveRuleDown,
               AddNewRuleToChain, InsertNewRuleBefore, Refused, Writing, Moving
  <2> DEFINE k == Find(chain, jobs[j].handle)
  <2>5. chain[k].id = jobs[j].id
    <3>1. /\ k \in DOMAIN chain /\ chain[k].handle = jobs[j].handle
          /\ Mention(chain[k].handle, chain[k].id)
      <4>1. chain \in Seq(Rule) /\ DOMAIN chain = 1 .. Len(chain)
        BY <1>1, ChainFacts
      <4>2. k \in DOMAIN chain /\ chain[k].handle = jobs[j].handle
        BY <1>1, <4>1, FindFacts
      <4> QED BY <1>1, <4>2, ChainFacts
    <3>2. Mention(jobs[j].handle, jobs[j].id)
      BY <1>1, JobFacts
    <3> HIDE DEF k
    <3> QED BY <3>1, <3>2, <1>1 DEF IInv, Identified
  <2>6. \/ Fetched(j, chain[k], TRUE)
        \/ Fetched(j, jobs[j], FALSE)
    BY <1>1, <2>4 DEF fetchFreshRule
  <2> HIDE DEF k
  <2>7. Message(j, "ok") \in JobRecord /\ jobs \in [Job -> JobRecord]
    BY <1>1, MessageFacts DEF IInv, JobsType
  <2>8. ASSUME NEW r, NEW listed \in BOOLEAN, Fetched(j, r, listed)
        PROVE  /\ jobs'[j].opened = r.id /\ jobs'[j].body = r.body
               /\ jobs'[j].listed = listed
    <3>1. ASSUME NEW m \in JobRecord, NEW x, NEW b
          PROVE  LET n == [m EXCEPT !.opened = x, !.body = b,
                                    !.listed = listed]
                 IN  n.opened = x /\ n.body = b /\ n.listed = listed
      BY DEF JobRecord
    <3> QED BY <3>1, <2>7, <2>8 DEF Fetched
  <2>9. CASE Fetched(j, chain[k], TRUE)
    BY <2>8, <2>9, <2>5 DEF k
  <2>10. CASE Fetched(j, jobs[j], FALSE)
    BY <2>8, <2>10
  <2> QED BY <2>6, <2>9, <2>10
<1>2. IInv /\ [Next]_vars =>
        [\A j \in Job :
           /\ jobs[j].kind \in Opening /\ jobs[j].stage = "asked"
           /\ jobs'[j].stage = "ok" /\ Has(chain, jobs[j].handle)
           => /\ jobs'[j].opened = jobs[j].id
              /\ jobs'[j].body = IF jobs'[j].listed
                                 THEN chain[Find(chain, jobs[j].handle)].body
                                 ELSE jobs[j].body]_vars
  BY <1>1
<1> QED BY <1>2, IInvariant, PTL DEF Spec, OpenedIsSelected
=============================================================================
