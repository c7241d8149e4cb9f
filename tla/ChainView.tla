----------------------------- MODULE ChainView ------------------------------
(***************************************************************************)
(* The rule list of one chain, as the user works on it: ui/chain_view.go,  *)
(* the branches of MainWindow.Update that feed it, and the commands it     *)
(* starts (ui/main_window_stats.go).                                       *)
(*                                                                         *)
(* The list on the screen is a copy of the kernel's.  It is renewed when   *)
(* an answer arrives or the user comes back from a rule, and the cursor,   *)
(* the scroll offset, the filter and the open dialog live across that.     *)
(* Commands run in goroutines and their answers arrive in any order, maybe *)
(* after the user has gone elsewhere.  A command takes effect in one step  *)
(* here, as RuleLedger allows and RuleOps shows of its round trips.        *)
(*                                                                         *)
(* The text of a rule is its body, and a query is the set of bodies that   *)
(* it matches: Body stands for the blank query, and a longer one matches   *)
(* less.  The cursor and the offset are 0-based, as in the code.           *)
(***************************************************************************)
EXTENDS Naturals, KernelChain, Sublists

CONSTANTS
  Job,            \* the goroutines that can be in flight at once
  Body,           \* the texts a rule can have
  FirstBody,      \* the text of a rule fresh from "a" or "i"
  Height,         \* the terminal heights
  FirstHeight,    \* the height the terminal starts with
  InitChain,      \* the texts of the rules the chain starts with
  MaxHandle,      \* bound: the last handle the kernel gives out
  MaxKeys,        \* bound: how many commands are started
  MaxOutside      \* bound: how many batches other programs send

ASSUME TextAssumption   == FirstBody \in Body /\ InitChain \in Seq(Body)
ASSUME WindowAssumption == Height \subseteq Nat /\ FirstHeight \in Height
ASSUME LimitAssumption  == MaxKeys \in Nat /\ MaxOutside \in Nat
                             /\ MaxHandle \in Nat

VARIABLES
  chain, nextHandle,          \* the kernel's chain, its next free handle
  rules,                      \* chainView.rules
  matchCache,                 \* chainView.matchCache: handle -> text
  cursor, scrollOffset,
  filterMode, filterQuery,
  showDeleteConfirm,
  target,                     \* history: the rule the dialog opened for; 0
                              \*   once the list was renewed behind it
  alone,                      \* history: no command was under way then
  height,
  readOnly,                   \* the --read-only option
  open,                       \* MainWindow.chainView is not nil
  activeView,                 \* "main", "chain" or "rule" (viewer, editor)
  jobs,                       \* for each goroutine, what it does and holds
  keys, outside               \* how much of MaxKeys and MaxOutside is used

kernelVars == <<chain, nextHandle, outside>>
listVars   == <<rules, matchCache, cursor, scrollOffset>>
modeVars   == <<filterMode, filterQuery, showDeleteConfirm, target, alone>>
screenVars == <<height, readOnly, open, activeView>>
vars == <<kernelVars, listVars, modeVars, screenVars, jobs, keys>>

Rule == [handle : Nat, id : Nat, body : Body]

Moving  == {"up", "down"}
Writing == {"delete", "add", "insert"} \cup Moving
Opening == {"view", "edit"}

(* at: the cursor when a move, F3 or F4 was started; opened and body: of   *)
(* F3 or F4, the rule that was fetched, and before that body is the text   *)
(* that the list had.  id, calm and listed are history: the rule under the *)
(* cursor at the start; of a move, whether the list was up to date then    *)
(* and nobody else has written to the chain since; of F3 or F4, whether    *)
(* the chain could be listed.                                              *)
JobRecord ==
  [kind : Writing \cup Opening \cup {"none"},
   stage : {"idle", "asked", "ok", "error"},
   handle : Nat, at : Nat, id : Nat, opened : Nat, body : Body,
   calm : BOOLEAN, listed : BOOLEAN]

IdleJob == [kind |-> "none", stage |-> "idle", handle |-> 0, at |-> 0,
            id |-> 0, opened |-> 0, body |-> FirstBody, calm |-> FALSE,
            listed |-> TRUE]

(* Every variable has its type.                                            *)
TypeOK ==
  /\ chain \in Seq(Rule) /\ rules \in Seq(Rule)
  /\ nextHandle \in Nat \ {0}
  /\ DOMAIN matchCache \subseteq Nat
  /\ \A h \in DOMAIN matchCache : matchCache[h] \in Body
  /\ cursor \in Nat /\ scrollOffset \in Nat /\ target \in Nat
  /\ filterMode \in BOOLEAN /\ filterQuery \in SUBSET Body
  /\ showDeleteConfirm \in BOOLEAN /\ open \in BOOLEAN /\ alone \in BOOLEAN
  /\ height \in Height /\ readOnly \in BOOLEAN
  /\ activeView \in {"main", "chain", "rule"}
  /\ jobs \in [Job -> JobRecord]
  /\ keys \in 0 .. MaxKeys /\ outside \in 0 .. MaxOutside

-----------------------------------------------------------------------------
(* What the view computes from its fields.  Here and below, a definition   *)
(* with an underscore in its name is a broken form of the one named before *)
(* the underscore; no behaviour uses it.                                   *)

NoCache == [h \in {} |-> FirstBody]

Blank == Body
Filtering == filterMode /\ filterQuery # Blank

(* The text that ruleMatchesFilter searches: remembered, or rendered. *)
Haystack(r) ==
  IF r.handle \in DOMAIN matchCache THEN matchCache[r.handle] ELSE r.body

activeRules ==
  IF Filtering
  THEN Kept(rules, {i \in DOMAIN rules : Haystack(rules[i]) \in filterQuery})
  ELSE rules

(* The view renders after each update, which remembers every text that is  *)
(* not remembered yet, if there is a query to match it with.               *)
Remember(cache, list, filtering) ==
  LET handles == {list[i].handle : i \in DOMAIN list}
  IN  IF ~filtering THEN cache
      ELSE [h \in DOMAIN cache \cup handles |->
              IF h \in DOMAIN cache THEN cache[h]
                                    ELSE list[Find(list, h)].body]

(* The lines above the first rule, and how many rules of three lines fit   *)
(* below them; there is room for one at any height.                        *)
headerLines == IF filterMode THEN 6 ELSE 4

maxVisibleRules ==
  IF height < 9 + headerLines + 3 THEN 1
                                  ELSE (height - 9 - headerLines) \div 3

-----------------------------------------------------------------------------
(* The rules of a list whose text, as listed, matches the query.           *)
Matching(list) ==
  Kept(list, {i \in DOMAIN list : list[i].body \in filterQuery})

(* RefreshRules: take a new list (or keep the old one, if it cannot be     *)
(* fetched), forget the texts, and clamp the cursor and the offset.        *)

Clamped(list) ==
  LET shown == IF Filtering THEN Matching(list) ELSE list
  IN  CASE cursor < Len(shown) -> cursor
        [] shown = <<>>        -> 0
        [] OTHER               -> Len(shown) - 1

RefreshRules_CacheKept(list) ==
  /\ rules' = list
  /\ matchCache' = Remember(matchCache, list, Filtering)
  /\ scrollOffset' = IF scrollOffset > Clamped(list) THEN Clamped(list)
                                                     ELSE scrollOffset
  /\ target' = 0

RefreshRules_NoScrollClamp(list) ==
  /\ rules' = list
  /\ matchCache' = Remember(NoCache, list, Filtering)
  /\ scrollOffset' = scrollOffset
  /\ target' = 0

RefreshRules(list) ==
  /\ rules' = list
  /\ matchCache' = Remember(NoCache, list, Filtering)
  /\ scrollOffset' = IF scrollOffset > Clamped(list) THEN Clamped(list)
                                                     ELSE scrollOffset
  /\ target' = 0

-----------------------------------------------------------------------------
(* The tree is on the screen; the chain has its first rules. *)

Listed == [i \in DOMAIN InitChain |->
             [handle |-> i, id |-> i, body |-> InitChain[i]]]

Init ==
  /\ chain = Listed /\ nextHandle = Len(InitChain) + 1
  /\ rules = <<>> /\ matchCache = NoCache
  /\ cursor = 0 /\ scrollOffset = 0
  /\ filterMode = FALSE /\ filterQuery = Blank
  /\ showDeleteConfirm = FALSE /\ target = 0 /\ alone = FALSE
  /\ height = FirstHeight /\ readOnly \in BOOLEAN
  /\ open = FALSE /\ activeView = "main"
  /\ jobs = [j \in Job |-> IdleJob]
  /\ keys = 0 /\ outside = 0

-----------------------------------------------------------------------------
(* Keys.  MainWindow passes them on while the chain view is the active     *)
(* one; the dialog takes them first, then the filter.                      *)

Browsing_IgnoresDialog == open /\ activeView = "chain"
Browsing == open /\ activeView = "chain" /\ ~showDeleteConfirm
Normal   == Browsing /\ ~filterMode
OnRule   == cursor < Len(activeRules)

(* F3 on a chain of the tree: newChainView.  The key can be pressed again  *)
(* before the message of the first one has opened the view, and the        *)
(* message that comes late opens it anew, over whatever is open by then.   *)
SelectChain ==
  /\ rules' = chain /\ matchCache' = NoCache
  /\ cursor' = 0 /\ scrollOffset' = 0
  /\ filterMode' = FALSE /\ filterQuery' = Blank
  /\ showDeleteConfirm' = FALSE /\ target' = 0 /\ alone' = FALSE
  /\ open' = TRUE /\ activeView' = "chain"
  /\ UNCHANGED <<kernelVars, height, readOnly, jobs, keys>>

LeaveChain ==
  /\ Normal
  /\ open' = FALSE /\ activeView' = "main"
  /\ UNCHANGED <<kernelVars, listVars, modeVars, height, readOnly, jobs,
                 keys>>

Up ==
  /\ Browsing /\ cursor > 0
  /\ cursor' = cursor - 1
  /\ scrollOffset' = IF cursor' < scrollOffset THEN cursor' ELSE scrollOffset
  /\ UNCHANGED <<kernelVars, rules, matchCache, modeVars, screenVars, jobs,
                 keys>>

Down ==
  /\ Browsing /\ cursor + 1 < Len(activeRules)
  /\ cursor' = cursor + 1
  /\ scrollOffset' = IF cursor' >= scrollOffset + maxVisibleRules
                     THEN cursor' + 1 - maxVisibleRules ELSE scrollOffset
  /\ UNCHANGED <<kernelVars, rules, matchCache, modeVars, screenVars, jobs,
                 keys>>

(* enterFilter, exitFilter, and the keys that edit the query: each starts  *)
(* again at the top of what it matches.                                    *)
Filter(mode, query) ==
  /\ filterMode' = mode /\ filterQuery' = query
  /\ cursor' = 0 /\ scrollOffset' = 0
  /\ matchCache' = Remember(matchCache, rules, mode /\ query # Blank)
  /\ UNCHANGED <<kernelVars, rules, showDeleteConfirm, target, alone,
                 screenVars, jobs, keys>>

EnterFilter == Normal /\ Filter(TRUE, Blank)
ExitFilter  == Browsing /\ filterMode /\ Filter(FALSE, Blank)
Type        == /\ Browsing /\ filterMode
               /\ \E q \in SUBSET filterQuery : Filter(TRUE, q)
Backspace   == /\ Browsing /\ filterMode /\ filterQuery # Blank
               /\ \E q \in SUBSET Body : filterQuery \subseteq q
                                           /\ Filter(TRUE, q)

Resize ==
  /\ \E h \in Height \ {height} : height' = h
  /\ UNCHANGED <<kernelVars, listVars, modeVars, readOnly, open, activeView,
                 jobs, keys>>

-----------------------------------------------------------------------------
(* Keys that start a command.                                              *)

Selected == activeRules[cursor + 1]

Ask(j, kind, handle, id) ==
  /\ jobs[j].stage = "idle"
  /\ jobs' = [jobs EXCEPT ![j] =
                [IdleJob EXCEPT
                   !.kind = kind, !.stage = "asked", !.handle = handle,
                   !.id = id, !.calm = kind \in Moving /\ rules = chain,
                   !.body = IF kind \in Opening THEN Selected.body ELSE @,
                   !.at = IF kind \in Moving \cup Opening THEN cursor ELSE 0]]
  /\ keys < MaxKeys /\ keys' = keys + 1

(* F3, F4, and in the filter Enter; F4 is off in a read-only session. *)

OpenRule(j) ==
  /\ Browsing /\ OnRule
  /\ \E kind \in Opening :
       /\ kind = "edit" => ~readOnly
       /\ Ask(j, kind, Selected.handle, Selected.id)
  /\ UNCHANGED <<kernelVars, listVars, modeVars, screenVars>>

Delete ==
  /\ Normal /\ ~readOnly /\ OnRule
  /\ showDeleteConfirm' = TRUE /\ target' = Selected.id
  /\ alone' = \A j \in Job : jobs[j].stage = "idle"
  /\ UNCHANGED <<kernelVars, listVars, filterMode, filterQuery, screenVars,
                 jobs, keys>>

(* The dialog: yes deletes the rule under the cursor of the whole list. *)
ConfirmDelete(j) ==
  /\ open /\ activeView = "chain" /\ showDeleteConfirm
  /\ showDeleteConfirm' = FALSE /\ alone' = FALSE
  /\ IF cursor < Len(rules)
     THEN Ask(j, "delete", rules[cursor + 1].handle, rules[cursor + 1].id)
     ELSE UNCHANGED <<jobs, keys>>
  /\ UNCHANGED <<kernelVars, listVars, filterMode, filterQuery, target,
                 screenVars>>

DeclineDelete ==
  /\ open /\ activeView = "chain" /\ showDeleteConfirm
  /\ showDeleteConfirm' = FALSE /\ alone' = FALSE
  /\ UNCHANGED <<kernelVars, listVars, filterMode, filterQuery, target,
                 screenVars, jobs, keys>>

MoveRule(j) ==
  /\ Normal /\ ~readOnly /\ OnRule
  /\ \/ cursor > 0 /\ Ask(j, "up", Selected.handle, Selected.id)
     \/ cursor + 1 < Len(rules) /\ Ask(j, "down", Selected.handle, Selected.id)
  /\ UNCHANGED <<kernelVars, listVars, modeVars, screenVars>>

(* "a" appends; "i" inserts at the cursor, after the rule listed before it. *)
NewRule(j) ==
  /\ Normal /\ ~readOnly
  /\ \/ Ask(j, "add", 0, 0)
     \/ Ask(j, "insert", IF cursor = 0 THEN 0 ELSE rules[cursor].handle, 0)
  /\ UNCHANGED <<kernelVars, listVars, modeVars, screenVars>>

-----------------------------------------------------------------------------
(* The commands, each in one step.  Which rule "a" and "i" return to the   *)
(* editor is RuleOps's subject; here the editor opens on some rule.        *)

Fresh(h, b) == [handle |-> h, id |-> h, body |-> b]

(* What the message of command j holds: of a move, where the cursor goes.  *)
Message(j, stage) ==
  IF jobs[j].kind \in Moving /\ stage = "ok"
  THEN [jobs[j] EXCEPT !.stage = stage]
  ELSE [IdleJob EXCEPT !.kind = jobs[j].kind, !.stage = stage]

(* The kernel's chain becomes s by command j: nobody else is calm now. *)
Write(j, s) ==
  /\ chain' = s
  /\ jobs' = [i \in Job |-> IF i = j THEN Message(j, "ok")
                                     ELSE [jobs[i] EXCEPT !.calm = FALSE]]
  /\ UNCHANGED <<outside, listVars, modeVars, screenVars, keys>>

TakeHandle == nextHandle <= MaxHandle /\ nextHandle' = nextHandle + 1

DeleteRule(j) ==
  /\ jobs[j].stage = "asked" /\ jobs[j].kind = "delete"
  /\ Has(chain, jobs[j].handle)
  /\ Write(j, DelRule(chain, jobs[j].handle))
  /\ UNCHANGED nextHandle

(* The rule trades places with its neighbour and gets a new handle. *)
Swapped(k, n) ==
  [i \in DOMAIN chain |->
     CASE i = n -> [chain[k] EXCEPT !.handle = nextHandle]
       [] i = k -> chain[n]
       [] OTHER -> chain[i]]

MoveRuleUp_Stays(j) ==
  /\ jobs[j].stage = "asked" /\ jobs[j].kind = "up"
  /\ Has(chain, jobs[j].handle)
  /\ Write(j, [chain EXCEPT ![Find(chain, jobs[j].handle)].handle
                                                            = nextHandle])
  /\ TakeHandle

MoveRuleUp(j) ==
  /\ jobs[j].stage = "asked" /\ jobs[j].kind = "up"
  /\ Has(chain, jobs[j].handle)
  /\ LET k == Find(chain, jobs[j].handle)
     IN  IF k = 1 THEN Write(j, chain) /\ UNCHANGED nextHandle
                  ELSE Write(j, Swapped(k, k - 1)) /\ TakeHandle

MoveRuleDown(j) ==
  /\ jobs[j].stage = "asked" /\ jobs[j].kind = "down"
  /\ Has(chain, jobs[j].handle)
  /\ LET k == Find(chain, jobs[j].handle)
     IN  IF k = Len(chain) THEN Write(j, chain) /\ UNCHANGED nextHandle
                           ELSE Write(j, Swapped(k, k + 1)) /\ TakeHandle

AddNewRuleToChain(j) ==
  /\ jobs[j].stage = "asked" /\ jobs[j].kind = "add"
  /\ Write(j, Append(chain, Fresh(nextHandle, FirstBody)))
  /\ TakeHandle

InsertNewRuleBefore(j) ==
  /\ jobs[j].stage = "asked" /\ jobs[j].kind = "insert"
  /\ jobs[j].handle # 0 => Has(chain, jobs[j].handle)
  /\ LET new == Fresh(nextHandle, FirstBody)
         s   == IF jobs[j].handle = 0 THEN InsertAt(chain, 1, new)
                                      ELSE AddAfter(chain, jobs[j].handle, new)
     IN  Write(j, s)
  /\ TakeHandle

(* The kernel or the staleness guard says no. *)
Refused(j) ==
  /\ jobs[j].stage = "asked" /\ jobs[j].kind \in Writing
  /\ jobs' = [jobs EXCEPT ![j] = Message(j, "error")]
  /\ UNCHANGED <<kernelVars, listVars, modeVars, screenVars, keys>>

(* A rule has been fetched, from the chain as listed or from the old list. *)
Fetched(j, r, listed) ==
  /\ jobs' = [jobs EXCEPT ![j] =
                [Message(j, "ok") EXCEPT !.opened = r.id, !.body = r.body,
                                         !.listed = listed]]
  /\ UNCHANGED <<kernelVars, listVars, modeVars, screenVars, keys>>

(* Mutant: the rule at the cursor is taken without a look at its handle. *)
fetchFreshRule_AtCursor(j) ==
  /\ jobs[j].stage = "asked" /\ jobs[j].kind \in Opening
  /\ \E listed \in BOOLEAN :
       Fetched(j, IF listed /\ jobs[j].at < Len(chain)
                  THEN chain[jobs[j].at + 1] ELSE jobs[j], listed)

(* Fetched is the rule with the handle; if it is gone, whatever rule       *)
(* stands where the cursor was; if nothing does, or the chain cannot be    *)
(* listed, the rule as the list had it.                                    *)
fetchFreshRule(j) ==
  /\ jobs[j].stage = "asked" /\ jobs[j].kind \in Opening
  /\ LET h == jobs[j].handle
         c == jobs[j].at
         found == CASE Has(chain, h)  -> chain[Find(chain, h)]
                    [] ~Has(chain, h) /\ c < Len(chain) -> chain[c + 1]
                    [] OTHER          -> jobs[j]
     IN  Fetched(j, found, TRUE) \/ Fetched(j, jobs[j], FALSE)

External ==
  /\ \/ /\ \E i \in 1 .. Len(chain) + 1 :
             chain' = InsertAt(chain, i, Fresh(nextHandle, FirstBody))
        /\ TakeHandle
     \/ /\ \E i \in DOMAIN chain : chain' = RemoveAt(chain, i)
        /\ UNCHANGED nextHandle
     \/ /\ \E i \in DOMAIN chain, b \in Body :
             /\ b # chain[i].body
             /\ chain' = [chain EXCEPT ![i].body = b]
        /\ UNCHANGED nextHandle
  /\ outside < MaxOutside /\ outside' = outside + 1
  /\ jobs' = [j \in Job |-> [jobs[j] EXCEPT !.calm = FALSE]]
  /\ UNCHANGED <<listVars, modeVars, screenVars, keys>>

-----------------------------------------------------------------------------
(* Answers, as MainWindow.Update takes them, whatever view is active.      *)

Answered(j, kinds, stage) ==
  /\ jobs[j].stage = stage /\ jobs[j].kind \in kinds
  /\ jobs' = [jobs EXCEPT ![j] = IdleJob]
  /\ UNCHANGED <<kernelVars, filterMode, filterQuery, showDeleteConfirm,
                 alone, height, readOnly, open, keys>>

(* The list is renewed, and the cursor goes where the message says. *)
ruleDeletedMsg(j) ==
  /\ Answered(j, {"delete"}, "ok")
  /\ IF open
     THEN \E list \in {chain, rules} :
            /\ RefreshRules(list)
            /\ cursor' = IF cursor >= Len(list) /\ list # <<>>
                         THEN Len(list) - 1 ELSE Clamped(list)
     ELSE UNCHANGED <<listVars, target>>
  /\ UNCHANGED activeView

NewCursor(j) == IF jobs[j].kind = "up" THEN jobs[j].at - 1 ELSE jobs[j].at + 1

ruleMovedMsg_Unchecked(j) ==
  /\ Answered(j, Moving, "ok")
  /\ IF open
     THEN \E list \in {chain, rules} :
            RefreshRules(list) /\ cursor' = NewCursor(j)
     ELSE UNCHANGED <<listVars, target>>
  /\ UNCHANGED activeView

ruleMovedMsg(j) ==
  /\ Answered(j, Moving, "ok")
  /\ IF open
     THEN \E list \in {chain, rules} :
            /\ RefreshRules(list)
            /\ cursor' = IF NewCursor(j) < Len(list) THEN NewCursor(j)
                                                     ELSE Clamped(list)
     ELSE UNCHANGED <<listVars, target>>
  /\ UNCHANGED activeView

(* newRuleCreatedMsg, ruleViewSelectedMsg, ruleEditSelectedMsg *)
ruleSelectedMsg(j) ==
  /\ Answered(j, {"add", "insert"} \cup Opening, "ok")
  /\ activeView' = "rule"
  /\ UNCHANGED <<listVars, target>>

chainOpErrMsg(j) ==
  /\ Answered(j, Writing, "error")
  /\ UNCHANGED <<listVars, target, activeView>>

(* Esc in the viewer or the editor. *)
BackToChain ==
  /\ activeView = "rule" /\ activeView' = "chain"
  /\ IF open THEN \E list \in {chain, rules} :
                    RefreshRules(list) /\ cursor' = Clamped(list)
             ELSE UNCHANGED <<listVars, target>>
  /\ UNCHANGED <<kernelVars, filterMode, filterQuery, showDeleteConfirm,
                 alone, height, readOnly, open, jobs, keys>>

-----------------------------------------------------------------------------
Keys(j) ==
  \/ OpenRule(j) \/ ConfirmDelete(j) \/ MoveRule(j) \/ NewRule(j)

Commands(j) ==
  \/ DeleteRule(j) \/ MoveRuleUp(j) \/ MoveRuleDown(j)
  \/ AddNewRuleToChain(j) \/ InsertNewRuleBefore(j)
  \/ Refused(j) \/ fetchFreshRule(j)

Answers(j) ==
  \/ ruleDeletedMsg(j) \/ ruleMovedMsg(j) \/ ruleSelectedMsg(j)
  \/ chainOpErrMsg(j)

Next ==
  \/ \E j \in Job : Keys(j) \/ Commands(j) \/ Answers(j)
  \/ SelectChain \/ LeaveChain \/ BackToChain
  \/ Up \/ Down \/ EnterFilter \/ ExitFilter \/ Type \/ Backspace \/ Resize
  \/ Delete \/ DeclineDelete
  \/ External

Spec == Init /\ [][Next]_vars

-----------------------------------------------------------------------------
(* Properties.                                                             *)

(* The cursor is on a rule of the list whenever the list has one: no       *)
(* answer that arrives late, for a list that has shrunk or for another     *)
(* view, leaves it past the end, where every rule key would be dead.  The  *)
(* types of the variables are part of it.                                  *)
CursorInRules == TypeOK /\ (open => cursor < Len(rules) \/ cursor = 0)

(* The window starts inside the list that it shows, filtered or not: the   *)
(* screen is never blank while there are rules to show.                    *)
NeverBlank == open => scrollOffset < Len(activeRules) \/ scrollOffset = 0

(* The memo of rule texts is keyed by handle, and a handle survives an     *)
(* edit of its rule: the filter still shows exactly the listed rules whose *)
(* text, as listed, matches.                                               *)
FilterIsExact ==
  open /\ Filtering => activeRules = Matching(rules)

(* --read-only.                                                            *)
ReadOnlyWritesNothing ==
  readOnly =>
    /\ chain' = chain \/ outside' = outside + 1
    /\ \A j \in Job : jobs'[j].kind # "edit"
(* Yes in the dialog deletes the rule the dialog was opened for, unless    *)
(* an answer has renewed the list under it; that takes a command that was  *)
(* under way when the dialog was opened, for the dialog keeps every other  *)
(* key from the list.  (After such an answer it is the rule that the       *)
(* cursor is on by then.)  In a read-only session nothing is confirmed:    *)
(* this program does not write to the chain, by whatever keys and dialogs, *)
(* nor open the editor.                                                    *)
ConfirmedIsDeleted ==
  [][/\ ReadOnlyWritesNothing
     /\ \A j \in Job :
          jobs[j].stage = "idle" /\ jobs'[j].kind = "delete"
            => jobs'[j].id = target \/ (target = 0 /\ ~alone)]_vars

(* The cursor follows a rule that the user moves: when the answer renews   *)
(* an unfiltered list and nobody else wrote to the chain, the rule under   *)
(* the cursor is the moved one, wherever the cursor had gone meanwhile.    *)
CursorFollowsMove ==
  [][\A j \in Job :
       /\ jobs[j].kind \in Moving /\ jobs[j].stage = "ok"
       /\ jobs'[j].stage = "idle" /\ jobs[j].calm
       /\ open /\ ~filterMode /\ rules' = chain
       => rules'[cursor' + 1].id = jobs[j].id]_vars

(* The viewer and the editor open the rule that was selected as long as    *)
(* the chain still has its handle, with the text that the chain gives it   *)
(* then; if the chain cannot be listed, with the text that the list on the *)
(* screen had, which may be old.  (If the handle is gone, whatever rule    *)
(* stands where the cursor was is opened.)                                 *)
OpenedIsSelected ==
  [][\A j \in Job :
       /\ jobs[j].kind \in Opening /\ jobs[j].stage = "asked"
       /\ jobs'[j].stage = "ok" /\ Has(chain, jobs[j].handle)
       => /\ jobs'[j].opened = jobs[j].id
          /\ jobs'[j].body = IF jobs'[j].listed
                             THEN chain[Find(chain, jobs[j].handle)].body
                             ELSE jobs[j].body]_vars
=============================================================================
