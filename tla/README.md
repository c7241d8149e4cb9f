# nftui in TLA+

nftui is a terminal interface for the nftables ruleset of a Linux kernel. It
is written in Go on Bubble Tea: one main loop handles key presses and messages
one at a time, and every command that talks to the kernel runs in a goroutine
of its own and answers with a message. This directory holds TLA+ models of the
parts where that gets hard, TLC runs over small instances of them, and proofs
of their main invariants for every instance.

## The system

| Part | Source | State | Operations |
| --- | --- | --- | --- |
| rule commands | `nft/nft_linux.go`, `nft/rule.go`, `nft/rule_handle.go`, started in `ui/main_window_stats.go` | none of their own: a list, an index, a rule per goroutine | delete, move up and down, append, insert, apply; each is one to three netlink round trips |
| table and chain commands | `nft/nft_linux.go` | as above | create, delete and rename a table; create, delete and update a chain (rename, recreate from a dump, policy) |
| sets, named objects | `nft/set.go`, `nft/named_objects.go` | none | elements with interval encoding, create, delete, reset |
| audit log | `nft/audit.go` | the open file | one record for each mutation that was sent |
| main loop | `ui/main_window.go` | active view, views, error, loading flag, quit dialog | routing of keys, messages and errors |
| tree | `ui/main_window_table_list.go` | rows, cursor, search, delete dialog, status line | navigation, search, delete, reset, opening of views |
| tree loading | `ui/main_window_stats.go`, `ui/main_window.go` | the rows | the skeleton of the tree, then the rules of one chain at a time |
| chain view | `ui/chain_view.go` | rules, cursor, offset, filter and its memo, delete dialog | navigation, filter, rule commands, opening of a rule |
| set view | `ui/set_view.go` | elements, cursor, bulk-add prompt, delete dialog | the same for elements |
| forms | `ui/table_*.go`, `ui/chain_*.go`, `ui/set_create.go`, `ui/select.go`, `ui/number_input.go` | fields, focus, what the selections offer | typing, choosing, one command for a save |
| rule editor | `ui/rule_edit.go` | the rule, about 140 field editors | editing; a save validates all fields, writes them into the rule and applies it |
| field editors | `ui/field_*.go` | the widgets, and what they are compared with | opening on a decoded rule, validation, rewriting of the rule's expressions |
| decoding | `nft/rule.go`, `nft/expr/` | none | netlink expressions to the conditions and actions that editors and lists show |
| rule viewer, serializer | `ui/rule_view.go`, `nft/nftserializer/` | a scroll offset | text |
| startup, languages | `main.go`, `i18n/` | options, catalog | `--config`, `--table`, `--read-only`, `--lang` |

How they interact: a key goes to the main loop, which hands it to one view;
the view may return a command; the command's goroutine talks to the kernel and
returns a message; the main loop changes itself or a view by it, and may start
reloads. The kernel is shared with every other program that writes to the
ruleset, and with the other goroutines of nftui itself. The rule editor and
the commands it starts share one rule object.

What is hard in it:

- *Interleaving.* Nothing stops the user from starting a second command while
  the first is in flight. A command reads, decides, and writes in separate
  round trips; a chain or table is recreated from a dump.
- *Stale lists.* Every list on the screen is a copy. A command carries a rule,
  a name or an index from such a copy, and handles change when a rule is moved.
- *Late answers.* A message is handled whatever view is active by then: it may
  take the screen, put a cursor somewhere, replace the rows under a dialog, or
  bring an error to a view that does not show it.
- *Overlapping reloads.* Each kind of load answers by itself and in any order.
- *Partial failure.* A batch that was applied, then a listing that fails; a
  rename that was applied, then a recreate that fails.
- *Shared cells.* The field editors each know one match and rewrite the same
  sequence of expressions; what a cell of the packet is called depends on other
  matches of the rule.
- *Boundaries.* Ranges that end at the last key, numbers of more digits than an
  input takes, a length byte that overflows, hook numbers that mean another
  hook in another family.

What makes each part correct: a rule command touches the rule it was asked
about and no other, once or not at all, and says which; no command on tables
and chains loses a rule; the audit log says what happened; the cursor is on a
row; the filter shows what matches; what was confirmed is what is deleted;
read-only writes nothing by any path; the screen's "loading" ends; the tree,
left alone, is the kernel's; a save changes what the user changed and nothing
else, and the kernel gets a rule that somebody saved; what was added to a set is
what the set matches.

## The modules

### Commands and the kernel

`KernelChain` is a list of rules and what the messages of a netlink batch do to
it. It is the part of the kernel the code relies on, and external to the
repository.

`RuleLedger` is the abstract specification of the rule commands: a chain is a
sequence of rules known by identity; a command takes effect on its rule in one
step or gives up; anyone else may change the chain at any time.

`RuleOps` is the commands as they are: one action for each round trip
(`Reread`, the `Flush` actions, `Relist`), with the failures of each, over one
chain that other programs write to (`External`). `ops[o]` is a goroutine: what
it captured when its key was pressed (`handle`, `list`, `idx`), where it is
(`pc`), the audit records it left (`log`) and what it returns. `id`, `made`,
`took` and `quiet` are history variables: they let the properties speak of
"the same rule" across a move, and no guard reads them. A command of a later
handle is never confused with an earlier one because the kernel never reuses
handles; that is the assumption about the kernel that the code states itself.
`RuleOps` implements `RuleLedger` under `Ledger`, which maps a goroutine to
*asked* before its flush, *applied* after it and *void* if it gave up.

`KernelRuleset` is tables of chains of rules, and which transactions on them
the kernel accepts; external. `RulesetOps` is the six commands on tables and
chains over it: `Start` captures the arguments from the listing `seen`, which
may be old, the `Flush` actions are transactions, `Dump` and the `Apply` actions
the two runs of `nft` that a rename of a table or a new type, hook or priority
of a chain take. A rule is a number. `gone` and `raced` are history: the rules
that were deleted on purpose, and those that somebody changed between a dump
and its script. `calm` in a command says that nobody else has written since its
listing.

`Sublists` has the part of a list that lies at some of its positions, which
the filter, the search, the tree and the sets all take.

`SetIntervals` is pure: the elements of a range (`buildSetElements`), their
order and pairing into rows (`pairIntervalElements`), the deletion of both
halves, keys as numbers of a fixed width that wrap, and the set that the
elements make the kernel match (`Covered`), which is the reference the
operators are held against.

### Views

`ChainView` is the rule list. Its variables are the fields of the struct under
their own names. Keys, commands and answers are separate actions, so that any
number of keys may come between a command and its answer, and the user may
leave the view and open it again. Here a command takes effect in one step, as
`RuleOps` shows it does, and every listing may fail, which leaves the old list.
The text of a rule is its body and a query the set of bodies it matches: a
longer query matches less. A chain may be selected twice before its view opens,
so the view may open over whatever is open by then (`SelectChain`). `target` and
`alone` are history variables for the delete dialog, and so are `id`, `calm` and
`listed` in a job.

`SetView` is the view of one set with its commands, their answers and the set
in the kernel, over `SetIntervals`. The prompt stays open after every entry and
says "added" before the kernel was asked; `seen` is history: whether the view
has read the set since its last change. The form that creates a set is in it
as far as the two meet: while the form is there, shown or left behind, it takes
the errors of the view (`setOpErrMsg`), and what is answered elsewhere may close
the view, leave the form behind, or bring one more error (`AnsweredElsewhere`).

`TableTree` is the tree as the user moves in it: rows, cursor and window, the
delete dialog, the incremental search, the hint that fades, the answers to
commands on named objects, which are hints too, reloads that replace the rows
under all of them, and a terminal that changes the height of the window in
between (`WindowSizeMsg`). `asked`, `replaced` and `lowered` are history.

`Hooks` is what chain types, families and hooks go together, and the numbers
the hooks are sent as. `Forms` is the five forms over it: which field has the
focus, which fields are shown, which options a selection offers, and the values
a save sends. Of the seven key types three stand for all, since only the first
one, the one that a map starts with and `integer` are treated differently; the
text of a number input is the number it reads as, or none. `touched` is history.

`MainWindow` is the routing: `Receiver` is the order in which `Update` looks at
the views. `views` is the set of sub-views that are not nil. The answers of the
four reload commands are counted, not identified, except that `tables` is the
one that clears the flag and the error.

`TreeLoad` is the tree's content under overlapping reloads: loads and answers
are a bag, and the rules of a chain are a version number.

### The rule editor

`RuleExprs` is what `rule.Exprs` holds: one record per expression, numbers and
data as sequences of bytes, and the surgery the editors do (find, splice,
delete). `RuleDecode` is `NftablesToRuleDefinition`: one pass with a register
file and the protocols latched from earlier matches, which yields conditions
and actions.

`FieldBase` is what the editors share: an editor is a record of constants, its
state a pair of what the widgets hold and what that is compared with. The
editors themselves, one operator each for opening, validating and saving:
`FieldsGeneral` (position, comment, verdict, reject, log, counter, masquerade,
NAT, queue, quota, limit), `FieldsCt` (the conntrack tab), `FieldsNet` and
`FieldsTransport` (headers and metadata). Most of these edit one cell of a
packet, and `FieldCells` has the four ways in which they do: `pair` (a load and
a comparison), `bits` (with a mask between), `opt` (present or not, with a
match of the protocol in front if need be; five of them have a select of names
beside the number input) and sets of flags; an editor of the source is then a
row of constants. Where two editors of the source differ in
how they search, clip or insert, a constant says so. `RuleFields` puts the
tabs together behind the interface `FieldEditor`.

`RuleEditor` runs them: `Touch` changes one widget, `Save` lets every editor
write into `rule` in order and starts a command, and a command of an earlier
save that has not read the rule may read it between two of those writes, each
such command between two others.
`left` and `overlap` are history. A scene is a rule to open, the editors that
are shown and those that are touched.

The `MC` modules give the constants their values for TLC. A definition whose
name has an underscore (`DelRule_Keep`) is a broken form of the one
named before the underscore, of the kind a plausible bug would give; nothing
uses it. It records that the property it belongs to does depend on the code.

## The runs

Every run is a configuration of an `MC` module.

| Run | What it checks | Bounds |
| --- | --- | --- |
| `ruleops.cfg` | the rule commands: `NoRuleTwice`, `AuditTellsTheTruth`, `ErrorMeansNoEffect`, `QuietReturnIsCreated`, `MoveLandsBesideNeighbour`, `InsertLandsBehindListed`, and that they implement `RuleLedger` | a chain of two rules, two commands in flight, one outside batch: every pair interleaves in every order, also with one of them stale |
| `chainview.cfg` | `CursorInRules`, `FilterIsExact`, `ConfirmedIsDeleted` (with what read-only forbids), `CursorFollowsMove` | two rules, two texts, two commands in flight, one outside write |
| `window.cfg` | `NeverBlank`, `OpenedIsSelected` | three rules on a terminal resized between room for two and room for one, one command, one outside write. (Below 24 lines a prompt to resize is drawn instead, but keys and messages still reach the list) |
| `mainwindow.cfg` | `LoadingIsPending`, `ReadOnlyStartsNoWrite`, also from a start that failed | two overlapping reloads, and three commands, which is what it takes to open a chain, open a rule and save it |
| `treeload.cfg` | `LoadingIsOnItsWay`, `CalmTreeAgrees` and, under fairness, `RowsFill` | two chains and two changes, so that three reloads overlap |
| `ruleset_ops.cfg` | `RulesSurvive`, `CalmIsAtomic`, `EveryChangeAudited` | two table names, two chain names, two declarations, two policies; two commands in flight and one outside write, which is what it takes to change a chain between the dump and the script of a command while another command runs |
| `forms.cfg` | `FocusIsShown`, `HookFitsType`, `OnlyTouchedChanges` | the families inet, arp and netdev (ip, ip6 and bridge have what inet has, without ingress) with every base chain of them; three names, two priorities of which one is too long for its input; any number of keys |
| `tabletree.cfg` | `DialogKeepsItsRow`, `SearchParksOnMatch`, `HintHasItsTimer`, `KeysStayOnRows` | two tables of two leaves, one of them a named object; a window that has no end at first (no size was told yet) and then one row or two, in any order; one change of the kernel, whose readings may arrive out of order and so shrink and grow the tree; two hints, one command under way |
| `setview.cfg` | `CursorOnRows`, `HintIsTrue`, `NoOrphans`, `ApartRowsAreRanges`, `AddsWhatWasTyped` | keys of two bits (the first and the last key, ranges that touch, overlap, end at the top or are upside down); a range that covers two others' ends, which is what deleting a stale row goes wrong on; three commands, two in flight, one outside change; a form to create sets that is opened, left and left behind at any time; a plain set, an interval set, an interval map |
| `editor.cfg` | `QuietSave`, `RoundTrip`, `OthersKeep`, `VerdictStaysLast`, `SavedIsComplete`, `CalmAgrees` | about ninety rules that use every kind of expression the decoder knows, each with every editor of its tab and one change, each untouched with every editor, and four small groups of editors with two changes and two overlapping saves; numbers that fit and that do not, every name a select offers with every number typed beside it, and the last queue number; family inet, where every editor exists |
| `rows_are_ranges.cfg` | one sentence of the repository that the code does not keep, see below | interval sets, two commands |
| `hint_is_the_truth.cfg` | another, see below | an interval set, one command |

`SYMMETRY` is used where no action tells two values apart, and not with
liveness. Whether the session is read-only is chosen in the initial states of
`ChainView` and `MainWindow`, so each of their runs covers both.

Types: `TypeOK` of `RuleOps` and `MainWindow` is proved for every instance, and
no run repeats it. In the other modules it is a conjunct of one of the
invariants above, as its comment says (of `FocusIsShown`, of
`LoadingIsOnItsWay` and of `SavedIsComplete` among them).

Deadlock is not checked where the bounds run out or the program quits, and then
nothing need happen.

`rows_are_ranges` finds a behaviour against a comment. The close marker of a
range that ends at the last key wraps to key 0 (`nft/set.go`, 665), sorts
before its start and is dropped by the pairing: the row shows the first key
alone, and deleting it asks for a marker that is not there. The comments call
the wrap "acceptable for our cidr / port bounds" and say that the pairing
"renders one row per range and Delete knows both halves to remove".
`ApartRowsAreRanges` is what does hold.

`hint_is_the_truth` finds another. The form that creates a set is opened in the
short time between a key that creates a chain or a table and its answer; the
answer puts the main view on the screen and leaves the form where it is
(`ui/main_window.go`, 359-383). From then on the form takes every error of a
set (726-730): in the prompt of another set, "added" stays on the screen for an
entry that the kernel refused, although the comment there says "an error means
the previous "added X" hint is no longer the truth. Wipe the hint to keep the
overlay honest" (732-736). `HintIsTrue` is what does hold.

### Fairness

One module states fairness, `TreeLoad`: the Go runtime runs every goroutine and
Bubble Tea handles every message, so each load and each delivery is weakly
fair, for each chain. Nothing is fair about keys, about other programs, or
about which of several outcomes a call has. The other modules state none:
`LoadingIsPending` says that the answer that ends the loading is in flight,
`HintHasItsTimer` that the timer is running, and they will arrive for the same
reason.

## Observations

What the models show and a change to the code should keep in mind. These are
behaviours of the code as it is; where a property has an exception, it is for
one of them.

*Rule commands and the rule list*

- A move deletes the rule and inserts it under a new handle, so "a missing
  handle means the rule is genuinely gone" (`nft/nft_linux.go`, 503) is not all
  there is: a second `K` pressed before the list is renewed is refused.
- `AddNewRuleToChain` and `InsertNewRuleBefore` find the rule they return by
  its position in a second listing, so with another writer it may be another
  rule; `QuietReturnIsCreated` says only that it is right without one, from a
  list that was up to date. A listing that fails after the batch was committed
  is reported as the error of the addition, although the rule is there;
  `ErrorMeansNoEffect` is about deletes, moves and edits.
- A move inserts the content it re-read, so an edit of the same rule between
  the re-read and the flush is undone without an error (`Move` of `RuleLedger`
  allows it).
- A command that the staleness guard refuses leaves no audit record.
- The answers to moves and deletes set the cursor by the whole list, also when
  a filter shows less of it; `CursorInRules` is about the whole list for that
  reason. They do not touch the scroll offset (`ui/main_window.go`, 759): a
  move at the edge of the window takes the cursor out of it, which
  `CHANGELOG.md` (127) lists as fixed.
- If the handle is no longer listed, F3 and F4 open whatever stands at the
  cursor (`ui/chain_view.go`, 664); if the chain cannot be listed, they open the
  copy of the list on the screen, as old as that is (656), without a word.
- The delete dialog does not keep the rule it was opened for: if the answer to
  an earlier command renews the list under it, yes deletes the rule that the
  cursor is on by then (`ui/chain_view.go`, 374). `ConfirmedIsDeleted` says that
  there is no other way to delete a rule than the one confirmed.

*Main loop and tree*

- Over a sub-view the quit prompt is drawn, and the sub-view takes the keys
  (`ui/main_window.go`, 440).
- The error of a chain or set that is deleted from the tree is shown nowhere
  (`ui/main_window.go`, 657): its message looks for a view that is not open.
- `r` reads the four numbers above the tree and not the tree, though
  `README.md` (401) says "refresh from kernel".
- `MainWindow.err` is one variable: the answer of an older reload clears the
  error of a failed open, and a save that fails after the editor was left puts
  its error where the user is not looking.
- An older `chainRulesLoadedMsg` overwrites a newer one; `CalmTreeAgrees` is
  about changes made one at a time.
- A reload leaves cursor, offset and the matches of a search as they are: the
  cursor may be below the last row until the next key, and the delete dialog
  over another row than the one it was opened on: yes deletes that.
- A terminal that gets lower cuts the window of the tree and scrolls nothing
  (`ui/main_window.go`, 269): the cursor, on a match of a search or not, is
  drawn again with the next step of the search, or when down or enough presses
  of up bring it into the window.
- A form that creates a set and was left behind by a late answer takes every
  error of a set from then on, until it is opened and left again.

*Tables, chains and forms*

- Rules that another program adds between the dump and the script of a
  recreation or a rename are lost, though `nft/nft_linux.go` (373) says rules
  are preserved; they are the rules in `raced`.
- A rename of a table to a name that exists merges the two. `CreateChain` on a
  chain that exists changes its policy and reports success.
- A recreation sends every attribute of the form, also those which another
  program has changed since it was opened.
- Hook names and numbers are converted without the family: in the inet family
  an ingress chain shows as prerouting or is created as one, in arp input and
  output are mixed up, in netdev egress has another name. A save of such a
  chain's untouched form changes it; so does that of a chain whose priority
  has eleven characters.
- A late answer to one form closes another that was opened meanwhile.

*Sets*

- Bounds of a range are not compared, so one upside down is sent as it is.
- The elements of a range carry no value: an interval map never gets one.
- A refresh that arrives while the delete dialog is open moves another row
  under it.
- The row that is deleted is the row as last read. If the range has become
  several ranges meanwhile, the start of the first and the marker of the last
  are deleted and those between are left, a marker without a start among them.
- An addition is taken for done if the start and the marker of its range are
  both there, although they may belong to two ranges with a gap between them.

*Rule editor*

- What no editor can show changes with an untouched save or is shown as
  nothing: zero where the input is blank for zero, values a select does not
  offer, counters and quotas of more than ten digits, reject codes without a
  name. An SCTP chunk match is taken out and appended again by every save,
  although `ui/field_editor.go` (20) says that a save without a change does
  nothing.
- The editors of header fields, metadata, masquerade, NAT, queue and quota
  append a new match or statement at the end, behind the verdict, where the
  kernel never comes to it; `VerdictStaysLast` is about the others.
- A conntrack match is inserted two places after the last conntrack
  expression (`ui/field_ct_helpers.go`, 23): in a masked match that is the
  middle of it, and in a rule that ends by setting a ct mark it is beyond the
  end, where the slice panics.
- ICMP and ICMPv6 types, DCCP types, ether types and ARP operations have a
  select of names and a number input beside it, with "or" between them. As long
  as a name is chosen the number is not looked at (`ui/field_icmp.go`, 156-166):
  a number typed over a rule that matches a named value is dropped when it is
  saved, without an error; the name has to be taken out first. A DCCP number
  above 15 loses its upper bits.
- The number of queues of a range is computed in sixteen bits
  (`ui/field_queue.go`, 198-200): the range from 0 to 65535 passes the
  validation and is written with a total of zero. `SavedIsComplete` says that
  it is the only one.
- A comment of 255 bytes or more has a length byte that overflows; the input
  takes 256.
- An editor compares with what it last wrote, not with what the kernel took;
  after a refusal another save sends the rule again as it is. A save with
  another in flight changes the rule that the other is reading.

## The proofs

Every theorem is about the specification of its module and holds for every
value of its constants: any number of goroutines, chains, tables, rules and
keys, and any value of the bounds, which only stop TLC. The constants are
assumed to be what the named assumptions of the modules say: that the bounds
are numbers, that a marker such as `NoDecl`, `Root` or `World` is not one of
the things it marks the absence of, that the first window of the rule list has a
height, that a listing names a table once. TLC evaluates all of them.

| Module | Theorems | The invariant they rest on |
| --- | --- | --- |
| `RuleOps_proofs` | `TypeCorrect`, `AuditCorrect`, `ErrorsAreHonest` | `OpsInv` |
| | `RulesStayUnique`, `MovesLandBeside`, `InsertsLandBehind` | and `Identified`, `Distinct` |
| | `QuietCreationsReturn` | and `QuietInv` |
| | `CommandsImplementLedger` | the same |
| `ChainView_proofs` | `CursorStays`, `WindowStays`, `FilterStaysExact`, `DeletesWhatWasShown`, `CursorGoesWithRule`, `OpensWhatWasSelected` | `IInv` |
| `MainWindow_proofs` | `TypeCorrect`, `LoadingPends`, `ReadOnlyHolds` | `OnlyReads` |
| | `RowsWaitForAnswers`, `CalmTreesAgree` (of `TreeLoad`) | `LoadingIsOnItsWay`; `CalmInv` |
| | `FocusHolds`, `HookHolds`, `TouchedHolds` (of `Forms`) | `FormInv` |
| `RuleEditor_proofs` | `CalmHolds` | `CalmInv` |
| `RulesetOps_proofs` | `ChangesAreAudited`, `RulesAlwaysSurvive`, `CalmCommandsAreAtomic` | `BaseInv`; and `RuleInv`; and `CalmInv` |
| `SetView_proofs` | `CursorAlwaysOnRows`, `HintsAreTrue`, `MarkersCloseRanges`, `AdditionsAreExact`, `RowsShowRanges` | `SetInv` |
| `TableTree_proofs` | `DialogIsAboutItsRow`, `SearchStaysOnItsMatch`, `HintsHaveTheirTimer`, `KeysKeepOnRows` | `TreeInv` |

`MainWindow_proofs` is about the main loop and about the tree's loads and the
forms, two parts of the same window that it leaves out; it extends all three
modules, which is why `TreeLoad` and `Forms` have names of their own for what
others call `Init`, `Next`, `Spec` and `TypeOK`. `SeqLemmas` has what all the
modules of proofs share: insertion into and removal from a sequence, what is
left of a sequence at some of its positions, and induction.

*Rule commands.* `OpsInv` is the type invariant with, for each goroutine, what
its place in the code implies: nothing is taken or logged before the flush,
exactly `ok` after it, and at the end the result that goes with the log. The
type alone is not inductive, because the flush of a move or an insert indexes
the list it carries: `OpsInv` adds that `idx` lies in it (`Ready`).
`Identified` says that all lists and captured rules, however old, agree on who
has a handle, and that every handle is below the kernel's next one; it rests on
the kernel's promise not to reuse handles, and is where everything starts that
the code does with handles from old lists. `NoRuleTwice` needs it, since a move
deletes by handle and puts back by content, and it needs `NoRuleTwice`.
`InsertsLandBehind` takes the rule that the view listed before the cursor, any
number of steps ago, to the rule that has its handle in the chain at the flush.
That a command that nobody disturbed returns the rule it made needs to know, at
each of its steps, where that rule stands (`QuietInv`: at `relist`, in the
place the listing will be searched at). The refinement goes through the steps
of a goroutine: the key is `Ask` of `RuleLedger`, a flush that is applied
`TakeEffect` on the same rule, one that fails or is not reached `GiveUp`, the
end `Settle`, the round trips between them stutter, and other programs are the
`Outsider`. What makes it more than a renaming is that the flush acts by handle
on the chain as it is then, and the ledger by identity; `Identified` and
`Distinct` say that they mean the same rule.

*Rule list.* `IInv` has `Identified` again, now over the kernel, the rows and
the goroutines that fetch a rule to open; that what is remembered of a listed
rule's text is its text (`Remembered`, without which the filter is exact only
by luck); that a delete dialog that was opened with nothing under way is about
the row under the cursor, that nothing is under way still, and no other view is
open over it (`Undisturbed`), and that no dialog is ever open in a read-only
session; and of a calm move that its rule stands where its message will put the
cursor (`Tracked`). `CursorFollowsMove` is about one step, the answer to the
move, and says nothing without `Tracked`, which follows the rule from the key
to the answer.

*Main loop.* `LoadingIsPending` is inductive with the types.
`ReadOnlyStartsNoWrite` is not: a yes in an open delete dialog starts a delete
without looking at the option again, and an opening command in flight opens its
view later. `OnlyReads` adds that no such dialog is open and that everything in
flight is a read.

*Forms.* `FormInv` says of an open form that it is `Right`: the focus is on a
field that is shown, every selection holds something it offers, the hooks on
offer are those of the type and family that are shown, and in the edit form of
a chain every field that the user did not ask to change has the value that the
form gave it when it opened. None of the three properties is inductive.
`FocusIsShown` needs that the hooks on offer are never an empty list, since
otherwise a new type would leave a hook that is not there: a chain type that a
family has keeps one of its hooks, the output hook (`HooksKept`).
`HookFitsType` needs that the hook shown is one of the family's (`HookHeld`),
and then what the kernel makes of the number that is sent (`KernelHook`), which
is where the three exceptions come from. `OnlyTouchedChanges` compares what is
sent with the chain, and so what the form makes of a chain and back again
(`HookShown`, `NumberRead`, `BaseShown`); which chains come through that round
trip unchanged is `CanShow`, and the theorem says that no others do.

*Saves of the rule editor.* `CalmAgrees` is about a moment when nothing is in
flight; `CalmInv` says what is in flight until then: without an overlap one
command at most, which has read nothing yet or the rule of the list as the
save left it, and rule and kernel are among those that saves completed. What
the editors write does not matter for it, so the argument does not look into
them: `rule` after a save is whatever the last of them left, or a panic, after
which nothing is sent.

*Tree loading.* `LoadingIsOnItsWay` is inductive with the types: every row that
a skeleton makes "loading" gets a load from the same step, and what takes the
load away leaves its answer, and what takes the answer away fills the row.
`CalmTreeAgrees` is not: of a calm tree one has to know
the stage of its one refresh (`Stage`), and while the rows are being filled,
that each has its rules or exactly one message that will bring them
(`Filling`). That messages are a bag is why it needs `CalmInv`, which says that
no message is there twice.

*Tables and chains.* `BaseInv` has the types, and that no rule is anywhere
before it is made. `RuleInv` says of every rule that nobody else touched between
a dump and its script that it stands in one place if it was not deleted and in
none if it was, and that every dump that waits for its script has the rules
that stand where it was taken, each once (`DumpOK`). The second half makes it
inductive, since the script deletes one and puts back the other. `CalmInv` gives
the ruleset of a calm command at each of its steps: the one it started from,
or that after its rename, and its dump is a part of it. `ChangesAreAudited`
is an action property and needs of the steps only what they add to the log.

*Sets.* `SetInv` says that the kernel's markers close ranges unless something
odd was done (`Closes`), that a hint is only there while the prompt is, and is
for an entry that was not refused yet, or whose refusal a form took, and that
a fresh view shows a reading of what the kernel has now, or that an answer is on
its way that will make it read again. `Closes` is what deletion needs: the key
after the last one of a range is then the marker's. `RowsShowRanges` is a
theorem about the pairing itself: whatever order the sort leaves a marker and a
start of one key in, what the first k elements of the list have become is a row
for every start among them (`PairedUpTo`), and in ranges that keep apart
(`ApartIn`) the element after a start is its marker (`StartThenMarker`).

*Tree.* `TreeInv` says that a tree and every answer that may replace it has no
table twice, that the dialog is about the row under the cursor and the matches
are rows that match until a reload, and that the newest hint has the newest
timer. For `KeysStayOnRows` one has to know where in the flattened list a
table's row is: after the rows of the nodes before it (`Drawing`), so opening
or closing it does not move it (`OpeningKeepsRoot`), and opening all of them
for a search makes the list no shorter (`OpeningHidesNothing`).

Two things about the form. The modules with proofs take parts of sequences with
`Kept` of `Sublists`, by positions, where `SelectSeq` would be usual: the prover
knows nothing of what `SelectSeq` returns. And the induction theorems of the
library take an operator as a parameter, which the provers cannot instantiate;
`LeastNumber` and `UpTo` of `SeqLemmas` are induction over the numbers in
terms of a set of numbers, which they can use. The folds that pair elements into
rows and flatten nodes into rows are unfolded with it: a function is shown to
exist that has the value after each prefix (`PairingIsStepwise`,
`FlattenIsStepwise`), and the rest of the proof is about that function.

Only model-checked:

- Liveness (`RowsFill`): the prover has no fairness and no `ENABLED`. The safety
  half is proved: `LoadingIsOnItsWay` says that the message is under way.
- Five invariants of the rule editor: `QuietSave`, `RoundTrip`, `OthersKeep`,
  `VerdictStaysLast`, `SavedIsComplete`. They are about what the editors do to
  a rule, which is a fold of about 140 editors over a sequence of expressions
  and a decoder that is a fold over it again; what a fold computes for every
  sequence is induction over data, which the provers cannot do with operators
  as parameters, and with these definitions unfolded by hand it would be a
  case for each editor, opened, saved and decoded. The run has every kind of
  editor and expression instead.

## Not modelled

- Text: rendering, formatting of values, the serializer, languages, the rule
  viewer. No other part reads it back, and a text that is read back (numbers,
  addresses, comments) is modelled by what the conversion does to its value.
- The parsing of the key types of a set, the layout of JSON and netlink
  messages, the encodings of named objects.
- `LoadConfig`, `FlushRules` and `LoadExamples`: one call each to `nft` or
  netlink. Startup: a sequence of calls with no state of the program.
- Several chains at once in `RuleOps`: a rule command never reads a second
  chain. A chain or table that vanishes under the chain view is a listing that
  fails.
- Counter values that go up while a rule is edited: the kernel side of a
  counter is outside of `RuleEditor`.

## Plan

Done: every component above, and theorems for the invariants and action
properties of all runs but the five of the rule editor named above, which stay
with TLC for the reason given there. What a change to the code calls for:

1. A new field editor: a row of constants in the module of its tab, a rule that
   uses its expression and a scene for it in `MCRuleEditor`.
2. A new command: an action for each of its round trips in `RuleOps` or
   `RulesetOps`, and a case in the step lemmas of the proofs.
3. A new view or key: its rows in `Opens`, `Save` and `Receiver` of
   `MainWindow`.
