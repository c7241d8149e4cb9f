----------------------------- MODULE TableTree -------------------------------
(***************************************************************************)
(* The tree of tables as the user moves in it                              *)
(* (ui/main_window_table_list.go): rows, cursor and scroll window, the     *)
(* delete dialog, the incremental search, and the hint that fades.  The    *)
(* cursor, the offset and the matches of a search are numbers of rows, and *)
(* a reload replaces the rows under all of them.                           *)
(***************************************************************************)
EXTENDS Integers, Sublists

CONSTANTS
    TableSeq,           \* the names of tables, in the order of a listing
    LeafSeq,            \* the chains, sets and objects of a table, likewise
    Objects,            \* the leaves that are named objects
    Resettable,         \* those of them that are counters or quotas
    Queries,            \* for each query of a search, the names it matches
    Heights,            \* the rows that terminals have for the tree
    ReadOnly,           \* the session is read-only
    MaxChanges,         \* bound: changes of the kernel
    MaxHints,           \* bound: hints shown
    MaxCommands         \* bound: commands on named objects under way

(* A table is listed once, and the root of a table is not a leaf.          *)
Root == "root"
ASSUME TreeAssumption ==
    /\ TableSeq \in Seq(ToSet(TableSeq)) /\ IsInjective(TableSeq)
    /\ LeafSeq \in Seq(ToSet(LeafSeq)) /\ Root \notin ToSet(LeafSeq)
    /\ Heights \subseteq Int /\ Resettable \subseteq Objects
    /\ {MaxChanges, MaxHints, MaxCommands} \subseteq Nat

VARIABLES
    kernel,             \* the tables there are and their leaves
    answers,            \* a new skeleton that has been read and not taken
    nodes,              \* the tree
    cursor, scrollOffset,   \* rows are counted from 0
    maxHeight,          \* rows in the window; all of them if not positive
    showDeleteConfirm, asked,   \* the dialog; history: the row it asked of
    searchMode, matches, active, query,
    lowered,            \* history: a lower window since the search moved
    statusGen, hint, timers,    \* the hint, its number, and the fade timers
    commands,           \* commands on named objects under way
    replaced,           \* history: a reload since dialog or matches were set
    changes             \* counter of a bound
view   == <<nodes, cursor, scrollOffset, maxHeight>>
dialog == <<showDeleteConfirm, asked>>
search == <<searchMode, matches, active, query, lowered>>
status == <<statusGen, hint, timers>>
world  == <<kernel, answers, changes, commands>>
vars   == <<view, dialog, search, status, world, replaced>>

----------------------------------------------------------------------------
(* Rows: a table, and below it its leaves if it is expanded. *)
NoRow     == <<"none", Root>>
RowsOf(n) == <<<<n.table, Root>>>> \o
             (IF n.expanded THEN [i \in DOMAIN n.leaves |->
                                    <<n.table, n.leaves[i]>>]
              ELSE << >>)
getFlattenedItems(ns) == FlattenSeq([i \in DOMAIN ns |-> RowsOf(ns[i])])

rows     == getFlattenedItems(nodes)
OnRow    == cursor < Len(rows)
Selected == IF OnRow THEN rows[cursor + 1] ELSE NoRow
NameOf(row) == IF row[2] = Root THEN row[1] ELSE row[2]
IsTable  == OnRow /\ Selected[2] = Root

(* initialTableTreeModel: every table of a listing is collapsed. *)
Skeleton(k) ==
    LET there == Kept(TableSeq, {i \in DOMAIN TableSeq :
                                   TableSeq[i] \in DOMAIN k})
        LeavesOf(t) == {i \in DOMAIN LeafSeq : LeafSeq[i] \in k[t]}
    IN  [i \in DOMAIN there |->
           [table |-> there[i], expanded |-> FALSE,
            leaves |-> Kept(LeafSeq, LeavesOf(there[i]))]]

Init ==
    /\ kernel = [t \in ToSet(TableSeq) |-> ToSet(LeafSeq)]
    /\ nodes = Skeleton(kernel)
    /\ cursor = 0 /\ scrollOffset = 0 /\ maxHeight = 0
    /\ showDeleteConfirm = FALSE /\ asked = NoRow
    /\ searchMode = FALSE /\ matches = << >> /\ active = 0 /\ query = {}
    /\ lowered = FALSE
    /\ statusGen = 0 /\ hint = FALSE /\ timers = {} /\ commands = 0
    /\ answers = {} /\ replaced = FALSE /\ changes = 0

----------------------------------------------------------------------------
(* A terminal tells its size at the start and whenever it changes: the     *)
(* window is higher or lower, and cursor and offset stay as they are.  It  *)
(* leaves nine lines for the frame, so that less than a row may be left.   *)
WindowSizeMsg(h) ==
    /\ maxHeight' = h
    /\ lowered' = (lowered \/ (h > 0 /\ (maxHeight > 0 => h < maxHeight)))
    /\ UNCHANGED <<nodes, cursor, scrollOffset, searchMode, matches, active>>
    /\ UNCHANGED <<query, dialog, status, world, replaced>>

(* A row below the window that starts at an offset.  A window of no rows   *)
(* has no end.                                                             *)
Below(row, offset) == maxHeight > 0 /\ row >= offset + maxHeight

(* Keys without a dialog or a search. *)
Browsing == ~showDeleteConfirm /\ ~searchMode
Writing  == Browsing /\ ~ReadOnly

(* Mutant: the cursor moves under the dialog. *)
Up_UnderDialog ==
    /\ ~searchMode
    /\ cursor > 0
    /\ cursor' = cursor - 1
    /\ scrollOffset' = IF cursor' < scrollOffset THEN cursor' ELSE scrollOffset
    /\ UNCHANGED <<nodes, maxHeight, dialog, search, status, world>>
    /\ UNCHANGED replaced

Up ==
    /\ Browsing
    /\ cursor > 0
    /\ cursor' = cursor - 1
    /\ scrollOffset' = IF cursor' < scrollOffset THEN cursor' ELSE scrollOffset
    /\ UNCHANGED <<nodes, maxHeight, dialog, search, status, world>>
    /\ UNCHANGED replaced

Down ==
    /\ Browsing
    /\ cursor < Len(rows) - 1
    /\ cursor' = cursor + 1
    /\ scrollOffset' = IF Below(cursor', scrollOffset)
                       THEN cursor' - maxHeight + 1 ELSE scrollOffset
    /\ UNCHANGED <<nodes, maxHeight, dialog, search, status, world>>
    /\ UNCHANGED replaced

(* enter or right on a table opens or closes it; left closes it, and on a  *)
(* leaf goes to its table.                                                 *)
SetExpanded(t, open) ==
    nodes' = [i \in DOMAIN nodes |->
                [nodes[i] EXCEPT !.expanded = IF nodes[i].table = t
                                              THEN open ELSE @]]
RootRow(t) == CHOOSE i \in 0 .. Len(rows) - 1 : rows[i + 1] = <<t, Root>>
NodeOf(t) == CHOOSE i \in DOMAIN nodes : nodes[i].table = t

(* Mutant: left closes the table above a leaf and leaves the cursor. *)
Left_Closes ==
    /\ Browsing /\ OnRow
    /\ SetExpanded(Selected[1], FALSE)
    /\ UNCHANGED <<cursor, scrollOffset, maxHeight, dialog, search, status>>
    /\ UNCHANGED <<world, replaced>>

Toggle ==
    /\ Browsing /\ IsTable
    /\ SetExpanded(Selected[1], ~nodes[NodeOf(Selected[1])].expanded)
    /\ UNCHANGED <<cursor, scrollOffset, maxHeight, dialog, search, status>>
    /\ UNCHANGED <<world, replaced>>

Left ==
    /\ Browsing /\ OnRow
    /\ IF IsTable
       THEN SetExpanded(Selected[1], FALSE) /\ UNCHANGED cursor
       ELSE /\ cursor' = RootRow(Selected[1])
            /\ UNCHANGED nodes
    /\ UNCHANGED <<scrollOffset, maxHeight, dialog, search, status, world>>
    /\ UNCHANGED replaced

(* d asks whether to delete the row under the cursor. *)
Delete ==
    /\ Writing /\ OnRow
    /\ showDeleteConfirm' = TRUE
    /\ asked' = Selected /\ replaced' = FALSE
    /\ UNCHANGED <<view, search, status, world>>

(* A command on a named object is started, and later answered. *)
Start ==
    /\ commands < MaxCommands
    /\ commands' = commands + 1
    /\ UNCHANGED <<kernel, answers, changes>>
OnObject == OnRow /\ Selected[2] \in Objects

(* y starts the command for the row that is under the cursor now. *)
Confirm ==
    /\ showDeleteConfirm
    /\ showDeleteConfirm' = FALSE /\ asked' = NoRow
    /\ IF OnObject THEN Start ELSE UNCHANGED world
    /\ UNCHANGED <<view, search, status, replaced>>

Decline ==
    /\ showDeleteConfirm
    /\ showDeleteConfirm' = FALSE /\ asked' = NoRow
    /\ UNCHANGED <<view, search, status, world, replaced>>

(* R resets a counter or quota, and on any other row shows a hint that a   *)
(* timer of its own takes away.                                            *)
setStatus ==
    /\ statusGen < MaxHints
    /\ statusGen' = statusGen + 1
    /\ hint' = TRUE
    /\ timers' = timers \cup {statusGen'}

Reset ==
    /\ Writing /\ OnRow
    /\ Selected[2] \in Resettable
    /\ Start
    /\ UNCHANGED <<view, dialog, search, status, replaced>>

ResetHint ==
    /\ Writing /\ OnRow
    /\ Selected[2] \notin Resettable
    /\ setStatus
    /\ UNCHANGED <<view, dialog, search, world, replaced>>

(* A command on an object is answered: its error is a hint, too, and one   *)
(* that went well asks for a reload, which Reload stands for.              *)
namedObjectOpErrMsg ==
    /\ commands > 0
    /\ commands' = commands - 1
    /\ setStatus
    /\ UNCHANGED <<view, dialog, search, kernel, answers, changes, replaced>>

namedObjectDone ==
    /\ commands > 0
    /\ commands' = commands - 1
    /\ UNCHANGED <<view, dialog, search, status, replaced>>
    /\ UNCHANGED <<kernel, answers, changes>>

(* Mutant: any timer takes the hint away. *)
StatusFade_Any(gen) ==
    /\ gen \in timers
    /\ timers' = timers \ {gen}
    /\ hint' = FALSE
    /\ UNCHANGED <<statusGen, view, dialog, search, world, replaced>>

StatusFade(gen) ==
    /\ gen \in timers
    /\ timers' = timers \ {gen}
    /\ hint' = IF gen = statusGen THEN FALSE ELSE hint
    /\ UNCHANGED <<statusGen, view, dialog, search, world, replaced>>

----------------------------------------------------------------------------
(* Search: every table is expanded, typing collects the rows that match,   *)
(* and the cursor goes to the active one.                                  *)
SearchKey == searchMode /\ ~showDeleteConfirm

EnterSearch ==
    /\ Browsing
    /\ searchMode' = TRUE /\ matches' = << >> /\ active' = 0 /\ query' = {}
    /\ nodes' = [i \in DOMAIN nodes |-> [nodes[i] EXCEPT !.expanded = TRUE]]
    /\ replaced' = FALSE
    /\ UNCHANGED <<cursor, scrollOffset, maxHeight, lowered, dialog, status>>
    /\ UNCHANGED world

ExitSearch ==
    /\ SearchKey
    /\ searchMode' = FALSE /\ matches' = << >> /\ active' = 0 /\ query' = {}
    /\ UNCHANGED <<lowered, view, dialog, status, world, replaced>>

(* Mutant: the cursor is left where it was when it is above the window. *)
jumpToActiveMatch_DownOnly ==
    IF matches' = << >> THEN UNCHANGED <<cursor, scrollOffset>>
    ELSE /\ cursor' = matches'[active' + 1]
         /\ scrollOffset' = IF Below(cursor', scrollOffset)
                            THEN cursor' - maxHeight + 1 ELSE scrollOffset

(* The cursor goes to the active match and the window follows it. *)
jumpToActiveMatch ==
    IF matches' = << >> THEN UNCHANGED <<cursor, scrollOffset>>
    ELSE /\ cursor' = matches'[active' + 1]
         /\ scrollOffset' =
              IF cursor' < scrollOffset THEN cursor'
              ELSE IF Below(cursor', scrollOffset)
              THEN cursor' - maxHeight + 1 ELSE scrollOffset

(* A letter more or less: the query matches other names. *)
SearchType ==
    /\ SearchKey
    /\ \E q \in Queries, list \in {rows} :
         /\ query' = q
         /\ matches' = Kept([i \in DOMAIN list |-> i - 1],
                            {i \in DOMAIN list : NameOf(list[i]) \in q})
    /\ active' = 0
    /\ replaced' = FALSE /\ lowered' = FALSE
    /\ jumpToActiveMatch
    /\ UNCHANGED <<searchMode, nodes, maxHeight, dialog, status, world>>

SearchStep(step) ==
    /\ SearchKey
    /\ matches # << >>
    /\ active' = (active + step) % Len(matches)
    /\ lowered' = FALSE
    /\ UNCHANGED <<searchMode, matches, query>>
    /\ jumpToActiveMatch
    /\ UNCHANGED <<nodes, maxHeight, dialog, status, world, replaced>>

----------------------------------------------------------------------------
(* The kernel changes; a reload (TreeLoad says when one starts) reads it,  *)
(* and its answer replaces the nodes and nothing else.                     *)
KernelChanges ==
    /\ changes < MaxChanges
    /\ changes' = changes + 1
    /\ \E t \in ToSet(TableSeq) :
         \/ /\ t \in DOMAIN kernel
            /\ kernel' = [u \in DOMAIN kernel \ {t} |-> kernel[u]]
         \/ /\ t \in DOMAIN kernel
            /\ \E x \in kernel[t] : kernel' = [kernel EXCEPT ![t] = @ \ {x}]
         \/ /\ t \notin DOMAIN kernel
            /\ kernel' = [u \in DOMAIN kernel \cup {t} |->
                            IF u = t THEN {} ELSE kernel[u]]
    /\ UNCHANGED <<view, dialog, search, status, answers, commands>>
    /\ UNCHANGED replaced

Reload ==
    /\ answers = {}
    /\ answers' = {Skeleton(kernel)}
    /\ UNCHANGED <<view, dialog, search, status, kernel, changes>>
    /\ UNCHANGED <<commands, replaced>>

tableTreeRefreshedMsg ==
    /\ answers # {}
    /\ answers' = {}
    /\ \E ns \in answers : nodes' = ns
    /\ replaced' = TRUE
    /\ UNCHANGED <<cursor, scrollOffset, maxHeight, dialog, search, status>>
    /\ UNCHANGED <<kernel, changes, commands>>

Keys ==
    \/ Up \/ Down \/ Toggle \/ Left \/ Delete \/ Confirm \/ Decline
    \/ Reset \/ ResetHint \/ EnterSearch \/ ExitSearch \/ SearchType
    \/ SearchStep(1) \/ SearchStep(-1)
Next ==
    \/ Keys
    \/ \E gen \in timers : StatusFade(gen)
    \/ \E h \in Heights : WindowSizeMsg(h)
    \/ namedObjectOpErrMsg \/ namedObjectDone
    \/ KernelChanges \/ Reload \/ tableTreeRefreshedMsg
Spec == Init /\ [][Next]_vars

----------------------------------------------------------------------------
(* PROPERTIES *)

(* Every variable has its type. *)
TypeOK ==
    /\ DOMAIN kernel \subseteq ToSet(TableSeq)
    /\ \A t \in DOMAIN kernel : kernel[t] \subseteq ToSet(LeafSeq)
    /\ \A ns \in answers \cup {nodes} : \A i \in DOMAIN ns :
         /\ ns[i].table \in ToSet(TableSeq) /\ ns[i].expanded \in BOOLEAN
         /\ ToSet(ns[i].leaves) \subseteq ToSet(LeafSeq)
    /\ cursor \in Nat /\ scrollOffset \in Nat
    /\ maxHeight \in Heights \cup {0} /\ commands \in 0 .. MaxCommands
    /\ {showDeleteConfirm, searchMode, hint, replaced, lowered}
         \subseteq BOOLEAN
    /\ matches \in Seq(Nat) /\ active \in Nat
    /\ active < Len(matches) \/ active = 0
    /\ query \in Queries \cup {{}}
    /\ timers \subseteq 1 .. statusGen /\ changes \in 0 .. MaxChanges

Drawn == OnRow /\ scrollOffset <= cursor /\ ~Below(cursor, scrollOffset)

(* The delete dialog goes on naming the row that the user asked about, and *)
(* "yes" deletes that row, whatever else is pressed, fades or arrives -    *)
(* short of a reload, which puts another row, or none, under the dialog.   *)
(* The types are part of it.                                               *)
DialogKeepsItsRow ==
    TypeOK /\ (showDeleteConfirm /\ ~replaced => OnRow /\ Selected = asked)

(* A search keeps the cursor on the row of its active match, and that row  *)
(* is in the window.  Two things of the code come between: a reload, which *)
(* puts other rows under the numbers of the matches, and a terminal that   *)
(* gets lower, which cuts the window without scrolling it; the next step   *)
(* of the search, or the next letter, brings the row into the window       *)
(* again.                                                                  *)
SearchParksOnMatch ==
    searchMode /\ matches # << >> /\ ~replaced =>
        /\ OnRow /\ NameOf(Selected) \in query
        /\ cursor = matches[active + 1]
        /\ lowered \/ Drawn

(* No key takes the cursor off the rows; only a reload does, and a search  *)
(* that steps through matches counted before it.  Going up and down keeps  *)
(* it inside the window, too; a window that gets lower may lose it.        *)
KeysStayOnRows ==
    [][/\ OnRow /\ ~OnRow' => ~Keys \/ (searchMode /\ replaced)
       /\ Drawn /\ ~Drawn' => ~Up /\ ~Down]_vars

(* A hint on the screen has its own timer running, and no other takes it   *)
(* away: it is shown for its two seconds and not for ever.                 *)
HintHasItsTimer == hint <=> statusGen \in timers
=============================================================================
