----------------------------- MODULE MainWindow -----------------------------
(***************************************************************************)
(* The main loop of the interface: ui/main_window.go with the key handlers *)
(* of the tree (ui/main_window_table_list.go) and of the other views, as   *)
(* far as they decide who gets a key, which command it starts, and what an *)
(* answer does to the views.                                               *)
(*                                                                         *)
(* Bubble Tea runs the main loop one message at a time and every command   *)
(* in a goroutine of its own; the answers arrive in any order.  Even       *)
(* opening a view is such a command: the key yields a message, and other   *)
(* keys may be handled before it arrives.                                  *)
(*                                                                         *)
(* What a view shows is left to its own module (ChainView for the rule     *)
(* list).  Whether a command succeeds is the kernel's affair and may go    *)
(* either way.                                                             *)
(***************************************************************************)
EXTENDS Naturals

CONSTANTS
  Job,            \* the goroutines that can be in flight at once
  MaxKeys,        \* bound: how many commands are started
  MaxLoads        \* bound: how many reloads are in flight at once

ASSUME MaxAssumption == MaxKeys \in Nat /\ MaxLoads \in Nat \ {0}

VARIABLES
  readOnly,           \* the --read-only option
  activeView,         \* MainWindow.activeView
  views,              \* the sub-views that are not nil
  chainModal,         \* chainView.IsModal: its dialog or its filter
  treeModal,          \* tableTree.IsModal: its dialog or its search
  showQuitConfirm, loading,
  err,                \* MainWindow.err: what it is about, or "none"
  running,            \* the program has not quit
  jobs,               \* for each goroutine, its command and how it went
  loads,              \* how many reloads of each kind are in flight
  keys                \* how much of MaxKeys is used

screenVars == <<activeView, views, chainModal, treeModal, showQuitConfirm>>
vars == <<readOnly, screenVars, loading, err, running, jobs, loads, keys>>

-----------------------------------------------------------------------------
(* The views and their commands.                                           *)

Forms    == {"tableEdit", "tableCreate", "chainEdit", "chainCreate",
             "setCreate"}
SubViews == Forms \cup {"chain", "set", "ruleView", "ruleEdit"}

TableWrites == {"deleteTable", "renameTable", "createTable"}
ChainWrites == {"deleteChain", "updateChain", "createChain",
                "deleteRule", "moveRule", "newRule"}
SetWrites   == {"deleteSet", "createSet", "addElement", "deleteElement"}
ObjectWrites == {"deleteObject", "resetObject"}
Writes == TableWrites \cup ChainWrites \cup SetWrites \cup ObjectWrites
            \cup {"saveRule"}

TreeDeletes == {"deleteTable", "deleteChain", "deleteSet", "deleteObject"}

(* The command that F2 starts in each form. *)
Save == [tableEdit   |-> "renameTable", tableCreate |-> "createTable",
         chainEdit   |-> "updateChain", chainCreate |-> "createChain",
         setCreate   |-> "createSet"]

(* The view that each opening command opens, once its message arrives.     *)
(* (A definition with an underscore in its name is a broken form of the    *)
(* one named before the underscore; no behaviour uses it.)                 *)
Opens == [openChain |-> "chain",     openSet  |-> "set",
          editTable |-> "tableEdit", editChain |-> "chainEdit",
          newChain  |-> "chainCreate", newSet |-> "setCreate",
          viewRule  |-> "ruleView",  editRule |-> "ruleEdit"]

Commands == Writes \cup DOMAIN Opens \cup {"setBack"}

(* loadTablesCmd; one load for loadChainsCmd, loadRulesAcceptCmd and       *)
(* loadRulesDropCmd, whose answers do the same; loadTableTreeCmd.          *)
Load == {"tables", "counts", "tree"}

(* Every variable has its type.                                            *)
TypeOK ==
  /\ readOnly \in BOOLEAN
  /\ activeView \in SubViews \cup {"main"}
  /\ views \subseteq SubViews
  /\ chainModal \in {"none", "delete", "filter"}
  /\ treeModal \in {"none", "delete", "search"}
  /\ showQuitConfirm \in BOOLEAN /\ loading \in BOOLEAN
  /\ err \in {"none", "load", "open", "save"} /\ running \in BOOLEAN
  /\ jobs \in [Job -> [cmd : Commands \cup {"none"},
                       stage : {"idle", "asked", "ok", "error"}]]
  /\ loads \in [Load -> Nat]
  /\ keys \in 0 .. MaxKeys

IdleJob == [cmd |-> "none", stage |-> "idle"]

(* InitialMainWindow and Init: the skeleton of the tree is there already,  *)
(* unless it could not be listed.                                          *)
Init ==
  /\ readOnly \in BOOLEAN
  /\ activeView = "main" /\ views = {}
  /\ chainModal = "none" /\ treeModal = "none"
  /\ showQuitConfirm = FALSE
  /\ \/ loading = TRUE /\ err = "none"
     \/ loading = FALSE /\ err = "load"
  /\ running = TRUE
  /\ jobs = [j \in Job |-> IdleJob]
  /\ loads = [l \in Load |-> IF l = "tree" THEN 0 ELSE 1]
  /\ keys = 0

-----------------------------------------------------------------------------
(* Who gets a key.                                                         *)

Receiver ==
  CASE activeView \in views -> activeView
    [] activeView \notin views /\ showQuitConfirm -> "quit"
    [] OTHER -> "main"

(* The tree takes a key: always while it is modal, otherwise only when it  *)
(* is drawn.                                                               *)
TreeKey  == Receiver = "main" /\ treeModal = "none" /\ ~loading /\ err = "none"
ChainKey == Receiver = "chain" /\ chainModal = "none"

Ask(j, c, stage) ==
  /\ running
  /\ jobs[j].stage = "idle"
  /\ jobs' = [jobs EXCEPT ![j] = [cmd |-> c, stage |-> stage]]
  /\ keys < MaxKeys /\ keys' = keys + 1

(* A key that opens a view yields a message, with nothing left to fail     *)
(* (chainSelectedMsg lists the chain when it arrives).                     *)
AskView(j, c)  == Ask(j, c, "ok")
AskWrite(j, c) == Ask(j, c, "asked")

Started  == UNCHANGED <<readOnly, screenVars, loading, err, running, loads>>
Switched == UNCHANGED <<readOnly, loading, err, jobs, loads, keys>>

-----------------------------------------------------------------------------
(* Keys of the tree.                                                       *)

OpenFromTree(j) ==
  /\ TreeKey
  /\ \E c \in {"openChain", "openSet"} : AskView(j, c)
  /\ Started

TreeEdit_Unguarded(j) ==
  /\ TreeKey
  /\ \E c \in {"editTable", "editChain", "newChain", "newSet"} : AskView(j, c)
  /\ Started

(* e, c and s; the tree checks for a read-only session itself. *)
TreeEdit(j) ==
  /\ TreeKey /\ ~readOnly
  /\ \E c \in {"editTable", "editChain", "newChain", "newSet"} : AskView(j, c)
  /\ Started

ResetObject(j) == TreeKey /\ ~readOnly /\ AskWrite(j, "resetObject") /\ Started

TreeDelete ==
  /\ running /\ TreeKey /\ ~readOnly
  /\ treeModal' = "delete"
  /\ UNCHANGED <<activeView, views, chainModal, showQuitConfirm, running>>
  /\ Switched

TreeSearch ==
  /\ running /\ TreeKey
  /\ treeModal' = "search"
  /\ UNCHANGED <<activeView, views, chainModal, showQuitConfirm, running>>
  /\ Switched

(* Yes: the row under the cursor is deleted, whatever it is. *)
ConfirmTreeDelete(j) ==
  /\ Receiver = "main" /\ treeModal = "delete"
  /\ treeModal' = "none"
  /\ \E c \in TreeDeletes : AskWrite(j, c)
  /\ UNCHANGED <<readOnly, activeView, views, chainModal, showQuitConfirm,
                 loading, err, running, loads>>

(* No; or an answer to a tree that has lost the row; or the search ends. *)
CloseTreeModal ==
  /\ running /\ Receiver = "main" /\ treeModal # "none"
  /\ treeModal' = "none"
  /\ UNCHANGED <<activeView, views, chainModal, showQuitConfirm, running>>
  /\ Switched

Reload(kinds) ==
  /\ \A l \in kinds : loads[l] < MaxLoads
  /\ loads' = [l \in Load |-> IF l \in kinds THEN loads[l] + 1 ELSE loads[l]]

Refresh_TablesForgotten ==
  /\ running /\ Receiver = "main" /\ treeModal = "none"
  /\ loading' = TRUE /\ err' = "none"
  /\ Reload({"counts"})
  /\ UNCHANGED <<readOnly, screenVars, running, jobs, keys>>

(* r: the numbers are loaded again. *)
Refresh ==
  /\ running /\ Receiver = "main" /\ treeModal = "none"
  /\ loading' = TRUE /\ err' = "none"
  /\ Reload({"tables", "counts"})
  /\ UNCHANGED <<readOnly, screenVars, running, jobs, keys>>

(* n opens its form at once. *)
NewTable ==
  /\ running /\ Receiver = "main" /\ treeModal = "none" /\ ~readOnly
  /\ views' = views \cup {"tableCreate"} /\ activeView' = "tableCreate"
  /\ UNCHANGED <<chainModal, treeModal, showQuitConfirm, running>>
  /\ Switched

-----------------------------------------------------------------------------
(* Keys of the other views.                                                *)

(* Esc (or F3): the view is dropped. *)
Back ==
  /\ running /\ Receiver \in SubViews \ {"set"}
  /\ Receiver = "chain" => chainModal = "none"
  /\ views' = views \ {Receiver}
  /\ activeView' = IF Receiver \in {"ruleView", "ruleEdit"} THEN "chain"
                                                            ELSE "main"
  /\ UNCHANGED <<chainModal, treeModal, showQuitConfirm, running>>
  /\ Switched

(* The set view sends itself a message instead. *)
SetBack(j) == Receiver = "set" /\ AskView(j, "setBack") /\ Started

SaveForm(j) ==
  /\ Receiver \in Forms
  /\ AskWrite(j, Save[Receiver])
  /\ Started

(* F2 on a form that changed nothing: chainEdit closes as if it had saved. *)
SaveNothing(j) == /\ Receiver = "chainEdit"
                  /\ Ask(j, "updateChain", "ok")
                  /\ Started

SaveRule(j) ==
  /\ Receiver = "ruleEdit" /\ ~readOnly
  /\ AskWrite(j, "saveRule")
  /\ Started

ChangeElement(j) ==
  /\ Receiver = "set" /\ ~readOnly
  /\ \E c \in {"addElement", "deleteElement"} : AskWrite(j, c)
  /\ Started

ViewRule(j) ==
  /\ Receiver = "chain" /\ chainModal \in {"none", "filter"}
  /\ \/ AskView(j, "viewRule")
     \/ ~readOnly /\ AskView(j, "editRule")
  /\ Started

ChangeRules(j) ==
  /\ ChainKey /\ ~readOnly
  /\ \E c \in {"moveRule", "newRule"} : AskWrite(j, c)
  /\ Started

OpenChainModal ==
  /\ running /\ ChainKey
  /\ \/ chainModal' = "filter"
     \/ ~readOnly /\ chainModal' = "delete"
  /\ UNCHANGED <<activeView, views, treeModal, showQuitConfirm, running>>
  /\ Switched

ConfirmRuleDelete(j) ==
  /\ Receiver = "chain" /\ chainModal = "delete"
  /\ chainModal' = "none"
  /\ AskWrite(j, "deleteRule")
  /\ UNCHANGED <<readOnly, activeView, views, treeModal, showQuitConfirm,
                 loading, err, running, loads>>

CloseChainModal ==
  /\ running /\ Receiver = "chain" /\ chainModal # "none"
  /\ chainModal' = "none"
  /\ UNCHANGED <<activeView, views, treeModal, showQuitConfirm, running>>
  /\ Switched

-----------------------------------------------------------------------------
(* Quitting.                                                               *)

QuitKey ==
  /\ running
  /\ \/ Receiver \in SubViews \ {"set", "chain"}
     \/ ChainKey
     \/ Receiver = "main" /\ treeModal = "none"
  /\ showQuitConfirm' = TRUE
  /\ UNCHANGED <<activeView, views, chainModal, treeModal, running>>
  /\ Switched

AnswerQuit ==
  /\ running /\ Receiver = "quit"
  /\ \/ running' = FALSE /\ UNCHANGED showQuitConfirm
     \/ showQuitConfirm' = FALSE /\ UNCHANGED running
  /\ UNCHANGED <<activeView, views, chainModal, treeModal>>
  /\ Switched

(* The set view, and ctrl+c in the filter or the search, ask nothing. *)
QuitAtOnce ==
  /\ running
  /\ \/ Receiver = "set"
     \/ Receiver = "chain" /\ chainModal = "filter"
     \/ Receiver = "main" /\ treeModal = "search"
  /\ running' = FALSE
  /\ UNCHANGED screenVars
  /\ Switched

-----------------------------------------------------------------------------
(* The goroutines: the kernel takes a change or refuses it.                *)

Finish(j) ==
  /\ running /\ jobs[j].stage = "asked"
  /\ \E s \in {"ok", "error"} : jobs' = [jobs EXCEPT ![j].stage = s]
  /\ UNCHANGED <<readOnly, screenVars, loading, err, running, loads, keys>>

-----------------------------------------------------------------------------
(* Answers of commands, taken whatever is on the screen.                   *)

Answered(j, cmds, stage) ==
  /\ running
  /\ jobs[j].stage = stage /\ jobs[j].cmd \in cmds
  /\ jobs' = [jobs EXCEPT ![j] = IdleJob]
  /\ UNCHANGED <<readOnly, treeModal, showQuitConfirm, running, keys>>

(* ruleViewSelectedMsg and its like, newRuleCreatedMsg included. *)
Open(v) == views' = views \cup {v} /\ activeView' = v

ViewSelectedMsg(j) ==
  /\ Answered(j, DOMAIN Opens \ {"openChain"}, "ok")
  /\ Open(Opens[jobs[j].cmd])
  /\ UNCHANGED <<chainModal, loading, err, loads>>

newRuleCreatedMsg(j) ==
  /\ Answered(j, {"newRule"}, "ok")
  /\ Open("ruleEdit")
  /\ UNCHANGED <<chainModal, loading, err, loads>>

(* chainSelectedMsg: the chain's rules are listed now, which may fail. *)
chainSelectedMsg(j) ==
  /\ Answered(j, {"openChain"}, "ok")
  /\ \/ Open("chain") /\ chainModal' = "none" /\ err' = "none"
     \/ err' = "open" /\ UNCHANGED <<activeView, views, chainModal>>
  /\ UNCHANGED <<loading, loads>>

setViewBackMsg(j) ==
  /\ Answered(j, {"setBack"}, "ok")
  /\ activeView' = "main" /\ views' = views \ {"set"}
  /\ UNCHANGED <<chainModal, loading, err, loads>>

Form(c) == CHOOSE f \in Forms : Save[f] = c

(* tableRenamedMsg, tableCreatedMsg, chainUpdatedMsg, chainCreatedMsg and  *)
(* setCreatedMsg: the form is dropped and everything is loaded again.      *)
FormSavedMsg(j) ==
  /\ Answered(j, {Save[f] : f \in Forms}, "ok")
  /\ views' = views \ {Form(jobs[j].cmd)} /\ activeView' = "main"
  /\ loading' = TRUE /\ Reload(Load)
  /\ UNCHANGED <<chainModal, err>>

(* tableDeletedMsg and its like, and namedObjectResetMsg. *)
RowChangedMsg(j) ==
  /\ Answered(j, TreeDeletes \cup {"resetObject"}, "ok")
  /\ loading' = TRUE /\ Reload(Load)
  /\ UNCHANGED <<activeView, views, chainModal, err>>

(* ruleDeletedMsg, ruleMovedMsg, setElementAddedMsg, setElementDeletedMsg  *)
(* renew the list of a view; a saved rule sends no message.                *)
ListRenewedMsg(j) ==
  /\ Answered(j, {"deleteRule", "moveRule", "addElement", "deleteElement",
                  "saveRule"}, "ok")
  /\ UNCHANGED <<activeView, views, chainModal, loading, err, loads>>

(* tableOpErrMsg, chainOpErrMsg, setOpErrMsg, namedObjectOpErrMsg: the     *)
(* text goes to a form, to a view, to the tree's status line or nowhere.   *)
OpErrMsg(j) ==
  /\ Answered(j, Writes \ {"saveRule"}, "error")
  /\ UNCHANGED <<activeView, views, chainModal, loading, err, loads>>

(* errMsg, from the rule editor: the tree's place is taken by the error. *)
saveErrMsg(j) ==
  /\ Answered(j, {"saveRule"}, "error")
  /\ loading' = FALSE /\ err' = "save"
  /\ UNCHANGED <<activeView, views, chainModal, loads>>

-----------------------------------------------------------------------------
(* Answers of reloads.                                                     *)

Loaded(l) ==
  /\ running /\ loads[l] > 0
  /\ loads' = [loads EXCEPT ![l] = @ - 1]
  /\ UNCHANGED <<readOnly, screenVars, running, jobs, keys>>

statTablesMsg == Loaded("tables") /\ loading' = FALSE /\ err' = "none"

(* statChainsMsg, statRulesAcceptMsg, statRulesDropMsg and                 *)
(* tableTreeRefreshedMsg.                                                  *)
OtherLoadedMsg ==
  /\ \E l \in {"counts", "tree"} : Loaded(l)
  /\ UNCHANGED <<loading, err>>

errMsg ==
  /\ \E l \in Load : Loaded(l)
  /\ loading' = FALSE /\ err' = "load"

-----------------------------------------------------------------------------
TreeKeys(j) ==
  \/ OpenFromTree(j) \/ TreeEdit(j) \/ ResetObject(j) \/ ConfirmTreeDelete(j)

ViewKeys(j) ==
  \/ SetBack(j) \/ SaveForm(j) \/ SaveNothing(j) \/ SaveRule(j)
  \/ ChangeElement(j) \/ ViewRule(j) \/ ChangeRules(j)
  \/ ConfirmRuleDelete(j)

ScreenKeys ==
  \/ TreeDelete \/ TreeSearch \/ CloseTreeModal \/ Refresh \/ NewTable
  \/ Back \/ OpenChainModal \/ CloseChainModal
  \/ QuitKey \/ AnswerQuit \/ QuitAtOnce

Answers(j) ==
  \/ ViewSelectedMsg(j) \/ newRuleCreatedMsg(j) \/ chainSelectedMsg(j)
  \/ setViewBackMsg(j) \/ FormSavedMsg(j) \/ RowChangedMsg(j)
  \/ ListRenewedMsg(j) \/ OpErrMsg(j) \/ saveErrMsg(j)

LoadAnswers == statTablesMsg \/ OtherLoadedMsg \/ errMsg

Next ==
  \/ \E j \in Job : TreeKeys(j) \/ ViewKeys(j) \/ Finish(j) \/ Answers(j)
  \/ ScreenKeys
  \/ LoadAnswers

Spec == Init /\ [][Next]_vars

-----------------------------------------------------------------------------
(* Properties.                                                             *)

(* --read-only: whatever is pressed and however late the answers arrive,   *)
(* no command that writes is ever started and no form or editor is open.   *)
ReadOnlyStartsNoWrite ==
  readOnly => /\ \A j \in Job : jobs[j].cmd \notin Writes
              /\ views \subseteq {"chain", "set", "ruleView"}

(* "Loading" stands in the place of the tree only while a load that will   *)
(* remove it is in flight: no order of the answers of overlapping reloads  *)
(* leaves the word on the screen for ever.                                 *)
LoadingIsPending == loading /\ running => loads["tables"] > 0

=============================================================================
