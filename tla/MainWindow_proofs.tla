------------------------- MODULE MainWindow_proofs --------------------------
(***************************************************************************)
(* Proofs about the main loop and two parts that it feeds with messages:   *)
(* MainWindow, for any number of goroutines, keys and reloads in flight;   *)
(* TreeLoad, for any chains and any number of changes and of loads that    *)
(* overlap; and Forms, for any families and priorities.                    *)
(***************************************************************************)
EXTENDS MainWindow, TreeLoad, Forms, SeqLemmas

JobRecord == [cmd : Commands \cup {"none"},
              stage : {"idle", "asked", "ok", "error"}]

USE MaxAssumption

(* Keys go to a view that is there, to the quit prompt or to the tree. *)
LEMMA ReceiverIsThere == Receiver \in views \cup {"quit", "main"}
BY DEF Receiver

-----------------------------------------------------------------------------
(* Types.                                                                  *)

(* Asking for a command leaves the commands what they are.                 *)
LEMMA AskType ==
  ASSUME TypeOK, NEW j \in Job, NEW c \in Commands,
         NEW s \in {"asked", "ok"}, Ask(j, c, s)
  PROVE  jobs' \in [Job -> JobRecord] /\ keys' \in 0 .. MaxKeys
BY DEF TypeOK, Ask, JobRecord

(* So does an answer.                                                      *)
LEMMA AnsweredType ==
  ASSUME TypeOK, NEW j \in Job, NEW C, NEW s, Answered(j, C, s)
  PROVE  jobs' \in [Job -> JobRecord]
BY DEF TypeOK, Answered, IdleJob, JobRecord

(* Loads are counted.                                                      *)
LEMMA ReloadType ==
  ASSUME TypeOK, NEW K, Reload(K)
  PROVE  loads' \in [Load -> Nat]
BY DEF TypeOK, Reload, Load

(* So are they when one has arrived.                                       *)
LEMMA LoadedType ==
  ASSUME TypeOK, NEW l \in Load, Loaded(l)
  PROVE  loads' \in [Load -> Nat]
BY DEF TypeOK, Loaded, Load

(* What each form saves and what each command opens.                       *)
LEMMA CommandNames ==
  /\ \A f \in Forms : Save[f] \in Commands /\ Save[f] \in Writes
  /\ \A c \in DOMAIN Opens : c \in Commands /\ Opens[c] \in SubViews
  /\ Writes \subseteq Commands /\ Forms \subseteq SubViews
  /\ "none" \notin Commands
BY DEF Forms, Save, Commands, Writes, TableWrites, ChainWrites, SetWrites,
       ObjectWrites, Opens, SubViews

(* The keys of the tree and of the views keep the types.                   *)
LEMMA KeysType ==
  ASSUME TypeOK, NEW j \in Job, TreeKeys(j) \/ ViewKeys(j) PROVE TypeOK'
<1> USE CommandNames
<1>1. ASSUME NEW c \in Commands, NEW s \in {"asked", "ok"}, Ask(j, c, s),
             Started
      PROVE  TypeOK'
  <2>1. jobs' \in [Job -> JobRecord] /\ keys' \in 0 .. MaxKeys
    BY <1>1, AskType
  <2> QED BY <2>1, <1>1 DEF TypeOK, Started, screenVars, JobRecord
<1>2. CASE OpenFromTree(j)
  BY <1>1, <1>2 DEF OpenFromTree, AskView, Opens
<1>3. CASE TreeEdit(j)
  BY <1>1, <1>3 DEF TreeEdit, AskView, Opens
<1>4. CASE ResetObject(j)
  BY <1>1, <1>4 DEF ResetObject, AskWrite, Commands, Writes, ObjectWrites
<1>5. CASE ConfirmTreeDelete(j)
  <2>1. PICK c \in TreeDeletes : Ask(j, c, "asked")
    BY <1>5 DEF ConfirmTreeDelete, AskWrite
  <2>2. c \in Commands
    BY DEF TreeDeletes, Commands, Writes, TableWrites, ChainWrites, SetWrites,
           ObjectWrites
  <2>3. jobs' \in [Job -> JobRecord] /\ keys' \in 0 .. MaxKeys
    BY <2>1, <2>2, AskType
  <2> QED BY <2>3, <1>5 DEF ConfirmTreeDelete, TypeOK, JobRecord
<1>6. CASE SetBack(j)
  BY <1>1, <1>6 DEF SetBack, AskView, Commands
<1>7. CASE SaveForm(j)
  BY <1>1, <1>7 DEF SaveForm, AskWrite
<1>8. CASE SaveNothing(j)
  BY <1>1, <1>8 DEF SaveNothing, Commands, Writes, ChainWrites
<1>9. CASE SaveRule(j)
  BY <1>1, <1>9 DEF SaveRule, AskWrite, Commands, Writes
<1>10. CASE ChangeElement(j)
  BY <1>1, <1>10 DEF ChangeElement, AskWrite, Commands, Writes, SetWrites
<1>11. CASE ViewRule(j)
  BY <1>1, <1>11 DEF ViewRule, AskView, Opens
<1>12. CASE ChangeRules(j)
  BY <1>1, <1>12 DEF ChangeRules, AskWrite, Commands, Writes, ChainWrites
<1>13. CASE ConfirmRuleDelete(j)
  <2>1. jobs' \in [Job -> JobRecord] /\ keys' \in 0 .. MaxKeys
    BY <1>13, AskType
       DEF ConfirmRuleDelete, AskWrite, Commands, Writes, ChainWrites
  <2> QED BY <2>1, <1>13 DEF ConfirmRuleDelete, TypeOK, JobRecord
<1> QED
  BY <1>2, <1>3, <1>4, <1>5, <1>6, <1>7, <1>8, <1>9, <1>10, <1>11, <1>12,
     <1>13 DEF TreeKeys, ViewKeys

(* So do the keys that stay on the screen,                                 *)
LEMMA ScreenType == ASSUME TypeOK, ScreenKeys PROVE TypeOK'
<1>1. CASE TreeDelete \/ TreeSearch \/ CloseTreeModal
  BY <1>1 DEF TypeOK, TreeDelete, TreeSearch, CloseTreeModal, Switched
<1>2. CASE Refresh
  BY <1>2, ReloadType DEF TypeOK, Refresh, screenVars
<1>3. CASE NewTable
  BY <1>3 DEF TypeOK, NewTable, Switched, SubViews, Forms
<1>4. CASE Back
  BY <1>4 DEF TypeOK, Back, Switched, SubViews
<1>5. CASE OpenChainModal \/ CloseChainModal
  BY <1>5 DEF TypeOK, OpenChainModal, CloseChainModal, Switched
<1>6. CASE QuitKey \/ AnswerQuit \/ QuitAtOnce
  BY <1>6 DEF TypeOK, QuitKey, AnswerQuit, QuitAtOnce, Switched, screenVars
<1> QED BY <1>1, <1>2, <1>3, <1>4, <1>5, <1>6 DEF ScreenKeys

(* the goroutines,                                                         *)
LEMMA FinishType == ASSUME TypeOK, NEW j \in Job, Finish(j) PROVE TypeOK'
BY DEF TypeOK, Finish, screenVars

(* their answers,                                                          *)
LEMMA AnswersType == ASSUME TypeOK, NEW j \in Job, Answers(j) PROVE TypeOK'
<1>1. CASE ViewSelectedMsg(j)
  <2>1. jobs' \in [Job -> JobRecord] /\ Opens[jobs[j].cmd] \in SubViews
    BY <1>1, AnsweredType, CommandNames DEF ViewSelectedMsg, Answered
  <2> QED BY <2>1, <1>1
          DEF ViewSelectedMsg, Answered, Open, TypeOK, JobRecord
<1>2. CASE newRuleCreatedMsg(j)
  BY <1>2, AnsweredType
     DEF newRuleCreatedMsg, Answered, Open, TypeOK, JobRecord, SubViews
<1>3. CASE chainSelectedMsg(j)
  BY <1>3, AnsweredType
     DEF chainSelectedMsg, Answered, Open, TypeOK, JobRecord, SubViews
<1>4. CASE setViewBackMsg(j)
  BY <1>4, AnsweredType DEF setViewBackMsg, Answered, TypeOK, JobRecord
<1>5. CASE FormSavedMsg(j)
  <2>1. jobs' \in [Job -> JobRecord] /\ loads' \in [Load -> Nat]
    BY <1>5, AnsweredType, ReloadType DEF FormSavedMsg
  <2> QED BY <2>1, <1>5 DEF FormSavedMsg, Answered, TypeOK, JobRecord
<1>6. CASE RowChangedMsg(j)
  <2>1. jobs' \in [Job -> JobRecord] /\ loads' \in [Load -> Nat]
    BY <1>6, AnsweredType, ReloadType DEF RowChangedMsg
  <2> QED BY <2>1, <1>6 DEF RowChangedMsg, Answered, TypeOK, JobRecord
<1>7. CASE ListRenewedMsg(j)
  BY <1>7, AnsweredType DEF ListRenewedMsg, Answered, TypeOK, JobRecord
<1>8. CASE OpErrMsg(j)
  BY <1>8, AnsweredType DEF OpErrMsg, Answered, TypeOK, JobRecord
<1>9. CASE saveErrMsg(j)
  BY <1>9, AnsweredType DEF saveErrMsg, Answered, TypeOK, JobRecord
<1> QED
  BY <1>1, <1>2, <1>3, <1>4, <1>5, <1>6, <1>7, <1>8, <1>9 DEF Answers

(* and the answers to loads.                                               *)
LEMMA LoadsType == ASSUME TypeOK, LoadAnswers PROVE TypeOK'
<1>1. PICK l \in Load : Loaded(l)
  BY DEF LoadAnswers, statTablesMsg, OtherLoadedMsg, errMsg, Load
<1>2. loads' \in [Load -> Nat]
  BY <1>1, LoadedType
<1>3. UNCHANGED <<readOnly, screenVars, running, jobs, keys>>
  BY <1>1 DEF Loaded
<1> QED BY <1>2, <1>3
        DEF LoadAnswers, statTablesMsg, OtherLoadedMsg, errMsg, TypeOK,
            screenVars

(* The window starts with its types,                                       *)
LEMMA InitType == Init => TypeOK
<1> SUFFICES ASSUME Init PROVE TypeOK
  OBVIOUS
<1>1. jobs \in [Job -> JobRecord]
  BY DEF Init, IdleJob, JobRecord
<1>2. loads \in [Load -> Nat]
  BY DEF Init
<1>3. keys \in 0 .. MaxKeys
  BY DEF Init
<1> QED BY <1>1, <1>2, <1>3 DEF Init, TypeOK, JobRecord

(* and keeps them.                                                         *)
LEMMA TypeStep == TypeOK /\ [Next]_vars => TypeOK'
<1> SUFFICES ASSUME TypeOK, [Next]_vars PROVE TypeOK'
  OBVIOUS
<1>1. CASE UNCHANGED vars
  BY <1>1 DEF TypeOK, vars, screenVars
<1> QED
  BY <1>1, KeysType, ScreenType, FinishType, AnswersType, LoadsType DEF Next

(* Every reachable state is well typed. *)
THEOREM TypeCorrect == Spec => []TypeOK
BY InitType, TypeStep, PTL DEF Spec

-----------------------------------------------------------------------------
(* The loading flag.  Only statTablesMsg and the errors take a load of the *)
(* tables away, and they clear the flag; whatever sets it asks for one.    *)

(* The invariant of the flag.                                              *)
LEMMA LoadingStep ==
  TypeOK /\ LoadingIsPending /\ [Next]_vars => LoadingIsPending'
<1> SUFFICES ASSUME TypeOK, LoadingIsPending, [Next]_vars
             PROVE  LoadingIsPending'
  OBVIOUS
<1> USE DEF LoadingIsPending
<1>1. ASSUME UNCHANGED <<loading, loads>>, running' => running
      PROVE  LoadingIsPending'
  BY <1>1
<1>2. ASSUME NEW K, "tables" \in K, Reload(K) PROVE LoadingIsPending'
  <2>1. "tables" \in Load /\ loads["tables"] \in Nat
    BY DEF TypeOK, Load
  <2> QED BY <2>1, <1>2 DEF Reload
<1>3. ASSUME NEW j \in Job, TreeKeys(j) \/ ViewKeys(j) PROVE LoadingIsPending'
  BY <1>1, <1>3
     DEF TreeKeys, ViewKeys, OpenFromTree, TreeEdit, ResetObject,
         ConfirmTreeDelete, SetBack, SaveForm, SaveNothing, SaveRule,
         ChangeElement, ViewRule, ChangeRules, ConfirmRuleDelete, Started
<1>4. CASE Refresh
  BY <1>2, <1>4 DEF Refresh
<1>5. CASE ScreenKeys /\ ~Refresh
  BY <1>1, <1>5
     DEF ScreenKeys, TreeDelete, TreeSearch, CloseTreeModal, NewTable, Back,
         OpenChainModal, CloseChainModal, QuitKey, AnswerQuit, QuitAtOnce,
         Switched
<1>6. ASSUME NEW j \in Job, Finish(j) PROVE LoadingIsPending'
  BY <1>1, <1>6 DEF Finish
<1>7. ASSUME NEW j \in Job, Answers(j) PROVE LoadingIsPending'
  <2>1. CASE FormSavedMsg(j) \/ RowChangedMsg(j)
    BY <1>2, <2>1 DEF FormSavedMsg, RowChangedMsg, Load
  <2>2. CASE saveErrMsg(j)
    BY <2>2 DEF saveErrMsg
  <2>3. CASE ViewSelectedMsg(j) \/ newRuleCreatedMsg(j) \/ chainSelectedMsg(j)
               \/ setViewBackMsg(j) \/ ListRenewedMsg(j) \/ OpErrMsg(j)
    BY <1>1, <2>3
       DEF ViewSelectedMsg, newRuleCreatedMsg, chainSelectedMsg,
           setViewBackMsg, ListRenewedMsg, OpErrMsg, Answered
  <2> QED BY <1>7, <2>1, <2>2, <2>3 DEF Answers
<1>8. CASE LoadAnswers
  <2>1. CASE statTablesMsg \/ errMsg
    BY <2>1 DEF statTablesMsg, errMsg
  <2>2. CASE OtherLoadedMsg
    BY <2>2 DEF OtherLoadedMsg, Loaded, TypeOK, Load
  <2> QED BY <1>8, <2>1, <2>2 DEF LoadAnswers
<1>9. CASE UNCHANGED vars
  BY <1>1, <1>9 DEF vars
<1> QED BY <1>3, <1>4, <1>5, <1>6, <1>7, <1>8, <1>9 DEF Next

(* "Loading" is on the screen only while the answer that removes it is     *)
(* still to come, however reloads and errors overlap.                      *)
THEOREM LoadingPends == Spec => []LoadingIsPending
<1>1. Init => LoadingIsPending
  BY DEF Init, LoadingIsPending, Load
<1>2. TypeOK /\ LoadingIsPending /\ [Next]_vars => LoadingIsPending'
  BY LoadingStep
<1> QED BY <1>1, <1>2, TypeCorrect, PTL DEF Spec

-----------------------------------------------------------------------------
(* A read-only session.  What is started is known by what is open, and     *)
(* what opens by what was started; so the invariant names both, and the    *)
(* dialogs, whose yes starts a delete without asking again.                *)

Reads == {"openChain", "openSet", "viewRule", "setBack"}

OnlyReads ==
  readOnly => /\ \A j \in Job : jobs[j].cmd \in Reads \cup {"none"}
              /\ views \subseteq {"chain", "set", "ruleView"}
              /\ chainModal # "delete" /\ treeModal # "delete"

(* What reads is no write, and a view that reads is no form.               *)
LEMMA ReadsWriteNothing ==
  /\ Writes \cap (Reads \cup {"none"}) = {}
  /\ Forms \cap {"chain", "set", "ruleView"} = {}
  /\ \A c \in Reads \cap DOMAIN Opens : Opens[c] \in {"chain", "set", "ruleView"}
BY DEF Writes, TableWrites, ChainWrites, SetWrites, ObjectWrites, Reads,
       Forms, Opens

(* The option is what the program was started with.                        *)
LEMMA OptionStays == [Next]_vars => readOnly' = readOnly
<1> SUFFICES ASSUME [Next]_vars PROVE readOnly' = readOnly
  OBVIOUS
<1>1. ASSUME NEW j \in Job, TreeKeys(j) \/ ViewKeys(j)
      PROVE  readOnly' = readOnly
  BY <1>1
     DEF TreeKeys, ViewKeys, OpenFromTree, TreeEdit, ResetObject,
         ConfirmTreeDelete, SetBack, SaveForm, SaveNothing, SaveRule,
         ChangeElement, ViewRule, ChangeRules, ConfirmRuleDelete, Started
<1>2. CASE ScreenKeys
  BY <1>2
     DEF ScreenKeys, TreeDelete, TreeSearch, CloseTreeModal, Refresh, NewTable,
         Back, OpenChainModal, CloseChainModal, QuitKey, AnswerQuit,
         QuitAtOnce, Switched
<1>3. ASSUME NEW j \in Job, Finish(j) \/ Answers(j) PROVE readOnly' = readOnly
  BY <1>3
     DEF Finish, Answers, ViewSelectedMsg, newRuleCreatedMsg, chainSelectedMsg,
         setViewBackMsg, FormSavedMsg, RowChangedMsg, ListRenewedMsg, OpErrMsg,
         saveErrMsg, Answered
<1>4. CASE LoadAnswers
  BY <1>4 DEF LoadAnswers, statTablesMsg, OtherLoadedMsg, errMsg, Loaded
<1>5. CASE UNCHANGED vars
  BY <1>5 DEF vars
<1> QED BY <1>1, <1>2, <1>3, <1>4, <1>5 DEF Next

(* Any key of any view: what it starts in a read-only session is a read. *)
LEMMA KeysRead ==
  ASSUME TypeOK, OnlyReads, readOnly, NEW j \in Job, TreeKeys(j) \/ ViewKeys(j)
  PROVE  OnlyReads'
<1>1. Receiver \in {"chain", "set", "ruleView", "quit", "main"}
  BY ReceiverIsThere DEF OnlyReads
<1>2. chainModal # "delete" /\ treeModal # "delete"
  BY DEF OnlyReads
<1>3. ASSUME NEW c \in Reads, NEW s, Ask(j, c, s), Started PROVE OnlyReads'
  BY <1>3 DEF OnlyReads, TypeOK, Ask, Started, screenVars
<1>4. CASE OpenFromTree(j)
  BY <1>3, <1>4 DEF OpenFromTree, AskView, Reads
<1>5. CASE SetBack(j)
  BY <1>3, <1>5 DEF SetBack, AskView, Reads
<1>6. CASE ViewRule(j)
  BY <1>3, <1>6 DEF ViewRule, AskView, Reads
<1>7. ~(TreeEdit(j) \/ ResetObject(j) \/ SaveRule(j) \/ ChangeElement(j)
        \/ ChangeRules(j))
  BY DEF TreeEdit, ResetObject, SaveRule, ChangeElement, ChangeRules
<1>8. ~(ConfirmTreeDelete(j) \/ ConfirmRuleDelete(j))
  BY <1>2 DEF ConfirmTreeDelete, ConfirmRuleDelete
<1>9. ~(SaveForm(j) \/ SaveNothing(j))
  BY <1>1 DEF SaveForm, SaveNothing, Forms
<1> QED BY <1>4, <1>5, <1>6, <1>7, <1>8, <1>9 DEF TreeKeys, ViewKeys

(* Keys that stay on the screen start nothing,                             *)
LEMMA ScreenReads ==
  ASSUME OnlyReads, readOnly, ScreenKeys PROVE OnlyReads'
<1> USE DEF OnlyReads, Switched
<1>1. CASE TreeDelete \/ NewTable
  BY <1>1 DEF TreeDelete, NewTable
<1>2. CASE TreeSearch \/ CloseTreeModal
  BY <1>2 DEF TreeSearch, CloseTreeModal
<1>3. CASE Refresh
  BY <1>3 DEF Refresh, screenVars
<1>4. CASE Back
  BY <1>4 DEF Back
<1>5. CASE OpenChainModal \/ CloseChainModal
  BY <1>5 DEF OpenChainModal, CloseChainModal
<1>6. CASE QuitKey \/ AnswerQuit \/ QuitAtOnce
  BY <1>6 DEF QuitKey, AnswerQuit, QuitAtOnce, screenVars
<1> QED BY <1>1, <1>2, <1>3, <1>4, <1>5, <1>6 DEF ScreenKeys

(* the answer to a read opens only what reads,                             *)
LEMMA AnswersRead ==
  ASSUME TypeOK, OnlyReads, readOnly, NEW j \in Job, Finish(j) \/ Answers(j)
  PROVE  OnlyReads'
<1>1. jobs[j].cmd \in Reads \cup {"none"}
  BY DEF OnlyReads
<1>2. ASSUME NEW C, NEW s, Answered(j, C, s)
      PROVE  /\ \A k \in Job : jobs'[k].cmd \in Reads \cup {"none"}
             /\ treeModal' # "delete"
             /\ readOnly'
  BY <1>2 DEF OnlyReads, TypeOK, Answered, IdleJob
<1>3. CASE Finish(j)
  BY <1>3 DEF OnlyReads, TypeOK, Finish, screenVars
<1>4. CASE ViewSelectedMsg(j)
  <2>1. jobs[j].cmd \in Reads \cap DOMAIN Opens
    BY <1>1, <1>4 DEF ViewSelectedMsg, Answered, Opens
  <2>2. Opens[jobs[j].cmd] \in {"chain", "set", "ruleView"}
    BY <2>1, ReadsWriteNothing
  <2>3. /\ \A k \in Job : jobs'[k].cmd \in Reads \cup {"none"}
        /\ treeModal' # "delete"
    BY <1>2, <1>4 DEF ViewSelectedMsg
  <2> QED BY <2>2, <2>3, <1>4 DEF ViewSelectedMsg, Open, OnlyReads
<1>5. CASE chainSelectedMsg(j)
  BY <1>2, <1>5 DEF chainSelectedMsg, Open, OnlyReads
<1>6. CASE setViewBackMsg(j)
  BY <1>2, <1>6 DEF setViewBackMsg, OnlyReads
<1>7. ~(newRuleCreatedMsg(j) \/ RowChangedMsg(j) \/ ListRenewedMsg(j)
        \/ FormSavedMsg(j) \/ OpErrMsg(j) \/ saveErrMsg(j))
  <2>1. ASSUME NEW C, NEW s, C \subseteq Writes PROVE ~Answered(j, C, s)
    <3>1. jobs[j].cmd \notin C
      BY <1>1, <2>1, ReadsWriteNothing
    <3> QED BY <3>1 DEF Answered
  <2>2. /\ {"newRule"} \subseteq Writes /\ {"saveRule"} \subseteq Writes
        /\ TreeDeletes \cup {"resetObject"} \subseteq Writes
        /\ {"deleteRule", "moveRule", "addElement", "deleteElement",
             "saveRule"} \subseteq Writes
        /\ {Save[f] : f \in Forms} \subseteq Writes
        /\ Writes \ {"saveRule"} \subseteq Writes
    BY CommandNames
       DEF Writes, TableWrites, ChainWrites, SetWrites, ObjectWrites,
           TreeDeletes
  <2> QED BY <2>1, <2>2
          DEF newRuleCreatedMsg, RowChangedMsg, ListRenewedMsg, FormSavedMsg,
              OpErrMsg, saveErrMsg
<1> QED BY <1>3, <1>4, <1>5, <1>6, <1>7 DEF Answers

(* and so nothing else is ever there.                                      *)
LEMMA OnlyReadsStep == TypeOK /\ OnlyReads /\ [Next]_vars => OnlyReads'
<1> SUFFICES ASSUME TypeOK, OnlyReads, [Next]_vars, readOnly
             PROVE  OnlyReads'
  BY OptionStays DEF OnlyReads
<1>1. CASE LoadAnswers
  BY <1>1 DEF LoadAnswers, statTablesMsg, OtherLoadedMsg, errMsg, Loaded,
              screenVars, OnlyReads
<1>2. CASE UNCHANGED vars
  BY <1>2 DEF vars, screenVars, OnlyReads
<1> QED BY <1>1, <1>2, KeysRead, ScreenReads, AnswersRead DEF Next

(* In a read-only session no key sequence, however the late answers fall   *)
(* among the keys, starts a command that writes or opens a form or editor. *)
THEOREM ReadOnlyHolds == Spec => []ReadOnlyStartsNoWrite
<1>1. Init => OnlyReads
  BY DEF Init, IdleJob, OnlyReads
<1>2. TypeOK /\ OnlyReads /\ [Next]_vars => OnlyReads'
  BY OnlyReadsStep
<1>3. OnlyReads => ReadOnlyStartsNoWrite
  BY ReadsWriteNothing DEF OnlyReads, ReadOnlyStartsNoWrite
<1> QED BY <1>1, <1>2, <1>3, TypeCorrect, PTL DEF Spec

-----------------------------------------------------------------------------
(* The loads of the tree.  Messages that come and go.                      *)

(* One copy of each of some messages is a bag.                             *)
LEMMA SetBag ==
  ASSUME NEW S
  PROVE  /\ IsABag(SetToBag(S)) /\ DOMAIN SetToBag(S) = S
         /\ \A e \in S : SetToBag(S)[e] = 1
BY DEF SetToBag, IsABag

(* The bag g is f with one copy of m less, and no other message is touched.*)
Less(f, g, m) ==
  /\ IsABag(g)
  /\ DOMAIN g \subseteq DOMAIN f /\ DOMAIN f \ {m} \subseteq DOMAIN g
  /\ \A e \in DOMAIN f \ {m} : g[e] = f[e]
  /\ f[m] = 1 => m \notin DOMAIN g

(* What one less is.                                                       *)
LEMMA OneLess ==
  ASSUME NEW f, IsABag(f), NEW m \in DOMAIN f,
         NEW g, g = f (-) SetToBag({m})
  PROVE  Less(f, g, m)
<1> DEFINE d == [e \in DOMAIN f |-> IF e \in DOMAIN SetToBag({m})
                                   THEN f[e] - SetToBag({m})[e] ELSE f[e]]
<1>1. g = [e \in {x \in DOMAIN d : d[x] > 0} |-> d[e]]
  BY DEF (-)
<1>2. DOMAIN d = DOMAIN f /\ d[m] = f[m] - 1
      /\ \A e \in DOMAIN f \ {m} : d[e] = f[e]
  BY SetBag
<1>3. \A e \in DOMAIN f : f[e] \in Nat /\ f[e] > 0
  BY DEF IsABag
<1> HIDE DEF d
<1>4. \A e \in DOMAIN d : d[e] \in Nat
  BY <1>2, <1>3
<1>5. IsABag(g)
  BY <1>1, <1>4 DEF IsABag
<1> QED BY <1>1, <1>2, <1>3, <1>5 DEF Less

(* The bag h has the messages of f and of g.                               *)
Both(f, g, h) ==
  /\ IsABag(h) /\ DOMAIN h = DOMAIN f \cup DOMAIN g
  /\ \A e \in DOMAIN f \ DOMAIN g : h[e] = f[e]
  /\ \A e \in DOMAIN g \ DOMAIN f : h[e] = g[e]

(* The union of two bags does.                                             *)
LEMMA UnionBag ==
  ASSUME NEW f, IsABag(f), NEW g, IsABag(g), NEW h, h = f (+) g
  PROVE  Both(f, g, h)
<1>1. h = [e \in DOMAIN f \cup DOMAIN g |->
             (IF e \in DOMAIN f THEN f[e] ELSE 0)
               + (IF e \in DOMAIN g THEN g[e] ELSE 0)]
  BY DEF (+)
<1>2. /\ \A e \in DOMAIN f : f[e] \in Nat /\ f[e] > 0
      /\ \A e \in DOMAIN g : g[e] \in Nat /\ g[e] > 0
  BY DEF IsABag
<1>3. \A e \in DOMAIN f \cup DOMAIN g : h[e] \in Nat /\ h[e] > 0
  BY <1>1, <1>2
<1>4. DOMAIN h = DOMAIN f \cup DOMAIN g /\ h = [e \in DOMAIN h |-> h[e]]
  BY <1>1
<1>5. /\ \A e \in DOMAIN f \ DOMAIN g : h[e] = f[e]
      /\ \A e \in DOMAIN g \ DOMAIN f : h[e] = g[e]
  BY <1>1, <1>2
<1>6. IsABag(h)
  BY <1>3, <1>4 DEF IsABag
<1> QED BY <1>4, <1>5, <1>6 DEF Both

(* The messages after the main loop or a goroutine has taken m and left    *)
(* those of S: no other is lost.                                           *)
Taken(f, g, m, S) ==
  /\ m \in DOMAIN f /\ IsABag(g)
  /\ (DOMAIN f \ {m}) \cup S \subseteq DOMAIN g
  /\ DOMAIN g \subseteq DOMAIN f \cup S

(* Take takes one message.                                                 *)
LEMMA TakeTakes ==
  ASSUME IsABag(flights), NEW m, NEW S, Take(m, SetToBag(S))
  PROVE  Taken(flights, flights', m, S)
<1> DEFINE g == flights (-) SetToBag({m})
<1>1. m \in DOMAIN flights /\ flights' = g (+) SetToBag(S)
  BY DEF Take
<1>2. Less(flights, g, m)
  BY <1>1, OneLess
<1> HIDE DEF g
<1>3. /\ IsABag(flights') /\ DOMAIN flights' = DOMAIN g \cup S
  <2>1. IsABag(g) /\ IsABag(SetToBag(S)) /\ DOMAIN SetToBag(S) = S
    BY <1>2, SetBag DEF Less
  <2>2. Both(g, SetToBag(S), flights')
    BY <1>1, <2>1, UnionBag
  <2> QED BY <2>1, <2>2 DEF Both
<1> QED BY <1>1, <1>2, <1>3 DEF Taken, Less

(* A message that is there once is gone when it has been taken.            *)
LEMMA TakeOnly ==
  ASSUME NEW F, flights = SetToBag(F), NEW m, NEW S, Take(m, SetToBag(S)),
         (F \ {m}) \cap S = {}
  PROVE  m \in F /\ flights' = SetToBag((F \ {m}) \cup S)
<1> DEFINE g == flights (-) SetToBag({m})
           b == SetToBag((F \ {m}) \cup S)
<1>1. m \in F /\ flights' = g (+) SetToBag(S)
  BY SetBag DEF Take
<1>2. Less(flights, g, m) /\ flights[m] = 1 /\ IsABag(flights)
  BY <1>1, SetBag, OneLess
<1>3. DOMAIN g = F \ {m} /\ \A e \in F \ {m} : g[e] = 1
  BY <1>2, SetBag DEF Less
<1> HIDE DEF g
<1>4. /\ IsABag(flights') /\ DOMAIN flights' = (F \ {m}) \cup S
      /\ \A e \in (F \ {m}) \cup S : flights'[e] = 1
  <2>1. IsABag(g) /\ IsABag(SetToBag(S)) /\ DOMAIN SetToBag(S) = S
        /\ \A e \in S : SetToBag(S)[e] = 1
    BY <1>2, SetBag DEF Less
  <2>2. Both(g, SetToBag(S), flights')
    BY <1>1, <2>1, UnionBag
  <2> QED BY <1>3, <2>1, <2>2 DEF Both
<1>5. flights' = [e \in (F \ {m}) \cup S |-> 1]
  BY <1>4 DEF IsABag
<1> QED BY <1>1, <1>5 DEF SetToBag

-----------------------------------------------------------------------------
(* A row that waits for its rules.                                         *)
Waits(c) == \/ LoadRules(c) \in DOMAIN flights
            \/ \E v \in 0 .. MaxVersion : Rules(c, v) \in DOMAIN flights

(* What kind of message each is.                                           *)
LEMMA MessageKinds ==
  /\ Changed.kind = "changed" /\ LoadTree.kind = "loadTree"
  /\ \A S : Skeleton(S).kind = "skeleton" /\ Skeleton(S).chains = S
  /\ \A c : LoadRules(c).kind = "loadRules" /\ LoadRules(c).chain = c
  /\ \A c, v : /\ Rules(c, v).kind = "rules" /\ Rules(c, v).chain = c
               /\ Rules(c, v).version = v
BY DEF Changed, LoadTree, Skeleton, LoadRules, Rules

(* Which messages there are.                                               *)
LEMMA Messages ==
  /\ Changed \in Message /\ LoadTree \in Message
  /\ \A S : S \subseteq Chain => Skeleton(S) \in Message
  /\ \A c \in Chain : LoadRules(c) \in Message
  /\ \A c \in Chain, v \in 0 .. MaxVersion : Rules(c, v) \in Message
BY DEF Message

(* A step that takes one message keeps the types of the rest.              *)
LEMMA TakenTyped ==
  ASSUME TreeTypeOK, NEW m, NEW S, S \subseteq Message, Take(m, SetToBag(S))
  PROVE  /\ IsABag(flights') /\ DOMAIN flights' \subseteq Message
         /\ Taken(flights, flights', m, S)
<1>1. Taken(flights, flights', m, S)
  BY TakeTakes DEF TreeTypeOK
<1> QED BY <1>1 DEF Taken, TreeTypeOK

(* A change of the kernel keeps the types.                                 *)
LEMMA ChangeTyped ==
  ASSUME TreeTypeOK, NEW c \in Chain, Change(c)
  PROVE  /\ kernel' \in [Chain -> 0 .. MaxVersion]
         /\ version' \in 0 .. MaxVersion /\ refreshed' = FALSE
<1>1. version + 1 \in 0 .. MaxVersion /\ version' = version + 1
      /\ 0 \in 0 .. MaxVersion
  BY VersionAssumption DEF TreeTypeOK, Change
<1> QED BY <1>1 DEF TreeTypeOK, Change

(* The tree and the messages change as LoadingIsOnItsWay needs it.         *)
Onward ==
  /\ DOMAIN rows' \subseteq Chain
  /\ \A c \in DOMAIN rows' : rows'[c] \in {Loading} \cup 0 .. MaxVersion
  /\ IsABag(flights') /\ DOMAIN flights' \subseteq Message
  /\ \A c \in DOMAIN rows' : rows'[c] = Loading => Waits(c)'

(* A change asks for a load, or nothing is sent.                           *)
LEMMA ChangesOnward ==
  ASSUME LoadingIsOnItsWay, NEW c \in Chain, TreeChange(c) \/ OtherChange(c)
  PROVE  LoadingIsOnItsWay'
<1>1. Change(c) /\ rows' = rows /\ calm' \in BOOLEAN
  BY DEF TreeChange, OtherChange, LoadingIsOnItsWay, TreeTypeOK
<1>2. /\ IsABag(flights') /\ DOMAIN flights' \subseteq Message
      /\ DOMAIN flights \subseteq DOMAIN flights'
  <2>1. CASE flights' = flights
    BY <2>1 DEF LoadingIsOnItsWay, TreeTypeOK
  <2>2. CASE flights' = flights (+) SetToBag({Changed})
    <3>1. IsABag(flights) /\ DOMAIN flights \subseteq Message
      BY DEF LoadingIsOnItsWay, TreeTypeOK
    <3>2. IsABag(SetToBag({Changed})) /\ DOMAIN SetToBag({Changed}) = {Changed}
      BY SetBag
    <3>3. Both(flights, SetToBag({Changed}), flights')
      BY <2>2, <3>1, <3>2, UnionBag
    <3> QED BY <3>1, <3>2, <3>3, Messages DEF Both
  <2> QED BY <2>1, <2>2 DEF TreeChange, OtherChange
<1>3. /\ kernel' \in [Chain -> 0 .. MaxVersion]
      /\ version' \in 0 .. MaxVersion /\ refreshed' = FALSE
  BY <1>1, ChangeTyped DEF LoadingIsOnItsWay
<1> QED BY <1>1, <1>2, <1>3 DEF LoadingIsOnItsWay, TreeTypeOK

(* The messages about the tree as a whole leave the rows, but for the new  *)
(* skeleton, which asks for the rules of every row it makes.               *)
LEMMA TreeOnward ==
  ASSUME LoadingIsOnItsWay, TreeStep
  PROVE  LoadingIsOnItsWay'
<1>1. TreeTypeOK /\ \A c \in DOMAIN rows : rows[c] = Loading => Waits(c)
  BY DEF LoadingIsOnItsWay, Waits
<1>2. ASSUME NEW m, NEW S, S \subseteq Message, Take(m, SetToBag(S)),
             \A c : m # LoadRules(c), \A c, v : m # Rules(c, v),
             UNCHANGED <<kernel, version, rows, refreshed>>, calm' \in BOOLEAN
      PROVE  LoadingIsOnItsWay'
  <2>1. /\ IsABag(flights') /\ DOMAIN flights' \subseteq Message
        /\ Taken(flights, flights', m, S)
    BY <1>1, <1>2, TakenTyped
  <2>2. \A c : Waits(c) => Waits(c)'
    BY <1>2, <2>1 DEF Waits, Taken
  <2> QED BY <1>1, <1>2, <2>1, <2>2 DEF LoadingIsOnItsWay, TreeTypeOK, Waits
<1>3. calm \in BOOLEAN /\ Existing \subseteq Chain
  BY <1>1 DEF TreeTypeOK, Existing
<1>4. EmptyBag = SetToBag({})
  BY DEF EmptyBag
<1>5. CASE ChangedMsg
  BY <1>2, <1>3, <1>5, MessageKinds, Messages DEF ChangedMsg
<1>6. CASE loadTableTreeCmd
  BY <1>2, <1>3, <1>6, MessageKinds, Messages DEF loadTableTreeCmd
<1>7. CASE loadTableTreeFails
  <2>1. UNCHANGED <<kernel, version, rows, refreshed>> /\ calm' \in BOOLEAN
    BY <1>7 DEF loadTableTreeFails
  <2>2. /\ \A c : LoadTree # LoadRules(c)
        /\ \A c, v : LoadTree # Rules(c, v)
    BY MessageKinds
  <2>3. PICK S \in {{}, {Skeleton({})}} : Take(LoadTree, SetToBag(S))
    BY <1>4, <1>7 DEF loadTableTreeFails
  <2>4. S \subseteq Message
    BY <2>3, Messages
  <2> QED BY <1>2, <2>1, <2>2, <2>3, <2>4
<1>8. CASE tableTreeRefreshedMsg
  <2>1. PICK S \in SUBSET Chain :
          /\ Take(Skeleton(S), RuleLoads(S))
          /\ rows' = [c \in S |-> Loading]
          /\ UNCHANGED <<kernel, version, calm, refreshed>>
    BY <1>8 DEF tableTreeRefreshedMsg
  <2> DEFINE L == {LoadRules(c) : c \in S}
  <2>2. Take(Skeleton(S), SetToBag(L)) /\ L \subseteq Message
    BY <2>1, Messages DEF RuleLoads
  <2>3. /\ IsABag(flights') /\ DOMAIN flights' \subseteq Message
        /\ Taken(flights, flights', Skeleton(S), L)
    BY <1>1, <2>2, TakenTyped
  <2>4. \A c \in S : Waits(c)'
    BY <2>3 DEF Waits, Taken
  <2>5. DOMAIN rows' = S /\ \A c \in S : rows'[c] = Loading
    BY <2>1
  <2> QED BY <1>1, <2>1, <2>3, <2>4, <2>5
          DEF LoadingIsOnItsWay, TreeTypeOK, Waits
<1> QED BY <1>5, <1>6, <1>7, <1>8 DEF TreeStep

(* The rules of a chain are listed, or its listing fails: the load becomes *)
(* an answer.                                                              *)
LEMMA ListsOnward ==
  ASSUME LoadingIsOnItsWay, NEW c \in Chain, Lists(c)
  PROVE  LoadingIsOnItsWay'
<1>1. TreeTypeOK /\ \A d \in DOMAIN rows : rows[d] = Loading => Waits(d)
  BY DEF LoadingIsOnItsWay, Waits
<1>2. PICK v \in 0 .. MaxVersion :
        /\ Take(LoadRules(c), SetToBag({Rules(c, v)}))
        /\ UNCHANGED <<kernel, version, rows, refreshed>>
        /\ calm' \in BOOLEAN
  <2>1. kernel[c] \in 0 .. MaxVersion /\ 0 \in 0 .. MaxVersion
        /\ calm \in BOOLEAN
    BY <1>1, VersionAssumption DEF TreeTypeOK
  <2> QED BY <2>1 DEF Lists, loadRulesOfChainCmd, loadRulesOfChainFails
<1>3. {Rules(c, v)} \subseteq Message
  BY Messages
<1>4. /\ IsABag(flights') /\ DOMAIN flights' \subseteq Message
      /\ Taken(flights, flights', LoadRules(c), {Rules(c, v)})
  BY <1>1, <1>2, <1>3, TakenTyped
<1>5. ASSUME NEW d, Waits(d) PROVE Waits(d)'
  <2>1. CASE d = c
    BY <1>4, <2>1 DEF Waits, Taken
  <2>2. CASE d # c
    BY <1>4, <1>5, <2>2, MessageKinds DEF Waits, Taken
  <2> QED BY <2>1, <2>2
<1> QED BY <1>1, <1>2, <1>4, <1>5 DEF LoadingIsOnItsWay, TreeTypeOK, Waits

(* The answer fills the row, and is no answer for another.                 *)
LEMMA LoadedOnward ==
  ASSUME LoadingIsOnItsWay, NEW c \in Chain, chainRulesLoadedMsg(c)
  PROVE  LoadingIsOnItsWay'
<1>1. TreeTypeOK /\ \A d \in DOMAIN rows : rows[d] = Loading => Waits(d)
  BY DEF LoadingIsOnItsWay, Waits
<1>2. PICK v \in 0 .. MaxVersion :
        /\ Take(Rules(c, v), SetToBag({}))
        /\ rows' = [d \in DOMAIN rows |-> IF d = c THEN v ELSE rows[d]]
        /\ UNCHANGED <<kernel, version, calm, refreshed>>
  BY DEF chainRulesLoadedMsg, EmptyBag
<1>3. /\ IsABag(flights') /\ DOMAIN flights' \subseteq Message
      /\ Taken(flights, flights', Rules(c, v), {})
  BY <1>1, <1>2, TakenTyped
<1>4. v # Loading
  BY <1>2, LoadingAssumption
<1>5. ASSUME NEW d, d # c, Waits(d) PROVE Waits(d)'
  BY <1>3, <1>5, MessageKinds DEF Waits, Taken
<1>6. DOMAIN rows' = DOMAIN rows
      /\ \A d \in DOMAIN rows : rows'[d] = IF d = c THEN v ELSE rows[d]
  BY <1>2
<1>7. \A d \in DOMAIN rows' : rows'[d] = Loading => Waits(d)'
  BY <1>1, <1>4, <1>5, <1>6
<1> QED BY <1>1, <1>2, <1>3, <1>6, <1>7 DEF LoadingIsOnItsWay, TreeTypeOK, Waits

(* The loads that Init asks for.                                           *)
LEMMA OnwardInit ==
  ASSUME TreeInit
  PROVE  LoadingIsOnItsWay
<1> DEFINE L == {LoadRules(c) : c \in InitChains}
<1>1. /\ flights = SetToBag(L) /\ rows = [c \in InitChains |-> Loading]
      /\ kernel = [c \in Chain |-> IF c \in InitChains THEN 1 ELSE 0]
      /\ version = 1 /\ calm = TRUE /\ refreshed = FALSE
  BY DEF TreeInit, RuleLoads
<1>2. L \subseteq Message
  BY Messages, ChainAssumption
<1>3. IsABag(flights) /\ DOMAIN flights = L
  BY <1>1, SetBag
<1>4. 0 \in 0 .. MaxVersion /\ 1 \in 0 .. MaxVersion
  BY VersionAssumption
<1>5. kernel \in [Chain -> 0 .. MaxVersion]
  BY <1>1, <1>4
<1>6. TreeTypeOK
  BY <1>1, <1>2, <1>3, <1>4, <1>5, ChainAssumption DEF TreeTypeOK
<1> QED BY <1>1, <1>3, <1>6 DEF LoadingIsOnItsWay

(* LoadingIsOnItsWay is inductive.                                         *)
LEMMA OnwardStep ==
  ASSUME LoadingIsOnItsWay, [TreeNext]_treeVars
  PROVE  LoadingIsOnItsWay'
<1>1. ASSUME NEW c \in Chain, TreeChange(c) \/ OtherChange(c)
      PROVE  LoadingIsOnItsWay'
  BY <1>1, ChangesOnward
<1>2. CASE TreeStep
  BY <1>2, TreeOnward
<1>3. ASSUME NEW c \in Chain, Lists(c)
      PROVE  LoadingIsOnItsWay'
  BY <1>3, ListsOnward
<1>4. ASSUME NEW c \in Chain, chainRulesLoadedMsg(c)
      PROVE  LoadingIsOnItsWay'
  BY <1>4, LoadedOnward
<1>5. CASE RefreshNumbers
  BY <1>5 DEF RefreshNumbers, LoadingIsOnItsWay, TreeTypeOK
<1>6. CASE UNCHANGED treeVars
  BY <1>6 DEF treeVars, LoadingIsOnItsWay, TreeTypeOK
<1> QED BY <1>1, <1>2, <1>3, <1>4, <1>5, <1>6 DEF TreeNext

(* LoadingIsOnItsWay for any chains and any number of overlapping loads:   *)
(* no order of skeletons and answers, and no failure of a listing, leaves  *)
(* a row that says "loading" with nothing to fill it (the handlers of      *)
(* tableTreeRefreshedMsg and chainRulesLoadedMsg in main_window.go).       *)
THEOREM RowsWaitForAnswers == TreeSpec => []LoadingIsOnItsWay
<1>1. TreeInit => LoadingIsOnItsWay
  BY OnwardInit
<1>2. LoadingIsOnItsWay /\ [TreeNext]_treeVars => LoadingIsOnItsWay'
  BY OnwardStep
<1> QED BY <1>1, <1>2, PTL DEF TreeSpec

-----------------------------------------------------------------------------
(* While the tree is calm there is one refresh at most, at one of its      *)
(* stages, and no message is there twice.                                  *)

(* The rows are being filled from a kernel that stands still: each has its *)
(* rules, or one message is on the way to get them.                        *)
Filling(F) ==
  /\ DOMAIN rows = Existing
  /\ \A m \in F : \E c \in Existing : m \in {LoadRules(c), Rules(c, kernel[c])}
  /\ \A c \in Existing :
       \/ /\ rows[c] = kernel[c]
          /\ LoadRules(c) \notin F /\ Rules(c, kernel[c]) \notin F
       \/ /\ rows[c] = Loading
          /\ LoadRules(c) \in F <=> Rules(c, kernel[c]) \notin F
Stage(F) ==
  \/ F = {Changed} \/ F = {LoadTree} \/ F = {Skeleton(Existing)}
  \/ Filling(F)
CalmInv == calm => \E F : flights = SetToBag(F) /\ Stage(F)

(* Which stage a message belongs to.                                       *)
LEMMA StageOf ==
  ASSUME NEW F, Stage(F), NEW m \in F
  PROVE  /\ m.kind = "changed" => F = {Changed}
         /\ m.kind = "loadTree" => F = {LoadTree}
         /\ m.kind = "skeleton" =>
              F = {Skeleton(Existing)} /\ m = Skeleton(Existing)
         /\ m.kind \in {"loadRules", "rules"} => Filling(F)
<1>1. Filling(F) => m.kind \in {"loadRules", "rules"}
  <2> SUFFICES ASSUME Filling(F) PROVE m.kind \in {"loadRules", "rules"}
    OBVIOUS
  <2>1. PICK c \in Existing : m \in {LoadRules(c), Rules(c, kernel[c])}
    BY DEF Filling
  <2> QED BY <2>1, MessageKinds
<1>2. F = {Changed} => m.kind = "changed"
  BY MessageKinds
<1>3. F = {LoadTree} => m.kind = "loadTree"
  BY MessageKinds
<1>4. F = {Skeleton(Existing)} => m = Skeleton(Existing) /\ m.kind = "skeleton"
  BY MessageKinds
<1> QED BY <1>1, <1>2, <1>3, <1>4 DEF Stage

(* A message that is taken is one of the stage.                            *)
LEMMA TakenOfStage ==
  ASSUME CalmInv, calm, NEW m, NEW S, Take(m, SetToBag(S))
  PROVE  \E F : flights = SetToBag(F) /\ Stage(F) /\ m \in F
<1>1. PICK F : flights = SetToBag(F) /\ Stage(F)
  BY DEF CalmInv
<1>2. m \in F
  BY <1>1, SetBag DEF Take
<1> QED BY <1>1, <1>2

(* A change that finds the tree calm starts the one refresh.               *)
LEMMA ChangeCalm ==
  ASSUME CalmInv, NEW c \in Chain, TreeChange(c) \/ OtherChange(c)
  PROVE  CalmInv'
<1> SUFFICES ASSUME calm' PROVE CalmInv'
  BY DEF CalmInv
<1>1. /\ flights = EmptyBag
      /\ flights' = flights (+) SetToBag({Changed})
  BY DEF TreeChange, OtherChange
<1> DEFINE b == SetToBag({Changed})
<1>2. /\ IsABag(flights) /\ DOMAIN flights = {}
      /\ IsABag(b) /\ DOMAIN b = {Changed} /\ b[Changed] = 1
  BY <1>1, SetBag DEF EmptyBag
<1>3. Both(flights, b, flights')
  BY <1>1, <1>2, UnionBag
<1>4. IsABag(flights') /\ DOMAIN flights' = {Changed} /\ flights'[Changed] = 1
  BY <1>2, <1>3 DEF Both
<1>5. flights' = [e \in {Changed} |-> 1]
  BY <1>4 DEF IsABag
<1>6. flights' = SetToBag({Changed}) /\ Stage({Changed})'
  BY <1>5 DEF SetToBag, Stage
<1> QED BY <1>6 DEF CalmInv

(* The refresh goes on, from message to message.                           *)
LEMMA TreeCalm ==
  ASSUME CalmInv, TreeStep
  PROVE  CalmInv'
<1> SUFFICES ASSUME calm' PROVE CalmInv'
  BY DEF CalmInv
<1>1. CASE ChangedMsg
  <2>1. Take(Changed, SetToBag({LoadTree})) /\ calm
    BY <1>1 DEF ChangedMsg
  <2>2. PICK F : flights = SetToBag(F) /\ Stage(F) /\ Changed \in F
    BY <2>1, TakenOfStage
  <2>3. F = {Changed} /\ LoadTree # Changed
    BY <2>2, StageOf, MessageKinds
  <2>4. flights' = SetToBag((F \ {Changed}) \cup {LoadTree})
    BY <2>1, <2>2, <2>3, TakeOnly
  <2>5. (F \ {Changed}) \cup {LoadTree} = {LoadTree}
    BY <2>3
  <2>6. Stage({LoadTree})'
    BY DEF Stage
  <2> QED BY <2>4, <2>5, <2>6 DEF CalmInv
<1>2. CASE loadTableTreeCmd
  <2> DEFINE s == Skeleton(Existing)
  <2>1. Take(LoadTree, SetToBag({s})) /\ calm
    BY <1>2 DEF loadTableTreeCmd
  <2>2. PICK F : flights = SetToBag(F) /\ Stage(F) /\ LoadTree \in F
    BY <2>1, TakenOfStage
  <2>3. F = {LoadTree}
    BY <2>2, StageOf, MessageKinds
  <2>4. flights' = SetToBag((F \ {LoadTree}) \cup {s})
    BY <2>1, <2>2, <2>3, TakeOnly
  <2>5. (F \ {LoadTree}) \cup {s} = {s}
    BY <2>3
  <2>6. s' = s
    BY <1>2 DEF loadTableTreeCmd, Existing
  <2>7. Stage({s})'
    BY <2>6 DEF Stage
  <2> QED BY <2>4, <2>5, <2>6, <2>7 DEF CalmInv
<1>3. CASE loadTableTreeFails
  BY <1>3 DEF loadTableTreeFails
<1>4. CASE tableTreeRefreshedMsg
  <2>1. PICK S \in SUBSET Chain :
          /\ Take(Skeleton(S), RuleLoads(S))
          /\ rows' = [c \in S |-> Loading]
          /\ UNCHANGED <<kernel, version, calm, refreshed>>
    BY <1>4 DEF tableTreeRefreshedMsg
  <2> DEFINE L == {LoadRules(c) : c \in S}
  <2>2. Take(Skeleton(S), SetToBag(L)) /\ calm
    BY <2>1 DEF RuleLoads
  <2>3. PICK F : flights = SetToBag(F) /\ Stage(F) /\ Skeleton(S) \in F
    BY <2>2, TakenOfStage
  <2>4. F = {Skeleton(Existing)} /\ Skeleton(S) = Skeleton(Existing)
    BY <2>3, StageOf, MessageKinds
  <2>5. S = Existing /\ Existing' = Existing
    BY <2>1, <2>4, MessageKinds DEF Existing
  <2>6. flights' = SetToBag((F \ {Skeleton(S)}) \cup L)
    BY <2>2, <2>3, <2>4, TakeOnly
  <2>7. (F \ {Skeleton(S)}) \cup L = L
    BY <2>4
  <2>8. ASSUME NEW c \in Existing
        PROVE  /\ LoadRules(c) \in L /\ rows'[c] = Loading
               /\ Rules(c, kernel[c]) \notin L
    BY <2>1, <2>5, MessageKinds
  <2>9. \A m \in L : \E c \in Existing : m = LoadRules(c)
    BY <2>5
  <2>10. DOMAIN rows' = Existing /\ kernel' = kernel
    BY <2>1, <2>5
  <2> HIDE DEF L
  <2>11. Filling(L)'
    BY <2>5, <2>8, <2>9, <2>10 DEF Filling
  <2> QED BY <2>6, <2>7, <2>11 DEF CalmInv, Stage
<1> QED BY <1>1, <1>2, <1>3, <1>4 DEF TreeStep

(* The rules of a chain are listed, from the kernel as it stands.          *)
LEMMA ListsCalm ==
  ASSUME TreeTypeOK, CalmInv, NEW c \in Chain, Lists(c)
  PROVE  CalmInv'
<1> SUFFICES ASSUME calm' PROVE CalmInv'
  BY DEF CalmInv
<1> DEFINE m == LoadRules(c)
           n == Rules(c, kernel[c])
<1>1. Take(m, SetToBag({n})) /\ calm /\ UNCHANGED <<kernel, rows>>
  BY DEF Lists, loadRulesOfChainCmd, loadRulesOfChainFails
<1>2. PICK F : flights = SetToBag(F) /\ Stage(F) /\ m \in F
  BY <1>1, TakenOfStage
<1>3. Filling(F)
  BY <1>2, StageOf, MessageKinds
<1>4. PICK d \in Existing : m \in {LoadRules(d), Rules(d, kernel[d])}
  BY <1>2, <1>3 DEF Filling
<1>5. d = c /\ c \in Existing
  BY <1>4, MessageKinds
<1>6. kernel[c] # Loading
  BY LoadingAssumption DEF TreeTypeOK
<1>7. n \notin F /\ rows[c] = Loading
  BY <1>2, <1>3, <1>5 DEF Filling
<1>8. m # n
  BY MessageKinds
<1>9. PICK G : G = (F \ {m}) \cup {n}
  OBVIOUS
<1>10. flights' = SetToBag(G)
  BY <1>1, <1>2, <1>7, <1>9, TakeOnly
<1>11. ASSUME NEW e \in Existing, e # c
       PROVE  /\ LoadRules(e) \in G <=> LoadRules(e) \in F
              /\ Rules(e, kernel[e]) \in G <=> Rules(e, kernel[e]) \in F
  BY <1>9, <1>11, MessageKinds
<1>12. m \notin G /\ n \in G /\ \A x \in G : x \in F \/ x = n
  BY <1>8, <1>9
<1>13. /\ \A x \in G :
            \E e \in Existing : x \in {LoadRules(e), Rules(e, kernel[e])}
       /\ DOMAIN rows = Existing
  BY <1>3, <1>5, <1>12 DEF Filling
<1>14. ASSUME NEW e \in Existing
       PROVE  \/ /\ rows[e] = kernel[e]
                 /\ LoadRules(e) \notin G /\ Rules(e, kernel[e]) \notin G
              \/ /\ rows[e] = Loading
                 /\ LoadRules(e) \in G <=> Rules(e, kernel[e]) \notin G
  <2>1. CASE e = c
    BY <2>1, <1>7, <1>12
  <2>2. CASE e # c
    BY <2>2, <1>3, <1>11 DEF Filling
  <2> QED BY <2>1, <2>2
<1>15. Filling(G)
  BY <1>13, <1>14 DEF Filling
<1>16. Existing' = Existing /\ kernel' = kernel /\ rows' = rows
  BY <1>1 DEF Existing
<1>17. Filling(G)'
  BY <1>15, <1>16 DEF Filling
<1>18. Stage(G)'
  BY <1>17 DEF Stage
<1> QED BY <1>10, <1>18 DEF CalmInv

(* Their row is filled.                                                    *)
LEMMA LoadedCalm ==
  ASSUME TreeTypeOK, CalmInv, NEW c \in Chain, chainRulesLoadedMsg(c)
  PROVE  CalmInv'
<1> SUFFICES ASSUME calm' PROVE CalmInv'
  BY DEF CalmInv
<1>1. PICK v \in 0 .. MaxVersion :
        /\ Take(Rules(c, v), SetToBag({}))
        /\ rows' = [d \in DOMAIN rows |-> IF d = c THEN v ELSE rows[d]]
        /\ UNCHANGED <<kernel, version, calm, refreshed>>
  BY DEF chainRulesLoadedMsg, EmptyBag
<1> DEFINE m == Rules(c, v)
<1>2. PICK F : flights = SetToBag(F) /\ Stage(F) /\ m \in F
  BY <1>1, TakenOfStage
<1>3. Filling(F)
  BY <1>2, StageOf, MessageKinds
<1>4. PICK d \in Existing : m \in {LoadRules(d), Rules(d, kernel[d])}
  BY <1>2, <1>3 DEF Filling
<1>5. d = c /\ c \in Existing /\ v = kernel[c]
  BY <1>4, MessageKinds
<1>6. LoadRules(c) \notin F
  BY <1>2, <1>3, <1>5 DEF Filling
<1> DEFINE G == (F \ {m}) \cup {}
<1>7. flights' = SetToBag(G)
  BY <1>1, <1>2, TakeOnly
<1>8. \A e \in Existing \ {c} :
         /\ LoadRules(e) \in G <=> LoadRules(e) \in F
         /\ Rules(e, kernel[e]) \in G <=> Rules(e, kernel[e]) \in F
  BY MessageKinds
<1>9. m \notin G /\ LoadRules(c) \notin G /\ G \subseteq F
  BY <1>6
<1> HIDE DEF G
<1>10. /\ Existing' = Existing /\ kernel' = kernel /\ DOMAIN rows' = DOMAIN rows
       /\ \A e \in DOMAIN rows : rows'[e] = IF e = c THEN v ELSE rows[e]
  BY <1>1 DEF Existing
<1>11. Filling(G)'
  BY <1>3, <1>5, <1>8, <1>9, <1>10 DEF Filling
<1> QED BY <1>7, <1>11 DEF CalmInv, Stage

(* CalmTreeAgrees for any chains and any number of changes: changes that   *)
(* are made one at a time through the tree, each refresh run to its end,   *)
(* leave the tree as the kernel is, whatever the order in which the rules  *)
(* of its chains come (main_window.go and main_window_stats.go).           *)
THEOREM CalmTreesAgree == TreeSpec => []CalmTreeAgrees
<1>1. TreeInit => CalmInv
  <2> SUFFICES ASSUME TreeInit PROVE CalmInv
    OBVIOUS
  <2> DEFINE L == {LoadRules(c) : c \in InitChains}
  <2>1. /\ flights = SetToBag(L) /\ rows = [c \in InitChains |-> Loading]
        /\ kernel = [c \in Chain |-> IF c \in InitChains THEN 1 ELSE 0]
    BY DEF TreeInit, RuleLoads
  <2>2. Existing = InitChains /\ DOMAIN rows = InitChains
    BY <2>1, ChainAssumption DEF Existing
  <2>3. ASSUME NEW c \in Existing
        PROVE  /\ LoadRules(c) \in L /\ rows[c] = Loading
               /\ Rules(c, kernel[c]) \notin L
    BY <2>1, <2>2, MessageKinds
  <2>4. \A m \in L : \E c \in Existing : m = LoadRules(c)
    BY <2>2
  <2> HIDE DEF L
  <2>5. Filling(L)
    BY <2>2, <2>3, <2>4 DEF Filling
  <2> QED BY <2>1, <2>5 DEF CalmInv, Stage
<1>2. TreeTypeOK /\ CalmInv /\ [TreeNext]_treeVars => CalmInv'
  <2> SUFFICES ASSUME TreeTypeOK, CalmInv, [TreeNext]_treeVars PROVE CalmInv'
    OBVIOUS
  <2>1. ASSUME NEW c \in Chain, TreeChange(c) \/ OtherChange(c)
        PROVE  CalmInv'
    BY <2>1, ChangeCalm
  <2>2. CASE TreeStep
    BY <2>2, TreeCalm
  <2>3. ASSUME NEW c \in Chain, Lists(c)
        PROVE  CalmInv'
    BY <2>3, ListsCalm
  <2>4. ASSUME NEW c \in Chain, chainRulesLoadedMsg(c)
        PROVE  CalmInv'
    BY <2>4, LoadedCalm
  <2>5. CASE UNCHANGED <<kernel, rows, flights, calm>>
    <3> SUFFICES ASSUME calm' PROVE CalmInv'
      BY DEF CalmInv
    <3>1. PICK F : flights = SetToBag(F) /\ Stage(F)
      BY <2>5 DEF CalmInv
    <3>2. Existing' = Existing
      BY <2>5 DEF Existing
    <3>3. Filling(F) => Filling(F)'
      BY <2>5, <3>2 DEF Filling
    <3>4. Stage(F)'
      BY <3>1, <3>2, <3>3, MessageKinds DEF Stage, Skeleton
    <3> QED BY <2>5, <3>1, <3>4 DEF CalmInv
  <2> QED BY <2>1, <2>2, <2>3, <2>4, <2>5 DEF TreeNext, RefreshNumbers, treeVars
<1>3. CalmInv => CalmTreeAgrees
  <2> SUFFICES ASSUME CalmInv, flights = EmptyBag, calm PROVE Agrees
    BY DEF CalmTreeAgrees, Settled
  <2>1. PICK F : flights = SetToBag(F) /\ Stage(F)
    BY DEF CalmInv
  <2>2. F = {}
    BY <2>1, SetBag DEF EmptyBag
  <2>3. Filling(F)
    BY <2>1, <2>2 DEF Stage
  <2> QED BY <2>2, <2>3 DEF Filling, Agrees
<1>4. LoadingIsOnItsWay => TreeTypeOK
  BY DEF LoadingIsOnItsWay
<1> QED BY <1>1, <1>2, <1>3, <1>4, RowsWaitForAnswers, PTL DEF TreeSpec

-----------------------------------------------------------------------------
(* The forms.  What lists offer.                                           *)

(* A nonempty set of numbers up to n has a greatest.                       *)
LEMMA Greatest ==
  ASSUME NEW n \in Nat, NEW T \in SUBSET (1 .. n), T # {}
  PROVE  \E x \in T : \A y \in T : x >= y
<1> DEFINE D == {n - x : x \in T}
<1>1. D \subseteq Nat /\ D # {}
  <2>1. PICK t \in T : TRUE
    OBVIOUS
  <2>2. n - t \in D
    BY <2>1
  <2>3. \A x \in T : x \in 1 .. n /\ n - x \in Nat
    OBVIOUS
  <2> QED
    BY <2>2, <2>3
<1>2. PICK d \in D : \A e \in D : d <= e
  BY <1>1, LeastNumber
<1>3. PICK x \in T : d = n - x
  OBVIOUS
<1>4. ASSUME NEW y \in T PROVE x >= y
  <2>1. n - x <= n - y /\ x \in 1 .. n /\ y \in 1 .. n
    BY <1>2, <1>3
  <2> QED
    BY <2>1
<1> QED
  BY <1>4

(* A list of options, and the set of what it offers.                       *)
Offers(options, S) ==
  /\ options \in Seq(S) /\ Len(options) # 0
  /\ \A x \in S : \E i \in DOMAIN options : options[i] = x

(* A list that is written out offers what is written.                      *)
LEMMA OffersOne == ASSUME NEW a PROVE Offers(<<a>>, {a})
BY DEF Offers
LEMMA OffersTwo == ASSUME NEW a, NEW b PROVE Offers(<<a, b>>, {a, b})
BY DEF Offers
LEMMA OffersThree ==
  ASSUME NEW a, NEW b, NEW c PROVE Offers(<<a, b, c>>, {a, b, c})
BY DEF Offers
LEMMA OffersFour ==
  ASSUME NEW a, NEW b, NEW c, NEW d PROVE Offers(<<a, b, c, d>>, {a, b, c, d})
BY DEF Offers
LEMMA OffersFive ==
  ASSUME NEW a, NEW b, NEW c, NEW d, NEW e
  PROVE  Offers(<<a, b, c, d, e>>, {a, b, c, d, e})
BY DEF Offers
LEMMA OffersSix ==
  ASSUME NEW a, NEW b, NEW c, NEW d, NEW e, NEW f
  PROVE  Offers(<<a, b, c, d, e, f>>, {a, b, c, d, e, f})
BY DEF Offers

(* A list offers the elements it has.                                      *)
LEMMA ListOffers ==
  ASSUME NEW S, NEW s \in Seq(S), Len(s) # 0
  PROVE  \E T \in SUBSET S : Offers(s, T)
<1> DEFINE T == {s[n] : n \in DOMAIN s}
<1>1. \A n \in 1 .. Len(s) : s[n] \in T
  OBVIOUS
<1>2. T \in SUBSET S
  OBVIOUS
<1>3. s \in Seq(T)
  <2> HIDE DEF T
  <2> QED
    BY <1>1
<1>4. Offers(s, T)
  BY <1>3 DEF Offers
<1> HIDE DEF T
<1> QED
  BY <1>2, <1>4

(* To be contained in a list is to be on offer.                            *)
LEMMA OffersContains ==
  ASSUME NEW options, NEW S, Offers(options, S), NEW x
  PROVE  x \in S <=> Contains(options, x)
BY DEF Offers, Contains

(* What a selection is set to is on offer, and what it was set to if that  *)
(* is.                                                                     *)
LEMMA SelectOffers ==
  ASSUME NEW options, NEW S, Offers(options, S), NEW x
  PROVE  /\ Select(options, x) \in S
         /\ Select(options, x) = IF x \in S THEN x ELSE options[1]
<1> DEFINE at == {i \in 1 .. Len(options) : options[i] = x}
<1>1. /\ Len(options) \in Nat \ {0} /\ DOMAIN options = 1 .. Len(options)
      /\ \A i \in DOMAIN options : options[i] \in S
      /\ x \in S <=> Contains(options, x)
  BY DEF Offers, Contains
<1>2. CASE x \in S
  <2>1. at # {} /\ at \subseteq Nat
    BY <1>1, <1>2 DEF Contains
  <2>2. PICK i \in at : \A j \in at : i <= j
    BY <2>1, LeastNumber
  <2>3. \A j \in 1 .. i - 1 : options[j] # x
    BY <1>1, <2>2
  <2>4. \E k \in DOMAIN options :
          options[k] = x /\ \A j \in 1 .. k - 1 : options[j] # x
    BY <1>1, <2>2, <2>3
  <2>5. options[indexOf(options, x)] = x
    BY <1>1, <1>2, <2>4 DEF indexOf
  <2> QED
    BY <1>2, <2>5 DEF Select
<1>3. CASE x \notin S
  BY <1>1, <1>3 DEF Select, indexOf
<1> QED
  BY <1>2, <1>3

(* The hooks of a family.                                                  *)
HooksIn(family) ==
  CASE family = "arp"    -> {"input", "output"}
    [] family = "netdev" -> {"ingress", "egress"}
    [] OTHER -> {"prerouting", "input", "forward", "output", "postrouting"}
                \cup IF family = "inet" THEN {"ingress"} ELSE {}

(* The hooks of a family, as the forms list them.                          *)
LEMMA FamilyHooksOffered ==
  ASSUME NEW family PROVE Offers(FamilyHooks(family), HooksIn(family))
<1>1. CASE family = "arp"
  BY <1>1, OffersTwo DEF FamilyHooks, HooksIn
<1>2. CASE family = "netdev"
  BY <1>2, OffersTwo DEF FamilyHooks, HooksIn
<1>3. CASE family = "inet"
  <2>1. HooksIn(family)
          = {"prerouting", "input", "forward", "output", "postrouting", "ingress"}
    BY <1>3 DEF HooksIn
  <2> QED
    BY <1>3, <2>1, OffersSix DEF FamilyHooks
<1>4. CASE family \notin {"arp", "netdev", "inet"}
  BY <1>4, OffersFive DEF FamilyHooks, FiveHooks, HooksIn
<1> QED
  BY <1>1, <1>2, <1>3, <1>4

(* The places of a list that hold one of some.                             *)
Among(all, some) == {i \in DOMAIN all : all[i] \in some}

(* Of a list, the elements that are among some, of which it has one.       *)
LEMMA KeptAmong ==
  ASSUME NEW S, NEW all, Offers(all, S), NEW some, NEW x \in S \cap some
  PROVE  \E K \in SUBSET S :
           Offers(Kept(all, Among(all, some)), K)
<1> DEFINE I == Among(all, some)
<1>1. /\ all \in Seq(S) /\ DOMAIN all = 1 .. Len(all) /\ Len(all) \in Nat
      /\ I \in SUBSET (1 .. Len(all)) /\ I # {}
  BY DEF Offers, Among
<1>2. /\ IsFiniteSet(I) /\ Cardinality(I) \in Nat /\ Cardinality(I) # 0
  BY <1>1, RankFacts, FS_EmptySet
<1>3. Kept(all, I) \in Seq(S) /\ Len(Kept(all, I)) # 0
  BY <1>1, <1>2, KeptFacts
<1> QED
  BY <1>3, ListOffers

(* The chain types of a family.                                            *)
TypesIn(family) ==
  IF family \in Layer3 THEN {"filter", "nat", "route"} ELSE {"filter"}

(* They are what the forms offer.                                          *)
LEMMA TypesOffered ==
  ASSUME NEW family
  PROVE  Offers(ValidChainTypesForFamily(family), TypesIn(family))
BY OffersOne, OffersThree DEF ValidChainTypesForFamily, TypesIn

(* Some of the hooks of a family, the output hook among them.              *)
LEMMA HooksKept ==
  ASSUME NEW family \in Layer3, NEW some, "output" \in some
  PROVE  \E K \in SUBSET HooksIn(family) :
           Offers(Kept(FamilyHooks(family),
                       Among(FamilyHooks(family), some)), K)
<1>1. Offers(FamilyHooks(family), HooksIn(family))
  BY FamilyHooksOffered
<1>2. "output" \in HooksIn(family) \cap some
  BY DEF HooksIn, Layer3
<1> QED
  BY <1>1, <1>2, KeptAmong

(* A chain type that its family has can have some of the family's hooks.   *)
LEMMA HooksAreOffered ==
  ASSUME NEW family, NEW type \in TypesIn(family) \cup {""},
         NEW hooks, hooks = ValidChainHooksForTypeFamily(type, family)
  PROVE  \E K \in SUBSET HooksIn(family) : Offers(hooks, K)
<1> DEFINE all == FamilyHooks(family)
<1>1. CASE type \notin {"nat", "route"}
  BY <1>1, FamilyHooksOffered DEF ValidChainHooksForTypeFamily
<1>2. CASE type \in {"nat", "route"}
  <2>1. family \in Layer3
    BY <1>2 DEF TypesIn
  <2>2. \E some : /\ "output" \in some
                  /\ hooks = Kept(all, Among(all, some))
    BY <1>2 DEF ValidChainHooksForTypeFamily, Among
  <2> QED
    BY <2>1, <2>2, HooksKept
<1> QED
  BY <1>1, <1>2

-----------------------------------------------------------------------------
(* The fields of each form.                                                *)
ChainFields == {"name", "type", "hook", "priority", "policy"}
FieldsOf(kind) ==
  CASE kind = "tableEdit"   -> {"name"}
    [] kind = "tableCreate" -> {"family", "name"}
    [] kind = "chainEdit"   -> ChainFields
    [] kind = "chainCreate" -> ChainFields \cup {"kind"}
    [] kind = "setCreate"   ->
         {"name", "keyType", "isMap", "dataType", "width", "constant",
          "interval", "timeout", "dynamic"}

(* The slots of a form are its fields, and the first one is always shown.  *)
LEMMA SlotFacts ==
  ASSUME NEW kind \in Kinds
  PROVE  /\ ToSet(Slots(kind)) = FieldsOf(kind)
         /\ \E n \in Nat : 1 \in 1 .. n /\ DOMAIN Slots(kind) = 1 .. n
         /\ \A i \in DOMAIN Slots(kind) : Slots(kind)[i] \in FieldsOf(kind)
         /\ Slots(kind)[1] \in {"name", "family"}
<1> USE DEF ToSet, Slots, FieldsOf, ChainFields
<1>1. CASE kind = "tableEdit"
  BY <1>1
<1>2. CASE kind = "tableCreate"
  BY <1>2
<1>3. CASE kind = "chainEdit"
  BY <1>3
<1>4. CASE kind = "chainCreate"
  BY <1>4
<1>5. CASE kind = "setCreate"
  <2>1. ToSet(Slots(kind)) = FieldsOf(kind)
    BY <1>5
  <2>2. DOMAIN Slots(kind) = 1 .. 9 /\ Slots(kind)[1] = "name"
    BY <1>5
  <2>3. \A i \in DOMAIN Slots(kind) : Slots(kind)[i] \in FieldsOf(kind)
    BY <2>1 DEF ToSet
  <2> HIDE DEF ToSet, Slots, FieldsOf
  <2> QED
    BY <2>1, <2>2, <2>3
<1> QED
  BY <1>1, <1>2, <1>3, <1>4, <1>5 DEF Kinds

(* A form is drawn from its kind, family, hooks and values.                *)
LEMMA SameFields ==
  ASSUME NEW f, NEW g, g.kind = f.kind, g.family = f.family,
         g.hooks = f.hooks, g.chain = f.chain, g.val = f.val
  PROVE  /\ \A field : Fits(g, field) <=> Fits(f, field)
         /\ Shown(g) = Shown(f)
BY DEF Fits, Options, Shown, Visible, IsBase

(* The next and the previous field are shown.                              *)
LEMMA FollowingShown ==
  ASSUME NEW f, f.kind \in Kinds, f.slot \in Shown(f)
  PROVE  Following(f) \in Shown(f) /\ Preceding(f) \in Shown(f)
<1>1. PICK n \in Nat : 1 \in 1 .. n /\ DOMAIN Slots(f.kind) = 1 .. n
  BY SlotFacts
<1>2. Shown(f) \in SUBSET (1 .. n) /\ Shown(f) # {}
  BY <1>1 DEF Shown
<1>3. 1 \in Shown(f)
  BY <1>1, SlotFacts DEF Shown, Visible
<1>4. Following(f) \in Shown(f)
  <2> DEFINE after == {i \in Shown(f) : i > f.slot}
  <2>1. CASE after # {}
    <3>1. after \subseteq Nat
      BY <1>2
    <3>2. \E i \in after : \A j \in after : i <= j
      BY <2>1, <3>1, LeastNumber
    <3> QED
      BY <2>1, <3>2 DEF Following
  <2>2. CASE after = {}
    BY <1>3, <2>2 DEF Following
  <2> QED
    BY <2>1, <2>2
<1>5. Preceding(f) \in Shown(f)
  <2> DEFINE before == {i \in Shown(f) : i < f.slot}
             from == IF before # {} THEN before ELSE Shown(f)
  <2>1. from \in SUBSET (1 .. n) /\ from # {} /\ from \subseteq Shown(f)
    BY <1>2
  <2>2. \E i \in from : \A j \in from : i >= j
    BY <2>1, Greatest
  <2> QED
    BY <2>1, <2>2 DEF Preceding
<1> QED
  BY <1>4, <1>5

-----------------------------------------------------------------------------
(* What holds of an open form f, of which t was changed: a focus that is   *)
(* shown, values that are on offer, the hooks of the type, and in the form *)
(* of a chain the values of the chain where nothing was asked.             *)
AskedIn(field, t) == field \in t \/ (field = "hook" /\ "type" \in t)
Chains(family) == BaseChains(family) \cup {RegularChain}
Right(f, t) ==
  /\ DOMAIN f = {"kind", "family", "chain", "hooks", "val", "slot", "status"}
  /\ f.kind \in Kinds
  /\ f.slot \in Shown(f)
  /\ DOMAIN f.val = FieldsOf(f.kind)
  /\ t \subseteq DOMAIN f.val
  /\ \A field \in DOMAIN f.val : Fits(f, field)
  /\ f.kind \in {"chainEdit", "chainCreate"} =>
       f.hooks = ValidChainHooksForTypeFamily(f.val["type"], f.family)
  /\ f.kind = "chainEdit" =>
       /\ f.chain \in Chains(f.family)
       /\ \A field \in ChainFields : \/ AskedIn(field, t)
                                     \/ f.val[field] = Fields(f.chain, f.family)[field]
FormInv ==
  /\ pending \in {"none", "table", "chain", "set"}
  /\ \/ form = Closed /\ touched = {}
     \/ form # Closed /\ Right(form, touched)

(* A move of the focus and an error leave the form right.                  *)
LEMMA SameRight ==
  ASSUME NEW f, NEW t, Right(f, t), NEW i \in Shown(f), NEW b,
         NEW g, g = [f EXCEPT !.slot = i] \/ g = [f EXCEPT !.status = b]
  PROVE  Right(g, t) /\ g # Closed
<1>1. /\ DOMAIN g = DOMAIN f /\ g.slot \in Shown(f)
      /\ g.kind = f.kind /\ g.family = f.family /\ g.hooks = f.hooks
      /\ g.chain = f.chain /\ g.val = f.val
  BY DEF Right
<1>2. /\ \A field : Fits(g, field) <=> Fits(f, field)
      /\ Shown(g) = Shown(f)
  BY <1>1, SameFields
<1>3. g # Closed
  BY <1>1 DEF Right, Kinds, Closed
<1> QED
  BY <1>1, <1>2, <1>3 DEF Right

(* So does a new value of the focused field, when it is none that others   *)
(* depend on.                                                              *)
LEMMA ValueRight ==
  ASSUME NEW f, NEW t, Right(f, t), NEW field, field = Focus(f),
         field # "type", NEW v,
         field = "name" => v \in Names,
         field \notin {"name", "priority"} => Contains(Options(f, field), v),
         NEW g, g = [f EXCEPT !.val[field] = v],
         NEW u, u = IF f.kind = "chainEdit" THEN t \cup {field} ELSE t
  PROVE  Right(g, u) /\ g # Closed
<1>1. field \in FieldsOf(f.kind)
  BY SlotFacts DEF Right, Focus, Shown
<1>2. /\ DOMAIN g = DOMAIN f /\ g.slot = f.slot
      /\ g.kind = f.kind /\ g.family = f.family /\ g.hooks = f.hooks
      /\ g.chain = f.chain /\ DOMAIN g.val = DOMAIN f.val
      /\ g.val[field] = v
      /\ \A x \in DOMAIN f.val : x # field => g.val[x] = f.val[x]
  BY <1>1 DEF Right
<1>3. g # Closed
  BY <1>2 DEF Right, Kinds, Closed
<1>4. \A x \in DOMAIN f.val : Options(g, x) = Options(f, x)
  BY <1>2 DEF Options
<1>5. \A x \in DOMAIN g.val : Fits(g, x)
  BY <1>2, <1>4 DEF Fits, Right
<1>6. g.slot \in Shown(g)
  BY <1>1, <1>2 DEF Right, Shown, Visible, IsBase, Focus, FieldsOf, ChainFields, Kinds
<1>7. f.kind \in {"chainEdit", "chainCreate"} => g.val["type"] = f.val["type"]
  BY <1>2 DEF Right, FieldsOf, ChainFields
<1>8. f.kind = "chainEdit" =>
        \A x \in ChainFields : \/ AskedIn(x, u)
                               \/ g.val[x] = Fields(g.chain, g.family)[x]
  BY <1>2 DEF Right, AskedIn, FieldsOf
<1> QED
  BY <1>1, <1>2, <1>3, <1>5, <1>6, <1>7, <1>8 DEF Right

(* A new chain type, after which the hook is one that the type can have.   *)
LEMMA TypeRight ==
  ASSUME NEW f, NEW t, Right(f, t), Focus(f) = "type",
         NEW v, Contains(Options(f, "type"), v),
         NEW g, g = syncHookOptions([f EXCEPT !.val["type"] = v]),
         NEW u, u = IF f.kind = "chainEdit" THEN t \cup {"type"} ELSE t
  PROVE  Right(g, u) /\ g # Closed
<1> DEFINE hooks == ValidChainHooksForTypeFamily(v, f.family)
<1>1. /\ "type" \in FieldsOf(f.kind) /\ f.kind \in {"chainEdit", "chainCreate"}
      /\ "hook" \in FieldsOf(f.kind)
  BY SlotFacts DEF Right, Focus, Shown, FieldsOf, ChainFields, Kinds
<1>2. /\ DOMAIN g = DOMAIN f /\ g.slot = f.slot
      /\ g.kind = f.kind /\ g.family = f.family /\ g.hooks = hooks
      /\ g.chain = f.chain /\ DOMAIN g.val = DOMAIN f.val
      /\ g.val["type"] = v
      /\ g.val["hook"] = Select(hooks, f.val["hook"])
      /\ \A x \in DOMAIN f.val \ {"type", "hook"} : g.val[x] = f.val[x]
  BY <1>1 DEF Right, syncHookOptions
<1>3. g # Closed
  BY <1>2 DEF Right, Kinds, Closed
<1>4. v \in TypesIn(f.family)
  BY TypesOffered DEF Options, Contains, Offers
<1>5. Contains(hooks, g.val["hook"])
  <2>1. PICK K : Offers(hooks, K)
    BY <1>4, HooksAreOffered
  <2>2. g.val["hook"] \in K
    BY <1>2, <2>1, SelectOffers
  <2> QED
    BY <2>1, <2>2, OffersContains
<1>6. \A x \in DOMAIN g.val : Fits(g, x)
  <2>1. Fits(g, "type") /\ Fits(g, "hook")
    BY <1>2, <1>5 DEF Fits, Options
  <2>2. \A x \in DOMAIN f.val \ {"type", "hook"} : Options(g, x) = Options(f, x)
    BY <1>2 DEF Options
  <2> QED
    BY <1>2, <2>1, <2>2 DEF Fits, Right
<1>7. g.slot \in Shown(g)
  <2>1. IsBase(g) <=> IsBase(f)
    BY <1>1, <1>2 DEF Right, IsBase, FieldsOf, ChainFields
  <2>2. Visible(g, "type") <=> Visible(f, "type")
    BY <1>1, <1>2, <2>1 DEF Visible
  <2> QED
    BY <1>2, <2>2 DEF Right, Shown, Focus
<1>8. f.kind = "chainEdit" =>
        \A x \in ChainFields : \/ AskedIn(x, u)
                               \/ g.val[x] = Fields(g.chain, g.family)[x]
  BY <1>2 DEF Right, AskedIn, FieldsOf, ChainFields
<1> QED
  BY <1>1, <1>2, <1>3, <1>6, <1>7, <1>8 DEF Right

-----------------------------------------------------------------------------
(* A form that opens has no status and its first field focused.            *)
LEMMA OpenedFacts ==
  ASSUME NEW kind \in Kinds, NEW family, NEW chain, NEW hooks, NEW val,
         NEW f, f = Opened(kind, family, chain, hooks, val)
  PROVE  /\ DOMAIN f = {"kind", "family", "chain", "hooks", "val", "slot", "status"}
         /\ f.kind = kind /\ f.family = family /\ f.chain = chain
         /\ f.hooks = hooks /\ f.val = val
         /\ f.slot \in Shown(f) /\ f # Closed
<1>1. /\ DOMAIN f = {"kind", "family", "chain", "hooks", "val", "slot", "status"}
      /\ f.kind = kind /\ f.family = family /\ f.chain = chain
      /\ f.hooks = hooks /\ f.val = val /\ f.slot = 1
  BY DEF Opened
<1>2. f.slot \in Shown(f)
  BY <1>1, SlotFacts DEF Shown, Visible
<1> QED
  BY <1>1, <1>2 DEF Kinds, Closed

(* A map can have the types of keys, and verdicts.                         *)
LEMMA MapTypesOffered == \E S : Offers(MapTypes, S)
<1> DEFINE S == {"ipv4_addr", "mark", "integer", "verdict"}
<1>1. KeyTypes \in Seq(S) /\ "verdict" \in S
  BY DEF KeyTypes
<1> HIDE DEF S
<1>2. MapTypes \in Seq(S) /\ Len(MapTypes) # 0
  BY <1>1, AppendProperties, LenProperties DEF MapTypes
<1> QED
  BY <1>2, ListOffers

(* What the lists of the forms offer.                                      *)
LEMMA ListsOffer ==
  /\ Contains(FamilyOptions, "ipv4")
  /\ Contains(<<"regular", "base">>, "base")
  /\ Offers(Policy, {"accept", "drop"})
  /\ Contains(KeyTypes, KeyTypes[1])
  /\ Contains(Widths, "4")
  /\ Contains(OnOff, "off")
<1>1. Contains(FamilyOptions, "ipv4")
  BY OffersSix DEF FamilyOptions, Contains, Offers
<1>2. Contains(<<"regular", "base">>, "base")
  BY DEF Contains
<1>3. Offers(Policy, {"accept", "drop"})
  BY OffersTwo DEF Policy
<1>4. Contains(KeyTypes, KeyTypes[1])
  BY DEF KeyTypes, Contains
<1>5. Contains(Widths, "4")
  BY DEF Widths, Contains
<1>6. Contains(OnOff, "off")
  BY DEF OnOff, Contains
<1> QED
  BY <1>1, <1>2, <1>3, <1>4, <1>5, <1>6

(* The forms of tables open right.                                         *)
LEMMA TableOpens ==
  ASSUME OpenTable PROVE Right(form', {}) /\ touched' = {} /\ form' # Closed
<1>1. CASE form' = Opened("tableCreate", "none", NoChain, << >>,
                            [family |-> "ipv4", name |-> "bad"])
  <2>1. /\ DOMAIN form'.val = {"family", "name"}
        /\ form'.val["family"] = "ipv4" /\ form'.val["name"] = "bad"
    BY <1>1, OpenedFacts DEF Kinds
  <2>2. Fits(form', "family") /\ Fits(form', "name")
    BY <2>1, ListsOffer DEF Fits, Options, Names
  <2> QED
    BY <1>1, <2>1, <2>2, OpenedFacts DEF Kinds, OpenTable, OpenForm, Right, FieldsOf
<1>2. CASE form' = Opened("tableEdit", "none", NoChain, << >>, [name |-> "old"])
  BY <1>2, OpenedFacts
     DEF Kinds, OpenTable, OpenForm, Right, FieldsOf, Fits, Names
<1> QED
  BY <1>1, <1>2 DEF OpenTable, OpenForm

(* So does the form of a new set.                                          *)
LEMMA SetOpens ==
  ASSUME OpenSetCreate
  PROVE  Right(form', {}) /\ touched' = {} /\ form' # Closed
<1> DEFINE val == [name |-> "bad", keyType |-> KeyTypes[1],
                   isMap |-> "off", dataType |-> Select(MapTypes, "mark"),
                   width |-> "4", constant |-> "off", interval |-> "off",
                   timeout |-> "off", dynamic |-> "off"]
<1>1. form' = Opened("setCreate", "none", NoChain, << >>, val) /\ touched' = {}
  BY DEF OpenSetCreate, OpenForm
<1>2. /\ Contains(KeyTypes, KeyTypes[1])
      /\ Contains(MapTypes, Select(MapTypes, "mark"))
  <2>1. PICK S : Offers(MapTypes, S)
    BY MapTypesOffered
  <2> QED
    BY <2>1, ListsOffer, SelectOffers, OffersContains
<1>4. /\ DOMAIN val = FieldsOf("setCreate")
      /\ val["name"] = "bad" /\ val["keyType"] = KeyTypes[1]
      /\ val["isMap"] = "off" /\ val["dataType"] = Select(MapTypes, "mark")
      /\ val["width"] = "4"
      /\ \A x \in {"constant", "interval", "timeout", "dynamic"} : val[x] = "off"
  BY DEF FieldsOf
<1> HIDE DEF val
<1>5. form'.val = val /\ form'.kind = "setCreate"
  BY <1>1, OpenedFacts DEF Kinds
<1>6. \A x \in DOMAIN val : Fits(form', x)
  BY <1>2, <1>4, <1>5, ListsOffer DEF Fits, Options, Names, FieldsOf
<1> QED
  BY <1>1, <1>4, <1>5, <1>6, OpenedFacts DEF Kinds, Right

(* So does the form of a new chain, whose hook is one of the family.       *)
LEMMA ChainCreateOpens ==
  ASSUME OpenChainCreate
  PROVE  Right(form', {}) /\ touched' = {} /\ form' # Closed
<1>1. PICK family \in Families :
        LET hooks == ValidChainHooksForTypeFamily("filter", family)
        IN  /\ form' = Opened("chainCreate", family, NoChain, hooks,
                 [name |-> "bad", kind |-> "base", type |-> "filter",
                  hook |-> Select(hooks, "input"), priority |-> SetValue(0),
                  policy |-> "accept"])
            /\ touched' = {}
  BY DEF OpenChainCreate, OpenForm
<1> DEFINE hooks == ValidChainHooksForTypeFamily("filter", family)
           val == [name |-> "bad", kind |-> "base", type |-> "filter",
                   hook |-> Select(hooks, "input"), priority |-> SetValue(0),
                   policy |-> "accept"]
<1>2. /\ DOMAIN val = FieldsOf("chainCreate") /\ val["name"] = "bad"
      /\ val["kind"] = "base" /\ val["type"] = "filter" /\ val["policy"] = "accept"
      /\ val["hook"] = Select(hooks, "input")
  BY DEF FieldsOf, ChainFields
<1>3. /\ Contains(ValidChainTypesForFamily(family), "filter")
      /\ Contains(Policy, "accept")
  BY TypesOffered, ListsOffer, OffersContains DEF TypesIn
<1>4. Contains(hooks, Select(hooks, "input"))
  <2>1. PICK K : Offers(hooks, K)
    BY HooksAreOffered DEF TypesIn
  <2> QED
    BY <2>1, SelectOffers, OffersContains
<1> HIDE DEF val, hooks
<1>5. /\ form' = Opened("chainCreate", family, NoChain, hooks, val)
      /\ form'.val = val /\ form'.kind = "chainCreate" /\ form'.family = family
      /\ form'.hooks = hooks
  BY <1>1, OpenedFacts DEF Kinds, val, hooks
<1>6. \A x \in DOMAIN val : Fits(form', x)
  BY <1>2, <1>3, <1>4, <1>5, ListsOffer
     DEF Fits, Options, Names, FieldsOf, ChainFields
<1>7. form'.hooks = ValidChainHooksForTypeFamily(form'.val["type"], form'.family)
  BY <1>2, <1>5 DEF hooks
<1> QED
  BY <1>1, <1>2, <1>5, <1>6, <1>7, OpenedFacts DEF Kinds, Right

(* What a chain that the form can be opened on has.                        *)
LEMMA ChainFacts ==
  ASSUME NEW family, NEW chain \in Chains(family)
  PROVE  /\ chain.name = "old" /\ chain.policy \in {"accept", "drop"}
         /\ \/ /\ chain = RegularChain /\ chain.type = ""
               /\ chain.hook = NoHook /\ chain.priority = 0
            \/ /\ chain.type \in TypesIn(family)
               /\ chain.hook \in KernelHooks(family)
               /\ Contains(ValidChainHooksForTypeFamily(chain.type, family),
                             KernelName(family, chain.hook))
<1>1. CASE chain = RegularChain
  BY <1>1 DEF RegularChain
<1>2. CASE chain \in BaseChains(family)
  <2>1. PICK type \in ToSet(ValidChainTypesForFamily(family)) :
          \E prio \in Priorities, policy \in ToSet(Policy),
             num \in {n \in KernelHooks(family) :
                        Contains(ValidChainHooksForTypeFamily(type, family),
                                   KernelName(family, n))} :
            chain = [name |-> "old", type |-> type, hook |-> num,
                     priority |-> prio, policy |-> policy]
    BY <1>2 DEF BaseChains
  <2>2. type \in TypesIn(family)
    BY TypesOffered DEF Offers, ToSet
  <2>3. ToSet(Policy) \subseteq {"accept", "drop"}
    BY ListsOffer DEF ToSet, Offers
  <2>4. /\ chain.name = "old" /\ chain.type = type
        /\ chain.policy \in {"accept", "drop"}
        /\ chain.hook \in KernelHooks(family)
        /\ Contains(ValidChainHooksForTypeFamily(type, family),
                      KernelName(family, chain.hook))
    BY <2>1, <2>3
  <2> QED
    BY <2>2, <2>4
<1> QED
  BY <1>1, <1>2 DEF Chains

(* What the form shows of it.                                              *)
LEMMA FieldsFacts ==
  ASSUME NEW family, NEW chain \in Chains(family),
         NEW val, val = Fields(chain, family),
         NEW hooks, hooks = ValidChainHooksForTypeFamily(chain.type, family)
  PROVE  /\ DOMAIN val = ChainFields
         /\ val["name"] = chain.name /\ val["policy"] = chain.policy
         /\ chain.type \in TypesIn(family) => val["type"] = chain.type
         /\ val["type"] \in TypesIn(family)
         /\ val["priority"] = SetValue(chain.priority)
         /\ chain.hook # NoHook =>
              val["hook"] = Select(hooks, ChainHookNumToString(chain.hook))
         /\ Contains(hooks, val["hook"])
         /\ hooks = ValidChainHooksForTypeFamily(val["type"], family)
<1>1. /\ DOMAIN val = ChainFields
      /\ val["name"] = chain.name
      /\ val["type"] = Select(ValidChainTypesForFamily(family), chain.type)
      /\ val["hook"] = IF chain.hook = NoHook THEN hooks[1]
                       ELSE Select(hooks, ChainHookNumToString(chain.hook))
      /\ val["priority"] = SetValue(chain.priority)
      /\ val["policy"] = Select(Policy, chain.policy)
  BY DEF Fields, ChainFields
<1>2. chain.policy \in {"accept", "drop"} /\ chain.type \in TypesIn(family) \cup {""}
  BY ChainFacts
<1>3. val["policy"] = chain.policy
  BY <1>1, <1>2, ListsOffer, SelectOffers
<1>4. ValidChainTypesForFamily(family)[1] = "filter"
  BY DEF ValidChainTypesForFamily, TypesIn
<1>5. /\ val["type"] = IF chain.type \in TypesIn(family) THEN chain.type
                       ELSE "filter"
      /\ val["type"] \in TypesIn(family)
  <2>1. val["type"] = IF chain.type \in TypesIn(family) THEN chain.type
                      ELSE ValidChainTypesForFamily(family)[1]
    BY <1>1, TypesOffered, SelectOffers
  <2>2. "filter" \in TypesIn(family)
    BY DEF TypesIn
  <2> QED
    BY <1>4, <2>1, <2>2
<1>6. hooks = ValidChainHooksForTypeFamily(val["type"], family)
  <2>1. CASE chain.type \in TypesIn(family)
    BY <1>5, <2>1
  <2>2. CASE chain.type \notin TypesIn(family)
    <3>1. chain.type \notin {"nat", "route"} /\ val["type"] = "filter"
      BY <1>2, <1>5, <2>2
    <3>2. hooks = FamilyHooks(family)
      BY <3>1 DEF ValidChainHooksForTypeFamily
    <3>3. ValidChainHooksForTypeFamily("filter", family) = FamilyHooks(family)
      BY DEF ValidChainHooksForTypeFamily
    <3> QED
      BY <3>1, <3>2, <3>3
  <2> QED
    BY <2>1, <2>2
<1>7. Contains(hooks, val["hook"])
  <2>1. PICK K : Offers(hooks, K)
    BY <1>2, HooksAreOffered
  <2>2. hooks[1] \in K
    BY <2>1 DEF Offers
  <2> QED
    BY <1>1, <2>1, <2>2, SelectOffers, OffersContains
<1> QED
  BY <1>1, <1>3, <1>5, <1>6, <1>7

(* The edit form opens right on every chain a listing can hold.            *)
LEMMA ChainEditOpens ==
  ASSUME OpenChainEdit
  PROVE  Right(form', {}) /\ touched' = {} /\ form' # Closed
<1>1. PICK family \in Families : \E chain \in Chains(family) :
        /\ form' = Opened("chainEdit", family, chain,
                     ValidChainHooksForTypeFamily(chain.type, family),
                     Fields(chain, family))
        /\ touched' = {}
  BY DEF OpenChainEdit, OpenForm, Chains
<1>2. PICK chain \in Chains(family) :
        /\ form' = Opened("chainEdit", family, chain,
                     ValidChainHooksForTypeFamily(chain.type, family),
                     Fields(chain, family))
        /\ touched' = {}
  BY <1>1
<1> DEFINE hooks == ValidChainHooksForTypeFamily(chain.type, family)
           val == Fields(chain, family)
<1>3. /\ form'.kind = "chainEdit" /\ form'.family = family
      /\ form'.chain = chain /\ form'.hooks = hooks /\ form'.val = val
      /\ DOMAIN form' = {"kind", "family", "chain", "hooks", "val", "slot", "status"}
      /\ form'.slot \in Shown(form') /\ form' # Closed
  BY <1>2, OpenedFacts DEF Kinds
<1>4. /\ val = Fields(chain, family)
      /\ hooks = ValidChainHooksForTypeFamily(chain.type, family)
  OBVIOUS
<1> HIDE DEF val, hooks
<1>5. /\ DOMAIN val = ChainFields /\ val["name"] = "old"
      /\ Contains(ValidChainTypesForFamily(family), val["type"])
      /\ Contains(Policy, val["policy"]) /\ Contains(hooks, val["hook"])
      /\ hooks = ValidChainHooksForTypeFamily(val["type"], family)
  <2>1. /\ DOMAIN val = ChainFields /\ val["name"] = chain.name
        /\ val["type"] \in TypesIn(family) /\ val["policy"] = chain.policy
        /\ Contains(hooks, val["hook"])
        /\ hooks = ValidChainHooksForTypeFamily(val["type"], family)
    BY <1>4, FieldsFacts
  <2>2. chain.name = "old" /\ chain.policy \in {"accept", "drop"}
    BY ChainFacts
  <2> QED
    BY <2>1, <2>2, TypesOffered, ListsOffer, OffersContains
<1>6. \A x \in DOMAIN val : Fits(form', x)
  BY <1>3, <1>5 DEF Fits, Options, Names, ChainFields
<1> QED
  BY <1>2, <1>3, <1>4, <1>5, <1>6 DEF Kinds, Right, FieldsOf

(* Every selection is a list of options.                                   *)
LEMMA FocusOffered ==
  ASSUME NEW f, NEW t, Right(f, t), Focus(f) \notin {"name", "priority"}
  PROVE  \E S : Offers(Options(f, Focus(f)), S)
<1> DEFINE field == Focus(f)
<1>1. field \in FieldsOf(f.kind)
  BY SlotFacts DEF Right, Focus, Shown
<1>2. CASE field = "hook"
  <2>1. "type" \in FieldsOf(f.kind) /\ f.kind \in {"chainEdit", "chainCreate"}
    BY <1>1, <1>2 DEF FieldsOf, ChainFields, Right, Kinds
  <2>2. Contains(ValidChainTypesForFamily(f.family), f.val["type"])
    BY <2>1 DEF Right, Fits, Options
  <2>3. f.val["type"] \in TypesIn(f.family)
    BY <2>2, TypesOffered, OffersContains
  <2> QED
    BY <1>2, <2>1, <2>3, HooksAreOffered DEF Right, Options
<1>3. CASE field = "type"
  BY <1>3, TypesOffered DEF Options
<1>4. CASE field = "dataType"
  BY <1>4, MapTypesOffered DEF Options
<1>5. CASE field \notin {"hook", "type", "dataType"}
  BY <1>5, OffersTwo, OffersThree, OffersFour, OffersSix
     DEF Options, FamilyOptions, Policy, KeyTypes, Widths, OnOff
<1> QED
  BY <1>2, <1>3, <1>4, <1>5

-----------------------------------------------------------------------------
(* No form is open at first.                                               *)
LEMMA FormStarts == FormInit => FormInv
BY DEF FormInit, FormInv

(* Every step leaves the open form right.                                  *)
LEMMA FormStep == FormInv /\ [FormNext]_formVars => FormInv'
<1> SUFFICES ASSUME FormInv, [FormNext]_formVars PROVE FormInv'
  OBVIOUS
<1>1. CASE OpenTable \/ OpenSetCreate \/ OpenChainCreate \/ OpenChainEdit
  <2>1. pending' = pending
    BY <1>1 DEF OpenTable, OpenSetCreate, OpenChainCreate,
                OpenChainEdit, OpenForm
  <2> QED
    BY <1>1, <2>1, TableOpens, SetOpens, ChainCreateOpens, ChainEditOpens
       DEF FormInv
<1>2. CASE NextField \/ PrevField
  <2>1. /\ form # Closed /\ Right(form, touched) /\ UNCHANGED <<pending, touched>>
    BY <1>2 DEF NextField, PrevField, Key, FormInv
  <2>2. \E i \in Shown(form) : form' = [form EXCEPT !.slot = i]
    BY <1>2, <2>1, FollowingShown DEF NextField, PrevField, Right
  <2> QED
    BY <2>1, <2>2, SameRight DEF FormInv
<1>3. ASSUME NEW step \in {-1, 1}, Choose(step) PROVE FormInv'
  <2> DEFINE field == Focus(form)
             options == Options(form, field)
             i == indexOf(options, form.val[field]) + step
             f == [form EXCEPT !.val[field] = options[i]]
  <2>1. /\ form # Closed /\ Right(form, touched) /\ UNCHANGED pending
        /\ field \notin {"name", "priority"} /\ i \in DOMAIN options
        /\ form' = IF field = "type" THEN syncHookOptions(f) ELSE f
        /\ touched' = IF form.kind = "chainEdit" THEN touched \cup {field}
                      ELSE touched
    BY <1>3 DEF Choose, Key, Touch, FormInv
  <2>2. Contains(options, options[i])
    BY <2>1, FocusOffered DEF Contains, Offers
  <2>3. Right(form', touched') /\ form' # Closed
    <3>1. CASE field = "type"
      BY <2>1, <2>2, <3>1, TypeRight
    <3>2. CASE field # "type"
      BY <2>1, <2>2, <3>2, ValueRight
    <3> QED
      BY <3>1, <3>2
  <2> QED
    BY <2>1, <2>3 DEF FormInv
<1>4. CASE Type
  <2>1. PICK text : /\ Focus(form) = "name" => text \in Names
                    /\ Focus(form) \in {"name", "priority"}
                    /\ form' = [form EXCEPT !.val[Focus(form)] = text]
    BY <1>4 DEF Type
  <2>2. /\ form # Closed /\ Right(form, touched) /\ UNCHANGED pending
        /\ touched' = IF form.kind = "chainEdit"
                      THEN touched \cup {Focus(form)} ELSE touched
    BY <1>4 DEF Type, Key, Touch, FormInv
  <2> QED
    BY <2>1, <2>2, ValueRight DEF FormInv
<1>5. CASE SaveSends \/ SaveRefused
  <2>1. /\ form # Closed /\ Right(form, touched) /\ UNCHANGED touched
        /\ \E b : form' = [form EXCEPT !.status = b]
        /\ pending' \in {"none", "table", "chain", "set"}
    BY <1>5 DEF SaveSends, SaveRefused, Key, FormInv, Class
  <2>2. form.slot \in Shown(form)
    BY <2>1 DEF Right
  <2> QED
    BY <2>1, <2>2, SameRight DEF FormInv
<1>6. CASE SaveUnchanged \/ Cancel \/ AnswerOk
  BY <1>6 DEF SaveUnchanged, Cancel, AnswerOk, Key, FormInv
<1>7. CASE AnswerError
  <2>1. /\ UNCHANGED touched /\ pending' = "none"
        /\ \/ form' = form
           \/ form # Closed /\ \E b : form' = [form EXCEPT !.status = b]
    BY <1>7 DEF AnswerError
  <2>2. CASE form' = form
    BY <2>1, <2>2 DEF FormInv
  <2>3. CASE form # Closed /\ \E b : form' = [form EXCEPT !.status = b]
    <3>1. Right(form, touched) /\ form.slot \in Shown(form)
      BY <2>3 DEF FormInv, Right
    <3> QED
      BY <2>1, <2>3, <3>1, SameRight DEF FormInv
  <2> QED
    BY <2>1, <2>2, <2>3
<1>8. CASE UNCHANGED formVars
  BY <1>8 DEF formVars, FormInv
<1> QED
  BY <1>1, <1>2, <1>3, <1>4, <1>5, <1>6, <1>7, <1>8 DEF FormNext

-----------------------------------------------------------------------------
(* A right form has its focus on a field shown and its values on offer.    *)
LEMMA InvFocus == FormInv => FocusIsShown
<1> SUFFICES ASSUME FormInv PROVE FocusIsShown
  OBVIOUS
<1>1. CASE form = Closed
  BY <1>1 DEF FormInv, FocusIsShown, FormTypeOK, Right
<1>2. CASE form # Closed
  <2>1. Right(form, touched)
    BY <1>2 DEF FormInv
  <2>2. /\ DOMAIN form = DOMAIN Opened("", "", "", "", "")
        /\ form.kind \in Kinds /\ form.slot \in Shown(form)
        /\ form.slot \in DOMAIN Slots(form.kind)
        /\ DOMAIN form.val = ToSet(Slots(form.kind))
    BY <2>1, SlotFacts DEF Right, Shown, Opened
  <2> QED
    BY <1>2, <2>1, <2>2 DEF FormInv, Right, FocusIsShown, FormTypeOK
<1> QED
  BY <1>1, <1>2

(* The hook of a form of a chain is one of the family's.                   *)
LEMMA HookHeld ==
  ASSUME NEW f, NEW t, Right(f, t), f.kind \in {"chainEdit", "chainCreate"}
  PROVE  /\ f.val["type"] \in TypesIn(f.family)
         /\ f.val["hook"] \in HooksIn(f.family)
<1>1. /\ Contains(ValidChainTypesForFamily(f.family), f.val["type"])
      /\ Contains(f.hooks, f.val["hook"])
      /\ f.hooks = ValidChainHooksForTypeFamily(f.val["type"], f.family)
  BY DEF Right, Fits, Options, FieldsOf, ChainFields
<1>2. f.val["type"] \in TypesIn(f.family)
  BY <1>1, TypesOffered, OffersContains
<1>3. PICK K \in SUBSET HooksIn(f.family) : Offers(f.hooks, K)
  BY <1>1, <1>2, HooksAreOffered
<1> QED
  BY <1>1, <1>2, <1>3, OffersContains

(* What the kernel makes of the number that is sent for a hook.            *)
LEMMA KernelHook ==
  ASSUME NEW family, NEW hook \in HooksIn(family)
  PROVE  KernelName(family, ChainHookFromString(hook)) = hook
           <=> <<family, hook>> \notin {<<"inet", "ingress">>,
                                        <<"arp", "input">>, <<"arp", "output">>}
<1> USE DEF HooksIn, KernelName, ChainHookFromString, KernelHooks,
            FamilyHooks
<1>1. CASE family = "arp"
  BY <1>1
<1>2. CASE family = "netdev"
  BY <1>2
<1>3. CASE family = "inet"
  BY <1>3
<1>4. CASE family \notin {"arp", "netdev", "inet"}
  BY <1>4 DEF FiveHooks
<1> QED
  BY <1>1, <1>2, <1>3, <1>4

(* The hooks offered are those of the type, and the one of a new chain is  *)
(* what the kernel makes of its number, but for three.                     *)
LEMMA InvHook == FormInv => HookFitsType
<1> SUFFICES ASSUME FormInv, form # Closed PROVE HookFitsType
  BY DEF HookFitsType, HooksOffered, NewHookIsChosen
<1>1. Right(form, touched)
  BY DEF FormInv
<1>2. HooksOffered
  BY <1>1 DEF HooksOffered, Class, Right, Kinds
<1>3. NewHookIsChosen
  <2> SUFFICES ASSUME form.kind = "chainCreate", IsBase(form)
      PROVE  KernelName(form.family, BuildSpec(form).hook) = form.val["hook"]
               <=> <<form.family, form.val["hook"]>> \notin
                     {<<"inet", "ingress">>, <<"arp", "input">>,
                      <<"arp", "output">>}
    BY DEF NewHookIsChosen
  <2>1. BuildSpec(form).hook = ChainHookFromString(form.val["hook"])
    BY DEF BuildSpec
  <2> QED
    BY <1>1, <2>1, HookHeld, KernelHook
<1> QED
  BY <1>2, <1>3 DEF HookFitsType

(* The number that is sent for the hook that is shown for a number.        *)
LEMMA HookShown ==
  ASSUME NEW family, NEW type \in TypesIn(family),
         NEW num \in KernelHooks(family),
         NEW hooks, hooks = ValidChainHooksForTypeFamily(type, family),
         Contains(hooks, KernelName(family, num))
  PROVE  ChainHookFromString(Select(hooks, ChainHookNumToString(num))) = num
           <=> <<family, num>> \notin {<<"inet", 5>>, <<"arp", 0>>, <<"netdev", 1>>}
<1> DEFINE name == ChainHookNumToString(num)
           shown == Select(hooks, name)
<1>1. PICK K \in SUBSET HooksIn(family) : Offers(hooks, K)
  BY HooksAreOffered
<1>2. /\ shown = IF name \in K THEN name ELSE hooks[1]
      /\ hooks[1] \in K /\ shown \in K
      /\ KernelName(family, num) \in K
  BY <1>1, SelectOffers, OffersContains DEF Offers
<1>3. CASE family = "arp"
  <2>1. hooks = <<"input", "output">> /\ num \in {0, 1}
    BY <1>3 DEF ValidChainHooksForTypeFamily, TypesIn, Layer3, FamilyHooks,
                KernelHooks
  <2>2. Contains(hooks, "input")
    BY <2>1 DEF Contains
  <2>3. "input" \in K /\ K \subseteq {"input", "output"}
    BY <1>1, <1>3, <2>2, OffersContains DEF HooksIn
  <2>4. name = IF num = 0 THEN "prerouting" ELSE "input"
    BY <2>1 DEF ChainHookNumToString, FiveHooks
  <2> QED
    BY <1>2, <1>3, <2>1, <2>3, <2>4 DEF ChainHookFromString
<1>4. CASE family = "netdev"
  <2>1. hooks = <<"ingress", "egress">> /\ num \in {0, 1}
    BY <1>4 DEF ValidChainHooksForTypeFamily, TypesIn, Layer3, FamilyHooks,
                KernelHooks
  <2>2. K \subseteq {"ingress", "egress"} /\ hooks[1] = "ingress"
    BY <1>1, <1>4, <2>1 DEF HooksIn
  <2>3. name \in {"prerouting", "input"}
    BY <2>1 DEF ChainHookNumToString, FiveHooks
  <2> QED
    BY <1>2, <1>4, <2>1, <2>2, <2>3 DEF ChainHookFromString
<1>5. CASE family = "inet" /\ num = 5
  <2>1. name = "unknown"
    BY <1>5 DEF ChainHookNumToString
  <2> QED
    BY <1>2, <1>5, <2>1 DEF HooksIn, ChainHookFromString
<1>6. CASE family \notin {"arp", "netdev"} /\ num \in 0 .. 4
  <2>1. name = KernelName(family, num)
    BY <1>6 DEF ChainHookNumToString, KernelName, FamilyHooks, FiveHooks,
                KernelHooks
  <2>2. shown = name
    BY <1>2, <2>1
  <2>3. ChainHookFromString(name) = num
    BY <1>6 DEF ChainHookNumToString, FiveHooks, ChainHookFromString
  <2> QED
    BY <1>6, <2>2, <2>3
<1> QED
  BY <1>3, <1>4, <1>5, <1>6 DEF KernelHooks

(* What a number input reads is the number it was given, or what is left   *)
(* of it.                                                                  *)
LEMMA NumberRead ==
  ASSUME NEW number PROVE GetValue(SetValue(number)) = Shorten(number)
BY DEF GetValue, SetValue, NotANumber

(* Every hook of the kernel is a hook.                                     *)
LEMMA HookIsThere ==
  ASSUME NEW family, NEW hook \in KernelHooks(family)
  PROVE  hook # NoHook
BY DEF KernelHooks, NoHook

(* What the edit form of a base chain shows when it opens.                 *)
LEMMA BaseShown ==
  ASSUME NEW family, NEW chain \in Chains(family), chain # RegularChain,
         NEW val, val = Fields(chain, family)
  PROVE  /\ val["name"] = chain.name /\ val["type"] = chain.type
         /\ val["policy"] = chain.policy
         /\ GetValue(val["priority"]) = Shorten(chain.priority)
         /\ ChainHookFromString(val["hook"]) = chain.hook
              <=> <<family, chain.hook>> \notin
                    {<<"inet", 5>>, <<"arp", 0>>, <<"netdev", 1>>}
<1> DEFINE hooks == ValidChainHooksForTypeFamily(chain.type, family)
<1>1. hooks = ValidChainHooksForTypeFamily(chain.type, family)
  OBVIOUS
<1> HIDE DEF hooks
<1>2. /\ chain.type \in TypesIn(family)
      /\ chain.hook \in KernelHooks(family)
      /\ Contains(hooks, KernelName(family, chain.hook))
  BY <1>1, ChainFacts
<1>3. chain.hook # NoHook
  BY <1>2, HookIsThere
<1>4. /\ val["name"] = chain.name /\ val["type"] = chain.type
      /\ val["policy"] = chain.policy
      /\ val["priority"] = SetValue(chain.priority)
      /\ val["hook"] = Select(hooks, ChainHookNumToString(chain.hook))
  BY <1>1, <1>2, <1>3, FieldsFacts
<1>5. GetValue(val["priority"]) = Shorten(chain.priority)
  BY <1>4, NumberRead
<1>6. ChainHookFromString(Select(hooks, ChainHookNumToString(chain.hook)))
        = chain.hook
        <=> <<family, chain.hook>> \notin
              {<<"inet", 5>>, <<"arp", 0>>, <<"netdev", 1>>}
  BY <1>1, <1>2, HookShown
<1> QED
  BY <1>4, <1>5, <1>6

(* The edit form shows the name of any chain.                              *)
LEMMA NameShown ==
  ASSUME NEW family, NEW chain, NEW val, val = Fields(chain, family)
  PROVE  val["name"] = chain.name
BY DEF Fields

(* A field that was not asked to change has the value of the chain, and    *)
(* that is sent as what the chain has, if the form can show the chain.     *)
LEMMA InvTouched == FormInv => OnlyTouchedChanges
<1> SUFFICES ASSUME FormInv, form # Closed, form.kind = "chainEdit"
             PROVE  OnlyTouchedChanges
  BY DEF OnlyTouchedChanges
<1> DEFINE chain == form.chain
           family == form.family
           sent == BuildSpec(form)
           val == Fields(chain, family)
<1>1. /\ chain = form.chain /\ family = form.family
      /\ sent = BuildSpec(form) /\ val = Fields(chain, family)
  OBVIOUS
<1> HIDE DEF chain, family, sent, val
<1>2. Right(form, touched) /\ chain \in Chains(family)
  BY <1>1 DEF FormInv, Right
<1>3. \A field \in ChainFields : ~Asked(field) => form.val[field] = val[field]
  BY <1>1, <1>2 DEF Right, AskedIn, Asked
<1>4. val["name"] = chain.name
  BY <1>1, NameShown
<1>5. CASE chain = RegularChain
  <2>1. /\ DOMAIN chain = {"name", "type", "hook", "priority", "policy"}
        /\ chain.hook = -1 /\ chain.priority = 0
    BY <1>5 DEF RegularChain, NoHook
  <2>2. sent = [chain EXCEPT !.name = form.val["name"]]
    BY <1>1, <1>5, <2>1 DEF BuildSpec, IsBase, NoHook
  <2>3. CanShow(form)
    BY <1>1, <2>1 DEF CanShow, Shorten
  <2>4. ~Asked("name") => form.val["name"] = chain.name
    BY <1>3, <1>4 DEF ChainFields
  <2>5. \A field \in DOMAIN sent : sent[field] # chain[field] => Asked(field)
    BY <2>1, <2>2, <2>4
  <2> QED
    BY <1>1, <2>3, <2>5 DEF OnlyTouchedChanges
<1>6. CASE chain # RegularChain
  <2>1. /\ chain.name = "old" /\ chain.type \in TypesIn(family)
        /\ chain.hook \in KernelHooks(family)
        /\ Contains(ValidChainHooksForTypeFamily(chain.type, family),
                      KernelName(family, chain.hook))
    BY <1>2, <1>6, ChainFacts
  <2>2. chain.hook # NoHook
    BY <2>1, HookIsThere
  <2>3. /\ DOMAIN sent = ChainFields
        /\ sent["name"] = form.val["name"] /\ sent["type"] = form.val["type"]
        /\ sent["hook"] = ChainHookFromString(form.val["hook"])
        /\ sent["priority"] = GetValue(form.val["priority"])
        /\ sent["policy"] = form.val["policy"]
    BY <1>1, <2>2 DEF BuildSpec, IsBase, ChainFields
  <2>4. /\ val["name"] = chain.name /\ val["type"] = chain.type
        /\ val["policy"] = chain.policy
        /\ GetValue(val["priority"]) = Shorten(chain.priority)
        /\ ChainHookFromString(val["hook"]) = chain.hook
             <=> <<family, chain.hook>> \notin
                   {<<"inet", 5>>, <<"arp", 0>>, <<"netdev", 1>>}
    BY <1>1, <1>2, <1>6, BaseShown
  <2>5. CASE CanShow(form)
    <3>1. /\ Shorten(chain.priority) = chain.priority
          /\ ChainHookFromString(val["hook"]) = chain.hook
      BY <1>1, <2>4, <2>5 DEF CanShow
    <3>2. \A field \in ChainFields : ~Asked(field) => sent[field] = chain[field]
      BY <1>3, <2>3, <2>4, <3>1 DEF ChainFields
    <3> QED
      BY <1>1, <2>3, <2>5, <3>2 DEF OnlyTouchedChanges
  <2>6. CASE ~CanShow(form)
    <3> SUFFICES ASSUME touched = {} PROVE Sends(form)
      BY <2>6 DEF OnlyTouchedChanges
    <3>1. \A field \in ChainFields : form.val[field] = val[field]
      BY <1>3 DEF Asked
    <3>2. sent["hook"] # chain.hook \/ sent["priority"] # chain.priority
      BY <1>1, <2>3, <2>4, <2>6, <3>1 DEF CanShow, ChainFields
    <3>3. form.val["name"] = "old"
      BY <2>1, <2>4, <3>1 DEF ChainFields
    <3> QED
      BY <1>1, <3>2, <3>3 DEF Sends, Changes
  <2> QED
    BY <2>5, <2>6
<1> QED
  BY <1>5, <1>6

-----------------------------------------------------------------------------
(* The focus of a form is on a field that is shown, and every selection    *)
(* holds something that it offers.                                         *)
THEOREM FocusHolds == FormSpec => []FocusIsShown
BY FormStarts, FormStep, InvFocus, PTL DEF FormSpec

(* Type and hook of a chain fit, and the kernel makes of a new hook what   *)
(* was chosen, but for the three that it cannot.                           *)
THEOREM HookHolds == FormSpec => []HookFitsType
BY FormStarts, FormStep, InvHook, PTL DEF FormSpec

(* A save changes what was asked, and of a chain that the form can show    *)
(* nothing else.                                                           *)
THEOREM TouchedHolds == FormSpec => []OnlyTouchedChanges
BY FormStarts, FormStep, InvTouched, PTL DEF FormSpec
=============================================================================
