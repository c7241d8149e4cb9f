--------------------------- MODULE RuleOps_proofs ---------------------------
(***************************************************************************)
(* Proofs about RuleOps, for any number of commands, rules and writers.    *)
(***************************************************************************)
EXTENDS RuleOps, SeqLemmas

USE DEF Kind, Creating, Guarded, PC

(* Every list of rules that anybody holds: the kernel's, the chain view's  *)
(* and the ones that commands carry.                                       *)
Lists == {chain, view} \cup {ops[o].list : o \in Cmd}

(* What the record of a command says at each point of its goroutine.  A    *)
(* move that is about to flush knows where its rule was in the list, and   *)
(* an insert which rule it goes behind; the log is empty until the flush,  *)
(* and has one record after it.                                            *)
Ready(op) ==
  op.pc = "flush" =>
    /\ op.kind \in {"up", "down"} =>
         op.idx \in DOMAIN op.list /\ op.list[op.idx].handle = op.handle
    /\ op.kind = "insert" => op.idx = 1 \/ op.idx - 1 \in DOMAIN op.list

Pending(op) == op.log = <<>> /\ ~op.took /\ op.result = "none"

Ended(op) ==
  /\ op.took => op.log = <<"ok">>
  /\ ~op.took => op.log \in {<<>>, <<"error">>}
  /\ op.log = <<"error">> => op.result = "error"
  /\ op.took /\ op.kind \notin Creating => op.result = "ok"
  /\ op.result = "ok" /\ op.kind \in {"delete", "apply"} => op.took

OpInv(op) ==
  /\ Ready(op)
  /\ op.pc \in {"idle", "reread", "flush"} => Pending(op)
  /\ op.pc = "relist" => op.log = <<"ok">> /\ op.took /\ op.kind \in Creating
  /\ op.pc = "done" => Ended(op)

OpsInv == TypeOK /\ \A o \in Cmd : OpInv(ops[o])

(* The kernel's batches turn a chain into a chain. *)
LEMMA KernelTypes ==
  ASSUME NEW s \in Seq(Rule), NEW h, Has(s, h)
  PROVE  /\ DelRule(s, h) \in Seq(Rule)
         /\ \A r \in Rule : InsertBefore(s, h, r) \in Seq(Rule)
         /\ \A r \in Rule : AddAfter(s, h, r) \in Seq(Rule)
         /\ \A b \in Body : Replace(s, h, b) \in Seq(Rule)
<1> DEFINE k == Find(s, h)
<1>1. Len(s) \in Nat /\ k \in 1 .. Len(s) /\ s[k] \in Rule
  BY FindFacts
<1>2. k \in 1 .. Len(s) + 1 /\ k + 1 \in 1 .. Len(s) + 1
  BY <1>1
<1> HIDE DEF k
<1>3. RemoveAt(s, k) \in Seq(Rule)
  BY <1>1, RemoveAtFacts
<1>4. ASSUME NEW r \in Rule
      PROVE  /\ InsertAt(s, k, r) \in Seq(Rule)
             /\ InsertAt(s, k + 1, r) \in Seq(Rule)
  BY <1>2, InsertAtFacts
<1>5. ASSUME NEW b \in Body
      PROVE  [s EXCEPT ![k].body = b] \in Seq(Rule)
  <2>1. [s[k] EXCEPT !.body = b] \in Rule
    BY <1>1 DEF Rule
  <2>2. [s EXCEPT ![k] = [s[k] EXCEPT !.body = b]] \in Seq(Rule)
    BY <1>1, <2>1, ExceptSeq
  <2> QED BY <2>2
<1> QED BY <1>3, <1>4, <1>5 DEF DelRule, InsertBefore, AddAfter, Replace, k

(* The rules and commands that the code makes are rules and commands. *)
LEMMA IdleType == IdleOp \in Op
BY BodyAssumption DEF IdleOp, Op

(* The initial values have their types.                                    *)
LEMMA InitType == Init => TypeOK
<1> SUFFICES ASSUME Init PROVE TypeOK
  OBVIOUS
<1>1. InitLen \in Nat
  BY InitLenAssumption, HandleAssumption
<1>2. chain \in Seq(Rule)
  <2>1. chain \in [1 .. InitLen -> Rule]
    BY <1>1, BodyAssumption DEF Init, Rule
  <2> QED BY <2>1, <1>1, SeqDef
<1> QED BY <1>1, <1>2, IdleType, BoundAssumption DEF Init, TypeOK

(* A key press keeps the types.                                            *)
LEMMA StartType ==
  ASSUME TypeOK, NEW o \in Cmd, KeyPress(o)
  PROVE  TypeOK'
<1>1. ASSUME NEW op \in Op, Start(o, op) PROVE TypeOK'
  <2>1. ops' \in [Cmd -> Op] /\ quiet' \in SUBSET Cmd
    BY <1>1 DEF Start, TypeOK
  <2>2. keys' \in 0 .. MaxKeys
    BY <1>1, BoundAssumption DEF Start, TypeOK
  <2> QED BY <2>1, <2>2, <1>1 DEF Start, TypeOK
<1>2. \A i \in DOMAIN view : view[i] \in Rule
  BY ElementOfSeq, LenProperties DEF TypeOK
<1>3. CASE StartDelete(o)
  <2>1. PICK i \in DOMAIN view :
          Start(o, [IdleOp EXCEPT !.kind = "delete", !.pc = "reread",
                            !.handle = view[i].handle, !.id = view[i].id])
    BY <1>3 DEF StartDelete
  <2> QED BY <2>1, <1>1, <1>2, IdleType DEF Op, Rule
<1>4. ASSUME NEW kind \in {"up", "down"}, NEW last, StartMove(o, kind, last)
      PROVE  TypeOK'
  <2>1. PICK i \in DOMAIN view :
          Start(o, [IdleOp EXCEPT !.kind = kind, !.pc = "reread",
                            !.handle = view[i].handle, !.id = view[i].id])
    BY <1>4 DEF StartMove
  <2> QED BY <2>1, <1>1, <1>2, IdleType DEF Op, Rule
<1>5. CASE StartAdd(o)
  BY <1>5, <1>1, IdleType DEF StartAdd, Op
<1>6. CASE StartInsert(o)
  <2>1. PICK i \in Nat :
          Start(o, [IdleOp EXCEPT !.kind = "insert", !.pc = "flush",
                            !.idx = i, !.list = view])
    <3>1. 1 .. (IF view = <<>> THEN 1 ELSE Len(view)) \subseteq Nat
      BY LenProperties DEF TypeOK
    <3> QED BY <3>1, <1>6 DEF StartInsert
  <2> QED BY <2>1, <1>1, IdleType DEF Op, TypeOK
<1>7. CASE StartApply(o)
  <2>1. PICK b \in Body :
          \/ \E i \in DOMAIN view :
               Start(o, [IdleOp EXCEPT !.kind = "apply", !.pc = "flush",
                                       !.body = b, !.handle = view[i].handle,
                                       !.id = view[i].id])
          \/ Start(o, [IdleOp EXCEPT !.kind = "apply", !.pc = "flush",
                                  !.body = b])
    BY <1>7 DEF StartApply
  <2>2. \A i \in DOMAIN view :
          [IdleOp EXCEPT !.kind = "apply", !.pc = "flush", !.body = b,
                         !.handle = view[i].handle, !.id = view[i].id] \in Op
    BY <1>2, IdleType DEF Op, Rule
  <2>3. [IdleOp EXCEPT !.kind = "apply", !.pc = "flush", !.body = b] \in Op
    BY IdleType DEF Op
  <2> QED BY <2>1, <2>2, <2>3, <1>1
<1> QED BY <1>3, <1>4, <1>5, <1>6, <1>7 DEF KeyPress, StartMoveUp, StartMoveDown

(* A batch that a command commits: its record stays a command. *)
LEMMA CommitType ==
  ASSUME TypeOK, NEW o \in Cmd, NEW pc \in PC, NEW made \in Nat,
         Commit(o, pc, made)
  PROVE  /\ ops' \in [Cmd -> Op] /\ quiet' \in SUBSET Cmd
         /\ view' \in Seq(Rule) /\ keys' \in 0 .. MaxKeys
         /\ outside' \in 0 .. MaxOutside
<1>1. Append(ops[o].log, "ok") \in Seq({"ok", "error"})
  <2>1. ops[o].log \in Seq({"ok", "error"})
    BY DEF TypeOK, Op
  <2> QED BY <2>1, AppendProperties
<1>2. [ops[o] EXCEPT !.pc = pc, !.made = made, !.took = TRUE,
                     !.log = Append(ops[o].log, "ok"),
                     !.result = IF pc = "done" THEN "ok" ELSE "none"] \in Op
  <2>1. ops[o] \in Op
    BY DEF TypeOK
  <2>2. ASSUME NEW x \in Op, NEW l \in Seq({"ok", "error"}),
               NEW r \in {"ok", "none"}
        PROVE  [x EXCEPT !.pc = pc, !.made = made, !.took = TRUE,
                         !.log = l, !.result = r] \in Op
    BY DEF Op
  <2> QED BY <2>1, <2>2, <1>1
<1>3. ops' = [ops EXCEPT ![o] =
        [ops[o] EXCEPT !.pc = pc, !.made = made, !.took = TRUE,
                       !.log = Append(ops[o].log, "ok"),
                       !.result = IF pc = "done" THEN "ok" ELSE "none"]]
  BY DEF Commit
<1> QED BY <1>2, <1>3 DEF Commit, TypeOK

(* A command that ends without one: the same. *)
LEMMA FinishType ==
  ASSUME TypeOK, NEW o \in Cmd, NEW r \in {"none", "ok", "error", "gone"},
         Finish(o, r)
  PROVE  TypeOK'
<1>1. [ops[o] EXCEPT !.pc = "done", !.result = r] \in Op
  <2>1. ops[o] \in Op
    BY DEF TypeOK
  <2>2. ASSUME NEW x \in Op PROVE [x EXCEPT !.pc = "done", !.result = r] \in Op
    BY DEF Op
  <2> QED BY <2>1, <2>2
<1>2. ops' = [ops EXCEPT ![o] = [ops[o] EXCEPT !.pc = "done", !.result = r]]
  BY DEF Finish
<1> QED BY <1>1, <1>2 DEF Finish, TypeOK

(* What NewRule makes is a rule.                                           *)
LEMMA NewRuleType ==
  ASSUME TypeOK
  PROVE  /\ \A b \in Body : NewRule(b) \in Rule
         /\ NewRule(AcceptBody) \in Rule
BY BodyAssumption DEF TypeOK, NewRule, Rule

(* The rule that Relist returns is one of the list's, or none. *)
LEMMA ReturnedType ==
  ASSUME NEW o, NEW s \in Seq(Rule)
  PROVE  Returned(o, s) \in Nat
<1>1. Len(s) \in Nat /\ (s # <<>> => Len(s) > 0)
  BY EmptySeq, LenProperties
<1>2. \A i \in DOMAIN s : s[i].id \in Nat
  <2>1. \A i \in DOMAIN s : s[i] \in Rule
    BY ElementOfSeq, LenProperties
  <2> QED BY <2>1 DEF Rule
<1>3. s # <<>> => Len(s) \in DOMAIN s
  BY <1>1, LenProperties
<1> QED BY <1>2, <1>3 DEF Returned

(* A flush that the kernel applies keeps the types.                        *)
LEMMA FlushType ==
  ASSUME TypeOK, NEW o \in Cmd, Ready(ops[o]),
         \/ FlushDelete(o) \/ FlushMoveUp(o) \/ FlushMoveDown(o)
         \/ FlushAdd(o) \/ FlushInsert(o) \/ FlushApply(o)
  PROVE  TypeOK'
<1>1. /\ chain \in Seq(Rule) /\ nextHandle \in Nat \ {0} /\ ops[o] \in Op
      /\ nextHandle + 1 \in Nat \ {0}
  BY DEF TypeOK
<1>2. ASSUME chain' \in Seq(Rule), nextHandle' \in Nat \ {0},
             NEW pc \in PC, NEW made \in Nat, Commit(o, pc, made)
      PROVE  TypeOK'
  BY <1>2, CommitType DEF TypeOK
<1>3. CASE FlushDelete(o)
  BY <1>1, <1>2, <1>3, KernelTypes DEF FlushDelete
<1>4. ASSUME ops[o].pc = "flush", ops[o].kind \in {"up", "down"}
      PROVE  Moved(o) \in Rule
  <2>1. ops[o].list \in Seq(Rule) /\ ops[o].idx \in DOMAIN ops[o].list
    BY <1>1, <1>4 DEF Op, Ready
  <2>2. ops[o].list[ops[o].idx] \in Rule
    BY <2>1, ElementOfSeq, LenProperties
  <2>3. \A r \in Rule : [r EXCEPT !.handle = nextHandle] \in Rule
    BY <1>1 DEF Rule
  <2> QED BY <2>2, <2>3 DEF Moved
<1>5. ASSUME NEW h, NEW p, Has(chain, h), Has(DelRule(chain, h), p),
             NEW r \in Rule
      PROVE  /\ InsertBefore(DelRule(chain, h), p, r) \in Seq(Rule)
             /\ AddAfter(DelRule(chain, h), p, r) \in Seq(Rule)
  BY <1>1, <1>5, KernelTypes
<1>6. CASE FlushMoveUp(o)
  <2>1. chain' \in Seq(Rule)
    BY <1>4, <1>5, <1>6 DEF FlushMoveUp
  <2> QED BY <2>1, <1>1, <1>2, <1>6 DEF FlushMoveUp, TakeHandle
<1>7. CASE FlushMoveDown(o)
  <2>1. chain' \in Seq(Rule)
    BY <1>4, <1>5, <1>7 DEF FlushMoveDown
  <2> QED BY <2>1, <1>1, <1>2, <1>7 DEF FlushMoveDown, TakeHandle
<1>8. CASE FlushAdd(o)
  <2>1. chain' \in Seq(Rule)
    BY <1>1, <1>8, NewRuleType, AppendProperties DEF FlushAdd
  <2> QED BY <2>1, <1>1, <1>2, <1>8 DEF FlushAdd, TakeHandle
<1>9. CASE FlushInsert(o)
  <2>1. chain' \in Seq(Rule)
    <3>1. InsertAt(chain, 1, NewRule(AcceptBody)) \in Seq(Rule)
      <4>1. 1 \in 1 .. Len(chain) + 1
        BY <1>1, LenProperties
      <4> QED BY <4>1, <1>1, NewRuleType, InsertAtFacts
    <3>2. \A p : Has(chain, p) => AddAfter(chain, p, NewRule(AcceptBody))
                                     \in Seq(Rule)
      BY <1>1, NewRuleType, KernelTypes
    <3> QED BY <3>1, <3>2, <1>9 DEF FlushInsert
  <2> QED BY <2>1, <1>1, <1>2, <1>9 DEF FlushInsert, TakeHandle
<1>10. CASE FlushApply(o)
  <2>1. ops[o].body \in Body
    BY <1>1 DEF Op
  <2>2. chain' \in Seq(Rule)
    <3>1. Append(chain, NewRule(ops[o].body)) \in Seq(Rule)
      BY <2>1, <1>1, NewRuleType, AppendProperties
    <3>2. Has(chain, ops[o].handle) =>
            Replace(chain, ops[o].handle, ops[o].body) \in Seq(Rule)
      BY <2>1, <1>1, KernelTypes
    <3> QED BY <3>1, <3>2, <1>10 DEF FlushApply
  <2> QED BY <2>2, <1>1, <1>2, <1>10 DEF FlushApply, TakeHandle
<1> QED BY <1>3, <1>6, <1>7, <1>8, <1>9, <1>10

(* The steps of a goroutine that write nothing. *)
LEMMA ReadType ==
  ASSUME TypeOK, NEW o \in Cmd,
         \/ Reread(o) \/ RereadGone(o) \/ RereadFails(o) \/ NowhereToGo(o)
         \/ ConnectFails(o) \/ FlushFails(o) \/ Relist(o) \/ RelistFails(o)
  PROVE  TypeOK'
<1>1. ops[o] \in Op /\ chain \in Seq(Rule)
  BY DEF TypeOK
<1>2. ASSUME NEW op \in Op, ops' = [ops EXCEPT ![o] = op],
             UNCHANGED <<chain, nextHandle, view, quiet, keys, outside>>
      PROVE  TypeOK'
  BY <1>2 DEF TypeOK
<1>3. CASE Reread(o)
  <2>1. Find(chain, ops[o].handle) \in Nat
    BY <1>1, <1>3, FindFacts DEF Reread
  <2>2. \A x \in Op, k \in Nat :
          [x EXCEPT !.pc = "flush", !.list = chain, !.idx = k] \in Op
    BY <1>1 DEF Op
  <2> QED BY <2>1, <2>2, <1>1, <1>2, <1>3 DEF Reread
<1>4. CASE FlushFails(o)
  <2>1. Append(ops[o].log, "error") \in Seq({"ok", "error"})
    <3>1. ops[o].log \in Seq({"ok", "error"})
      BY <1>1 DEF Op
    <3> QED BY <3>1, AppendProperties
  <2>2. \A x \in Op, l \in Seq({"ok", "error"}) :
          [x EXCEPT !.pc = "done", !.result = "error", !.log = l] \in Op
    BY DEF Op
  <2> QED BY <2>1, <2>2, <1>1, <1>2, <1>4 DEF FlushFails
<1>5. CASE Relist(o)
  <2>1. \A x \in Op, n \in Nat :
          [x EXCEPT !.pc = "done", !.result = "ok", !.opened = n] \in Op
    BY DEF Op
  <2> QED BY <2>1, <1>1, <1>2, <1>5, ReturnedType DEF Relist
<1>6. CASE RereadGone(o) \/ RereadFails(o) \/ NowhereToGo(o)
             \/ ConnectFails(o) \/ RelistFails(o)
  BY <1>6, FinishType
     DEF RereadGone, RereadFails, NowhereToGo, ConnectFails, RelistFails
<1> QED BY <1>3, <1>4, <1>5, <1>6

(* The message handlers and the other programs keep the types.             *)
LEMMA OtherType ==
  ASSUME TypeOK, (\E o \in Cmd : Deliver(o)) \/ RefreshRules \/ External
  PROVE  TypeOK'
<1>1. /\ chain \in Seq(Rule) /\ Len(chain) \in Nat
      /\ DOMAIN chain = 1 .. Len(chain)
  BY LenProperties DEF TypeOK
<1>2. ASSUME NEW o \in Cmd, Deliver(o) PROVE TypeOK'
  BY <1>2, IdleType DEF Deliver, TypeOK
<1>3. CASE RefreshRules
  BY <1>3 DEF RefreshRules, TypeOK
<1>4. CASE External
  <2>1. chain' \in Seq(Rule) /\ nextHandle' \in Nat \ {0}
    <3>1. CASE /\ \E i \in 1 .. Len(chain) + 1 :
                     chain' = InsertAt(chain, i, NewRule(AcceptBody))
               /\ TakeHandle
      BY <3>1, <1>1, NewRuleType, InsertAtFacts DEF TypeOK, TakeHandle
    <3>2. CASE /\ \E i \in DOMAIN chain : chain' = RemoveAt(chain, i)
               /\ UNCHANGED nextHandle
      BY <3>2, <1>1, RemoveAtFacts DEF TypeOK
    <3>3. CASE /\ \E i \in DOMAIN chain, b \in Body \ {AcceptBody} :
                     chain' = [chain EXCEPT ![i].body = b]
               /\ UNCHANGED nextHandle
      <4>1. PICK i \in DOMAIN chain, b \in Body :
              chain' = [chain EXCEPT ![i] = [chain[i] EXCEPT !.body = b]]
        BY <3>3
      <4>2. [chain[i] EXCEPT !.body = b] \in Rule
        <5>1. chain[i] \in Rule
          BY <1>1, ElementOfSeq
        <5> QED BY <5>1 DEF Rule
      <4> QED BY <4>1, <4>2, <3>3, <1>1, ExceptSeq DEF TypeOK
    <3> QED BY <3>1, <3>2, <3>3, <1>4 DEF External
  <2>2. outside' \in 0 .. MaxOutside
    BY <1>4, BoundAssumption DEF External, TypeOK
  <2> QED BY <2>1, <2>2, <1>4 DEF External, TypeOK
<1> QED BY <1>2, <1>3, <1>4

(* Every step keeps the types.                                             *)
LEMMA TypeStep == OpsInv /\ [Next]_vars => TypeOK'
<1> SUFFICES ASSUME OpsInv, [Next]_vars PROVE TypeOK'
  OBVIOUS
<1> USE DEF OpsInv, OpInv
<1>1. ASSUME NEW o \in Cmd, KeyPress(o) PROVE TypeOK'
  BY <1>1, StartType
<1>2. ASSUME NEW o \in Cmd, Goroutine(o) PROVE TypeOK'
  BY <1>2, FlushType, ReadType DEF Goroutine
<1>3. CASE UNCHANGED vars
  BY <1>3 DEF vars, TypeOK
<1> QED BY <1>1, <1>2, <1>3, OtherType DEF Next

(* Every action changes the record of at most one command. *)
LEMMA OneCommand ==
  ASSUME TypeOK, NEW o \in Cmd, KeyPress(o) \/ Goroutine(o) \/ Deliver(o),
         NEW p \in Cmd \ {o}
  PROVE  ops'[p] = ops[p]
<1>1. ASSUME NEW op, ops' = [ops EXCEPT ![o] = op] PROVE ops'[p] = ops[p]
  BY <1>1 DEF TypeOK
<1>2. CASE KeyPress(o)
  BY <1>2, <1>1 DEF KeyPress, StartDelete, StartMoveUp, StartMoveDown,
     StartMove, StartAdd, StartInsert, StartApply, Start
<1>3. ASSUME NEW pc, NEW made, Commit(o, pc, made) PROVE ops'[p] = ops[p]
  BY <1>3, <1>1 DEF Commit
<1>4. ASSUME NEW r, Finish(o, r) PROVE ops'[p] = ops[p]
  BY <1>4, <1>1 DEF Finish
<1>5. CASE Goroutine(o)
  BY <1>5, <1>1, <1>3, <1>4 DEF Goroutine, Reread, RereadGone, RereadFails,
     NowhereToGo, ConnectFails, FlushDelete, FlushMoveUp, FlushMoveDown,
     FlushAdd, FlushInsert, FlushApply, FlushFails, Relist, RelistFails
<1>6. CASE Deliver(o)
  BY <1>6, <1>1 DEF Deliver
<1> QED BY <1>2, <1>5, <1>6

(* A command that has not started satisfies what holds of every command.   *)
LEMMA IdleInv == OpInv(IdleOp)
BY DEF IdleOp, OpInv, Ready, Pending

(* A command that a key starts satisfies what holds of every command.      *)
LEMMA StartInv ==
  ASSUME OpsInv, NEW o \in Cmd, KeyPress(o)
  PROVE  OpInv(ops'[o])
<1>1. ASSUME NEW op, Start(o, op) PROVE ops'[o] = op
  BY <1>1 DEF Start, OpsInv, TypeOK
<1>2. CASE StartDelete(o)
  <2>1. PICK i \in DOMAIN view :
          Start(o, [IdleOp EXCEPT !.kind = "delete", !.pc = "reread",
                            !.handle = view[i].handle, !.id = view[i].id])
    BY <1>2 DEF StartDelete
  <2>2. ops'[o] = [IdleOp EXCEPT !.kind = "delete", !.pc = "reread",
                            !.handle = view[i].handle, !.id = view[i].id]
    BY <2>1, <1>1
  <2> QED BY <2>2 DEF IdleOp, OpInv, Ready, Pending
<1>3. ASSUME NEW kind \in {"up", "down"}, NEW last, StartMove(o, kind, last)
      PROVE  OpInv(ops'[o])
  <2>1. PICK i \in DOMAIN view :
          Start(o, [IdleOp EXCEPT !.kind = kind, !.pc = "reread",
                            !.handle = view[i].handle, !.id = view[i].id])
    BY <1>3 DEF StartMove
  <2>2. ops'[o] = [IdleOp EXCEPT !.kind = kind, !.pc = "reread",
                            !.handle = view[i].handle, !.id = view[i].id]
    BY <2>1, <1>1
  <2> QED BY <2>2, <1>3 DEF IdleOp, OpInv, Ready, Pending
<1>4. CASE StartAdd(o)
  BY <1>1, <1>4 DEF StartAdd, IdleOp, OpInv, Ready, Pending
<1>5. CASE StartInsert(o)
  <2>1. PICK i \in 1 .. (IF view = <<>> THEN 1 ELSE Len(view)) :
          Start(o, [IdleOp EXCEPT !.kind = "insert", !.pc = "flush",
                                  !.idx = i, !.list = view])
    BY <1>5 DEF StartInsert
  <2>2. ops'[o] = [IdleOp EXCEPT !.kind = "insert", !.pc = "flush",
                                 !.idx = i, !.list = view]
    BY <2>1, <1>1
  <2>3. i = 1 \/ i - 1 \in DOMAIN view
    <3>1. Len(view) \in Nat /\ DOMAIN view = 1 .. Len(view)
      BY LenProperties DEF OpsInv, TypeOK
    <3> QED BY <2>1, <3>1
  <2> QED BY <2>2, <2>3 DEF IdleOp, OpInv, Ready, Pending
<1>6. CASE StartApply(o)
  <2>1. PICK b, h, x :
          \/ Start(o, [IdleOp EXCEPT !.kind = "apply", !.pc = "flush",
                                     !.body = b, !.handle = h, !.id = x])
          \/ Start(o, [IdleOp EXCEPT !.kind = "apply", !.pc = "flush",
                                  !.body = b])
    BY <1>6 DEF StartApply
  <2>2. \/ ops'[o] = [IdleOp EXCEPT !.kind = "apply", !.pc = "flush",
                                    !.body = b, !.handle = h, !.id = x]
        \/ ops'[o] = [IdleOp EXCEPT !.kind = "apply", !.pc = "flush",
                                 !.body = b]
    BY <2>1, <1>1
  <2> QED BY <2>2 DEF IdleOp, OpInv, Ready, Pending
<1> QED BY <1>2, <1>3, <1>4, <1>5, <1>6 DEF KeyPress, StartMoveUp, StartMoveDown

(* What holds of every command survives each of its goroutine's steps.     *)
LEMMA GoroutineInv ==
  ASSUME OpsInv, NEW o \in Cmd, Goroutine(o)
  PROVE  OpInv(ops'[o])
<1>1. /\ ops[o] \in Op /\ OpInv(ops[o]) /\ chain \in Seq(Rule)
      /\ ops[o].pc \in PC
  BY DEF OpsInv, TypeOK, Op
<1>2. ASSUME NEW op, ops' = [ops EXCEPT ![o] = op] PROVE ops'[o] = op
  BY <1>2 DEF OpsInv, TypeOK
<1>3. ASSUME NEW r, Finish(o, r), ops[o].pc # "done", ops[o].pc # "idle",
             r = "ok" => ops[o].kind \notin {"delete", "apply"},
             ops[o].pc = "relist" => r = "error"
      PROVE  OpInv(ops'[o])
  <2>1. ops' = [ops EXCEPT ![o] = [ops[o] EXCEPT !.pc = "done", !.result = r]]
    BY <1>3 DEF Finish
  <2>2. /\ ops'[o].pc = "done" /\ ops'[o].result = r
        /\ ops'[o].took = ops[o].took /\ ops'[o].log = ops[o].log
        /\ ops'[o].kind = ops[o].kind
    <3>1. ops'[o] = [ops[o] EXCEPT !.pc = "done", !.result = r]
      BY <2>1, <1>2
    <3>2. ASSUME NEW x \in Op, NEW y, y = [x EXCEPT !.pc = "done", !.result = r]
          PROVE  /\ y.pc = "done" /\ y.result = r /\ y.took = x.took
                 /\ y.log = x.log /\ y.kind = x.kind
      BY <3>2 DEF Op
    <3> QED BY <3>1, <3>2, <1>1
  <2>3. CASE ops[o].pc = "relist"
    BY <2>2, <2>3, <1>1, <1>3 DEF OpInv, Ready, Ended
  <2>4. CASE ops[o].pc \in {"reread", "flush"}
    <3>1. ops[o].log = <<>> /\ ~ops[o].took
      BY <2>4, <1>1 DEF OpInv, Pending
    <3>2. Ended(ops'[o])
      BY <2>2, <3>1, <1>3 DEF Ended
    <3> QED BY <2>2, <3>2 DEF OpInv, Ready
  <2> QED BY <2>3, <2>4, <1>1, <1>3
<1>4. CASE Reread(o)
  <2> DEFINE k == Find(chain, ops[o].handle)
  <2>1. ops' = [ops EXCEPT ![o] = [ops[o] EXCEPT !.pc = "flush", !.list = chain,
                                                 !.idx = k]]
    BY <1>4 DEF Reread
  <2>2. k \in DOMAIN chain /\ chain[k].handle = ops[o].handle
    BY <1>1, <1>4, FindFacts DEF Reread
  <2> HIDE DEF k
  <2>3. /\ ops'[o].pc = "flush" /\ ops'[o].list = chain /\ ops'[o].idx = k
        /\ ops'[o].took = ops[o].took /\ ops'[o].log = ops[o].log
        /\ ops'[o].kind = ops[o].kind /\ ops'[o].handle = ops[o].handle
        /\ ops'[o].result = ops[o].result
    <3>1. ops'[o] = [ops[o] EXCEPT !.pc = "flush", !.list = chain, !.idx = k]
      BY <2>1, <1>2
    <3>2. ASSUME NEW x \in Op
          PROVE  LET y == [x EXCEPT !.pc = "flush", !.list = chain, !.idx = k]
                 IN  /\ y.pc = "flush" /\ y.list = chain /\ y.idx = k
                     /\ y.took = x.took /\ y.log = x.log /\ y.kind = x.kind
                     /\ y.handle = x.handle /\ y.result = x.result
      BY DEF Op
    <3> QED BY <3>1, <3>2, <1>1
  <2> QED BY <2>2, <2>3, <1>1, <1>4 DEF Reread, OpInv, Ready, Pending
<1>5. CASE RereadGone(o) \/ RereadFails(o) \/ NowhereToGo(o) \/ ConnectFails(o)
             \/ RelistFails(o)
  BY <1>5, <1>3 DEF RereadGone, RereadFails, NowhereToGo, ConnectFails,
     RelistFails, AtTheEnd
<1>6. ASSUME ops[o].pc = "flush", NEW pc \in {"relist", "done"}, NEW made,
             pc = "relist" <=> ops[o].kind \in Creating, Commit(o, pc, made)
      PROVE  OpInv(ops'[o])
  <2> DEFINE l == Append(ops[o].log, "ok")
             r == IF pc = "done" THEN "ok" ELSE "none"
  <2>1. ops' = [ops EXCEPT ![o] =
          [ops[o] EXCEPT !.pc = pc, !.made = made, !.took = TRUE,
                         !.log = l, !.result = r]]
    BY <1>6 DEF Commit
  <2>2. l = <<"ok">>
    <3>1. ops[o].log = <<>>
      BY <1>1, <1>6 DEF OpInv, Pending
    <3> QED BY <3>1
  <2> HIDE DEF l
  <2>3. /\ ops'[o].pc = pc /\ ops'[o].took = TRUE /\ ops'[o].log = l
        /\ ops'[o].result = r /\ ops'[o].kind = ops[o].kind
    <3>1. ops'[o] = [ops[o] EXCEPT !.pc = pc, !.made = made, !.took = TRUE,
                             !.log = l, !.result = r]
      BY <2>1, <1>2
    <3>2. ASSUME NEW x \in Op, NEW y,
                 y = [x EXCEPT !.pc = pc, !.made = made, !.took = TRUE,
                             !.log = l, !.result = r]
          PROVE  /\ y.pc = pc /\ y.took = TRUE /\ y.log = l
                 /\ y.result = r /\ y.kind = x.kind
      BY <3>2 DEF Op
    <3> QED BY <3>1, <3>2, <1>1
  <2> QED BY <2>2, <2>3, <1>6 DEF OpInv, Ready, Ended
<1>7. CASE \/ FlushDelete(o) \/ FlushMoveUp(o) \/ FlushMoveDown(o)
           \/ FlushAdd(o) \/ FlushInsert(o) \/ FlushApply(o)
  BY <1>7, <1>6 DEF FlushDelete, FlushMoveUp, FlushMoveDown, FlushAdd,
     FlushInsert, FlushApply
<1>8. CASE FlushFails(o)
  <2> DEFINE l == Append(ops[o].log, "error")
  <2>1. ops' = [ops EXCEPT ![o] = [ops[o] EXCEPT !.pc = "done",
                                     !.result = "error", !.log = l]]
    BY <1>8 DEF FlushFails
  <2>2. l = <<"error">> /\ ~ops[o].took
    <3>1. ops[o].log = <<>> /\ ~ops[o].took
      BY <1>1, <1>8 DEF FlushFails, OpInv, Pending
    <3> QED BY <3>1
  <2> HIDE DEF l
  <2>3. /\ ops'[o].pc = "done" /\ ops'[o].took = ops[o].took
        /\ ops'[o].log = l /\ ops'[o].result = "error"
        /\ ops'[o].kind = ops[o].kind
    <3>1. ops'[o] = [ops[o] EXCEPT !.pc = "done", !.result = "error", !.log = l]
      BY <2>1, <1>2
    <3>2. ASSUME NEW x \in Op, NEW y,
                 y = [x EXCEPT !.pc = "done", !.result = "error", !.log = l]
          PROVE  /\ y.pc = "done" /\ y.took = x.took /\ y.log = l
                 /\ y.result = "error" /\ y.kind = x.kind
      BY <3>2 DEF Op
    <3> QED BY <3>1, <3>2, <1>1
  <2> QED BY <2>2, <2>3 DEF OpInv, Ready, Ended
<1>9. CASE Relist(o)
  <2> DEFINE n == Returned(o, chain)
  <2>1. ops' = [ops EXCEPT ![o] = [ops[o] EXCEPT !.pc = "done",
                                     !.result = "ok", !.opened = n]]
    BY <1>9 DEF Relist
  <2> HIDE DEF n
  <2>2. /\ ops'[o].pc = "done" /\ ops'[o].took = ops[o].took
        /\ ops'[o].log = ops[o].log /\ ops'[o].result = "ok"
        /\ ops'[o].kind = ops[o].kind
    <3>1. ops'[o] = [ops[o] EXCEPT !.pc = "done", !.result = "ok", !.opened = n]
      BY <2>1, <1>2
    <3>2. ASSUME NEW x \in Op, NEW y,
                 y = [x EXCEPT !.pc = "done", !.result = "ok", !.opened = n]
          PROVE  /\ y.pc = "done" /\ y.took = x.took /\ y.log = x.log
                 /\ y.result = "ok" /\ y.kind = x.kind
      BY <3>2 DEF Op
    <3> QED BY <3>1, <3>2, <1>1
  <2> QED BY <2>2, <1>1, <1>9 DEF Relist, OpInv, Ready, Ended
<1> QED BY <1>4, <1>5, <1>7, <1>8, <1>9 DEF Goroutine

(* The invariant of the commands is inductive.                             *)
LEMMA OpsInvStep == OpsInv /\ [Next]_vars => OpsInv'
<1> SUFFICES ASSUME OpsInv, [Next]_vars PROVE OpsInv'
  OBVIOUS
<1>1. TypeOK'
  BY TypeStep
<1>2. ASSUME NEW p \in Cmd PROVE OpInv(ops'[p])
  <2>1. OpInv(ops[p])
    BY DEF OpsInv
  <2>2. ASSUME NEW o \in Cmd, KeyPress(o) \/ Goroutine(o) \/ Deliver(o)
        PROVE  OpInv(ops'[p])
    <3>1. CASE p # o
      BY <3>1, <2>1, <2>2, OneCommand DEF OpsInv
    <3>2. CASE p = o /\ Deliver(o)
      BY <3>2, IdleInv DEF Deliver, OpsInv, TypeOK
    <3>3. CASE p = o /\ (KeyPress(o) \/ Goroutine(o))
      BY <3>3, StartInv, GoroutineInv
    <3> QED BY <2>2, <3>1, <3>2, <3>3
  <2>3. CASE ops' = ops
    BY <2>1, <2>3
  <2> QED BY <2>2, <2>3 DEF Next, vars, RefreshRules, External
<1> QED BY <1>1, <1>2 DEF OpsInv

(* It holds initially.                                                     *)
LEMMA OpsInvInit == Init => OpsInv
<1> SUFFICES ASSUME Init PROVE OpsInv
  OBVIOUS
<1>1. \A o \in Cmd : ops[o] = IdleOp
  BY DEF Init
<1> QED BY <1>1, InitType, IdleInv DEF OpsInv

(* So it holds in every behaviour.                                         *)
LEMMA OpsInvariant == Spec => []OpsInv
BY OpsInvInit, OpsInvStep, PTL DEF Spec

(* Every reachable state is well typed, for any number of commands, rules, *)
(* handles and outside writers.                                            *)
THEOREM TypeCorrect == Spec => []TypeOK
<1>1. OpsInv => TypeOK
  BY DEF OpsInv
<1> QED BY <1>1, OpsInvariant, PTL

(* nft/audit.go: whatever the interleaving, a mutation that the kernel     *)
(* applied has one record and it says ok, one that it refused has one and  *)
(* it says error, and a command that sent nothing has none.                *)
THEOREM AuditCorrect == Spec => []AuditTellsTheTruth
<1>1. OpsInv => AuditTellsTheTruth
  <2> SUFFICES ASSUME OpsInv, NEW o \in Cmd
               PROVE  /\ ops[o].took => ops[o].log = <<"ok">>
                      /\ ~ops[o].took => ops[o].log \in {<<>>, <<"error">>}
                      /\ ops[o].log = <<"error">> => ops[o].result = "error"
    BY DEF AuditTellsTheTruth
  <2>1. OpInv(ops[o]) /\ ops[o].pc \in PC
    BY DEF OpsInv, TypeOK, Op
  <2> QED BY <2>1 DEF OpInv, Pending, Ended
<1> QED BY <1>1, OpsInvariant, PTL

(* DeleteRule, MoveRuleUp, MoveRuleDown and ApplyRuleChange return an      *)
(* error exactly when the chain was left alone.                            *)
THEOREM ErrorsAreHonest == Spec => []ErrorMeansNoEffect
<1>1. OpsInv => ErrorMeansNoEffect
  BY DEF OpsInv, OpInv, Ended, ErrorMeansNoEffect
<1> QED BY <1>1, OpsInvariant, PTL

-----------------------------------------------------------------------------
(* A handle names one rule for ever, and the chain never holds a rule      *)
(* twice: two invariants of RuleOps that rest on each other, since a move  *)
(* deletes by handle and puts back by content.  What follows from them:    *)
(* a move lands beside the neighbour it read, and a creation that nobody   *)
(* disturbs returns the rule it made.                                      *)

(* Somebody, somewhere, takes handle h for the rule x. *)
Mention(h, x) ==
  \/ \E s \in Lists : Holds(s, h, x)
  \/ \E o \in Cmd : ops[o].handle = h /\ ops[o].id = x
  \/ h = 0 /\ x = 0

Identified ==
  /\ \A h, x, y : Mention(h, x) /\ Mention(h, y) => x = y
  /\ \A h, x : Mention(h, x) => /\ h \in Nat /\ h < nextHandle
                                /\ x \in Nat /\ x < nextHandle
  /\ \A s \in Lists : \A x : ~Holds(s, 0, x)

IInv == OpsInv /\ Identified /\ Distinct(chain)

(* A rule that is rewritten in place keeps its handle and its identity.    *)
LEMMA ReplaceSame ==
  ASSUME NEW s \in Seq(Rule), NEW i \in DOMAIN s, NEW b
  PROVE  /\ \A h, x : Holds([s EXCEPT ![i].body = b], h, x) => Holds(s, h, x)
         /\ Distinct(s) => Distinct([s EXCEPT ![i].body = b])
<1> DEFINE t == [s EXCEPT ![i].body = b]
<1>1. s \in [DOMAIN s -> Rule]
  BY LenProperties
<1>2. /\ DOMAIN t = DOMAIN s
      /\ \A j \in DOMAIN s : t[j].id = s[j].id /\ t[j].handle = s[j].handle
  BY <1>1 DEF Rule
<1> HIDE DEF t
<1>3. /\ \A h, x : Holds(t, h, x) => Holds(s, h, x)
      /\ Distinct(s) => Distinct(t)
  BY <1>2 DEF Holds, Distinct
<1> QED BY <1>3 DEF t

-----------------------------------------------------------------------------
(* The next chain: its rules are the rules of the chain, and perhaps one   *)
(* under the kernel's next handle.                                         *)
Grown(x) == nextHandle' = nextHandle + 1 /\ x \in Nat /\ x <= nextHandle

GoodChain ==
  /\ \A h, x : Holds(chain', h, x) =>
        Holds(chain, h, x) \/ (h = nextHandle /\ Grown(x))
  /\ nextHandle' \in {nextHandle, nextHandle + 1}
  /\ Distinct(chain')

(* A new rule comes in at any place. *)
LEMMA GoodInsert ==
  ASSUME IInv, NEW i \in 1 .. Len(chain) + 1, NEW b \in Body,
         chain' = InsertAt(chain, i, NewRule(b)), TakeHandle
  PROVE  GoodChain
<1>1. chain \in Seq(Rule) /\ NewRule(b) \in Rule /\ nextHandle \in Nat
  BY NewRuleType DEF IInv, OpsInv, TypeOK
<1>2. NewRule(b).id = nextHandle /\ NewRule(b).handle = nextHandle
  BY DEF NewRule
<1>3. \A j \in DOMAIN chain : /\ chain[j].id # nextHandle
                              /\ chain[j].handle # nextHandle
  <2>1. ASSUME NEW j \in DOMAIN chain
        PROVE  chain[j].id < nextHandle /\ chain[j].handle < nextHandle
    <3>1. Mention(chain[j].handle, chain[j].id)
      BY DEF Mention, Lists, Holds
    <3> QED BY <3>1 DEF IInv, Identified
  <2> QED BY <2>1, <1>1
<1>4. Distinct(chain')
  BY <1>1, <1>2, <1>3, InsertDistinct DEF IInv
<1>5. \A h, x : Holds(chain', h, x) =>
        Holds(chain, h, x) \/ (h = nextHandle /\ x = nextHandle)
  BY <1>1, <1>2, InsertHolds
<1> QED BY <1>1, <1>4, <1>5 DEF GoodChain, Grown, TakeHandle

(* A rule goes out. *)
LEMMA GoodRemove ==
  ASSUME IInv, NEW i \in DOMAIN chain, chain' = RemoveAt(chain, i),
         UNCHANGED nextHandle
  PROVE  GoodChain
<1>1. chain \in Seq(Rule) /\ i \in 1 .. Len(chain)
  BY LenProperties DEF IInv, OpsInv, TypeOK
<1> QED BY <1>1, RemoveHolds, RemoveDistinct DEF GoodChain, IInv

(* A rule is rewritten where it stands. *)
LEMMA GoodReplace ==
  ASSUME IInv, NEW i \in DOMAIN chain, NEW b,
         chain' = [chain EXCEPT ![i].body = b], UNCHANGED nextHandle
  PROVE  GoodChain
<1>1. chain \in Seq(Rule)
  BY DEF IInv, OpsInv, TypeOK
<1> QED BY <1>1, ReplaceSame DEF GoodChain, IInv

(* A rule goes out by its handle and comes back, with the identity it had, *)
(* under the next handle: the two halves of a move.                        *)
LEMMA GoodMove ==
  ASSUME IInv, NEW h, Has(chain, h), NEW i, NEW r \in Rule,
         i \in 1 .. Len(DelRule(chain, h)) + 1,
         r.handle = nextHandle, Mention(h, r.id),
         chain' = InsertAt(DelRule(chain, h), i, r), TakeHandle
  PROVE  GoodChain
<1> DEFINE k == Find(chain, h)
           rest == DelRule(chain, h)
<1>1. /\ chain \in Seq(Rule) /\ nextHandle \in Nat
      /\ k \in 1 .. Len(chain) /\ k \in DOMAIN chain /\ chain[k].handle = h
      /\ rest \in Seq(Rule)
  <2>1. chain \in Seq(Rule) /\ nextHandle \in Nat
    BY DEF IInv, OpsInv, TypeOK
  <2>2. k \in 1 .. Len(chain) /\ k \in DOMAIN chain /\ chain[k].handle = h
    BY <2>1, FindFacts
  <2> QED BY <2>1, <2>2, KernelTypes
<1>2. rest = RemoveAt(chain, k)
  BY DEF DelRule
<1>3. chain[k].id = r.id
  <2>1. Mention(h, chain[k].id)
    BY <1>1 DEF Mention, Lists, Holds
  <2> QED BY <2>1 DEF IInv, Identified
<1> HIDE DEF k, rest
<1>4. /\ Distinct(rest)
      /\ \A j \in DOMAIN rest : rest[j].id # r.id
      /\ \A a, x : Holds(rest, a, x) => Holds(chain, a, x)
  BY <1>1, <1>2, <1>3, RemoveDistinct, RemoveHolds DEF IInv
<1>5. \A j \in DOMAIN rest : rest[j].handle # nextHandle
  <2>1. ASSUME NEW j \in DOMAIN rest PROVE rest[j].handle < nextHandle
    <3>1. Holds(rest, rest[j].handle, rest[j].id)
      BY DEF Holds
    <3>2. Mention(rest[j].handle, rest[j].id)
      BY <3>1, <1>4 DEF Mention, Lists
    <3> QED BY <3>2 DEF IInv, Identified
  <2> QED BY <2>1, <1>1
<1>6. i \in 1 .. Len(rest) + 1 /\ chain' = InsertAt(rest, i, r)
  BY DEF rest
<1>7. Distinct(chain')
  BY <1>1, <1>4, <1>5, <1>6, InsertDistinct
<1>8. \A a, x : Holds(chain', a, x) =>
        Holds(chain, a, x) \/ (a = nextHandle /\ x = r.id)
  BY <1>1, <1>4, <1>6, InsertHolds
<1>9. Grown(r.id)
  BY <1>1 DEF Grown, TakeHandle, IInv, Identified
<1> QED BY <1>1, <1>7, <1>8, <1>9 DEF GoodChain, TakeHandle

(* A step that leaves the chain alone leaves it good.                      *)
LEMMA SameChain ==
  ASSUME IInv, UNCHANGED <<chain, nextHandle>>
  PROVE  GoodChain
BY DEF GoodChain, IInv, Holds, Distinct

(* Every batch that the kernel applies leaves the chain good.              *)
LEMMA FlushChain ==
  ASSUME IInv, NEW o \in Cmd,
         \/ FlushDelete(o) \/ FlushMoveUp(o) \/ FlushMoveDown(o)
         \/ FlushAdd(o) \/ FlushInsert(o) \/ FlushApply(o)
  PROVE  GoodChain
<1>1. /\ chain \in Seq(Rule) /\ ops[o] \in Op /\ OpInv(ops[o])
      /\ Len(chain) \in Nat /\ DOMAIN chain = 1 .. Len(chain)
      /\ nextHandle \in Nat
  BY LenProperties DEF IInv, OpsInv, TypeOK
<1>2. ASSUME NEW s \in Seq(Rule), NEW h, Has(s, h)
      PROVE  /\ Find(s, h) \in DOMAIN s
             /\ Find(s, h) \in 1 .. Len(s) + 1
             /\ Find(s, h) + 1 \in 1 .. Len(s) + 1
  BY <1>2, FindFacts
<1>3. CASE FlushDelete(o)
  BY <1>1, <1>2, <1>3, GoodRemove DEF FlushDelete, DelRule
<1>4. ASSUME ops[o].pc = "flush", ops[o].kind \in {"up", "down"}
      PROVE  /\ Moved(o) \in Rule /\ Moved(o).handle = nextHandle
             /\ Mention(ops[o].handle, Moved(o).id)
  <2> DEFINE r == ops[o].list[ops[o].idx]
  <2>1. /\ ops[o].list \in Seq(Rule) /\ ops[o].idx \in DOMAIN ops[o].list
        /\ r.handle = ops[o].handle
    BY <1>1, <1>4 DEF Op, OpInv, Ready
  <2>2. r \in Rule
    BY <2>1, ElementOfSeq, LenProperties
  <2>3. Mention(r.handle, r.id)
    BY <2>1 DEF Mention, Lists, Holds
  <2> HIDE DEF r
  <2>4. Moved(o) = [r EXCEPT !.handle = nextHandle]
    BY DEF Moved, r
  <2>5. Moved(o) \in Rule /\ Moved(o).handle = nextHandle /\ Moved(o).id = r.id
    BY <2>2, <2>4, <1>1 DEF Rule
  <2> QED BY <2>1, <2>3, <2>5
<1>5. CASE FlushMoveUp(o)
  <2> DEFINE p    == ops[o].list[ops[o].idx - 1].handle
             rest == DelRule(chain, ops[o].handle)
  <2>1. /\ Has(chain, ops[o].handle) /\ Has(rest, p)
        /\ chain' = InsertAt(rest, Find(rest, p), Moved(o)) /\ TakeHandle
        /\ ops[o].pc = "flush" /\ ops[o].kind = "up"
    BY <1>5 DEF FlushMoveUp, InsertBefore
  <2>2. rest \in Seq(Rule)
    BY <2>1, <1>1, KernelTypes
  <2>3. Find(rest, p) \in 1 .. Len(rest) + 1
    BY <2>1, <2>2, <1>2
  <2> QED BY <2>1, <2>3, <1>4, GoodMove
<1>6. CASE FlushMoveDown(o)
  <2> DEFINE p    == ops[o].list[ops[o].idx + 1].handle
             rest == DelRule(chain, ops[o].handle)
  <2>1. /\ Has(chain, ops[o].handle) /\ Has(rest, p)
        /\ chain' = InsertAt(rest, Find(rest, p) + 1, Moved(o)) /\ TakeHandle
        /\ ops[o].pc = "flush" /\ ops[o].kind = "down"
    BY <1>6 DEF FlushMoveDown, AddAfter
  <2>2. rest \in Seq(Rule)
    BY <2>1, <1>1, KernelTypes
  <2>3. Find(rest, p) + 1 \in 1 .. Len(rest) + 1
    BY <2>1, <2>2, <1>2
  <2> QED BY <2>1, <2>3, <1>4, GoodMove
<1>7. \A b \in Body : NewRule(b) \in Rule
  BY NewRuleType DEF IInv, OpsInv
<1>8. ASSUME NEW b \in Body, chain' = Append(chain, NewRule(b)), TakeHandle
      PROVE  GoodChain
  BY <1>1, <1>7, <1>8, AppendIsInsert, GoodInsert
<1>9. CASE FlushAdd(o)
  BY <1>8, <1>9, BodyAssumption DEF FlushAdd
<1>10. CASE FlushInsert(o)
  <2>1. CASE ops[o].idx = 1
    <3>1. 1 \in 1 .. Len(chain) + 1
      BY <1>1
    <3> QED BY <2>1, <3>1, <1>10, GoodInsert, BodyAssumption DEF FlushInsert
  <2>2. CASE ops[o].idx # 1
    <3> DEFINE p == ops[o].list[ops[o].idx - 1].handle
    <3>1. /\ Has(chain, p) /\ TakeHandle
          /\ chain' = InsertAt(chain, Find(chain, p) + 1, NewRule(AcceptBody))
      BY <2>2, <1>10 DEF FlushInsert, AddAfter
    <3>2. Find(chain, p) + 1 \in 1 .. Len(chain) + 1
      BY <3>1, <1>1, <1>2
    <3> QED BY <3>1, <3>2, GoodInsert, BodyAssumption
  <2> QED BY <2>1, <2>2
<1>11. CASE FlushApply(o)
  <2>1. ops[o].body \in Body
    BY <1>1 DEF Op
  <2>2. CASE ops[o].handle = 0
    BY <2>1, <2>2, <1>8, <1>11 DEF FlushApply
  <2>3. CASE ops[o].handle # 0
    <3>1. /\ Has(chain, ops[o].handle) /\ UNCHANGED nextHandle
          /\ chain' = [chain EXCEPT ![Find(chain, ops[o].handle)].body
                                      = ops[o].body]
      BY <2>3, <1>11 DEF FlushApply, Replace
    <3>2. Find(chain, ops[o].handle) \in DOMAIN chain
      BY <3>1, <1>1, <1>2
    <3> QED BY <3>1, <3>2, GoodReplace
  <2> QED BY <2>2, <2>3
<1> QED BY <1>3, <1>5, <1>6, <1>9, <1>10, <1>11

(* Every step leaves the chain good.                                       *)
LEMMA ChainStep ==
  ASSUME IInv, [Next]_vars
  PROVE  GoodChain
<1>1. ASSUME NEW o \in Cmd, KeyPress(o) PROVE GoodChain
  BY <1>1, SameChain DEF KeyPress, StartDelete, StartMoveUp, StartMoveDown,
     StartMove, StartAdd, StartInsert, StartApply, Start
<1>2. ASSUME NEW o \in Cmd, Goroutine(o) PROVE GoodChain
  BY <1>2, SameChain, FlushChain DEF Goroutine, Reread, RereadGone,
     RereadFails, NowhereToGo, ConnectFails, FlushFails, Relist, RelistFails,
     Finish
<1>3. CASE External
  BY <1>3, GoodInsert, GoodRemove, GoodReplace, BodyAssumption DEF External
<1>4. CASE RefreshRules \/ UNCHANGED vars \/ \E o \in Cmd : Deliver(o)
  BY <1>4, SameChain DEF RefreshRules, vars, Deliver
<1> QED BY <1>1, <1>2, <1>3, <1>4 DEF Next

-----------------------------------------------------------------------------
(* A command only ever takes over what the view or the chain has.          *)
Known(h, x) == (h = 0 /\ x = 0) \/ Holds(view, h, x)

GoodOp(p) ==
  /\ ops'[p].list \in {ops[p].list, <<>>, chain, view}
  /\ \/ ops'[p].handle = ops[p].handle /\ ops'[p].id = ops[p].id
     \/ Known(ops'[p].handle, ops'[p].id)

(* A key press captures a rule of the view, or none, and no other list.    *)
LEMMA StartGoodOp ==
  ASSUME TypeOK, NEW o \in Cmd, KeyPress(o)
  PROVE  GoodOp(o)
<1>1. ASSUME NEW op, Start(o, op), op.list \in {<<>>, view},
             Known(op.handle, op.id)
      PROVE  GoodOp(o)
  <2>1. ops'[o] = op
    BY <1>1 DEF Start, TypeOK
  <2> QED BY <2>1, <1>1 DEF GoodOp
<1>2. \A i \in DOMAIN view : Known(view[i].handle, view[i].id)
  BY DEF Known, Holds
<1>3. CASE StartDelete(o)
  <2>1. PICK i \in DOMAIN view :
          Start(o, [IdleOp EXCEPT !.kind = "delete", !.pc = "reread",
                            !.handle = view[i].handle, !.id = view[i].id])
    BY <1>3 DEF StartDelete
  <2> QED BY <2>1, <1>1, <1>2 DEF IdleOp
<1>4. ASSUME NEW kind, NEW last, StartMove(o, kind, last) PROVE GoodOp(o)
  <2>1. PICK i \in DOMAIN view :
          Start(o, [IdleOp EXCEPT !.kind = kind, !.pc = "reread",
                            !.handle = view[i].handle, !.id = view[i].id])
    BY <1>4 DEF StartMove
  <2> QED BY <2>1, <1>1, <1>2 DEF IdleOp
<1>5. CASE StartAdd(o)
  BY <1>1, <1>5 DEF StartAdd, IdleOp, Known
<1>6. CASE StartInsert(o)
  <2>1. PICK i : Start(o, [IdleOp EXCEPT !.kind = "insert", !.pc = "flush",
                                         !.idx = i, !.list = view])
    BY <1>6 DEF StartInsert
  <2> QED BY <2>1, <1>1 DEF IdleOp, Known
<1>7. CASE StartApply(o)
  <2>1. PICK b \in Body :
          \/ \E i \in DOMAIN view :
               Start(o, [IdleOp EXCEPT !.kind = "apply", !.pc = "flush",
                                       !.body = b, !.handle = view[i].handle,
                                       !.id = view[i].id])
          \/ Start(o, [IdleOp EXCEPT !.kind = "apply", !.pc = "flush",
                                  !.body = b])
    BY <1>7 DEF StartApply
  <2>2. CASE Start(o, [IdleOp EXCEPT !.kind = "apply", !.pc = "flush",
                                     !.body = b])
    BY <2>2, <1>1 DEF IdleOp, Known
  <2>3. ASSUME NEW i \in DOMAIN view,
               Start(o, [IdleOp EXCEPT !.kind = "apply", !.pc = "flush",
                                       !.body = b, !.handle = view[i].handle,
                                       !.id = view[i].id])
        PROVE  GoodOp(o)
    BY <2>3, <1>1, <1>2 DEF IdleOp
  <2> QED BY <2>1, <2>2, <2>3
<1> QED BY <1>3, <1>4, <1>5, <1>6, <1>7 DEF KeyPress, StartMoveUp, StartMoveDown

(* A command stays on the rule it was started on, whatever it does.        *)
KeepsCommand(o) ==
  /\ ops'[o].kind = ops[o].kind
  /\ ops'[o].handle = ops[o].handle /\ ops'[o].id = ops[o].id
  /\ ops'[o].list \in {ops[o].list, chain}

(* A goroutine's steps keep what the key captured; the only list they take *)
(* is the chain.                                                           *)
LEMMA GoroutineKeepsCommand ==
  ASSUME TypeOK, NEW o \in Cmd, Goroutine(o)
  PROVE  KeepsCommand(o)
<1>1. ops[o] \in Op
  BY DEF TypeOK
<1>2. ASSUME NEW op, ops' = [ops EXCEPT ![o] = op], op.kind = ops[o].kind,
             op.handle = ops[o].handle, op.id = ops[o].id,
             op.list \in {ops[o].list, chain}
      PROVE  KeepsCommand(o)
  <2>1. ops'[o] = op
    BY <1>2 DEF TypeOK
  <2> QED BY <2>1, <1>2 DEF KeepsCommand
<1>3. ASSUME NEW r, Finish(o, r) PROVE KeepsCommand(o)
  <2>1. ops' = [ops EXCEPT ![o] = [ops[o] EXCEPT !.pc = "done", !.result = r]]
    BY <1>3 DEF Finish
  <2>2. ASSUME NEW x \in Op, NEW y, y = [x EXCEPT !.pc = "done", !.result = r]
        PROVE  /\ y.kind = x.kind /\ y.handle = x.handle
               /\ y.id = x.id /\ y.list = x.list
    BY <2>2 DEF Op
  <2> QED BY <2>1, <2>2, <1>1, <1>2
<1>4. ASSUME NEW pc, NEW made, Commit(o, pc, made) PROVE KeepsCommand(o)
  <2> DEFINE l == Append(ops[o].log, "ok")
             r == IF pc = "done" THEN "ok" ELSE "none"
  <2>1. ops' = [ops EXCEPT ![o] =
          [ops[o] EXCEPT !.pc = pc, !.made = made, !.took = TRUE,
                         !.log = l, !.result = r]]
    BY <1>4 DEF Commit
  <2> HIDE DEF l, r
  <2>2. ASSUME NEW x \in Op, NEW y,
               y = [x EXCEPT !.pc = pc, !.made = made, !.took = TRUE,
                             !.log = l, !.result = r]
        PROVE  /\ y.kind = x.kind /\ y.handle = x.handle
               /\ y.id = x.id /\ y.list = x.list
    BY <2>2 DEF Op
  <2> QED BY <2>1, <2>2, <1>1, <1>2
<1>5. CASE Reread(o)
  <2> DEFINE k == Find(chain, ops[o].handle)
  <2>1. ops' = [ops EXCEPT ![o] = [ops[o] EXCEPT !.pc = "flush", !.list = chain,
                                                 !.idx = k]]
    BY <1>5 DEF Reread
  <2> HIDE DEF k
  <2>2. ASSUME NEW x \in Op, NEW y,
               y = [x EXCEPT !.pc = "flush", !.list = chain, !.idx = k]
        PROVE  /\ y.kind = x.kind /\ y.handle = x.handle
               /\ y.id = x.id /\ y.list = chain
    BY <2>2 DEF Op
  <2> QED BY <2>1, <2>2, <1>1, <1>2
<1>6. CASE FlushFails(o)
  <2> DEFINE l == Append(ops[o].log, "error")
  <2>1. ops' = [ops EXCEPT ![o] = [ops[o] EXCEPT !.pc = "done",
                                     !.result = "error", !.log = l]]
    BY <1>6 DEF FlushFails
  <2> HIDE DEF l
  <2>2. ASSUME NEW x \in Op, NEW y,
               y = [x EXCEPT !.pc = "done", !.result = "error", !.log = l]
        PROVE  /\ y.kind = x.kind /\ y.handle = x.handle
               /\ y.id = x.id /\ y.list = x.list
    BY <2>2 DEF Op
  <2> QED BY <2>1, <2>2, <1>1, <1>2
<1>7. CASE Relist(o)
  <2> DEFINE n == Returned(o, chain)
  <2>1. ops' = [ops EXCEPT ![o] = [ops[o] EXCEPT !.pc = "done",
                                     !.result = "ok", !.opened = n]]
    BY <1>7 DEF Relist
  <2> HIDE DEF n
  <2>2. ASSUME NEW x \in Op, NEW y,
               y = [x EXCEPT !.pc = "done", !.result = "ok", !.opened = n]
        PROVE  /\ y.kind = x.kind /\ y.handle = x.handle
               /\ y.id = x.id /\ y.list = x.list
    BY <2>2 DEF Op
  <2> QED BY <2>1, <2>2, <1>1, <1>2
<1>8. CASE \/ FlushDelete(o) \/ FlushMoveUp(o) \/ FlushMoveDown(o)
           \/ FlushAdd(o) \/ FlushInsert(o) \/ FlushApply(o)
  BY <1>8, <1>4 DEF FlushDelete, FlushMoveUp, FlushMoveDown, FlushAdd,
     FlushInsert, FlushApply
<1> QED BY <1>3, <1>5, <1>6, <1>7, <1>8 DEF Goroutine, RereadGone, RereadFails,
        NowhereToGo, ConnectFails, RelistFails

(* In every step, a command keeps what it has or takes what the view and   *)
(* the chain show.                                                         *)
LEMMA OpStep ==
  ASSUME TypeOK, [Next]_vars, NEW p \in Cmd
  PROVE  GoodOp(p)
<1>1. ASSUME NEW o \in Cmd, KeyPress(o) \/ Goroutine(o) \/ Deliver(o)
      PROVE  GoodOp(p)
  <2>1. CASE p # o
    BY <1>1, <2>1, OneCommand DEF GoodOp
  <2>2. CASE p = o /\ Deliver(o)
    <3>1. ops'[p] = IdleOp
      BY <2>2 DEF Deliver, TypeOK
    <3> QED BY <3>1 DEF GoodOp, IdleOp, Known
  <2>3. CASE p = o /\ (KeyPress(o) \/ Goroutine(o))
    BY <2>3, StartGoodOp, GoroutineKeepsCommand DEF KeepsCommand, GoodOp
  <2> QED BY <1>1, <2>1, <2>2, <2>3
<1>2. CASE ops' = ops
  BY <1>2 DEF GoodOp
<1> QED BY <1>1, <1>2 DEF Next, vars, RefreshRules, External

(* The chain view changes only by listing the chain.                       *)
LEMMA ViewStep ==
  ASSUME [Next]_vars
  PROVE  view' \in {view, chain}
<1>1. ASSUME NEW o \in Cmd, KeyPress(o) PROVE view' = view
  BY <1>1 DEF KeyPress, StartDelete, StartMoveUp, StartMoveDown, StartMove,
     StartAdd, StartInsert, StartApply, Start
<1>2. ASSUME NEW o \in Cmd, Goroutine(o) PROVE view' = view
  BY <1>2 DEF Goroutine, Reread, RereadGone, RereadFails, NowhereToGo,
     ConnectFails, FlushDelete, FlushMoveUp, FlushMoveDown, FlushAdd,
     FlushInsert, FlushApply, FlushFails, Relist, RelistFails, Finish, Commit
<1> QED BY <1>1, <1>2 DEF Next, Deliver, RefreshRules, External, vars

(* The rules of the lists after a step were in a list before it, or they   *)
(* are the chain's new rule.                                               *)
Arrived(h, x) == h = nextHandle /\ Grown(x) /\ Holds(chain', h, x)

(* Every pair of a handle and an identity that a list mentions was         *)
(* mentioned before, or has just come into the chain.                      *)
LEMMA HoldsStep ==
  ASSUME IInv, [Next]_vars, NEW s \in Lists', NEW h, NEW x, Holds(s, h, x)
  PROVE  (\E t \in Lists : Holds(t, h, x)) \/ Arrived(h, x)
<1>1. CASE s = chain'
  <2>1. Holds(chain, h, x) \/ (h = nextHandle /\ Grown(x))
    BY <1>1, ChainStep DEF GoodChain
  <2> QED BY <2>1, <1>1 DEF Lists, Arrived
<1>2. CASE s = view'
  <2>1. s \in {view, chain}
    BY <1>2, ViewStep
  <2> QED BY <2>1 DEF Lists
<1>3. ASSUME NEW p \in Cmd, s = ops'[p].list
      PROVE  \E t \in Lists : Holds(t, h, x)
  <2>1. s \in {ops[p].list, <<>>, chain, view}
    BY <1>3, OpStep DEF GoodOp, IInv, OpsInv
  <2>2. ~Holds(<<>>, h, x)
    BY DEF Holds
  <2> QED BY <2>1, <2>2 DEF Lists
<1> QED BY <1>1, <1>2, <1>3 DEF Lists

(* Whoever takes a handle for a rule after a step did so before it, or     *)
(* takes the new handle for the rule that just got it.                     *)
LEMMA MentionStep ==
  ASSUME IInv, [Next]_vars, NEW h, NEW x, Mention(h, x)'
  PROVE  Mention(h, x) \/ Arrived(h, x)
<1>1. ASSUME NEW p \in Cmd, ops'[p].handle = h, ops'[p].id = x
      PROVE  Mention(h, x)
  <2>1. \/ ops[p].handle = h /\ ops[p].id = x
        \/ Known(h, x)
    BY <1>1, OpStep DEF GoodOp, IInv, OpsInv
  <2> QED BY <2>1 DEF Known, Mention, Lists
<1>2. \/ \E s \in Lists' : Holds(s, h, x)
      \/ \E p \in Cmd : ops'[p].handle = h /\ ops'[p].id = x
      \/ h = 0 /\ x = 0
  BY DEF Mention, Holds
<1> QED BY <1>1, <1>2, HoldsStep DEF Mention

(* Every step keeps handles and identities together.                       *)
LEMMA IdentifiedStep ==
  ASSUME IInv, [Next]_vars
  PROVE  Identified'
<1>1. /\ nextHandle \in Nat \ {0}
      /\ nextHandle' \in {nextHandle, nextHandle + 1}
      /\ Distinct(chain')
  BY ChainStep DEF GoodChain, IInv, OpsInv, TypeOK
<1>2. \A h, x : Mention(h, x) => h \in Nat /\ h < nextHandle
                                /\ x \in Nat /\ x < nextHandle
  BY DEF IInv, Identified
<1>3. ASSUME NEW h, NEW x, NEW y, Mention(h, x)', Mention(h, y)'
      PROVE  x = y
  <2>1. /\ Mention(h, x) \/ Arrived(h, x)
        /\ Mention(h, y) \/ Arrived(h, y)
    BY <1>3, MentionStep
  <2>2. CASE Mention(h, x) /\ Mention(h, y)
    BY <2>2 DEF IInv, Identified
  <2>3. CASE Arrived(h, x) /\ Arrived(h, y)
    BY <2>3, <1>1 DEF Arrived, Holds, Distinct
  <2>4. \A z : Mention(h, z) => ~(h = nextHandle)
    BY <1>1, <1>2
  <2> QED BY <2>1, <2>2, <2>3, <2>4 DEF Arrived
<1>4. ASSUME NEW h, NEW x, Mention(h, x)'
      PROVE  h \in Nat /\ h < nextHandle' /\ x \in Nat /\ x < nextHandle'
  <2>1. CASE Mention(h, x)
    BY <2>1, <1>1, <1>2
  <2>2. CASE Arrived(h, x)
    BY <2>2, <1>1 DEF Arrived, Grown
  <2> QED BY <2>1, <2>2, <1>4, MentionStep
<1>5. ASSUME NEW s \in Lists', NEW x PROVE ~Holds(s, 0, x)
  <2>1. ~Arrived(0, x)
    BY <1>1 DEF Arrived
  <2> QED BY <2>1, HoldsStep DEF IInv, Identified
<1>6. (\A h, x, y : Mention(h, x) /\ Mention(h, y) => x = y)'
  BY <1>3
<1>7. (\A h, x : Mention(h, x) => /\ h \in Nat /\ h < nextHandle
                                 /\ x \in Nat /\ x < nextHandle)'
  BY <1>4
<1>8. (\A s \in Lists : \A x : ~Holds(s, 0, x))'
  BY <1>5 DEF Holds
<1> QED BY <1>6, <1>7, <1>8 DEF Identified

(* The invariant holds initially.                                          *)
LEMMA IInvInit == Init => IInv
<1> SUFFICES ASSUME Init PROVE IInv
  OBVIOUS
<1>1. /\ InitLen \in Nat /\ nextHandle = InitLen + 1 /\ view = chain
      /\ \A o \in Cmd : ops[o] = IdleOp
      /\ chain = [i \in 1 .. InitLen |->
                   [handle |-> i, id |-> i, body |-> AcceptBody]]
  BY InitLenAssumption, HandleAssumption DEF Init
<1>2. \A s \in Lists : s = chain \/ s = <<>>
  BY <1>1 DEF Lists, IdleOp
<1>3. \A h, x : Holds(chain, h, x) => h = x /\ h \in 1 .. InitLen
  BY <1>1 DEF Holds
<1>4. \A s \in Lists : \A h, x : Holds(s, h, x) => h = x /\ h \in 1 .. InitLen
  <2>1. \A h, x : ~Holds(<<>>, h, x)
    BY DEF Holds
  <2> QED BY <2>1, <1>2, <1>3
<1>5. \A h, x : Mention(h, x) => h = x /\ h \in 0 .. InitLen
  BY <1>1, <1>4 DEF Mention, IdleOp
<1>6. Identified
  BY <1>1, <1>4, <1>5 DEF Identified
<1>7. Distinct(chain)
  BY <1>1 DEF Distinct
<1> QED BY <1>6, <1>7, OpsInvInit DEF IInv

(* It is inductive.                                                        *)
LEMMA IInvStep == IInv /\ [Next]_vars => IInv'
<1> SUFFICES ASSUME IInv, [Next]_vars PROVE IInv'
  OBVIOUS
<1>1. OpsInv'
  BY OpsInvStep DEF IInv
<1>2. Distinct(chain)'
  BY ChainStep DEF GoodChain, Distinct
<1> QED BY <1>1, <1>2, IdentifiedStep DEF IInv

(* So it holds in every behaviour.                                         *)
LEMMA IInvariant == Spec => []IInv
BY IInvInit, IInvStep, PTL DEF Spec

(* MoveRuleUp and MoveRuleDown delete a rule and put a copy of it back:    *)
(* whatever happens between their re-read and their flush, the chain never *)
(* has a rule twice.                                                       *)
THEOREM RulesStayUnique == Spec => []NoRuleTwice
<1>1. IInv => NoRuleTwice
  BY DEF IInv, Distinct, NoRuleTwice
<1> QED BY <1>1, IInvariant, PTL
-----------------------------------------------------------------------------
(* Moves.  Where a rule of a list without doubles stands is where CHOOSE   *)
(* finds its identity.                                                     *)
LEMMA PlaceOf ==
  ASSUME NEW s, Distinct(s), NEW i \in DOMAIN s, NEW x, s[i].id = x
  PROVE  (CHOOSE j \in DOMAIN s : s[j].id = x) = i
BY DEF Distinct

(* What each step of a goroutine leaves in the command's record.           *)
LEMMA FinishRecord ==
  ASSUME TypeOK, NEW o \in Cmd, NEW r, Finish(o, r)
  PROVE  /\ ops'[o].pc = "done" /\ ops'[o].result = r
         /\ ops'[o].kind = ops[o].kind /\ ops'[o].took = ops[o].took
<1>1. ASSUME NEW op, ops' = [ops EXCEPT ![o] = op] PROVE ops'[o] = op
  BY <1>1 DEF TypeOK
<1>2. ops' = [ops EXCEPT ![o] = [ops[o] EXCEPT !.pc = "done", !.result = r]]
  BY DEF Finish
<1>3. ops[o] \in Op
  BY DEF TypeOK
<1>4. ASSUME NEW x \in Op, NEW y,
             y = [x EXCEPT !.pc = "done", !.result = r]
      PROVE  /\ y.pc = "done" /\ y.result = r
             /\ y.kind = x.kind /\ y.took = x.took
  BY <1>4 DEF Op
<1> QED BY <1>1, <1>2, <1>3, <1>4

(* The re-read of a guarded command takes the list and the position.       *)
LEMMA RereadRecord ==
  ASSUME TypeOK, NEW o \in Cmd, Reread(o)
  PROVE  /\ ops'[o].pc = "flush"
         /\ ops'[o].kind = ops[o].kind /\ ops'[o].took = ops[o].took
<1> DEFINE k == Find(chain, ops[o].handle)
<1>1. ASSUME NEW op, ops' = [ops EXCEPT ![o] = op] PROVE ops'[o] = op
  BY <1>1 DEF TypeOK
<1>2. ops' = [ops EXCEPT ![o] = [ops[o] EXCEPT !.pc = "flush",
                                   !.list = chain, !.idx = k]]
  BY DEF Reread
<1> HIDE DEF k
<1>3. ops[o] \in Op
  BY DEF TypeOK
<1>4. ASSUME NEW x \in Op, NEW y,
             y = [x EXCEPT !.pc = "flush", !.list = chain, !.idx = k]
      PROVE  y.pc = "flush" /\ y.kind = x.kind /\ y.took = x.took
  BY <1>4 DEF Op
<1> QED BY <1>1, <1>2, <1>3, <1>4

(* A refused flush ends the command with an error.                         *)
LEMMA RefusedRecord ==
  ASSUME TypeOK, NEW o \in Cmd, FlushFails(o)
  PROVE  /\ ops'[o].pc = "done" /\ ops'[o].result = "error"
         /\ ops'[o].took = ops[o].took
<1> DEFINE l == Append(ops[o].log, "error")
<1>1. ASSUME NEW op, ops' = [ops EXCEPT ![o] = op] PROVE ops'[o] = op
  BY <1>1 DEF TypeOK
<1>2. ops' = [ops EXCEPT ![o] = [ops[o] EXCEPT !.pc = "done",
                                   !.result = "error", !.log = l]]
  BY DEF FlushFails
<1> HIDE DEF l
<1>3. ops[o] \in Op
  BY DEF TypeOK
<1>4. ASSUME NEW x \in Op, NEW y,
             y = [x EXCEPT !.pc = "done", !.result = "error", !.log = l]
      PROVE  y.pc = "done" /\ y.result = "error" /\ y.took = x.took
  BY <1>4 DEF Op
<1> QED BY <1>1, <1>2, <1>3, <1>4

(* The listing after a create ends the command with the rule it returns.   *)
LEMMA RelistRecord ==
  ASSUME TypeOK, NEW o \in Cmd, Relist(o)
  PROVE  /\ ops'[o].pc = "done" /\ ops'[o].opened = Returned(o, chain)
         /\ ops'[o].made = ops[o].made /\ ops'[o].took = ops[o].took
<1> DEFINE n == Returned(o, chain)
<1>1. ASSUME NEW op, ops' = [ops EXCEPT ![o] = op] PROVE ops'[o] = op
  BY <1>1 DEF TypeOK
<1>2. ops' = [ops EXCEPT ![o] = [ops[o] EXCEPT !.pc = "done",
                                   !.result = "ok", !.opened = n]]
  BY DEF Relist
<1> HIDE DEF n
<1>3. ops[o] \in Op
  BY DEF TypeOK
<1>4. ASSUME NEW x \in Op, NEW y,
             y = [x EXCEPT !.pc = "done", !.result = "ok", !.opened = n]
      PROVE  /\ y.pc = "done" /\ y.opened = n
             /\ y.made = x.made /\ y.took = x.took
  BY <1>4 DEF Op
<1> QED BY <1>1, <1>2, <1>3, <1>4 DEF n

(* A batch that the kernel applied.                                        *)
LEMMA CommitRecord ==
  ASSUME TypeOK, NEW o \in Cmd, NEW pc, NEW made, Commit(o, pc, made)
  PROVE  /\ ops'[o].pc = pc /\ ops'[o].made = made /\ ops'[o].took
         /\ ops'[o].kind = ops[o].kind /\ ops'[o].idx = ops[o].idx
<1> DEFINE l == Append(ops[o].log, "ok")
           r == IF pc = "done" THEN "ok" ELSE "none"
<1>1. ASSUME NEW op, ops' = [ops EXCEPT ![o] = op] PROVE ops'[o] = op
  BY <1>1 DEF TypeOK
<1>2. ops' = [ops EXCEPT ![o] =
         [ops[o] EXCEPT !.pc = pc, !.made = made, !.took = TRUE,
                        !.log = l, !.result = r]]
  BY DEF Commit
<1> HIDE DEF l, r
<1>3. ops[o] \in Op
  BY DEF TypeOK
<1>4. ASSUME NEW x \in Op, NEW y,
             y = [x EXCEPT !.pc = pc, !.made = made, !.took = TRUE,
                           !.log = l, !.result = r]
      PROVE  /\ y.pc = pc /\ y.made = made /\ y.took
             /\ y.kind = x.kind /\ y.idx = x.idx
  BY <1>4 DEF Op
<1> QED BY <1>1, <1>2, <1>3, <1>4

(* What a key press puts there.                                            *)
Asked(op) ==
  /\ op.pc \in {"reread", "flush"} /\ ~op.took
  /\ op.pc = "reread" => op.kind # "insert"
  /\ op.kind = "insert" =>
       /\ op.list = view
       /\ op.idx \in 1 .. (IF view = <<>> THEN 1 ELSE Len(view))

Started(o) ==
  /\ ops[o].pc = "idle" /\ chain' = chain
  /\ quiet' = IF view = chain THEN quiet \cup {o} ELSE quiet
  /\ \E op : Asked(op) /\ ops'[o] = op

(* A key press starts a command that has not yet taken effect.             *)
LEMMA StartRecord ==
  ASSUME TypeOK, NEW o \in Cmd, KeyPress(o)
  PROVE  Started(o)
<1>1. ASSUME NEW op, Start(o, op), Asked(op) PROVE Started(o)
  <2>1. ops'[o] = op
    BY <1>1 DEF Start, TypeOK
  <2> QED BY <2>1, <1>1 DEF Start, Started
<1>2. CASE StartDelete(o)
  <2> DEFINE op(i) == [IdleOp EXCEPT !.kind = "delete", !.pc = "reread",
                                     !.handle = view[i].handle,
                                     !.id = view[i].id]
  <2>1. PICK i : Start(o, op(i))
    BY <1>2 DEF StartDelete
  <2>2. Asked(op(i))
    BY DEF Asked, IdleOp
  <2> HIDE DEF op
  <2> QED BY <2>1, <2>2, <1>1
<1>3. ASSUME NEW kind \in {"up", "down"}, NEW last, StartMove(o, kind, last)
      PROVE  Started(o)
  <2> DEFINE op(i) == [IdleOp EXCEPT !.kind = kind, !.pc = "reread",
                                     !.handle = view[i].handle,
                                     !.id = view[i].id]
  <2>1. PICK i : Start(o, op(i))
    BY <1>3 DEF StartMove
  <2>2. Asked(op(i))
    BY DEF Asked, IdleOp
  <2> HIDE DEF op
  <2> QED BY <2>1, <2>2, <1>1
<1>4. CASE StartAdd(o)
  <2> DEFINE op == [IdleOp EXCEPT !.kind = "add", !.pc = "flush"]
  <2>1. Start(o, op)
    BY <1>4 DEF StartAdd
  <2>2. Asked(op)
    BY DEF Asked, IdleOp
  <2> HIDE DEF op
  <2> QED BY <2>1, <2>2, <1>1
<1>5. CASE StartInsert(o)
  <2> DEFINE op(i) == [IdleOp EXCEPT !.kind = "insert", !.pc = "flush",
                                     !.idx = i, !.list = view]
  <2>1. PICK i \in 1 .. (IF view = <<>> THEN 1 ELSE Len(view)) :
          Start(o, op(i))
    BY <1>5 DEF StartInsert
  <2>2. Asked(op(i))
    BY DEF Asked, IdleOp
  <2> HIDE DEF op
  <2> QED BY <2>1, <2>2, <1>1
<1>6. CASE StartApply(o)
  <2> DEFINE new(b)    == [IdleOp EXCEPT !.kind = "apply", !.pc = "flush",
                                         !.body = b]
             old(b, i) == [IdleOp EXCEPT !.kind = "apply", !.pc = "flush",
                                         !.body = b,
                                         !.handle = view[i].handle,
                                         !.id = view[i].id]
  <2>1. PICK b : Start(o, new(b)) \/ \E i : Start(o, old(b, i))
    BY <1>6 DEF StartApply
  <2>2. Asked(new(b)) /\ \A i : Asked(old(b, i))
    BY DEF Asked, IdleOp
  <2> HIDE DEF new, old
  <2> QED BY <2>1, <2>2, <1>1
<1> QED BY <1>2, <1>3, <1>4, <1>5, <1>6
        DEF KeyPress, StartMoveUp, StartMoveDown

(* Only its flush makes a move or an insert take effect.                   *)
LEMMA FlushTakes ==
  ASSUME TypeOK, [Next]_vars, NEW o \in Cmd,
         ops[o].kind \in {"up", "down", "insert"}, ~ops[o].took, ops'[o].took
  PROVE  FlushMoveUp(o) \/ FlushMoveDown(o) \/ FlushInsert(o)
<1>1. ~KeyPress(o)
  BY StartRecord DEF Started, Asked
<1>2. ~Deliver(o)
  <2>1. Deliver(o) => ops'[o] = IdleOp
    BY DEF Deliver, TypeOK
  <2> QED BY <2>1 DEF IdleOp
<1>3. \A r : ~Finish(o, r)
  BY FinishRecord
<1>4. ~Reread(o) /\ ~FlushFails(o) /\ ~Relist(o)
  BY RereadRecord, RefusedRecord, RelistRecord
<1>5. Goroutine(o) => FlushMoveUp(o) \/ FlushMoveDown(o) \/ FlushInsert(o)
  BY <1>3, <1>4 DEF Goroutine, RereadGone, RereadFails,
     NowhereToGo, ConnectFails, RelistFails, FlushDelete, FlushAdd,
     FlushApply
<1>6. ASSUME NEW p \in Cmd \ {o}
      PROVE  ~(KeyPress(p) \/ Goroutine(p) \/ Deliver(p))
  BY <1>6, OneCommand
<1> QED BY <1>1, <1>2, <1>5, <1>6 DEF Next, RefreshRules, External, vars

(* The neighbour that the command read stands, without the moved rule,     *)
(* where its handle is found; and the moved rule is the one that was read. *)
LEMMA MoveReads ==
  ASSUME IInv, NEW o \in Cmd, ops[o].pc = "flush",
         ops[o].kind \in {"up", "down"}, NEW n \in DOMAIN ops[o].list,
         Has(chain, ops[o].handle),
         Has(DelRule(chain, ops[o].handle), ops[o].list[n].handle)
  PROVE  LET rest == DelRule(chain, ops[o].handle)
             q    == Find(rest, ops[o].list[n].handle)
         IN  /\ rest \in Seq(Rule) /\ q \in 1 .. Len(rest)
             /\ Len(rest) \in Nat
             /\ rest[q].id = ops[o].list[n].id
             /\ Moved(o) \in Rule /\ Moved(o).id = ops[o].list[ops[o].idx].id
<1> DEFINE h    == ops[o].handle
           p    == ops[o].list[n].handle
           rest == DelRule(chain, h)
           q    == Find(rest, p)
<1>1. /\ chain \in Seq(Rule) /\ nextHandle \in Nat
      /\ ops[o].list \in Seq(Rule) /\ ops[o].idx \in DOMAIN ops[o].list
  BY DEF IInv, OpsInv, TypeOK, Op, OpInv, Ready
<1>2. rest \in Seq(Rule)
  BY <1>1, KernelTypes
<1>3. /\ Len(rest) \in Nat /\ DOMAIN rest = 1 .. Len(rest)
      /\ q \in 1 .. Len(rest) /\ rest[q].handle = p
  BY <1>2, FindFacts
<1>4. Holds(chain, p, rest[q].id)
  <2>1. Holds(rest, p, rest[q].id)
    BY <1>3 DEF Holds
  <2>2. /\ chain \in Seq(Rule) /\ Has(chain, h)
        /\ rest = RemoveAt(chain, Find(chain, h))
    BY <1>1 DEF DelRule
  <2> HIDE DEF q, p, h, rest
  <2>3. Find(chain, h) \in 1 .. Len(chain)
    BY <2>2, FindFacts
  <2> QED BY <2>1, <2>2, <2>3, <1>1, RemoveHolds
<1>5. Mention(p, rest[q].id) /\ Mention(p, ops[o].list[n].id)
  BY <1>4 DEF Mention, Lists, Holds
<1>6. rest[q].id = ops[o].list[n].id
  BY <1>5 DEF IInv, Identified
<1>7. Moved(o) \in Rule /\ Moved(o).id = ops[o].list[ops[o].idx].id
  <2>1. ops[o].list[ops[o].idx] \in Rule
    BY <1>1, ElementOfSeq, LenProperties
  <2>2. \A x \in Rule : /\ [x EXCEPT !.handle = nextHandle] \in Rule
                        /\ [x EXCEPT !.handle = nextHandle].id = x.id
    BY <1>1 DEF Rule
  <2> QED BY <2>1, <2>2 DEF Moved
<1> QED BY <1>2, <1>3, <1>6, <1>7

(* MoveRuleUp and MoveRuleDown place the rule relative to the handle of    *)
(* the neighbour they read: whatever the other commands and the other      *)
(* programs did since, a move that the kernel applies puts the rule right  *)
(* beside that neighbour, on the side it was to go to.                     *)
THEOREM MovesLandBeside == Spec => MoveLandsBesideNeighbour
<1> DEFINE Beside == \A o \in Cmd :
             ops[o].kind \in {"up", "down"} /\ ~ops[o].took /\ ops'[o].took
               => BesideNeighbour(o)
<1>1. ASSUME IInv, [Next]_vars, NEW o \in Cmd,
             ops[o].kind \in {"up", "down"}, ~ops[o].took, ops'[o].took
      PROVE  BesideNeighbour(o)
  <2> DEFINE l    == ops[o].list
             k    == ops[o].idx
             rest == DelRule(chain, ops[o].handle)
  <2>1. /\ FlushMoveUp(o) \/ FlushMoveDown(o)
        /\ ops[o].pc = "flush" /\ Has(chain, ops[o].handle)
        /\ Distinct(chain')
    BY <1>1, FlushTakes, ChainStep
       DEF FlushMoveUp, FlushMoveDown, FlushInsert, GoodChain, IInv, OpsInv
  <2>2. /\ l \in Seq(Rule) /\ Len(l) \in Nat /\ DOMAIN l = 1 .. Len(l)
        /\ k \in DOMAIN l
    <3>1. l \in Seq(Rule) /\ k \in DOMAIN l
      BY <1>1, <2>1 DEF IInv, OpsInv, TypeOK, Op, OpInv, Ready
    <3> QED BY <3>1, LenProperties
  <2>3. CASE FlushMoveUp(o)
    <3> DEFINE q == Find(rest, l[k - 1].handle)
    <3>1. /\ k - 1 \in DOMAIN l /\ Has(rest, l[k - 1].handle)
          /\ chain' = InsertAt(rest, q, Moved(o)) /\ ops[o].kind = "up"
      BY <2>2, <2>3 DEF FlushMoveUp, InsertBefore
    <3>2. /\ rest \in Seq(Rule) /\ Len(rest) \in Nat /\ q \in 1 .. Len(rest)
          /\ rest[q].id = l[k - 1].id
          /\ Moved(o) \in Rule /\ Moved(o).id = l[k].id
      BY <1>1, <2>1, <3>1, MoveReads
    <3> HIDE DEF q, rest, l, k
    <3>3. /\ DOMAIN chain' = 1 .. Len(rest) + 1
          /\ chain'[q] = Moved(o) /\ chain'[q + 1] = rest[q]
          /\ q \in DOMAIN chain' /\ q + 1 \in DOMAIN chain'
      <4>1. q \in 1 .. Len(rest) + 1 /\ q + 1 \in 1 .. Len(rest) + 1
        BY <3>2
      <4>2. /\ chain' \in Seq(Rule) /\ Len(chain') = Len(rest) + 1
            /\ \A j \in 1 .. Len(rest) + 1 :
                 chain'[j] = IF j < q THEN rest[j]
                             ELSE IF j = q THEN Moved(o) ELSE rest[j - 1]
        <5> DEFINE t == InsertAt(rest, q, Moved(o))
        <5>1. /\ t \in Seq(Rule) /\ Len(t) = Len(rest) + 1
              /\ \A j \in 1 .. Len(rest) + 1 :
                   t[j] = IF j < q THEN rest[j]
                          ELSE IF j = q THEN Moved(o) ELSE rest[j - 1]
          <6>1. Inserted(Rule, rest, q, Moved(o), t)
            BY <3>2, <4>1, InsertAtInserts
          <6> HIDE DEF t
          <6> QED BY <6>1 DEF Inserted
        <5>2. chain' = t
          BY <3>1
        <5> HIDE DEF t
        <5> QED BY <5>1, <5>2
      <4>3. DOMAIN chain' = 1 .. Len(rest) + 1
        BY <4>2, LenProperties
      <4>4. (q + 1) - 1 = q /\ ~(q < q) /\ ~(q + 1 < q) /\ q + 1 # q
        BY <3>2
      <4> QED BY <4>1, <4>2, <4>3, <4>4
    <3>4. /\ (CHOOSE i \in DOMAIN chain' : chain'[i].id = l[k].id) = q
          /\ (CHOOSE i \in DOMAIN chain' : chain'[i].id = l[k - 1].id) = q + 1
      <4> DEFINE a == q + 1
                 x == l[k].id
                 y == l[k - 1].id
      <4>1. /\ q \in DOMAIN chain' /\ chain'[q].id = x
            /\ a \in DOMAIN chain' /\ chain'[a].id = y
        BY <3>2, <3>3
      <4> HIDE DEF a, x, y
      <4>2. /\ (CHOOSE i \in DOMAIN chain' : chain'[i].id = x) = q
            /\ (CHOOSE i \in DOMAIN chain' : chain'[i].id = y) = a
        BY <2>1, <4>1, PlaceOf
      <4> QED BY <4>2 DEF a, x, y
    <3>5. q = (q + 1) - 1
      BY <3>2
    <3>6. l[k - 1].id \in {chain'[i].id : i \in DOMAIN chain'}
      BY <3>2, <3>3
    <3> QED BY <3>1, <3>4, <3>5, <3>6 DEF BesideNeighbour, l, k
  <2>4. CASE FlushMoveDown(o)
    <3> DEFINE q == Find(rest, l[k + 1].handle)
    <3>1. /\ k + 1 \in DOMAIN l /\ Has(rest, l[k + 1].handle)
          /\ chain' = InsertAt(rest, q + 1, Moved(o)) /\ ops[o].kind = "down"
      BY <2>2, <2>4 DEF FlushMoveDown, AddAfter
    <3>2. /\ rest \in Seq(Rule) /\ Len(rest) \in Nat /\ q \in 1 .. Len(rest)
          /\ rest[q].id = l[k + 1].id
          /\ Moved(o) \in Rule /\ Moved(o).id = l[k].id
      BY <1>1, <2>1, <3>1, MoveReads
    <3> HIDE DEF q, rest, l, k
    <3>3. /\ DOMAIN chain' = 1 .. Len(rest) + 1
          /\ chain'[q] = rest[q] /\ chain'[q + 1] = Moved(o)
          /\ q \in DOMAIN chain' /\ q + 1 \in DOMAIN chain'
      <4>1. q \in 1 .. Len(rest) + 1 /\ q + 1 \in 1 .. Len(rest) + 1
        BY <3>2
      <4>2. /\ chain' \in Seq(Rule) /\ Len(chain') = Len(rest) + 1
            /\ \A j \in 1 .. Len(rest) + 1 :
                 chain'[j] = IF j < q + 1 THEN rest[j]
                             ELSE IF j = q + 1 THEN Moved(o) ELSE rest[j - 1]
        <5> DEFINE z == q + 1
                   t == InsertAt(rest, z, Moved(o))
        <5>1. z \in 1 .. Len(rest) + 1
          BY <4>1
        <5> HIDE DEF z
        <5>2. /\ t \in Seq(Rule) /\ Len(t) = Len(rest) + 1
              /\ \A j \in 1 .. Len(rest) + 1 :
                   t[j] = IF j < z THEN rest[j]
                          ELSE IF j = z THEN Moved(o) ELSE rest[j - 1]
          BY <3>2, <5>1, InsertAtFacts
        <5>3. chain' = t
          BY <3>1 DEF z
        <5> HIDE DEF t
        <5> QED BY <5>2, <5>3 DEF z
      <4>3. DOMAIN chain' = 1 .. Len(rest) + 1
        BY <4>2, LenProperties
      <4>4. q < q + 1 /\ ~(q + 1 < q + 1)
        BY <3>2
      <4> QED BY <4>1, <4>2, <4>3, <4>4
    <3>4. /\ (CHOOSE i \in DOMAIN chain' : chain'[i].id = l[k].id) = q + 1
          /\ (CHOOSE i \in DOMAIN chain' : chain'[i].id = l[k + 1].id) = q
      BY <2>1, <3>2, <3>3, PlaceOf
    <3> QED BY <3>1, <3>2, <3>3, <3>4 DEF BesideNeighbour, l, k
  <2> QED BY <2>1, <2>3, <2>4
<1>2. IInv /\ [Next]_vars => [Beside]_vars
  BY <1>1
<1>3. []IInv /\ [][Next]_vars => [][Beside]_vars
  BY <1>2, PTL
<1> QED BY <1>3, IInvariant, PTL DEF Spec, MoveLandsBesideNeighbour

(* InsertNewRuleBefore names its predecessor by a handle from a list that  *)
(* nothing re-reads.  However old the list is, and whatever the other      *)
(* commands and programs did since, an insert that the kernel applies puts *)
(* the new rule right behind the rule that was listed there.               *)
THEOREM InsertsLandBehind == Spec => InsertLandsBehindListed
<1> DEFINE Behind == \A o \in Cmd :
             ops[o].kind = "insert" /\ ~ops[o].took /\ ops'[o].took
               => BehindListed(o)
<1>1. ASSUME IInv, [Next]_vars, NEW o \in Cmd, ops[o].kind = "insert",
             ~ops[o].took, ops'[o].took
      PROVE  BehindListed(o)
  <2> DEFINE l == ops[o].list
             k == ops[o].idx
             r == NewRule(AcceptBody)
             q == Find(chain, l[k - 1].handle)
             z == IF k = 1 THEN 1 ELSE q + 1
  <2>1. /\ FlushInsert(o) /\ ops[o].pc = "flush" /\ Distinct(chain')
        /\ ops'[o].made = nextHandle
    <3>1. TypeOK
      BY <1>1 DEF IInv, OpsInv
    <3>2. FlushInsert(o)
      BY <1>1, <3>1, FlushTakes DEF FlushMoveUp, FlushMoveDown
    <3>3. ops'[o].made = nextHandle
      BY <3>1, <3>2, CommitRecord DEF FlushInsert
    <3> QED BY <1>1, <3>2, <3>3, ChainStep DEF FlushInsert, GoodChain
  <2>2. /\ chain \in Seq(Rule) /\ Len(chain) \in Nat
        /\ DOMAIN chain = 1 .. Len(chain)
        /\ k = 1 \/ k - 1 \in DOMAIN l
        /\ r \in Rule /\ r.id = nextHandle
    <3>1. chain \in Seq(Rule) /\ nextHandle \in Nat
      BY <1>1 DEF IInv, OpsInv, TypeOK
    <3>2. k = 1 \/ k - 1 \in DOMAIN l
      BY <1>1, <2>1 DEF IInv, OpsInv, OpInv, Ready
    <3>3. r \in Rule /\ r.id = nextHandle
      BY <3>1, BodyAssumption DEF NewRule, Rule
    <3> QED BY <3>1, <3>2, <3>3, LenProperties
  <2>3. /\ chain' = InsertAt(chain, z, r)
        /\ k # 1 => Has(chain, l[k - 1].handle)
    BY <2>1 DEF FlushInsert, AddAfter
  <2>4. k # 1 => q \in DOMAIN chain /\ chain[q].id = l[k - 1].id
    <3>1. CASE k # 1
      <4>1. q \in DOMAIN chain /\ chain[q].handle = l[k - 1].handle
        BY <3>1, <2>2, <2>3, FindFacts
      <4> HIDE DEF q
      <4>2. /\ Mention(l[k - 1].handle, chain[q].id)
            /\ Mention(l[k - 1].handle, l[k - 1].id)
        <5>1. Mention(l[k - 1].handle, chain[q].id)
          BY <4>1 DEF Mention, Lists, Holds
        <5>2. l \in Lists /\ k - 1 \in DOMAIN l
          BY <3>1, <2>2 DEF Lists
        <5>3. Mention(l[k - 1].handle, l[k - 1].id)
          <6> HIDE DEF l, k
          <6> QED BY <5>2 DEF Mention, Holds
        <5> QED BY <5>1, <5>3
      <4> QED BY <4>1, <4>2, <1>1 DEF IInv, Identified
    <3> HIDE DEF q, k
    <3> QED BY <3>1
  <2> HIDE DEF q, r, l, k
  <2>5. z \in 1 .. Len(chain) + 1 /\ (k = 1 => z = 1) /\ (k # 1 => z = q + 1)
    BY <2>2, <2>4
  <2> HIDE DEF z
  <2>6. /\ z \in DOMAIN chain' /\ chain'[z] = r
        /\ k # 1 => z > 1 /\ z - 1 = q /\ chain'[z - 1] = chain[q]
    <3> DEFINE t == InsertAt(chain, z, r)
    <3>1. /\ t \in Seq(Rule) /\ Len(t) = Len(chain) + 1
          /\ \A j \in 1 .. Len(chain) + 1 :
               t[j] = IF j < z THEN chain[j]
                      ELSE IF j = z THEN r ELSE chain[j - 1]
      BY <2>2, <2>5, InsertAtFacts
    <3>2. chain' = t
      BY <2>3
    <3> HIDE DEF t
    <3>3. DOMAIN t = 1 .. Len(chain) + 1
      BY <3>1, LenProperties
    <3>4. t[z] = r
      BY <3>1, <2>2, <2>5
    <3>5. k # 1 => q \in 1 .. Len(chain) + 1 /\ q < z /\ z > 1 /\ z - 1 = q
      BY <2>2, <2>4, <2>5
    <3>6. k # 1 => t[q] = chain[q]
      BY <3>1, <3>5
    <3> QED BY <3>2, <3>3, <3>4, <3>5, <3>6, <2>5
  <2>7. (CHOOSE i \in DOMAIN chain' : chain'[i].id = nextHandle) = z
    BY <2>1, <2>2, <2>6, PlaceOf
  <2>8. IF k = 1 THEN z = 1 ELSE z > 1 /\ chain'[z - 1].id = l[k - 1].id
    BY <2>4, <2>5, <2>6
  <2> QED BY <2>1, <2>7, <2>8 DEF BehindListed, l, k
<1>2. IInv /\ [Next]_vars => [Behind]_vars
  BY <1>1
<1>3. []IInv /\ [][Next]_vars => [][Behind]_vars
  BY <1>2, PTL
<1> QED BY <1>3, IInvariant, PTL DEF Spec, InsertLandsBehindListed

-----------------------------------------------------------------------------
(* Creations.  What a command that nobody disturbed knows of the chain c:  *)
(* an insert still has the right list when it flushes, and the new rule    *)
(* stands where the listing after the flush will look for it.              *)
Untouched(op, c) ==
  /\ op.pc # "idle"
  /\ op.pc = "reread" => op.kind # "insert"
  /\ op.pc = "flush" /\ op.kind = "insert" =>
       op.list = c /\ (op.idx = 1 \/ op.idx - 1 \in DOMAIN c)
  /\ op.pc = "relist" =>
       LET i == IF op.kind = "insert" THEN op.idx ELSE Len(c)
       IN  i \in DOMAIN c /\ c[i].id = op.made
  /\ op.pc = "done" /\ op.result = "ok" /\ op.kind \in Creating
       => op.opened = op.made

QuietInv == \A o \in quiet : Untouched(ops[o], chain)

(* A key press that finds the view up to date starts undisturbed.          *)
LEMMA KeyPressQuiet ==
  ASSUME IInv, QuietInv, NEW p \in Cmd, KeyPress(p), NEW o \in quiet'
  PROVE  Untouched(ops'[o], chain')
<1>1. Started(p) /\ chain \in Seq(Rule)
  BY StartRecord DEF IInv, OpsInv, TypeOK
<1>2. CASE o # p
  <2>1. ops'[o] = ops[o] /\ chain' = chain /\ o \in quiet
    BY <1>1, <1>2, OneCommand DEF IInv, OpsInv, TypeOK, Started
  <2> QED BY <2>1 DEF QuietInv
<1>3. CASE o = p
  <2>1. view = chain
    <3>1. o \notin quiet
      BY <1>1, <1>3 DEF Started, QuietInv, Untouched
    <3> QED BY <3>1, <1>1 DEF Started
  <2>2. PICK op : Asked(op) /\ ops'[o] = op
    BY <1>1, <1>3 DEF Started
  <2>3. op.kind = "insert" => op.idx = 1 \/ op.idx - 1 \in DOMAIN chain
    <3>1. /\ Len(chain) \in Nat /\ DOMAIN chain = 1 .. Len(chain)
      BY <1>1, LenProperties
    <3> QED BY <3>1, <2>1, <2>2 DEF Asked
  <2> QED BY <2>1, <2>2, <2>3, <1>1 DEF Asked, Started, Untouched
<1> QED BY <1>2, <1>3

(* A rule put into a list at k stands at k.                                *)
LEMMA RuleInserted ==
  ASSUME NEW s \in Seq(Rule), NEW r \in Rule, NEW k \in 1 .. Len(s) + 1
  PROVE  /\ Len(InsertAt(s, k, r)) = Len(s) + 1
         /\ DOMAIN InsertAt(s, k, r) = 1 .. Len(s) + 1
         /\ InsertAt(s, k, r)[k] = r
<1> DEFINE t == InsertAt(s, k, r)
<1>1. /\ t \in Seq(Rule) /\ Len(t) = Len(s) + 1
      /\ \A j \in 1 .. Len(s) + 1 :
           t[j] = IF j < k THEN s[j] ELSE IF j = k THEN r ELSE s[j - 1]
  BY InsertAtFacts
<1>2. ~(k < k)
  BY LenProperties
<1> HIDE DEF t
<1>3. DOMAIN t = 1 .. Len(t) /\ t[k] = r
  BY <1>1, <1>2, LenProperties
<1> QED BY <1>1, <1>3 DEF t

(* The kernel puts the new rule of an undisturbed insert at the position   *)
(* the user chose, and that of an add at the end.                          *)
LEMMA CreateQuiet ==
  ASSUME IInv, NEW o \in Cmd, Untouched(ops[o], chain),
         FlushAdd(o) \/ FlushInsert(o)
  PROVE  Untouched(ops'[o], chain')
<1>1. /\ chain \in Seq(Rule) /\ Len(chain) \in Nat
      /\ DOMAIN chain = 1 .. Len(chain)
      /\ NewRule(AcceptBody) \in Rule /\ NewRule(AcceptBody).id = nextHandle
      /\ TypeOK
  BY NewRuleType, LenProperties DEF IInv, OpsInv, TypeOK, NewRule
<1>2. ASSUME NEW k \in 1 .. Len(chain) + 1,
             chain' = InsertAt(chain, k, NewRule(AcceptBody))
      PROVE  /\ k \in DOMAIN chain' /\ chain'[k].id = nextHandle
             /\ Len(chain') = Len(chain) + 1
  BY <1>1, <1>2, RuleInserted
<1>3. /\ Commit(o, "relist", nextHandle)
      /\ ops[o].pc = "flush" /\ ops[o].kind \in {"add", "insert"}
  BY DEF FlushAdd, FlushInsert
<1>4. /\ ops'[o].pc = "relist" /\ ops'[o].made = nextHandle
      /\ ops'[o].kind = ops[o].kind /\ ops'[o].idx = ops[o].idx
  BY <1>1, <1>3, CommitRecord
<1>5. CASE FlushAdd(o)
  <2>1. /\ chain' = InsertAt(chain, Len(chain) + 1, NewRule(AcceptBody))
        /\ Len(chain) + 1 \in 1 .. Len(chain) + 1 /\ ops[o].kind = "add"
    BY <1>1, <1>5, AppendIsInsert DEF FlushAdd
  <2>2. Len(chain') \in DOMAIN chain' /\ chain'[Len(chain')].id = nextHandle
    BY <2>1, <1>2
  <2> QED BY <2>1, <2>2, <1>4 DEF Untouched
<1>6. CASE FlushInsert(o)
  <2>1. ops[o].kind = "insert" /\ ops[o].list = chain
    BY <1>3, <1>6 DEF FlushInsert, Untouched
  <2>2. /\ ops[o].idx \in 1 .. Len(chain) + 1
        /\ chain' = InsertAt(chain, ops[o].idx, NewRule(AcceptBody))
    <3>1. CASE ops[o].idx = 1
      BY <3>1, <1>1, <1>6 DEF FlushInsert
    <3>2. CASE ops[o].idx # 1
      <4> DEFINE n == ops[o].idx - 1
                 p == chain[n].handle
      <4>1. /\ n \in DOMAIN chain /\ ops[o].idx = n + 1
            /\ n + 1 \in 1 .. Len(chain) + 1
        <5>1. ops[o].idx \in Nat /\ n \in DOMAIN chain
          BY <2>1, <3>2, <1>1, <1>3 DEF Untouched, TypeOK, Op
        <5> QED BY <5>1, <1>1
      <4>2. /\ Has(chain, p)
            /\ chain' = InsertAt(chain, Find(chain, p) + 1, NewRule(AcceptBody))
        BY <2>1, <3>2, <1>6 DEF FlushInsert, AddAfter
      <4>3. Find(chain, p) = n
        BY <4>1, <4>2 DEF Find, IInv, Distinct
      <4> QED BY <4>1, <4>2, <4>3
    <3> QED BY <3>1, <3>2
  <2>3. ops[o].idx \in DOMAIN chain' /\ chain'[ops[o].idx].id = nextHandle
    BY <2>2, <1>2
  <2> QED BY <2>1, <2>3, <1>4 DEF Untouched
<1> QED BY <1>5, <1>6

(* A goroutine's step keeps itself and the others undisturbed, or it       *)
(* writes, and then nobody else is.                                        *)
LEMMA GoroutineQuiet ==
  ASSUME IInv, QuietInv, NEW p \in Cmd, Goroutine(p), NEW o \in quiet'
  PROVE  Untouched(ops'[o], chain')
<1>1. /\ TypeOK /\ chain \in Seq(Rule) /\ OpInv(ops[p])
      /\ ops'[p].kind = ops[p].kind
  BY GoroutineKeepsCommand DEF IInv, OpsInv, TypeOK, KeepsCommand
<1>2. ASSUME quiet' = quiet, chain' = chain,
             Untouched(ops[p], chain) => Untouched(ops'[p], chain)
      PROVE  Untouched(ops'[o], chain')
  <2>1. o \in Cmd
    BY <1>1, <1>2 DEF TypeOK
  <2>2. o # p => ops'[o] = ops[o]
    BY <2>1, <1>1, OneCommand
  <2> QED BY <2>2, <1>2 DEF QuietInv
<1>3. ASSUME NEW r, Finish(p, r), r = "ok" => ops[p].kind \in {"up", "down"}
      PROVE  Untouched(ops'[o], chain')
  <2>1. ops'[p].pc = "done" /\ ops'[p].result = r
    BY <1>1, <1>3, FinishRecord
  <2>2. Untouched(ops'[p], chain)
    BY <2>1, <1>1, <1>3 DEF Untouched, Creating
  <2> QED BY <2>2, <1>2, <1>3 DEF Finish
<1>4. CASE RereadGone(p) \/ RereadFails(p) \/ ConnectFails(p) \/ RelistFails(p)
  BY <1>3, <1>4 DEF RereadGone, RereadFails, ConnectFails, RelistFails
<1>5. CASE NowhereToGo(p)
  BY <1>3, <1>5 DEF NowhereToGo, AtTheEnd
<1>6. CASE Reread(p)
  <2>1. ops'[p].pc = "flush" /\ ops[p].pc = "reread"
    BY <1>1, <1>6, RereadRecord DEF Reread
  <2>2. Untouched(ops[p], chain) => Untouched(ops'[p], chain)
    BY <2>1, <1>1 DEF Untouched
  <2> QED BY <2>2, <1>2, <1>6 DEF Reread
<1>7. CASE FlushFails(p)
  <2>1. ops'[p].pc = "done" /\ ops'[p].result = "error"
    BY <1>1, <1>7, RefusedRecord
  <2>2. Untouched(ops'[p], chain)
    BY <2>1 DEF Untouched
  <2> QED BY <2>2, <1>2, <1>7 DEF FlushFails
<1>8. CASE Relist(p)
  <2>1. /\ ops'[p].pc = "done" /\ ops'[p].opened = Returned(p, chain)
        /\ ops'[p].made = ops[p].made
        /\ ops[p].pc = "relist" /\ ops[p].kind \in Creating
    BY <1>1, <1>8, RelistRecord DEF Relist, OpInv
  <2>2. ASSUME Untouched(ops[p], chain)
        PROVE  Returned(p, chain) = ops[p].made
    BY <2>1, <2>2 DEF Untouched, Returned
  <2>3. Untouched(ops[p], chain) => Untouched(ops'[p], chain)
    BY <2>1, <2>2 DEF Untouched
  <2> QED BY <2>3, <1>2, <1>8 DEF Relist
<1>9. ASSUME NEW pc, NEW made, Commit(p, pc, made)
      PROVE  o = p /\ Untouched(ops[o], chain)
  BY <1>9 DEF Commit, QuietInv
<1>10. CASE FlushAdd(p) \/ FlushInsert(p)
  BY <1>9, <1>10, CreateQuiet DEF FlushAdd, FlushInsert
<1>11. CASE FlushDelete(p) \/ FlushMoveUp(p) \/ FlushMoveDown(p)
            \/ FlushApply(p)
  <2>1. Commit(p, "done", 0) /\ ops[p].kind \notin Creating
    BY <1>11 DEF FlushDelete, FlushMoveUp, FlushMoveDown, FlushApply, Creating
  <2>2. ops'[p].pc = "done" /\ ops'[p].kind \notin Creating
    BY <2>1, <1>1, CommitRecord
  <2> QED BY <2>1, <2>2, <1>9 DEF Untouched
<1> QED BY <1>4, <1>5, <1>6, <1>7, <1>8, <1>10, <1>11 DEF Goroutine

(* The invariant of the undisturbed commands is inductive.                 *)
LEMMA QuietStep == IInv /\ QuietInv /\ [Next]_vars => QuietInv'
<1> SUFFICES ASSUME IInv, QuietInv, [Next]_vars, NEW o \in quiet'
             PROVE  Untouched(ops'[o], chain')
  BY DEF QuietInv
<1>1. ASSUME NEW p \in Cmd, Deliver(p) PROVE Untouched(ops'[o], chain')
  <2>1. o # p /\ o \in quiet /\ chain' = chain
    BY <1>1 DEF Deliver
  <2>2. ops'[o] = ops[o]
    BY <1>1, <2>1, OneCommand DEF IInv, OpsInv, TypeOK
  <2> QED BY <2>1, <2>2 DEF QuietInv
<1>2. CASE RefreshRules \/ UNCHANGED vars
  BY <1>2 DEF RefreshRules, vars, QuietInv
<1>3. ~External
  BY DEF External
<1> QED BY <1>1, <1>2, <1>3, KeyPressQuiet, GoroutineQuiet DEF Next

(* AddNewRuleToChain and InsertNewRuleBefore find the rule they made by    *)
(* position in a list they take after the fact: for any number of          *)
(* commands, that is the right rule as long as nobody else wrote to the    *)
(* chain and the list they started from was up to date.                    *)
THEOREM QuietCreationsReturn == Spec => []QuietReturnIsCreated
<1>1. Init => QuietInv
  BY DEF Init, QuietInv
<1>2. QuietInv => QuietReturnIsCreated
  BY DEF QuietInv, QuietReturnIsCreated, Untouched
<1>3. Spec => []QuietInv
  BY <1>1, QuietStep, IInvariant, PTL DEF Spec
<1> QED BY <1>2, <1>3, PTL

-----------------------------------------------------------------------------
(* RuleOps implements RuleLedger: every step of a command's goroutine is a *)
(* step of the ledger on the rule the command was asked about, or none.    *)

Entry == [id : Nat, body : Body]

(* What the ledger shows of a list: as long, with the same rules, without  *)
(* their handles.                                                          *)
LEMMA ShownFacts ==
  ASSUME NEW s \in Seq(Rule)
  PROVE  /\ Shown(s) \in Seq(Entry) /\ Len(Shown(s)) = Len(s)
         /\ Len(s) \in Nat
         /\ DOMAIN Shown(s) = 1 .. Len(s) /\ DOMAIN s = 1 .. Len(s)
         /\ \A i \in 1 .. Len(s) : /\ Shown(s)[i].id = s[i].id
                                   /\ Shown(s)[i].body = s[i].body
                                   /\ Shown(s)[i] = [id |-> s[i].id,
                                                     body |-> s[i].body]
<1>1. /\ Len(s) \in Nat /\ DOMAIN s = 1 .. Len(s)
      /\ \A i \in 1 .. Len(s) : s[i] \in Rule
  BY ElementOfSeq, LenProperties
<1>2. \A i \in 1 .. Len(s) :
        [id |-> s[i].id, body |-> s[i].body] \in Entry
  BY <1>1 DEF Rule, Entry
<1>3. Shown(s) \in [1 .. Len(s) -> Entry]
  BY <1>1, <1>2 DEF Shown
<1>4. Shown(s) \in Seq(Entry) /\ Len(Shown(s)) = Len(s)
  BY <1>1, <1>3, IsASeq
<1> QED BY <1>1, <1>3, <1>4 DEF Shown

(* The identities of the ledger are those of the list.                     *)
LEMMA IdsFacts ==
  ASSUME NEW s \in Seq(Rule), NEW x
  PROVE  x \in Ledger!Ids(Shown(s)) <=> \E i \in 1 .. Len(s) : s[i].id = x
<1>1. /\ DOMAIN Shown(s) = 1 .. Len(s)
      /\ \A i \in 1 .. Len(s) : Shown(s)[i].id = s[i].id
  BY ShownFacts
<1> QED BY <1>1 DEF Ledger!Ids

(* Without one of its rules, the ledger's chain is what is left when the   *)
(* kernel deletes that rule.                                               *)
LEMMA OthersAreLeft ==
  ASSUME NEW s \in Seq(Rule), Distinct(s), NEW k \in 1 .. Len(s)
  PROVE  Ledger!Others(Shown(s), s[k].id) = Shown(RemoveAt(s, k))
<1> DEFINE e == Shown(s)
           t == RemoveAt(s, k)
<1>1. /\ e \in Seq(Entry) /\ Len(e) = Len(s) /\ Len(s) \in Nat
      /\ DOMAIN e = 1 .. Len(s) /\ DOMAIN s = 1 .. Len(s)
      /\ \A i \in 1 .. Len(s) : e[i].id = s[i].id
      /\ \A i \in 1 .. Len(s) : e[i] = [id |-> s[i].id, body |-> s[i].body]
  BY ShownFacts
<1>2. {i \in DOMAIN e : e[i].id # s[k].id} = 1 .. Len(e) \ {k}
  BY <1>1 DEF Distinct
<1> HIDE DEF e, t
<1>3. Ledger!Others(e, s[k].id) = RemoveAt(e, k)
  <2>1. \A I : Ledger!Kept(e, I) = Kept(e, I)
    <3>1. \A I : Ledger!Cardinality(I) = Cardinality(I)
      BY DEF Ledger!Cardinality, Ledger!IsFiniteSet, Cardinality, IsFiniteSet
    <3>2. \A I, n : Ledger!Nth(I, n) = Nth(I, n)
      BY <3>1 DEF Ledger!Nth, Nth
    <3> QED BY <3>1, <3>2 DEF Ledger!Kept, Kept
  <2>2. Ledger!Others(e, s[k].id) = Kept(e, 1 .. Len(e) \ {k})
    BY <2>1, <1>2 DEF Ledger!Others
  <2>3. k \in 1 .. Len(e)
    BY <1>1
  <2> QED BY <2>2, <2>3, <1>1, KeptAllButOne
<1>4. /\ RemoveAt(e, k) \in Seq(Entry) /\ Len(RemoveAt(e, k)) = Len(s) - 1
      /\ \A j \in 1 .. Len(s) - 1 :
           RemoveAt(e, k)[j] = IF j < k THEN e[j] ELSE e[j + 1]
  <2>1. k \in 1 .. Len(e)
    BY <1>1
  <2> QED BY <2>1, <1>1, RemoveAtFacts
<1>5. /\ t \in Seq(Rule) /\ Len(t) = Len(s) - 1
      /\ \A j \in 1 .. Len(s) - 1 : t[j] = IF j < k THEN s[j] ELSE s[j + 1]
  BY RemoveAtFacts DEF t
<1>6. /\ Shown(t) \in Seq(Entry) /\ Len(Shown(t)) = Len(s) - 1
      /\ \A j \in 1 .. Len(s) - 1 :
           Shown(t)[j] = [id |-> t[j].id, body |-> t[j].body]
  BY <1>5, ShownFacts
<1>7. \A j \in 1 .. Len(s) - 1 : j \in 1 .. Len(s) /\ j + 1 \in 1 .. Len(s)
  BY <1>1
<1>8. \A j \in 1 .. Len(s) - 1 : RemoveAt(e, k)[j] = Shown(t)[j]
  BY <1>1, <1>4, <1>5, <1>6, <1>7
<1>9. RemoveAt(e, k) = Shown(t)
  BY <1>4, <1>6, <1>8, SeqEqual
<1> QED BY <1>3, <1>9 DEF e, t

(* A rule put in and taken out again leaves the list it came into.         *)
LEMMA RemoveInserted ==
  ASSUME NEW s \in Seq(Rule), NEW r \in Rule, NEW i \in 1 .. Len(s) + 1
  PROVE  /\ InsertAt(s, i, r) \in Seq(Rule)
         /\ Len(InsertAt(s, i, r)) = Len(s) + 1
         /\ InsertAt(s, i, r)[i] = r
         /\ RemoveAt(InsertAt(s, i, r), i) = s
<1> DEFINE t == InsertAt(s, i, r)
           u == RemoveAt(t, i)
<1>1. /\ t \in Seq(Rule) /\ Len(t) = Len(s) + 1 /\ Len(s) \in Nat
      /\ \A j \in 1 .. Len(s) + 1 :
           t[j] = IF j < i THEN s[j] ELSE IF j = i THEN r ELSE s[j - 1]
  BY InsertAtFacts, LenProperties
<1> HIDE DEF t
<1>2. /\ u \in Seq(Rule) /\ Len(u) = Len(t) - 1
      /\ \A j \in 1 .. Len(t) - 1 : u[j] = IF j < i THEN t[j] ELSE t[j + 1]
  BY <1>1, RemoveAtFacts
<1> HIDE DEF u
<1>3. \A j \in 1 .. Len(u) : u[j] = s[j]
  <2> SUFFICES ASSUME NEW j \in 1 .. Len(u) PROVE u[j] = s[j]
    OBVIOUS
  <2>1. /\ j \in 1 .. Len(s) + 1 /\ j + 1 \in 1 .. Len(s) + 1
        /\ j \in 1 .. Len(t) - 1 /\ j + 1 - 1 = j
    BY <1>1, <1>2
  <2>2. CASE j < i
    BY <2>1, <2>2, <1>1, <1>2
  <2>3. CASE ~(j < i)
    <3>1. u[j] = t[j + 1]
      BY <2>1, <2>3, <1>2
    <3>2. ~(j + 1 < i) /\ j + 1 # i
      BY <2>1, <2>3, <1>1
    <3>3. t[j + 1] = s[j + 1 - 1]
      BY <2>1, <3>2, <1>1
    <3> QED BY <3>1, <3>3, <2>1
  <2> QED BY <2>2, <2>3
<1>4. Len(u) = Len(s)
  BY <1>1, <1>2
<1>5. u = s
  BY <1>2, <1>3, <1>4, SeqEqual
<1> QED BY <1>1, <1>5 DEF t, u

-----------------------------------------------------------------------------
(* What a batch does to the chain, told in the words of the ledger.  Each  *)
(* lemma is about one promise: a rule created, deleted, moved, rewritten.  *)

(* A new rule at any place is what the ledger calls Create.                *)
LEMMA LedgerCreate ==
  ASSUME IInv, NEW o \in Cmd, NEW b \in Body, NEW i \in 1 .. Len(chain) + 1,
         Ledger!Creates(o), chain' = InsertAt(chain, i, NewRule(b)),
         Distinct(chain')
  PROVE  Ledger!Create(o)
<1>1. /\ chain \in Seq(Rule) /\ NewRule(b) \in Rule
      /\ NewRule(b).id = nextHandle
  BY NewRuleType DEF IInv, OpsInv, TypeOK, NewRule
<1>2. /\ chain' \in Seq(Rule) /\ Len(chain') = Len(chain) + 1
      /\ chain'[i].id = nextHandle /\ RemoveAt(chain', i) = chain
  BY <1>1, RemoveInserted
<1>3. Len(chain) \in Nat /\ i \in 1 .. Len(chain')
  BY <1>1, <1>2, LenProperties
<1>4. Ledger!Others(Shown(chain'), nextHandle) = Shown(chain)
  BY <1>2, <1>3, OthersAreLeft
<1>5. /\ Len(Shown(chain')) = Len(Shown(chain)) + 1
      /\ nextHandle \in Ledger!Ids(Shown(chain'))
  BY <1>1, <1>2, <1>3, ShownFacts, IdsFacts
<1>6. nextHandle \notin Ledger!Ids(Shown(chain))
  <2>1. \A j \in DOMAIN chain : chain[j].id < nextHandle
    <3>1. \A j \in DOMAIN chain : Mention(chain[j].handle, chain[j].id)
      BY DEF Mention, Lists, Holds
    <3> QED BY <3>1 DEF IInv, Identified
  <2>2. nextHandle \in Nat
    BY DEF IInv, OpsInv, TypeOK
  <2>3. /\ DOMAIN chain = 1 .. Len(chain)
        /\ nextHandle \notin {chain[j].id : j \in DOMAIN chain}
    BY <1>1, <2>1, <2>2, LenProperties
  <2> QED BY <1>1, <2>3, IdsFacts
<1>7. \E x \in Ledger!Ids(Shown(chain')) \ Ledger!Ids(Shown(chain)) :
        Ledger!Others(Shown(chain'), x) = Shown(chain)
  BY <1>4, <1>5, <1>6
<1> QED BY <1>5, <1>7 DEF Ledger!Create

(* The rule of the command taken out is what the ledger calls Delete.      *)
LEMMA LedgerDelete ==
  ASSUME IInv, NEW o \in Cmd, NEW k \in DOMAIN chain,
         ops[o].kind = "delete", ops[o].id = chain[k].id,
         chain' = RemoveAt(chain, k)
  PROVE  Ledger!Delete(o)
<1>1. /\ chain \in Seq(Rule) /\ Distinct(chain) /\ k \in 1 .. Len(chain)
  BY LenProperties DEF IInv, OpsInv, TypeOK
<1>2. Ledger!Others(Shown(chain), chain[k].id) = Shown(chain')
  BY <1>1, OthersAreLeft
<1>3. chain[k].id \in Ledger!Ids(Shown(chain))
  BY <1>1, IdsFacts
<1> QED BY <1>2, <1>3 DEF Ledger!Delete, Promised

(* The rule of the command taken out and put back elsewhere is what the    *)
(* ledger calls Move.                                                      *)
LEMMA LedgerMove ==
  ASSUME IInv, NEW o \in Cmd, NEW k \in DOMAIN chain, NEW r \in Rule,
         NEW i \in 1 .. Len(RemoveAt(chain, k)) + 1,
         ops[o].kind \in {"up", "down"}, ops[o].id = chain[k].id,
         r.id = chain[k].id,
         chain' = InsertAt(RemoveAt(chain, k), i, r), Distinct(chain')
  PROVE  Ledger!Move(o)
<1> DEFINE rest == RemoveAt(chain, k)
<1>1. /\ chain \in Seq(Rule) /\ Distinct(chain) /\ Len(chain) \in Nat
      /\ k \in 1 .. Len(chain)
      /\ rest \in Seq(Rule) /\ Len(rest) = Len(chain) - 1
  BY LenProperties, RemoveAtFacts DEF IInv, OpsInv, TypeOK
<1>2. Ledger!Others(Shown(chain), chain[k].id) = Shown(rest)
  BY <1>1, OthersAreLeft
<1> HIDE DEF rest
<1>3. i \in 1 .. Len(rest) + 1 /\ chain' = InsertAt(rest, i, r)
  BY DEF rest
<1>4. /\ chain' \in Seq(Rule) /\ Len(chain') = Len(rest) + 1
      /\ chain'[i] = r /\ RemoveAt(chain', i) = rest
  BY <1>1, <1>3, RemoveInserted
<1>5. i \in 1 .. Len(chain') /\ Len(chain') = Len(chain)
  BY <1>1, <1>3, <1>4
<1>6. Ledger!Others(Shown(chain'), r.id) = Shown(rest)
  BY <1>4, <1>5, OthersAreLeft
<1>7. /\ Len(Shown(chain')) = Len(Shown(chain))
      /\ r.id \in Ledger!Ids(Shown(chain))
      /\ r.id \in Ledger!Ids(Shown(chain'))
  BY <1>1, <1>4, <1>5, ShownFacts, IdsFacts
<1> QED BY <1>2, <1>6, <1>7 DEF Ledger!Move, Promised

(* The rule of the command rewritten in place is what the ledger calls     *)
(* Rewrite.                                                                *)
LEMMA LedgerRewrite ==
  ASSUME IInv, NEW o \in Cmd, NEW k \in DOMAIN chain, NEW b \in Body,
         ops[o].kind = "apply", ops[o].id = chain[k].id,
         chain' = [chain EXCEPT ![k].body = b]
  PROVE  Ledger!Rewrite(o)
<1>1. /\ chain \in Seq(Rule) /\ Distinct(chain)
      /\ DOMAIN chain = 1 .. Len(chain) /\ Len(chain) \in Nat
      /\ \A i \in DOMAIN chain : chain[i] \in Rule
  BY LenProperties, ElementOfSeq DEF IInv, OpsInv, TypeOK
<1>2. [chain[k] EXCEPT !.body = b] \in Rule
  BY <1>1 DEF Rule
<1>3. /\ chain' \in Seq(Rule) /\ Len(chain') = Len(chain)
  BY <1>1, <1>2, ExceptSeq
<1>4. \A i \in 1 .. Len(chain) : /\ chain'[i].id = chain[i].id
                                 /\ i # k => chain'[i] = chain[i]
  BY <1>1 DEF Rule
<1>5. \A i \in 1 .. Len(chain) : chain[i].id = chain[k].id => i = k
  BY <1>1 DEF Distinct
<1>6. /\ Len(Shown(chain')) = Len(Shown(chain))
      /\ chain[k].id \in Ledger!Ids(Shown(chain))
  BY <1>1, <1>3, ShownFacts, IdsFacts
<1>7. \A i \in DOMAIN Shown(chain) :
        IF Shown(chain)[i].id = chain[k].id
        THEN Shown(chain')[i].id = Shown(chain)[i].id
        ELSE Shown(chain')[i] = Shown(chain)[i]
  <2> SUFFICES ASSUME NEW i \in 1 .. Len(chain)
               PROVE  IF Shown(chain)[i].id = chain[k].id
                      THEN Shown(chain')[i].id = Shown(chain)[i].id
                      ELSE Shown(chain')[i] = Shown(chain)[i]
    BY <1>1, ShownFacts
  <2>1. /\ Shown(chain)[i].id = chain[i].id
        /\ Shown(chain)[i] = [id |-> chain[i].id, body |-> chain[i].body]
    BY <1>1, ShownFacts
  <2>2. /\ Shown(chain')[i].id = chain'[i].id
        /\ Shown(chain')[i] = [id |-> chain'[i].id, body |-> chain'[i].body]
    BY <1>1, <1>3, ShownFacts
  <2> QED BY <2>1, <2>2, <1>4
<1> QED BY <1>6, <1>7 DEF Ledger!Rewrite, Promised

-----------------------------------------------------------------------------
(* The steps.  A command that moves on keeps its kind and its rule, and    *)
(* only its own state changes.                                             *)

(* A step of one command is that command becoming something else in the    *)
(* ledger.                                                                 *)
LEMMA LedgerBecome ==
  ASSUME NEW o \in Cmd, NEW st,
         \A p \in Cmd \ {o} : ops'[p] = ops[p],
         ops'[o].kind = ops[o].kind, ops'[o].id = ops[o].id,
         CmdState(ops'[o]) = st
  PROVE  Ledger!Become(o, st)
<1>1. \A p \in Cmd : Promised(ops'[p]) =
        IF p = o THEN [Promised(ops[o]) EXCEPT !.state = st]
                 ELSE Promised(ops[p])
  BY DEF Promised
<1>2. [p \in Cmd |-> Promised(ops'[p])]
        = [[p \in Cmd |-> Promised(ops[p])] EXCEPT ![o].state = st]
  BY <1>1
<1> QED BY <1>2 DEF Ledger!Become

(* A batch that the kernel applied. *)
LEMMA FlushTakesEffect ==
  ASSUME IInv, NEW o \in Cmd,
         \/ FlushDelete(o) \/ FlushMoveUp(o) \/ FlushMoveDown(o)
         \/ FlushAdd(o) \/ FlushInsert(o) \/ FlushApply(o)
  PROVE  \/ Ledger!Create(o) \/ Ledger!Delete(o)
         \/ Ledger!Move(o) \/ Ledger!Rewrite(o)
<1>1. /\ chain \in Seq(Rule) /\ ops[o] \in Op /\ OpInv(ops[o])
      /\ Len(chain) \in Nat /\ DOMAIN chain = 1 .. Len(chain)
      /\ nextHandle \in Nat
  BY LenProperties DEF IInv, OpsInv, TypeOK
<1>2. Distinct(chain')
  BY FlushChain DEF GoodChain
<1>3. ASSUME NEW s \in Seq(Rule), NEW h, Has(s, h)
      PROVE  /\ Find(s, h) \in DOMAIN s /\ s[Find(s, h)].handle = h
             /\ Find(s, h) \in 1 .. Len(s) + 1
             /\ Find(s, h) + 1 \in 1 .. Len(s) + 1
  BY <1>3, FindFacts
(* The rule with the command's handle is the command's rule. *)
<1>4. ASSUME Has(chain, ops[o].handle)
      PROVE  ops[o].id = chain[Find(chain, ops[o].handle)].id
  <2> DEFINE k == Find(chain, ops[o].handle)
  <2>1. Mention(ops[o].handle, chain[k].id)
    BY <1>1, <1>3, <1>4 DEF Mention, Lists, Holds
  <2>2. Mention(ops[o].handle, ops[o].id)
    BY DEF Mention
  <2> QED BY <2>1, <2>2 DEF IInv, Identified
<1>5. ASSUME NEW b \in Body, chain' = Append(chain, NewRule(b)),
             Ledger!Creates(o)
      PROVE  Ledger!Create(o)
  BY <1>1, <1>2, <1>5, NewRuleType, AppendIsInsert, LedgerCreate
     DEF IInv, OpsInv
<1>6. CASE FlushDelete(o)
  <2>1. /\ ops[o].kind = "delete" /\ Has(chain, ops[o].handle)
        /\ chain' = RemoveAt(chain, Find(chain, ops[o].handle))
    BY <1>6 DEF FlushDelete, DelRule
  <2> QED BY <2>1, <1>1, <1>3, <1>4, LedgerDelete
<1>7. ASSUME ops[o].pc = "flush", ops[o].kind \in {"up", "down"}
      PROVE  Moved(o) \in Rule /\ Moved(o).id = ops[o].id
  <2> DEFINE r == ops[o].list[ops[o].idx]
  <2>1. /\ ops[o].list \in Seq(Rule) /\ ops[o].idx \in DOMAIN ops[o].list
        /\ r.handle = ops[o].handle
    BY <1>1, <1>7 DEF Op, OpInv, Ready
  <2>2. r \in Rule
    BY <2>1, ElementOfSeq, LenProperties
  <2>3. Mention(ops[o].handle, r.id) /\ Mention(ops[o].handle, ops[o].id)
    BY <2>1 DEF Mention, Lists, Holds
  <2> HIDE DEF r
  <2>4. Moved(o) = [r EXCEPT !.handle = nextHandle]
    BY DEF Moved, r
  <2>5. Moved(o) \in Rule /\ Moved(o).id = r.id
    BY <2>2, <2>4, <1>1 DEF Rule
  <2> QED BY <2>3, <2>5 DEF IInv, Identified
<1>8. ASSUME ops[o].pc = "flush", ops[o].kind \in {"up", "down"},
             Has(chain, ops[o].handle), NEW i,
             i \in 1 .. Len(DelRule(chain, ops[o].handle)) + 1,
             chain' = InsertAt(DelRule(chain, ops[o].handle), i, Moved(o))
      PROVE  Ledger!Move(o)
  <2> DEFINE k == Find(chain, ops[o].handle)
  <2>1. k \in DOMAIN chain /\ ops[o].id = chain[k].id
    BY <1>1, <1>3, <1>4, <1>8
  <2>2. Moved(o) \in Rule /\ Moved(o).id = chain[k].id
    BY <2>1, <1>7, <1>8
  <2>3. /\ i \in 1 .. Len(RemoveAt(chain, k)) + 1
        /\ chain' = InsertAt(RemoveAt(chain, k), i, Moved(o))
    BY <1>8 DEF DelRule
  <2> QED BY <2>1, <2>2, <2>3, <1>2, <1>8, LedgerMove
<1>9. CASE FlushMoveUp(o)
  <2> DEFINE p    == ops[o].list[ops[o].idx - 1].handle
             rest == DelRule(chain, ops[o].handle)
  <2>1. /\ Has(chain, ops[o].handle) /\ Has(rest, p)
        /\ chain' = InsertAt(rest, Find(rest, p), Moved(o))
        /\ ops[o].pc = "flush" /\ ops[o].kind = "up"
    BY <1>9 DEF FlushMoveUp, InsertBefore
  <2>2. rest \in Seq(Rule)
    BY <2>1, <1>1, KernelTypes
  <2>3. Find(rest, p) \in 1 .. Len(rest) + 1
    BY <2>1, <2>2, <1>3
  <2> QED BY <2>1, <2>3, <1>8
<1>10. CASE FlushMoveDown(o)
  <2> DEFINE p    == ops[o].list[ops[o].idx + 1].handle
             rest == DelRule(chain, ops[o].handle)
  <2>1. /\ Has(chain, ops[o].handle) /\ Has(rest, p)
        /\ chain' = InsertAt(rest, Find(rest, p) + 1, Moved(o))
        /\ ops[o].pc = "flush" /\ ops[o].kind = "down"
    BY <1>10 DEF FlushMoveDown, AddAfter
  <2>2. rest \in Seq(Rule)
    BY <2>1, <1>1, KernelTypes
  <2>3. Find(rest, p) + 1 \in 1 .. Len(rest) + 1
    BY <2>1, <2>2, <1>3
  <2> QED BY <2>1, <2>3, <1>8
<1>11. ops[o].kind \in {"add", "insert"} \/ ops[o].id = 0 => Ledger!Creates(o)
  BY DEF Ledger!Creates, Promised
<1>12. CASE FlushAdd(o)
  BY <1>5, <1>11, <1>12, BodyAssumption DEF FlushAdd
<1>13. CASE FlushInsert(o)
  <2>1. ops[o].kind = "insert"
    BY <1>13 DEF FlushInsert
  <2>2. CASE ops[o].idx = 1
    <3>1. 1 \in 1 .. Len(chain) + 1
      BY <1>1
    <3>2. chain' = InsertAt(chain, 1, NewRule(AcceptBody))
      BY <2>2, <1>13 DEF FlushInsert
    <3> QED BY <3>1, <3>2, <2>1, <1>2, <1>11, LedgerCreate, BodyAssumption
  <2>3. CASE ops[o].idx # 1
    <3> DEFINE p == ops[o].list[ops[o].idx - 1].handle
    <3>1. /\ Has(chain, p)
          /\ chain' = InsertAt(chain, Find(chain, p) + 1, NewRule(AcceptBody))
      BY <2>3, <1>13 DEF FlushInsert, AddAfter
    <3>2. Find(chain, p) + 1 \in 1 .. Len(chain) + 1
      BY <3>1, <1>1, <1>3
    <3> QED BY <3>1, <3>2, <2>1, <1>2, <1>11, LedgerCreate, BodyAssumption
  <2> QED BY <2>2, <2>3
<1>14. CASE FlushApply(o)
  <2>1. ops[o].body \in Body /\ ops[o].kind = "apply"
    BY <1>1, <1>14 DEF Op, FlushApply
  <2>2. CASE ops[o].handle = 0
    <3>1. ops[o].id = 0
      <4>1. Mention(0, ops[o].id) /\ Mention(0, 0)
        BY <2>2 DEF Mention
      <4> QED BY <4>1 DEF IInv, Identified
    <3>2. chain' = Append(chain, NewRule(ops[o].body))
      BY <2>2, <1>14 DEF FlushApply
    <3> QED BY <3>1, <3>2, <2>1, <1>5, <1>11
  <2>3. CASE ops[o].handle # 0
    <3> DEFINE k == Find(chain, ops[o].handle)
    <3>1. /\ Has(chain, ops[o].handle)
          /\ chain' = [chain EXCEPT ![k].body = ops[o].body]
      BY <2>3, <1>14 DEF FlushApply, Replace
    <3>2. k \in DOMAIN chain /\ ops[o].id = chain[k].id
      BY <3>1, <1>1, <1>3, <1>4
    <3> QED BY <3>1, <3>2, <2>1, LedgerRewrite
  <2> QED BY <2>2, <2>3
<1> QED BY <1>6, <1>9, <1>10, <1>12, <1>13, <1>14

(* What the updates of a command's record leave of it.                     *)
LEMMA OpUpdates ==
  ASSUME NEW x \in Op, NEW pc, NEW r, NEW a, NEW b
  PROVE  /\ [x EXCEPT !.pc = pc, !.result = r].pc = pc
         /\ [x EXCEPT !.pc = pc, !.result = r].took = x.took
         /\ [x EXCEPT !.pc = pc, !.list = a, !.idx = b].pc = pc
         /\ [x EXCEPT !.pc = pc, !.list = a, !.idx = b].took = x.took
         /\ [x EXCEPT !.pc = pc, !.result = r, !.log = a].pc = pc
         /\ [x EXCEPT !.pc = pc, !.result = r, !.log = a].took = x.took
         /\ [x EXCEPT !.pc = pc, !.result = r, !.opened = a].pc = pc
         /\ [x EXCEPT !.pc = pc, !.result = r, !.opened = a].took = x.took
         /\ [x EXCEPT !.pc = pc, !.made = a, !.took = TRUE, !.log = b,
                      !.result = r].pc = pc
         /\ [x EXCEPT !.pc = pc, !.made = a, !.took = TRUE, !.log = b,
                      !.result = r].took = TRUE
BY DEF Op

(* A goroutine's step: its batch takes effect, or it gives up, or the      *)
(* ledger sees nothing.                                                    *)
LEMMA GoroutineRefines ==
  ASSUME IInv, NEW o \in Cmd, Goroutine(o)
  PROVE  \/ Ledger!TakeEffect(o) \/ Ledger!GiveUp(o)
         \/ UNCHANGED Ledger!ledgerVars
<1>1. /\ ops[o] \in Op /\ OpInv(ops[o]) /\ ops[o].pc \in PC
      /\ ops'[o].kind = ops[o].kind /\ ops'[o].id = ops[o].id
      /\ \A p \in Cmd \ {o} : ops'[p] = ops[p]
  BY OneCommand, GoroutineKeepsCommand
     DEF IInv, OpsInv, TypeOK, KeepsCommand, Op
<1>2. ASSUME NEW op, ops' = [ops EXCEPT ![o] = op] PROVE ops'[o] = op
  BY <1>2 DEF IInv, OpsInv, TypeOK
<1>3. ASSUME CmdState(ops'[o]) = CmdState(ops[o]), chain' = chain
      PROVE  UNCHANGED Ledger!ledgerVars
  <2>1. \A p \in Cmd : Promised(ops'[p]) = Promised(ops[p])
    BY <1>1, <1>3 DEF Promised
  <2> QED BY <2>1, <1>3 DEF Ledger!ledgerVars, Shown
<1>4. ASSUME CmdState(ops[o]) = "asked", CmdState(ops'[o]) = "void",
             chain' = chain
      PROVE  Ledger!GiveUp(o)
  <2>1. Ledger!Become(o, "void")
    BY <1>1, <1>4, LedgerBecome
  <2> QED BY <2>1, <1>4 DEF Ledger!GiveUp, Promised, Shown
<1>5. ASSUME NEW r, Finish(o, r), ops[o].pc \in {"reread", "flush"}
      PROVE  Ledger!GiveUp(o)
  <2>1. CmdState(ops[o]) = "asked"
    BY <1>1, <1>5 DEF CmdState, OpInv, Pending
  <2>2. ops' = [ops EXCEPT ![o] = [ops[o] EXCEPT !.pc = "done", !.result = r]]
    BY <1>5 DEF Finish
  <2>3. ops'[o] = [ops[o] EXCEPT !.pc = "done", !.result = r]
    BY <2>2, <1>2
  <2>5. ops'[o].pc = "done" /\ ops'[o].took = ops[o].took
    BY <2>3, <1>1, OpUpdates
  <2>4. CmdState(ops'[o]) = "void"
    BY <2>5, <1>1, <1>5 DEF CmdState, OpInv, Pending
  <2> QED BY <2>1, <2>4, <1>4, <1>5 DEF Finish
<1>6. ASSUME NEW pc \in {"done", "relist"}, NEW made, Commit(o, pc, made),
             ops[o].pc = "flush",
             \/ Ledger!Create(o) \/ Ledger!Delete(o)
             \/ Ledger!Move(o) \/ Ledger!Rewrite(o)
      PROVE  Ledger!TakeEffect(o)
  <2>1. CmdState(ops[o]) = "asked"
    BY <1>1, <1>6 DEF CmdState, OpInv, Pending
  <2> DEFINE l == Append(ops[o].log, "ok")
             r == IF pc = "done" THEN "ok" ELSE "none"
  <2>2. ops' = [ops EXCEPT ![o] =
          [ops[o] EXCEPT !.pc = pc, !.made = made, !.took = TRUE,
                         !.log = l, !.result = r]]
    BY <1>6 DEF Commit
  <2> HIDE DEF l, r
  <2>3. ops'[o] = [ops[o] EXCEPT !.pc = pc, !.made = made, !.took = TRUE,
                                 !.log = l, !.result = r]
    BY <2>2, <1>2
  <2>6. ops'[o].pc = pc /\ ops'[o].took = TRUE
    BY <2>3, <1>1, OpUpdates
  <2>4. CmdState(ops'[o]) = "applied"
    BY <2>6 DEF CmdState
  <2>5. Ledger!Become(o, "applied")
    BY <2>4, <1>1, LedgerBecome
  <2> QED BY <2>1, <2>5, <1>6 DEF Ledger!TakeEffect, Promised
<1>7. CASE Reread(o)
  <2>1. ops'[o].pc = "flush" /\ ops'[o].took = ops[o].took
    <3> DEFINE k == Find(chain, ops[o].handle)
    <3>1. ops' = [ops EXCEPT ![o] = [ops[o] EXCEPT !.pc = "flush",
                                       !.list = chain, !.idx = k]]
      BY <1>7 DEF Reread
    <3> HIDE DEF k
    <3>2. ops'[o] = [ops[o] EXCEPT !.pc = "flush", !.list = chain, !.idx = k]
      BY <3>1, <1>2
    <3> QED BY <3>2, <1>1, OpUpdates
  <2>2. CmdState(ops'[o]) = CmdState(ops[o])
    BY <2>1, <1>1, <1>7 DEF CmdState, Reread, OpInv, Pending
  <2> QED BY <2>2, <1>3, <1>7 DEF Reread
<1>8. CASE RereadGone(o) \/ RereadFails(o) \/ NowhereToGo(o) \/ ConnectFails(o)
  BY <1>5, <1>8 DEF RereadGone, RereadFails, NowhereToGo, ConnectFails
<1>9. CASE FlushFails(o)
  <2> DEFINE l == Append(ops[o].log, "error")
  <2>1. ops' = [ops EXCEPT ![o] = [ops[o] EXCEPT !.pc = "done",
                                     !.result = "error", !.log = l]]
    BY <1>9 DEF FlushFails
  <2> HIDE DEF l
  <2>4. ops'[o] = [ops[o] EXCEPT !.pc = "done", !.result = "error", !.log = l]
    BY <2>1, <1>2
  <2>2. ops'[o].pc = "done" /\ ops'[o].took = ops[o].took
    BY <2>4, <1>1, OpUpdates
  <2>3. CmdState(ops[o]) = "asked" /\ CmdState(ops'[o]) = "void"
    BY <2>2, <1>1, <1>9 DEF CmdState, FlushFails, OpInv, Pending
  <2> QED BY <2>3, <1>4, <1>9 DEF FlushFails
<1>10. CASE \/ FlushDelete(o) \/ FlushMoveUp(o) \/ FlushMoveDown(o)
            \/ FlushAdd(o) \/ FlushInsert(o) \/ FlushApply(o)
  <2>1. \/ Ledger!Create(o) \/ Ledger!Delete(o)
        \/ Ledger!Move(o) \/ Ledger!Rewrite(o)
    BY <1>10, FlushTakesEffect
  <2>2. /\ ops[o].pc = "flush"
        /\ \E pc \in {"done", "relist"} : \E made : Commit(o, pc, made)
    BY <1>10 DEF FlushDelete, FlushMoveUp, FlushMoveDown, FlushAdd,
       FlushInsert, FlushApply
  <2> QED BY <2>1, <2>2, <1>6
<1>11. ASSUME ops[o].pc = "relist", ops'[o].pc = "done",
              ops'[o].took = ops[o].took, chain' = chain
       PROVE  UNCHANGED Ledger!ledgerVars
  <2>1. CmdState(ops'[o]) = CmdState(ops[o])
    BY <1>1, <1>11 DEF CmdState, OpInv
  <2> QED BY <2>1, <1>3, <1>11
<1>12. CASE Relist(o)
  <2> DEFINE n == Returned(o, chain)
  <2>1. ops' = [ops EXCEPT ![o] = [ops[o] EXCEPT !.pc = "done",
                                     !.result = "ok", !.opened = n]]
    BY <1>12 DEF Relist
  <2> HIDE DEF n
  <2>3. ops'[o] = [ops[o] EXCEPT !.pc = "done", !.result = "ok", !.opened = n]
    BY <2>1, <1>2
  <2>2. ops'[o].pc = "done" /\ ops'[o].took = ops[o].took
    BY <2>3, <1>1, OpUpdates
  <2> QED BY <2>2, <1>11, <1>12 DEF Relist
<1>13. CASE RelistFails(o)
  <2>1. ops' = [ops EXCEPT ![o] = [ops[o] EXCEPT !.pc = "done",
                                                 !.result = "error"]]
    BY <1>13 DEF RelistFails, Finish
  <2>3. ops'[o] = [ops[o] EXCEPT !.pc = "done", !.result = "error"]
    BY <2>1, <1>2
  <2>2. ops'[o].pc = "done" /\ ops'[o].took = ops[o].took
    BY <2>3, <1>1, OpUpdates
  <2> QED BY <2>2, <1>11, <1>13 DEF RelistFails, Finish
<1> QED BY <1>1, <1>7, <1>8, <1>9, <1>10, <1>12, <1>13 DEF Goroutine

(* A key press asks.                                                       *)
LEMMA KeyPressRefines ==
  ASSUME TypeOK, NEW o \in Cmd, KeyPress(o)
  PROVE  Ledger!Ask(o)
<1>1. \A p \in Cmd \ {o} : ops'[p] = ops[p]
  BY OneCommand
<1>2. ASSUME NEW op, Start(o, op)
      PROVE  ops'[o] = op /\ chain' = chain /\ ops[o].pc = "idle"
  BY <1>2 DEF Start, TypeOK
<1>3. ops[o].pc = "idle" /\ chain' = chain
  BY <1>2 DEF KeyPress, StartDelete, StartMoveUp, StartMoveDown, StartMove,
     StartAdd, StartInsert, StartApply
<1>4. ASSUME ops'[o].kind \in Kind, ops'[o].pc \in {"reread", "flush"},
             ops'[o].took = FALSE
      PROVE  Ledger!Ask(o)
  <2>1. CmdState(ops[o]) = "idle" /\ CmdState(ops'[o]) = "asked"
    BY <1>3, <1>4 DEF CmdState
  <2>2. /\ Promised(ops[o]).state = "idle"
        /\ Promised(ops'[o]).kind \in Kind
        /\ Promised(ops'[o]).state = "asked"
        /\ \A p \in Cmd \ {o} : Promised(ops'[p]) = Promised(ops[p])
        /\ Shown(chain') = Shown(chain)
    BY <1>1, <1>3, <1>4, <2>1 DEF Promised
  <2> QED BY <2>2 DEF Ledger!Ask, Ledger!Kind, Kind
<1>5. CASE StartDelete(o)
  <2>1. PICK i \in DOMAIN view :
          Start(o, [IdleOp EXCEPT !.kind = "delete", !.pc = "reread",
                            !.handle = view[i].handle, !.id = view[i].id])
    BY <1>5 DEF StartDelete
  <2>2. ops'[o] = [IdleOp EXCEPT !.kind = "delete", !.pc = "reread",
                            !.handle = view[i].handle, !.id = view[i].id]
    BY <2>1, <1>2
  <2> QED BY <2>2, <1>4 DEF IdleOp, Kind
<1>6. ASSUME NEW kind \in {"up", "down"}, NEW last, StartMove(o, kind, last)
      PROVE  Ledger!Ask(o)
  <2>1. PICK i \in DOMAIN view :
          Start(o, [IdleOp EXCEPT !.kind = kind, !.pc = "reread",
                            !.handle = view[i].handle, !.id = view[i].id])
    BY <1>6 DEF StartMove
  <2>2. ops'[o] = [IdleOp EXCEPT !.kind = kind, !.pc = "reread",
                            !.handle = view[i].handle, !.id = view[i].id]
    BY <2>1, <1>2
  <2> QED BY <2>2, <1>4 DEF IdleOp, Kind
<1>7. CASE StartAdd(o)
  <2>1. ops'[o] = [IdleOp EXCEPT !.kind = "add", !.pc = "flush"]
    BY <1>2, <1>7 DEF StartAdd
  <2> QED BY <2>1, <1>4 DEF IdleOp, Kind
<1>8. CASE StartInsert(o)
  <2>1. PICK i : Start(o, [IdleOp EXCEPT !.kind = "insert", !.pc = "flush",
                                         !.idx = i, !.list = view])
    BY <1>8 DEF StartInsert
  <2>2. ops'[o] = [IdleOp EXCEPT !.kind = "insert", !.pc = "flush",
                                 !.idx = i, !.list = view]
    BY <2>1, <1>2
  <2> QED BY <2>2, <1>4 DEF IdleOp, Kind
<1>9. CASE StartApply(o)
  <2>1. PICK b, h, x :
          \/ Start(o, [IdleOp EXCEPT !.kind = "apply", !.pc = "flush",
                                     !.body = b, !.handle = h, !.id = x])
          \/ Start(o, [IdleOp EXCEPT !.kind = "apply", !.pc = "flush",
                                  !.body = b])
    BY <1>9 DEF StartApply
  <2>2. \/ ops'[o] = [IdleOp EXCEPT !.kind = "apply", !.pc = "flush",
                                    !.body = b, !.handle = h, !.id = x]
        \/ ops'[o] = [IdleOp EXCEPT !.kind = "apply", !.pc = "flush",
                                 !.body = b]
    BY <2>1, <1>2
  <2> QED BY <2>2, <1>4 DEF IdleOp, Kind
<1> QED BY <1>5, <1>6, <1>7, <1>8, <1>9 DEF KeyPress, StartMoveUp, StartMoveDown

(* A message that arrives settles.                                         *)
LEMMA DeliverRefines ==
  ASSUME IInv, NEW o \in Cmd, Deliver(o)
  PROVE  Ledger!Settle(o)
<1>1. /\ \A p \in Cmd \ {o} : ops'[p] = ops[p]
      /\ ops'[o] = IdleOp /\ ops[o].pc = "done" /\ chain' = chain
  BY OneCommand DEF Deliver, IInv, OpsInv, TypeOK
<1>2. Promised(ops'[o]) = [kind |-> "none", id |-> 0, state |-> "idle"]
  BY <1>1 DEF IdleOp, Promised, CmdState
<1>3. CmdState(ops[o]) \in {"applied", "void"}
  BY <1>1 DEF CmdState
<1>4. [p \in Cmd |-> Promised(ops'[p])]
        = [[p \in Cmd |-> Promised(ops[p])]
             EXCEPT ![o] = [kind |-> "none", id |-> 0, state |-> "idle"]]
  BY <1>1, <1>2
<1> QED BY <1>1, <1>3, <1>4 DEF Ledger!Settle, Promised, Shown

(* Every step of the commands is a step of the ledger or none.             *)
LEMMA LedgerStep ==
  IInv /\ [Next]_vars => [Ledger!LedgerNext]_(Ledger!ledgerVars)
<1> SUFFICES ASSUME IInv, [Next]_vars
             PROVE  Ledger!LedgerNext \/ UNCHANGED Ledger!ledgerVars
  OBVIOUS
<1>1. ASSUME NEW o \in Cmd, KeyPress(o) PROVE Ledger!LedgerNext
  BY <1>1, KeyPressRefines DEF IInv, OpsInv, Ledger!LedgerNext
<1>2. ASSUME NEW o \in Cmd, Goroutine(o)
      PROVE  Ledger!LedgerNext \/ UNCHANGED Ledger!ledgerVars
  BY <1>2, GoroutineRefines DEF Ledger!LedgerNext
<1>3. ASSUME NEW o \in Cmd, Deliver(o) PROVE Ledger!LedgerNext
  BY <1>3, DeliverRefines DEF Ledger!LedgerNext
<1>4. CASE RefreshRules \/ UNCHANGED vars
  BY <1>4 DEF RefreshRules, vars, Ledger!ledgerVars, Promised, CmdState, Shown
<1>5. CASE External
  <2>1. ops' = ops
    BY <1>5 DEF External
  <2> QED BY <2>1 DEF Ledger!LedgerNext, Ledger!Outsider, Ledger!ledgerVars
<1> QED BY <1>1, <1>2, <1>3, <1>4, <1>5 DEF Next

(* The initial states are initial states of the ledger.                    *)
LEMMA LedgerInitially == Init => Ledger!LedgerInit
<1> SUFFICES ASSUME Init PROVE Ledger!LedgerInit
  OBVIOUS
<1>1. /\ InitLen \in Nat /\ IInv /\ chain \in Seq(Rule)
      /\ chain = [i \in 1 .. InitLen |->
                   [handle |-> i, id |-> i, body |-> AcceptBody]]
      /\ \A o \in Cmd : ops[o] = IdleOp
  BY IInvInit, InitLenAssumption, HandleAssumption
     DEF Init, IInv, OpsInv, TypeOK
<1>2. Len(chain) = InitLen /\ \A i \in 1 .. Len(chain) : chain[i].id = i
  BY <1>1
<1>3. Ledger!Ids(Shown(chain)) = 1 .. InitLen /\ Len(Shown(chain)) = InitLen
  <2>1. \A x : x \in Ledger!Ids(Shown(chain))
                <=> \E i \in 1 .. Len(chain) : chain[i].id = x
    BY <1>1, IdsFacts
  <2>2. \A x : x \in Ledger!Ids(Shown(chain)) <=> x \in 1 .. InitLen
    BY <2>1, <1>2
  <2>3. Ledger!Ids(Shown(chain)) = 1 .. InitLen
    BY <2>2
  <2> QED BY <2>3, <1>1, <1>2, ShownFacts
<1>4. Ledger!Cardinality(1 .. InitLen) = InitLen
  <2>1. Ledger!Cardinality(1 .. InitLen) = Cardinality(1 .. InitLen)
    BY DEF Ledger!Cardinality, Cardinality
  <2>2. Cardinality(1 .. InitLen) = IF 1 > InitLen THEN 0 ELSE InitLen - 1 + 1
    BY <1>1, FS_Interval
  <2> QED BY <2>1, <2>2, <1>1
<1>5. \A o \in Cmd :
        Promised(ops[o]) = [kind |-> "none", id |-> 0, state |-> "idle"]
  BY <1>1 DEF Promised, CmdState, IdleOp
<1> QED BY <1>3, <1>4, <1>5 DEF Ledger!LedgerInit

(* nft/nft_linux.go and nft/rule.go: a command is several round trips with *)
(* other commands and other programs between any two of them, and still it *)
(* takes effect at most once, in one step, on the rule it was asked about  *)
(* and on no other.                                                        *)
THEOREM CommandsImplementLedger == Spec => Implements
BY LedgerInitially, LedgerStep, IInvariant, PTL
   DEF Spec, Implements, Ledger!LedgerSpec
=============================================================================
