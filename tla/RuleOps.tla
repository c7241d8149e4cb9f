------------------------------ MODULE RuleOps -------------------------------
(***************************************************************************)
(* The rule commands of nft/nft_linux.go and nft/rule.go, as the goroutines *)
(* that Bubble Tea runs them in (ui/main_window_stats.go), over one kernel *)
(* chain that other programs write to as well.                             *)
(*                                                                         *)
(* A command is a goroutine that talks to the kernel in several round      *)
(* trips: DeleteRule and MoveRuleUp/Down re-read the chain, then flush a   *)
(* batch; AddNewRuleToChain and InsertNewRuleBefore flush a batch, then    *)
(* list the chain again; ApplyRuleChange only flushes.  Between any two    *)
(* round trips the other commands and the other writers may take steps.    *)
(*                                                                         *)
(* The kernel is external to the repository and is modelled by what the    *)
(* code relies on: a batch is applied atomically or not at all, a handle   *)
(* is never reused, a moved rule is a new kernel rule, and a rule that is  *)
(* replaced keeps its handle.  The fields id, made, took and the variable  *)
(* quiet are history: nothing in a guard reads them.                       *)
(*                                                                         *)
(* Indices are 1-based here and 0-based in the code.                       *)
(***************************************************************************)
EXTENDS Naturals, KernelChain

CONSTANTS
  Cmd,            \* the command goroutines that can be in flight at once
  Body,           \* what a rule can say: its expressions and its comment
  AcceptBody,     \* the minimal accept rule that "a" and "i" create
  InitLen,        \* how many rules the chain starts with
  MaxHandle,      \* bound: the last handle the kernel gives out
  MaxKeys,        \* bound: how many commands are started
  MaxOutside      \* bound: how many batches other programs send

ASSUME BodyAssumption    == AcceptBody \in Body
ASSUME HandleAssumption  == MaxHandle \in Nat
ASSUME InitLenAssumption == InitLen \in 0 .. MaxHandle
ASSUME BoundAssumption   == MaxKeys \in Nat /\ MaxOutside \in Nat

VARIABLES
  chain,          \* the kernel's chain: a sequence of rules
  nextHandle,     \* the kernel's next free handle
  view,           \* the rules the chain view last listed (chainView.rules)
  ops,            \* for each command, where it is and what it holds
  quiet,          \* history: the commands that nobody else disturbed
  keys, outside   \* how much of MaxKeys and MaxOutside is used

vars == <<chain, nextHandle, view, ops, quiet, keys, outside>>

Kind    == {"delete", "up", "down", "add", "insert", "apply"}
Creating == {"add", "insert"}
Guarded  == {"delete", "up", "down"}
PC      == {"idle", "reread", "flush", "relist", "done"}

(* A rule: its handle, its content, and which rule of the user's it is (a  *)
(* move gives the same rule a new handle).                                 *)
Rule == [handle : Nat, id : Nat, body : Body]

Op == [kind : Kind \cup {"none"}, pc : PC, handle : Nat, id : Nat, idx : Nat,
       list : Seq(Rule), body : Body, made : Nat, opened : Nat,
       took : BOOLEAN, log : Seq({"ok", "error"}),
       result : {"none", "ok", "error", "gone"}]

IdleOp == [kind |-> "none", pc |-> "idle", handle |-> 0, id |-> 0, idx |-> 0,
           list |-> <<>>, body |-> AcceptBody, made |-> 0, opened |-> 0,
           took |-> FALSE, log |-> <<>>, result |-> "none"]

(* Every variable has its type.                                            *)
TypeOK ==
  /\ chain \in Seq(Rule)
  /\ nextHandle \in Nat \ {0}
  /\ view \in Seq(Rule)
  /\ ops \in [Cmd -> Op]
  /\ quiet \in SUBSET Cmd
  /\ keys \in 0 .. MaxKeys
  /\ outside \in 0 .. MaxOutside

-----------------------------------------------------------------------------
(* A definition with an underscore in its name is a broken form of the one *)
(* named before the underscore.  No behaviour uses it: it stands for a bug *)
(* that one of the properties below would notice.                          *)

NewRule(b) == [handle |-> nextHandle, id |-> nextHandle, body |-> b]

HandleLeft == nextHandle <= MaxHandle
TakeHandle == HandleLeft /\ nextHandle' = nextHandle + 1

-----------------------------------------------------------------------------
Init ==
  /\ chain = [i \in 1 .. InitLen |->
                [handle |-> i, id |-> i, body |-> AcceptBody]]
  /\ nextHandle = InitLen + 1
  /\ view = chain
  /\ ops = [o \in Cmd |-> IdleOp]
  /\ quiet = {}
  /\ keys = 0
  /\ outside = 0

-----------------------------------------------------------------------------
(* A key press in the chain view or the rule editor starts a goroutine; it *)
(* captures the rule under the cursor, or a copy of the view's list.       *)

Start(o, op) ==
  /\ ops[o].pc = "idle"
  /\ ops' = [ops EXCEPT ![o] = op]
  /\ quiet' = IF view = chain THEN quiet \cup {o} ELSE quiet
  /\ keys < MaxKeys /\ keys' = keys + 1
  /\ UNCHANGED <<chain, nextHandle, view, outside>>

StartDelete(o) ==
  \E i \in DOMAIN view :
    Start(o, [IdleOp EXCEPT !.kind = "delete", !.pc = "reread",
                            !.handle = view[i].handle, !.id = view[i].id])

(* At the end of the list the key does nothing. *)
StartMove(o, kind, last) ==
  \E i \in DOMAIN view \ {last} :
    Start(o, [IdleOp EXCEPT !.kind = kind, !.pc = "reread",
                            !.handle = view[i].handle, !.id = view[i].id])

StartMoveUp(o)   == StartMove(o, "up", 1)
StartMoveDown(o) == StartMove(o, "down", Len(view))

StartAdd(o) == Start(o, [IdleOp EXCEPT !.kind = "add", !.pc = "flush"])

StartInsert(o) ==
  \E i \in 1 .. (IF view = <<>> THEN 1 ELSE Len(view)) :
    Start(o, [IdleOp EXCEPT !.kind = "insert", !.pc = "flush",
                            !.idx = i, !.list = view])

(* The editor saves the rule it holds; a rule that was created but could   *)
(* not be listed back has no handle yet.                                   *)
StartApply(o) ==
  \E b \in Body :
    \/ \E i \in DOMAIN view :
         Start(o, [IdleOp EXCEPT !.kind = "apply", !.pc = "flush", !.body = b,
                                 !.handle = view[i].handle,
                                 !.id = view[i].id])
    \/ Start(o, [IdleOp EXCEPT !.kind = "apply", !.pc = "flush", !.body = b])

-----------------------------------------------------------------------------
(* ensureRuleCurrent and refreshMoveContext: list the chain, look for the  *)
(* handle, and go on with the fresh list.                                  *)

Finish(o, result) ==
  /\ ops' = [ops EXCEPT ![o].pc = "done", ![o].result = result]
  /\ UNCHANGED <<chain, nextHandle, view, quiet, keys, outside>>

Reread(o) ==
  /\ ops[o].pc = "reread"
  /\ Has(chain, ops[o].handle)
  /\ ops' = [ops EXCEPT ![o].pc = "flush", ![o].list = chain,
                        ![o].idx = Find(chain, ops[o].handle)]
  /\ UNCHANGED <<chain, nextHandle, view, quiet, keys, outside>>

RereadGone_Ignored(o) ==
  /\ ops[o].pc = "reread"
  /\ ~Has(chain, ops[o].handle)
  /\ Finish(o, "ok")

RereadGone(o) ==
  /\ ops[o].pc = "reread"
  /\ ~Has(chain, ops[o].handle)
  /\ Finish(o, "gone")

RereadFails(o) == ops[o].pc = "reread" /\ Finish(o, "error")

(* The fresh list already has the rule at the end it was to move towards.  *)
AtTheEnd(o) ==
  \/ ops[o].kind = "up" /\ ops[o].idx = 1
  \/ ops[o].kind = "down" /\ ops[o].idx = Len(ops[o].list)

NowhereToGo(o) == ops[o].pc = "flush" /\ AtTheEnd(o) /\ Finish(o, "ok")

(* nftables.New fails: there is no connection to send a batch over. *)
ConnectFails(o) == ops[o].pc = "flush" /\ ~AtTheEnd(o) /\ Finish(o, "error")

-----------------------------------------------------------------------------
(* Flush: the kernel applies the whole batch, and the outcome is audited.  *)

Commit(o, pc, made) ==
  /\ ops' = [ops EXCEPT ![o].pc = pc, ![o].made = made, ![o].took = TRUE,
                        ![o].log = Append(@, "ok"),
                        ![o].result = IF pc = "done" THEN "ok" ELSE "none"]
  /\ quiet' = quiet \cap {o}
  /\ UNCHANGED <<view, keys, outside>>

FlushDelete(o) ==
  /\ ops[o].pc = "flush" /\ ops[o].kind = "delete"
  /\ Has(chain, ops[o].handle)
  /\ chain' = DelRule(chain, ops[o].handle)
  /\ Commit(o, "done", 0)
  /\ UNCHANGED nextHandle

(* The rule as the re-read saw it, about to get its new handle. *)
Moved(o) == [ops[o].list[ops[o].idx] EXCEPT !.handle = nextHandle]

FlushMoveUp(o) ==
  /\ ops[o].pc = "flush" /\ ops[o].kind = "up" /\ ops[o].idx > 1
  /\ Has(chain, ops[o].handle)
  /\ LET p    == ops[o].list[ops[o].idx - 1].handle
         rest == DelRule(chain, ops[o].handle)
     IN  Has(rest, p) /\ chain' = InsertBefore(rest, p, Moved(o))
  /\ TakeHandle
  /\ Commit(o, "done", 0)

FlushMoveDown(o) ==
  /\ ops[o].pc = "flush" /\ ops[o].kind = "down"
  /\ ops[o].idx < Len(ops[o].list)
  /\ Has(chain, ops[o].handle)
  /\ LET p    == ops[o].list[ops[o].idx + 1].handle
         rest == DelRule(chain, ops[o].handle)
     IN  Has(rest, p) /\ chain' = AddAfter(rest, p, Moved(o))
  /\ TakeHandle
  /\ Commit(o, "done", 0)

FlushAdd(o) ==
  /\ ops[o].pc = "flush" /\ ops[o].kind = "add"
  /\ chain' = Append(chain, NewRule(AcceptBody))
  /\ TakeHandle
  /\ Commit(o, "relist", nextHandle)

(* Mutant: the new rule goes where the index is by now. *)
FlushInsert_AtIndex(o) ==
  /\ ops[o].pc = "flush" /\ ops[o].kind = "insert"
  /\ ops[o].idx <= Len(chain) + 1
  /\ chain' = InsertAt(chain, ops[o].idx, NewRule(AcceptBody))
  /\ TakeHandle
  /\ Commit(o, "relist", nextHandle)

(* Before the first rule: at the head of the chain.  Before a later one:   *)
(* after its predecessor in the caller's list, which nothing has re-read.  *)
FlushInsert(o) ==
  /\ ops[o].pc = "flush" /\ ops[o].kind = "insert"
  /\ IF ops[o].idx = 1
     THEN chain' = InsertAt(chain, 1, NewRule(AcceptBody))
     ELSE LET p == ops[o].list[ops[o].idx - 1].handle
          IN  /\ Has(chain, p)
              /\ chain' = AddAfter(chain, p, NewRule(AcceptBody))
  /\ TakeHandle
  /\ Commit(o, "relist", nextHandle)

(* AddRule with a handle replaces the rule, without one it appends. *)
FlushApply(o) ==
  /\ ops[o].pc = "flush" /\ ops[o].kind = "apply"
  /\ IF ops[o].handle = 0
     THEN /\ chain' = Append(chain, NewRule(ops[o].body))
          /\ TakeHandle
     ELSE /\ Has(chain, ops[o].handle)
          /\ chain' = Replace(chain, ops[o].handle, ops[o].body)
          /\ UNCHANGED nextHandle
  /\ Commit(o, "done", 0)

FlushFails_LogsOk(o) ==
  /\ ops[o].pc = "flush" /\ ~AtTheEnd(o)
  /\ ops' = [ops EXCEPT ![o].pc = "done", ![o].result = "error",
                        ![o].log = Append(@, "ok")]
  /\ UNCHANGED <<chain, nextHandle, view, quiet, keys, outside>>

(* The kernel refuses the batch: a handle in it is gone, or any other      *)
(* reason of its own.  Nothing of the batch is applied.                    *)
FlushFails(o) ==
  /\ ops[o].pc = "flush" /\ ~AtTheEnd(o)
  /\ ops' = [ops EXCEPT ![o].pc = "done", ![o].result = "error",
                        ![o].log = Append(@, "error")]
  /\ UNCHANGED <<chain, nextHandle, view, quiet, keys, outside>>

-----------------------------------------------------------------------------
(* AddNewRuleToChain and InsertNewRuleBefore list the chain again and      *)
(* return one of its rules; with no rule in the list they return the one   *)
(* they sent, which has no handle.                                         *)

Returned_Last(o, fresh) == IF fresh = <<>> THEN 0 ELSE fresh[Len(fresh)].id

Returned(o, fresh) ==
  CASE fresh = <<>> -> 0
    [] ops[o].kind = "insert" /\ ops[o].idx \in DOMAIN fresh
         -> fresh[ops[o].idx].id
    [] OTHER -> fresh[Len(fresh)].id

Relist(o) ==
  /\ ops[o].pc = "relist"
  /\ ops' = [ops EXCEPT ![o].pc = "done", ![o].result = "ok",
                        ![o].opened = Returned(o, chain)]
  /\ UNCHANGED <<chain, nextHandle, view, quiet, keys, outside>>

RelistFails(o) == ops[o].pc = "relist" /\ Finish(o, "error")

(* The goroutine's message reaches the main loop.  After a delete or a     *)
(* move the chain view lists the chain again; if that fails it keeps the   *)
(* list it has.                                                            *)
Deliver(o) ==
  /\ ops[o].pc = "done"
  /\ ops' = [ops EXCEPT ![o] = IdleOp]
  /\ quiet' = quiet \ {o}
  /\ \/ ops[o].kind \in Guarded /\ ops[o].result = "ok" /\ view' = chain
     \/ UNCHANGED view
  /\ UNCHANGED <<chain, nextHandle, keys, outside>>

(* Coming back to the chain view from a rule lists the chain again. *)
RefreshRules ==
  /\ view # chain
  /\ view' = chain
  /\ UNCHANGED <<chain, nextHandle, ops, quiet, keys, outside>>

-----------------------------------------------------------------------------
(* Any other program that writes to this chain, one batch at a time. *)

External ==
  /\ \/ /\ \E i \in 1 .. Len(chain) + 1 :
             chain' = InsertAt(chain, i, NewRule(AcceptBody))
        /\ TakeHandle
     \/ /\ \E i \in DOMAIN chain : chain' = RemoveAt(chain, i)
        /\ UNCHANGED nextHandle
     \/ /\ \E i \in DOMAIN chain, b \in Body \ {AcceptBody} :
             chain' = [chain EXCEPT ![i].body = b]
        /\ UNCHANGED nextHandle
  /\ quiet' = {}
  /\ outside < MaxOutside /\ outside' = outside + 1
  /\ UNCHANGED <<view, ops, keys>>

KeyPress(o) ==
  \/ StartDelete(o) \/ StartMoveUp(o) \/ StartMoveDown(o)
  \/ StartAdd(o) \/ StartInsert(o) \/ StartApply(o)

Goroutine(o) ==
  \/ Reread(o) \/ RereadGone(o) \/ RereadFails(o) \/ NowhereToGo(o)
  \/ ConnectFails(o)
  \/ FlushDelete(o) \/ FlushMoveUp(o) \/ FlushMoveDown(o)
  \/ FlushAdd(o) \/ FlushInsert(o) \/ FlushApply(o) \/ FlushFails(o)
  \/ Relist(o) \/ RelistFails(o)

Next ==
  \/ \E o \in Cmd : KeyPress(o) \/ Goroutine(o) \/ Deliver(o)
  \/ RefreshRules
  \/ External

Spec == Init /\ [][Next]_vars

-----------------------------------------------------------------------------
(* Properties.                                                             *)

(* No interleaving of moves, inserts and saves leaves two copies of a rule *)
(* in the chain, or two rules with one handle.                             *)
NoRuleTwice ==
  \A i, j \in DOMAIN chain :
    chain[i].id = chain[j].id \/ chain[i].handle = chain[j].handle => i = j

(* The audit log (nft/audit.go): a mutation the kernel applied has exactly *)
(* one record, which says ok; one the kernel refused has exactly one,      *)
(* which says error; nothing else is recorded.                             *)
AuditTellsTheTruth ==
  \A o \in Cmd :
    /\ ops[o].took => ops[o].log = <<"ok">>
    /\ ~ops[o].took => ops[o].log \in {<<>>, <<"error">>}
    /\ ops[o].log = <<"error">> => ops[o].result = "error"

(* The commands that change an existing rule never report an error for a   *)
(* change that took effect, nor success for one that did not (a move that  *)
(* found its rule at the end of the chain has nothing to change).          *)
ErrorMeansNoEffect ==
  \A o \in Cmd :
    ops[o].pc = "done" /\ ops[o].kind \notin Creating =>
      /\ ops[o].took => ops[o].result = "ok"
      /\ ops[o].result = "ok" /\ ops[o].kind \in {"delete", "apply"}
            => ops[o].took

(* If nobody else wrote to the chain, and the list the command was started *)
(* from was up to date, the rule that AddNewRuleToChain and                *)
(* InsertNewRuleBefore return, and the editor opens, is the one they made. *)
QuietReturnIsCreated ==
  \A o \in Cmd :
    ops[o].pc = "done" /\ ops[o].result = "ok" /\ o \in quiet
      /\ ops[o].kind \in Creating => ops[o].opened = ops[o].made

(* A rule that a move takes elsewhere lands right beside the neighbour it  *)
(* had when the command last read the chain, on the other side of it.      *)
BesideNeighbour(o) ==
  LET l == ops[o].list
      k == ops[o].idx
      n == IF ops[o].kind = "up" THEN k - 1 ELSE k + 1
      At(s, x) == CHOOSE i \in DOMAIN s : s[i].id = x
  IN  /\ l[n].id \in {chain'[i].id : i \in DOMAIN chain'}
      /\ At(chain', l[k].id)
           = IF ops[o].kind = "up" THEN At(chain', l[n].id) - 1
                                   ELSE At(chain', l[n].id) + 1

MoveLandsBesideNeighbour ==
  [][\A o \in Cmd :
       ops[o].kind \in {"up", "down"} /\ ~ops[o].took /\ ops'[o].took
         => BesideNeighbour(o)]_vars

(* InsertNewRuleBefore names the rule before the cursor by the handle it   *)
(* had in the view's list, however old that list is: the new rule lands    *)
(* right behind that rule, wherever it is by now, or is refused; it never  *)
(* lands behind another one.                                               *)
BehindListed(o) ==
  LET k  == ops[o].idx
      at == CHOOSE i \in DOMAIN chain' : chain'[i].id = ops'[o].made
  IN  IF k = 1 THEN at = 1
               ELSE at > 1 /\ chain'[at - 1].id = ops[o].list[k - 1].id

InsertLandsBehindListed ==
  [][\A o \in Cmd :
       ops[o].kind = "insert" /\ ~ops[o].took /\ ops'[o].took
         => BehindListed(o)]_vars

(* The commands implement RuleLedger: identities for handles, and one step *)
(* for the round trips.                                                    *)
CmdState(op) ==
  CASE op.pc = "idle"                           -> "idle"
    [] op.pc # "idle" /\ op.took                -> "applied"
    [] op.pc \in {"reread", "flush"} /\ ~op.took -> "asked"
    [] OTHER                                    -> "void"

Shown(s) == [i \in DOMAIN s |-> [id |-> s[i].id, body |-> s[i].body]]

Promised(op) == [kind |-> op.kind, id |-> op.id, state |-> CmdState(op)]

Ledger == INSTANCE RuleLedger WITH
  chain <- Shown(chain),
  cmd   <- [o \in Cmd |-> Promised(ops[o])]

Implements == Ledger!LedgerSpec

=============================================================================
