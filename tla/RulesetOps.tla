----------------------------- MODULE RulesetOps ------------------------------
(***************************************************************************)
(* The commands on tables and chains (nft/nft_linux.go, 203 to 503), each  *)
(* in a goroutine of its own, one action per round trip to the kernel or   *)
(* run of nft(8): create, delete and rename a table, create, delete and    *)
(* update a chain.  Arguments come from a listing that may be old; other   *)
(* commands and other programs change the ruleset between two round trips. *)
(*                                                                         *)
(* A rename of a table and a change of type, hook or priority of a chain   *)
(* are a dump followed by a script built from it.  The script is atomic,   *)
(* the pair is not.  An update with a new name is two transactions.        *)
(***************************************************************************)
EXTENDS KernelRuleset

CONSTANTS
    Cmd,                \* commands that may be in flight together
    MaxKeys,            \* bound: commands started in a behaviour
    MaxOutside          \* bound: changes made by other programs

(* The rest of the world, which is no command of this program. *)
World == "elsewhere"

ASSUME CmdAssumption   == World \notin Cmd
ASSUME BoundAssumption == MaxKeys \in Nat /\ MaxOutside \in Nat

VARIABLES
    tables,             \* the ruleset of the kernel
    seen,               \* the listing the forms and the tree act on
    ops,                \* the commands in flight
    keys, outside,      \* counters of the bounds
    rule,               \* rules made so far, numbered from 1
    gone,               \* rules deleted on purpose, by whomever
    raced               \* rules that changed while a dump held them
vars == <<tables, seen, ops, keys, outside, rule, gone, raced>>

----------------------------------------------------------------------------
(* A command: its kind and arguments, the listing it started from, the     *)
(* step it is at, the dump it took, its audit records, and whether nobody  *)
(* else has changed the ruleset since that listing.                        *)
Kinds == {"createTable", "deleteTable", "renameTable",
          "createChain", "deleteChain", "updateChain"}
Steps == {"flush", "rename", "policy", "dump", "apply", "done", "failed"}
Idle  == [kind |-> "none", at |-> "idle"]

Op(kind, t, n, m, s, step) ==
    [kind |-> kind, at |-> step, table |-> t, chain |-> n, name |-> m,
     spec |-> s, old |-> seen, dump |-> << >>, log |-> << >>,
     calm |-> seen = tables]

InFlight(c) == ops[c].at # "idle"
At(c, step) == ops[c].at = step
Ended(c)    == ops[c].at \in {"done", "failed"}

(* The rules that a dump stands for until its script is applied: those of  *)
(* the whole table for a rename, of one chain for a recreation.            *)
DumpedRules(k, o) ==
    CASE /\ o.at = "apply" /\ o.kind = "renameTable"
         /\ HasTable(k, o.table)          -> RulesOf(k, o.table)
      [] /\ o.at = "apply" /\ o.kind = "updateChain"
         /\ HasChain(k, o.table, o.name)  -> Range(k[o.table][o.name].rules)
      [] OTHER                            -> {}

(* The ruleset becomes k, by the command c or by another program, and o is *)
(* the new state of c.                                                     *)
Differ(A, B)   == (A \ B) \cup (B \ A)
Disturbed(d)   == IF InFlight(d) THEN [ops[d] EXCEPT !.calm = FALSE] ELSE ops[d]
Become(c, k, o) ==
    /\ tables' = k
    /\ raced' = raced \cup
         UNION {Differ(DumpedRules(tables, ops[d]), DumpedRules(k, ops[d])) :
                  d \in Cmd \ {c}}
    /\ ops' = [d \in Cmd |-> IF d = c THEN o
                             ELSE IF k = tables THEN ops[d] ELSE Disturbed(d)]

----------------------------------------------------------------------------
(* The user saves a form or confirms a dialog: the command starts.  Names  *)
(* have passed ValidateIdentifier in the form.                             *)
Start(c, o) ==
    /\ ~InFlight(c)
    /\ keys < MaxKeys
    /\ keys' = keys + 1
    /\ ops' = [ops EXCEPT ![c] = o]
    /\ UNCHANGED <<tables, seen, outside, rule, gone, raced>>

CreateTable(c) == \E t \in TableNames :
    Start(c, Op("createTable", t, NoDecl, NoDecl, Regular, "flush"))

DeleteTable(c) == \E t \in DOMAIN seen :
    Start(c, Op("deleteTable", t, NoDecl, NoDecl, Regular, "flush"))

(* The same name is left to the form, which sends no command. *)
RenameTable(c) == \E t \in DOMAIN seen : \E u \in TableNames \ {t} :
    Start(c, Op("renameTable", t, NoDecl, u, Regular, "dump"))

CreateChain(c) ==
    \E t \in DOMAIN seen : \E n \in ChainNames : \E s \in Specs \cup {Regular} :
        Start(c, Op("createChain", t, n, n, s, "flush"))

DeleteChain(c) == \E t \in DOMAIN seen : \E n \in DOMAIN seen[t] :
    Start(c, Op("deleteChain", t, n, n, Regular, "flush"))

(* Mutant: the policy is compared first, and a new hook with it is lost.   *)
AfterRename_PolicyFirst(old, s) ==
    LET base == NoDecl \notin {s.decl, old.decl}
    IN  CASE base /\ s.policy # old.policy                       -> "policy"
          [] base /\ s.policy = old.policy /\ s.decl # old.decl  -> "dump"
          [] OTHER                                               -> "done"

(* What is left to do once the name is right, decided by comparing the     *)
(* form with the listing it was opened on and not with the kernel.         *)
AfterRename(old, s) ==
    LET base == NoDecl \notin {s.decl, old.decl}
    IN  CASE base /\ s.decl # old.decl                           -> "dump"
          [] base /\ s.decl = old.decl /\ s.policy # old.policy  -> "policy"
          [] OTHER                                               -> "done"

UpdateChain(c) ==
    \E t \in DOMAIN seen : \E n \in DOMAIN seen[t] : \E m \in ChainNames :
        LET old == seen[t][n]
        IN  \E s \in IF old.decl = NoDecl THEN {Regular} ELSE Specs :
              /\ m # n \/ s # [decl |-> old.decl, policy |-> old.policy]
              /\ Start(c, Op("updateChain", t, n, m, s,
                             IF m # n THEN "rename" ELSE AfterRename(old, s)))

----------------------------------------------------------------------------
(* One transaction: accepted and done, or refused (for a reason the model  *)
(* knows or any other) without effect.  Either way it leaves one record in *)
(* the audit log.                                                          *)
Audited(o, tx, result) == [o EXCEPT !.log = Append(@, <<tx, result>>),
                                    !.dump = << >>]

Transact(c, tx, can, k, next, deleted) ==
    /\ \/ /\ can
          /\ Become(c, k, [Audited(ops[c], tx, "ok") EXCEPT !.at = next])
          /\ gone' = gone \cup deleted
       \/ /\ Become(c, tables, [Audited(ops[c], tx, "error") EXCEPT
                                  !.at = "failed"])
          /\ gone' = gone
    /\ UNCHANGED <<seen, keys, outside, rule>>

FlushTable(c) ==
    LET o == ops[c]
    IN  /\ At(c, "flush")
        /\ \/ /\ o.kind = "createTable"
              /\ Transact(c, "create-table", TRUE, AddTable(tables, o.table),
                          "done", {})
           \/ /\ o.kind = "deleteTable"
              /\ Transact(c, "delete-table", CanDelTable(tables, o.table),
                          DelTable(tables, o.table), "done",
                          RulesOf(tables, o.table))

FlushChain(c) ==
    LET o == ops[c]
    IN  /\ At(c, "flush")
        /\ \/ /\ o.kind = "createChain"
              /\ Transact(c, "create-chain",
                          CanAddChain(tables, o.table, o.chain, o.spec),
                          AddChain(tables, o.table, o.chain, o.spec),
                          "done", {})
           \/ /\ o.kind = "deleteChain"
              /\ Transact(c, "delete-chain",
                          CanDelChain(tables, o.table, o.chain),
                          DelChain(tables, o.table, o.chain), "done",
                          Range(tables[o.table][o.chain].rules))

(* Mutant: the rename is left for the record of what comes after it. *)
FlushRename_Unaudited(c) ==
    LET o == ops[c]
    IN  /\ At(c, "rename")
        /\ CanRenameChain(tables, o.table, o.chain, o.name)
        /\ Become(c, RenameChain(tables, o.table, o.chain, o.name),
                  [o EXCEPT !.at =
                     AfterRename(o.old[o.table][o.chain], o.spec)])
        /\ UNCHANGED <<seen, keys, outside, rule, gone>>

FlushRename(c) ==
    LET o == ops[c]
    IN  /\ At(c, "rename")
        /\ Transact(c, "rename-chain",
                    CanRenameChain(tables, o.table, o.chain, o.name),
                    RenameChain(tables, o.table, o.chain, o.name),
                    AfterRename(o.old[o.table][o.chain], o.spec), {})

FlushPolicy(c) ==
    LET o == ops[c]
        s == [decl |-> NoDecl, policy |-> o.spec.policy]
    IN  /\ At(c, "policy")
        /\ Transact(c, "update-chain-policy",
                    CanAddChain(tables, o.table, o.name, s),
                    AddChain(tables, o.table, o.name, s), "done", {})

(* Mutant: the script is built from the listing the program already has.   *)
Dump_Listed(c) ==
    LET o == ops[c]
    IN  /\ At(c, "dump")
        /\ IF o.kind = "renameTable" THEN HasTable(seen, o.table)
           ELSE HasChain(seen, o.table, o.name)
        /\ ops' = [ops EXCEPT
             ![c].at = "apply",
             ![c].dump = IF o.kind = "renameTable" THEN seen[o.table]
                         ELSE Restrict(seen[o.table], {o.name})]
        /\ UNCHANGED <<tables, seen, keys, outside, rule, gone, raced>>

(* nft list table, nft list chain: what they print is what the script will *)
(* hold.  extractChainRules keeps the rules and drops the declaration.     *)
Dump(c) ==
    LET o == ops[c]
    IN  /\ At(c, "dump")
        /\ IF o.kind = "renameTable" THEN HasTable(tables, o.table)
           ELSE HasChain(tables, o.table, o.name)
        /\ ops' = [ops EXCEPT
             ![c].at = "apply",
             ![c].dump = IF o.kind = "renameTable" THEN tables[o.table]
                         ELSE Restrict(tables[o.table], {o.name})]
        /\ UNCHANGED <<tables, seen, keys, outside, rule, gone, raced>>

ApplyMove(c) ==
    LET o == ops[c]
    IN  /\ At(c, "apply") /\ o.kind = "renameTable"
        /\ Transact(c, "rename-table",
                    CanMoveTable(tables, o.table, o.name, o.dump),
                    MoveTable(tables, o.table, o.name, o.dump), "done", {})

ApplyRecreate(c) ==
    LET o == ops[c]
    IN  /\ At(c, "apply") /\ o.kind = "updateChain"
        /\ Transact(c, "recreate-chain",
                    CanRecreate(tables, o.table, o.name),
                    Recreate(tables, o.table, o.name, o.spec,
                             o.dump[o.name].rules), "done", {})

(* No connection, or no dump: an error before there is anything to audit.  *)
NothingSent(c) ==
    /\ ops[c].at \in {"flush", "policy", "dump"}
    /\ ops' = [ops EXCEPT ![c].at = "failed"]
    /\ UNCHANGED <<tables, seen, keys, outside, rule, gone, raced>>

(* The main loop takes the message of the command. *)
Deliver(c) ==
    /\ Ended(c)
    /\ ops' = [ops EXCEPT ![c] = Idle]
    /\ UNCHANGED <<tables, seen, keys, outside, rule, gone, raced>>

(* loadTableTreeCmd *)
Reload ==
    /\ seen # tables
    /\ seen' = tables
    /\ UNCHANGED <<tables, ops, keys, outside, rule, gone, raced>>

----------------------------------------------------------------------------
(* Other programs append rules, delete chains and tables and set policies. *)
Elsewhere(k, deleted) ==
    /\ outside < MaxOutside
    /\ outside' = outside + 1
    /\ Become(World, k, Idle)
    /\ gone' = gone \cup deleted
    /\ UNCHANGED <<seen, keys>>

OutsideAddRule ==
    \E t \in DOMAIN tables : \E n \in DOMAIN tables[t] :
        /\ Elsewhere(AppendRule(tables, t, n, rule + 1), {})
        /\ rule' = rule + 1

OutsideDeleteChain ==
    \E t \in DOMAIN tables : \E n \in DOMAIN tables[t] :
        /\ Elsewhere(DelChain(tables, t, n), Range(tables[t][n].rules))
        /\ UNCHANGED rule

OutsideSetPolicy ==
    \E t \in DOMAIN tables : \E n \in DOMAIN tables[t] : \E p \in Policies :
        /\ tables[t][n].policy \notin {NoPolicy, p}
        /\ Elsewhere([tables EXCEPT ![t][n].policy = p], {})
        /\ UNCHANGED rule

Init ==
    /\ \E t \in TableNames, n \in ChainNames, d \in Decls, p \in Policies :
         tables = [x \in {t} |->
                     [y \in {n} |-> [decl |-> d, policy |-> p,
                                     rules |-> <<1>>]]]
    /\ seen = tables
    /\ ops = [c \in Cmd |-> Idle]
    /\ keys = 0 /\ outside = 0
    /\ rule = 1
    /\ gone = {} /\ raced = {}

Starts(c) == CreateTable(c) \/ DeleteTable(c) \/ RenameTable(c)
             \/ CreateChain(c) \/ DeleteChain(c) \/ UpdateChain(c)
Runs(c) == FlushTable(c) \/ FlushChain(c) \/ FlushRename(c) \/ FlushPolicy(c)
           \/ Dump(c) \/ ApplyMove(c) \/ ApplyRecreate(c) \/ NothingSent(c)
           \/ Deliver(c)
Others  == OutsideAddRule \/ OutsideDeleteChain \/ OutsideSetPolicy
Next == \/ \E c \in Cmd : Starts(c) \/ Runs(c)
        \/ Reload \/ Others

Spec == Init /\ [][Next]_vars

----------------------------------------------------------------------------
(* PROPERTIES *)

(* What a command is made of.                                              *)
Transactions == {"create-table", "delete-table", "rename-table",
                 "create-chain", "delete-chain", "rename-chain",
                 "update-chain-policy", "recreate-chain"}
OpTypeOK(o) ==
    \/ o = Idle
    \/ /\ o.kind \in Kinds /\ o.at \in Steps
       /\ o.table \in TableNames
       /\ {o.chain, o.name} \subseteq ChainNames \cup TableNames \cup {NoDecl}
       /\ o.spec \in Specs \cup {Regular}
       /\ IsRuleset(o.old) /\ IsTable(o.dump)
       /\ o.log \in Seq(Transactions \X {"ok", "error"}) /\ Len(o.log) <= 2
       /\ o.calm \in BOOLEAN
(* Every variable has its type. *)
TypeOK ==
    /\ IsRuleset(tables) /\ IsRuleset(seen)
    /\ \A c \in Cmd : OpTypeOK(ops[c])
    /\ keys \in 0 .. MaxKeys /\ outside \in 0 .. MaxOutside
    /\ rule \in Nat
    /\ gone \subseteq 1 .. rule /\ raced \subseteq 1 .. rule

(* Where a rule stands.                                                    *)
RulesIn(t, n) == IF HasChain(tables, t, n) THEN tables[t][n].rules ELSE << >>
Copies(r) ==
    UNION {{<<t, n, i>> : i \in {j \in DOMAIN RulesIn(t, n) :
                                  RulesIn(t, n)[j] = r}} :
             t \in TableNames, n \in ChainNames}
(* No rule is lost, doubled or brought back by any interleaving of the     *)
(* commands, except a rule that somebody else added, deleted or moved      *)
(* between the dump of its table or chain and the script built from it.    *)
(* The types are part of it.                                               *)
RulesSurvive ==
    TypeOK /\ \A r \in (1 .. rule) \ raced :
        IF r \in gone THEN Copies(r) = {}
        ELSE \E p \in Copies(r) : Copies(r) = {p}

(* What a command promises when nobody interferes: the one step it is for  *)
(* its caller, from the listing it was started on.  A rename to a name     *)
(* that is taken and the creation of a chain that exists promise nothing.  *)
Promised(o) ==
    LET k == o.old
    IN  CASE o.kind = "createTable" ->
               tables = IF HasTable(k, o.table) THEN k
                        ELSE With(k, o.table, << >>)
          [] o.kind = "deleteTable" -> tables = Without(k, o.table)
          [] o.kind = "renameTable" ->
               ~HasTable(k, o.name) =>
                 tables = With(Without(k, o.table), o.name, k[o.table])
          [] o.kind = "createChain" ->
               ~HasChain(k, o.table, o.chain) =>
                 tables = [k EXCEPT ![o.table] =
                             With(@, o.chain, ChainOf(o.spec, << >>))]
          [] o.kind = "deleteChain" ->
               tables = [k EXCEPT ![o.table] = Without(@, o.chain)]
          [] o.kind = "updateChain" ->
               tables = [k EXCEPT ![o.table] =
                           With(Without(@, o.chain), o.name,
                                ChainOf(o.spec, @[o.chain].rules))]
OnlyRenamed(o) ==
    /\ o.kind = "updateChain" /\ o.chain # o.name
    /\ tables = RenameChain(o.old, o.table, o.chain, o.name)

(* A command that nobody interferes with does what it promises if it       *)
(* reports success, and nothing if it reports an error - except that an    *)
(* update may fail after its rename.                                       *)
CalmIsAtomic ==
    \A c \in Cmd : Ended(c) /\ ops[c].calm =>
        IF ops[c].at = "done" THEN Promised(ops[c])
        ELSE tables = ops[c].old \/ OnlyRenamed(ops[c])

(* The records that a step adds, each to the log of a command.             *)
NewRecords(c) ==
    IF Len(ops'[c].log) > Len(ops[c].log) THEN {ops'[c].log[Len(ops'[c].log)]}
    ELSE {}
StepRecords ==
    UNION {NewRecords(c) : c \in {d \in Cmd : InFlight(d) /\ InFlight(d)'}}
(* Whenever the program changes the ruleset, the audit log gains in the    *)
(* same step one record that says ok, and an error is only logged by a     *)
(* step that changes nothing.                                              *)
ChangeAudited ==
    /\ tables' # tables /\ outside' = outside =>
          \E r \in StepRecords : StepRecords = {r} /\ r[2] = "ok"
    /\ (\E r \in StepRecords : r[2] = "error") => tables' = tables
EveryChangeAudited == [][ChangeAudited]_vars
=============================================================================
