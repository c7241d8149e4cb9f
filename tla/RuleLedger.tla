----------------------------- MODULE RuleLedger -----------------------------
(***************************************************************************)
(* What the rule commands of nftui promise the user of a chain.            *)
(*                                                                         *)
(* There are no handles, no re-reads and no netlink batches here: a chain  *)
(* is a sequence of rules known by identity, and a command that was asked  *)
(* for either takes effect once, in one step, on the rule it was asked     *)
(* about and on no other, or it leaves the chain alone.  Anybody else who  *)
(* may write to the ruleset (nft(8), another nftui) can change the chain   *)
(* at any time.  RuleOps implements this specification.                    *)
(***************************************************************************)
EXTENDS Naturals, Sublists

CONSTANT Cmd            \* the commands that can be in flight at once

VARIABLES
  chain,                \* the rules, in order: records with an id and a body
  cmd                   \* for each command: its kind, its rule, its state

ledgerVars == <<chain, cmd>>

Kind  == {"delete", "up", "down", "add", "insert", "apply"}
State == {"idle", "asked", "applied", "void"}

Ids(s) == {s[i].id : i \in DOMAIN s}

(* The chain without the rule x. *)
Others(s, x) == Kept(s, {i \in DOMAIN s : s[i].id # x})

(* A command that creates its rule: an append, an insert, or the save of a *)
(* rule that never had a handle.                                           *)
Creates(o) == cmd[o].kind \in {"add", "insert"} \/ cmd[o].id = 0

LedgerInit ==
  /\ Cardinality(Ids(chain)) = Len(chain)
  /\ cmd = [o \in Cmd |-> [kind |-> "none", id |-> 0, state |-> "idle"]]

(* The user asks for a command. *)
Ask(o) ==
  /\ cmd[o].state = "idle"
  /\ cmd'[o].kind \in Kind
  /\ cmd'[o].state = "asked"
  /\ \A p \in Cmd \ {o} : cmd'[p] = cmd[p]
  /\ chain' = chain

Become(o, s) == cmd' = [cmd EXCEPT ![o].state = s]

(* Only the rule the command is about is touched: the others keep their    *)
(* order and their contents.                                               *)
Create(o) ==
  /\ Creates(o)
  /\ \E x \in Ids(chain') \ Ids(chain) : Others(chain', x) = chain
  /\ Len(chain') = Len(chain) + 1

Delete(o) ==
  /\ cmd[o].kind = "delete"
  /\ cmd[o].id \in Ids(chain)
  /\ chain' = Others(chain, cmd[o].id)

Move(o) ==
  /\ cmd[o].kind \in {"up", "down"}
  /\ cmd[o].id \in Ids(chain) \cap Ids(chain')
  /\ Len(chain') = Len(chain)
  /\ Others(chain', cmd[o].id) = Others(chain, cmd[o].id)

Rewrite(o) ==
  /\ cmd[o].kind = "apply"
  /\ cmd[o].id \in Ids(chain)
  /\ Len(chain') = Len(chain)
  /\ \A i \in DOMAIN chain :
        IF chain[i].id = cmd[o].id THEN chain'[i].id = chain[i].id
                                   ELSE chain'[i] = chain[i]

TakeEffect(o) ==
  /\ cmd[o].state = "asked"
  /\ Create(o) \/ Delete(o) \/ Move(o) \/ Rewrite(o)
  /\ Become(o, "applied")

GiveUp(o) ==
  /\ cmd[o].state = "asked"
  /\ Become(o, "void")
  /\ chain' = chain

Settle(o) ==
  /\ cmd[o].state \in {"applied", "void"}
  /\ cmd' = [cmd EXCEPT ![o] = [kind |-> "none", id |-> 0, state |-> "idle"]]
  /\ chain' = chain

(* Somebody else edits the ruleset. *)
Outsider == cmd' = cmd /\ chain' # chain

LedgerNext ==
  \/ \E o \in Cmd : Ask(o) \/ TakeEffect(o) \/ GiveUp(o) \/ Settle(o)
  \/ Outsider

LedgerSpec == LedgerInit /\ [][LedgerNext]_ledgerVars
=============================================================================
