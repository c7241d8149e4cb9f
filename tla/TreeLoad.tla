------------------------------ MODULE TreeLoad ------------------------------
(***************************************************************************)
(* How the tree of chains follows the kernel: loadTableTreeCmd and         *)
(* loadRulesOfChainCmd (ui/main_window_stats.go) and the handlers of their *)
(* answers (ui/main_window.go).                                            *)
(*                                                                         *)
(* A change made through the tree's own dialogs asks for a new skeleton of *)
(* the tree; when the skeleton arrives, the rules of every chain in it are *)
(* asked for one chain at a time.  Each load reads the kernel at some      *)
(* moment of its own and its answer arrives at another, in any order, so   *)
(* that loads of several changes overlap.                                  *)
(*                                                                         *)
(* The rules of a chain are a version number: 0 for no chain, and a new    *)
(* number for every change.  The tree has one table, whose chains one call *)
(* lists.                                                                  *)
(***************************************************************************)
EXTENDS Naturals, Bags

CONSTANTS
  Chain,          \* the chains that may exist
  InitChains,     \* those that exist when the program starts
  Loading,        \* the rules of a row that have not been loaded
  MaxVersion      \* bound: the last version

ASSUME ChainAssumption   == InitChains \subseteq Chain
ASSUME LoadingAssumption == Loading \notin Nat
ASSUME VersionAssumption == MaxVersion \in Nat \ {0}

VARIABLES
  kernel,         \* the version of each chain's rules, 0 if there is none
  version,        \* the last version given
  rows,           \* the tree: chain -> the rules its row counts, or Loading
  flights,        \* the loads and answers on their way, a bag
  calm,           \* history: no change overlapped another or its loads,
                  \*   nothing failed, and nobody else has written
  refreshed       \* history: "r" was pressed after the last change

treeVars == <<kernel, version, rows, flights, calm, refreshed>>

-----------------------------------------------------------------------------
(* Messages: a change that succeeded, and the two loads with their answers *)
(* (chains: the skeleton; rules: a chain's version, 0 for an empty list).  *)

Changed      == [kind |-> "changed"]
LoadTree     == [kind |-> "loadTree"]
Skeleton(S)  == [kind |-> "skeleton", chains |-> S]
LoadRules(c) == [kind |-> "loadRules", chain |-> c]
Rules(c, v)  == [kind |-> "rules", chain |-> c, version |-> v]

Message ==
  {Changed, LoadTree}
    \cup {Skeleton(S) : S \in SUBSET Chain}
    \cup {LoadRules(c) : c \in Chain}
    \cup {Rules(c, v) : c \in Chain, v \in 0 .. MaxVersion}

Existing == {c \in Chain : kernel[c] # 0}

(* Every variable has its type.                                            *)
TreeTypeOK ==
  /\ kernel \in [Chain -> 0 .. MaxVersion]
  /\ version \in 0 .. MaxVersion
  /\ DOMAIN rows \subseteq Chain
  /\ \A c \in DOMAIN rows : rows[c] \in {Loading} \cup 0 .. MaxVersion
  /\ IsABag(flights) /\ DOMAIN flights \subseteq Message
  /\ calm \in BOOLEAN /\ refreshed \in BOOLEAN

(* A definition with an underscore in its name is a broken form of the one *)
(* named before the underscore; no behaviour uses it.                      *)

RuleLoads(S) == SetToBag({LoadRules(c) : c \in S})

(* initialTableTreeModel reads the skeleton before the program starts, and *)
(* Init asks for the rules of each chain.                                  *)
TreeInit ==
  /\ kernel = [c \in Chain |-> IF c \in InitChains THEN 1 ELSE 0]
  /\ version = 1
  /\ rows = [c \in InitChains |-> Loading]
  /\ flights = RuleLoads(InitChains)
  /\ calm = TRUE /\ refreshed = FALSE

-----------------------------------------------------------------------------
(* A chain is created, changed or deleted. *)

Change(c) ==
  /\ version < MaxVersion /\ version' = version + 1
  /\ \/ kernel' = [kernel EXCEPT ![c] = version']
     \/ kernel[c] # 0 /\ kernel' = [kernel EXCEPT ![c] = 0]
  /\ refreshed' = FALSE

(* By a dialog of the tree or a form it opens: a message will say so. *)
TreeChange(c) ==
  /\ Change(c)
  /\ flights' = flights (+) SetToBag({Changed})
  /\ calm' = (calm /\ flights = EmptyBag)
  /\ UNCHANGED rows

(* By the chain view or the rule editor, whose messages the tree does not  *)
(* take, or by another program.                                            *)
OtherChange(c) ==
  /\ Change(c)
  /\ calm' = FALSE
  /\ UNCHANGED <<rows, flights>>

(* The kernel changes and the goroutines read it; the main loop takes what *)
(* they send.  Take: one message goes and others come.                     *)
Take(m, others) ==
  /\ m \in DOMAIN flights
  /\ flights' = (flights (-) SetToBag({m})) (+) others

ChangedMsg_NoReload ==
  /\ Take(Changed, EmptyBag)
  /\ UNCHANGED <<kernel, version, rows, calm, refreshed>>

(* tableRenamedMsg, chainUpdatedMsg and all the others that say that the   *)
(* ruleset changed.                                                        *)
ChangedMsg ==
  /\ Take(Changed, SetToBag({LoadTree}))
  /\ UNCHANGED <<kernel, version, rows, calm, refreshed>>

loadTableTreeCmd ==
  /\ Take(LoadTree, SetToBag({Skeleton(Existing)}))
  /\ UNCHANGED <<kernel, version, rows, calm, refreshed>>

(* The tables cannot be listed: an error takes the place of the skeleton;  *)
(* or the chains cannot, and the table is taken to have none.              *)
loadTableTreeFails ==
  /\ Take(LoadTree, EmptyBag) \/ Take(LoadTree, SetToBag({Skeleton({})}))
  /\ calm' = FALSE
  /\ UNCHANGED <<kernel, version, rows, refreshed>>

tableTreeRefreshedMsg_NewChainsOnly ==
  \E S \in SUBSET Chain :
    /\ Take(Skeleton(S), RuleLoads(S \ DOMAIN rows))
    /\ rows' = [c \in S |-> Loading]
    /\ UNCHANGED <<kernel, version, calm, refreshed>>

(* Every row of the new skeleton starts without its rules. *)
tableTreeRefreshedMsg ==
  \E S \in SUBSET Chain :
    /\ Take(Skeleton(S), RuleLoads(S))
    /\ rows' = [c \in S |-> Loading]
    /\ UNCHANGED <<kernel, version, calm, refreshed>>

(* A chain that is gone has no rules to list. *)
loadRulesOfChainCmd(c) ==
  /\ Take(LoadRules(c), SetToBag({Rules(c, kernel[c])}))
  /\ UNCHANGED <<kernel, version, rows, calm, refreshed>>

loadRulesOfChainFails_Dropped(c) ==
  /\ Take(LoadRules(c), EmptyBag)
  /\ calm' = FALSE
  /\ UNCHANGED <<kernel, version, rows, refreshed>>

(* Errors are swallowed: the answer is an empty list. *)
loadRulesOfChainFails(c) ==
  /\ Take(LoadRules(c), SetToBag({Rules(c, 0)}))
  /\ calm' = FALSE
  /\ UNCHANGED <<kernel, version, rows, refreshed>>

(* A message for a chain without a row is dropped. *)
chainRulesLoadedMsg(c) ==
  \E v \in 0 .. MaxVersion :
    /\ Take(Rules(c, v), EmptyBag)
    /\ rows' = [d \in DOMAIN rows |-> IF d = c THEN v ELSE rows[d]]
    /\ UNCHANGED <<kernel, version, calm, refreshed>>

(* "r" reloads the numbers above the tree, and not the tree. *)
RefreshNumbers ==
  /\ ~refreshed /\ refreshed' = TRUE
  /\ UNCHANGED <<kernel, version, rows, flights, calm>>

TreeStep ==
  ChangedMsg \/ loadTableTreeCmd \/ loadTableTreeFails \/ tableTreeRefreshedMsg

Lists(c) == loadRulesOfChainCmd(c) \/ loadRulesOfChainFails(c)

TreeNext ==
  \/ \E c \in Chain : TreeChange(c) \/ OtherChange(c)
  \/ TreeStep
  \/ \E c \in Chain : Lists(c) \/ chainRulesLoadedMsg(c)
  \/ RefreshNumbers

(* Go runs every goroutine and Bubble Tea takes every message: the listing *)
(* of a chain comes to an end, and so does the wait of its answer.         *)
Fairness ==
  \A c \in Chain : WF_treeVars(Lists(c)) /\ WF_treeVars(chainRulesLoadedMsg(c))

TreeSpec     == TreeInit /\ [][TreeNext]_treeVars
FairSpec == TreeSpec /\ Fairness

-----------------------------------------------------------------------------
(* Properties.                                                             *)

(* A row that says "loading" will be filled: its own load or an answer to  *)
(* it is on its way, whichever refresh replaced whichever.  The types are  *)
(* part of it.                                                             *)
LoadingIsOnItsWay ==
  TreeTypeOK /\ \A c \in DOMAIN rows :
    rows[c] = Loading =>
      \/ LoadRules(c) \in DOMAIN flights
      \/ \E v \in 0 .. MaxVersion : Rules(c, v) \in DOMAIN flights

(* So every row is filled in the end, even if every listing of its rules   *)
(* fails.                                                                  *)
RowsFill ==
  \A c \in Chain :
    (c \in DOMAIN rows /\ rows[c] = Loading)
      ~> (c \notin DOMAIN rows \/ rows[c] # Loading)

Settled == flights = EmptyBag

Agrees ==
  /\ DOMAIN rows = Existing
  /\ \A c \in DOMAIN rows : rows[c] = kernel[c]

(* After changes made one at a time through the tree, each followed by its *)
(* loads to the end, the tree shows the kernel's chains and their rules.   *)
CalmTreeAgrees == Settled /\ calm => Agrees

=============================================================================
