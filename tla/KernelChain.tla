----------------------------- MODULE KernelChain ----------------------------
(***************************************************************************)
(* Lists of rules, and what the messages of a netlink batch do to one.     *)
(*                                                                         *)
(* A rule is a record with at least a handle and a body.  DelRule,         *)
(* InsertRule with a position and AddRule with a position or a handle are  *)
(* the calls nft/nft_linux.go makes on a connection; the kernel that       *)
(* carries them out is external to the repository.  Each takes a list that *)
(* Has the handle it names.                                                *)
(***************************************************************************)
EXTENDS SequencesExt

Has(s, h) == \E i \in DOMAIN s : s[i].handle = h

(* A definition with an underscore in its name is a broken form of the one *)
(* named before the underscore; no behaviour uses it.                      *)

Find_First(s, h) == 1

(* findRuleByHandle: the position of the rule with handle h. *)
Find(s, h) == CHOOSE i \in DOMAIN s : s[i].handle = h

DelRule_Keep(s, h)        == s
AddAfter_Before(s, p, r)  == InsertAt(s, Find(s, p), r)

DelRule(s, h)         == RemoveAt(s, Find(s, h))
InsertBefore(s, p, r) == InsertAt(s, Find(s, p), r)
AddAfter(s, p, r)     == InsertAt(s, Find(s, p) + 1, r)
Replace(s, h, b)      == [s EXCEPT ![Find(s, h)].body = b]
=============================================================================
