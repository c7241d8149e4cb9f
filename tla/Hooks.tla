------------------------------- MODULE Hooks ---------------------------------
(***************************************************************************)
(* Families, chain types and hooks: what the forms offer (nft/chain.go),   *)
(* the number each hook name is sent as, and what that number means to the *)
(* kernel.  A number means another hook in another family, and the         *)
(* conversions between names and numbers do not look at the family.        *)
(***************************************************************************)
EXTENDS Integers, Sequences, Sublists

FamilyOptions == <<"ipv4", "ipv6", "inet", "arp", "bridge", "netdev">>
Layer3        == {"ipv4", "ipv6", "inet"}
FiveHooks     == <<"prerouting", "input", "forward", "output", "postrouting">>

ValidChainTypesForFamily(family) ==
    IF family \in Layer3 THEN <<"filter", "nat", "route">> ELSE <<"filter">>

FamilyHooks(family) ==
    CASE family = "inet"   -> <<"prerouting", "input", "forward", "output",
                                "postrouting", "ingress">>
      [] family = "arp"    -> <<"input", "output">>
      [] family = "netdev" -> <<"ingress", "egress">>
      [] OTHER             -> FiveHooks

ValidChainHooksForTypeFamily(type, family) ==
    LET all == FamilyHooks(family)
        Keep(hooks) == Kept(all, {i \in DOMAIN all : all[i] \in hooks})
    IN  CASE type = "nat"   -> Keep({"prerouting", "input", "output",
                                     "postrouting"})
          [] type = "route" -> Keep({"output"})
          [] OTHER          -> all

(* The constants of the netlink library: ingress and egress have the       *)
(* numbers of netdev, which prerouting and input have elsewhere.           *)
ChainHookFromString(hook) ==
    CASE hook = "prerouting"  -> 0 [] hook = "input"  -> 1
      [] hook = "forward"     -> 2 [] hook = "output" -> 3
      [] hook = "postrouting" -> 4
      [] hook = "ingress"     -> 0 [] hook = "egress" -> 1

(* The first name that has the number. *)
ChainHookNumToString(num) ==
    IF num \in 0 .. 4 THEN FiveHooks[num + 1] ELSE "unknown"

(* The kernel: which number a hook has in a family. *)
KernelHooks(family) ==
    CASE family = "inet"   -> 0 .. 5
      [] family = "arp"    -> 0 .. 1
      [] family = "netdev" -> 0 .. 1
      [] OTHER             -> 0 .. 4
KernelName(family, num) ==
    IF num \in KernelHooks(family) THEN FamilyHooks(family)[num + 1] ELSE "none"

(* indexOf answers the first option for a name that is not offered. *)
indexOf(options, x) ==
    IF Contains(options, x)
    THEN CHOOSE i \in DOMAIN options :
           options[i] = x /\ \A j \in 1 .. i - 1 : options[j] # x
    ELSE 1
=============================================================================
