------------------------------ MODULE MCForms --------------------------------
(* A small instance of Forms for TLC. *)
EXTENDS Forms

(* ipv4, ipv6 and bridge have what inet has, without ingress (and bridge   *)
(* without types).                                                         *)
MCFamilies     == {"inet", "arp", "netdev"}

(* A usual priority and one of eleven characters. *)
MCPriorities   == {0, -1000000000}
=============================================================================
