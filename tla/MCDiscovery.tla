---------------------------- MODULE MCDiscovery ----------------------------
(***************************************************************************)
(* An instance of Discovery for TLC: the gateway, which depends on the     *)
(* chat and the login services, with one instance of each.                 *)
(***************************************************************************)
EXTENDS Discovery

CONSTANTS chat, login, n1, n2

MCServes == [n \in Node |-> IF n = n1 THEN chat ELSE login]

=============================================================================
