----------------------------- MODULE MCSession -----------------------------
(***************************************************************************)
(* Instances of Session for TLC: devices of one account on two gateways.  *)
(* The bounds are the sets: as many logins as there are channel ids.       *)
(***************************************************************************)
EXTENDS Session

CONSTANTS alice, g1, g2, c1, c2, c3

MCOwner == [c \in Channel |-> alice]
MCGate  == [c \in Channel |-> IF c = c2 THEN g2 ELSE g1]

=============================================================================
