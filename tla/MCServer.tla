------------------------------ MODULE MCServer ------------------------------
(***************************************************************************)
(* An instance of Server for TLC: a tcp server to which one gateway dials  *)
(* twice (k1 and k2 bring its id) and another once (k3).                   *)
(***************************************************************************)
EXTENDS Server

CONSTANTS i1, i2, k1, k2, k3

MCIdOf == [c \in Conn |-> IF c = k3 THEN i2 ELSE i1]

=============================================================================
