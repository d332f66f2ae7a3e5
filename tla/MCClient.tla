------------------------------ MODULE MCClient ------------------------------
(***************************************************************************)
(* An instance of Client for TLC, the tcp one: two senders, one with an    *)
(* empty message; a byte has three values.                                 *)
(***************************************************************************)
EXTENDS Client

CONSTANTS s1, s2

MCMessage == [s \in Sender |-> IF s = s1 THEN <<2, 0>> ELSE <<>>]
MCOp      == [k \in {"binary", "ping", "close"} |->
                 CASE k = "binary" -> 0 [] k = "close" -> 1 [] k = "ping" -> 2]

=============================================================================
