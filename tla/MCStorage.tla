----------------------------- MODULE MCStorage -----------------------------
(***************************************************************************)
(* The instance of Session with the bytes of its location keys.  A byte    *)
(* has two values, so that a length of four overflows: the id of c2.       *)
(***************************************************************************)
EXTENDS MCSession, Storage

MCChannelName == [c \in Channel |-> IF c = c2 THEN <<1, 1, 0, 1>> ELSE <<1, 0>>]
MCGateName    == [g \in Gateway |-> IF g = g2 THEN <<0, 1>> ELSE <<1>>]

=============================================================================
