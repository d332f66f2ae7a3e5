------------------------------- MODULE MCTalk -------------------------------
(***************************************************************************)
(* An instance of Talk for TLC: alice and bob write to each other, and     *)
(* alice reads.                                                            *)
(***************************************************************************)
EXTENDS Talk

CONSTANTS alice, bob, c1, c2, t1, t2

MCOwner == [c \in Channel |-> IF c = c1 THEN alice ELSE bob]
MCFrom  == [t \in Talk |-> IF t = t1 THEN c1 ELSE c2]
MCDest  == [t \in Talk |-> IF t = t1 THEN bob ELSE alice]

=============================================================================
