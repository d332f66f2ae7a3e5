------------------------------ MODULE MCGroup ------------------------------
(***************************************************************************)
(* An instance of Group for TLC: bob joins a group that ann made and quits *)
(* it while ann sends a message; a group without members is refused.      *)
(***************************************************************************)
EXTENDS Group

CONSTANTS ann, bob, create, join, quit, hollow, hello

MCWho     == [k \in Joining \cup Quitting |-> bob]
MCMembers == [k \in Creating |-> IF k = hollow THEN {} ELSE {ann}]
MCSender  == [s \in Sends |-> ann]

=============================================================================
