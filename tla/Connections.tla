----------------------------- MODULE Connections -----------------------------
(***************************************************************************)
(* What a server (iface.IServer) promises to its Acceptor, its             *)
(* StateListener and those that push: a connection is accepted, pushed to, *)
(* and reported as gone once, in this order, or goes with its process.     *)
(* The promise is for connections whose ids differ.                        *)
(***************************************************************************)

CONSTANTS
    Conn,      \* connections, or their ids
    Process,   \* the processes of the server, one after another or side by side
    At         \* the process of a connection

VARIABLES
    life,    \* how far each connection has come
    reach    \* the connections that a Push finds

vars == <<life, reach>>

\* A connection is "none", "accepted" by the Acceptor, "open", "closing" (not
\* read any more) and "closed".
Init ==
    /\ life = [x \in Conn |-> "none"]
    /\ reach = {}

Goto(x, from, to) == life[x] = from /\ life' = [life EXCEPT ![x] = to]

\* The Acceptor gives the connection an id, or an error.
Accept(x) == Goto(x, "none", "accepted") /\ UNCHANGED reach
Refuse(x) == Goto(x, "none", "closed") /\ UNCHANGED reach

\* It can be pushed to from now on, and until reading it has ended.
Open(x)    == Goto(x, "accepted", "open") /\ reach' = reach \cup {x}
ReadEnd(x) == Goto(x, "open", "closing") /\ reach' = reach \ {x}

\* StateListener.Disconnect.
Disconnect(x) == Goto(x, "closing", "closed") /\ UNCHANGED reach

\* A process ends, and all of its connections with it.
Stop(p) ==
    LET lost == {x \in Conn : At[x] = p /\ life[x] \notin {"none", "closed"}}
    IN  /\ life' = [x \in Conn |-> IF x \in lost THEN "closed" ELSE life[x]]
        /\ reach' = reach \ lost

Next ==
    \/ \E x \in Conn : Accept(x) \/ Refuse(x) \/ Open(x) \/ ReadEnd(x) \/ Disconnect(x)
    \/ \E p \in Process : Stop(p)

Spec == Init /\ [][Next]_vars

=============================================================================
