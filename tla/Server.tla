------------------------------- MODULE Server -------------------------------
(***************************************************************************)
(* tcp.Server and websocket.Server, which handle a connection alike: the   *)
(* goroutine of a connection asks the Acceptor for an id, refuses the      *)
(* connection if ChannelMap has the id, adds a channel, reads it to its    *)
(* end, removes the id, calls Disconnect and closes the channel.  Beside   *)
(* them run Push and Shutdown.                                             *)
(*                                                                         *)
(* Ids of the gateway's connections are unique; those of a tcp.Server are  *)
(* the ids of the gateways that dial it, and a gateway that dials again    *)
(* brings the same id.                                                     *)
(***************************************************************************)

CONSTANTS
    Conn,    \* connections that may be made
    Id,      \* channel ids
    IdOf,    \* the id the Acceptor gives a connection
    Pusher,  \* goroutines that push
    Nil,
    Tcp      \* Push of tcp.Server reads the id of a channel it has not found

ASSUME ServerAssumption ==
    /\ IdOf \in [Conn -> Id]
    /\ Nil \notin Conn
    /\ Tcp \in BOOLEAN

VARIABLES
    alive,    \* the process runs
    handler,  \* the goroutine of each connection
    map,      \* ChannelMap: the connection whose channel is stored at an id
    closed,   \* channels whose Close has been called
    notified, \* connections for which Disconnect has been called
    met,      \* history: the pairs of one id that were past Get and not removed at once
    push,     \* where each Push stands
    target,   \* the channel it got from ChannelMap
    stop,     \* where Shutdown stands
    all       \* channels that Shutdown has still to close

connVars == <<handler, map, notified, met>>
pushVars == <<push, target>>
stopVars == <<stop, all>>
vars == <<alive, handler, map, closed, notified, met, push, target, stop, all>>

HandlerPc == {"none", "accepted", "checked", "refused", "reading", "ended",
              "removed", "notified", "done"}
PushPc    == {"idle", "found", "sent", "missed"}
StopPc    == {"idle", "closing", "returned", "expired"}

TypeOK ==
    /\ alive \in BOOLEAN
    /\ handler \in [Conn -> HandlerPc]
    /\ map \in [Id -> Conn \cup {Nil}]
    /\ closed \subseteq Conn /\ notified \subseteq Conn
    /\ met \subseteq SUBSET Conn
    /\ push \in [Pusher -> PushPc]
    /\ target \in [Pusher -> Conn \cup {Nil}]
    /\ stop \in StopPc
    /\ all \subseteq Conn

Init ==
    /\ alive = TRUE
    /\ handler = [x \in Conn |-> "none"]
    /\ map = [i \in Id |-> Nil]
    /\ closed = {} /\ notified = {} /\ met = {}
    /\ push = [p \in Pusher |-> "idle"]
    /\ target = [p \in Pusher |-> Nil]
    /\ stop = "idle" /\ all = {}

Goto(x, pc) == handler' = [handler EXCEPT ![x] = pc]

-----------------------------------------------------------------------------
(* The goroutine of a connection *)

\* The listener hands out the connection and Acceptor.Accept returns its id (an
\* error closes the connection, which leaves no trace here).  The listener is
\* never closed.
Accept(x) ==
    /\ alive
    /\ handler[x] = "none"
    /\ Goto(x, "accepted")
    /\ UNCHANGED <<alive, map, closed, notified, met, pushVars, stopVars>>

\* When the listener returns an error, tcp.Server calls Close of the connection it
\* has not got, and the process dies.
AcceptFails ==
    /\ alive /\ Tcp
    /\ alive' = FALSE
    /\ UNCHANGED <<connVars, closed, pushVars, stopVars>>

\* A faulty variant, to show which property depends on this step: the refused
\* connection leaves by the path of the accepted ones, which removes the id.
CheckAndRemove(x) ==
    /\ alive
    /\ handler[x] = "accepted"
    /\ IF map[IdOf[x]] = Nil
       THEN Goto(x, "checked") /\ UNCHANGED map
       ELSE Goto(x, "refused") /\ map' = [map EXCEPT ![IdOf[x]] = Nil]
    /\ UNCHANGED <<alive, closed, notified, met, pushVars, stopVars>>

\* The other connections of the id that are between their Get and their Remove.
Beside(x) ==
    {y \in Conn \ {x} : IdOf[y] = IdOf[x] /\ handler[y] \in {"checked", "reading", "ended"}}

\* ChannelMap.Get.
Check(x) ==
    /\ alive
    /\ handler[x] = "accepted"
    /\ IF map[IdOf[x]] = Nil
       THEN Goto(x, "checked") /\ met' = met \cup {{x, y} : y \in Beside(x)}
       ELSE Goto(x, "refused") /\ UNCHANGED met
    /\ UNCHANGED <<alive, map, closed, notified, pushVars, stopVars>>

\* ChannelMap.Add, then Readloop.
Add(x) ==
    /\ alive
    /\ handler[x] = "checked"
    /\ map' = [map EXCEPT ![IdOf[x]] = x]
    /\ Goto(x, "reading")
    /\ UNCHANGED <<alive, closed, notified, met, pushVars, stopVars>>

ReadEnd(x) ==
    /\ alive
    /\ handler[x] = "reading"
    /\ Goto(x, "ended")
    /\ UNCHANGED <<alive, map, closed, notified, met, pushVars, stopVars>>

\* A faulty variant, to show which property depends on this step: the id stays
\* in the map.
KeepEntry(x) ==
    /\ alive
    /\ handler[x] = "ended"
    /\ Goto(x, "removed")
    /\ UNCHANGED <<alive, map, closed, notified, met, pushVars, stopVars>>

\* ChannelMap.Remove, by id.  (tcp.Server removes only after an error, but
\* Readloop returns nothing else.)
Remove(x) ==
    /\ alive
    /\ handler[x] = "ended"
    /\ map' = [map EXCEPT ![IdOf[x]] = Nil]
    /\ Goto(x, "removed")
    /\ UNCHANGED <<alive, closed, notified, met, pushVars, stopVars>>

\* StateListener.Disconnect.
Disconnect(x) ==
    /\ alive
    /\ handler[x] = "removed"
    /\ notified' = notified \cup {x}
    /\ Goto(x, "notified")
    /\ UNCHANGED <<alive, map, closed, met, pushVars, stopVars>>

\* channel.Close.
CloseChannel(x) ==
    /\ alive
    /\ handler[x] = "notified"
    /\ closed' = closed \cup {x}
    /\ Goto(x, "done")
    /\ UNCHANGED <<alive, map, notified, met, pushVars, stopVars>>

-----------------------------------------------------------------------------
(* Push *)

\* ChannelMap.Get.  When the id is not there tcp.Server builds its error text
\* with ID() of the channel it has not got, and the process dies.
PushGet(p, i) ==
    /\ alive
    /\ push[p] # "found"
    /\ target' = [target EXCEPT ![p] = map[i]]
    /\ push' = [push EXCEPT ![p] = IF map[i] = Nil THEN "missed" ELSE "found"]
    /\ alive' = (map[i] # Nil \/ ~Tcp)
    /\ UNCHANGED <<connVars, closed, stopVars>>

\* channel.Push, which does not look at the closed event.
PushSend(p) ==
    /\ alive
    /\ push[p] = "found"
    /\ push' = [push EXCEPT ![p] = "sent"]
    /\ UNCHANGED <<alive, connVars, closed, target, stopVars>>

-----------------------------------------------------------------------------
(* Shutdown *)

\* A faulty variant, to show which property depends on this step: the list has
\* an element for every id ever seen.
StopBeginHoles ==
    /\ alive
    /\ stop = "idle"
    /\ stop' = "closing"
    /\ all' = {map[i] : i \in Id}
    /\ UNCHANGED <<alive, connVars, closed, pushVars>>

\* ChannelMap.All.
StopBegin ==
    /\ alive
    /\ stop = "idle"
    /\ stop' = "closing"
    /\ all' = {x \in Conn : \E i \in Id : map[i] = x}
    /\ UNCHANGED <<alive, connVars, closed, pushVars>>

\* A faulty variant, to show which property depends on this step: the loop
\* leaves after one channel.
StopCloseOne(x) ==
    /\ alive
    /\ stop = "closing" /\ x \in all
    /\ closed' = closed \cup {x}
    /\ all' = {}
    /\ UNCHANGED <<alive, connVars, pushVars, stop>>

\* One channel is closed; when the context is done the loop is left.
StopClose(x) ==
    /\ alive
    /\ stop = "closing" /\ x \in all
    /\ closed' = closed \cup {x}
    /\ all' = all \ {x}
    /\ \/ UNCHANGED stop
       \/ stop' = "expired"
    /\ UNCHANGED <<alive, connVars, pushVars>>

StopEnd ==
    /\ alive
    /\ stop = "closing" /\ all = {}
    /\ stop' = "returned"
    /\ UNCHANGED <<alive, connVars, closed, pushVars, all>>

-----------------------------------------------------------------------------
HandlerStep(x) ==
    \/ Check(x) \/ Add(x) \/ Remove(x) \/ Disconnect(x) \/ CloseChannel(x)

Next ==
    \/ \E x \in Conn : Accept(x) \/ ReadEnd(x) \/ HandlerStep(x) \/ StopClose(x)
    \/ \E p \in Pusher : PushSend(p) \/ \E i \in Id : PushGet(p, i)
    \/ AcceptFails \/ StopBegin \/ StopEnd

Spec == Init /\ [][Next]_vars

\* Goroutines run; nobody owes a connection, the end of one, a Push or a
\* Shutdown.
Fairness ==
    /\ \A x \in Conn : WF_vars(HandlerStep(x))
    /\ WF_vars(StopEnd \/ \E x \in Conn : StopClose(x))

FairSpec == Spec /\ Fairness

-----------------------------------------------------------------------------
(* Properties *)

\* ChannelMap holds channels that are being read or have just ended, under
\* their own id: Push cannot find a channel for which Disconnect was called,
\* however the goroutines of connections with one id follow each other.
MapHoldsLive ==
    \A i \in Id : map[i] # Nil =>
        /\ IdOf[map[i]] = i
        /\ handler[map[i]] \in {"reading", "ended"}
        /\ map[i] \notin notified

\* A connection that is being read is in ChannelMap unless it lost its entry to a
\* connection of the same id that was past its Get, and not yet removed, at the
\* same time.  So a gateway that dials again after the end of its old connection
\* is not hurt by it, and a connection that is refused takes nothing from the one
\* that is there.
LostOnlyToRival ==
    \A x \in Conn : handler[x] = "reading" =>
        map[IdOf[x]] = x \/ \E y \in Conn \ {x} : {x, y} \in met

\* Shutdown closes every channel it has listed before it returns, unless its
\* context expires.
ShutdownClosesListed ==
    \A x \in Conn : x \in all ~> (x \in closed \/ stop = "expired" \/ ~alive)

\* The connections that share their id with no other: all of a gateway's, whose
\* ids are unique, and those of a service's gateways that dial once.
Alone == {x \in Conn : \A y \in Conn \ {x} : IdOf[y] # IdOf[x]}

\* Their life as the Acceptor and the StateListener see it, and those of them
\* that Push finds.
life == [x \in Alone |->
    IF handler[x] = "none" THEN "none"
    ELSE IF ~alive \/ handler[x] \in {"refused", "notified", "done"} THEN "closed"
    ELSE IF handler[x] \in {"accepted", "checked"} THEN "accepted"
    ELSE IF handler[x] \in {"reading", "ended"} THEN "open"
    ELSE "closing"]

reach == {x \in Alone : alive /\ map[IdOf[x]] = x}

Life == INSTANCE Connections WITH
    Conn <- Alone, Process <- {Nil}, At <- [x \in Alone |-> Nil]

\* A connection with an id of its own is not disturbed by others, whatever ids
\* these share: it is not refused, can be pushed to from the Add to the Remove of
\* its own goroutine, and is reported gone afterwards, while others come and go,
\* replace and remove each other, are pushed to, and Shutdown closes channels.
ImplementsConnections == Life!Spec

=============================================================================
