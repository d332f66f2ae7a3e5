---------------------------- MODULE ServerProof ----------------------------
(***************************************************************************)
(* Proofs about Server, for any connections, ids, pushers, and both        *)
(* servers.                                                                *)
(***************************************************************************)
EXTENDS Server, TLAPS

\* Disconnect is called once a connection has left the map, and nothing follows
\* it but Close.
NotifiedLast == \A x \in notified : handler[x] \in {"notified", "done"}

\* Connections of one id that are past Get and not removed, at once, have met.
RivalsMeet == \A x \in Conn : handler[x] \in {"checked", "reading", "ended"} =>
                 \A y \in Beside(x) : {x, y} \in met

IInv == TypeOK /\ NotifiedLast /\ MapHoldsLive /\ RivalsMeet /\ LostOnlyToRival

\* Before the first connection the map is empty.
LEMMA InvInit == Init => IInv
  BY ServerAssumption
  DEF Init, IInv, TypeOK, NotifiedLast, MapHoldsLive, RivalsMeet, Beside, LostOnlyToRival,
      HandlerPc, PushPc, StopPc

\* Every step keeps the types.
LEMMA TypeNext ==
    ASSUME TypeOK, [Next]_vars PROVE TypeOK'
<1> USE ServerAssumption DEF TypeOK, Goto, connVars, pushVars, stopVars
<1>1. ASSUME NEW x \in Conn, Accept(x) \/ ReadEnd(x) \/ HandlerStep(x) PROVE TypeOK'
  <2>1. handler' \in [Conn -> HandlerPc]
    BY <1>1 DEF Accept, ReadEnd, HandlerStep, Check, Add, Remove, Disconnect, CloseChannel, HandlerPc
  <2>2. map' \in [Id -> Conn \cup {Nil}]
    BY <1>1 DEF Accept, ReadEnd, HandlerStep, Check, Add, Remove, Disconnect, CloseChannel
  <2>3. met' \subseteq SUBSET Conn
    BY <1>1 DEF Accept, ReadEnd, HandlerStep, Check, Beside, Add, Remove, Disconnect, CloseChannel
  <2> QED
    BY <1>1, <2>1, <2>2, <2>3 DEF Accept, ReadEnd, HandlerStep, Check, Add, Remove, Disconnect, CloseChannel
<1>2. ASSUME NEW p \in Pusher, NEW i \in Id, PushGet(p, i) PROVE TypeOK'
  BY <1>2 DEF PushGet, PushPc
<1>3. ASSUME NEW p \in Pusher, PushSend(p) PROVE TypeOK'
  BY <1>3 DEF PushSend, PushPc
<1>4. ASSUME NEW x \in Conn, StopClose(x) PROVE TypeOK'
  BY <1>4 DEF StopClose, StopPc
<1>5. ASSUME StopBegin \/ StopEnd \/ AcceptFails PROVE TypeOK'
  BY <1>5 DEF StopBegin, StopEnd, AcceptFails, StopPc
<1>6. CASE UNCHANGED vars
  BY <1>6 DEF vars
<1> QED
  BY <1>1, <1>2, <1>3, <1>4, <1>5, <1>6 DEF Next

\* Only the goroutines of connections change the map and what they know of it.
LEMMA OthersLeaveMap ==
    ASSUME [Next]_vars,
           \A x \in Conn : ~(Accept(x) \/ ReadEnd(x) \/ HandlerStep(x))
    PROVE  UNCHANGED connVars
  BY DEF Next, vars, connVars, StopClose, PushSend, PushGet, AcceptFails, StopBegin, StopEnd

\* A goroutine keeps the map free of connections that have ended.
LEMMA MapNext ==
    ASSUME TypeOK, NotifiedLast, MapHoldsLive, [Next]_vars
    PROVE  NotifiedLast' /\ MapHoldsLive'
<1> USE ServerAssumption DEF TypeOK, NotifiedLast, MapHoldsLive, Goto, connVars
<1>1. ASSUME NEW x \in Conn, Accept(x) PROVE NotifiedLast' /\ MapHoldsLive'
  BY <1>1 DEF Accept
<1>2. ASSUME NEW x \in Conn, Check(x) PROVE NotifiedLast' /\ MapHoldsLive'
  BY <1>2 DEF Check
<1>3. ASSUME NEW x \in Conn, Add(x) PROVE NotifiedLast' /\ MapHoldsLive'
  BY <1>3 DEF Add
<1>4. ASSUME NEW x \in Conn, ReadEnd(x) PROVE NotifiedLast' /\ MapHoldsLive'
  BY <1>4 DEF ReadEnd
<1>5. ASSUME NEW x \in Conn, Remove(x) PROVE NotifiedLast' /\ MapHoldsLive'
  BY <1>5 DEF Remove
<1>6. ASSUME NEW x \in Conn, Disconnect(x) PROVE NotifiedLast' /\ MapHoldsLive'
  BY <1>6 DEF Disconnect
<1>7. ASSUME NEW x \in Conn, CloseChannel(x) PROVE NotifiedLast' /\ MapHoldsLive'
  BY <1>7 DEF CloseChannel
<1>8. CASE UNCHANGED connVars
  BY <1>8
<1> QED
  BY <1>1, <1>2, <1>3, <1>4, <1>5, <1>6, <1>7, <1>8, OthersLeaveMap DEF HandlerStep

\* Two connections of one id meet at the Get of the later one.
LEMMA MeetNext ==
    ASSUME TypeOK, RivalsMeet, [Next]_vars PROVE RivalsMeet'
<1> DEFINE Active(z) == handler[z] \in {"checked", "reading", "ended"}
<1> USE ServerAssumption DEF TypeOK, RivalsMeet, Beside, Goto, connVars
<1>1. ASSUME NEW z \in Conn, Accept(z) \/ ReadEnd(z) \/ HandlerStep(z)
      PROVE  RivalsMeet'
  <2> SUFFICES ASSUME NEW x \in Conn, NEW y \in Conn \ {x}, IdOf[y] = IdOf[x],
                      Active(x)', Active(y)'
               PROVE  {x, y} \in met'
    OBVIOUS
  <2>1. met \subseteq met'
    BY <1>1 DEF Accept, ReadEnd, HandlerStep, Check, Add, Remove, Disconnect, CloseChannel
  <2>2. CASE Active(x) /\ Active(y)
    BY <2>1, <2>2
  <2>3. CASE ~(Active(x) /\ Active(y))
    <3>1. Check(z) /\ handler'[z] = "checked" /\ z \in {x, y}
      BY <1>1, <2>3 DEF Accept, ReadEnd, HandlerStep, Check, Add, Remove, Disconnect, CloseChannel
    <3>2. ~Active(z) /\ met' = met \cup {{z, w} : w \in Beside(z)}
      BY <3>1 DEF Check
    <3>3. CASE z = x
      BY <3>1, <3>2, <3>3 DEF Check
    <3>4. CASE z = y
      <4>1. {y, x} \in met'
        BY <3>1, <3>2, <3>4 DEF Check
      <4>2. {x, y} = {y, x}
        OBVIOUS
      <4> QED
        BY <4>1, <4>2
    <3> QED
      BY <3>1, <3>3, <3>4
  <2> QED
    BY <2>2, <2>3
<1>2. CASE UNCHANGED connVars
  BY <1>2
<1> QED
  BY <1>1, <1>2, OthersLeaveMap

\* What a connection that is being read has lost, a rival beside it has taken or
\* removed.
LEMMA RivalNext ==
    ASSUME TypeOK, RivalsMeet, LostOnlyToRival, [Next]_vars PROVE LostOnlyToRival'
<1> USE ServerAssumption DEF TypeOK, LostOnlyToRival, Goto, connVars
<1>1. ASSUME NEW y \in Conn, Accept(y) \/ ReadEnd(y) \/ HandlerStep(y)
      PROVE  LostOnlyToRival'
  <2>1. met \subseteq met'
    BY <1>1 DEF Accept, ReadEnd, HandlerStep, Check, Add, Remove, Disconnect, CloseChannel
  <2> SUFFICES ASSUME NEW x \in Conn, handler'[x] = "reading", map'[IdOf[x]] # x
               PROVE  \E z \in Conn \ {x} : {x, z} \in met'
    OBVIOUS
  <2>2. x # y => handler[x] = "reading"
    BY <1>1 DEF Accept, ReadEnd, HandlerStep, Check, Add, Remove, Disconnect, CloseChannel
  <2>3. x # y
    BY <1>1 DEF Accept, ReadEnd, HandlerStep, Check, Add, Remove, Disconnect, CloseChannel
  <2>4. CASE map[IdOf[x]] # x
    BY <2>1, <2>2, <2>3, <2>4
  <2>5. CASE map[IdOf[x]] = x
    <3>1. IdOf[y] = IdOf[x] /\ (Add(y) \/ Remove(y))
      BY <1>1, <2>3, <2>5 DEF Accept, ReadEnd, HandlerStep, Check, Add, Remove, Disconnect, CloseChannel
    <3>2. handler[y] \in {"checked", "ended"}
      BY <3>1 DEF Add, Remove
    <3>3. {x, y} \in met
      BY <2>2, <2>3, <3>1, <3>2 DEF RivalsMeet, Beside
    <3> QED
      BY <2>1, <2>3, <3>3
  <2> QED
    BY <2>4, <2>5
<1>2. CASE UNCHANGED connVars
  BY <1>2
<1> QED
  BY <1>1, <1>2, OthersLeaveMap

-----------------------------------------------------------------------------
\* Every state of a server satisfies the inductive invariant.
THEOREM Invariance == Spec => []IInv
<1>1. Init => IInv
  BY InvInit
<1>2. IInv /\ [Next]_vars => IInv'
  BY TypeNext, MapNext, MeetNext, RivalNext DEF IInv
<1> QED
  BY <1>1, <1>2, PTL DEF Spec

\* The types of the state.
THEOREM TypeCorrect == Spec => []TypeOK
<1>1. IInv => TypeOK
  BY DEF IInv
<1> QED
  BY <1>1, Invariance, PTL

\* ChannelMap never leads Push to a connection that was said to be gone.
THEOREM MapCorrect == Spec => []MapHoldsLive
<1>1. IInv => MapHoldsLive
  BY DEF IInv
<1> QED
  BY <1>1, Invariance, PTL

\* A connection that is read is in ChannelMap unless it met a rival.
THEOREM LossExplained == Spec => []LostOnlyToRival
<1>1. IInv => LostOnlyToRival
  BY DEF IInv
<1> QED
  BY <1>1, Invariance, PTL

-----------------------------------------------------------------------------
(* Connections with ids of their own: Server implements Connections. *)

\* None of them is refused, and each is in the map while its goroutine reads.
OpenIsReached ==
    \A x \in Alone :
        /\ handler[x] # "refused"
        /\ handler[x] \in {"reading", "ended"} => map[IdOf[x]] = x

\* The goroutines keep this, each at its own id.
LEMMA ReachedNext ==
    ASSUME TypeOK, MapHoldsLive, OpenIsReached, [Next]_vars
    PROVE  OpenIsReached'
<1> USE ServerAssumption DEF TypeOK, OpenIsReached, Goto, connVars, Alone
<1>1. ASSUME NEW x \in Conn, Accept(x) PROVE OpenIsReached'
  BY <1>1 DEF Accept
<1>2. ASSUME NEW x \in Conn, Check(x) PROVE OpenIsReached'
  <2>1. x \in Alone => map[IdOf[x]] = Nil
    BY <1>2 DEF Check, MapHoldsLive
  <2> QED
    BY <1>2, <2>1 DEF Check
<1>3. ASSUME NEW x \in Conn, Add(x) PROVE OpenIsReached'
  BY <1>3 DEF Add
<1>4. ASSUME NEW x \in Conn, ReadEnd(x) PROVE OpenIsReached'
  BY <1>4 DEF ReadEnd
<1>5. ASSUME NEW x \in Conn, Remove(x) PROVE OpenIsReached'
  BY <1>5 DEF Remove
<1>6. ASSUME NEW x \in Conn, Disconnect(x) PROVE OpenIsReached'
  BY <1>6 DEF Disconnect
<1>7. ASSUME NEW x \in Conn, CloseChannel(x) PROVE OpenIsReached'
  BY <1>7 DEF CloseChannel
<1>8. CASE UNCHANGED connVars
  BY <1>8
<1> QED
  BY <1>1, <1>2, <1>3, <1>4, <1>5, <1>6, <1>7, <1>8, OthersLeaveMap DEF HandlerStep

\* A goroutine's step moves its own connection only.
LEMMA LifeMove ==
    ASSUME alive, UNCHANGED alive, NEW x \in Alone, NEW pc \in HandlerPc,
           TypeOK, Goto(x, pc)
    PROVE  \A y \in Alone \ {x} : life'[y] = life[y]
  BY DEF life, TypeOK, Goto, Alone

\* Such a step takes the connection along one edge of its life.
LEMMA LifeChange ==
    ASSUME NEW x \in Alone, NEW from, NEW to, life[x] = from, life'[x] = to,
           \A y \in Alone \ {x} : life'[y] = life[y]
    PROVE  Life!Goto(x, from, to)
  BY DEF life, Life!Goto

\* A step that leaves the connections alone and the process alive is a stutter; one
\* that ends the process is Stop.
LEMMA LifeStops ==
    ASSUME TypeOK, MapHoldsLive, UNCHANGED connVars, alive
    PROVE  [Life!Next]_<<life, reach>>
<1> USE DEF connVars
<1>1. CASE alive'
  BY <1>1 DEF TypeOK, life, reach
<1>2. CASE ~alive'
  <2> DEFINE lost == {x \in Alone : [y \in Alone |-> Nil][x] = Nil /\ life[x] \notin {"none", "closed"}}
  <2>1. life' = [x \in Alone |-> IF x \in lost THEN "closed" ELSE life[x]]
    BY <1>2 DEF life
  <2>2. reach' = {}
    BY <1>2 DEF reach
  <2>3. \A x \in reach : life[x] = "open"
    BY ServerAssumption DEF reach, life, MapHoldsLive, TypeOK, Alone
  <2>4. reach \subseteq lost
    BY <2>3 DEF reach
  <2>5. reach' = reach \ lost
    BY <2>2, <2>4
  <2>6. Life!Stop(Nil)
    BY <2>1, <2>5 DEF Life!Stop
  <2> QED
    BY <2>6 DEF Life!Next
<1> QED
  BY <1>1, <1>2

\* The goroutine of a connection whose id others have too moves no other connection,
\* and changes the map at an id that is none of theirs.
LEMMA SharedApart ==
    ASSUME TypeOK, NEW x \in Conn \ Alone, Accept(x) \/ ReadEnd(x) \/ HandlerStep(x)
    PROVE  UNCHANGED <<life, reach>>
<1> USE ServerAssumption DEF TypeOK, Goto, connVars
<1>1. UNCHANGED alive /\ \A y \in Alone : handler'[y] = handler[y]
  BY DEF Accept, ReadEnd, HandlerStep, Check, Add, Remove, Disconnect, CloseChannel, Alone
<1>2. \A y \in Alone : map'[IdOf[y]] = map[IdOf[y]]
  BY DEF Accept, ReadEnd, HandlerStep, Check, Add, Remove, Disconnect, CloseChannel, Alone
<1> QED
  BY <1>1, <1>2 DEF life, reach

\* One step of a server is a step of Connections, or none.
LEMMA LifeNext ==
    ASSUME TypeOK, MapHoldsLive, OpenIsReached, [Next]_vars
    PROVE  [Life!Next]_<<life, reach>>
<1> USE ServerAssumption DEF TypeOK, connVars, HandlerPc, Alone
<1>1. ASSUME NEW x \in Alone, Accept(x) PROVE [Life!Next]_<<life, reach>>
  <2>1. life[x] = "none" /\ life'[x] = "accepted" /\ UNCHANGED reach
    BY <1>1 DEF Accept, Goto, life, reach
  <2>2. \A y \in Alone \ {x} : life'[y] = life[y]
    BY <1>1, LifeMove DEF Accept
  <2> QED
    BY <2>1, <2>2, LifeChange DEF Life!Accept, Life!Next
<1>2. ASSUME NEW x \in Alone, Check(x) PROVE [Life!Next]_<<life, reach>>
  <2>1. map[IdOf[x]] = Nil
    BY <1>2 DEF Check, MapHoldsLive
  <2>2. life'[x] = life[x] /\ UNCHANGED reach
    BY <1>2, <2>1 DEF Check, Goto, life, reach
  <2>3. \A y \in Alone \ {x} : life'[y] = life[y]
    BY <1>2, <2>1, LifeMove DEF Check
  <2> QED
    BY <2>2, <2>3 DEF life
<1>3. ASSUME NEW x \in Alone, Add(x) PROVE [Life!Next]_<<life, reach>>
  <2>1. life[x] = "accepted" /\ life'[x] = "open"
    BY <1>3 DEF Add, Goto, life
  <2>2. reach' = reach \cup {x}
    BY <1>3 DEF Add, reach
  <2>3. \A y \in Alone \ {x} : life'[y] = life[y]
    BY <1>3, LifeMove DEF Add
  <2> QED
    BY <2>1, <2>2, <2>3, LifeChange DEF Life!Open, Life!Next
<1>4. ASSUME NEW x \in Alone, ReadEnd(x) PROVE [Life!Next]_<<life, reach>>
  <2>1. life'[x] = life[x] /\ UNCHANGED reach
    BY <1>4 DEF ReadEnd, Goto, life, reach
  <2>2. \A y \in Alone \ {x} : life'[y] = life[y]
    BY <1>4, LifeMove DEF ReadEnd
  <2> QED
    BY <2>1, <2>2 DEF life
<1>5. ASSUME NEW x \in Alone, Remove(x) PROVE [Life!Next]_<<life, reach>>
  <2>1. life[x] = "open" /\ life'[x] = "closing"
    BY <1>5 DEF Remove, Goto, life
  <2>2. reach' = reach \ {x}
    BY <1>5 DEF Remove, reach
  <2>3. \A y \in Alone \ {x} : life'[y] = life[y]
    BY <1>5, LifeMove DEF Remove
  <2> QED
    BY <2>1, <2>2, <2>3, LifeChange DEF Life!ReadEnd, Life!Next
<1>6. ASSUME NEW x \in Alone, Disconnect(x) PROVE [Life!Next]_<<life, reach>>
  <2>1. life[x] = "closing" /\ life'[x] = "closed" /\ UNCHANGED reach
    BY <1>6 DEF Disconnect, Goto, life, reach
  <2>2. \A y \in Alone \ {x} : life'[y] = life[y]
    BY <1>6, LifeMove DEF Disconnect
  <2> QED
    BY <2>1, <2>2, LifeChange DEF Life!Disconnect, Life!Next
<1>7. ASSUME NEW x \in Alone, CloseChannel(x) PROVE [Life!Next]_<<life, reach>>
  <2>1. life'[x] = life[x] /\ UNCHANGED reach
    BY <1>7 DEF CloseChannel, Goto, life, reach
  <2>2. \A y \in Alone \ {x} : life'[y] = life[y]
    BY <1>7, LifeMove DEF CloseChannel
  <2> QED
    BY <2>1, <2>2 DEF life
<1>8. ASSUME NEW x \in Conn \ Alone, Accept(x) \/ ReadEnd(x) \/ HandlerStep(x)
      PROVE  [Life!Next]_<<life, reach>>
  BY <1>8, SharedApart
<1>9. ASSUME \A x \in Conn : ~(Accept(x) \/ ReadEnd(x) \/ HandlerStep(x))
      PROVE  [Life!Next]_<<life, reach>>
  <2>1. UNCHANGED connVars
    BY <1>9, OthersLeaveMap
  <2>2. alive \/ UNCHANGED alive
    BY DEF Next, vars, StopClose, PushSend, PushGet, AcceptFails, StopBegin, StopEnd,
           Accept, ReadEnd, HandlerStep, Check, Add, Remove, Disconnect, CloseChannel
  <2>3. CASE alive
    BY <2>1, <2>3, LifeStops
  <2>4. CASE UNCHANGED alive
    BY <2>1, <2>4 DEF life, reach
  <2> QED
    BY <2>2, <2>3, <2>4
<1> QED
  BY <1>1, <1>2, <1>3, <1>4, <1>5, <1>6, <1>7, <1>8, <1>9 DEF HandlerStep

\* The goroutines of a server, Push and Shutdown give each connection that has an id
\* of its own, as those of a gateway have, the life that Connections describes.
THEOREM ConnectionsKept == Spec => ImplementsConnections
<1>1. Init => OpenIsReached /\ Life!Init
  BY ServerAssumption DEF Init, OpenIsReached, Life!Init, life, reach, Alone
<1>2. IInv /\ OpenIsReached /\ [Next]_vars => OpenIsReached'
  BY ReachedNext DEF IInv
<1>3. IInv /\ OpenIsReached /\ [Next]_vars => [Life!Next]_(Life!vars)
  BY LifeNext DEF IInv, Life!vars
<1> QED
  BY <1>1, <1>2, <1>3, Invariance, PTL DEF Spec, Life!Spec, ImplementsConnections

=============================================================================
