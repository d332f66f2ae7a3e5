--------------------------- MODULE DiscoveryProof ---------------------------
(***************************************************************************)
(* Proofs about Discovery, for any dependencies, instances and faults.     *)
(***************************************************************************)
EXTENDS Discovery, TLAPS

\* Only the goroutine that walks through a list has one, or a client of its own
\* service that is not yet in Clients.
WalkOwns ==
    \A d \in Dep :
        /\ todo[d] # {} => thread[d] = "walk"
        /\ \A n \in todo[d] \ {Nil} : Serves[n] = d
        /\ building[d] # Nil => thread[d] = "walk" /\ Serves[building[d]] = d

IInv == TypeOK /\ WalkOwns /\ OneDependencyWatched

\* No goroutine has begun, nothing is locked and nothing dialled.
LEMMA InvInit == Init => IInv
  BY DiscoveryAssumption
  DEF Init, IInv, TypeOK, WalkOwns, OneDependencyWatched, Watched, ThreadPc, LinkState

\* The world, the read loops and the timers change no goroutine of a dependency.
LEMMA ThreadsOnly ==
    ASSUME TypeOK, [Next]_vars, \A d \in Dep : ~(DepStep(d) \/ Load(d))
    PROVE  /\ UNCHANGED namingVars
           /\ link' \in [Node -> LinkState]
           /\ \A n \in Node : link[n] = "none" => link'[n] = "none"
<1> USE DEF TypeOK, namingVars, LinkState
<1>1. ASSUME NEW n \in Node, NodeStop(n)
      PROVE  /\ UNCHANGED namingVars
             /\ link' \in [Node -> LinkState]
             /\ \A m \in Node : link[m] = "none" => link'[m] = "none"
  BY <1>1 DEF NodeStop
<1>2. ASSUME NEW n \in Node, ReadloopEnd(n)
      PROVE  /\ UNCHANGED namingVars
             /\ link' \in [Node -> LinkState]
             /\ \A m \in Node : link[m] = "none" => link'[m] = "none"
  BY <1>2 DEF ReadloopEnd
<1>3. CASE UNCHANGED <<namingVars, link>>
  BY <1>3
<1> QED
  BY <1>1, <1>2, <1>3
  DEF Next, NodeStep, NodeStart, Register, CheckTurns, Deregister, BecomeAdult, MapRace,
      BeginLookup, EndLookup, clientVars, vars

\* Every step keeps the types.
LEMMA TypeNext ==
    ASSUME TypeOK, [Next]_vars PROVE TypeOK'
<1> USE DiscoveryAssumption DEF TypeOK, Goto, worldVars, namingVars, clientVars
<1>1. ASSUME NEW d \in Dep, DepStep(d) \/ Load(d) PROVE TypeOK'
  <2>1. CASE BeginPut(d) \/ EndPut(d) \/ Subscribe(d) \/ FirstLoad(d) \/ EndWalk(d)
    BY <2>1 DEF BeginPut, EndPut, Subscribe, FirstLoad, EndWalk, ThreadPc
  <2>2. CASE SkipKnown(d)
    BY <2>2 DEF SkipKnown
  <2>6. CASE NilEntry(d)
    BY <2>6 DEF NilEntry
  <2>3. CASE Dial(d)
    BY <2>3 DEF Dial, LinkState
  <2>4. CASE AddClient(d)
    BY <2>4 DEF AddClient, LinkState
  <2>5. CASE Load(d)
    BY <2>5 DEF Load, Loaded, ThreadPc
  <2> QED
    BY <1>1, <2>1, <2>2, <2>3, <2>4, <2>5, <2>6 DEF DepStep
<1>2. ASSUME \A d \in Dep : ~(DepStep(d) \/ Load(d)) PROVE TypeOK'
  <2>1. link' \in [Node -> LinkState] /\ UNCHANGED namingVars
    BY <1>2, ThreadsOnly
  <2>2. up' \subseteq Node /\ catalog' \subseteq Node /\ sick' \subseteq Node /\ timer' \subseteq Node
        /\ adult' \subseteq Node /\ alive' \in BOOLEAN /\ lookups' \in BOOLEAN
    BY <1>2 DEF Next, NodeStep, NodeStart, Register, NodeStop, CheckTurns, Deregister, ReadloopEnd,
                BecomeAdult, MapRace, BeginLookup, EndLookup, vars
  <2> QED
    BY <2>1, <2>2
<1> QED
  BY <1>1, <1>2

\* The holder of Naming's lock alone dials, and only its own service.
LEMMA WatchNext ==
    ASSUME TypeOK, WalkOwns, OneDependencyWatched, [Next]_vars
    PROVE  WalkOwns' /\ OneDependencyWatched'
<1> USE DiscoveryAssumption
    DEF TypeOK, WalkOwns, OneDependencyWatched, Watched, Goto, worldVars, namingVars, clientVars
<1>1. ASSUME NEW d \in Dep, BeginPut(d) \/ EndPut(d) \/ FirstLoad(d)
      PROVE  WalkOwns' /\ OneDependencyWatched'
  BY <1>1 DEF BeginPut, EndPut, FirstLoad
<1>2. ASSUME NEW d \in Dep, Subscribe(d) PROVE WalkOwns' /\ OneDependencyWatched'
  BY <1>2 DEF Subscribe
<1>3. ASSUME NEW d \in Dep, Load(d) PROVE WalkOwns' /\ OneDependencyWatched'
  BY <1>3 DEF Load, Loaded
<1>4. ASSUME NEW d \in Dep, SkipKnown(d) \/ NilEntry(d) PROVE WalkOwns' /\ OneDependencyWatched'
  BY <1>4 DEF SkipKnown, NilEntry, Walking
<1>5. ASSUME NEW d \in Dep, Dial(d) PROVE WalkOwns' /\ OneDependencyWatched'
  BY <1>5 DEF Dial, Walking
<1>6. ASSUME NEW d \in Dep, AddClient(d) PROVE WalkOwns' /\ OneDependencyWatched'
  BY <1>6 DEF AddClient
<1>7. ASSUME NEW d \in Dep, EndWalk(d) PROVE WalkOwns' /\ OneDependencyWatched'
  BY <1>7 DEF EndWalk, Walking
<1>8. ASSUME \A d \in Dep : ~(DepStep(d) \/ Load(d))
      PROVE  WalkOwns' /\ OneDependencyWatched'
  BY <1>8, ThreadsOnly
<1> QED
  BY <1>1, <1>2, <1>3, <1>4, <1>5, <1>6, <1>7, <1>8 DEF DepStep

\* The inductive invariant holds in every state.
THEOREM Invariance == Spec => []IInv
<1>1. IInv /\ [Next]_vars => IInv'
  BY TypeNext, WatchNext DEF IInv
<1> QED
  BY <1>1, InvInit, PTL DEF Spec

\* The goroutines of connectToService, the lock and the clients keep their types.
THEOREM TypeCorrect == Spec => []TypeOK
<1>1. IInv => TypeOK
  BY DEF IInv
<1> QED
  BY <1>1, Invariance, PTL

\* Since Subscribe keeps Naming's lock, one dependency at most is ever watched,
\* and only its instances ever get a client, however many are configured.
THEOREM OneWatched == Spec => []OneDependencyWatched
<1>1. IInv => OneDependencyWatched
  BY DEF IInv
<1> QED
  BY <1>1, Invariance, PTL

=============================================================================
