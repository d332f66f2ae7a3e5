---------------------------- MODULE ChannelProof ----------------------------
(***************************************************************************)
(* Proofs about Channel, for any packets and any calls of Close.           *)
(***************************************************************************)
EXTENDS Channel, TLAPS

\* One call of Close is inside Do while once runs, and writechan and the event
\* follow it: before, both are as NewChannel left them; after, both are closed.
OnceGuards ==
    /\ \A j, k \in Closer :
        closer[j] \in {"inside", "fire"} /\ closer[k] \in {"inside", "fire"} => j = k
    /\ \A k \in Closer :
        /\ closer[k] = "inside" => once = "running" /\ chan
        /\ closer[k] = "fire" => once = "running" /\ ~chan
        /\ closer[k] = "returned" => once = "done"
    /\ once = "free" => chan
    /\ once = "done" => fired /\ ~chan

IInv == TypeOK /\ OnceGuards /\ ~panicked

\* A new channel is open and nobody is closing it.
LEMMA InvInit == Init => IInv
  BY DEF Init, IInv, TypeOK, OnceGuards, ReaderPc, ReceivePc, LoopPc, CloserPc, Habits

\* Every step keeps the types.
LEMMA TypeNext ==
    ASSUME TypeOK, [Next]_vars PROVE TypeOK'
<1> USE DEF TypeOK, closeVars, ReaderPc, ReceivePc, LoopPc, CloserPc, Habits
<1>1. CASE Break \/ PeerTurns \/ ReadPing \/ WritePong \/ ReadEnd \/ ReaderDone
  BY <1>1 DEF Break, PeerTurns, ReadPing, WritePong, ReadEnd, ReaderDone
<1>2. ASSUME NEW p \in Packet, ReadPacket(p) \/ ReceiveEnd(p) PROVE TypeOK'
  BY <1>2 DEF ReadPacket, ReceiveEnd
<1>3. ASSUME NEW k \in Closer, Call(k) \/ CloseStep(k) PROVE TypeOK'
  BY <1>3 DEF Call, CloseStep, Enter, CloseChan, Fire
<1>4. CASE LoopReceive \/ LoopWrite \/ LoopDone
  BY <1>4 DEF LoopReceive, LoopWrite, LoopDone
<1>5. CASE UNCHANGED vars
  BY <1>5 DEF vars
<1> QED
  BY <1>1, <1>2, <1>3, <1>4, <1>5 DEF Next

\* sync.Once keeps every call but the first out of the function it runs.
LEMMA OnceNext ==
    ASSUME TypeOK, OnceGuards, ~panicked, [Next]_vars
    PROVE  OnceGuards' /\ ~panicked'
<1> USE DEF TypeOK, OnceGuards, closeVars
<1>1. ASSUME NEW k \in Closer, Call(k) PROVE OnceGuards' /\ ~panicked'
  BY <1>1 DEF Call
<1>2. ASSUME NEW k \in Closer, Enter(k) PROVE OnceGuards' /\ ~panicked'
  BY <1>2 DEF Enter
<1>3. ASSUME NEW k \in Closer, CloseChan(k) PROVE OnceGuards' /\ ~panicked'
  BY <1>3 DEF CloseChan
<1>4. ASSUME NEW k \in Closer, Fire(k) PROVE OnceGuards' /\ ~panicked'
  BY <1>4 DEF Fire
<1>5. CASE UNCHANGED closeVars
  BY <1>5
<1> QED
  BY <1>1, <1>2, <1>3, <1>4, <1>5
  DEF Next, CloseStep, vars, Break, PeerTurns, ReadPing, WritePong, ReadEnd, ReaderDone,
      ReadPacket, ReceiveEnd, LoopReceive, LoopWrite, LoopDone

\* Once open, a channel is closed by one call alone: the inductive invariant
\* holds in every state.
THEOREM Invariance == Spec => []IInv
<1>1. IInv /\ [Next]_vars => IInv'
  BY TypeNext, OnceNext DEF IInv
<1> QED
  BY <1>1, InvInit, PTL DEF Spec

\* The channel's goroutines are always at a point of their code.
THEOREM TypeCorrect == Spec => []TypeOK
<1>1. IInv => TypeOK
  BY DEF IInv
<1> QED
  BY <1>1, Invariance, PTL

\* However many goroutines call Close at once, writechan is closed once, and
\* every call that has returned finds it closed and the event fired.
THEOREM ClosedOnce == Spec => []CloseOnce
<1>1. IInv => CloseOnce
  BY DEF IInv, OnceGuards, CloseOnce
<1> QED
  BY <1>1, Invariance, PTL

=============================================================================
