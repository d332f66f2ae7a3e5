------------------------------ MODULE Channel ------------------------------
(***************************************************************************)
(* One core.Channel: the goroutine of wirteloop that NewChannel starts,    *)
(* the goroutine that runs Readloop and then closes the channel, the       *)
(* goroutines Readloop starts for the packets it reads, and Shutdown,      *)
(* which may close the channel at any time.                                *)
(*                                                                         *)
(* Push writes its frame to the connection itself: nothing is ever sent to *)
(* writechan, so the write loop does nothing until Close closes writechan, *)
(* when receiving from it succeeds at once with an empty payload.  Neither *)
(* Push nor Readloop looks at the closed event, and Close leaves the       *)
(* connection alone.                                                       *)
(*                                                                         *)
(* A read has a deadline, which each frame sets anew, the pings too; a     *)
(* write has none (writewait is set and never read), so it waits for a     *)
(* peer that takes nothing until the connection fails.                     *)
(***************************************************************************)

CONSTANTS
    Packet,   \* packets the peer may send
    Stopper   \* goroutines of Shutdown that close the channel

ASSUME ChannelAssumption == "reader" \notin Stopper

Closer == Stopper \cup {"reader"}

VARIABLES
    broken,   \* the connection has failed: the peer has gone
    peer,     \* what the peer does: it "talks", sending frames in time; it
              \* "takes", reading what it is sent
    reader,   \* where the goroutine of Readloop stands
    receive,  \* where the goroutine of each packet's Receive stands
    loop,     \* where wirteloop stands
    once,     \* the sync.Once of Close
    closer,   \* where each call of Close stands
    panicked, \* writechan was closed twice
    chan,     \* writechan is open
    fired     \* the closed event has fired

closeVars == <<once, closer, panicked, chan, fired>>
vars == <<broken, peer, reader, receive, loop, once, closer, panicked, chan, fired>>

ReaderPc  == {"reading", "pong", "ended", "closing", "done"}
ReceivePc == {"idle", "running", "ended"}
LoopPc    == {"select", "write", "ended"}
CloserPc  == {"idle", "called", "inside", "fire", "returned"}
Habits    == {"talks", "takes"}

TypeOK ==
    /\ broken \in BOOLEAN /\ panicked \in BOOLEAN /\ chan \in BOOLEAN
    /\ fired \in BOOLEAN
    /\ peer \subseteq Habits
    /\ reader \in ReaderPc
    /\ receive \in [Packet -> ReceivePc]
    /\ loop \in LoopPc
    /\ once \in {"free", "running", "done"}
    /\ closer \in [Closer -> CloserPc]

Init ==
    /\ broken = FALSE /\ panicked = FALSE /\ chan = TRUE
    /\ fired = FALSE
    /\ peer = Habits
    /\ reader = "reading" /\ loop = "select" /\ once = "free"
    /\ receive = [p \in Packet |-> "idle"]
    /\ closer = [k \in Closer |-> "idle"]

\* The connection returns from a write: it failed, or the peer makes room.
Takes == broken \/ "takes" \in peer

\* No frame comes before the read deadline.
Quiet == broken \/ "talks" \notin peer

-----------------------------------------------------------------------------
(* The peer, Readloop, and what it starts *)

Break ==
    /\ ~broken
    /\ broken' = TRUE
    /\ UNCHANGED <<peer, reader, receive, loop, closeVars>>

\* The peer begins or ceases to send, or to read.
PeerTurns ==
    /\ ~broken
    /\ \E habits \in SUBSET Habits \ {peer} : peer' = habits
    /\ UNCHANGED <<broken, reader, receive, loop, closeVars>>

\* ReadFrame returns a payload: go lst.Receive(ch, payload).
ReadPacket(p) ==
    /\ reader = "reading" /\ ~Quiet
    /\ receive[p] = "idle"
    /\ receive' = [receive EXCEPT ![p] = "running"]
    /\ UNCHANGED <<broken, peer, reader, loop, closeVars>>

\* It returns a ping, which Readloop answers itself.
ReadPing ==
    /\ reader = "reading" /\ ~Quiet
    /\ reader' = "pong"
    /\ UNCHANGED <<broken, peer, receive, loop, closeVars>>

\* The pong is written; its error is passed over.
WritePong ==
    /\ reader = "pong" /\ Takes
    /\ reader' = "reading"
    /\ UNCHANGED <<broken, peer, receive, loop, closeVars>>

\* A close frame, the read deadline, or an error of the connection.
ReadEnd ==
    /\ reader = "reading"
    /\ reader' = "ended"
    /\ UNCHANGED <<broken, peer, receive, loop, closeVars>>

\* Receive pushes its answer and returns: nothing tells it that the channel was
\* closed while it ran.
ReceiveEnd(p) ==
    /\ receive[p] = "running"
    /\ receive' = [receive EXCEPT ![p] = "ended"]
    /\ UNCHANGED <<broken, peer, reader, loop, closeVars>>

-----------------------------------------------------------------------------
(* Close: a sync.Once around close(writechan) and closed.Fire() *)

Call(k) ==
    /\ closer[k] = "idle"
    /\ IF k = "reader"
       THEN reader = "ended" /\ reader' = "closing"
       ELSE UNCHANGED reader
    /\ closer' = [closer EXCEPT ![k] = "called"]
    /\ UNCHANGED <<broken, peer, receive, loop, once, panicked, chan, fired>>

\* A faulty variant, to show which property depends on this step: an atomic
\* compare-and-swap, whose loser does not wait for the winner.
EnterSwap(k) ==
    /\ closer[k] = "called"
    /\ closer' = [closer EXCEPT ![k] = IF once = "free" THEN "inside" ELSE "returned"]
    /\ once' = IF once = "free" THEN "running" ELSE once
    /\ UNCHANGED <<broken, peer, reader, receive, loop, panicked, chan, fired>>

\* once.Do: the first caller runs the function, the others wait until it has.
Enter(k) ==
    /\ closer[k] = "called"
    /\ \/ once = "free" /\ once' = "running" /\ closer' = [closer EXCEPT ![k] = "inside"]
       \/ once = "done" /\ UNCHANGED once /\ closer' = [closer EXCEPT ![k] = "returned"]
    /\ UNCHANGED <<broken, peer, reader, receive, loop, panicked, chan, fired>>

\* close(writechan), which panics when it is closed already.
CloseChan(k) ==
    /\ closer[k] = "inside"
    /\ panicked' = (panicked \/ ~chan)
    /\ chan' = FALSE
    /\ closer' = [closer EXCEPT ![k] = "fire"]
    /\ UNCHANGED <<broken, peer, reader, receive, loop, once, fired>>

\* A faulty variant, to show which property depends on this step: the event is
\* not fired.
ReturnSilently(k) ==
    /\ closer[k] = "fire"
    /\ once' = "done"
    /\ closer' = [closer EXCEPT ![k] = "returned"]
    /\ UNCHANGED <<broken, peer, reader, receive, loop, panicked, chan, fired>>

\* closed.Fire(), and Do returns.
Fire(k) ==
    /\ closer[k] = "fire"
    /\ fired' = TRUE
    /\ once' = "done"
    /\ closer' = [closer EXCEPT ![k] = "returned"]
    /\ UNCHANGED <<broken, peer, reader, receive, loop, panicked, chan>>

ReaderDone ==
    /\ reader = "closing" /\ closer["reader"] = "returned"
    /\ reader' = "done"
    /\ UNCHANGED <<broken, peer, receive, loop, closeVars>>

-----------------------------------------------------------------------------
(* wirteloop *)

\* The receive case of its select: only a closed writechan is ever ready.
LoopReceive ==
    /\ loop = "select" /\ ~chan
    /\ loop' = "write"
    /\ UNCHANGED <<broken, peer, reader, receive, closeVars>>

\* The empty payload is written; an error ends the loop.
LoopWrite ==
    /\ loop = "write" /\ Takes
    /\ loop' = IF broken THEN "ended" ELSE "select"
    /\ UNCHANGED <<broken, peer, reader, receive, closeVars>>

\* The other case: <-closed.Done().  When both are ready select picks either.
LoopDone ==
    /\ loop = "select" /\ fired
    /\ loop' = "ended"
    /\ UNCHANGED <<broken, peer, reader, receive, closeVars>>

-----------------------------------------------------------------------------
CloseStep(k) == Enter(k) \/ CloseChan(k) \/ Fire(k)

Next ==
    \/ Break \/ PeerTurns
    \/ ReadPing \/ WritePong \/ ReadEnd \/ ReaderDone
    \/ \E p \in Packet : ReadPacket(p) \/ ReceiveEnd(p)
    \/ \E k \in Closer : Call(k) \/ CloseStep(k)
    \/ LoopReceive \/ LoopWrite \/ LoopDone

Spec == Init /\ [][Next]_vars

\* Goroutines run.  A read ends by its deadline, or by an error, when no frame
\* comes any more; a write returns when the peer keeps reading or the connection
\* has failed; nothing is owed of a peer that goes on sending or never reads.
\* select picks among ready cases at random, so one that is ready again and again
\* is picked in the end.  Shutdown need never come.
Fairness ==
    /\ \A k \in Closer : WF_vars(CloseStep(k))
    /\ WF_vars(ReadEnd /\ Quiet) /\ WF_vars(WritePong)
    /\ WF_vars(Call("reader")) /\ WF_vars(ReaderDone)
    /\ WF_vars(LoopReceive \/ LoopWrite) /\ SF_vars(LoopDone)

FairSpec == Spec /\ Fairness

-----------------------------------------------------------------------------
(* Properties *)

\* Whatever Shutdown and the reader's goroutine do at the same time, writechan
\* is closed once, and a Close that has returned, the winner's or another, finds
\* writechan closed and the event fired.
CloseOnce ==
    /\ ~panicked
    /\ \A k \in Closer : closer[k] = "returned" => fired /\ ~chan

\* If writes to the peer come to return: once a Close has returned, the reader's
\* or that of Shutdown with the reader still at work, the write loop does not spin
\* on the closed writechan forever; and if the peer falls silent for good, or its
\* connection fails, the reader's goroutine returns from Close.  A peer that goes
\* on sending pings is read for ever, after Shutdown too.
GoroutinesEnd ==
    <>[]Takes =>
        /\ (\E k \in Closer : closer[k] = "returned") ~> (loop = "ended")
        /\ <>[]Quiet => <>(reader = "done")

=============================================================================
