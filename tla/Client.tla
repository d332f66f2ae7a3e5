------------------------------- MODULE Client -------------------------------
(***************************************************************************)
(* One tcp.Client or websocket.Client after Connect: goroutines that Send, *)
(* the goroutine of the heartbeat, and the goroutine that reads and, when  *)
(* reading ends, calls Close.  All write to the same connection, a frame   *)
(* being several writes; Send holds the client's lock, Close does not, and *)
(* the heartbeat does only in the websocket client.  The bytes are those   *)
(* of the tcp client; what its peer reads is told by module Wire.          *)
(***************************************************************************)
EXTENDS Wire

CONSTANTS
    Sender,     \* goroutines that send (container.Forward)
    Message,    \* what they send
    Op,         \* the op codes OpBinary, OpPing and OpClose
    PingLocks,  \* ping takes the lock: websocket, not tcp
    MaxFrames,  \* bound: the frames that the history of the wire remembers
    Nil

ASSUME ClientAssumption ==
    /\ {"ping", "close", Nil} \cap Sender = {}
    /\ Nil \notin {"ping", "close"}
    /\ Message \in [Sender -> Seq(Byte)]
    /\ Op \in [{"binary", "ping", "close"} -> Byte]
    /\ PingLocks \in BOOLEAN
    /\ MaxFrames \in Nat

Writer == Sender \cup {"ping", "close"}

Parts == 3   \* the writes to the socket that make up one frame

VARIABLES
    state,   \* the client's state word: 1 from Connect until Close
    conn,    \* the connection: "up", "broken" by the peer, or "closed" here
    lock,    \* who holds the client's mutex
    pc,      \* where each writing goroutine stands
    part,    \* parts it has written of the frame it is writing
    clash,   \* history: who cut whose frame on the wire
    torn,    \* history: a frame was cut by another or given up
    stream,  \* history: the bytes on the wire, until then
    whole    \* history: the frames all of whose bytes are among these

wireVars == <<clash, torn, stream, whole>>
vars == <<state, conn, lock, pc, part, clash, torn, stream, whole>>

\* A goroutine is idle between calls; "ready" after the test of state, the tick
\* of the timer, or the start of Close; then it writes its frame.  "shut": Close
\* has still to close the connection.
Pc == {"idle", "ready", "writing", "shut", "ended"}

TypeOK ==
    /\ state \in {0, 1}
    /\ conn \in {"up", "broken", "closed"}
    /\ lock \in Writer \cup {Nil}
    /\ pc \in [Writer -> Pc]
    /\ part \in [Writer -> 0 .. Parts - 1]
    /\ clash \subseteq SUBSET Writer
    /\ torn \in BOOLEAN
    /\ stream \in Seq(Byte)
    /\ whole \in Seq(Frame)

Init ==
    /\ state = 1 /\ conn = "up" /\ lock = Nil
    /\ pc = [w \in Writer |-> "idle"]
    /\ part = [w \in Writer |-> 0]
    /\ clash = {} /\ torn = FALSE
    /\ stream = <<>> /\ whole = <<>>

Locks(w) == w \in Sender \/ (w = "ping" /\ PingLocks)

Goto(w, p) == pc' = [pc EXCEPT ![w] = p]

Unlock(w) == lock' = IF lock = w THEN Nil ELSE lock

FrameOf(w) ==
    IF w \in Sender THEN [op |-> Op["binary"], payload |-> Message[w]]
    ELSE [op |-> Op[w], payload |-> <<>>]

\* The bytes that w writes next, and whether no byte of its frame follows.
Piece(w) == Pieces(FrameOf(w))[part[w] + 1]

Final(w) == part[w] + 1 = IF FrameOf(w).payload = <<>> THEN 2 ELSE 3

\* The goroutines whose frames w cuts by writing.
Cut(w) == {v \in Writer \ {w} : part[v] # 0}

Recorded(w) == ~torn /\ Cut(w) = {} /\ Len(whole) < MaxFrames

\* From here on the history of the bytes says nothing any more.
Tear == torn' = TRUE /\ stream' = <<>> /\ whole' = <<>>

-----------------------------------------------------------------------------
\* The peer closes the connection, or the network does, perhaps in the middle of
\* a write.
Break ==
    /\ conn = "up"
    /\ conn' = "broken"
    /\ \/ UNCHANGED stream
       \/ \E w \in Writer :
             /\ pc[w] = "writing" /\ Recorded(w)
             /\ \E n \in 1 .. Len(Piece(w)) - 1 : stream' = stream \o SubSeq(Piece(w), 1, n)
    /\ UNCHANGED <<state, lock, pc, part, clash, torn, whole>>

\* Send tests the state before it takes the lock.
Send(s) ==
    /\ pc[s] = "idle" /\ state = 1
    /\ Goto(s, "ready")
    /\ UNCHANGED <<state, conn, lock, part, wireVars>>

\* The ticker of heartbealoop: ping.
Tick ==
    /\ pc["ping"] = "idle"
    /\ Goto("ping", "ready")
    /\ UNCHANGED <<state, conn, lock, part, wireVars>>

\* Read returns an error: the end of the connection, the close frame, or the read
\* deadline, which may pass at any time.  Then the reader's goroutine calls Close;
\* once.Do lets one call through.
Close ==
    /\ pc["close"] = "idle"
    /\ Goto("close", "ready")
    /\ UNCHANGED <<state, conn, lock, part, wireVars>>

\* A faulty variant, to show which property depends on this step: Send does not
\* take the lock.
BeginUnlocked(w) ==
    /\ pc[w] = "ready"
    /\ UNCHANGED lock
    /\ IF conn = "closed"
       THEN Goto(w, IF w = "ping" THEN "ended" ELSE "idle")
       ELSE Goto(w, "writing")
    /\ UNCHANGED <<state, conn, part, wireVars>>

\* The lock where there is one, then SetWriteDeadline, which fails on a
\* connection closed on this side: Send returns the error, the heartbeat ends.
Begin(w) ==
    /\ pc[w] = "ready"
    /\ Locks(w) => lock = Nil
    /\ IF conn = "closed"
       THEN UNCHANGED lock /\ Goto(w, IF w = "ping" THEN "ended" ELSE "idle")
       ELSE lock' = (IF Locks(w) THEN w ELSE lock) /\ Goto(w, "writing")
    /\ UNCHANGED <<state, conn, part, wireVars>>

\* What a write leaves on the wire.
OnWire(w) ==
    /\ clash' = clash \cup {{v, w} : v \in Cut(w)}
    /\ CASE Cut(w) # {} -> Tear
         [] Recorded(w) ->
                /\ stream' = stream \o Piece(w)
                /\ whole' = IF Final(w) THEN Append(whole, FrameOf(w)) ELSE whole
                /\ UNCHANGED torn
         [] OTHER -> UNCHANGED <<torn, stream, whole>>

\* A faulty variant, to show which property depends on this step: the count
\* of the parts is not reset.
WriteUnreset(w) ==
    /\ pc[w] = "writing" /\ conn = "up" /\ part[w] < Parts
    /\ part' = [part EXCEPT ![w] = @ + 1]
    /\ OnWire(w)
    /\ IF part[w] + 1 = Parts
       THEN Unlock(w) /\ Goto(w, IF w = "close" THEN "shut" ELSE "idle")
       ELSE UNCHANGED <<lock, pc>>
    /\ UNCHANGED <<state, conn>>

\* One write to the socket; after the last one the lock is released.
Write(w) ==
    /\ pc[w] = "writing" /\ conn = "up"
    /\ part' = [part EXCEPT ![w] = (@ + 1) % Parts]
    /\ OnWire(w)
    /\ IF part[w] + 1 = Parts
       THEN Unlock(w) /\ Goto(w, IF w = "close" THEN "shut" ELSE "idle")
       ELSE UNCHANGED <<lock, pc>>
    /\ UNCHANGED <<state, conn>>

\* A write fails, because the connection is gone or at its deadline, and the
\* frame stays cut short: Send returns the error, the heartbeat ends, Close goes
\* on.  Nobody closes the connection for it.
WriteFails(w) ==
    /\ pc[w] = "writing"
    /\ part' = [part EXCEPT ![w] = 0]
    /\ IF conn = "up" /\ part[w] # 0 THEN Tear ELSE UNCHANGED <<torn, stream, whole>>
    /\ Unlock(w)
    /\ Goto(w, CASE w = "close" -> "shut" [] w = "ping" -> "ended" [] OTHER -> "idle")
    /\ UNCHANGED <<state, conn, clash>>

\* A faulty variant, to show which property depends on this step: the
\* connection is left open.
ShutKeepsConn ==
    /\ pc["close"] = "shut"
    /\ state' = 0
    /\ Goto("close", "ended")
    /\ UNCHANGED <<conn, lock, part, wireVars>>

\* The rest of Close: conn.Close() and the state word.
Shut ==
    /\ pc["close"] = "shut"
    /\ conn' = "closed"
    /\ state' = 0
    /\ Goto("close", "ended")
    /\ UNCHANGED <<lock, part, wireVars>>

Step(w) == Begin(w) \/ Write(w) \/ WriteFails(w)

Next ==
    \/ Break \/ Tick \/ Close \/ Shut
    \/ \E s \in Sender : Send(s)
    \/ \E w \in Writer : Step(w)

Spec == Init /\ [][Next]_vars

\* Goroutines run; the ticker ticks; writes return, at the latest at the deadline
\* that the latest Send or ping has set (Close sets none); the mutex is not held
\* against a waiter forever.  Users of the client owe no Send and the peer no
\* end of the connection.
Fairness ==
    /\ \A w \in Writer : SF_vars(Begin(w)) /\ WF_vars(Write(w) \/ WriteFails(w))
    /\ WF_vars(Tick) /\ WF_vars(Shut)

FairSpec == Spec /\ Fairness

-----------------------------------------------------------------------------
(* Properties *)

\* On the wire a frame is cut by another only where a lock is missing: by the
\* close frame of Close, or by a ping of the tcp client.  Frames of two Sends
\* never mix.
SendsNeverMix ==
    \A v, w \in Writer : v # w /\ {v, w} \in clash =>
        "close" \in {v, w} \/ ("ping" \in {v, w} /\ ~PingLocks)

\* As long as no frame was cut by another or given up, the peer reads the frames
\* in the order of their writes, each as soon as its last byte was written, and
\* never one that was not sent, wherever the connection breaks.  It reads them up
\* to the close frame, where its loop returns: a Send that tested the state before
\* Close had set it may write a frame after that and return no error, and nobody
\* reads that frame.
PeerReadsWhole ==
    LET got == ReadFrames(Op["close"], MaxFrames + 1, stream)
        last == Len(got)
    IN  /\ last <= Len(whole) /\ got = SubSeq(whole, 1, last)
        /\ \A i \in 1 .. last : got[i].op # Op["close"]
        /\ last < Len(whole) => whole[last + 1].op = Op["close"]

\* Close reaches its end and the heartbeat goroutine does not outlive the
\* connection, although nothing tells it of Close but the error of a ping.
CloseEndsAll ==
    (pc["close"] # "idle") ~> (conn = "closed" /\ pc["ping"] = "ended")

=============================================================================
