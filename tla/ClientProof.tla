---------------------------- MODULE ClientProof ----------------------------
(***************************************************************************)
(* Proofs about Client, for any senders and messages, with and without the *)
(* lock around pings.                                                      *)
(***************************************************************************)
EXTENDS Client, WireProof, TLAPS

\* A frame is unfinished only while its goroutine writes, and a goroutine that
\* takes the lock holds it for as long as it writes.
LockCovers ==
    \A w \in Writer :
        /\ part[w] # 0 => pc[w] = "writing"
        /\ Locks(w) /\ pc[w] = "writing" => lock = w

IInv == TypeOK /\ LockCovers /\ SendsNeverMix

\* After Connect nothing is being written.
LEMMA InvInit == Init => IInv
<1> SUFFICES ASSUME Init PROVE IInv
  OBVIOUS
<1>1. TypeOK
  <2>1. stream \in Seq(Byte) /\ whole \in Seq(Frame)
    BY DEF Init
  <2>2. part \in [Writer -> 0 .. Parts - 1]
    BY DEF Init, Parts
  <2>3. pc \in [Writer -> Pc]
    BY DEF Init, Pc
  <2> QED
    BY <2>1, <2>2, <2>3 DEF Init, TypeOK
<1>2. LockCovers /\ SendsNeverMix
  BY DEF Init, LockCovers, SendsNeverMix
<1> QED
  BY <1>1, <1>2 DEF IInv

\* The count of the parts written returns to 0 after the last one.
LEMMA PartCount ==
    ASSUME NEW n \in 0 .. Parts - 1
    PROVE  /\ (n + 1) % Parts \in 0 .. Parts - 1
           /\ n + 1 = Parts => (n + 1) % Parts = 0
  BY DEF Parts

\* What is put on the wire are bytes.
LEMMA PiecesAreBytes ==
    ASSUME NEW w \in Writer, part[w] \in 0 .. Parts - 1
    PROVE  /\ FrameOf(w) \in Frame
           /\ Piece(w) \in Seq(Byte)
<1>1. FrameOf(w) \in Frame
  BY ClientAssumption DEF FrameOf, Writer, Frame
<1>2. PutUint32(Len(FrameOf(w).payload)) \in Seq(Byte)
  BY <1>1, Field32 DEF Frame
<1>3. <<FrameOf(w).op>> \in Seq(Byte) /\ FrameOf(w).payload \in Seq(Byte)
  BY <1>1 DEF Frame
<1> DEFINE op == <<FrameOf(w).op>>
           length == PutUint32(Len(FrameOf(w).payload))
           payload == FrameOf(w).payload
<1>4. part[w] + 1 \in {1, 2, 3}
  BY DEF Parts
<1>5. Piece(w) = <<op, length, payload>>[part[w] + 1]
  BY DEF Piece, Pieces
<1> HIDE DEF op, length, payload
<1>6. Piece(w) \in {op, length, payload}
  BY <1>4, <1>5
<1> QED
  BY <1>1, <1>2, <1>3, <1>6 DEF op, length, payload

\* The history of the wire keeps its type, whatever is written or broken off.
WireTypes ==
    /\ clash \subseteq SUBSET Writer
    /\ torn \in BOOLEAN
    /\ stream \in Seq(Byte)
    /\ whole \in Seq(Frame)

LEMMA OnWireTypes ==
    ASSUME TypeOK, NEW w \in Writer, OnWire(w)
    PROVE  WireTypes'
<1>0. Piece(w) \in Seq(Byte) /\ FrameOf(w) \in Frame
  BY PiecesAreBytes DEF TypeOK
<1>1. clash' \subseteq SUBSET Writer
  <2>1. \A v \in Cut(w) : {v, w} \in SUBSET Writer
    BY DEF Cut
  <2> QED
    BY <2>1 DEF OnWire, TypeOK
<1>2. CASE Tear
  BY <1>1, <1>2 DEF Tear, WireTypes
<1>3. CASE UNCHANGED <<torn, stream, whole>>
  BY <1>1, <1>3 DEF TypeOK, WireTypes
<1>4. CASE /\ stream' = stream \o Piece(w)
           /\ whole' = IF Final(w) THEN Append(whole, FrameOf(w)) ELSE whole
           /\ UNCHANGED torn
  <2>1. stream' \in Seq(Byte)
    BY <1>0, <1>4 DEF TypeOK
  <2>2. whole' \in Seq(Frame)
    <3>1. Append(whole, FrameOf(w)) \in Seq(Frame)
      BY <1>0 DEF TypeOK
    <3> QED
      BY <1>4, <3>1 DEF TypeOK
  <2> QED
    BY <1>1, <1>4, <2>1, <2>2 DEF TypeOK, WireTypes
<1> QED
  BY <1>2, <1>3, <1>4 DEF OnWire

\* A write to the socket moves the count on and records whom it cut.
LEMMA WriteNext ==
    ASSUME TypeOK, NEW w \in Writer, Write(w)
    PROVE  /\ part' \in [Writer -> 0 .. Parts - 1]
           /\ part[w] + 1 = Parts => part'[w] = 0 /\ pc'[w] # "writing"
           /\ \A v \in Writer \ {w} : part'[v] = part[v] /\ pc'[v] = pc[v]
           /\ part[w] + 1 # Parts => lock' = lock /\ pc' = pc
           /\ part[w] + 1 = Parts => lock' = (IF lock = w THEN Nil ELSE lock)
           /\ pc[w] = "writing"
           /\ \A x \in clash' : x \in clash
                  \/ \E v \in Writer \ {w} : x = {v, w} /\ part[v] # 0
<1> DEFINE next == (part[w] + 1) % Parts
<1>1. part' = [part EXCEPT ![w] = next]
  BY DEF Write
<1>2. next \in 0 .. Parts - 1 /\ (part[w] + 1 = Parts => next = 0)
  BY PartCount DEF TypeOK
<1> HIDE DEF next
<1>3. \A x \in clash' : x \in clash
          \/ \E v \in Writer \ {w} : x = {v, w} /\ part[v] # 0
  BY DEF Write, OnWire, Cut
<1>4. part' \in [Writer -> 0 .. Parts - 1] /\ part \in [Writer -> 0 .. Parts - 1]
      /\ pc \in [Writer -> Pc]
  BY <1>1, <1>2 DEF TypeOK
<1> QED
  BY <1>1, <1>2, <1>3, <1>4 DEF Write, Goto, Unlock

\* Every step keeps the types.
LEMMA TypeNext ==
    ASSUME TypeOK, [Next]_vars PROVE TypeOK'
<1> USE ClientAssumption DEF TypeOK, Pc, Goto, Unlock, Writer
<1>1. CASE Break
  <2>1. stream' \in Seq(Byte)
    <3>1. CASE UNCHANGED stream
      BY <3>1
    <3>2. ASSUME NEW w \in Writer, NEW n \in 1 .. Len(Piece(w)) - 1,
                 stream' = stream \o SubSeq(Piece(w), 1, n)
          PROVE  stream' \in Seq(Byte)
      <4>1. Piece(w) \in Seq(Byte)
        BY PiecesAreBytes
      <4>2. SubSeq(Piece(w), 1, n) \in Seq(Byte)
        BY <4>1
      <4> QED
        BY <3>2, <4>2
    <3> QED
      BY <1>1, <3>1, <3>2 DEF Break
  <2> QED
    BY <1>1, <2>1 DEF Break
<1>1a. CASE Tick \/ Close \/ Shut
  BY <1>1a DEF Tick, Close, Shut, wireVars
<1>2. ASSUME NEW s \in Sender, Send(s) PROVE TypeOK'
  BY <1>2 DEF Send, wireVars
<1>3. ASSUME NEW w \in Writer, Begin(w) PROVE TypeOK'
  BY <1>3 DEF Begin, wireVars
<1>4. ASSUME NEW w \in Writer, Write(w) PROVE TypeOK'
  <2>1. part' \in [Writer -> 0 .. Parts - 1]
    BY <1>4, WriteNext
  <2>2. WireTypes'
    BY <1>4, OnWireTypes DEF Write
  <2>3. state' \in {0, 1} /\ conn' \in {"up", "broken", "closed"}
    BY <1>4 DEF Write
  <2>4. lock' \in Writer \cup {Nil} /\ pc' \in [Writer -> Pc]
    BY <1>4 DEF Write
  <2> QED
    BY <2>1, <2>2, <2>3, <2>4 DEF WireTypes
<1>5. ASSUME NEW w \in Writer, WriteFails(w) PROVE TypeOK'
  <2>1. part' \in [Writer -> 0 .. Parts - 1]
    BY <1>5 DEF WriteFails, Parts
  <2>2. WireTypes'
    <3>1. CASE Tear
      BY <1>5, <3>1 DEF WriteFails, Tear, WireTypes
    <3>2. CASE UNCHANGED <<torn, stream, whole>>
      BY <1>5, <3>2 DEF WriteFails, WireTypes
    <3> QED
      BY <1>5, <3>1, <3>2 DEF WriteFails
  <2>3. state' \in {0, 1} /\ conn' \in {"up", "broken", "closed"}
    BY <1>5 DEF WriteFails
  <2>4. lock' \in Writer \cup {Nil} /\ pc' \in [Writer -> Pc]
    BY <1>5 DEF WriteFails
  <2> QED
    BY <2>1, <2>2, <2>3, <2>4 DEF WireTypes
<1>6. CASE UNCHANGED vars
  BY <1>6 DEF vars
<1> QED
  BY <1>1, <1>1a, <1>2, <1>3, <1>4, <1>5, <1>6 DEF Next, Step

\* Begin takes the lock, and the write that ends the frame gives it back.
LEMMA LockNext ==
    ASSUME TypeOK, LockCovers, [Next]_vars PROVE LockCovers'
<1> USE ClientAssumption DEF TypeOK, LockCovers, Pc, Goto, Unlock, Locks
<1>1. CASE Break \/ Tick \/ Close \/ Shut
  BY <1>1 DEF Break, Tick, Close, Shut, Writer
<1>2. ASSUME NEW s \in Sender, Send(s) PROVE LockCovers'
  BY <1>2 DEF Send, Writer
<1>3. ASSUME NEW w \in Writer, Begin(w) PROVE LockCovers'
  BY <1>3 DEF Begin
<1>4. ASSUME NEW w \in Writer, Write(w) PROVE LockCovers'
  <2>1. CASE part[w] + 1 = Parts
    BY <1>4, <2>1, WriteNext
  <2>2. CASE part[w] + 1 # Parts
    BY <1>4, <2>2, WriteNext
  <2> QED
    BY <2>1, <2>2
<1>5. ASSUME NEW w \in Writer, WriteFails(w) PROVE LockCovers'
  BY <1>5 DEF WriteFails
<1>6. CASE UNCHANGED vars
  BY <1>6 DEF vars
<1> QED
  BY <1>1, <1>2, <1>3, <1>4, <1>5, <1>6 DEF Next, Step

\* Of two goroutines that take the lock one at most is inside a frame.
LEMMA MixNext ==
    ASSUME TypeOK, LockCovers, SendsNeverMix, [Next]_vars PROVE SendsNeverMix'
<1>1. CASE UNCHANGED clash
  BY <1>1 DEF SendsNeverMix
<1>2. ASSUME NEW w \in Writer, Write(w) PROVE SendsNeverMix'
  <2> SUFFICES ASSUME NEW v \in Writer \ {w}, part[v] # 0
               PROVE  "close" \in {v, w} \/ ("ping" \in {v, w} /\ ~PingLocks)
    BY <1>2, WriteNext DEF SendsNeverMix
  <2>1. pc[v] = "writing" /\ pc[w] = "writing"
    BY <1>2, WriteNext DEF LockCovers
  <2>2. ~Locks(v) \/ ~Locks(w)
    BY <2>1 DEF LockCovers
  <2> QED
    BY <2>2 DEF Locks, Writer
<1> QED
  BY <1>1, <1>2
  DEF Next, Step, vars, wireVars, Break, Tick, Close, Shut, Send, Begin, WriteFails

\* The inductive invariant holds in every state.
THEOREM Invariance == Spec => []IInv
<1>1. IInv /\ [Next]_vars => IInv'
  BY TypeNext, LockNext, MixNext DEF IInv
<1> QED
  BY <1>1, InvInit, PTL DEF Spec

\* The client's goroutines, its lock and its connection keep their types.
THEOREM TypeCorrect == Spec => []TypeOK
<1>1. IInv => TypeOK
  BY DEF IInv
<1> QED
  BY <1>1, Invariance, PTL

\* Frames that Send writes never mix with each other, nor with the pings of the
\* websocket client.
THEOREM SendsApart == Spec => []SendsNeverMix
<1>1. IInv => SendsNeverMix
  BY DEF IInv
<1> QED
  BY <1>1, Invariance, PTL

-----------------------------------------------------------------------------
(* What the peer reads *)

\* The length of every message fits the field it is written to.
MessagesFit == \A s \in Sender : Len(Message[s]) < Words32

\* The bytes of a frame that its goroutine has written; none when it has written
\* all of them and only its last, empty write is left.
Written(w) ==
    CASE part[w] = 1 -> Pieces(FrameOf(w))[1]
      [] part[w] = 2 /\ FrameOf(w).payload # <<>> ->
            Pieces(FrameOf(w))[1] \o Pieces(FrameOf(w))[2]
      [] OTHER -> <<>>

\* After the frames that are whole the wire has a part of a frame: what the one
\* goroutine inside a frame has written of it, as long as the history goes on.
WireTold ==
    /\ Len(whole) <= MaxFrames
    /\ ~torn => \A v, w \in Writer : part[v] # 0 /\ part[w] # 0 => v = w
    /\ \E r :
          /\ Splits(stream, whole, r)
          /\ IsPart(r[Len(whole)])
          /\ conn = "up" /\ ~torn /\ Len(whole) < MaxFrames =>
                /\ \A w \in Writer : part[w] # 0 => r[Len(whole)] = Written(w)
                /\ (\A w \in Writer : part[w] = 0) => r[Len(whole)] = <<>>

\* A frame is its pieces, one after the other, and its length fits its field.
LEMMA FrameInPieces ==
    ASSUME MessagesFit, NEW w \in Writer
    PROVE  /\ FrameOf(w) \in Frame /\ Len(FrameOf(w).payload) < Words32
           /\ Pieces(FrameOf(w))[1] \in Seq(Byte) /\ Pieces(FrameOf(w))[2] \in Seq(Byte)
           /\ FrameOf(w).payload \in Seq(Byte)
           /\ Pieces(FrameOf(w))[1] # <<>> /\ Pieces(FrameOf(w))[2] # <<>>
           /\ Pieces(FrameOf(w))[3] = FrameOf(w).payload
           /\ FrameBytes(FrameOf(w)) =
                 Pieces(FrameOf(w))[1] \o (Pieces(FrameOf(w))[2] \o Pieces(FrameOf(w))[3])
           /\ FrameBytes(FrameOf(w)) =
                 (Pieces(FrameOf(w))[1] \o Pieces(FrameOf(w))[2]) \o Pieces(FrameOf(w))[3]
<1> DEFINE f == FrameOf(w)
           a == <<f.op>>
           n == PutUint32(Len(f.payload))
           p == f.payload
<1>1. f \in Frame
  BY ClientAssumption DEF FrameOf, Writer, Frame
<1>2. Len(f.payload) < Words32
  <2>1. 0 < Words32
    BY WireAssumption DEF Words32, Words16
  <2> QED
    BY <2>1 DEF MessagesFit, FrameOf
<1>3. Pieces(f) = <<a, n, p>>
  BY DEF Pieces
<1>4. p \in Seq(Byte)
  BY <1>1 DEF Frame
<1> HIDE DEF f
<1>5. /\ a \in Seq(Byte) /\ Len(a) = 1 /\ n \in Seq(Byte) /\ Len(n) = 4
      /\ FrameBytes(f) = a \o (n \o p)
  BY <1>1, FrameShape
<1> HIDE DEF a, n, p
<1>6. (a \o n) \o p = a \o (n \o p)
  BY <1>4, <1>5, Associative
<1>7. a # <<>> /\ n # <<>>
  <2>1. Len(<<>>) = 0 /\ 0 # 1 /\ 0 # 4
    OBVIOUS
  <2> QED
    BY <1>5, <2>1, Zenon
<1>8. Pieces(f)[1] = a /\ Pieces(f)[2] = n /\ Pieces(f)[3] = p
  BY <1>3
<1> QED
  BY <1>1, <1>2, <1>4, <1>5, <1>6, <1>7, <1>8 DEF f, p

\* A write that the history records leaves what its goroutine has written of its
\* frame after the frames that are whole.
LEMMA RecordedWrite ==
    ASSUME MessagesFit, TypeOK, WireTold, NEW w \in Writer, Write(w), Recorded(w)
    PROVE  WireTold'
<1> DEFINE n == Len(whole)
           f == FrameOf(w)
           a == Pieces(f)[1]
           l == Pieces(f)[2]
           d == f.payload
           p == Piece(w)
<1>1. PICK r : /\ Splits(stream, whole, r)
               /\ IsPart(r[n])
               /\ conn = "up" /\ ~torn /\ n < MaxFrames =>
                     /\ \A v \in Writer : part[v] # 0 => r[n] = Written(v)
                     /\ (\A v \in Writer : part[v] = 0) => r[n] = <<>>
  BY DEF WireTold
<1> DEFINE b == r[n]
<1>2. /\ conn = "up" /\ ~torn /\ n < MaxFrames /\ n \in Nat /\ MaxFrames \in Nat
      /\ stream' = stream \o p /\ torn' = torn /\ conn' = conn
      /\ whole' = IF Final(w) THEN Append(whole, f) ELSE whole
  BY ClientAssumption DEF Write, Recorded, OnWire, TypeOK
<1>3. \A v \in Writer \ {w} : part[v] = 0 /\ part'[v] = 0
  BY WriteNext DEF Recorded, Cut
<1>4. /\ part[w] \in {0, 1, 2}
      /\ part[w] = 0 => part'[w] = 1
      /\ part[w] = 1 => part'[w] = 2
      /\ part[w] = 2 => part'[w] = 0
  BY DEF TypeOK, Parts, Write
<1>5. /\ f \in Frame /\ Len(d) < Words32
      /\ a \in Seq(Byte) /\ l \in Seq(Byte) /\ d \in Seq(Byte) /\ a # <<>> /\ l # <<>>
      /\ FrameBytes(f) = a \o (l \o d) /\ FrameBytes(f) = (a \o l) \o d
      /\ Pieces(f)[3] = d
  BY FrameInPieces
<1>6. /\ part[w] = 0 => p = a
      /\ part[w] = 1 => p = l
      /\ part[w] = 2 => p = d
  BY <1>5 DEF Piece
<1>7. Final(w) <=> (part[w] = 1 /\ d = <<>>) \/ (part[w] = 2 /\ d # <<>>)
  BY <1>4 DEF Final
<1>8. /\ Written(w) = CASE part[w] = 1 -> a
                        [] part[w] = 2 /\ d # <<>> -> a \o l
                        [] OTHER -> <<>>
      /\ Written(w)' = CASE part'[w] = 1 -> a
                         [] part'[w] = 2 /\ d # <<>> -> a \o l
                         [] OTHER -> <<>>
  BY DEF Written
<1> HIDE DEF f, a, l, d, p
<1>9. b = Written(w)
  <2>1. CASE part[w] = 0
    BY <1>1, <1>2, <1>3, <1>8, <2>1
  <2>2. CASE part[w] # 0
    BY <1>1, <1>2, <2>2
  <2> QED
    BY <2>1, <2>2
<1>10. whole \in Seq(Frame) /\ p \in Seq(Byte)
  BY PiecesAreBytes DEF TypeOK, p
<1>11. PICK q : Splits(stream', whole, q) /\ q[n] = b \o p
  <2>1. Splits(stream, whole, r)
    BY <1>1
  <2>2. PICK q : Splits(stream \o p, whole, q) /\ q[Len(whole)] = r[Len(whole)] \o p
    BY <1>10, <2>1, SplitMore
  <2> QED
    BY <1>2, <2>2
<1>12. ASSUME NEW s, Splits(stream', whole', s), Len(whole') <= MaxFrames,
              IsPart(s[Len(whole')]), s[Len(whole')] = Written(w)'
       PROVE  WireTold'
  <2>1. \A v \in Writer : part'[v] # 0 => v = w
    BY <1>3
  <2>2. (\A v \in Writer : part'[v] = 0) => Written(w)' = <<>>
    BY <1>8
  <2> QED
    BY <1>12, <2>1, <2>2 DEF WireTold
<1>13. ASSUME ~Final(w), IsPart(b \o p), b \o p = Written(w)' PROVE WireTold'
  <2>1. whole' = whole /\ Len(whole') <= MaxFrames
    BY <1>2, <1>13
  <2> QED
    BY <1>11, <1>12, <1>13, <2>1
<1>14. ASSUME Final(w), b \o p = FrameBytes(f), Written(w)' = <<>> PROVE WireTold'
  <2>1. PICK s : Splits(stream', Append(whole, f), s) /\ s[n + 1] = <<>>
    BY <1>5, <1>10, <1>11, <1>14, SplitAppend DEF d
  <2>2. whole' = Append(whole, f) /\ Len(whole') = n + 1 /\ n + 1 <= MaxFrames
    BY <1>2, <1>10, <1>14
  <2> QED
    BY <1>12, <1>14, <2>1, <2>2, EmptyPart
<1>15. CASE part[w] = 0
  <2>1. b = <<>> /\ p = a /\ Written(w)' = a /\ ~Final(w)
    BY <1>4, <1>6, <1>7, <1>8, <1>9, <1>15
  <2>2. b \o p = a
    BY <1>5, <2>1, ConcatEmptySeq
  <2>3. l \o d \in Seq(Byte) /\ l \o d # <<>>
    <3>1. Len(l \o d) = Len(l) + Len(d) /\ Len(l) # 0 /\ Len(l) \in Nat /\ Len(d) \in Nat
      BY <1>5
    <3>2. Len(<<>>) = 0
      OBVIOUS
    <3> QED
      BY <1>5, <3>1, <3>2
  <2>4. IsPart(a)
    BY <1>5, <2>3, PartOf DEF d
  <2> QED
    BY <1>13, <2>1, <2>2, <2>4
<1>16. CASE part[w] = 1 /\ d = <<>>
  <2>1. b = a /\ p = l /\ Written(w)' = <<>> /\ Final(w)
    BY <1>4, <1>6, <1>7, <1>8, <1>9, <1>16
  <2>2. a \o l \in Seq(Byte)
    BY <1>5
  <2>3. (a \o l) \o d = a \o l
    BY <1>16, <2>2, ConcatEmptySeq
  <2> QED
    BY <1>5, <1>14, <2>1, <2>3
<1>17. CASE part[w] = 1 /\ d # <<>>
  <2>1. b = a /\ p = l /\ Written(w)' = a \o l /\ ~Final(w)
    BY <1>4, <1>6, <1>7, <1>8, <1>9, <1>17
  <2>2. a \o l \in Seq(Byte)
    BY <1>5
  <2>3. IsPart(a \o l)
    BY <1>5, <1>17, <2>2, PartOf DEF d
  <2> QED
    BY <1>13, <2>1, <2>3
<1>18. CASE part[w] = 2 /\ d = <<>>
  <2>1. b = <<>> /\ p = <<>> /\ Written(w)' = <<>> /\ ~Final(w)
    BY <1>4, <1>6, <1>7, <1>8, <1>9, <1>18
  <2>2. <<>> \o <<>> = <<>>
    OBVIOUS
  <2> QED
    BY <1>13, <2>1, <2>2, EmptyPart
<1>19. CASE part[w] = 2 /\ d # <<>>
  <2>1. b = a \o l /\ p = d /\ Written(w)' = <<>> /\ Final(w)
    BY <1>4, <1>6, <1>7, <1>8, <1>9, <1>19
  <2> QED
    BY <1>5, <1>14, <2>1
<1> QED
  BY <1>4, <1>15, <1>16, <1>17, <1>18, <1>19

\* A torn history starts from nothing.
LEMMA TornTold ==
    ASSUME torn' = TRUE, stream' = <<>>, whole' = <<>> PROVE WireTold'
<1>1. PICK r : Splits(<<>>, <<>>, r) /\ r[0] = <<>>
  BY SplitNothing
<1>2. Len(whole') = 0 /\ 0 <= MaxFrames
  BY ClientAssumption
<1>3. Splits(stream', whole', r) /\ r[Len(whole')] = <<>>
  BY <1>1, <1>2
<1> QED
  BY <1>2, <1>3, EmptyPart DEF WireTold

\* A step that leaves the history alone is told as before if it leaves the parts
\* alone, or if nothing more is recorded after it.
LEMMA KeptTold ==
    ASSUME WireTold, UNCHANGED <<torn, stream, whole>>,
           ~torn' => \A v, w \in Writer : part'[v] # 0 /\ part'[w] # 0 => v = w,
           \/ conn' # "up" \/ torn \/ ~(Len(whole) < MaxFrames)
           \/ UNCHANGED <<conn, part>>
    PROVE  WireTold'
<1>1. PICK r : /\ Splits(stream, whole, r)
               /\ IsPart(r[Len(whole)])
               /\ conn = "up" /\ ~torn /\ Len(whole) < MaxFrames =>
                     /\ \A w \in Writer : part[w] # 0 => r[Len(whole)] = Written(w)
                     /\ (\A w \in Writer : part[w] = 0) => r[Len(whole)] = <<>>
  BY DEF WireTold
<1>2. Splits(stream', whole', r) /\ IsPart(r[Len(whole')]) /\ Len(whole') <= MaxFrames
  BY <1>1 DEF WireTold
<1>3. conn' = "up" /\ ~torn' /\ Len(whole') < MaxFrames =>
          /\ \A w \in Writer : part'[w] # 0 => r[Len(whole')] = Written(w)'
          /\ (\A w \in Writer : part'[w] = 0) => r[Len(whole')] = <<>>
  BY <1>1 DEF Written
<1> QED
  BY <1>2, <1>3 DEF WireTold

\* The connection may break in the middle of a write.
LEMMA BreakTold ==
    ASSUME MessagesFit, TypeOK, WireTold, Break PROVE WireTold'
<1>1. CASE UNCHANGED stream
  <2>1. UNCHANGED <<torn, stream, whole, part>> /\ conn' # "up"
    BY <1>1 DEF Break
  <2> QED
    BY <2>1, KeptTold DEF WireTold
<1>2. ASSUME NEW w \in Writer, Recorded(w), NEW k \in 1 .. Len(Piece(w)) - 1,
             stream' = stream \o SubSeq(Piece(w), 1, k)
      PROVE  WireTold'
  <2> DEFINE n == Len(whole)
             f == FrameOf(w)
             p == Piece(w)
             c == SubSeq(p, 1, k)
             a == Pieces(f)[1]
             l == Pieces(f)[2]
             d == f.payload
  <2>1. PICK r : /\ Splits(stream, whole, r)
                 /\ conn = "up" /\ ~torn /\ n < MaxFrames =>
                       /\ \A v \in Writer : part[v] # 0 => r[n] = Written(v)
                       /\ (\A v \in Writer : part[v] = 0) => r[n] = <<>>
    BY DEF WireTold
  <2>2. conn = "up" /\ ~torn /\ n < MaxFrames /\ \A v \in Writer \ {w} : part[v] = 0
    BY <1>2 DEF Break, Recorded, Cut, TypeOK
  <2>3. /\ part[w] \in {0, 1, 2} /\ p = Pieces(f)[part[w] + 1]
        /\ Written(w) = CASE part[w] = 1 -> a
                          [] part[w] = 2 /\ d # <<>> -> a \o l
                          [] OTHER -> <<>>
    BY DEF TypeOK, Parts, Piece, Written
  <2>4. r[n] = Written(w)
    <3>1. CASE part[w] = 0
      BY <2>1, <2>2, <2>3, <3>1
    <3>2. CASE part[w] # 0
      BY <2>1, <2>2, <3>2
    <3> QED
      BY <3>1, <3>2
  <2>5. /\ f \in Frame /\ Len(d) < Words32
        /\ a \in Seq(Byte) /\ l \in Seq(Byte) /\ d \in Seq(Byte)
        /\ FrameBytes(f) = a \o (l \o d) /\ FrameBytes(f) = (a \o l) \o d
        /\ Pieces(f)[3] = d
    BY FrameInPieces
  <2>6. p \in Seq(Byte) /\ c \in Seq(Byte) /\ whole \in Seq(Frame)
        /\ k \in 1 .. Len(p) - 1 /\ stream' = stream \o c
    BY <1>2, PiecesAreBytes DEF TypeOK
  <2> HIDE DEF f, a, l, d, p
  <2>7. ASSUME NEW b \in Seq(Byte), NEW x \in Seq(Byte), FrameBytes(f) = b \o (p \o x)
        PROVE  IsPart(b \o c)
    BY <2>5, <2>6, <2>7, PartWithin DEF d
  <2> HIDE DEF c
  <2>8. IsPart(Written(w) \o c)
    <3>1. CASE part[w] = 0
      <4>1. p = a /\ Written(w) = <<>>
        BY <2>3, <3>1 DEF a
      <4>2. l \o d \in Seq(Byte) /\ FrameBytes(f) \in Seq(Byte) /\ <<>> \in Seq(Byte)
        BY <2>5
      <4>3. FrameBytes(f) = <<>> \o (p \o (l \o d))
        BY <2>5, <4>1, <4>2, ConcatEmptySeq
      <4> QED
        BY <2>7, <4>1, <4>2, <4>3
    <3>2. CASE part[w] = 1
      <4>1. p = l /\ Written(w) = a
        BY <2>3, <3>2 DEF l
      <4> QED
        BY <2>5, <2>7, <4>1
    <3>3. CASE part[w] = 2 /\ d # <<>>
      <4>1. p = d /\ Written(w) = a \o l
        BY <2>3, <2>5, <3>3
      <4>2. d \o <<>> = d /\ a \o l \in Seq(Byte) /\ <<>> \in Seq(Byte)
        BY <2>5, ConcatEmptySeq
      <4> QED
        BY <2>5, <2>7, <4>1, <4>2
    <3>4. CASE part[w] = 2 /\ d = <<>>
      <4>1. p = <<>>
        BY <2>3, <2>5, <3>4
      <4>2. Len(p) = 0
        BY <4>1
      <4> QED
        BY <2>6, <4>2
    <3> QED
      BY <2>3, <3>1, <3>2, <3>3, <3>4
  <2>9. PICK q : Splits(stream', whole, q) /\ q[n] = r[n] \o c
    <3>1. Splits(stream, whole, r)
      BY <2>1
    <3>2. PICK q : Splits(stream \o c, whole, q) /\ q[Len(whole)] = r[Len(whole)] \o c
      BY <2>6, <3>1, SplitMore
    <3> QED
      BY <2>6, <3>2
  <2>10. IsPart(q[n])
    BY <2>4, <2>8, <2>9
  <2>11. UNCHANGED <<torn, whole, part>> /\ conn' # "up"
    BY DEF Break
  <2> QED
    BY <2>9, <2>10, <2>11 DEF WireTold
<1> QED
  BY <1>1, <1>2 DEF Break

\* Every step keeps what the wire tells.
LEMMA ToldNext ==
    ASSUME MessagesFit, TypeOK, WireTold, [Next]_vars PROVE WireTold'
<1>1. CASE Break
  BY <1>1, BreakTold
<1>2. CASE UNCHANGED <<conn, part, torn, stream, whole>>
  BY <1>2, KeptTold DEF WireTold
<1>3. CASE Shut
  <2>1. UNCHANGED <<torn, stream, whole, part>> /\ conn' # "up"
    BY <1>3 DEF Shut, wireVars
  <2> QED
    BY <2>1, KeptTold DEF WireTold
<1>4. ASSUME NEW w \in Writer, Write(w) PROVE WireTold'
  <2>1. CASE Recorded(w)
    BY <1>4, <2>1, RecordedWrite
  <2>2. CASE Tear
    BY <2>2, TornTold DEF Tear
  <2>3. CASE ~Recorded(w) /\ UNCHANGED <<torn, stream, whole>> /\ Cut(w) = {}
    <3>1. torn \/ ~(Len(whole) < MaxFrames)
      BY <2>3 DEF Recorded
    <3>2. \A v \in Writer \ {w} : part'[v] = 0
      BY <1>4, <2>3, WriteNext DEF Cut
    <3> QED
      BY <2>3, <3>1, <3>2, KeptTold
  <2> QED
    BY <1>4, <2>1, <2>2, <2>3 DEF Write, OnWire
<1>5. ASSUME NEW w \in Writer, WriteFails(w) PROVE WireTold'
  <2>1. CASE Tear
    BY <2>1, TornTold DEF Tear
  <2>2. CASE (conn # "up" \/ part[w] = 0) /\ UNCHANGED <<torn, stream, whole>>
    <3>1. conn' = conn /\ part' = [part EXCEPT ![w] = 0] /\ part \in [Writer -> 0 .. Parts - 1]
      BY <1>5 DEF WriteFails, TypeOK
    <3>2. \A v \in Writer : part'[v] # 0 => part[v] # 0
      BY <3>1
    <3>3. part[w] = 0 => part' = part
      BY <3>1
    <3>4. ~torn' => \A u, v \in Writer : part'[u] # 0 /\ part'[v] # 0 => u = v
      BY <2>2, <3>2 DEF WireTold
    <3> QED
      BY <2>2, <3>1, <3>3, <3>4, KeptTold
  <2> QED
    BY <1>5, <2>1, <2>2 DEF WriteFails
<1> QED
  BY <1>1, <1>2, <1>3, <1>4, <1>5
  DEF Next, Step, vars, wireVars, Tick, Close, Send, Begin

\* Up to the close frame the peer reads what was sent, whole and in order, and
\* nothing else: for any senders and messages whose length their field can tell,
\* however long the history is and wherever the connection breaks.
THEOREM PeerReads == MessagesFit => (Spec => []PeerReadsWhole)
<1> SUFFICES ASSUME MessagesFit PROVE Spec => []PeerReadsWhole
  OBVIOUS
<1>1. Init => WireTold
  <2> SUFFICES ASSUME Init PROVE WireTold
    OBVIOUS
  <2>1. PICK r : Splits(<<>>, <<>>, r) /\ r[0] = <<>>
    BY SplitNothing
  <2>2. Len(whole) = 0 /\ 0 <= MaxFrames /\ \A w \in Writer : part[w] = 0
    BY ClientAssumption DEF Init
  <2>3. Splits(stream, whole, r) /\ r[Len(whole)] = <<>>
    BY <2>1, <2>2 DEF Init
  <2> QED
    BY <2>2, <2>3, EmptyPart DEF WireTold
<1>2. IInv /\ WireTold /\ [Next]_vars => WireTold'
  BY ToldNext DEF IInv
<1>3. IInv /\ WireTold => PeerReadsWhole
  <2> SUFFICES ASSUME TypeOK, WireTold PROVE PeerReadsWhole
    BY DEF IInv
  <2>1. PICK r : Splits(stream, whole, r) /\ IsPart(r[Len(whole)])
    BY DEF WireTold
  <2>2. whole \in Seq(Frame) /\ Len(whole) \in Nat
    BY DEF TypeOK
  <2>3. MaxFrames + 1 \in Nat /\ MaxFrames + 1 >= Len(whole)
    BY <2>2, ClientAssumption DEF WireTold
  <2>4. ~ReadFrame(r[Len(whole)]).ok
    BY <2>1, NoFrameFromPart DEF IsPart
  <2> DEFINE close == Op["close"]
             n == MaxFrames + 1
             got == ReadFrames(close, n, stream)
  <2>5. PICK last \in 0 .. Len(whole) :
           /\ \A i \in 1 .. last : whole[i].op # close
           /\ last < Len(whole) => whole[last + 1].op = close
    BY <2>2, FirstClose
  <2>6. last \in Nat /\ last <= Len(whole) /\ n \in Nat /\ n >= last
    BY <2>2, <2>3
  <2> HIDE DEF close, n
  <2>7. got = SubSeq(whole, 1, last)
    <3>1. Splits(stream, whole, r) /\ whole \in Seq(Frame) /\ last \in 0 .. Len(whole)
      BY <2>1, <2>2
    <3> QED
      BY ONLY <3>1, <2>4, <2>5, <2>6, StreamRead, Zenon DEF got
  <2> HIDE DEF got
  <2>8. Len(got) = last /\ \A i \in 1 .. last : got[i] = whole[i]
    BY <2>2, <2>6, <2>7
  <2> QED
    BY <2>5, <2>6, <2>7, <2>8 DEF PeerReadsWhole, got, close, n
<1> QED
  BY <1>1, <1>2, <1>3, Invariance, PTL DEF Spec

=============================================================================
