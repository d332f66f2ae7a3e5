-------------------------------- MODULE Wire --------------------------------
(***************************************************************************)
(* What is written with the length prefixes of wire/endian, and what is    *)
(* read back: the value of a location key in redis, and the frames of a    *)
(* tcp connection.  A byte is a digit; the program's base is 256.  What is *)
(* left to read, of a buffer or of a connection that ended, is a sequence  *)
(* of bytes.                                                               *)
(***************************************************************************)
EXTENDS Naturals, Sequences

CONSTANT Base   \* the number of values of a byte

ASSUME WireAssumption == Base \in Nat /\ Base > 1

Byte == 0 .. Base - 1

\* The lengths that 16 and 32 bits can tell apart.
Words16 == Base * Base
Words32 == Words16 * Words16

-----------------------------------------------------------------------------
(* wire/endian, little endian *)

Failed == [ok |-> FALSE]

Read(val, rest) == [ok |-> TRUE, val |-> val, rest |-> rest]

\* A faulty variant, to show which property depends on this step: one read of
\* the connection, which may return less, for ReadFull.
ReadSome(n, r) ==
    IF n = 0 \/ r # <<>>
    THEN Read([i \in 1 .. n |-> IF i <= Len(r) THEN r[i] ELSE 0], SubSeq(r, n + 1, Len(r)))
    ELSE Failed

\* io.ReadFull, as ReadFixedBytes uses it: n bytes or an error.
ReadFixedBytes(n, r) ==
    IF n <= Len(r)
    THEN Read(SubSeq(r, 1, n), SubSeq(r, n + 1, Len(r)))
    ELSE Failed

\* A conversion to uint16 or uint32 keeps the low bits.
PutUint16(n) == <<n % Base, (n \div Base) % Base>>
PutUint32(n) == PutUint16(n % Words16) \o PutUint16(n \div Words16)

\* A faulty variant, to show which property depends on this step: big endian.
BigUint16(b) == b[1] * Base + b[2]

Uint16(b) == b[1] + b[2] * Base
Uint32(b) == Uint16(SubSeq(b, 1, 2)) + Uint16(SubSeq(b, 3, 4)) * Words16

ReadUint8(r) ==
    LET b == ReadFixedBytes(1, r)
    IN  IF b.ok THEN Read(b.val[1], b.rest) ELSE Failed

ReadUint16(r) ==
    LET b == ReadFixedBytes(2, r)
    IN  IF b.ok THEN Read(Uint16(b.val), b.rest) ELSE Failed

ReadUint32(r) ==
    LET b == ReadFixedBytes(4, r)
    IN  IF b.ok THEN Read(Uint32(b.val), b.rest) ELSE Failed

\* A byte string, WriteString's too, after its length in 32 bits.
WriteBytes(buf) == PutUint32(Len(buf)) \o buf

ReadBytes(r) ==
    LET n == ReadUint32(r)
    IN  IF n.ok THEN ReadFixedBytes(n.val, n.rest) ELSE Failed

\* A byte string after its length in 16 bits: a longer one is written whole
\* after a length that was cut.
WriteShortBytes(buf) == PutUint16(Len(buf)) \o buf

ReadShortBytes(r) ==
    LET n == ReadUint16(r)
    IN  IF n.ok THEN ReadFixedBytes(n.val, n.rest) ELSE Failed

-----------------------------------------------------------------------------
(* iface.Location *)

Loc(channel, gate) == [ChannelID |-> channel, GateId |-> gate]

Bytes(loc) == WriteShortBytes(loc.ChannelID) \o WriteShortBytes(loc.GateId)

\* The location that was read by the first error, which the callers pass over.
Unmarshal(data) ==
    LET c == ReadShortBytes(data)
        g == ReadShortBytes(c.rest)
    IN  IF data = <<>> \/ ~c.ok THEN Loc(<<>>, <<>>)
        ELSE IF ~g.ok THEN Loc(c.val, <<>>)
        ELSE Loc(c.val, g.val)

-----------------------------------------------------------------------------
(* TcpConn *)

Frame == [op : Byte, payload : Seq(Byte)]

\* WriteFrame writes a frame in three pieces: op code, length, payload.
Pieces(f) == <<<<f.op>>, PutUint32(Len(f.payload)), f.payload>>

ReadFrame(r) ==
    LET op == ReadUint8(r)
        payload == ReadBytes(op.rest)
    IN  IF op.ok /\ payload.ok
        THEN Read([op |-> op.val, payload |-> payload.val], payload.rest)
        ELSE Failed

\* What a reader gets out of a stream: the frames so far and the next read.  It
\* reads on until a read fails or it has read the frame with the op code close,
\* here n times at most; what follows that frame stays unread.
ReadStart(stream) == [frames |-> <<>>, next |-> ReadFrame(stream)]

\* A faulty variant, to show which property depends on this step: the close frame
\* does not end the loop.
ContinuesPastClose(close, next) == next.ok

Continues(close, next) == next.ok /\ next.val.op # close

ReadMore(close, s) ==
    IF Continues(close, s.next)
    THEN [frames |-> Append(s.frames, s.next.val), next |-> ReadFrame(s.next.rest)]
    ELSE s

Reading(close, n, stream) ==
    LET step[i \in 0 .. n] ==
            IF i = 0 THEN ReadStart(stream) ELSE ReadMore(close, step[i - 1])
    IN  step

ReadFrames(close, n, stream) == Reading(close, n, stream)[n].frames

=============================================================================
