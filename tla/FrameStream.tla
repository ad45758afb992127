---------------------------- MODULE FrameStream ----------------------------
(***************************************************************************)
(* From the bytes of a TCP connection to Reader18 frames.  readLoop of     *)
(* internal/reader/client.go reads the connection in pieces of any size;   *)
(* the receiver (packetMsg of internal/tui/update_main.go, consumePacket   *)
(* of sdk/client_inventory_runtime.go, which are alike) appends a piece to *)
(* its buffer, cuts a buffer that is too long, and runs ParseFrames, whose *)
(* loop is one action for each way its body can end.  A piece is lost when *)
(* the channel of packets is full.                                         *)
(*                                                                         *)
(* got, pos and taken are history: all bytes that were received since the  *)
(* buffer was last cleared, how many of them have left the buffer, and the *)
(* offsets in got of the frames that were taken.                           *)
(***************************************************************************)
EXTENDS Reader18, FiniteSets

CONSTANTS
  Streams,        \* what the reader may send: sequences of bytes
  ReadSize,       \* the size of readLoop's buffer: 4096
  BufferLimit,    \* a longer buffer is cut: 8192
  BufferKeep,     \* the bytes that a cut leaves: 4096
  MaxLost         \* bound: pieces lost to a full channel

ASSUME StreamsAssumption == Streams \subseteq Seq(Byte)
ASSUME SizesAssumption ==
  /\ ReadSize \in Nat \ {0} /\ BufferLimit \in Nat /\ BufferKeep \in Nat
  /\ BufferKeep <= BufferLimit
  /\ ReadSize + MaxByte <= BufferLimit
  /\ MaxLost \in Nat

VARIABLES
  wire,           \* what the reader has sent and nobody has read
  lost,           \* pieces lost so far
  buffer,         \* protocolBuffer, parserBuffer
  frames,         \* the frames the receiver has yet to handle
  phase,          \* the receiver: waits, is in ParseFrames, handles the frames
  got, pos, taken

streamVars == <<wire, lost, buffer, frames, phase, got, pos, taken>>

StreamTypeOK ==
  /\ wire \in Seq(Byte) /\ lost \in 0..MaxLost
  /\ buffer \in Seq(Byte) /\ got \in Seq(Byte)
  /\ phase \in {"wait", "parse", "handle"}
  /\ pos \in 0..Len(got) /\ taken \in SUBSET Nat

StreamInit ==
  /\ wire \in Streams /\ lost = 0
  /\ buffer = <<>> /\ frames = <<>> /\ phase = "wait"
  /\ got = <<>> /\ pos = 0 /\ taken = {}

-----------------------------------------------------------------------------
(* Receiving.                                                              *)

Piece(n) == SubSeq(wire, 1, n)
Rest(n) == SubSeq(wire, n + 1, Len(wire))

\* Mistake: the cut is made as soon as the buffer is longer than what it keeps.
CutEarly(b) ==
  IF Len(b) > BufferKeep THEN SubSeq(b, Len(b) - BufferKeep + 1, Len(b)) ELSE b

\* The newest BufferKeep bytes of a buffer over the limit.
Cut(b) ==
  IF Len(b) > BufferLimit THEN SubSeq(b, Len(b) - BufferKeep + 1, Len(b)) ELSE b

\* A piece of n bytes reaches the receiver.
Receive(n) ==
  /\ phase = "wait"
  /\ n <= Len(wire)
  /\ wire' = Rest(n)
  /\ buffer' = Cut(buffer \o Piece(n))
  /\ got' = got \o Piece(n)
  /\ pos' = Len(got') - Len(buffer')
  /\ phase' = "parse"
  /\ UNCHANGED <<lost, frames, taken>>

\* readLoop finds the channel of packets full.
Lose(n) ==
  /\ lost < MaxLost
  /\ n <= Len(wire)
  /\ wire' = Rest(n)
  /\ lost' = lost + 1
  /\ UNCHANGED <<buffer, frames, phase, got, pos, taken>>

\* The buffer is cleared: a connection was made, a reading was started.
ClearBuffer ==
  /\ phase = "wait"
  /\ buffer' = <<>>
  /\ got' = <<>> /\ pos' = 0 /\ taken' = {}
  /\ UNCHANGED <<wire, lost, frames, phase>>

-----------------------------------------------------------------------------
(* ParseFrames.                                                            *)

\* The length a packet claims with its first byte.
Total(b) == b[1] + 1

\* The loop ends: there is no whole packet, or the packet is not complete yet.
Incomplete(b) == Len(b) >= MinPacket => Total(b) > Len(b)

\* A complete packet that is right.
Good(b) ==
  /\ ~Incomplete(b)
  /\ VerifyPacket(SubSeq(b, 1, Total(b)))

ParseEnds ==
  /\ phase = "parse"
  /\ Incomplete(buffer)
  /\ phase' = "handle"
  /\ UNCHANGED <<wire, lost, buffer, frames, got, pos, taken>>

\* Mistake: all the bytes a bad packet claims are skipped.
SkipPacket ==
  /\ phase = "parse"
  /\ ~Incomplete(buffer) /\ ~Good(buffer)
  /\ buffer' = SubSeq(buffer, Total(buffer) + 1, Len(buffer))
  /\ pos' = pos + Total(buffer)
  /\ UNCHANGED <<wire, lost, frames, phase, got, taken>>

SkipByte ==
  /\ phase = "parse"
  /\ ~Incomplete(buffer) /\ ~Good(buffer)
  /\ buffer' = Tail(buffer)
  /\ pos' = pos + 1
  /\ UNCHANGED <<wire, lost, frames, phase, got, taken>>

TakeFrame ==
  /\ phase = "parse"
  /\ Good(buffer)
  /\ frames' = Append(frames, FrameOf(SubSeq(buffer, 1, Total(buffer))))
  /\ buffer' = SubSeq(buffer, Total(buffer) + 1, Len(buffer))
  /\ pos' = pos + Total(buffer)
  /\ taken' = taken \cup {pos}
  /\ UNCHANGED <<wire, lost, phase, got>>

\* The receiver has handled the first frame; it has handled all frames.
NextFrame ==
  /\ phase = "handle"
  /\ frames # <<>>
  /\ frames' = Tail(frames)
  /\ UNCHANGED <<wire, lost, buffer, phase, got, pos, taken>>

HandleEnds ==
  /\ phase = "handle"
  /\ frames = <<>>
  /\ phase' = "wait"
  /\ UNCHANGED <<wire, lost, buffer, frames, got, pos, taken>>

ParseStep == ParseEnds \/ SkipByte \/ TakeFrame

StreamNext ==
  \/ \E n \in 1..ReadSize : Receive(n) \/ Lose(n)
  \/ ClearBuffer
  \/ ParseStep
  \/ NextFrame \/ HandleEnds

StreamSpec == StreamInit /\ [][StreamNext]_streamVars

-----------------------------------------------------------------------------
(* Properties.                                                             *)

\* What was received from offset i on.
From(i) == SubSeq(got, i + 1, Len(got))
EndOf(i) == i + got[i + 1] + 1

\* The packet at offset i can never become a frame, whatever arrives later.
Hopeless(i) == ~Incomplete(From(i)) /\ ~Good(From(i))

\* The parse of a connection does not depend on how the connection was cut into pieces:
\* the frames taken are those a single pass over all bytes would take.  The buffer is
\* what that pass has left, and each byte before it belongs to a frame that was taken
\* (these do not overlap) or was skipped because no packet begins there.  In particular
\* the cut at BufferLimit never throws anything away.
SinglePass ==
  /\ buffer = From(pos)
  /\ \A t \in taken : t < pos /\ Good(From(t)) /\ EndOf(t) <= pos
  /\ \A t, u \in taken : t < u => EndOf(t) <= u
  /\ \A i \in 0..(pos - 1) :
       Hopeless(i) \/ \E t \in taken : t <= i /\ i < EndOf(t)

\* A right packet is not held back for long: when MaxByte bytes have followed its first
\* one, and the receiver waits for more, the packet was taken, or a frame was taken
\* before it that overlaps it.  A byte of noise that is read as a length delays the
\* frames after it by at most that much.
FoundInTime ==
  phase = "wait" =>
    \A i \in 0..(Len(got) - MaxByte - 1) :
      Good(From(i)) => \E t \in taken : t <= i /\ i < EndOf(t)
=============================================================================
