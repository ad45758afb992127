------------------------------ MODULE Reader18 ------------------------------
(***************************************************************************)
(* The Reader18 wire format, internal/protocol/reader18/protocol.go:       *)
(*                                                                         *)
(*     Len(1) Adr(1) Cmd(1) Data(n) CRC_L(1) CRC_H(1)                      *)
(*                                                                         *)
(* A packet is a sequence of bytes.  The largest byte is a parameter, so   *)
(* that the length byte can be small where a model is checked; the checksum*)
(* is a parameter because nothing here depends on which one it is.         *)
(***************************************************************************)
EXTENDS Integers, Sequences

CONSTANTS
  MaxByte,               \* the largest value of a byte, 255 in the code
  CrcLow(_), CrcHigh(_)  \* crc16MCRF4XX: the two checksum bytes of a sequence

Byte == 0..MaxByte

ASSUME MaxByteAssumption == MaxByte \in Nat /\ MaxByte >= 5

CmdInventory       == 1
CmdInventorySingle == 15
StatusSuccess      == 0
StatusNoTag        == 1

\* The shortest packet the parser accepts: Len, Adr, Cmd, Status and the checksum.
MinPacket == 6

\* The length byte of a packet with n bytes of payload: byte(len(payload) + 4).
LengthByte(n) == (n + 4) % (MaxByte + 1)

Crc(s) == <<CrcLow(s), CrcHigh(s)>>

\* BuildCommand.
BuildCommand(address, command, payload) ==
  LET packet == <<LengthByte(Len(payload)), address, command>> \o payload
  IN  packet \o Crc(packet)

\* VerifyPacket.
VerifyPacket(packet) ==
  /\ Len(packet) >= MinPacket
  /\ packet[1] + 1 = Len(packet)
  /\ Crc(SubSeq(packet, 1, Len(packet) - 2))
       = <<packet[Len(packet) - 1], packet[Len(packet)]>>

\* The Frame ParseFrames makes of a verified packet.
FrameOf(raw) ==
  [address |-> raw[2], command |-> raw[3], status |-> raw[4],
   data |-> SubSeq(raw, 5, Len(raw) - 2)]

-----------------------------------------------------------------------------
(* Inventory answers.                                                      *)

\* A payload that cannot be read: the error result of the two parsers.
BadPayload == [ok |-> FALSE, epcs |-> <<>>]

\* The loop of ParseInventoryG2Tags over the data d: AntMask, TagNum, then TagNum times
\* EpcLen, EPC, RSSI.  Where it stands after k tags, as long as these could be read;
\* whether it can read tag k; the EPC of that tag.
TagCursor(d) ==
  LET cursor[k \in 0..d[2]] ==
        IF k = 0 THEN 2
        ELSE LET c == cursor[k - 1]
             IN  IF c < Len(d) THEN c + d[c + 1] + 2 ELSE c
  IN  cursor

TagReadable(d, k) ==
  LET c == TagCursor(d)[k - 1]
  IN  c < Len(d) /\ d[c + 1] > 0 /\ c + 1 + d[c + 1] < Len(d)

TagEPC(d, k) ==
  LET c == TagCursor(d)[k - 1]
  IN  SubSeq(d, c + 2, c + 1 + d[c + 1])

\* ParseInventoryG2Tags.  One bad tag discards the tags before it.
ParseInventoryG2Tags(frame) ==
  LET d == frame.data
  IN  IF Len(d) < 2 THEN [ok |-> TRUE, epcs |-> <<>>]
      ELSE IF \A k \in 1..d[2] : TagReadable(d, k)
      THEN [ok |-> TRUE, epcs |-> [k \in 1..d[2] |-> TagEPC(d, k)]]
      ELSE BadPayload

\* ParseSingleInventoryResult: Ant, Count, EPCLen, EPC.  Only a positive count is a tag;
\* the EPC may be empty.
ParseSingleInventoryResult(frame) ==
  LET d == frame.data
  IN  IF /\ frame.status \in {StatusNoTag, StatusSuccess}
         /\ Len(d) >= 3
         /\ Len(d) >= 3 + d[3]
      THEN [ok |-> TRUE, epcs |-> IF d[2] > 0 THEN <<SubSeq(d, 4, 3 + d[3])>> ELSE <<>>]
      ELSE BadPayload
=============================================================================
