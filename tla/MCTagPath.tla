----------------------------- MODULE MCTagPath -----------------------------
(***************************************************************************)
(* TagPath with four-bit bytes, so that a frame can be as long as the      *)
(* length byte allows, and with a small checksum.                          *)
(***************************************************************************)
EXTENDS TagPath

Sum(s) == LET sum[i \in 0..Len(s)] == IF i = 0 THEN 3 ELSE (5 * sum[i - 1] + s[i]) % 256
          IN  sum[Len(s)]
Low(s) == Sum(s) % 16
High(s) == Sum(s) \div 16

OneTag == BuildCommand(0, CmdInventory, <<StatusSuccess, 1, 1, 1, 9, 7>>)
TwoTags == BuildCommand(0, CmdInventory, <<StatusSuccess, 1, 2, 1, 9, 7, 1, 8, 7>>)
Single == BuildCommand(0, CmdInventorySingle, <<StatusNoTag, 1, 1, 1, 8>>)
Empty == BuildCommand(0, CmdInventorySingle, <<StatusNoTag, 1, 1, 0>>)

\* Frames in a row; noise that claims to be a long packet; a frame that was cut short and
\* an empty EPC before a right one; a byte that claims too short a packet.
MCStreams == {
  OneTag \o TwoTags,
  <<15, 2>> \o OneTag \o Single,
  SubSeq(TwoTags, 1, 6) \o Empty \o Single,
  <<3>> \o TwoTags }
=============================================================================
