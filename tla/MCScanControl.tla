---------------------------- MODULE MCScanControl ----------------------------
(* Small instances of ScanControl for TLC. *)
EXTENDS ScanControl, TLC

CONSTANTS bot, ipc1, ipc2, web, main, r1, r2, r3

Nobody       == {}
TheBot       == {bot}
TwoIpcs      == {ipc1, ipc2}
TheWeb       == {web}
TheMain      == {main}
BotWebMain   == {bot, web, main}
BotAndIpcs   == {bot, ipc1, ipc2}
TwoLoops     == {r1, r2}
ThreeLoops   == {r1, r2, r3}

IpcsAndLoops == Permutations(TwoIpcs) \cup Permutations(ThreeLoops)
=============================================================================
