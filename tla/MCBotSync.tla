------------------------------ MODULE MCBotSync ------------------------------
(* Small instances of BotSync for TLC. *)
EXTENDS BotSync

CONSTANTS own, m1

OneManual == {m1}
=============================================================================
