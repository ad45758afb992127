-------------------------- MODULE MCInventorySession --------------------------
(* Small instances of InventorySession for TLC. *)
EXTENDS InventorySession

CONSTANTS e1, e2

TwoTags == {e1, e2}
=============================================================================
