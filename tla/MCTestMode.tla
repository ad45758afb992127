----------------------------- MODULE MCTestMode -----------------------------
(* Small instances of TestMode.                                            *)
EXTENDS TestMode, TLC

CONSTANTS e1, e2, a, b

OneEPC   == {e1}
TwoEPCs  == {e1, e2}
OneChat  == {a}
TwoChats == {a, b}

Interchangeable == Permutations(TwoEPCs) \cup Permutations(TwoChats)
=============================================================================
