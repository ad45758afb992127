---------------------------- MODULE MCEPCService ----------------------------
(* Small instances of EPCService for TLC. *)
EXTENDS EPCService, TLC

CONSTANTS e1, e2, c1, c2, w1, w2

OneEPC     == {e1}
TwoEPCs    == {e1, e2}
OneWorker  == {w1}
TwoWorkers == {w1, w2}

\* Goroutines, by the calls they make.
First  == {c1}
Second == {c2}
FirstTwo == {c1, c2}
Nobody == {}

WorkerSymmetry == Permutations(TwoWorkers)
=============================================================================
