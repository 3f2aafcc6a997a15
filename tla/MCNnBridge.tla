----------------------------- MODULE MCNnBridge -----------------------------
(* NnBridge for TLC.  With two connections they are treated alike; the run   *)
(* with liveness has one and uses no symmetry.                               *)
EXTENDS NnBridge, TLC

CONSTANTS f1, f2, k1, k2

OneFuzzer == {f1}
TwoFuzzers == {f1, f2}
OneConn == {k1}
TwoConns == {k1, k2}

Symmetry == Permutations(Fuzzers) \cup Permutations(Conns)

AllKinds == EventKinds
SharedOnly == {"NewTestcase"}
ExecutionKinds == {"NewTestcase", "UpdateExecStats"}
=============================================================================
