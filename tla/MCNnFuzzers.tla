---------------------------- MODULE MCNnFuzzers -----------------------------
(* NnFuzzers for TLC: b reaches more than a, c something else, and x crashes *)
(* on the way to what a reaches.                                             *)
EXTENDS NnFuzzers

CONSTANTS f1, f2, k1, a, b, c, x

OneFuzzer == {f1}
TwoFuzzers == {f1, f2}
OnePeer == {k1}
FourInputs == {a, b, c, x}
ThreeInputs == {a, b, x}
OneCrash == {x}
ThreePoints == 1..3
TwoPoints == 1..2
ReachesOf == [i \in Inputs |->
               CASE i = a -> {1} [] i = b -> {1, 2} [] i = c -> {3} [] i = x -> {1}]
=============================================================================
