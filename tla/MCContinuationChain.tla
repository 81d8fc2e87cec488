-------------------------- MODULE MCContinuationChain --------------------------
(***************************************************************************)
(* Model checking ContinuationChain: sets of model values for the          *)
(* constants, which differ in their names only.                            *)
(***************************************************************************)
EXTENDS ContinuationChain, TLC

CONSTANTS b1, b2, b3, d1, d2, p1, p2

ThreeIds == {b1, b2, b3}
TwoPackages == {d1, d2}
TwoProcs == {p1, p2}
OneLimit == {2}

Symmetry == Permutations(Ids) \cup Permutations(Packages) \cup Permutations(Procs)

===============================================================================
