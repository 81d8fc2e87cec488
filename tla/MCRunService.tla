---------------------------- MODULE MCRunService ----------------------------
(***************************************************************************)
(* Model checking RunService: sets of model values for the constants.      *)
(***************************************************************************)
EXTENDS RunService

CONSTANTS r1, r2, p1, p2, d1, d2

OneRun == {r1}
TwoRuns == {r1, r2}
OneProc == {p1}
TwoProcs == {p1, p2}
Once == {d1}
Twice == {d1, d2}

=============================================================================
