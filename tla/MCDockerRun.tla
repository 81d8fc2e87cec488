------------------------------ MODULE MCDockerRun ------------------------------
(***************************************************************************)
(* Model checking DockerRun.                                               *)
(***************************************************************************)
EXTENDS DockerRun, TLC

\* Success, a failure that looks like a broken docker command, and a signal that
\* looks like the host's.
MCStatuses == {0, 1, 137}
ZeroOrOne == {0, 1}

================================================================================
