----------------------------- MODULE RunLifecycle -----------------------------
(***************************************************************************)
(* What the run API promises a client, whatever processes, threads, files  *)
(* and crashes are behind it: a run that became visible is claimed by at   *)
(* most one worker, ends at most once, stays as it ended, and a completed  *)
(* run shows the report of the worker that claimed it.                     *)
(***************************************************************************)
CONSTANTS Runs, Deliveries, None

VARIABLES phase,     \* run -> status a client reads
          claimant,  \* run -> worker that claimed it
          result     \* run -> worker whose report a client is shown

vars == <<phase, claimant, result>>

Init ==
  /\ phase = [r \in Runs |-> "absent"]
  /\ claimant = [r \in Runs |-> None]
  /\ result = [r \in Runs |-> None]

Enqueue(r) ==
  /\ phase[r] = "absent"
  /\ phase' = [phase EXCEPT ![r] = "queued"]
  /\ UNCHANGED <<claimant, result>>

Claim(r, d) ==
  /\ phase[r] = "queued"
  /\ phase' = [phase EXCEPT ![r] = "running"]
  /\ claimant' = [claimant EXCEPT ![r] = d]
  /\ UNCHANGED result

Complete(r) ==
  /\ phase[r] = "running"
  /\ phase' = [phase EXCEPT ![r] = "completed"]
  /\ result' = [result EXCEPT ![r] = claimant[r]]
  /\ UNCHANGED claimant

Fail(r) ==
  /\ phase[r] \in {"queued", "running"}
  /\ phase' = [phase EXCEPT ![r] = "failed"]
  /\ UNCHANGED <<claimant, result>>

Next ==
  \E r \in Runs :
    \/ Enqueue(r) \/ Complete(r) \/ Fail(r)
    \/ \E d \in Deliveries : Claim(r, d)

Spec == Init /\ [][Next]_vars

===============================================================================
