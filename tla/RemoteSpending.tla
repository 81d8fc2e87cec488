---------------------------- MODULE RemoteSpending ----------------------------
(***************************************************************************)
(* What a benchmark promises about the remote calls it makes, however often *)
(* it is started and wherever it stops: an attempt is on record before it   *)
(* is transmitted, no recorded attempt is transmitted twice, and neither    *)
(* the number of attempts nor the provider's bill exceeds its limit.        *)
(***************************************************************************)
EXTENDS Naturals

CONSTANTS Attempts,   \* attempts that may be made
          CostLimit,  \* spend cap
          TokenLimit  \* token quota

VARIABLES recorded,  \* attempts on record
          sent,      \* attempts transmitted
          cost,      \* what the provider has billed, in money
          tokens     \* and in tokens

vars == <<recorded, sent, cost, tokens>>

Init == recorded = 0 /\ sent = 0 /\ cost = 0 /\ tokens = 0

Record ==
  /\ recorded < Attempts
  /\ recorded' = recorded + 1
  /\ UNCHANGED <<sent, cost, tokens>>

Transmit ==
  /\ sent < recorded
  /\ sent' = sent + 1
  /\ cost' \in cost..CostLimit
  /\ tokens' \in tokens..TokenLimit
  /\ UNCHANGED recorded

Next == Record \/ Transmit

Spec == Init /\ [][Next]_vars

===============================================================================
