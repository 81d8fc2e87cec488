---------------------------- MODULE AttemptProfile ----------------------------
(***************************************************************************)
(* formal_attempt_profile_is_valid: does a ledger of remote attempts look   *)
(* like a run of the client?  Every operation of the plan, in its order,    *)
(* was requested, at most MaxRetries times, and repaired at most MaxRetries *)
(* times after that; nothing else is in the ledger.                         *)
(***************************************************************************)
EXTENDS Naturals, Sequences

CONSTANTS MaxRetries,  \* _FORMAL_MAX_RETRIES_PER_PHASE, 3 in the code
          Benchmark    \* identity of the benchmark

\* An event is [sequence, benchmark, sample, operation, phase, retry]; a plan is
\* a sequence of [sample, operation].
Names(e, block) == e.sample = block.sample /\ e.operation = block.operation

\* Where the scan is: the operation of the plan, and the requests and repairs
\* of that operation seen so far.
Before == [ok |-> TRUE, block |-> 0, requests |-> 0, repairs |-> 0]
Enter(s) == [s EXCEPT !.block = @ + 1, !.requests = 0, !.repairs = 0]
Reject(s) == [s EXCEPT !.ok = FALSE]

\* Mutant: a request may come after a repair.
RequestAnywhere(s, e) == e.retry = s.requests + 1 /\ e.retry <= MaxRetries

MayRequest(s, e) == s.repairs = 0 /\ e.retry = s.requests + 1 /\ e.retry <= MaxRetries
MayRepair(s, e) == s.requests > 0 /\ e.retry = s.repairs + 1 /\ e.retry <= MaxRetries

\* The event belongs to the operation of s.
Consume(s, e) ==
  IF e.benchmark # Benchmark THEN Reject(s)
  ELSE CASE e.phase = "request" /\ MayRequest(s, e)      -> [s EXCEPT !.requests = @ + 1]
         [] e.phase = "schema_repair" /\ MayRepair(s, e) -> [s EXCEPT !.repairs = @ + 1]
         [] OTHER -> Reject(s)

\* An event of another operation ends the current one, which is then not empty,
\* and must belong to the next.
Scan(plan, s, e) ==
  LET here == s.block > 0 /\ Names(e, plan[s.block])
      there == s.block < Len(plan) /\ Names(e, plan[s.block + 1]) IN
  CASE ~s.ok -> s
    [] s.ok /\ here -> Consume(s, e)
    [] s.ok /\ ~here /\ there -> Consume(Enter(s), e)
    [] OTHER -> Reject(s)

\* Where the scan is after each event; at 0, before the first.
Scanned(plan, events) ==
  LET scan[i \in 0..Len(events)] ==
        IF i = 0 THEN Before ELSE Scan(plan, scan[i - 1], events[i])
  IN scan

Accepts(plan, events) ==
  /\ \A i \in 1..Len(events) : events[i].sequence = i
  /\ LET end == Scanned(plan, events)[Len(events)] IN
     end.ok /\ end.block = Len(plan)

-------------------------------------------------------------------------------
(* What the scan is meant to accept                                        *)

Opens(e) == e.phase = "request" /\ e.retry = 1

\* The next attempt at the same operation: another request, a repair, another repair.
Follows(d, e) ==
  \/ d.phase = "request" /\ e.phase = "request" /\ e.retry = d.retry + 1
  \/ d.phase = "request" /\ e.phase = "schema_repair" /\ e.retry = 1
  \/ d.phase = "schema_repair" /\ e.phase = "schema_repair" /\ e.retry = d.retry + 1

\* Every event is an attempt at an operation of the plan: the first at the first, the
\* last at the last, and each opens the next operation or follows the one before it.
Walks(plan, events, at) ==
  LET n == Len(events) IN
  /\ \A i \in 1..n :
       /\ events[i].sequence = i /\ events[i].benchmark = Benchmark
       /\ Names(events[i], plan[at[i]])
       /\ events[i].retry <= MaxRetries
  /\ n # 0 => at[1] = 1 /\ Opens(events[1]) /\ at[n] = Len(plan)
  /\ \A i \in 2..n :
       \/ at[i] = at[i - 1] /\ Follows(events[i - 1], events[i])
       \/ at[i] = at[i - 1] + 1 /\ Opens(events[i])

Grammatical(plan, events) ==
  /\ Len(events) = 0 => Len(plan) = 0
  /\ \E at \in [1..Len(events) -> 1..Len(plan)] : Walks(plan, events, at)

===============================================================================
