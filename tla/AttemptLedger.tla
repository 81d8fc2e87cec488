----------------------------- MODULE AttemptLedger -----------------------------
(***************************************************************************)
(* formal_qualification.py: the events of a stored ledger are read one by   *)
(* one, and formal_attempt_profile_is_valid is asked about them.  What it   *)
(* should accept is given by a grammar, from which ledgers can be produced  *)
(* operation by operation; the scan does not produce, it recognizes.        *)
(***************************************************************************)
EXTENDS AttemptProfile, Integers

CONSTANTS Texts,       \* identities, names and phases
          Operations,  \* what was done for the observed samples, in the order of the plan
          Stored       \* events that the files of a ledger may hold

LedgerEvent ==
  [sequence : Nat \ {0}, benchmark : Texts, sample : Texts, operation : Texts,
   phase : Texts, retry : Nat \ {0}]

\* Samples are listed once, and the versions of the prompts, which name the operations,
\* differ.
ASSUME AttemptLedgerAssumption ==
  /\ MaxRetries \in Nat \ {0}
  /\ {Benchmark, "request", "schema_repair"} \subseteq Texts
  /\ Operations \in Seq([sample : Texts, operation : Texts])
  /\ \A j, k \in 1..Len(Operations) : Operations[j] = Operations[k] => j = k
  /\ Stored \subseteq LedgerEvent

VARIABLE events  \* read so far

LedgerInit == events = << >>

\* _load_ledger_events: the file named after a number holds the event of that number.
Load ==
  \E e \in Stored :
    /\ e.sequence = Len(events) + 1
    /\ events' = Append(events, e)

LedgerSpec == LedgerInit /\ [][Load]_events

-------------------------------------------------------------------------------
(* The grammar                                                             *)

\* The attempts at one operation, after so many others: its requests, then its repairs,
\* each numbered from one.
Attempts(block, requests, repairs, after) ==
  [i \in 1..(requests + repairs) |->
     [sequence |-> after + i, benchmark |-> Benchmark,
      sample |-> block.sample, operation |-> block.operation,
      phase |-> IF i <= requests THEN "request" ELSE "schema_repair",
      retry |-> IF i <= requests THEN i ELSE i - requests]]

\* The ledgers of the first operations: each is requested at least once, and at most as
\* often as may be, and then repaired at most as often.
Ledgers[b \in 0..Len(Operations)] ==
  IF b = 0 THEN {<< >>}
  ELSE {before \o Attempts(Operations[b], requests, repairs, Len(before)) :
          before \in Ledgers[b - 1], requests \in 1..MaxRetries, repairs \in 0..MaxRetries}

Grammar == Ledgers[Len(Operations)]

\* formal_attempt_profile_is_valid accepts exactly the ledgers in which every operation
\* of the plan, in its order, has one to MaxRetries requests followed by none to
\* MaxRetries repairs, numbered without a gap; and step by step these are the
\* grammatical ones.
AcceptsGrammar ==
  /\ Accepts(Operations, events) <=> events \in Grammar
  /\ Accepts(Operations, events) <=> Grammatical(Operations, events)

================================================================================
