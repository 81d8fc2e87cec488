------------------------------- MODULE StepGraph -------------------------------
(***************************************************************************)
(* contracts.py: which dependencies between the steps of a solution trace   *)
(* SolutionTrace.validate_step_graph lets pass.  Steps are known by their   *)
(* positions, so that no two have one identifier and none is unknown.       *)
(***************************************************************************)
EXTENDS Integers, Sequences, Functions

CONSTANT NSteps  \* steps of a trace

ASSUME NStepsAssumption == NSteps \in Nat \ {0}

Steps == 1..NSteps  \* positions in trace.steps

\* The dependencies have no cycle: they can be ranked.
Acyclic(depends) ==
  \E rank \in [Steps -> Steps] :
    \A s \in Steps : \A d \in Range(depends[s]) : rank[d] < rank[s]

-------------------------------------------------------------------------------
(* The depth-first search; a found cycle is the error that ends it         *)

\* A visit is of a step, under the steps that are being visited and after those that
\* have been.
Calls == Steps \X (SUBSET Steps) \X (SUBSET Steps)

\* One turn of a loop of visits, from what was found before it.
After(visit, visiting, d, found) ==
  IF found.cyclic THEN found ELSE visit[<<d, visiting, found.visited>>]

\* The loop: what is found after each of the steps of a list.
Walk(visit, list, visiting, visited) ==
  LET walk[i \in 0..Len(list)] ==
        IF i = 0 THEN [cyclic |-> FALSE, visited |-> visited]
        ELSE After(visit, visiting, list[i], walk[i - 1])
  IN walk

\* The visit of one step: it is done with once all it depends on is.
Visit(visit, depends, s, visiting, visited) ==
  LET below == Walk(visit, depends[s], visiting \cup {s}, visited)[Len(depends[s])] IN
  CASE s \in visiting -> [cyclic |-> TRUE, visited |-> visited]
    [] s \notin visiting /\ s \in visited -> [cyclic |-> FALSE, visited |-> visited]
    [] OTHER -> IF below.cyclic THEN below ELSE [below EXCEPT !.visited = @ \cup {s}]

\* Every step is visited, in the order of the trace.
ValidStepGraph(depends) ==
  LET visit[call \in Calls] == Visit(visit, depends, call[1], call[2], call[3])
  IN ~Walk(visit, [s \in Steps |-> s], {}, {})[NSteps].cyclic

===============================================================================
