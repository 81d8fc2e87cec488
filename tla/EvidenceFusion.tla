---------------------------- MODULE EvidenceFusion ----------------------------
(***************************************************************************)
(* evaluator.py and rules.py: a solution trace is searched by rules, read   *)
(* by two reviewers and, if they disagree, by an arbiter; from what they    *)
(* say the report follows, with the step at which the reasoning first went  *)
(* wrong.                                                                   *)
(***************************************************************************)
EXTENDS StepGraph

CONSTANTS Traces,    \* traces that may be given
          Verdicts,  \* verdicts that reviewers may return
          None

ReasoningStage == {"problem_understanding", "algorithm_design", "correctness_argument",
                   "complexity_analysis", "implementation", "edge_cases"}

ErrorTaxonomy == {"problem_misread", "constraint_omission", "algorithm_logic",
                  "proof_gap_circularity", "complexity_error", "boundary_error",
                  "implementation_error", "hallucination", "format_schema"}

\* What the rules can see in the texts of a trace: the step of which stage they
\* blame, and the order in which they look.
TextRule ==
  [blank_understanding |-> [order |-> 1, taxonomy |-> "problem_misread", stage |-> "problem_understanding"],
   blank_algorithm     |-> [order |-> 2, taxonomy |-> "algorithm_logic", stage |-> "algorithm_design"],
   blank_argument      |-> [order |-> 3, taxonomy |-> "proof_gap_circularity", stage |-> "correctness_argument"],
   blank_edge_cases    |-> [order |-> 4, taxonomy |-> "boundary_error", stage |-> "edge_cases"],
   blank_code          |-> [order |-> 5, taxonomy |-> "implementation_error", stage |-> "implementation"],
   blank_complexity    |-> [order |-> 6, taxonomy |-> "complexity_error", stage |-> "complexity_analysis"],
   constant_time_loop  |-> [order |-> 7, taxonomy |-> "complexity_error", stage |-> "complexity_analysis"],
   unfinished_code     |-> [order |-> 8, taxonomy |-> "implementation_error", stage |-> "implementation"]]

Defect == DOMAIN TextRule \cup {"hidden_tests"}

\* SolutionTrace: numbers are unique, and the dependencies have passed the search.
Trace ==
  {t \in [number : [Steps -> Nat], stage : [Steps -> ReasoningStage],
          depends : [Steps -> Seq(Steps)], defects : SUBSET Defect] :
     /\ \A s, u \in Steps : t.number[s] = t.number[u] => s = u
     /\ ValidStepGraph(t.depends)}

\* StepReview.validate_error_semantics
Wrong == {"unsupported", "incorrect"}
StepReview ==
  {r \in [status : Wrong \cup {"correct", "acceptable_omission"}, material : BOOLEAN,
          taxonomy : ErrorTaxonomy \cup {None}] :
     /\ r.material /\ r.status \in Wrong => r.taxonomy # None
     /\ r.status \notin Wrong => r.taxonomy = None}

Erroneous(v) == {s \in Steps : v.reviews[s].material /\ v.reviews[s].status \in Wrong}

\* ReviewerVerdict: every step is reviewed once, in any order; the first error listed
\* is the verdict's, with its taxonomy.
Verdict ==
  {v \in [reviews : [Steps -> StepReview], first : Steps \cup {None}] :
     IF Erroneous(v) = {} THEN v.first = None ELSE v.first \in Erroneous(v)}

ASSUME FusionAssumption ==
  /\ Traces \subseteq Trace /\ Verdicts \subseteq Verdict
  /\ None \notin Int \cup ErrorTaxonomy \cup Verdict

VARIABLES trace,    \* the trace of the run
          reviews,  \* the verdict of each reviewer, once it is there
          report    \* the report, once it is there

vars == <<trace, reviews, report>>

-------------------------------------------------------------------------------
(* Localization                                                            *)

\* What a step depends on, as depends_on lists it.
Direct(t, s) == Range(t.depends[s])

\* Mutant: the search looks at direct dependencies only.
SearchNear(t, candidates, s) == Direct(t, s) \cap candidates # {}

\* One turn of the loop of has_candidate_ancestor, for a dependency d; visit is the
\* call for one that is visited for the first time.
Turn(visit, candidates, d, found) ==
  CASE found.hit -> found
    [] ~found.hit /\ d \in candidates -> [found EXCEPT !.hit = TRUE]
    [] ~found.hit /\ d \notin candidates /\ d \in found.visited -> found
    [] OTHER -> visit[<<d, found.visited \cup {d}>>]

\* The loop: what is found after each of the dependencies of u.
Looked(visit, t, candidates, u, visited) ==
  LET look[i \in 0..Len(t.depends[u])] ==
        IF i = 0 THEN [hit |-> FALSE, visited |-> visited]
        ELSE Turn(visit, candidates, t.depends[u][i], look[i - 1])
  IN look

\* has_candidate_ancestor: a depth-first search with one set of visited steps.
Search(t, candidates, s) ==
  LET visit[call \in Steps \X SUBSET Steps] ==
        Looked(visit, t, candidates, call[1], call[2])[Len(t.depends[call[1]])]
  IN visit[<<s, {s}>>].hit

\* Mutant: a candidate counts as its own ancestor.
RootsOrNone(t, candidates) ==
  {s \in candidates : ~(s \in candidates \/ Search(t, candidates, s))}

\* The candidates that the search finds to rest on no other candidate.
Roots(t, candidates) == {s \in candidates : ~Search(t, candidates, s)}

Earliest(t, S) == CHOOSE s \in S : \A u \in S : t.number[s] <= t.number[u]

\* localize_root_error, or trace.steps[0] where it finds none.
Localized(t, candidates) ==
  IF Roots(t, candidates) = {} THEN 1 ELSE Earliest(t, Roots(t, candidates))

\* score_process: every stage with an error costs its weight once.
Deduction(t, wrong, stage, weight) ==
  IF \E s \in wrong : t.stage[s] = stage THEN weight ELSE 0

Score(t, wrong) ==
  100 - Deduction(t, wrong, "problem_understanding", 20)
      - Deduction(t, wrong, "algorithm_design", 25)
      - Deduction(t, wrong, "correctness_argument", 20)
      - Deduction(t, wrong, "complexity_analysis", 10)
      - Deduction(t, wrong, "implementation", 10)
      - Deduction(t, wrong, "edge_cases", 15)

-------------------------------------------------------------------------------
(* RuleEngine.evaluate                                                     *)

\* _first_step_id
FirstOf(t, stage) ==
  LET matching == {s \in Steps : t.stage[s] = stage} IN
  Earliest(t, IF matching = {} THEN Steps ELSE matching)

\* Mutant: positions are compared, not numbers.
BackwardInTuple(t) == {s \in Steps : \E d \in Direct(t, s) : d >= s}

Backward(t) == {s \in Steps : \E d \in Direct(t, s) : t.number[d] >= t.number[s]}

Finding == [order : 0..9, step : Steps, taxonomy : ErrorTaxonomy]

Findings(t) ==
  {[order |-> 0, step |-> s, taxonomy |-> "algorithm_logic"] : s \in Backward(t)}
  \cup {[order |-> TextRule[x].order, step |-> FirstOf(t, TextRule[x].stage),
         taxonomy |-> TextRule[x].taxonomy] : x \in t.defects \ {"hidden_tests"}}
  \cup {[order |-> 9, step |-> 1, taxonomy |-> "hallucination"] :
          x \in t.defects \cap {"hidden_tests"}}

-------------------------------------------------------------------------------
(* ReviewOrchestrator.review                                               *)

\* Mutant: reviewers agree when their summaries do.
SummaryOnly(v) == IF v.first = None THEN None ELSE v.reviews[v.first].taxonomy

\* _verdict_signature
Signature(v) ==
  [first |-> v.first,
   taxonomy |-> IF v.first = None THEN None ELSE v.reviews[v.first].taxonomy,
   steps |-> {<<s, v.reviews[s].status, v.reviews[s].taxonomy>> :
                s \in {u \in Steps : v.reviews[u].material}}]

Reviewer == {"logic-reviewer", "adversarial-reviewer", "arbiter"}
Primary == Reviewer \ {"arbiter"}

Disagreement ==
  Signature(reviews["logic-reviewer"]) # Signature(reviews["adversarial-reviewer"])

\* Mutant: the arbiter settles every disagreement.
NeverUnresolved == FALSE

\* The arbiter agrees with neither reviewer.
Unresolved ==
  /\ reviews["arbiter"] # None
  /\ \A r \in Primary : Signature(reviews["arbiter"]) # Signature(reviews[r])

-------------------------------------------------------------------------------
(* EvidenceFusion.fuse                                                     *)

Report == [final_correct : BOOLEAN, process_valid : BOOLEAN, process_score : Int,
           taxonomy : ErrorTaxonomy \cup {None}, first_error : Steps \cup {None},
           needs_human_review : BOOLEAN]

Invalid(t, accepted, wrong, root, taxonomy, human) ==
  [final_correct |-> accepted, process_valid |-> FALSE, process_score |-> Score(t, wrong),
   taxonomy |-> taxonomy, first_error |-> root, needs_human_review |-> human]

\* Some rule found something: the taxonomy is that of the first finding at the root,
\* or the first of all.
RuleReport(t, accepted) ==
  LET wrong == {f.step : f \in Findings(t)}
      root == Localized(t, wrong)
      here == {f \in Findings(t) : f.step = root}
      first == CHOOSE f \in IF here = {} THEN Findings(t) ELSE here :
                 \A g \in IF here = {} THEN Findings(t) ELSE here : f.order <= g.order
  IN Invalid(t, accepted, wrong, root, first.taxonomy, FALSE)

\* No rule did: the verdict v decides.  Without a material review of the root there is
\* no taxonomy to take: next() raises, which is a report without one here.
ReviewReport(t, accepted, v, unresolved) ==
  LET root == Localized(t, Erroneous(v)) IN
  IF Erroneous(v) = {}
  THEN [final_correct |-> accepted, process_valid |-> TRUE, process_score |-> 100,
        taxonomy |-> None, first_error |-> None,
        needs_human_review |-> unresolved \/ ~accepted]
  ELSE Invalid(t, accepted, Erroneous(v), root,
               IF root \in Erroneous(v) THEN v.reviews[root].taxonomy ELSE None, unresolved)

Fused(t, accepted, v, unresolved) ==
  IF Findings(t) # {} THEN RuleReport(t, accepted)
  ELSE ReviewReport(t, accepted, v, unresolved)

\* _review_evidence
Selected == IF reviews["arbiter"] # None THEN reviews["arbiter"] ELSE reviews["logic-reviewer"]

-------------------------------------------------------------------------------
Init ==
  /\ trace \in Traces
  /\ reviews = [r \in Reviewer |-> None]
  /\ report = None

Returns(r) ==
  /\ reviews[r] = None
  /\ \E v \in Verdicts : reviews' = [reviews EXCEPT ![r] = v]
  /\ UNCHANGED <<trace, report>>

Review(r) ==
  /\ r = "adversarial-reviewer" => reviews["logic-reviewer"] # None
  /\ Returns(r)

BothReviewed == \A r \in Primary : reviews[r] # None

\* Mutant: the report does not wait for the arbiter.
AtOnce == TRUE

Settled == Disagreement => reviews["arbiter"] # None

Arbitrate == BothReviewed /\ Disagreement /\ report = None /\ Returns("arbiter")

\* The judge accepted the program, or rejected it; evidence that is not there ends the
\* run elsewhere.
Fuse ==
  /\ report = None
  /\ BothReviewed /\ Settled
  /\ \E accepted \in BOOLEAN : report' = Fused(trace, accepted, Selected, Unresolved)
  /\ UNCHANGED <<trace, reviews>>

Next == (\E r \in Primary : Review(r)) \/ Arbitrate \/ Fuse

Spec == Init /\ [][Next]_vars

-------------------------------------------------------------------------------
(* Properties                                                              *)

TypeOK ==
  /\ trace \in Traces
  /\ reviews \in [Reviewer -> Verdicts \cup {None}]
  /\ report \in Report \cup {None}

\* An arbiter was asked because of a disagreement, and a report
\* is the fusion of what the reviewers, and the arbiter if there had to be one, said.
ReportIsFused ==
  /\ reviews["arbiter"] # None => BothReviewed /\ Disagreement
  /\ report # None =>
       /\ BothReviewed /\ (Disagreement => reviews["arbiter"] # None)
       /\ report = Fused(trace, report.final_correct, Selected, Unresolved)

\* The inductive invariant.
Invariant == TypeOK /\ ReportIsFused

\* Steps that s rests on, directly or through others: the least set that holds what s
\* depends on and what its own members depend on.
Upstream(t, s) ==
  {d \in Steps : \A C \in SUBSET Steps :
     (Direct(t, s) \subseteq C /\ \A c \in C : Direct(t, c) \subseteq C) => d \in C}

\* The depth-first search of localize_root_error finds a candidate exactly if one is
\* upstream, for every set of candidates, although branches share the visited set.
SearchFindsUpstream ==
  \A s \in Steps :
    LET upstream == Upstream(trace, s) IN
    \A candidates \in {C \in SUBSET Steps : s \in C} :
      Search(trace, candidates, s) <=> upstream \cap candidates # {}

\* Whatever rules and reviewers say, fuse ends with a report that AuditReport accepts:
\* it raises nothing, an invalid process has a root, a taxonomy and lost points.
FusionNeverFails ==
  report # None =>
    IF report.process_valid
    THEN report.taxonomy = None /\ report.first_error = None /\ report.process_score = 100
    ELSE /\ report.taxonomy # None /\ report.first_error # None
         /\ report.process_score \in 0..99

\* Reviewers who need no arbiter are interchangeable: fusing the second verdict
\* instead of the first gives the same report.
AgreementIsEnough ==
  (report # None /\ reviews["arbiter"] = None) =>
    report = Fused(trace, report.final_correct, reviews["adversarial-reviewer"], FALSE)

\* A report that no person is asked to look at has the support of a rule or of one of
\* the two reviewers, in what it says of the process; the arbiter alone decides
\* nothing.
UnattendedHasSupport ==
  (report # None /\ Findings(trace) = {}) =>
    \/ report.needs_human_review
    \/ \E r \in Primary :
         IF report.process_valid THEN Erroneous(reviews[r]) = {} /\ report.final_correct
         ELSE /\ report.first_error \in Erroneous(reviews[r])
              /\ reviews[r].reviews[report.first_error].taxonomy = report.taxonomy

\* A root that reviewers name is the erroneous step with the least number: where
\* dependencies contradict the numbers, a rule has spoken before.
ReviewedRootIsFirst ==
  (report # None /\ Findings(trace) = {} /\ ~report.process_valid) =>
    \A s \in Erroneous(Selected) : trace.number[report.first_error] <= trace.number[s]

===============================================================================
