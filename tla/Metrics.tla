------------------------------- MODULE Metrics -------------------------------
(***************************************************************************)
(* The metrics of a benchmark: every metric counts, over the observations   *)
(* it includes, those that succeed, and the bootstrap draws again from      *)
(* exactly the observations a metric included.  A run hands over the        *)
(* observations its checks accepted.  Strata are the same metrics over      *)
(* fewer observations.                                                      *)
(*                                                                         *)
(* Gold labels are "yes", "no" or "unknown"; step 0 is no step and the      *)
(* taxonomy "none" no taxonomy.                                             *)
(***************************************************************************)
EXTENDS Integers, Sequences, FiniteSets

CONSTANTS Taxonomies,  \* ErrorTaxonomy
          Rows,        \* observations a sample may have, all but their identity
          Confirmed,   \* human labels a sample may have: [final, process]
          MaxRows      \* bound: observations of a run

Truth == {"yes", "no", "unknown"}
Observation ==
  [kind : {"natural", "gold", "controlled_wrong", "paradox"},
   goldFinal : Truth, goldProcess : Truth, goldStep : Nat, goldTaxonomy : Taxonomies \cup {"none"},
   final : BOOLEAN, process : BOOLEAN, step : Nat, taxonomy : Taxonomies \cup {"none"},
   flagged : BOOLEAN, agreed : Truth, arbitrated : BOOLEAN]

ASSUME MetricsAssumption ==
  /\ Rows \subseteq Observation /\ "none" \notin Taxonomies
  /\ Confirmed \subseteq [final : BOOLEAN, process : BOOLEAN]

VARIABLES formal,  \* whether the run is a formal one
          rows,    \* its observations; the place of one is its identity
          labels   \* human labels: sample -> label

metricsVars == <<formal, rows, labels>>

-------------------------------------------------------------------------------
(* The observations a run accepts                                          *)

\* MetricObservation.validate_gold_process_label
LabelsFit(r) ==
  /\ r.goldProcess = "no" => r.goldStep # 0 /\ r.goldTaxonomy # "none"
  /\ r.goldProcess = "yes" => r.goldStep = 0 /\ r.goldTaxonomy = "none"

\* Mutant: a natural sample may come without gold labels.
KindMayBeOpen(r) ==
  CASE r.kind = "natural" -> TRUE
    [] r.kind = "gold" -> <<r.goldFinal, r.goldProcess>> = <<"yes", "yes">>
    [] r.kind = "controlled_wrong" -> <<r.goldFinal, r.goldProcess>> = <<"no", "no">>
    [] OTHER -> <<r.goldFinal, r.goldProcess>> = <<"yes", "no">>

\* BenchmarkRunner._formal_gold_semantics_valid
KindFits(r) ==
  CASE r.kind = "natural" -> "unknown" \notin {r.goldFinal, r.goldProcess}
    [] r.kind = "gold" -> <<r.goldFinal, r.goldProcess>> = <<"yes", "yes">>
    [] r.kind = "controlled_wrong" -> <<r.goldFinal, r.goldProcess>> = <<"no", "no">>
    [] OTHER -> <<r.goldFinal, r.goldProcess>> = <<"yes", "no">>

\* BenchmarkRunner._validate_observation
IsAccepted(r) ==
  /\ LabelsFit(r)
  /\ formal => /\ KindFits(r)
               /\ r.agreed # "unknown" /\ r.arbitrated = (r.agreed = "no")

-------------------------------------------------------------------------------
(* The metrics of a sample of rows: a sequence of [id, row], in which a row *)
(* may come twice                                                          *)

RatioMetric ==
  {"natural_final_accuracy", "natural_process_valid_rate",
   "natural_final_correctness_evaluator_agreement", "process_validity_evaluator_agreement",
   "invalid_process_detection", "exact_localization", "within_one_localization",
   "paradox_recall", "standard_gold_false_positive_rate", "human_review_flag_rate",
   "flagged_final_correct_process_issue_rate", "flagged_false_positive_rate",
   "primary_review_agreement_rate", "arbitration_rate"}
Metric == RatioMetric \cup {"taxonomy_macro_f1"}

IsWrong(r) == r.kind = "controlled_wrong" /\ r.goldProcess = "no"

\* The rows a metric is about, given the human labels.
Includes(name, s, given) ==
  LET r == s.row IN
  CASE name \in {"natural_final_accuracy", "natural_final_correctness_evaluator_agreement"} ->
         r.kind = "natural" /\ r.goldFinal # "unknown"
    [] name = "natural_process_valid_rate" -> r.kind = "natural" /\ r.goldProcess # "unknown"
    [] name = "process_validity_evaluator_agreement" -> r.goldProcess # "unknown"
    [] name = "invalid_process_detection" -> IsWrong(r)
    [] name \in {"exact_localization", "within_one_localization"} -> IsWrong(r) /\ r.goldStep # 0
    [] name = "paradox_recall" ->
         r.kind = "paradox" /\ r.goldFinal = "yes" /\ r.goldProcess = "no"
    [] name = "standard_gold_false_positive_rate" ->
         r.kind = "gold" /\ r.goldFinal = "yes" /\ r.goldProcess = "yes"
    [] name = "human_review_flag_rate" -> TRUE
    [] name \in {"flagged_final_correct_process_issue_rate", "flagged_false_positive_rate"} ->
         r.flagged /\ s.id \in DOMAIN given
    [] name \in {"primary_review_agreement_rate", "arbitration_rate"} -> r.agreed # "unknown"
    [] name = "taxonomy_macro_f1" -> r.goldTaxonomy # "none"

Says(truth, prediction) == truth = IF prediction THEN "yes" ELSE "no"
Found(r, distance) ==
  ~r.process /\ r.step # 0 /\ r.step - r.goldStep \in -distance..distance

\* Those of them that count.
Succeeds(name, s, given) ==
  LET r == s.row IN
  CASE name = "natural_final_accuracy" -> r.goldFinal = "yes"
    [] name = "natural_process_valid_rate" -> r.goldProcess = "yes"
    [] name = "natural_final_correctness_evaluator_agreement" -> Says(r.goldFinal, r.final)
    [] name = "process_validity_evaluator_agreement" -> Says(r.goldProcess, r.process)
    [] name \in {"invalid_process_detection", "standard_gold_false_positive_rate"} -> ~r.process
    [] name = "exact_localization" -> Found(r, 0)
    [] name = "within_one_localization" -> Found(r, 1)
    [] name = "paradox_recall" -> r.final /\ ~r.process
    [] name = "human_review_flag_rate" -> r.flagged
    [] name = "flagged_final_correct_process_issue_rate" ->
         given[s.id].final /\ ~given[s.id].process
    [] name = "flagged_false_positive_rate" -> given[s.id].process
    [] name = "primary_review_agreement_rate" -> r.agreed = "yes"
    [] name = "arbitration_rate" -> r.arbitrated

\* The places of the rows a metric includes.
InMetric(name, sample, given) == {k \in DOMAIN sample : Includes(name, sample[k], given)}

\* F1 of a class as numerator and denominator; a class nobody has scores 0.
F1(sample, in, t) ==
  LET gold == {k \in in : sample[k].row.goldTaxonomy = t}
      said == {k \in in : sample[k].row.taxonomy = t}
      either == Cardinality(gold) + Cardinality(said) IN
  IF either = 0 THEN <<0, 1>> ELSE <<2 * Cardinality(gold \cap said), either>>

\* The value of a metric, as fractions; no value without included rows.
NotEvaluable == << >>
Value(name, sample, given) ==
  LET in == InMetric(name, sample, given) IN
  CASE in = {} -> NotEvaluable
    [] in # {} /\ name = "taxonomy_macro_f1" -> [t \in Taxonomies |-> F1(sample, in, t)]
    [] OTHER -> <<Cardinality({k \in in : Succeeds(name, sample[k], given)}), Cardinality(in)>>

\* compute_metrics refuses labels of samples it does not have, and for a formal run
\* a taxonomy that no gold label has.
IdsAt(sample, places) == {sample[k].id : k \in places}
Ids(sample) == IdsAt(sample, DOMAIN sample)
Computes(sample, given, isFormal) ==
  /\ DOMAIN given \subseteq Ids(sample)
  /\ isFormal => \A t \in Taxonomies : \E i \in DOMAIN sample : sample[i].row.goldTaxonomy = t

-------------------------------------------------------------------------------
(* bootstrap_metric                                                        *)

Of(given, ids) == [i \in DOMAIN given \cap ids |-> given[i]]

\* Mutant: the labels are those of the whole metric.
AllLabels(sample, given) == given

\* The labels a replicate is computed with.
SampledLabels(sample, given) == Of(given, Ids(sample))

\* What a replicate takes its rows from: the rows with the name of an included one.
Pool(name, sample, given) ==
  {k \in DOMAIN sample : sample[k].id \in IdsAt(sample, InMetric(name, sample, given))}

\* As many rows as the pool has, each of them any of the pool's.
Drawings(pool) == [1..Cardinality(pool) -> pool]
Replicate(sample, draw) == [k \in DOMAIN draw |-> sample[draw[k]]]

-------------------------------------------------------------------------------
(* The run                                                                 *)

All == [i \in DOMAIN rows |-> [id |-> i, row |-> rows[i]]]

MetricsInit == formal \in BOOLEAN /\ rows = << >> /\ labels = << >>

\* An observation is checked, and may have been confirmed by a human.
Observe ==
  /\ Len(rows) < MaxRows
  /\ \E r \in {q \in Rows : IsAccepted(q)} :
       /\ rows' = Append(rows, r)
       /\ \/ UNCHANGED labels
          \/ \E c \in Confirmed :
               labels' = [i \in DOMAIN labels \cup {Len(rows) + 1} |->
                            IF i \in DOMAIN labels THEN labels[i] ELSE c]
  /\ UNCHANGED formal

MetricsNext == Observe

MetricsSpec == MetricsInit /\ [][MetricsNext]_metricsVars

-------------------------------------------------------------------------------
(* Properties                                                              *)

\* The bootstrap can draw what it likes: no replicate is refused, every one has a value
\* over as many rows as the metric has, and drawing every row once, in any order, gives
\* the value that is reported.  So an interval rests on all the replicates that were
\* asked for.
ReplicatesAreValid ==
  \A name \in Metric :
    LET pool == Pool(name, All, labels)
        given == Of(labels, IdsAt(All, pool)) IN
    \A draw \in Drawings(pool) :
      LET sample == Replicate(All, draw)
          sampled == SampledLabels(sample, given) IN
      /\ Computes(sample, sampled, FALSE)
      /\ InMetric(name, sample, sampled) = DOMAIN sample
      /\ (\A j, k \in DOMAIN draw : draw[j] = draw[k] => j = k) =>
           Value(name, sample, sampled) = Value(name, All, labels)

\* The samples a metric speaks of.
Meant(name, s) ==
  CASE name \in {"natural_final_accuracy", "natural_process_valid_rate",
                 "natural_final_correctness_evaluator_agreement"} -> s.row.kind = "natural"
    [] name \in {"invalid_process_detection", "exact_localization", "within_one_localization"} ->
         s.row.kind = "controlled_wrong"
    [] name = "paradox_recall" -> s.row.kind = "paradox"
    [] name = "standard_gold_false_positive_rate" -> s.row.kind = "gold"
    [] OTHER -> TRUE

\* No sample drops out of a metric of a formal run: what the run's checks accept is
\* never unknown to a metric that speaks of its kind.  Only human labels, which are not
\* evidence of the run, may be missing.
FormalCountsEverySample ==
  formal =>
    \A name \in RatioMetric \ {"flagged_final_correct_process_issue_rate",
                              "flagged_false_positive_rate"} :
      InMetric(name, All, labels) = {k \in DOMAIN All : Meant(name, All[k])}

===============================================================================
