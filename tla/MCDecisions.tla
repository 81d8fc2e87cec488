------------------------------ MODULE MCDecisions ------------------------------
(***************************************************************************)
(* Model checking what decides over evidence, one subject at a time: the    *)
(* fusion of evidence, for every small trace and choice of verdicts; the   *)
(* profile of attempts, for every short ledger and every longer one that   *)
(* goes wrong at its end; and the formal evaluation, that is one formal    *)
(* run, the judging of the controlled sources with its replay, the blind   *)
(* review of the corpus, and the metrics of what a run observed.  The parts*)
(* of the formal evaluation meet in files whose content the qualification  *)
(* compares.                                                               *)
(***************************************************************************)
EXTENDS EvidenceFusion, AttemptLedger, FormalRun, FormalJudging, HumanReview, Metrics,
        Selection, SequencesExt, TLC

CONSTANT MaxEvents  \* bound: length of a ledger that does not begin as it should

VARIABLE subject  \* "trace", "ledger", "run", "judging", "review", "metrics" or
                  \* "selection"

-------------------------------------------------------------------------------
(* Traces and verdicts                                                     *)

SomeStages == (1 :> "problem_understanding") @@ (2 :> "algorithm_design")
                @@ [s \in Steps |-> "edge_cases"]

\* Positions need not follow the numbers; a text has a defect where they do, and at most
\* one of its steps depends on another.  Dependencies are listed in the order of the
\* positions, or against it.
Straight == [s \in Steps |-> 2 * s]
Swapped == [s \in Steps |-> IF s < 3 THEN 5 - 2 * s ELSE 2 * s]
Ascending == {SetToSortSeq(D, <) : D \in SUBSET Steps}
Descending == {SetToSortSeq(D, >) : D \in SUBSET Steps}

\* Of all dependencies that are listed so, the search lets those pass that have no cycle.
ASSUME StepGraphsAgree ==
  \A depends \in [Steps -> Ascending \cup Descending] :
    ValidStepGraph(depends) <=> Acyclic(depends)

SomeTraces ==
  LET with(number, lists, defects) ==
        [number : {number}, stage : {SomeStages}, depends : [Steps -> lists], defects : defects]
  IN {t \in with(Straight, Ascending, {{}, {"blank_edge_cases"}, {"hidden_tests"}})
              \cup with(Swapped, Descending, {{}}) :
        /\ ValidStepGraph(t.depends)
        /\ t.defects # {} => Cardinality(UNION {{s} \X Direct(t, s) : s \in Steps}) <= 1}

Fine == [status |-> "correct", material |-> FALSE, taxonomy |-> None]
Noted == [Fine EXCEPT !.material = TRUE]
Bad(taxonomy) == [status |-> "incorrect", material |-> TRUE, taxonomy |-> taxonomy]

\* One or two steps wrong and listed in any order; one wrong in another way; one that
\* is material and fine.
SomeVerdicts ==
  LET all(kind) == [reviews : [Steps -> {Fine, Bad(kind)}], first : Steps \cup {None}]
      odd == [reviews : {[s \in Steps |-> IF s = 2 THEN Bad("boundary_error") ELSE Fine],
                         [s \in Steps |-> IF s = 1 THEN Noted ELSE Fine]},
              first : Steps \cup {None}]
  IN {v \in all("algorithm_logic") \cup odd :
        /\ Cardinality(Erroneous(v)) <= 2
        /\ IF Erroneous(v) = {} THEN v.first = None ELSE v.first \in Erroneous(v)}

-------------------------------------------------------------------------------
(* Ledgers                                                                 *)

TwoOperations == << [sample |-> "s", operation |-> "logic"],
                    [sample |-> "s", operation |-> "adversarial"] >>
SomeTexts == {"this", "other", "s", "logic", "adversarial", "arbiter",
              "request", "schema_repair", "unknown"}

Event(n, block, phase, retry) ==
  [sequence |-> n, benchmark |-> Benchmark, sample |-> block.sample,
   operation |-> block.operation, phase |-> phase, retry |-> retry]

\* The events of the plan's operations, with one retry number too many.
Regular(n) ==
  {Event(n, block, phase, retry) :
     block \in Range(TwoOperations), phase \in {"request", "schema_repair"},
     retry \in 1..(MaxRetries + 1)}

\* A stranger of each kind; if the ledger has MaxEvents events, none but the last.
Strangers(n) ==
  LET first == Event(n, TwoOperations[1], "request", 1) IN
  {[first EXCEPT !.benchmark = "other"], [first EXCEPT !.operation = "arbiter"],
   [first EXCEPT !.phase = "unknown"]}

\* Of a ledger longer than MaxEvents, all but the last two events begin a grammatical one;
\* and this is as long as such a ledger gets.
Beginnings == UNION {Prefixes(g) : g \in Grammar}
Longest == 2 * MaxRetries * Len(TwoOperations) + 2
SomeEvents == UNION {Regular(n) \cup Strangers(n) : n \in 1..Longest}

-------------------------------------------------------------------------------
(* The run: one controlled and one natural sample, two processes           *)

OneControlled == <<"g">>
OneNatural == <<"n">>
Alike == Permutations(Sessions)

-------------------------------------------------------------------------------
(* Judging: a gold and a mutant source of one problem with two final tests, *)
(* and a paradox source of another with one.  The cases that are handed     *)
(* over are the corpus, or differ from it in a record, a kind, a source,    *)
(* the order or the number.                                                 *)

SomeCorpus ==
  << [id |-> "g", kind |-> "gold", problem |-> "p", source |-> "fine"],
     [id |-> "m", kind |-> "mutant", problem |-> "p", source |-> "broken"],
     [id |-> "x", kind |-> "paradox", problem |-> "q", source |-> "fine"] >>
SomePinned == ("p" :> "p, two tests") @@ ("q" :> "q, one test")
SomeTests == ("p, two tests" :> 2) @@ ("p, one test" :> 1) @@ ("q, one test" :> 1)

CaseOf(sample) ==
  [id |-> sample.id, kind |-> sample.kind, problem |-> sample.problem,
   record |-> SomePinned[sample.problem], source |-> sample.source]

SomeHandings ==
  LET all == [i \in 1..3 |-> CaseOf(SomeCorpus[i])] IN
  [linked : BOOLEAN,
   cases : {all, [all EXCEPT ![1].record = "p, one test"], [all EXCEPT ![2].kind = "gold"],
            [all EXCEPT ![3].source = "broken"], <<all[2], all[1], all[3]>>, <<all[1], all[2]>>}]

SomeRuns ==
  {[status |-> "ac", matches |-> TRUE], [status |-> "ac", matches |-> FALSE],
   [status |-> "tle", matches |-> FALSE], [status |-> SandboxFails, matches |-> FALSE]}

-------------------------------------------------------------------------------
(* Review: two samples, whose gold labels differ, in a batch of one or both *)

TwoSamples == <<"x", "y">>
TwoLabels == {"valid", "wrong"}
TwoGold == ("x" :> "valid") @@ ("y" :> "wrong")
TwoDraws == << {<<1>>}, {<<1>>, <<2>>} >>
\* The run's observations, in its order and in another, with another row, and short of
\* one sample.
TwoObserved == <<[sample |-> "x", row |-> "valid"], [sample |-> "y", row |-> "wrong"]>>
SomeObservations ==
  {TwoObserved, <<TwoObserved[2], TwoObserved[1]>>,
   [TwoObserved EXCEPT ![2].row = "valid"], <<TwoObserved[1]>>}
TwoOrders == {<<"x", "y">>, <<"y", "x">>}

\* One decision, by one of some reviewers, at one of some times.
Said(times, who) ==
  {<<d>> : d \in [blind : 1..2, reviewer : who, at : times, label : TwoLabels]}

TwoDrafts ==
  [initial : Said({1}, {"r"}) \cup {a \o b : a, b \in Said({1}, {"r"})},
   delayed : Said({1, 2}, {"r", "q"})]

-------------------------------------------------------------------------------
(* Metrics: rows of every kind, right and wrong, with labels of their gold  *)
(* open or not                                                              *)

Row(kind, final, process, step, taxonomy) ==
  [kind |-> kind, goldFinal |-> final, goldProcess |-> process,
   goldStep |-> step, goldTaxonomy |-> taxonomy,
   final |-> TRUE, process |-> FALSE, step |-> 2, taxonomy |-> "logic",
   flagged |-> TRUE, agreed |-> "no", arbitrated |-> TRUE]

OpenRow == Row("natural", "unknown", "unknown", 0, "none")
GoldRow == Row("gold", "yes", "yes", 0, "none")

SomeRows ==
  {OpenRow, [OpenRow EXCEPT !.agreed = "unknown", !.arbitrated = FALSE],
   Row("natural", "yes", "no", 2, "logic"), GoldRow,
   [GoldRow EXCEPT !.process = TRUE, !.step = 0, !.taxonomy = "none",
                 !.agreed = "yes", !.arbitrated = FALSE, !.flagged = FALSE],
   Row("controlled_wrong", "no", "no", 1, "boundary"),
   [Row("controlled_wrong", "no", "no", 2, "logic") EXCEPT !.flagged = FALSE],
   Row("paradox", "yes", "no", 3, "logic"), Row("paradox", "yes", "no", 0, "none")}

SomeConfirmed == [final : {TRUE}, process : BOOLEAN]

-------------------------------------------------------------------------------
(* Selection: one problem for each of two topics.  Problem "a" comes in two *)
(* editions, which a converter may list alone or together, and in both      *)
(* files; "b" has two topics.                                               *)

RowA == [problem |-> "a", topics |-> {"greedy"}, band |-> "low", sound |-> TRUE, content |-> 1]
RowA2 == [RowA EXCEPT !.content = 2]
RowB == [RowA EXCEPT !.problem = "b", !.topics = {"greedy", "dp"}]
RowC == [RowA EXCEPT !.problem = "c", !.topics = {"dp"}]
BrokenRow == [RowC EXCEPT !.problem = NoProblem, !.sound = FALSE]

SomeListings ==
  ("v" :> {<<RowA, RowB>>, <<RowB, RowA, RowA>>, <<RowA2, RowA, RowB>>})
    @@ ("t" :> {<<RowC, BrokenRow>>, <<RowA2, RowC>>})
SomeAcquired == ("validation" :> "v") @@ ("test" :> "t")

Checked(row, topic) ==
  [problem |-> row.problem, row |-> row, bound |-> TRUE, standard |-> TRUE, topic |-> topic]

TheApproved == ("validation" :> {Checked(RowA, NoTopic), Checked(RowB, "dp")})
                 @@ ("test" :> {Checked(RowC, "dp")})
SomeReviewSets ==
  {TheApproved["validation"], TheApproved["test"],
   {Checked(RowA, NoTopic), Checked(RowB, "greedy")},
   {[Checked(RowA, NoTopic) EXCEPT !.bound = FALSE], Checked(RowB, "dp")},
   {Checked(RowA, NoTopic), [Checked(RowB, "dp") EXCEPT !.standard = FALSE]},
   {Checked(RowA2, NoTopic), Checked(RowC, NoTopic)}}

-------------------------------------------------------------------------------
MCInit ==
  /\ subject \in {"trace", "ledger", "run", "judging", "review", "metrics", "selection"}
  /\ Init /\ (subject # "trace" => trace = CHOOSE t \in Traces : TRUE)
  /\ LedgerInit /\ FormalInit /\ ReviewInit /\ SelectionInit
  /\ JudgingInit /\ (subject # "judging" => handed = CHOOSE h \in Handings : TRUE)
  /\ MetricsInit /\ (subject # "metrics" => ~formal)

Decide == subject = "trace" /\ Next

Extend ==
  /\ subject = "ledger"
  /\ LET n == Len(events) + 1 IN
       /\ n = MaxEvents => \A i \in DOMAIN events : events[i] \in Regular(i)
       /\ n > MaxEvents => SubSeq(events, 1, n - 2) \in Beginnings
  /\ Load

MCNext ==
  /\ UNCHANGED subject
  /\ \/ /\ Decide
        /\ UNCHANGED <<events, formalVars, judgingVars, reviewVars, metricsVars, selectionVars>>
     \/ /\ Extend
        /\ UNCHANGED <<vars, formalVars, judgingVars, reviewVars, metricsVars, selectionVars>>
     \/ /\ subject = "run" /\ FormalNext
        /\ UNCHANGED <<vars, events, judgingVars, reviewVars, metricsVars, selectionVars>>
     \/ /\ subject = "judging" /\ JudgingNext
        /\ UNCHANGED <<vars, events, formalVars, reviewVars, metricsVars, selectionVars>>
     \/ /\ subject = "review" /\ ReviewNext
        /\ UNCHANGED <<vars, events, formalVars, judgingVars, metricsVars, selectionVars>>
     \/ /\ subject = "metrics" /\ MetricsNext
        /\ UNCHANGED <<vars, events, formalVars, judgingVars, reviewVars, selectionVars>>
     \/ /\ subject = "selection" /\ SelectionNext
        /\ UNCHANGED <<vars, events, formalVars, judgingVars, reviewVars, metricsVars>>

allVars ==
  <<subject, events, vars, formalVars, judgingVars, reviewVars, metricsVars, selectionVars>>

MCSpec == MCInit /\ [][MCNext]_allVars

================================================================================
