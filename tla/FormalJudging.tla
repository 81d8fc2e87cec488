---------------------------- MODULE FormalJudging ----------------------------
(***************************************************************************)
(* The judging of the controlled sources of a formal corpus, and its later  *)
(* replay.  validate_formal_corpus_judge_cases checks the cases against the *)
(* frozen corpus, has each of them judged, checks the evidence and writes a *)
(* manifest of hashes.  Later, elsewhere, the manifest comes back with raw  *)
(* evidence from disk, and validate_persisted_formal_judge_evidence decides *)
(* whether it still supports the corpus.                                    *)
(*                                                                         *)
(* A content hash is modelled by the content: whatever is hashed is         *)
(* compared as it is.                                                       *)
(***************************************************************************)
EXTENDS Judge

CONSTANTS Corpus,    \* controlled samples of the frozen corpus, in canonical order:
                     \* [id, kind, problem, source]
          Pinned,    \* frozen selection: problem -> the record of the problem
          Tests,     \* record of a problem -> number of its final tests
          Handings,  \* what may be handed to the validation: [linked, cases], where
                     \* linked says that the manifests name each other's hashes and a
                     \* case is [id, kind, problem, record, source]
          Runs       \* runs a program may have

Kind == {"gold", "mutant", "paradox"}
Places == DOMAIN Corpus

ASSUME FormalJudgingAssumption ==
  /\ Corpus \in Seq([id : STRING, kind : Kind, problem : DOMAIN Pinned, source : STRING])
  /\ \A i, j \in Places : Corpus[i].id = Corpus[j].id => i = j
  /\ \A p \in DOMAIN Pinned : Pinned[p] \in DOMAIN Tests
  /\ \A r \in DOMAIN Tests : Tests[r] \in Nat
  /\ Runs \subseteq Run
  /\ \A h \in Handings :
       /\ h.linked \in BOOLEAN
       /\ h.cases \in Seq([id : STRING, kind : Kind, problem : STRING,
                           record : DOMAIN Tests, source : STRING])

VARIABLES handed,    \* what the validation was given
          worlds,    \* how the judging of each case went, as far as it went
          manifest,  \* what the manifest was written for: [cases, evidence]
          raw,       \* the evidence a replay was given
          verdict    \* "open", "judging", "raised", "refused", "eligible", "replayed", "rejected"

judgingVars == <<handed, worlds, manifest, raw, verdict>>

-------------------------------------------------------------------------------
(* The checks                                                              *)

\* Mutant: the record of the problem is not compared with the frozen one.
ChainWithoutRecord(h) ==
  /\ h.linked
  /\ Len(h.cases) = Len(Corpus)
  /\ \A i \in Places :
       /\ h.cases[i].id = Corpus[i].id
       /\ h.cases[i].problem = Corpus[i].problem
       /\ h.cases[i].kind = Corpus[i].kind
       /\ h.cases[i].source = Corpus[i].source

\* _validate_formal_case_chain: the cases are the controlled samples, in order.
Chain(h) ==
  /\ h.linked
  /\ Len(h.cases) = Len(Corpus)
  /\ \A i \in Places :
       /\ h.cases[i].id = Corpus[i].id
       /\ h.cases[i].problem = Corpus[i].problem
       /\ Pinned[h.cases[i].problem] = h.cases[i].record
       /\ h.cases[i].kind = Corpus[i].kind
       /\ h.cases[i].source = Corpus[i].source

\* _validate_formal_test_evidence: the tests, the verdict and the shown input agree.
TestsAgree(case, e) ==
  LET failure == FirstFailure(e.tests) IN
  /\ Len(e.tests) = Tests[case.record] /\ e.tests # << >>
  /\ \A i \in DOMAIN e.tests : e.tests[i].status \notin {"not_run", Infrastructure}
  /\ e.verdict = IF failure = 0 THEN "ac" ELSE e.tests[failure].status
  /\ e.counterexample = failure
  /\ failure # 0 => e.tests[failure].counterexample = failure
  /\ \A i \in DOMAIN e.tests : i # failure => e.tests[i].counterexample = NotShown

\* _validate_case_evidence: the program of a case behaves as its kind says.
BehavesAs(case, e) ==
  /\ e.verdict \notin {"not_run", Infrastructure}
  /\ e.compile = "ac"
  /\ IF case.kind \in {"gold", "paradox"} THEN e.verdict = "ac"
                                          ELSE e.verdict \in SemanticFailure

\* _validate_replayed_evidence
Supports(cases, evidence) ==
  /\ DOMAIN evidence = DOMAIN cases
  /\ \A i \in DOMAIN cases : TestsAgree(cases[i], evidence[i]) /\ BehavesAs(cases[i], evidence[i])

-------------------------------------------------------------------------------
(* The steps                                                               *)

WorldsOf(case) ==
  LET n == Tests[case.record] IN
  [tests : {n}, compile : CompileStatus \ {"ac"}, runs : {<< >>}]
  \cup [tests : {n}, compile : {"ac"}, runs : [1..n -> Runs]]

Evidence == [i \in DOMAIN worlds |-> Judged(worlds[i])]

JudgingInit ==
  /\ handed \in Handings
  /\ worlds = << >> /\ raw = << >>
  /\ manifest = [cases |-> << >>, evidence |-> << >>]
  /\ verdict = "open"

CheckChain ==
  /\ verdict = "open"
  /\ verdict' = IF Chain(handed) THEN "judging" ELSE "refused"
  /\ UNCHANGED <<handed, worlds, manifest, raw>>

JudgeCase ==
  /\ verdict = "judging" /\ Len(worlds) < Len(handed.cases)
  /\ \E w \in WorldsOf(handed.cases[Len(worlds) + 1]) : worlds' = Append(worlds, w)
  /\ UNCHANGED <<handed, manifest, raw, verdict>>

\* Removing the workspace fails: judge raises, whatever the tests said.
JudgeRaises ==
  /\ verdict = "judging" /\ Len(worlds) < Len(handed.cases)
  /\ verdict' = "raised"
  /\ UNCHANGED <<handed, worlds, manifest, raw>>

\* Every case was judged; only now is the evidence looked at.
WriteManifest ==
  /\ verdict = "judging" /\ Len(worlds) = Len(handed.cases)
  /\ IF Supports(handed.cases, Evidence)
     THEN /\ manifest' = [cases |-> handed.cases, evidence |-> Evidence]
          /\ verdict' = "eligible"
     ELSE verdict' = "refused" /\ UNCHANGED manifest
  /\ UNCHANGED <<handed, worlds, raw>>

\* The evidence a directory may hold: what was judged, what another judging of one
\* case left, one file in the place of another, or one file less.
OnDisk ==
  LET kept == manifest.evidence
      n == Len(kept) IN
  {kept}
  \cup UNION {{[kept EXCEPT ![i] = Judged(w)] : w \in WorldsOf(manifest.cases[i])} : i \in 1..n}
  \cup {[kept EXCEPT ![i] = kept[j]] : i, j \in 1..n}
  \cup {SubSeq(kept, 1, n - 1)}

\* validate_persisted_formal_judge_evidence
ReplayAccepts(h, evidence) ==
  /\ Chain(h)
  /\ Supports(h.cases, evidence)
  /\ manifest.cases = h.cases /\ manifest.evidence = evidence

Replay ==
  /\ verdict = "eligible"
  /\ \E h \in Handings, evidence \in OnDisk :
       /\ handed' = h
       /\ raw' = evidence
       /\ verdict' = IF ReplayAccepts(h, evidence) THEN "replayed" ELSE "rejected"
  /\ UNCHANGED <<worlds, manifest>>

JudgingNext == CheckChain \/ JudgeCase \/ JudgeRaises \/ WriteManifest \/ Replay

JudgingSpec == JudgingInit /\ [][JudgingNext]_judgingVars

-------------------------------------------------------------------------------
(* Properties                                                              *)

Fails(run) == run.status # "ac" \/ ~run.matches
IsUnavailable(run) == run.status \in {Infrastructure, SandboxFails}

\* What formal evidence claims of a sample, said of the runs themselves.
Holds(sample, w) ==
  /\ w.compile = "ac"
  /\ Len(w.runs) = Tests[Pinned[sample.problem]] /\ w.runs # << >>
  /\ \A i \in DOMAIN w.runs : ~IsUnavailable(w.runs[i])
  /\ IF sample.kind = "mutant" THEN \E i \in DOMAIN w.runs : Fails(w.runs[i])
                               ELSE \A i \in DOMAIN w.runs : ~Fails(w.runs[i])

\* A corpus is eligible, at once and in a replay, only when every frozen source was
\* compiled and ran every final test of its frozen problem, the gold and paradox
\* ones to the expected outputs and the mutants to a failure of their own; and a
\* validation that came that far refuses nothing else: the two checks of the
\* evidence and DockerJudge, which produces it, mean the same.  What a replay accepts
\* is the evidence of that very judging, and the differential tests over the same runs
\* pass the same sources.
EligibleIsTrue ==
  /\ verdict \in {"eligible", "replayed"} =>
       /\ DOMAIN worlds = Places
       /\ \A i \in Places :
            /\ Holds(Corpus[i], worlds[i])
            /\ Corpus[i].kind # "mutant" <=> Differential(worlds[i].runs) = "passed"
  /\ verdict = "replayed" => raw = Evidence
  /\ verdict = "refused" /\ Chain(handed) =>
       \E i \in Places : ~Holds(Corpus[i], worlds[i])

\* The evidence of a case shows one hidden input at most, that of the test which
\* decided the verdict, and none when any test could not be run.
OneInputIsShown ==
  \A i \in DOMAIN worlds :
    LET e == Judged(worlds[i])
        shown == {t \in DOMAIN e.tests : e.tests[t].counterexample # NotShown} IN
    IF e.verdict \in SemanticFailure
    THEN /\ shown = {e.counterexample} /\ e.tests[e.counterexample].status = e.verdict
         /\ \A t \in 1..(e.counterexample - 1) : e.tests[t].status = "ac"
    ELSE shown = {} /\ e.counterexample = NotShown

===============================================================================
