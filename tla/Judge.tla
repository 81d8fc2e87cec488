-------------------------------- MODULE Judge --------------------------------
(***************************************************************************)
(* What DockerJudge.judge makes of the container runs of one source: the    *)
(* compilation, then one run per final test, none of which is left out, and *)
(* the evidence that aggregates them.  How a container run gets its status  *)
(* is the subject of DockerRun; here a world says how each of them ended.   *)
(* Beside it stands run_differential_tests, the second reader of the same   *)
(* runs.                                                                    *)
(***************************************************************************)
EXTENDS Naturals, Sequences

\* Statuses DockerCliBackend gives a run of the program; SandboxFails stands for
\* every exception the judge catches, of the workspace, the compilation or a test,
\* and for metadata that is no evidence.
SandboxFails == "sandbox_fails"
RunStatus == {"ac", "runtime_error", "tle", "mle", "output_limit",
              "infrastructure_error", SandboxFails}
CompileStatus == {"ac", "compile_error", "infrastructure_error", SandboxFails}

\* The run of one final test: its status, and whether its output is the one
\* expected, under the comparison the case asks for.
Run == [status : RunStatus, matches : BOOLEAN]

\* The judging of one source: the final tests of its problem, and the runs that
\* happened, all of them once the source is compiled.
World == [tests : Nat, compile : CompileStatus, runs : Seq(Run)]

Infrastructure == "infrastructure_error"
SemanticFailure == {"wa", "runtime_error", "tle", "mle", "output_limit"}
JudgeStatus == {"not_run", "ac", "compile_error", Infrastructure} \cup SemanticFailure

First(S) == IF S = {} THEN 0 ELSE CHOOSE i \in S : \A j \in S : i <= j

-------------------------------------------------------------------------------
(* DockerJudge                                                             *)

\* An input that is shown is named by its test; 0 is none.
NotShown == 0

TestStatus(run) ==
  CASE run.status = SandboxFails             -> Infrastructure
    [] run.status = "ac" /\ ~run.matches     -> "wa"
    [] OTHER                                 -> run.status

\* _run_test for test i
RunTest(runs, i) ==
  LET status == TestStatus(runs[i]) IN
  [status |-> status,
   counterexample |-> IF status \in {"ac", Infrastructure} THEN NotShown ELSE i]

\* The first test without a run; only without such a test does the first failing
\* one count.
Unavailable(tests) == First({i \in DOMAIN tests : tests[i].status = Infrastructure})
FirstFailure(tests) == First({i \in DOMAIN tests : tests[i].status # "ac"})
Decisive(tests) ==
  IF Unavailable(tests) # 0 THEN Unavailable(tests) ELSE FirstFailure(tests)

\* Mutant: the input of the first failing test is shown in any case.
ShownAlways(tests) == FirstFailure(tests)

\* The one test whose input the evidence may show.
Shown(tests) == IF Unavailable(tests) # 0 THEN NotShown ELSE FirstFailure(tests)

Aggregate(tests) ==
  [compile |-> "ac",
   verdict |-> IF Decisive(tests) = 0 THEN "ac" ELSE tests[Decisive(tests)].status,
   tests |-> [i \in DOMAIN tests |->
                IF i = Shown(tests) THEN tests[i]
                                    ELSE [tests[i] EXCEPT !.counterexample = NotShown]],
   counterexample |-> IF Shown(tests) = 0 THEN NotShown ELSE tests[Shown(tests)].counterexample]

Without(compile, verdict) ==
  [compile |-> compile, verdict |-> verdict, tests |-> << >>, counterexample |-> NotShown]

\* DockerJudge._judge: no final test, no program, or the tests.
Judged(w) ==
  CASE w.tests = 0 -> Without("not_run", Infrastructure)
    [] w.tests # 0 /\ w.compile = SandboxFails -> Without(Infrastructure, Infrastructure)
    [] w.tests # 0 /\ w.compile \in {"compile_error", Infrastructure} ->
         Without(w.compile, w.compile)
    [] OTHER -> Aggregate([i \in DOMAIN w.runs |-> RunTest(w.runs, i)])

TestEvidence == [status : JudgeStatus, counterexample : Nat]
JudgeEvidence ==
  [compile : JudgeStatus, verdict : JudgeStatus, tests : Seq(TestEvidence), counterexample : Nat]

-------------------------------------------------------------------------------
(* run_differential_tests, over the same runs                              *)

\* There are tests and the runner completes each, or the report is refused; a report
\* passes when every output matches.
Differential(runs) ==
  IF runs = << >> \/ \E i \in DOMAIN runs : runs[i].status # "ac" THEN "refused"
  ELSE IF \A i \in DOMAIN runs : runs[i].matches THEN "passed" ELSE "mismatch"

===============================================================================
