# A TLA+ model of Hy3 AlgoTrace Lab

Hy3 AlgoTrace Lab audits solutions of programming problems: it has a model
write (or is given) a solution with its reasoning, judges the program in
containers, has the reasoning reviewed by further model calls, fuses the
evidence into a verdict, and keeps every step in an append-only artifact
store.  This directory specifies the parts of it whose correctness depends on
the *order* of things — concurrent writers, crashes, retries, budgets — checks
them with TLC and proves the most important facts with TLAPS.

## 1. The system

Paths are below `src/src/hy3_algotrace/`.

| component | state it keeps | operations | talks to |
|---|---|---|---|
| **artifact store** `artifacts.py` | files that are created once and never replaced | `write_json`, `read_json`, `list_json`, `list_directories` | file system; used by everything that persists |
| **run service** `run_service.py` | per run: request, numbered transitions (a hash chain), two reports, index entry; in memory one lock | `submit`, `_execute`, `_complete`, `_append_failure`, `reconcile_abandoned_runs`, `get_run` | artifact store, executor, and generator/judge/reviewers through callables |
| **executor** `executor.py` | thread pool, table of futures, recorded worker failures | `submit`, `_task_done`, `failure_for`, `task_health`, `shutdown` | run service (callback into `_execute`, query by `get_run`) |
| **HTTP application** `app.py`, `local_app.py`, `api_models.py`, `config.py` | none of its own | lifespan (reconcile, then serve), run and problem endpoints | run service |
| **Hy3 client** `hy3_client.py`, `prompts.py` | cost guard, token guard, response cache, attempt observers | `generate`, `review`, `arbitrate` -> `_structured_call` -> `_completion` | remote model; observers of the live benchmark |
| **benchmark** `benchmark.py`, `live_benchmark.py`, `benchmark_cli.py`, `benchmark_models.py` | attempt budget, attempt ledger, per-attempt reservation and settlement files, per-sample results | `RemoteAttemptBudget.reserve`, `BenchmarkRunner.run`, `LiveExecutor.__call__`, `ledger.finalize` | client, judge, artifact store |
| **continuation chain** `nonformal_continuation.py` | packages: parent, carryover, authorisation, order, configuration | derive, assess, write, verify | benchmark artifacts of a stopped run |
| **evidence fusion** `evaluator.py`, `rules.py` | the reviews of one trace | `review`, `localize_root_error`, `score_process`, `fuse` | reviewers' and judge's results |
| **docker judge** `docker_judge.py`, `judge.py` | one container at a time, bounded output buffers, deadline | compile, run, clean up | docker CLI |
| **response cache** `hy3_client.py` (`JsonResponseCache`), `run_service.py` | files that hold one validated answer per question | `get`, `put` | client; shared by the threads of the pool |
| **formal life cycle** `formal_lifecycle.py`, `formal_generation.py`, `formal_qualification.py`, `intent.py` | frozen manifests A and B, pre-run intent marker, traces and failures, qualification report | freeze, verify, generate once, qualify | artifact store, client, benchmark runner |
| **judging** `docker_judge.py` (`DockerJudge`), `judge.py`, `differential.py` | manifest and raw evidence of the controlled sources | judge, validate, replay, compare | docker judge |
| **human review** `human_review.py` | blind batch, decisions, replay | export, decide, replay | formal qualification |
| **metrics** `metrics.py` | none (pure) | metrics, bootstrap, strata | benchmark runner |
| **dataset selection** `dataset_models.py`, `codecontests.py`, `dataset_cli.py` | acquired files, conversion and quota reports, frozen selection | convert, count, freeze, verify | operator; formal qualification |
| **corpus, catalogue, contracts** `corpus.py`, `catalog.py`, `contracts.py` | none (validation) | load | data files |
| **presentation, release, scripts** | files | one-shot rendering and packaging | |

### What is hard

* Several **threads** of one process (HTTP handlers, pool workers) and several
  **processes** on one artifact root work on one run.  The lock of `RunService`
  excludes the threads of one process; between processes only the create-only
  file system decides.
* **Crashes** leave any prefix of a multi-file operation.  Startup repairs them
  before it serves.
* **Errors after the effect**: a directory sync that fails after the link, a
  thread pool that raises after it queued the task, an HTTP call that fails
  after the model did the work and will be paid for.
* **Stale knowledge**: a worker whose run has been ended by somebody else; a
  claim that was checked before a phase of minutes.
* **Budgets** across retries, repairs, crashes and successor runs: money may be
  reserved and not settled, attempts made and not recorded.

What makes each component correct is stated as the properties of sections 3-13;
every hazard has its line in `PROJECT.json` and the property that covers it or
the reason none does yet.

## 2. Modules

| module | contents |
|---|---|
| `CreateOnlyStore` | abstract: a path gets its content once; a power failure may take only what no lasting reference was returned for |
| `ArtifactStore` | `write_json` system call by system call; implements `CreateOnlyStore` |
| `ArtifactStoreProofs` | its inductive invariant, the two safety properties and the refinement, and the bound of `ResponseCache`, for all constants |
| `RunLifecycle` | abstract: what a client of the run API observes of a run |
| `RunService` | handlers, worker pool, executor record, startup reconciliation, crashes of several processes on one artifact root; implements `RunLifecycle` |
| `RunServiceProofs` | its inductive invariant, the safety properties, the action property and the refinement, for all constants |
| `RemoteSpending` | abstract: attempts on record, attempts sent, the provider's bill and its two caps |
| `LiveRun` | a live benchmark: client, guards, attempt budget, ledger, per-attempt files, sample loop, end, crash and second start; implements `RemoteSpending` |
| `AttemptProfile` | `formal_attempt_profile_is_valid` as a scan of the ledger, and beside it what the scan is meant to accept |
| `AttemptProfileProofs` | that the scan accepts just that, for any plan and any ledger; induction up to a bound |
| `AttemptLedger` | the events of a stored ledger, read one by one, and the grammar that produces the ledgers the scan should accept |
| `LiveRunProofs` | the inductive invariants of `LiveRun`, its safety properties and the refinement, for all constants |
| `DockerRun` | one program in a container: program, attached docker command and host at the same time, bounded capture, stop, inspection, removal, and the outcome the backend concludes |
| `DockerRunProofs` | its inductive invariant and four safety properties, for all constants |
| `ContinuationChain` | packages that let a failed benchmark be continued: derived, written, verified and run by several processes at once |
| `ContinuationChainProofs` | its inductive invariant and four safety properties, for all constants |
| `StepGraph` | the search of `SolutionTrace.validate_step_graph` for a cycle among the dependencies of a trace |
| `EvidenceFusion` | rules, reviews, arbitration, and the report that follows from them |
| `ResponseCache` | runs that share the cache of validated answers |
| `Judge` | what `DockerJudge.judge` makes of the container runs of one source; the differential tests over the same runs |
| `FormalJudging` | the judging of the controlled sources of a formal corpus, its manifest and the replay of that |
| `FormalRun` | a formal run from the frozen intent to the qualification: marker, attempts, traces, corpus, configuration, index; uses `AttemptProfile` |
| `FormalRunProofs` | its inductive invariants, three safety properties and the action property, for all constants |
| `HumanReview` | blind batch, decisions, replay, and the second computation of the replay by the qualification |
| `Metrics` | every metric with its denominator, the bootstrap, and the observations a run accepts |
| `Selection` | conversion, review, quota, freeze and verified replay of the selection of problems |
| `DecisionsProofs` | the properties of `StepGraph`, `AttemptLedger`, `EvidenceFusion`, `FormalJudging`, `HumanReview`, `Metrics` and `Selection`, for all constants |
| `MCArtifactStore` | constants for `ArtifactStore` and `ResponseCache` |
| `MCDecisions` | constants for `AttemptLedger`, `EvidenceFusion`, `FormalRun`, `FormalJudging`, `HumanReview`, `Metrics` and `Selection`, which it checks one after the other |
| `MCRunService`, `MCLiveRun`, `MCDockerRun`, `MCContinuationChain` | constants for TLC |

`RunService` uses the store as the relation `CreateOnlyStore` describes
(`Publish`, `Taken`, `Create`, `Broken`): the durable files of a run are variables
shaped by what they mean (a history, a set of runs).  `ContentOf` reads them back as
files, `Store` is the instance of `CreateOnlyStore` over these, and
`RunFilesAreCreated` proves that every step of the service is one `Store!Create` or
leaves all files alone; `StoreSpec` is what justifies one atomic step per `write_json`.
`LiveRun` and `ContinuationChain` have the same instance over their files:
`LiveFilesAreCreated` and `ChainFilesAreCreated` (sections 5 and 7).

Each detailed module has an inductive invariant, with the types of its variables as one
conjunct.  It was checked by TLC while it was found; now it is proved for all values of
the constants, and the runs spend their time on the properties.  Two liveness properties
(`AcceptedRunSettles`, `RunReturns`) are checked by TLC only, since the provers do not reason
about fairness.  Every invariant and every other action property that a passing run checks has
a theorem.

## 3. Artifact store

**State.** `final[p]` is the call whose inode carries path `p` (its content),
`stored[p]` the same as far as it is known to be on disk; `data`/`synced` are the
length of a call's inode in memory and on disk; `made` the existing directories;
`pc`, `target`, `outcome` the control state of a call; `unsynced` the calls whose
directory could not be synced, which the code does not record and only the
properties read.

**Actions.** One per system call of `write_json`: `OpenParent`, `OpenTemporary`,
`WriteSome` (short writes allowed), `SyncTemporary`, `LinkFinal`, `SyncDirectory`,
`Unlink` (the `finally` clause), each with its failure; `Die` (a process stops)
and `PowerLoss` (only synced bytes and synced directory entries are sure to
stay).  `SyncDirectory` has three outcomes: the directory is synced; `os.fsync`
raises; or it answers `EINVAL`, as for a file system that does not sync
directories, which `_fsync_directory` swallows: nothing reaches the disk and the
call still returns its `ArtifactRef`.  This may happen to any call, at any
directory, without limit.

**Properties.** `NeverTorn`: a published name always carries a whole document.
`AcknowledgedSurvives`: a returned `ArtifactRef` stays until power fails, whatever
other calls and dying processes do; it stays for good, power failures included, when
it is *lasting*: the directory existed before and was synced after the link.  More
cannot be promised, since the code loses the rest: `_open_parent` makes directories and
never syncs *their* parents, and a swallowed `EINVAL` leaves the entry off the disk; a
caller cannot tell either case from a lasting reference.  `StoreSpec`: the create-only
store is implemented, also in the power-failure case; its safe paths are those of the
lasting references.

**Run** `artifact_store_race` (with section 9): three calls, two paths (one in a new directory),
contents of two units, one failing system call, any number of ignored directory
syncs, one power failure.  Three calls
are the least with a winner, a loser and a bystander on one path.

**Proofs.** `Invariant` says: an inode is whole and synced before it gets its
name; before that no name refers to it; a name known to be on disk is a name in
memory; a call about to return a reference owns its path, on disk too when the
directory was there before and has been synced.  It is needed because
`NeverTorn` alone is not preserved by `LinkFinal` (the linked inode must already
be whole) nor by `PowerLoss` (it must already be synced).
`StoreRefinement` maps `files <- final` and `safe` to the paths of lasting
references.

## 4. Run service

**State.** Durable: `dirs`, `requests`, `indexed`, `log[r]` (the transition
files), `internal[r]`/`public[r]` (whose reports).  In memory, lost with the
process: handler control `hpc`/`hseen`, worker control `wpc`/`wseen`/`claim`,
the executor's `tracked`/`failures`, the reconciliation's `rpc`/`rrun`/`rseen`/
`todo`/`swept`, and `lock`.

**Correspondence.**

| code | actions |
|---|---|
| `submit` | `Submit`, `MakeRunDirectory`, `WriteRequest`, `WriteFirstTransition`, `WriteQueuedTransition`, `WriteIndex`, `Dispatch`, then on a rejected dispatch `HandlerReadsHistory`, `HandlerWritesFailure` |
| `_execute` | `WorkerStarts`, `ReadForClaim`, `WriteClaim`, then `PhaseEnds`/`CheckClaim` for generation, judge, reviews |
| `_complete` | `WriteInternalReport`, `WritePublicReport`, `ReadForCompleted`, `WriteCompleted` |
| `_append_owned_failure` | `CheckOwnership`, `ReadForFailed`, `WriteFailed` |
| `InProcessBackgroundExecutor` | `Dispatch` (queue), `WorkerStarts` (a free thread), `TaskDone` |
| `reconcile_abandoned_runs` | `Start`, `OpenRun`, `ReadRun`, `WriteRun`, `Serve` |
| a process stops | `Crash` |
| `get_run` | the operator `View` |

**Abstractions.**
* Steps are split where another thread or process can come between: taking the
  lock and reading the history are one step (nothing of the service can be seen
  in between), writing and releasing another.
* A hash is the pair *event, writer*: two writers of one sequence number produce
  different bytes (timestamps apart, the writer's event or report differ) and
  one writer never publishes an event twice.
* A failed run carries no failure code; redaction and report contents are left
  out; generation, judge and reviews end well or with an exception.
* The pool may start queued tasks in any order (the real queue is FIFO): an
  over-approximation for safety, and harmless for liveness as each worker is
  treated fairly.
* `ThreadPoolExecutor.submit` may raise after the task was queued (a thread
  cannot be started); `Dispatch` has that outcome.
* The listing of `runs/` is one step; the two reads `reconcile_abandoned_runs`
  makes of one history are merged (in one process nobody else runs; another
  process's append in between only makes the write lose the race).
* `Deliveries` has two members in `run_service_shared`: the `RunExecutor`
  protocol does not exclude a repeated delivery and
  `tests/test_run_service.py:643` and `:700` test for it.

**Properties.** `ChainIntact`, `CompletedByClaimHolder`, `SingleClaim`,
`AcceptedIsReadable`, `AttendedWhileActive` (invariants), `SweptIsSettled` (proved, as a
part of the inductive invariant, and in no run), `FilesAreCreated` (proved, and in no
run), `StaleWorkerStops` (action property), `AcceptedRunSettles` (liveness) and
`LifecycleSpec` (refinement of `RunLifecycle`).  Each is stated in words above
its definition.

| run | instance | question |
|---|---|---|
| `run_service_shared` | 1 run, 2 processes, 2 deliveries, 2 threads, 2 I/O errors, 2 crashes | all safety, with a second process reconciling under a live one; is a task delivered twice paid for twice? |
| `run_service_pool` | 2 runs, 1 process, 1 thread, 2 I/O errors, 1 crash, fair | does a process lose an accepted run, and does each end? |
| `run_service_restart` | 2 runs, 1 crash, fair | *violation*, see findings |
| `run_service_degraded` | 1 run, 2 I/O errors | *violation*, see findings |

Runs share nothing but the lock, the pool and the sweep of a startup; the first
two matter between two runs of one process (`pool`), the last between a
broken directory and another run (`restart`).  Processes share only files, and a
history has at most four entries, so two processes give every competition there
is for an entry.  Two I/O errors are what it takes to fail an operation and then
the recording of that failure; two crashes are what it takes to lose a run and
then the startup that repairs it.

**Fairness.** Weak fairness of every handler, worker and startup, and of
restarting: threads of the interpreter and of the pool run when they can;
generation, judge and review calls have deadlines of their own; restarting is
the operator's part.  No fairness of submission, and errors and crashes are
bounded.  A directory whose submission never got its request written makes every
startup fail (`Stranded`), which `AcceptedRunSettles` excludes explicitly.

**Proofs.** The inductive invariant `Invariant` has four parts besides types and
`SweptIsSettled`: `FilesSound` (the chain is legal; who wrote RUNNING; a
COMPLETED entry is backed by both reports of that worker), `HandlerSound` (what a
handler read is a prefix of the history; its run has no worker before dispatch),
`WorkerSound` (what a worker read is a prefix; a claim is the third entry and is
its own; the reports it has written), `StartupSound` (a process that does not
serve has no live thread; a startup that read a queued run can lose it only to
another process).  None of the properties is inductive alone: a write from a stale
read keeps the chain legal only because what was read is a *prefix* of the
history, so that equal lengths mean equal histories; `SweptIsSettled` needs the
last part of `StartupSound`.  The proof takes one lemma per action on top of
`Grows` (no step takes anything durable away), then `WorkerKept`, `HandlerKept`,
`StartupKept` carry the sentences of bystanders over.  `LifecycleRefinement` maps a
history to the phase its last entry shows.  `RunFilesAreCreated` maps it to numbered
files: that a handler, a worker or a startup writes at most one file a step
(`NextWritesOneFile`), and that an entry is appended within the four a legal chain has,
make each step a creation of a file that was not there.

`AcceptedRunsAreAttended` needs a second invariant, `AttendedInvariant`, inductive
together with the first: a process's lock has one holder (`LockSound`), so that a
writer of an accepted run loses a race only to a startup, which ended the run
(`RacesSound`); who wrote RUNNING is past the claim (`RunningSound`), so that a
delivery that arrives later cannot be the one that should finish; an accepted
active run has such a delivery, the claim holder's once there is one, or a recorded
failure (`AttendedSound`); and a startup overlooks no run its own process accepted
earlier (`VisitSound`).  Each kind of actor is summarised by what one of its steps
may do (`WorkerMove`, `HandlerMove`, `StartupMove`) before the parts are shown kept.

Proved for every value of the constants, under `RunServiceAssumption` and
`NoneIsNoHash` (distinct markers, at least one delivery of a task) only: the
theorems listed in `PROJECT.json`.  Only model-checked: `AcceptedRunSettles`
(liveness).

## 5. Remote attempts

One process of `benchmark_cli` works through its samples one after the other;
each sample is up to four operations (generate, logic review, adversarial
review, arbitration), each operation a loop of HTTP attempts with one repair,
which has a loop of its own.

**State.** On disk: `config`, `ledger`, `reserved` and `settled` (the two files
of an attempt), `observations`, `index`, `failure`, `report`.  At the provider:
`sent` and `billed`; nobody in the program sees them, the properties do.  In
memory: the control point `pc`, the call at work (`sample`, `doing`, `phase`,
`retry`), what the guards have charged (`cost`, `tokens`), what the budget has
counted (`used`) and the ledger knows (`refs`).

| code | actions |
|---|---|
| `benchmark_cli.main` | `Start`, `WriteFailure`, the end of a run |
| `BenchmarkRunner.run` | `WriteConfig`, `TakeSample`, `WriteObservation`, `WriteReport` |
| `LiveExecutor.__call__` | `WriteTraceAndJudge`, `EndCall`, `WriteResult`, `WriteSampleFailure` |
| its observers | `WriteReservation`, `WriteSettlement` |
| `Hy3Client._completion` | `Reserve`, `Record` (through the budget), `Post`, `TransportError`, `OtherError`, `Response` |
| `RemoteAttemptBudget`, `ArtifactAttemptLedger` | `Record`, `WriteIndex` |
| a process stops, and is started again | `Crash`, `Start` |

**Abstractions.**
* The guards keep *charged*; what is left is the limit minus that.  Prices are one
  per input token and four per output token, as in the code.
* What follows an answer is a choice between another attempt, a repair, a
  failure and success: status codes, envelopes, redaction and validation of
  contents are data.  The category of a settlement is left out, its amounts are
  not.
* `Billable` is the premise the guards rest on: the bytes of a request bound its
  prompt tokens and `max_tokens` bounds the answer.  `Reports` is the second one:
  the provider reports what it bills, or more, or nothing usable.
* `Record` merges the check of the budget, the write of the event and the two
  counters (nothing else of the process runs between them); the number of an
  event is always new in its directory, since the directory is this run's alone.
* The sample's own `failure.json`, `trace.json`, `judge.json` and `result.json`,
  and the metrics and charts before `report.json`, are writes that may fail, not
  state.  The profile's comparison with the number of observations is left out:
  it compares two numbers the frozen plan already fixes.
* A `Start` begins with guards at zero: every run has a tranche of its own.

**Properties.** `NeverOverspends`, `EvidenceIsTrue` (what a chained successor accepts as
settlement evidence adds up to what the guards had charged),
`CompleteFitsProfile` (invariants), `SpendingSpec` (refinement of
`RemoteSpending`); `AcceptsGrammar` for the profile scan.  `RecordedBeforeSent`,
`IndexCoversSent`, `ReportedIsSettled` and `FilesAreCreated` are proved and in no run.

| run | instance | question |
|---|---|---|
| `live_run_spending` | 1 generated sample, 2 attempts a phase, 1 of 4 attempts consumed, caps of 13 and 6, one write failure, 2 starts; usages below, at and above the reservation and one without a total | all safety |
| `live_run_profile` | 2 samples, one generated; caps that never bind | does a complete run pass the profile? |
| `decisions` | every ledger of up to 4 events over the right events and, at its end, some wrong ones; longer ones that are grammatical but for their last two events (and sections 8 and 10-13) | is the profile the grammar of attempts? |
| `live_run_outcome` | 1 sample | *violation*, see findings |

The caps let two to three attempts through, so that each of the two guards
refuses first in some behaviour; a reservation is larger than the smallest report
and smaller than the largest.  One consumed attempt makes the sequence numbers
start at two.  Two attempts a phase are what tells the last attempt from the
others.  A second start is what a published `config.json` has to stop; more add
nothing, since a start that fails there changes no file.

**Proofs.** `Invariant` consists of the types, `AccountsBalance` (between
attempts the bill is at most the charge; while a reservation is held, at most the
charge without it; while an answer is awaited, at most that plus the bill of this
attempt), `LedgerCounts` (the counters of a working run are the length of its
ledger; the attempts sent are increasing, recorded and reserved), `EndIsLast` (the
index is written after the last request; before a report everything is settled)
and `CallInRange`.  `NeverOverspends` is not inductive, since it does not relate
the bill to the guards; the two are related only while the process works, because
a crash forgets the guards, and it is `config.json` that keeps them from starting
at zero over an existing bill.  `LiveRunProofs` has one lemma per action for each
conjunct; facts on `Append` are stated once.  `SpendingRefinement` maps lengths of
the ledger and of the requests sent.

`EvidenceIsTrue` is about the sums a successor computes from the settlements.  They are
recursive functions of the number of attempts, so `SettlementsAgree` says that the last
settlement there is repeats what the guards had charged: between attempts it does, while one
is in flight the guards hold a reservation more, and at the end the index names the attempt
whose settlement it is.  From the invariants it follows that those sums are at least the bill.

`ProfileIsGrammar` (`AttemptProfileProofs`) settles for every plan that names no operation
twice in a row, every limit and every ledger that the scan accepts exactly the `Grammatical`
ones: each event opens the next operation of the plan or follows the one before it.  Each
direction is an induction along the ledger, of which `UpTo` is the rule: the numbers up to a
bound at which a formula holds are a set, and a set with 0 that is closed under successor
below the bound has them all.

`CompleteFitsProfile` then asks for the grammar only.  `OrderSound` is invariant: every event is
of an operation its sample has and carries its own number (`Placed`, `Numbered`); while the
process works the ledger is `InOrder`, each event one that the client may make next after the
one before; what has been `Seen` agrees with the control point and with the phase and retry
the call is at; and a complete report leaves a ledger that is `Finished`, with all operations
of all samples.  It is the control point, not the ledger, that knows whether an arbitration
may still come, hence `Completing` and `EndsAt`.  A finished ledger in order walks through
the plan, whose operations are laid out by a recursive concatenation (`PlanInOrder`: where
an operation of a sample stands in the plan); so the scan accepts it.

`ProfileAcceptsGrammar` (`DecisionsProofs`) compares the scan with a definition of another kind:
`Ledgers`, which produces ledgers operation by operation, each with its requests and its
repairs.  A produced ledger is `Laid`: its events walk through the operations in order.  From
left to right, the attempts at one more operation are added to a walk (`LaidGrows`); from right
to left, a walk that ends at an operation is cut where its attempts begin (`LaidCut`), and what
was cut off is as many requests and then as many repairs as the grammar asks for, numbered from
one (`LooksLikeAttempts`).  So the grammatical ledgers are the produced ones, for any plan that
repeats no operation, and `ProfileIsGrammar` does the rest.

`Record`, `WriteReservation` and the other writes of `LiveRun` have no case for a file that
exists already; only `WriteConfig` has.  `LiveFilesAreCreated` is why none is missing: a run that
got behind `config.json` finds no file of the name it writes.  For reservations, observations
and `failure.json` the invariants above do not say so; `FilesAwaited` does, since no
reservation is of a number beyond the counter and none of the samples still to come has an
observation.

## 6. Docker run

`DockerCommandExecutor.run` creates a container, attaches a docker command to it,
reads the two pipes of that command within a deadline and a limit for each
stream, stops the container when a bound is overstepped, inspects it and removes
it; `DockerCliBackend` then decides whether what it was told hangs together and
what it says about the program.

**State.** The container: `container`, `status`, `oom`, `error`, `wrote` (bytes of
each stream) and `ended`, which names who ended the program; the host never sees
`wrote` and `ended`, the properties do.  The attached command: `cli`, `code`,
`unread` (bytes in its pipes).  The host: `pc`, `late`, `open`, `captured`,
`timedOut`, `limited`, `stopped` (`kill_succeeded`), `seen` (the return code it
got), `inspected`, `cleaned`.

| code | actions |
|---|---|
| `DockerCommandExecutor.run` | `Create`, `Attach`, and the order of the others |
| `_capture_bounded_process` | `DeadlinePasses`, `CheckDeadline`, `ReadChunk`, `ReadEnd`, `KillCli`, `Wait` |
| `_kill_container`, `_inspect_container_state`, `_remove_container` | `Kill`, `Inspect`, `Remove`, `RemoveAgain` |
| `_trusted_process_observation` | the operator `Trusted` |
| `_execution_outcome_from_process`, `DockerCliBackend.compile` | `Outcome`, `CompileOutcome` |
| outside the repository | `Write`, `Exit`, `OutOfMemory`; `StartContainer`, `CliCloses`, `CliBreaks`, `CliExits` |

**Abstractions.**
* Bytes are counted, and every split of a stream into chunks is a behaviour.  The
  command and the daemon behind it are one pipe, which passes on everything when
  the command ends well, and any part when it is killed or breaks
  (`SomeAreLost`).
* A docker call fails without effect or after it.  The five-second grace of the
  loop may end at any time while the container goes on; that it ends although
  the container has stopped, like every time-out of a control command, is a docker
  fault.
* A command that broke returns 1 and never 0; the `OOMKilled` flag is set no later
  than the death of the process it is about.
* The memory observer is a number beside the verdict; only its thread failing to
  start is modelled, because it throws the capture away.
* A failed identity (`no_identity`) and an exception (`raised`: a docker command
  that cannot be reaped) end the run with whatever container there is.

**Properties.** `VerdictIsTrue`, `NoVerdictHasACause`, `LeftBehindNeedsTwoFaults`
(invariants; `NoVerdictHasACause` excuses a stop by the host that met no running program: it
had just ended, or was not yet started when the deadline passed), `RunReturns` (liveness); `CaptureIsConsistent` is proved and in no run.

| run | instance | question |
|---|---|---|
| `docker_run_verdicts` | limit 1, 3 bytes a stream, statuses 0 and 1, 2 faults, fair | is every verdict true, has a missing one a cause, does the host always come back? |
| `docker_run_deadline` | no fault | *violation*, see findings |

Three bytes are the limit, the byte that shows it was overstepped, and one that
must be dropped.  Two faults are what it takes to leave a container behind.

**Fairness.** Weak fairness of the host's steps (one loop that never blocks for
more than 50 ms), of the deadline, and of a docker command whose container has
ended closing its pipes.  No fairness of the program: it need not end.

**Proofs.** No property is inductive.  `VerdictIsTrue` relates the host's
bookkeeping to a container it sees only through two docker calls, so `Invariant`
says where each byte is (`CommandSound`: until the command ends, and after it
ended well, read and unread bytes are all the program wrote), what a stop proves
(`HostSound`: a successful kill means the host ended the program), that what was
seen stays true (`ConclusionSound`: a container inspected after its end does not
change any more), and what a run without faults looks like (`Faultless`, which
`NoVerdictHasACause` needs).  One lemma per part, one step per action.  Proved for
every limit, every set of exit statuses and any number of faults; only
model-checked: `RunReturns`.

## 7. Continuation chain

A benchmark that failed leaves evidence: its ledger index, its events, their
settlements and `failure.json`.  From it an operator derives a *carryover*, which
counts the attempts of the predecessor against the limit of a successor, and has
a *package* written: source identity, configuration, carryover, for an authorized
package the resource authorization, and last the preflight, with the hashes of the
others.  A start of `benchmark_cli` with an authorized package verifies all of it
again and begins its budget where the carryover ends.  When that run fails too, a
*chained* carryover counts both; its package waits for a new approval.

**State.** For each benchmark: `begun` (its `config.json`), `base` (attempts its
budget began with), `under` (the carryover it was started with), `index` (attempts
in its ledger index), `settled` (every attempt has a settlement with usage),
`failure`; and `sent`, the requests that left, which only the properties read.
For each package directory, `pkg`: its documents.  For each process: `pc`, the
carryover at work `plan`, the directory or benchmark `place`, the limit `cap` and
the attempts on record `refs`.

| code | actions, operators |
|---|---|
| `derive_conservative_carryover`, `derive_chained_carryover` | `DeriveConservative`, `DeriveChained` |
| `assess_continuation`, `assess_authorized_continuation` | `Historical` |
| `verify_authorized_successor_package`, `_load_verified_parent_package` | `Authorized` |
| `assess_chained_continuation`, `_validate_latest_failure_and_index` | `Chained`, `FailedAfter` |
| `write_successor_package`, `write_authorized_successor_package`, `write_chained_successor_package` | `BeginPackage`, then one `WriteDocument` per file |
| `benchmark_cli.main`, `BenchmarkRunner.run` | `VerifyPackage`, `WriteConfig`, or `StartAnew`; `WriteFailure` |
| `RemoteAttemptBudget`, `ArtifactAttemptLedger.finalize` | `Attempt`, `WriteIndex` |
| a process is killed or gives up | `Stop` |

**Abstractions.**
* A hash is what it is a hash of, since the documents it refers to never change
  (`ArtifactStore`); a preflight therefore determines its package.
* An assessment reads its files in one step.  It reads only files that are
  published once: what was there when it read them is there afterwards.
* All benchmarks lie below one artifact root.
* Attempts are counted; what a package says of tokens and money is left out
  (`LiveRun` has the settlement evidence, `EvidenceAccepted`).  Source and
  configuration are those the package was frozen with: the comparison with those
  at hand only adds a refusal.
* The live run is the loop of `LiveRun` without what happens inside an attempt.
  An attempt that fails after its record, one whose answer is not settled, an
  error at the end that keeps the index or the failure from being written, are
  all in `Attempt` and `Stop`.
* `write_continuation_bundle` writes an unbound carryover and preflight, which
  nothing reads, and is left out.

**Properties.** `PackageIsOneWrite` (the documents of a package with a preflight
are one writer's), `EvidenceStays` (a package stays supported),
`SuccessorContinues` (a successor numbers its attempts behind everything its
predecessor sent, within the limit), `ChainCountsAll` (a chained package counts
both generations, which are over).

What is *not* promised, because the code does not see to it:
* Nothing marks a predecessor as continued.  Two successors of one failed run,
  or one on two artifact roots, each get all the attempts that are left of the
  limit they share.  `SuccessorContinues` speaks of one predecessor and one
  successor.
* `derive_chained_carryover` takes the parent package it is given, and does not
  compare it with what the failed run was started under.  Two packages for one
  successor, with equal counts and different limits, are both accepted:
  `ChainCountsAll` speaks of the limit of the package that was given, not of
  `under`.  Three package directories and two limits show the difference.

**Run** `continuation_chain_line`: three benchmarks, two package directories, two
processes, a limit of two, two benchmarks started, one process killed, symmetric
in all three sets.  Three identities and two packages are a whole chain: ancestor,
authorized package, predecessor, chained package, successor.  Two processes give
every competition for a file; with a limit of two, each generation has one attempt
to make and the chain can exhaust the limit.  A chain cannot be longer: the
package at its end starts nothing.

**Proofs.** `Invariant` adds to the first two properties: `WriterSound` (from the
second document on, the writer owns the directory, which holds what it wrote and
nothing else), `PackageSound` (a directory without a source identity is empty),
`RunSound` (a process at work on a benchmark is alone, and its index is not yet
written), `EvidenceSound` (an index covers what was sent; the base of a benchmark
is what the evidence behind its carryover says).  `EvidenceStays` is not inductive:
a benchmark's index could be written anew, were it not that only its one runner
writes it, once, before the failure.  The proof first shows what no step takes
away: evidence of a failed benchmark (`EvidenceKept`), documents
(`PackagesKept`), and so the support of every carryover; then one lemma for each
part, one step per action.  `SuccessorContinues` and `ChainCountsAll` follow from
the invariant.  So does `ChainFilesAreCreated`: `WriteIndex` and `WriteFailure`, which do not
look whether their file exists, never meet one, whoever else runs (`RunSound`), and a writer of
a package that does meet one leaves it.  Proved for any identities, packages, processes, limits
and bounds, under `ContinuationAssumption` and `NoneIsNoContent` (distinct markers).

## 8. Evidence fusion

A trace is a list of steps with stages and dependencies.  `RuleEngine` searches it;
`ReviewOrchestrator` has two reviewers judge each step and, where the signatures of
their verdicts differ, an arbiter; `EvidenceFusion.fuse` makes a report of it: the
rules decide if they found anything, otherwise the arbiter or, without one, the first
reviewer.

**State.** `trace`; `reviews`, the verdict of each reviewer that has answered;
`report`.

| code | actions, operators |
|---|---|
| `SolutionTrace.validate_step_graph` | `ValidStepGraph` (its `visit` is `Visit`, the loops are `Walk`) |
| `SolutionTrace`, `StepReview`, `ReviewerVerdict`, their other validators | the sets `Trace`, `StepReview`, `Verdict` |
| `RuleEngine.evaluate` | `Findings` |
| `ReviewOrchestrator.review` | `Review`, `Arbitrate`, `Signature`, `Disagreement`, `Unresolved` |
| `localize_root_error` | `Search` (its depth-first search, with `Turn` and `Looked`), `Roots`, `Localized` |
| `score_process` | `Score` |
| `EvidenceFusion.fuse` | `Fuse`, `RuleReport`, `ReviewReport` |

**Abstractions.**
* A step is its position in the trace; its number is another thing.  A text is what
  the rules look for in it (`defects`).  Some sets of defects no text has (code that
  is blank and unfinished); they only add behaviours.
* A verdict lists its reviews in some order, of which only the first error matters
  (`first`).
* `_deduplicate` drops findings that equal an earlier one in step and taxonomy, which
  changes nothing in a report; the list of evidence in it is left out.
* The nested function `has_candidate_ancestor` is a recursive function of the call, that is of
  the step and the steps visited so far; it returns those with the answer, since they are
  shared with the caller.  Its loop over `depends_on` is a function of the number of turns.
  `visit`, in the validation of a trace, is the same kind of function, of the step, the steps
  under visit and the visited ones.
* The judge has accepted the program or not.  Missing evidence raises before anything
  is fused, a trace that fails its schema has no report, and a reviewer's call that fails
  ends the run elsewhere (`RunService`, `LiveRun`): here a review may just never come.

**Properties.** `SearchFindsUpstream`, `FusionNeverFails`, `UnattendedHasSupport`,
`ReviewedRootIsFirst` (invariants); `AgreementIsEnough` is proved and in no run.

What is *not* promised: the arbiter is not asked "only when conclusions differ in
substance", as `README.md:144` of the repository has it.  Two verdicts also differ in
their signature when they blame the same steps for the same and list them in another
order, or when one flags a correct step as material.  The arbiter then costs a call and
decides nothing that `UnattendedHasSupport` does not cover.

**Run** `decisions`, subject *trace*: three steps, all acyclic dependencies among them, numbers in the order
of the positions and against it, dependencies listed in one order and in the other, no defect or (where one step at most depends on another)
one of two; verdicts with up to two errors in any order, one with another taxonomy and one with a material review that is correct.  Three
steps are the least in which two errors are related through a step that is none, and in
which a root is neither first nor last.

**Proofs.** `Invariant` is `TypeOK` with `ReportIsFused`: a report is the
fusion of its trace and of the reviews that are there now, which `Review` and `Arbitrate`
keep since neither is possible beside a report.  The other theorems speak of `Fused` and
rest on four lemmas: a set of numbered elements has a least one (`LeastExists`, from the
well-foundedness of the naturals); what is upstream has a lower rank (`UpstreamIsLower`), so
of any candidates one is a root (`RootExists`); without findings the numbers themselves are
such a rank, so that the first candidate is a root (`RootIsFirst`); verdicts of one signature
blame the same steps for the same (`SignatureDecides`).  Proved for traces of any length and
any sets of traces and verdicts.

`SearchFindsUpstream` is proved first (`SearchIsComplete`), since what is said of roots rests on
it.  `Upstream` is what the search is to find, the least set closed under dependencies.  The
sentence that carries the proof is `Explores`: whatever a call was given as visited, a hit is
upstream, and without one every step it visited, and the step it was called for, has all it
depends on among the visited and no candidate there; about the steps visited before it says
nothing, since they may still be at work.  At the outermost call those are the step itself, so
a miss leaves a closed set without a candidate (`MissIsComplete`).  The search is shown to be
defined, and to explore, by induction on a rank of the steps (`VisitsExist`, `VisitsExplore`),
its loop by induction on the turns (`LookExplores`).

That rank comes from the validation, which every trace has passed.  `StepGraphIsAcyclic`: the
depth-first search of `validate_step_graph`, which only ever looks whether it meets a step that
it is visiting, accepts exactly the dependencies that can be ranked.  There is no rank to
define that search by, since a cycle is what it must find; it ends because each call has one
step more under visit, and the induction is on how many are left.  What a call keeps is that
the visited steps are `Ordered`, that is ranked among themselves with all they depend on: a
finished step is put above them.  Conversely, if there is a rank, every step that is called for
is below all that are under visit, and so none of them.

## 9. Response cache

The threads of the pool share a directory of validated answers.  A question is looked up,
asked, and its answer published create-only; the review of a trace has the whole trace in
its question, so that two runs that got different traces do not meet there.

**State.** `cache`, the published files; for each run `asker`, where it is with which
question and answer; `drawn`, answers of the remote so far; `given`, what callers were
handed.

| code | actions |
|---|---|
| `InProcessBackgroundExecutor` (its threads) | `Take` |
| `JsonResponseCache.get` | `Lookup` |
| `Hy3Client._structured_call` | `Ask`, and the order of the others |
| `JsonResponseCache.put` | `Put` |

**Abstractions.** A question is what distinguishes keys: the trace that is reviewed, or
none.  No two answers of the remote are equal.  A cache directory that cannot be written
fails the call, before or after the link.

**Property.** `AnswersAreFew`: the loser of a race to publish keeps the answer it paid for
and never reads the one that was published, so runs about one question may be given
different answers; but not more than there are threads, however many runs there are.

**Run** `artifact_store_race`, subject *cache*: four runs, two threads, one fault: twice as
many runs as threads, so that the cache can be met before, during and after a publication.

**Proof.** The answers given to one question, and the runs that hold one for it and have not
published it, are together at most the number of threads: `CacheInvariant` has this count
for questions without a published answer, and for the others that the answers given besides
the published one and those still held are fewer than the threads.  Proved for any set of
runs and any number of threads.

## 10. Judging of the controlled sources

`DockerJudge.judge` compiles a source and runs every final test, then aggregates;
`validate_formal_corpus_judge_cases` has each controlled source of a frozen corpus judged and
writes a manifest; `validate_persisted_formal_judge_evidence` decides later whether manifest
and raw evidence still support the corpus.  Three readers of one evidence were written
separately: the judge that makes it, the validation that checks it, and the differential
tests.

**State.** `handed`, what the validation was given; `worlds`, how the judging of each case
really went; `manifest`; `raw`, the evidence a replay was given; `verdict`.

| code | operators, actions |
|---|---|
| `DockerJudge._judge`, `_run_test`, `_aggregate` | `Judged`, `RunTest`, `Aggregate` |
| `run_differential_tests` | `Differential` |
| `_validate_formal_case_chain` | `Chain`, `CheckChain` |
| `_validate_formal_test_evidence`, `_validate_case_evidence`, `_validate_replayed_evidence` | `TestsAgree`, `BehavesAs`, `Supports` |
| `validate_formal_corpus_judge_cases` | `JudgeCase`, `JudgeRaises`, `WriteManifest` |
| `validate_persisted_formal_judge_evidence` | `Replay` |

**Abstractions.** A world names the status of each container run (`DockerRun` says when it is
true) and whether its output matches.  Hashes are what they hash; the directory a replay
reads holds the evidence, or that of another judging, a swapped or a missing file.  An input
that is shown is named by its test.  `judge` raises when its workspace cannot be removed,
whatever the tests said (`JudgeRaises`).

**Properties.** `EligibleIsTrue`: whatever is accepted is true of the runs themselves, and
what is refused after the chain held is not.  `OneInputIsShown`: the evidence of a case shows
the hidden input of at most one test, the one that decided.

What is *not* promised: `_validate_replayed_evidence` accepts evidence with a status
`compile_error` of a test behind the first failing one, which the judge never produces; the
comparison with the manifest is what excludes it.

**Run** `decisions`, subject *judging*: three cases, a gold and a mutant of a problem with two
tests and a paradox of one with one; four kinds of run; six batches of cases, each with
manifests that refer to each other or do not.  Two tests are what a second failing test and an
unavailable one beside a failing one need; with more, only more of the same places.

**Proofs** (`DecisionsProofs`). `JudgingInvariant`: the cases at work are the chain of the corpus,
each world is one of its case, a manifest is of exactly these cases and the evidence of these
worlds.  The theorem rests on one lemma about the operators: for a world of a case,
`TestsAgree` and `BehavesAs` of `Judged(w)` hold exactly if `Holds`.  Proved for any corpus,
records, numbers of tests and runs.

## 11. Formal run

The natural samples of a formal benchmark are generated once, under an intent (A) that was
frozen before: tree, prompts, parameters, selection.  The process that owns the run publishes
a marker, verifies A again before every generation attempt, and records every attempt before
it is sent.  Traces, then a frozen corpus (B), configuration, observations, index and
candidate; `qualify_formal_run` replays everything.

**State.** On disk: `marker`, `ledger`, `saved` and `failed` (the files of a natural sample),
`config`, `index`, `candidate`, `frozen`, `qualified`; `tree`, whether the sources are the ones
of A.  For each process `session`: control, the call at work, the samples it `started`, the
`events` its budget and its ledger count, what it has `reviewed` and `observed`.  History:
`sent`, `accepted`, `early`, `unnoticed`.

| code | actions |
|---|---|
| `verify_pre_run_intent`, `FormalNaturalGenerator.__init__` | `Verify`, `Mark` |
| `FormalNaturalGenerator.__call__`, `assert_formal_runtime` | `Generate`, `Check`, `Save`, `Fail` |
| `RemoteAttemptBudget`, `ArtifactAttemptLedger.record` | `Reserve` |
| `Hy3Client._structured_call`, `_completion` | `Send`, `Transient`, `NeedsRepair`, `Valid` |
| `freeze_materialized_corpus`, `verify_materialized_corpus` | `Freeze`, `SameCorpus` |
| `BenchmarkRunner.run`, formal part | `Begin`, `Observes`, `Finish`, `FinishPartially` |
| `qualify_formal_run` | `Qualifies`, `Qualify` |
| the driver, outside the repository | the order of all these, `AuditSample`, `Begin` |
| somebody edits the sources; a process dies | `Edit`, `Crash` |

**Abstractions.**
* One intent: another one has another benchmark id and so directories of its own.
* The driver is any order of the library's calls; several reviews of a sample are one
  operation.  What it reviews and what it observes is its choice.
* A trace is the ledger number of the attempt that answered with it.  A content hash is the
  content.
* A write fails before it publishes or after (a directory sync).  A generation whose
  `trace.json` was published and whose sync failed leaves both `trace.json` and
  `failure.json`; the qualification reads neither
  (`docs/FORMAL_CORPUS_LIFECYCLE.md` §4.4), only the materialized corpus.
* `Qualify` reads its files in one step; they are create-only, so what it compared stays.
* Judging, human review and selection, which the qualification also replays, are sections
  10, 12 and 13.

**Properties.** `OneDraw`, `EditIsNoticed`, `ReviewsPrecedeConfig` (invariants),
`QualifiedIsAllThatWasSent` (action property).

What they say about the code that is easily missed:
* `ReviewsPrecedeConfig`: the configuration must name the corpus, and the attempt profile
  wants each generation directly before its reviews.  So no run in which `BenchmarkRunner`
  sends the reviews itself can qualify, except for those of the last natural sample: the
  driver has to review before, through the same budget.
* A is verified before every attempt of the *generator*
  (`docs/P0_CLOSEOUT_2026-09-13.md:17`); the reviews have no such check, which is why
  `EditIsNoticed` counts generation attempts.
* The saved trace of a sample is bound to its generation events in the manifest of B, not
  to the `natural/<id>/trace.json` of the run: the comparison of the two is not made.

**Run** `decisions`, subject *run*: one controlled and one natural sample, two processes
(symmetric), a limit of four attempts, two retries, two edits, one failing write.  Four attempts
are a generation, its repair and the reviews of both samples; a second process is what the
marker has to stop; two edits are one that is put back.

**Proofs** (`FormalRunProofs`). `FormalInvariant` adds to the first two properties:
`MarkerSound` (one process behind its marker; without a marker nothing happened), `DrawSound`
(every accepted answer is of a sample its process started; the sample at work has none),
`EditSound` (an attempt that is about to be reserved has seen A), `SentSound` (what was sent is
a prefix of the ledger, and a process has sent all it counts but the one it is about to send).
`OneDraw` alone is not inductive: that a second answer for a sample never comes needs that
`started` survives every failure and that no second process gets behind the marker.  Proved for
any samples, processes, limits and bounds.

`ReviewsPrecedeConfig` has an invariant of its own, `ConfigSound`: the generation events that the
configuration names are those of the part of the ledger that was there when it was written
(`early`), the index is a beginning of the ledger, and the index of a qualified run reaches at
least that far, fits the profile and has no other generation events.  A ledger that fits the
profile (`ProfileIsGrammar`, by way of the places it assigns to events) has every generation but
those of the last natural sample followed by the generation of the next; so whatever comes after
`early` is behind the last generation.

## 12. Human review and metrics

**Human review.** State: `export`, `mapping`, `decisions`, `replay` (files), `outcome`.

| code | actions, operators |
|---|---|
| `persist_blind_batch` | `PersistBatch` |
| `HumanDecisionSet.validate_review_rounds`, `persist_decision_set` | `WellFormed`, `PersistDecisions` |
| `replay_decisions` | `Replayable`, `Replayed`, `ReplayDecisions` |
| `_validate_human_review_chain` of the qualification | `Expected`, `Confirms`, `QualifyReview` |

A blind name is a place in the batch; a label is a member of a small set; the seeded draw of
the second round is any draw `Draws` allows.  Between the files a caller holds what it likes:
`ReplayDecisions` takes any decisions, mapping and observations.  Blind steps keep their original numbers, and
the contents of an export are left out.  `AcceptedIsReviewed`: an accepted review is one of the
whole corpus with the run's own observations, its labels the last that were decided, the second
decision the first reviewer's.
`ReplaysAgree`: the two computations of a replay, by `human_review.py` and by the
qualification, never disagree on a review that followed the rules.  Subject *review*: two
samples with different gold labels, in both orders, one or both in the second round; the
observations of the run, or others in order, in a row or in number.  Proved
(`DecisionsProofs`) for any corpus, reviewers and draws: `ReviewInvariant` says that what is on
disk is well formed.

**Metrics.** State: `formal`, `rows` (the observations), `labels` (human labels).  `Observe` is
`BenchmarkRunner._validate_observation`; `Includes`, `Succeeds` and `Value` are
`compute_metrics`, metric by metric, as fractions; `Pool`, `Drawings`, `Replicate` and `SampledLabels` are
`bootstrap_metric`.  Strata are the same metrics over fewer observations.
`ReplicatesAreValid`: no bootstrap replicate is refused or loses a row, and one that draws every
row once has the value of the metric itself.
`FormalCountsEverySample`: nothing a formal run accepts is unknown to a metric of its kind.
Subject *metrics*: up to three of nine observations, with and without human labels.  Three rows
give every draw with repetition that differs in a count of one class.  Both are proved
(`FormalMetrics`, `BootstrapReplicates`) for any observations, taxonomies and number of rows: an
included row is included under the labels of any sample that has it, and a draw of every row
once is a bijection, under which counts do not change.

What is *not* promised: `compute_metrics(formal=True)` raises when a taxonomy has no gold
support, so it depends on the corpus whether a formal run has metrics at all.

## 13. Dataset selection

**State.** `conversions` (a report for each split), `quota`, `selection`, `chain` (a verified
replay).

| code | actions, operators |
|---|---|
| `_assess_row` | `Passes`, `TopicsOf` |
| `convert_codecontests_file` | `Fits`, `Convert`, `ConvertAgain` |
| `build_quota_report` | `Count`, `QuotaOf` |
| `freeze_selection` | `MayFreeze`, `FreezeSelection` |
| `load_pinned_review_set`, `verify_frozen_selection_chain`, `validate_frozen_selection` | `AreApproved`, `Replays`, `VerifyChain` |

**Abstractions.** The commands are given in any order on any report that exists.  A file is
read as rows by a converter that the repository pins by name and version only, so `Listings`
gives several sequences of rows for one file.  What the assessment asks of a row besides
identity, topics and review is `sound`.

**Property.** `VerifiedIsReviewed`.  Two things it does not say: a replay whose converter lists
the rows in another order is refused (the row numbers are in the conversion's hash), even if
nothing else differs; and two rows of one reviewed problem must be identical.

**Run** `decisions`, subject *selection*: three problems, one in two editions, one with two topics
and one broken row; two files, two splits, one problem a cell (two in the code); six review sets.
With one problem a cell, a cell can be short, exact and overfull.

**Proof** (`DecisionsProofs`). The verification replays everything from bytes and reviews, so the
property follows from the one step `VerifyChain`, whatever the other files hold: that is the
point of it.  Proved for any splits, topics, bands and listings, for finite `Topics`.

## 14. Findings

* `run_service_restart`: a process killed between making a run's directory and
  linking its `request.json` leaves a directory at which every later startup
  raises; accepted runs behind it stay active, although the plan document says
  that restart reconciliation marks abandoned active runs failed.
* `run_service_degraded`: a worker that fails at its claim and cannot write
  FAILED is recorded by the executor, but `get_run` shows the record only when
  the latest transition is RUNNING; the client is told *queued*.
* `live_run_outcome`: a body that is not UTF-8 makes `response.json()` raise a
  `UnicodeDecodeError`, which `_completion` does not catch: the attempt was sent
  and stays reserved but has no outcome, although `Hy3AttemptOutcome` says that one
  is emitted exactly once per attempt.  Money stays bounded; the run cannot be
  continued by a chained successor.
* `docker_run_deadline`: the validation record says that the race between a deadline
  and a program that ends normally is repaired, by looking whether the attached
  command still runs; that command outlives its container, and the program may
  end between the look and the kill.  The verdict is then withheld (never
  false): an infrastructure error for a program that ended with status 0.

## 15. Plan

Done: artifact store with response cache, run service, remote attempts with the attempt
profile, docker run, judge and formal judging, continuation chain, evidence fusion, formal
run, human review, metrics, dataset selection.  Left, in this order:

1. **Intent and freeze A** (`freeze_pre_run_intent` of `formal_lifecycle.py`, and the
   sealing of `intent.py`): the manifests that `FormalRun` takes as one thing that an edit of the tree invalidates.
2. **Preflight and artifact replay** of `BenchmarkRunner`: runs without remote calls, their
   inputs compared with the frozen ones.
3. **Corpus and catalogue validation**, the linting of bundles: pure, and wide.
4. **The remaining arithmetic of the metrics**: strata, percentiles of the bootstrap, the
   stable breakpoint.

Not planned: rendering, user interface, packaging, authoring and shell scripts, container
files (pure input/output without state that steps could get wrong); the path checks of the
artifact store and of the dataset tools, redaction, and the formats of documents (data).
