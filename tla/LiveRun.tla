-------------------------------- MODULE LiveRun --------------------------------
(***************************************************************************)
(* One live benchmark: the command line starts BenchmarkRunner, which calls *)
(* LiveExecutor for one sample after the other, which calls Hy3Client for   *)
(* generation and reviews.  Every HTTP attempt is reserved with the cost    *)
(* guard and the token guard, recorded in the attempt ledger, documented by *)
(* a reservation file, transmitted, settled and documented by a settlement  *)
(* file.  The process is sequential; it may stop anywhere, any write may    *)
(* fail, and an operator may start the same benchmark again.                *)
(***************************************************************************)
EXTENDS Integers, Sequences, FiniteSets

CONSTANTS Samples,       \* number of frozen samples
          Generated,     \* samples whose solution the model generates
          MaxAttempts,   \* attempts per request and per repair (3 in the code)
          Consumed,      \* attempts consumed by predecessors of this run
          AttemptLimit,  \* remote_attempt_budget, predecessors included
          Input,         \* phase -> bound of the prompt tokens of a request
          Output,        \* max_tokens
          CostLimit,     \* spend cap
          TokenLimit,    \* token quota
          Usages,        \* token counts the provider may bill or report
          MaxFaults,     \* bound: failing writes
          MaxStarts,     \* bound: starts of the process
          None

Phase == {"request", "schema_repair"}
Operation == {"generate", "logic", "adversarial", "arbiter"}
Usage == [prompt : Nat, completion : Nat, total : Nat \cup {None}]

\* Contents of a settlement.json, and what may follow it.
SettlementType == [usage : Usages \cup {None}, rmb : Nat, tokens : Nat,
                   allRmb : Nat, allTokens : Nat]

Following == {"retry", "repair", "fail", "done"}

ASSUME LiveRunAssumption ==
  /\ Samples \in Nat /\ Generated \subseteq 1..Samples
  /\ MaxAttempts \in Nat \ {0}
  /\ Consumed \in Nat /\ AttemptLimit \in Nat /\ Consumed <= AttemptLimit
  /\ Input \in [Phase -> Nat] /\ Output \in Nat \ {0}
  /\ CostLimit \in Nat /\ TokenLimit \in Nat
  /\ Usages \subseteq Usage
  /\ MaxFaults \in Nat /\ MaxStarts \in Nat
  /\ None \notin Nat \cup Usage \cup SettlementType \cup Following
  /\ None \notin {"agreed", "arbitrated", "complete", "partial", "failed"}

VARIABLES
  config,        \* whether config.json exists
  ledger,        \* events published in ledger/, the first has sequence Consumed + 1
  reserved,      \* sequences with a reservation.json
  settled,       \* sequence -> contents of its settlement.json
  observations,  \* sample -> its published observation
  index,         \* number of events in ledger-index.json
  failure,       \* whether failure.json exists
  report,        \* status in report.json
  sent,          \* sequences transmitted, in order
  billed,        \* what the provider has billed for them
  pc,            \* control point of the process
  sample, doing, phase, retry,  \* sample, operation, phase and attempt at work
  cost, tokens,  \* what the two guards have charged
  used,          \* attempts the budget has counted
  refs,          \* events the ledger knows of
  due,           \* what the attempt in flight will be billed
  pending,       \* settlement to be written
  after,         \* what follows the settlement
  ending,        \* how the run will end
  faults,        \* failing writes so far
  starts         \* starts so far

evidence == <<config, ledger, reserved, settled, observations, index, failure, report>>
provider == <<sent, billed>>
call     == <<sample, doing, phase, retry>>
guards   == <<cost, tokens>>
memory   == <<used, refs, due, pending, after, ending>>
vars     == <<evidence, provider, pc, call, guards, memory, faults, starts>>

-------------------------------------------------------------------------------
(* Prices, bounds and guards                                               *)

\* The output token costs four times the input token.
Rmb(u) == u.prompt + 4 * u.completion

\* A provider that reports no total is taken at the sum of the two counts.
Tokens(u) ==
  LET sum == u.prompt + u.completion IN
  IF u.total = None \/ u.total < sum THEN sum ELSE u.total

RmbUpper == Input[phase] + 4 * Output
TokensUpper == Input[phase] + Output

Least(a, b) == IF a <= b THEN a ELSE b

Fits(charged, upper, limit) == charged + upper <= limit

\* RmbCostGuard.cancel and TokenQuotaGuard.cancel
Cancel == cost' = cost - RmbUpper /\ tokens' = tokens - TokensUpper

\* Mutant: an answer without usage frees the whole reservation.
ChargeReported(upper, usage, amount) ==
  IF usage = None THEN 0 ELSE Least(amount, upper)

\* settle: without a usable report the reservation stays charged, and no report
\* charges more than was reserved.
Charge(upper, usage, amount) ==
  IF usage = None THEN upper ELSE Least(amount, upper)

-------------------------------------------------------------------------------
AttemptNumbers == (Consumed + 1)..AttemptLimit

Init ==
  /\ config = FALSE
  /\ ledger = <<>>
  /\ reserved = {}
  /\ settled = [n \in AttemptNumbers |-> None]
  /\ observations = [s \in 1..Samples |-> None]
  /\ index = None
  /\ failure = FALSE
  /\ report = None
  /\ sent = <<>>
  /\ billed = [rmb |-> 0, tokens |-> 0]
  /\ pc = "off"
  /\ sample = 1 /\ doing = "generate" /\ phase = "request" /\ retry = 1
  /\ cost = 0 /\ tokens = 0
  /\ used = Consumed /\ refs = 0
  /\ due = None /\ pending = None /\ after = None /\ ending = None
  /\ faults = 0 /\ starts = 0

\* A write fails, before or after it published its file.
Fault == faults < MaxFaults /\ faults' = faults + 1

Goes(to) == pc' = to

\* benchmark_cli.main: everything in memory is new.
Start ==
  /\ pc \in {"off", "artifact_failed", "execution_failed", "reported", "crashed"}
  /\ starts < MaxStarts
  /\ starts' = starts + 1
  /\ Goes("config")
  /\ sample' = 1 /\ doing' = "generate" /\ phase' = "request" /\ retry' = 1
  /\ cost' = 0 /\ tokens' = 0
  /\ used' = Consumed /\ refs' = 0
  /\ due' = None /\ pending' = None /\ after' = None /\ ending' = None
  /\ UNCHANGED <<evidence, provider, faults>>

\* config.json is created, never replaced: a benchmark that was started before
\* ends here.
WriteConfig ==
  /\ pc = "config"
  /\ \/ /\ ~config
        /\ config' = TRUE
        /\ Goes("sample")
        /\ UNCHANGED faults
     \/ /\ config
        /\ Goes("artifact_failed")
        /\ UNCHANGED <<config, faults>>
     \/ /\ Fault
        /\ config' \in {config, TRUE}
        /\ Goes("artifact_failed")
  /\ UNCHANGED <<ledger, reserved, settled, observations, index, failure, report,
                 provider, call, guards, memory, starts>>

Request(o) ==
  /\ doing' = o
  /\ phase' = "request"
  /\ retry' = 1
  /\ Goes("reserve")

\* BenchmarkRunner.run takes the next sample; a sample that comes with a trace
\* is audited only.
TakeSample ==
  /\ pc = "sample"
  /\ \/ /\ sample \in Generated
        /\ Request("generate")
        /\ UNCHANGED ending
     \/ /\ sample \in (1..Samples) \ Generated
        /\ Goes("trace")
        /\ UNCHANGED <<doing, phase, retry, ending>>
     \/ /\ sample > Samples
        /\ ending' = "complete"
        /\ Goes("finalize")
        /\ UNCHANGED <<doing, phase, retry>>
  /\ UNCHANGED <<evidence, provider, sample, guards, used, refs, due, pending,
                 after, faults, starts>>

-------------------------------------------------------------------------------
(* Hy3Client._completion: one attempt                                      *)

\* Both guards are asked; when the second refuses, the first is cancelled.
Reserve ==
  /\ pc = "reserve"
  /\ IF /\ Fits(cost, RmbUpper, CostLimit)
        /\ Fits(tokens, TokensUpper, TokenLimit)
     THEN /\ cost' = cost + RmbUpper
          /\ tokens' = tokens + TokensUpper
          /\ Goes("record")
          /\ UNCHANGED ending
     ELSE /\ ending' = "partial"
          /\ Goes("finalize")
          /\ UNCHANGED guards
  /\ UNCHANGED <<evidence, provider, call, used, refs, due, pending, after,
                 faults, starts>>

Event == [sequence |-> used + 1, sample |-> sample, operation |-> doing,
          phase |-> phase, retry |-> retry]

\* Mutant: the budget counts one attempt more than its limit.
BudgetLeftPlusOne == used <= AttemptLimit
BudgetLeft == used < AttemptLimit

\* RemoteAttemptBudget.reserve with ArtifactAttemptLedger.record as its sink: the
\* attempt counts once its event is written.  The file of that number is new: the
\* directory is this run's alone, and no attempt follows a failed write.
Record ==
  /\ pc = "record"
  /\ \/ /\ BudgetLeft
        /\ Consumed + Len(ledger) = used
        /\ ledger' = Append(ledger, Event)
        /\ refs' = refs + 1
        /\ used' = used + 1
        /\ Goes("reservation")
        /\ UNCHANGED <<guards, ending, faults>>
     \/ /\ BudgetLeft
        /\ Fault
        /\ ledger' \in {ledger, Append(ledger, Event)}
        /\ Cancel
        /\ Goes("fail")
        /\ UNCHANGED <<refs, used, ending>>
     \/ /\ ~BudgetLeft
        /\ Cancel
        /\ ending' = "partial"
        /\ Goes("finalize")
        /\ UNCHANGED <<ledger, refs, used, faults>>
  /\ UNCHANGED <<config, reserved, settled, observations, index, failure, report,
                 provider, call, due, pending, after, starts>>

\* Mutant: the reservation is filed under the next number.
DocumentedNext == reserved \cup {used + 1}

Documented == reserved \cup {used}

\* observe_attempt writes reservation.json.
WriteReservation ==
  /\ pc = "reservation"
  /\ \/ /\ reserved' = Documented
        /\ Goes("post")
        /\ UNCHANGED <<guards, faults>>
     \/ /\ Fault
        /\ reserved' \in {reserved, Documented}
        /\ Cancel
        /\ Goes("fail")
  /\ UNCHANGED <<config, ledger, settled, observations, index, failure, report,
                 provider, call, memory, starts>>

\* The premise of the guards: the bytes of the request bound its prompt tokens
\* and max_tokens bounds the answer.
Billable == {u \in Usages : Rmb(u) <= RmbUpper /\ Tokens(u) <= TokensUpper}

\* The request leaves; from here on the provider may bill it.
Post ==
  /\ pc = "post"
  /\ \E u \in Billable :
       /\ due' = u
       /\ billed' = [rmb |-> billed.rmb + Rmb(u), tokens |-> billed.tokens + Tokens(u)]
  /\ sent' = Append(sent, used)
  /\ Goes("answer")
  /\ UNCHANGED <<evidence, call, guards, used, refs, pending, after, ending,
                 faults, starts>>

\* The provider reports what it billed, or more, or nothing a client can use.
Reports == {None} \cup {u \in Usages : Rmb(u) >= Rmb(due) /\ Tokens(u) >= Tokens(due)}

Settlement(usage, rmb, tok) ==
  [usage |-> usage, rmb |-> rmb, tokens |-> tok, allRmb |-> cost', allTokens |-> tokens']

\* What the client does after an attempt: another attempt while there are some
\* left, one repair of an invalid answer, or the end of the call.
Retry == IF retry < MaxAttempts THEN "retry" ELSE "fail"

\* Mutant: a repaired answer is repaired again.
RepairAgain == "repair"

Repair == IF phase = "request" THEN "repair" ELSE "fail"

\* httpx.TransportError: nothing is known of the usage, the reservation stays.
TransportError ==
  /\ pc = "answer"
  /\ UNCHANGED guards
  /\ pending' = Settlement(None, RmbUpper, TokensUpper)
  /\ after' = Retry
  /\ due' = None
  /\ Goes("settle")
  /\ UNCHANGED <<evidence, provider, call, used, refs, ending, faults, starts>>

\* Mutant: the attempt is made again, and its outcome is never told.
SilentRetry == "reserve"

OtherErrorLeadsTo == "fail"

\* Any other exception of the transport or of the decoding of its body leaves
\* _completion at once.
OtherError ==
  /\ pc = "answer"
  /\ due' = None
  /\ Goes(OtherErrorLeadsTo)
  /\ UNCHANGED <<evidence, provider, call, guards, used, refs, pending, after, ending,
                 faults, starts>>

\* A response, by what the client makes of it: a transient status, another error
\* status or envelope or a secret, an invalid document, a valid one.
Response ==
  /\ pc = "answer"
  /\ \E u \in Reports :
       LET rmb == Charge(RmbUpper, u, Rmb(u))
           tok == Charge(TokensUpper, u, Tokens(u)) IN
       /\ cost' = cost - (RmbUpper - rmb)
       /\ tokens' = tokens - (TokensUpper - tok)
       /\ pending' = Settlement(u, rmb, tok)
  /\ after' \in {Retry, "fail", Repair, "done"}
  /\ due' = None
  /\ Goes("settle")
  /\ UNCHANGED <<evidence, provider, call, used, refs, ending, faults, starts>>

\* observe_outcome writes settlement.json; then the client goes on.
WriteSettlement ==
  /\ pc = "settle"
  /\ \/ /\ settled' = [settled EXCEPT ![used] = pending]
        /\ Goes(CASE after \in {"retry", "repair"} -> "reserve" [] OTHER -> after)
        /\ phase' = IF after = "repair" THEN "schema_repair" ELSE phase
        /\ retry' = CASE after = "retry" -> retry + 1
                      [] after = "repair" -> 1
                      [] OTHER -> retry
        /\ UNCHANGED faults
     \/ /\ Fault
        /\ settled' \in {settled, [settled EXCEPT ![used] = pending]}
        /\ Goes("fail")
        /\ UNCHANGED <<phase, retry>>
  /\ pending' = None
  /\ after' = None
  /\ UNCHANGED <<config, ledger, reserved, observations, index, failure, report,
                 provider, sample, doing, guards, used, refs, due, ending, starts>>

-------------------------------------------------------------------------------
(* LiveExecutor.__call__: one sample                                       *)

\* The model's answer was accepted: the next operation of the sample.  The
\* arbiter is asked when the two reviewers disagree.
EndCall ==
  /\ pc = "done"
  /\ \/ /\ doing = "generate"
        /\ Goes("trace")
        /\ UNCHANGED <<doing, phase, retry>>
     \/ /\ doing = "logic"
        /\ Request("adversarial")
     \/ /\ doing = "adversarial"
        /\ Request("arbiter")
     \/ /\ doing \in {"adversarial", "arbiter"}
        /\ Goes("result")
        /\ UNCHANGED <<doing, phase, retry>>
  /\ UNCHANGED <<evidence, provider, sample, guards, memory, faults, starts>>

\* trace.json, the judge, judge.json; a judge that could not execute the program
\* fails the sample.
WriteTraceAndJudge ==
  /\ pc = "trace"
  /\ \/ /\ Request("logic")
        /\ UNCHANGED faults
     \/ /\ Goes("fail")
        /\ UNCHANGED <<doing, phase, retry, faults>>
     \/ /\ Fault
        /\ Goes("fail")
        /\ UNCHANGED <<doing, phase, retry>>
  /\ UNCHANGED <<evidence, provider, sample, guards, memory, starts>>

\* The evidence is fused, result.json is written, the observation is returned.
WriteResult ==
  /\ pc = "result"
  /\ \/ Goes("observation") /\ UNCHANGED faults
     \/ Goes("fail") /\ UNCHANGED faults
     \/ Goes("fail") /\ Fault
  /\ UNCHANGED <<evidence, provider, call, guards, memory, starts>>

Observation == IF doing = "arbiter" THEN "arbitrated" ELSE "agreed"

WriteObservation ==
  /\ pc = "observation"
  /\ \/ /\ observations' = [observations EXCEPT ![sample] = Observation]
        /\ sample' = sample + 1
        /\ Goes("sample")
        /\ UNCHANGED faults
     \/ /\ Fault
        /\ observations' \in {observations, [observations EXCEPT ![sample] = Observation]}
        /\ Goes("artifact_failed")
        /\ UNCHANGED sample
  /\ UNCHANGED <<config, ledger, reserved, settled, index, failure, report,
                 provider, doing, phase, retry, guards, memory, starts>>

\* The sample's own failure.json, then LiveExecutionError.
WriteSampleFailure ==
  /\ pc = "fail"
  /\ \/ /\ ending' = "failed"
        /\ Goes("finalize")
        /\ UNCHANGED faults
     \/ /\ Fault
        /\ Goes("artifact_failed")
        /\ UNCHANGED ending
  /\ UNCHANGED <<evidence, provider, call, guards, used, refs, due, pending, after,
                 starts>>

-------------------------------------------------------------------------------
(* BenchmarkRunner.run and benchmark_cli.main: the end                     *)

\* Mutant: a failed run leaves the attempt it failed at out of its index.
IndexedUnlessFailed == IF ending = "failed" /\ refs > 0 THEN refs - 1 ELSE refs

Indexed == refs

\* ArtifactAttemptLedger.finalize
WriteIndex ==
  /\ pc = "finalize"
  /\ \/ /\ index' = Indexed
        /\ Goes(IF ending = "failed" THEN "failure" ELSE "report")
        /\ UNCHANGED faults
     \/ /\ Fault
        /\ index' \in {index, Indexed}
        /\ Goes("artifact_failed")
  /\ UNCHANGED <<config, ledger, reserved, settled, observations, failure, report,
                 provider, call, guards, memory, starts>>

WriteFailure ==
  /\ pc = "failure"
  /\ \/ /\ failure' = TRUE
        /\ Goes("execution_failed")
        /\ UNCHANGED faults
     \/ /\ Fault
        /\ failure' \in {failure, TRUE}
        /\ Goes("artifact_failed")
  /\ UNCHANGED <<config, ledger, reserved, settled, observations, index, report,
                 provider, call, guards, memory, starts>>

\* Metrics and charts of a complete run, then report.json.
WriteReport ==
  /\ pc = "report"
  /\ \/ /\ report' = ending
        /\ Goes("reported")
        /\ UNCHANGED faults
     \/ /\ Fault
        /\ report' \in {report, ending}
        /\ Goes("artifact_failed")
  /\ UNCHANGED <<config, ledger, reserved, settled, observations, index, failure,
                 provider, call, guards, memory, starts>>

Ended == {"off", "artifact_failed", "execution_failed", "reported", "crashed"}

Crash ==
  /\ pc \notin Ended
  /\ Goes("crashed")
  /\ UNCHANGED <<evidence, provider, call, guards, memory, faults, starts>>

Attempt ==
  \/ Reserve \/ Record \/ WriteReservation \/ Post
  \/ TransportError \/ OtherError \/ Response \/ WriteSettlement

Next ==
  \/ Start \/ WriteConfig \/ TakeSample \/ Attempt
  \/ EndCall \/ WriteTraceAndJudge \/ WriteResult \/ WriteObservation
  \/ WriteSampleFailure \/ WriteIndex \/ WriteFailure \/ WriteReport
  \/ Crash

Spec == Init /\ [][Next]_vars

-------------------------------------------------------------------------------
(* Evidence a successor is derived from (nonformal_continuation)           *)

\* What the first i settlements have charged, by the last of them.
AllRmb(i) == IF i = 0 THEN 0 ELSE settled[Consumed + i].allRmb
AllTokens(i) == IF i = 0 THEN 0 ELSE settled[Consumed + i].allTokens

\* A settlement whose usage was reported in full.
UsageIsReported(s) == s # None /\ s.usage # None /\ s.usage.total # None

\* _settlement_evidence: every attempt of the index is settled, and no other; what
\* each was charged is what its usage costs, and the charges add up.
EvidenceAccepted ==
  /\ failure /\ index \notin {None, 0}
  /\ {n \in AttemptNumbers : settled[n] # None} = (Consumed + 1)..(Consumed + index)
  /\ \A i \in 1..index : UsageIsReported(settled[Consumed + i])
  /\ \A i \in 1..index :
       LET s == settled[Consumed + i] IN
       /\ s.rmb = Rmb(s.usage) /\ s.tokens = Tokens(s.usage)
       /\ s.allRmb = AllRmb(i - 1) + Rmb(s.usage)
       /\ s.allTokens = AllTokens(i - 1) + Tokens(s.usage)

-------------------------------------------------------------------------------
(* Properties                                                              *)

PcPoint == Ended \cup {"config", "sample", "reserve", "record", "reservation", "post",
                       "answer", "settle", "done", "trace", "result", "observation",
                       "fail", "finalize", "failure", "report"}

EventType == [sequence : Nat, sample : 1..Samples, operation : Operation,
              phase : Phase, retry : 1..MaxAttempts]

EvidenceType ==
  /\ config \in BOOLEAN /\ failure \in BOOLEAN
  /\ ledger \in Seq(EventType)
  /\ reserved \subseteq AttemptNumbers
  /\ settled \in [AttemptNumbers -> SettlementType \cup {None}]
  /\ observations \in [1..Samples -> {"agreed", "arbitrated", None}]
  /\ index \in Nat \cup {None}
  /\ report \in {"complete", "partial", None}

ProviderType ==
  /\ sent \in Seq(AttemptNumbers)
  /\ billed \in [rmb : Nat, tokens : Nat]

CallType ==
  /\ sample \in 1..(Samples + 1) /\ doing \in Operation
  /\ phase \in Phase /\ retry \in 1..MaxAttempts

MemoryType ==
  /\ cost \in Nat /\ tokens \in Nat
  /\ used \in Nat /\ refs \in Nat
  /\ due \in Usages \cup {None}
  /\ pending \in SettlementType \cup {None}
  /\ after \in Following \cup {None}
  /\ ending \in {"complete", "partial", "failed", None}

\* Files, bill and memory have the shape the code gives them.
TypeOK ==
  /\ EvidenceType /\ ProviderType /\ CallType /\ MemoryType
  /\ pc \in PcPoint
  /\ faults \in Nat /\ starts \in Nat

\* Whatever fails or stops, and however often the benchmark is started, each
\* request the provider received has a ledger event and a reservation of its own:
\* none is sent unrecorded, none under a number that was sent before.
RecordedBeforeSent ==
  /\ \A i \in 1..Len(sent) :
       sent[i] \in reserved /\ sent[i] <= Consumed + Len(ledger)
  /\ \A i, j \in 1..Len(sent) : i < j => sent[i] < sent[j]

\* "timeouts and non-standard responses cannot silently reopen the budget": the
\* provider's bill stays within the spend cap and the token quota, although the
\* guards only learn what the provider chooses to report and forget everything
\* when the process stops.
NeverOverspends == billed.rmb <= CostLimit /\ billed.tokens <= TokenLimit

\* The ledger index, from which a successor counts the attempts it inherits,
\* covers every request that was sent.
IndexCoversSent ==
  index # None => \A i \in 1..Len(sent) : sent[i] <= Consumed + index

\* Settlements that a chained successor accepts as evidence add up to what the
\* guards had charged when the run failed, and to no less than the bill.
EvidenceIsTrue ==
  EvidenceAccepted =>
    /\ AllRmb(index) >= billed.rmb /\ AllTokens(index) >= billed.tokens
    /\ pc = "execution_failed" => AllRmb(index) = cost /\ AllTokens(index) = tokens

\* A run that is reported, as complete or as partial, has settled every request.
ReportedIsSettled ==
  report # None => \A i \in 1..Len(sent) : settled[sent[i]] # None

\* The ledger of a complete run that started from nothing passes the profile a
\* formal run has to pass: retries, repairs and operations come in the order the
\* frozen plan allows.
Blocks(s) ==
  LET block(o) == [sample |-> s, operation |-> o] IN
  (IF s \in Generated THEN <<block("generate")>> ELSE <<>>)
    \o <<block("logic"), block("adversarial")>>
    \o (IF observations[s] = "arbitrated" THEN <<block("arbiter")>> ELSE <<>>)

Plan ==
  LET plan[s \in 0..Samples] == IF s = 0 THEN <<>> ELSE plan[s - 1] \o Blocks(s)
  IN plan[Samples]

Profile == INSTANCE AttemptProfile WITH MaxRetries <- MaxAttempts, Benchmark <- "this"

CompleteFitsProfile ==
  report = "complete" /\ Consumed = 0 =>
    Profile!Accepts(Plan, [i \in 1..Len(ledger) |->
      [sequence |-> ledger[i].sequence, benchmark |-> "this", sample |-> ledger[i].sample,
       operation |-> ledger[i].operation, phase |-> ledger[i].phase,
       retry |-> ledger[i].retry]])

-------------------------------------------------------------------------------
(* The inductive invariant behind these properties                         *)

\* Nothing is left of a benchmark whose configuration was never published.
Fresh ==
  /\ ledger = <<>> /\ reserved = {} /\ sent = <<>>
  /\ billed = [rmb |-> 0, tokens |-> 0]
  /\ index = None /\ ~failure /\ report = None

Working == PcPoint \ (Ended \cup {"config"})
Final == {"finalize", "failure", "report"}

\* Before an attempt is transmitted its bound is charged and not yet billed.
Held == {"record", "reservation", "post"}
AccountsBalance ==
  /\ NeverOverspends
  /\ pc = "config" => cost = 0 /\ tokens = 0
  /\ pc \in Working => cost <= CostLimit /\ tokens <= TokenLimit
  /\ pc \in Working \ (Held \cup {"answer"}) =>
       billed.rmb <= cost /\ billed.tokens <= tokens
  /\ pc \in Held =>
       billed.rmb + RmbUpper <= cost /\ billed.tokens + TokensUpper <= tokens
  /\ pc = "answer" =>
       /\ due \in Billable
       /\ billed.rmb + RmbUpper <= cost + Rmb(due)
       /\ billed.tokens + TokensUpper <= tokens + Tokens(due)

\* The memory of a run that works agrees with its ledger; only the attempt at
\* which it fails may be published and not counted.
LedgerCounts ==
  /\ Len(ledger) <= AttemptLimit - Consumed
  /\ Len(sent) <= Len(ledger)
  /\ \A i \in 1..Len(sent) : sent[i] \in reserved /\ sent[i] <= Consumed + Len(ledger)
  /\ \A i, j \in 1..Len(sent) : i < j => sent[i] < sent[j]
  /\ pc = "config" => used = Consumed /\ refs = 0
  /\ pc \in Working =>
       /\ refs = used - Consumed
       /\ Consumed <= used /\ used <= Consumed + Len(ledger)
       /\ Len(sent) <= refs
       /\ \A i \in 1..Len(sent) : sent[i] <= used
       /\ pc \notin Final \cup {"fail"} => used = Consumed + Len(ledger)
  /\ pc \in {"reservation", "post"} =>
       /\ Len(sent) < refs
       /\ \A i \in 1..Len(sent) : sent[i] < used
  /\ pc = "post" => used \in reserved
  /\ pc \in {"reservation", "post", "answer", "settle"} => used \in AttemptNumbers

\* The end is written once everything was sent, and reports what was settled.
EndIsLast ==
  /\ ~config => Fresh
  /\ pc \in Working => config
  /\ pc \in Working \ {"failure", "report"} => index = None
  /\ pc \in Working => report = None
  /\ IndexCoversSent /\ ReportedIsSettled
  /\ pc \in {"failure", "report"} => index # None
  /\ pc = "finalize" => ending \in {"complete", "partial", "failed"}
  /\ pc = "report" => ending \in {"complete", "partial"}
  /\ pc \in {"answer", "settle"} =>
       \A i \in 1..Len(sent) : settled[sent[i]] # None \/ sent[i] = used
  /\ pc = "settle" => pending # None /\ after # None
  /\ pc \in Working \ {"answer", "settle", "fail", "failure"}
        /\ (pc \in Final => ending # "failed") =>
       \A i \in 1..Len(sent) : settled[sent[i]] # None

\* A sample is at work, and an attempt is made again while one is left.
CallInRange ==
  /\ pc \in Working \ ({"sample"} \cup Final) => sample <= Samples
  /\ pc = "settle" /\ after = "retry" => retry < MaxAttempts

Invariant == TypeOK /\ AccountsBalance /\ LedgerCounts /\ EndIsLast /\ CallInRange

\* What is charged since the attempt of number n was settled, if it was.
ChargedSince(n, rmb, tok) ==
  n \in AttemptNumbers /\ settled[n] # None =>
    settled[n].allRmb + rmb = cost /\ settled[n].allTokens + tok = tokens

\* The last settlement says what the guards have charged; an attempt at work has none
\* yet, and its bound is all that is charged beyond.  What the settlement of the last
\* indexed attempt says covers the bill for good.
InFlight == {"reservation", "post", "answer", "settle"}
SettlementsAgree ==
  /\ ~config => \A n \in AttemptNumbers : settled[n] = None
  /\ pc \in Working => \A n \in AttemptNumbers : settled[n] # None => n <= used
  /\ pc \in InFlight => settled[used] = None
  /\ pc = "settle" => pending.allRmb = cost /\ pending.allTokens = tokens
  /\ pc = "record" => ChargedSince(used, RmbUpper, TokensUpper)
  /\ pc \in (Working \ ({"record"} \cup InFlight)) \cup {"execution_failed"} =>
       ChargedSince(used, 0, 0)
  /\ pc \in {"failure", "report", "execution_failed"} => index = used - Consumed
  /\ index # None /\ Consumed + index \in AttemptNumbers /\ settled[Consumed + index] # None =>
       AllRmb(index) >= billed.rmb /\ AllTokens(index) >= billed.tokens

\* The operation a sample's attempts begin with, and the one they end with once the
\* sample is observed.
FirstOf(s) == IF s \in Generated THEN "generate" ELSE "logic"
LastOf(s) == IF observations[s] = "arbitrated" THEN "arbiter" ELSE "adversarial"

\* Event e may come directly after event d: it is another attempt at its operation, or
\* opens the next one of the sample, or of the next sample.
ComesAfter(d, e) ==
  \/ /\ e.sample = d.sample /\ e.operation = d.operation
     /\ Profile!Follows(d, e)
  \/ /\ e.sample = d.sample /\ Profile!Opens(e)
     /\ <<d.operation, e.operation>> \in {<<"generate", "logic">>, <<"logic", "adversarial">>,
                                         <<"adversarial", "arbiter">>}
  \/ /\ e.sample = d.sample + 1 /\ Profile!Opens(e)
     /\ d.operation = LastOf(d.sample) /\ e.operation = FirstOf(e.sample)

Begins(e) == e.sample = 1 /\ e.operation = FirstOf(1) /\ Profile!Opens(e)
Latest == ledger[Len(ledger)]
MayBeNext(e) == IF ledger = <<>> THEN Begins(e) ELSE ComesAfter(Latest, e)
EndsAt(s, o) == ledger # <<>> /\ Latest.sample = s /\ Latest.operation = o
AllThrough(s) == IF s = 0 THEN ledger = <<>> ELSE EndsAt(s, LastOf(s))

Completing == pc \in {"finalize", "report"} /\ ending = "complete"

\* The events come in the order of the plan, as far as it is known: whether a sample has
\* an arbiter is known once it is observed.
InOrder ==
  /\ ledger # <<>> => Begins(ledger[1])
  /\ \A i \in 2..Len(ledger) : ComesAfter(ledger[i - 1], ledger[i])
  /\ \A i \in 1..Len(ledger) : ledger[i].operation = "generate" => ledger[i].sample \in Generated

\* No attempt is of a later sample; the arbiter is asked in its turn, or was, and the
\* observation of its sample says so.
Seen ==
  \A i \in 1..Len(ledger) :
    /\ ledger[i].sample <= sample
    /\ ledger[i].operation = "arbiter" =>
         IF ledger[i].sample = sample THEN doing = "arbiter"
                                      ELSE observations[ledger[i].sample] = "arbitrated"

Passed == \A i \in 1..Len(ledger) : ledger[i].sample < sample

\* Where the call is between its attempts, and when a sample has none yet.
BetweenSamples ==
  pc = "sample" \/ Completing \/ (pc = "trace" /\ sample \notin Generated)

Placed ==
  /\ pc = "config" => sample = 1
  /\ Completing => sample = Samples + 1
  /\ BetweenSamples => AllThrough(sample - 1) /\ Passed
  /\ pc = "trace" /\ sample \in Generated => doing = "generate" /\ EndsAt(sample, doing)
  /\ pc \in {"reserve", "record"} => MayBeNext(Event)
  /\ pc \in InFlight =>
       EndsAt(sample, doing) /\ Latest.phase = phase /\ Latest.retry = retry
  /\ pc = "settle" /\ after = "repair" => phase = "request"
  /\ pc = "done" => EndsAt(sample, doing)
  /\ pc \in {"result", "observation"} =>
       doing \in {"adversarial", "arbiter"} /\ EndsAt(sample, doing)

Numbered == \A i \in 1..Len(ledger) : ledger[i].sequence = Consumed + i

\* What a complete run leaves: every sample is through, and every arbiter observed.
Finished ==
  /\ AllThrough(Samples)
  /\ \A i \in 1..Len(ledger) :
       ledger[i].operation = "arbiter" => observations[ledger[i].sample] = "arbitrated"

OrderSound ==
  /\ Numbered
  /\ Placed
  /\ pc \in Working => InOrder /\ Seen
  /\ report = "complete" => InOrder /\ Finished

-------------------------------------------------------------------------------
\* The benchmark implements the spending it promises.
Spending ==
  INSTANCE RemoteSpending WITH
    Attempts <- AttemptLimit - Consumed,
    recorded <- Len(ledger), sent <- Len(sent),
    cost <- billed.rmb, tokens <- billed.tokens

SpendingSpec == Spending!Spec

\* src/hy3_algotrace/hy3_client.py:184: settlement metadata is "emitted exactly
\* once per HTTP attempt".
OutcomePerAttempt ==
  pc \in {"execution_failed", "reported"} =>
    \A i \in 1..Len(sent) : settled[sent[i]] # None

-------------------------------------------------------------------------------
(* The files of the benchmark, as the store has them                       *)

\* The events, reservations and settlements have the number of their attempt, which for
\* an event is the one it carries (Numbered).
LiveFile ==
  ({"config", "index", "failure", "report"} \X {0})
    \cup ({"event", "reservation", "settlement"} \X AttemptNumbers)
    \cup ({"observation"} \X (1..Samples))

LiveContent ==
  Nat \cup EventType \cup SettlementType
    \cup {"written", "agreed", "arbitrated", "complete", "partial"}

ContentOf(f) ==
  LET n == f[2] IN
  CASE f[1] = "config"      -> IF config THEN "written" ELSE None
    [] f[1] = "failure"     -> IF failure THEN "written" ELSE None
    [] f[1] = "index"       -> index
    [] f[1] = "report"      -> report
    [] f[1] = "event"       -> IF n - Consumed <= Len(ledger) THEN ledger[n - Consumed] ELSE None
    [] f[1] = "reservation" -> IF n \in reserved THEN "written" ELSE None
    [] f[1] = "settlement"  -> settled[n]
    [] f[1] = "observation" -> observations[n]

Store ==
  INSTANCE CreateOnlyStore WITH
    Paths    <- LiveFile,
    Contents <- LiveContent,
    files    <- [f \in LiveFile |-> ContentOf(f)],
    safe     <- {}

\* No write of a benchmark meets a file that exists, but for that of config.json, which
\* then ends the run: whatever failed or stopped before, a step creates one file that
\* was not there, or leaves all as they are.
FilesAreCreated ==
  [][\E f \in LiveFile, c \in LiveContent : Store!Create(f, c)]_[f \in LiveFile |-> ContentOf(f)]

\* The invariant behind it: what a run at work is about to write is not there yet.
FilesAwaited ==
  /\ ~config => \A s \in 1..Samples : observations[s] = None
  /\ pc \in Working =>
       /\ ~failure
       /\ \A n \in reserved : n <= used
       /\ \A s \in 1..Samples : sample <= s => observations[s] = None
  /\ pc = "reservation" => used \notin reserved

===============================================================================
