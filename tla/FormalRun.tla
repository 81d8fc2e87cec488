------------------------------- MODULE FormalRun -------------------------------
(***************************************************************************)
(* A formal run, from the frozen intent A to the qualification report.      *)
(* FormalNaturalGenerator verifies A, claims the run with a create-only     *)
(* marker and generates the natural samples; every attempt re-verifies A    *)
(* and is a ledger file before it is sent.  The driver of the run, which is *)
(* not in the repository, reviews all samples through the budget of the     *)
(* generator, assembles the corpus from the saved traces, freezes it as B   *)
(* and lets BenchmarkRunner write configuration, index and candidate.       *)
(* qualify_formal_run replays the whole chain.                              *)
(*                                                                         *)
(* There is one intent: another one has another benchmark id, and so        *)
(* directories of its own.  The two or three reviews of a sample are one    *)
(* operation.  A trace is named by the ledger number of the attempt that    *)
(* answered with it.  A content hash is the content.                        *)
(***************************************************************************)
EXTENDS AttemptProfile, FiniteSets

CONSTANTS Controlled,  \* gold, mutant and paradox samples, in canonical order
          Natural,     \* natural samples, in canonical order
          Sessions,    \* processes that construct the generator
          Limit,       \* remote_attempt_budget, 500 in the code
          MaxEdits,    \* bound: changes of the source tree
          MaxFaults,   \* bound: writes that fail
          Nobody

Planned == Controlled \o Natural
NaturalIds == {Natural[i] : i \in DOMAIN Natural}
SampleIds == {Planned[i] : i \in DOMAIN Planned}

ASSUME FormalRunAssumption ==
  /\ Controlled \in Seq(SampleIds) /\ Natural \in Seq(SampleIds) /\ Natural # << >>
  /\ \A i, j \in DOMAIN Planned : Planned[i] = Planned[j] => i = j
  /\ Limit \in Nat /\ MaxRetries \in Nat \ {0} /\ MaxEdits \in Nat /\ MaxFaults \in Nat
  /\ Nobody \notin Sessions

VARIABLES tree,      \* "A" while the code is the one frozen in A, else "edited"
          edits, faults,
          marker,    \* pre-run-intent.json: the session that made it
          ledger,    \* the event files
          saved,     \* natural/<id>/trace.json; 0 is none
          failed,    \* samples with natural/<id>/failure.json
          session,   \* what a process has in memory
          config,    \* config.json: the corpus it names
          index,     \* ledger-index.json
          candidate, \* formal-candidate.json exists
          frozen,    \* materialized freeze B
          qualified, \* qualification report exists
          sent,      \* history: requests on the wire
          accepted,  \* history: answers accepted as a trace, as <<sample, trace>>
          early,     \* history: length of the ledger when config.json was written
          unnoticed  \* history: generation attempts since the code was edited

files == <<marker, ledger, saved, failed, config, index, candidate, frozen, qualified>>
history == <<sent, accepted, early, unnoticed>>
formalVars == <<tree, edits, faults, session, files, history>>

\* used and events of the budget are one, and so are those of the ledger object.
Outside == [pc |-> "outside", started |-> {}, events |-> << >>, sample |-> Nobody,
            operation |-> Nobody, phase |-> Nobody, retry |-> 0, reviewed |-> {},
            observed |-> 0, running |-> FALSE]
Gone == [Outside EXCEPT !.pc = "gone"]

NoFile == << >>

FormalInit ==
  /\ tree = "A" /\ edits = 0 /\ faults = 0
  /\ marker = Nobody /\ ledger = << >>
  /\ saved = [n \in NaturalIds |-> 0] /\ failed = {}
  /\ session = [s \in Sessions |-> Outside]
  /\ config = NoFile /\ index = NoFile /\ candidate = FALSE /\ frozen = NoFile /\ qualified = FALSE
  /\ sent = << >> /\ accepted = {} /\ early = 0 /\ unnoticed = 0

Goes(s, pc) == session' = [session EXCEPT ![s] = IF pc = "gone" THEN Gone ELSE [@ EXCEPT !.pc = pc]]

\* write_json may fail before its file is published or, at the directory sync, after.
Write == {"done", "before", "after"}
Performs(w) ==
  \/ w = "done" /\ UNCHANGED faults
  \/ w # "done" /\ faults < MaxFaults /\ faults' = faults + 1

Generates(s) == session[s].operation = "generation"

-------------------------------------------------------------------------------
(* FormalNaturalGenerator                                                  *)

\* verify_pre_run_intent: an edited tree raises.
Verify(s) ==
  /\ session[s].pc = "outside" /\ tree = "A"
  /\ Goes(s, "verified")
  /\ UNCHANGED <<tree, edits, faults, files, history>>

\* The inputs were linted; the code may have changed since it was verified.
Mark(s) ==
  /\ session[s].pc = "verified"
  /\ \E w \in Write :
       /\ Performs(w)
       /\ marker' = IF marker = Nobody /\ w # "before" THEN s ELSE marker
       /\ Goes(s, IF marker = Nobody /\ w = "done" THEN "ready" ELSE "gone")
  /\ UNCHANGED <<tree, edits, ledger, saved, failed, config, index, candidate, frozen, qualified,
                 history>>

\* A running BenchmarkRunner asks for the sample it is at.
MayAsk(s, x) ==
  session[s].running =>
    session[s].observed < Len(Planned) /\ Planned[session[s].observed + 1] = x

\* A sample is generated once, whatever becomes of it.
Generate(s, n) ==
  /\ session[s].pc = "ready" /\ n \notin session[s].started
  /\ MayAsk(s, n)
  /\ session' = [session EXCEPT ![s].pc = "attempt", ![s].started = @ \cup {n},
                                ![s].sample = n, ![s].operation = "generation",
                                ![s].phase = "request", ![s].retry = 1]
  /\ UNCHANGED <<tree, edits, faults, files, history>>

\* The driver may review a sample again.
AuditSample(s, x) ==
  /\ session[s].pc = "ready"
  /\ x \in NaturalIds => saved[x] # 0
  /\ MayAsk(s, x)
  /\ session' = [session EXCEPT ![s].pc = "reserve", ![s].sample = x,
                                ![s].operation = "review", ![s].phase = "request", ![s].retry = 1]
  /\ UNCHANGED <<tree, edits, faults, files, history>>

\* Mutant: only the first attempt of an operation verifies A.
NoticesAtFirst(s) == tree # "A" /\ session[s].phase = "request" /\ session[s].retry = 1

\* assert_formal_runtime
Notices(s) == tree # "A"

\* observe, its first half: before any generation attempt A is verified again.
Check(s) ==
  /\ session[s].pc = "attempt"
  /\ Goes(s, IF Notices(s) THEN "failing" ELSE "reserve")
  /\ UNCHANGED <<tree, edits, faults, files, history>>

\* An exception of a generation is recorded; one of a review ends the runner.
Raises(s) ==
  Goes(s, IF Generates(s) THEN "failing" ELSE IF session[s].running THEN "gone" ELSE "ready")

\* BudgetExceededError, which the runner knows: it writes its index.
Exhausted(s) ==
  IF ~session[s].running THEN Raises(s)
  ELSE session' = [session EXCEPT ![s].phase = "exhausted",
                                  ![s].pc = IF Generates(s) THEN "failing" ELSE "partial"]

EventOf(s) ==
  [sequence |-> Len(session[s].events) + 1, benchmark |-> Benchmark, sample |-> session[s].sample,
   operation |-> session[s].operation, phase |-> session[s].phase, retry |-> session[s].retry]

\* Mutant: a retry uses the reservation of the first attempt.
ReserveFirst(s) == session[s].retry = 1

\* Which attempts the observer reserves: all.
Reserves(s) == TRUE

\* RemoteAttemptBudget.reserve with ArtifactAttemptLedger.record: the event is a new file,
\* and memory follows.
Reserve(s) ==
  LET e == EventOf(s)
      free == Len(ledger) = Len(session[s].events) IN
  /\ session[s].pc = "reserve"
  /\ IF ~Reserves(s)
     THEN Goes(s, "send") /\ UNCHANGED <<faults, ledger, unnoticed>>
     ELSE IF Len(session[s].events) >= Limit
     THEN Exhausted(s) /\ UNCHANGED <<faults, ledger, unnoticed>>
     ELSE \E w \in Write :
            /\ Performs(w)
            /\ ledger' = IF free /\ w # "before" THEN Append(ledger, e) ELSE ledger
            /\ unnoticed' = IF Generates(s) /\ tree # "A" THEN unnoticed + 1 ELSE unnoticed
            /\ IF free /\ w = "done"
               THEN session' = [session EXCEPT ![s].pc = "send", ![s].events = Append(@, e)]
               ELSE Raises(s)
  /\ UNCHANGED <<tree, edits, marker, saved, failed, config, index, candidate, frozen, qualified,
                 sent, accepted, early>>

Send(s) ==
  /\ session[s].pc = "send"
  /\ Goes(s, "sent")
  /\ sent' = Append(sent, <<session[s].sample, session[s].operation,
                            session[s].phase, session[s].retry>>)
  /\ UNCHANGED <<tree, edits, faults, files, accepted, early, unnoticed>>

\* Hy3Client: a transient failure is tried again, an answer that is not valid is
\* repaired once.
Again(s, phase, retry) ==
  session' = [session EXCEPT ![s].pc = IF Generates(s) THEN "attempt" ELSE "reserve",
                             ![s].phase = phase, ![s].retry = retry]

Transient(s) ==
  /\ session[s].pc = "sent"
  /\ IF session[s].retry < MaxRetries THEN Again(s, session[s].phase, session[s].retry + 1)
                                      ELSE Raises(s)
  /\ UNCHANGED <<tree, edits, faults, files, history>>

NeedsRepair(s) ==
  /\ session[s].pc = "sent"
  /\ IF session[s].phase = "request" THEN Again(s, "schema_repair", 1) ELSE Raises(s)
  /\ UNCHANGED <<tree, edits, faults, files, history>>

Valid(s) ==
  /\ session[s].pc = "sent"
  /\ IF Generates(s)
     THEN /\ accepted' = accepted \cup {<<session[s].sample, Len(session[s].events)>>}
          /\ Goes(s, "save")
     ELSE /\ session' = [session EXCEPT ![s].pc = "ready",
                                        ![s].reviewed = @ \cup {session[s].sample}]
          /\ UNCHANGED accepted
  /\ UNCHANGED <<tree, edits, faults, files, sent, early, unnoticed>>

\* trace.json; an error, here or before, goes on to failure.json.
Save(s) ==
  LET n == session[s].sample IN
  /\ session[s].pc = "save"
  /\ \E w \in Write :
       /\ Performs(w)
       /\ saved' = IF saved[n] = 0 /\ w # "before"
                   THEN [saved EXCEPT ![n] = Len(session[s].events)] ELSE saved
       /\ Goes(s, IF saved[n] = 0 /\ w = "done" THEN "ready" ELSE "failing")
  /\ UNCHANGED <<tree, edits, marker, ledger, failed, config, index, candidate, frozen, qualified,
                 history>>

\* Mutant: a sample that failed may be generated again.
StartedUnlessFailed(s) == session[s].started \ {session[s].sample}

\* The samples that were started once one of them failed.
Started(s) == session[s].started

Fail(s) ==
  /\ session[s].pc = "failing"
  /\ \E w \in Write :
       /\ Performs(w)
       /\ failed' = IF w # "before" THEN failed \cup {session[s].sample} ELSE failed
       /\ session' = [session EXCEPT ![s] =
                        IF ~session[s].running
                        THEN [@ EXCEPT !.pc = "ready", !.started = Started(s)]
                        ELSE IF w = "done" /\ session[s].phase = "exhausted"
                        THEN [@ EXCEPT !.pc = "partial"] ELSE Gone]
  /\ UNCHANGED <<tree, edits, marker, ledger, saved, config, index, candidate, frozen, qualified,
                 history>>

\* The process dies; nothing restores a budget, so its run is not resumed.
Crash(s) ==
  /\ session[s].pc \notin {"outside", "gone"}
  /\ Goes(s, "gone")
  /\ UNCHANGED <<tree, edits, faults, files, history>>

-------------------------------------------------------------------------------
(* Corpus and freeze B                                                     *)

GenerationOf(events, n) ==
  {e \in {events[i] : i \in DOMAIN events} : e.sample = n /\ e.operation = "generation"}

\* The corpus the driver can assemble: the saved traces and, in the materialization
\* manifest, the generation events of each sample.
CorpusWith(events) ==
  [n \in NaturalIds |-> [trace |-> saved[n], events |-> GenerationOf(events, n)]]
Complete == \A n \in NaturalIds : saved[n] # 0

\* freeze_materialized_corpus
FreezeOf(events) == [corpus |-> CorpusWith(events), config |-> CorpusWith(events)]
Freeze ==
  /\ frozen = NoFile /\ Complete
  /\ frozen' = FreezeOf(ledger)
  /\ UNCHANGED <<tree, edits, faults, marker, ledger, saved, failed, session, config, index,
                 candidate, qualified, history>>

-------------------------------------------------------------------------------
(* BenchmarkRunner, with the budget and ledger of the generator            *)

\* config.json names the corpus there is.
Begin(s) ==
  /\ session[s].pc = "ready" /\ config = NoFile
  /\ config' = CorpusWith(ledger) /\ early' = Len(ledger)
  /\ session' = [session EXCEPT ![s].running = TRUE]
  /\ UNCHANGED <<tree, edits, faults, marker, ledger, saved, failed, index, candidate, frozen,
                 qualified, sent, accepted, unnoticed>>

\* The observation of the next sample: from reviews of now or of before.
Observes(s) ==
  /\ session[s].pc = "ready" /\ session[s].running /\ session[s].observed < Len(Planned)
  /\ Planned[session[s].observed + 1] \in session[s].reviewed
  /\ session' = [session EXCEPT ![s].observed = @ + 1]
  /\ UNCHANGED <<tree, edits, faults, files, history>>

\* What formal_attempt_profile_is_valid asks of the ledger.
Plan ==
  LET Block(x, operation) == [sample |-> x, operation |-> operation] IN
  [i \in DOMAIN Controlled |-> Block(Controlled[i], "review")] \o
  [k \in 1..(2 * Len(Natural)) |->
     Block(Natural[(k + 1) \div 2], IF k % 2 = 1 THEN "generation" ELSE "review")]

\* Every sample was observed: index, candidate and report.  The driver keeps its budget.
Finish(s) ==
  /\ session[s].pc = "ready" /\ session[s].running /\ session[s].observed = Len(Planned)
  /\ index' = session[s].events
  /\ candidate' = Accepts(Plan, session[s].events)
  /\ session' = [session EXCEPT ![s].running = FALSE]
  /\ UNCHANGED <<tree, edits, faults, marker, ledger, saved, failed, config, frozen, qualified,
                 history>>

\* The budget is exhausted: index and report, and no candidate.
FinishPartially(s) ==
  /\ session[s].pc = "partial"
  /\ index' = session[s].events
  /\ session' = [session EXCEPT ![s].pc = "ready", ![s].running = FALSE]
  /\ UNCHANGED <<tree, edits, faults, marker, ledger, saved, failed, config, candidate, frozen,
                 qualified, history>>

-------------------------------------------------------------------------------
(* qualify_formal_run, the part about the run                              *)

\* Mutant: the corpus the configuration names is not compared.
SameFreezeOnly == frozen = FreezeOf(index)

\* verify_materialized_corpus, and the corpus hash of the configuration
SameCorpus == frozen = FreezeOf(index) /\ config = CorpusWith(index)

Qualifies ==
  /\ candidate /\ frozen # NoFile /\ tree = "A"
  /\ index = ledger
  /\ Accepts(Plan, index)
  /\ Complete /\ SameCorpus

Qualify ==
  /\ ~qualified /\ Qualifies
  /\ qualified' = TRUE
  /\ UNCHANGED <<tree, edits, faults, marker, ledger, saved, failed, session, config, index,
                 candidate, frozen, history>>

\* The source tree is edited, or put back.
Edit ==
  /\ edits < MaxEdits /\ edits' = edits + 1
  /\ tree' = IF tree = "A" THEN "edited" ELSE "A"
  /\ unnoticed' = 0
  /\ UNCHANGED <<faults, session, files, sent, accepted, early>>

-------------------------------------------------------------------------------
FormalStep(s) ==
  \/ Verify(s) \/ Mark(s)
  \/ \E n \in NaturalIds : Generate(s, n)
  \/ \E x \in SampleIds : AuditSample(s, x)
  \/ Check(s) \/ Reserve(s) \/ Send(s)
  \/ Transient(s) \/ NeedsRepair(s) \/ Valid(s)
  \/ Save(s) \/ Fail(s) \/ Crash(s)
  \/ Begin(s) \/ Observes(s) \/ Finish(s) \/ FinishPartially(s)

FormalNext == (\E s \in Sessions : FormalStep(s)) \/ Freeze \/ Qualify \/ Edit

FormalSpec == FormalInit /\ [][FormalNext]_formalVars

-------------------------------------------------------------------------------
(* Properties                                                              *)

\* Nobody chooses among answers: over all processes, crashes and failures, the remote
\* answers at most once for a natural sample, and what is saved is that answer.
OneDraw ==
  \A n \in NaturalIds :
    /\ \A a, b \in accepted : a[1] = n /\ b[1] = n => a = b
    /\ saved[n] # 0 => <<n, saved[n]>> \in accepted

\* An edit of the source is noticed after one generation attempt at most, the one that
\* was between its verification and its reservation.
EditIsNoticed == unnoticed <= 1

\* A run qualifies with all that was ever sent for it: what failed, was retried, or was
\* sent by a process that died is in the ledger the report counts, or there is no report.
QualifiedIsAllThatWasSent ==
  [][qualified' # qualified =>
       sent' = [i \in DOMAIN index' |-> <<index'[i].sample, index'[i].operation,
                                          index'[i].phase, index'[i].retry>>]]_formalVars

\* The configuration names the corpus, the corpus needs the last trace, and the profile
\* wants each generation directly before its reviews.  So only the reviews of the last
\* natural sample can be sent while BenchmarkRunner runs.
ReviewsPrecedeConfig ==
  qualified =>
    \A i \in (early + 1)..Len(index) :
      /\ index[i].operation = "review"
      /\ index[i].sample = Natural[Len(Natural)]

-------------------------------------------------------------------------------
(* The inductive invariant behind the first three                          *)

Named == SampleIds \cup NaturalIds \cup {Nobody}
OperationName == {"generation", "review", Nobody}
PhaseName == {"request", "schema_repair", "exhausted", Nobody}

FormalEvent == [sequence : Nat, benchmark : {Benchmark}, sample : Named,
                operation : OperationName, phase : PhaseName, retry : Nat]

Memory == [pc : {"outside", "verified", "ready", "attempt", "reserve", "send", "sent", "save",
                 "failing", "partial", "gone"},
           started : SUBSET NaturalIds, events : Seq(FormalEvent), sample : Named,
           operation : OperationName, phase : PhaseName, retry : Nat, reviewed : SUBSET Named,
           observed : Nat, running : BOOLEAN]

FormalTypeOK ==
  /\ tree \in {"A", "edited"} /\ edits \in Nat /\ faults \in Nat
  /\ marker \in Sessions \cup {Nobody}
  /\ ledger \in Seq(FormalEvent) /\ index \in Seq(FormalEvent)
  /\ saved \in [NaturalIds -> Nat] /\ failed \subseteq Named
  /\ session \in [Sessions -> Memory]
  /\ candidate \in BOOLEAN /\ qualified \in BOOLEAN
  /\ sent \in Seq(Named \X OperationName \X PhaseName \X Nat)
  /\ accepted \subseteq Named \X Nat
  /\ early \in Nat /\ unnoticed \in Nat

\* A process is at work only behind its own marker; without a marker nothing happened.
Active(s) == session[s].pc \notin {"outside", "verified", "gone"}

MarkerSound ==
  /\ \A s \in Sessions :
       /\ Active(s) => marker = s
       /\ session[s].pc \in {"outside", "verified"} =>
            session[s].started = {} /\ session[s].events = << >>
  /\ marker = Nobody =>
       ledger = << >> /\ sent = << >> /\ accepted = {} /\ \A n \in NaturalIds : saved[n] = 0

\* Up to an answer, the sample that is generated has none.
Generating(s) == session[s].pc \in {"attempt", "reserve", "send", "sent"} /\ Generates(s)

DrawSound ==
  \A s \in Sessions :
    /\ Active(s) => \A a \in accepted : a[1] \in session[s].started
    /\ Generating(s) =>
         /\ session[s].sample \in session[s].started
         /\ \A a \in accepted : a[1] # session[s].sample
    /\ session[s].pc = "save" =>
         /\ session[s].sample \in NaturalIds
         /\ <<session[s].sample, Len(session[s].events)>> \in accepted

\* A generation attempt that is about to be reserved has seen the code of A.
EditSound ==
  /\ tree = "A" => unnoticed = 0
  /\ \A s \in Sessions : session[s].pc = "reserve" /\ Generates(s) => unnoticed = 0

Wire(e) == <<e.sample, e.operation, e.phase, e.retry>>

\* What was sent is the beginning of the ledger; a process at work has sent all the
\* events it counts, but for one that it is about to send.
SentSound ==
  /\ Len(sent) <= Len(ledger) /\ \A i \in 1..Len(sent) : sent[i] = Wire(ledger[i])
  /\ Len(index) <= Len(sent)
  /\ \A s \in Sessions : Active(s) =>
       LET events == session[s].events IN
       /\ Len(events) <= Len(ledger) /\ \A i \in 1..Len(events) : events[i] = ledger[i]
       /\ IF session[s].pc # "send" THEN Len(sent) = Len(events)
          ELSE /\ Len(events) = Len(sent) + 1
               /\ Wire(events[Len(events)]) = <<session[s].sample, session[s].operation,
                                                session[s].phase, session[s].retry>>

FormalInvariant ==
  /\ FormalTypeOK /\ MarkerSound /\ DrawSound /\ EditSound /\ SentSound
  /\ OneDraw /\ EditIsNoticed

\* The index, and what the configuration says of the generations, are beginnings of the
\* ledger; neither changes once there is a candidate, for no process runs any more.
ConfigSound ==
  /\ \A s \in Sessions :
       /\ session[s].running => Active(s) /\ config # NoFile
       /\ session[s].pc = "partial" => session[s].running
  /\ \A i \in 1..Len(index) : index[i] = ledger[i]
  /\ config # NoFile =>
       /\ early <= Len(ledger)
       /\ \A n \in NaturalIds :
            config[n].events = {e \in {ledger[i] : i \in 1..early} :
                                  e.sample = n /\ e.operation = "generation"}
  /\ candidate \/ qualified => config # NoFile /\ \A s \in Sessions : ~session[s].running
  /\ qualified =>
       /\ early <= Len(index) /\ Accepts(Plan, index)
       /\ \A n \in NaturalIds : config[n].events = GenerationOf(index, n)

================================================================================
