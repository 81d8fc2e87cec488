---------------------------- MODULE FormalRunProofs ----------------------------
(***************************************************************************)
(* Proofs about FormalRun, for any samples, any number of processes, any    *)
(* budget, and any number of edits, retries and failing writes.             *)
(***************************************************************************)
EXTENDS FormalRun, AttemptProfileProofs

-------------------------------------------------------------------------------
(* Type correctness                                                        *)

LEMMA AppendStays ==
  ASSUME NEW S, NEW seq \in Seq(S), NEW e \in S
  PROVE  /\ Append(seq, e) \in Seq(S) /\ Len(Append(seq, e)) = Len(seq) + 1
         /\ \A i \in 1..Len(seq) : Append(seq, e)[i] = seq[i]
         /\ Append(seq, e)[Len(seq) + 1] = e
OBVIOUS

LEMMA NobodyIsNoSession == Nobody \notin Sessions
BY FormalRunAssumption

LEMMA LimitsAreNumbers == Limit \in Nat /\ MaxRetries \in Nat
BY FormalRunAssumption

LEMMA OutsideIsMemory == Outside \in Memory /\ Gone \in Memory /\ Gone.pc = "gone"
<1>1. << >> \in Seq(FormalEvent)
  OBVIOUS
<1>2. Outside \in Memory
  BY <1>1 DEF Outside, Memory, Named, OperationName, PhaseName
<1>3. Gone \in Memory /\ Gone.pc = "gone"
  BY <1>2 DEF Gone, Memory
<1> QED
  BY <1>2, <1>3

LEMMA InitType == FormalInit => FormalTypeOK
<1> SUFFICES ASSUME FormalInit PROVE FormalTypeOK
  OBVIOUS
<1>1. session \in [Sessions -> Memory]
  BY OutsideIsMemory DEF FormalInit
<1>2. << >> \in Seq(FormalEvent) /\ << >> \in Seq(Named \X OperationName \X PhaseName \X Nat)
  OBVIOUS
<1> QED
  BY <1>1, <1>2 DEF FormalInit, FormalTypeOK, NoFile

LEMMA EventHasType ==
  ASSUME FormalTypeOK, NEW s \in Sessions
  PROVE  EventOf(s) \in FormalEvent
<1>1. session[s] \in Memory
  BY DEF FormalTypeOK
<1>2. Len(session[s].events) \in Nat
  BY <1>1 DEF Memory
<1> QED
  BY <1>1, <1>2 DEF EventOf, FormalEvent, Memory

LEMMA GoesHasType ==
  ASSUME FormalTypeOK, NEW s \in Sessions, NEW pc,
         pc \in {"outside", "verified", "ready", "attempt", "reserve", "send", "sent", "save",
                 "failing", "partial", "gone"},
         Goes(s, pc)
  PROVE  session' \in [Sessions -> Memory]
<1>1. session[s] \in Memory
  BY DEF FormalTypeOK
<1>2. [session[s] EXCEPT !.pc = pc] \in Memory
  BY <1>1 DEF Memory
<1> QED
  BY <1>2, OutsideIsMemory DEF Goes, FormalTypeOK

LEMMA RaisesHasType ==
  ASSUME FormalTypeOK, NEW s \in Sessions, Raises(s)
  PROVE  session' \in [Sessions -> Memory]
BY GoesHasType DEF Raises

LEMMA ExhaustedHasType ==
  ASSUME FormalTypeOK, NEW s \in Sessions, Exhausted(s)
  PROVE  session' \in [Sessions -> Memory]
<1>1. CASE ~session[s].running
  BY <1>1, RaisesHasType DEF Exhausted
<1>2. CASE session[s].running
  <2>1. session[s] \in Memory
    BY DEF FormalTypeOK
  <2>2. [session[s] EXCEPT !.phase = "exhausted",
                           !.pc = IF Generates(s) THEN "failing" ELSE "partial"] \in Memory
    BY <2>1 DEF Memory, PhaseName
  <2> QED
    BY <1>2, <2>2 DEF Exhausted, FormalTypeOK
<1> QED
  BY <1>1, <1>2

LEMMA AgainHasType ==
  ASSUME FormalTypeOK, NEW s \in Sessions, NEW phase \in PhaseName, NEW retry \in Nat,
         Again(s, phase, retry)
  PROVE  session' \in [Sessions -> Memory]
<1>1. session[s] \in Memory
  BY DEF FormalTypeOK
<1>2. [session[s] EXCEPT !.pc = IF Generates(s) THEN "attempt" ELSE "reserve",
                         !.phase = phase, !.retry = retry] \in Memory
  BY <1>1 DEF Memory
<1> QED
  BY <1>2 DEF Again, FormalTypeOK

\* The steps of a process, one by one.
LEMMA StepHasType ==
  ASSUME FormalTypeOK, NEW s \in Sessions, FormalStep(s)
  PROVE  FormalTypeOK'
<1>0. session[s] \in Memory
  BY DEF FormalTypeOK
<1>1. CASE Verify(s)
  <2>1. session' \in [Sessions -> Memory]
    BY <1>1, GoesHasType DEF Verify
  <2> QED
    BY <1>1, <2>1 DEF Verify, FormalTypeOK, files, history
<1>2. CASE Mark(s)
  <2>1. session' \in [Sessions -> Memory]
    BY <1>2, GoesHasType DEF Mark
  <2>2. faults' \in Nat
    BY <1>2 DEF Mark, Performs, FormalTypeOK
  <2> QED
    BY <1>2, <2>1, <2>2 DEF Mark, FormalTypeOK, history
<1>3. ASSUME NEW n \in NaturalIds, Generate(s, n) PROVE FormalTypeOK'
  <2>1. [session[s] EXCEPT !.pc = "attempt", !.started = @ \cup {n}, !.sample = n,
                           !.operation = "generation", !.phase = "request", !.retry = 1] \in Memory
    BY <1>0 DEF Memory, Named, OperationName, PhaseName
  <2>2. session' \in [Sessions -> Memory]
    BY <1>3, <2>1 DEF Generate, FormalTypeOK
  <2> QED
    BY <1>3, <2>2 DEF Generate, FormalTypeOK, files, history
<1>4. ASSUME NEW x \in SampleIds, AuditSample(s, x) PROVE FormalTypeOK'
  <2>1. [session[s] EXCEPT !.pc = "reserve", !.sample = x, !.operation = "review",
                           !.phase = "request", !.retry = 1] \in Memory
    BY <1>0 DEF Memory, Named, OperationName, PhaseName
  <2>2. session' \in [Sessions -> Memory]
    BY <1>4, <2>1 DEF AuditSample, FormalTypeOK
  <2> QED
    BY <1>4, <2>2 DEF AuditSample, FormalTypeOK, files, history
<1>5. CASE Check(s)
  <2>1. session' \in [Sessions -> Memory]
    BY <1>5, GoesHasType DEF Check
  <2> QED
    BY <1>5, <2>1 DEF Check, FormalTypeOK, files, history
<1>6. CASE Reserve(s)
  <2>1. EventOf(s) \in FormalEvent
    BY EventHasType
  <2>2. ledger' \in Seq(FormalEvent)
    <3>1. ledger' = ledger \/ ledger' = Append(ledger, EventOf(s))
      BY <1>6 DEF Reserve
    <3>2. ledger \in Seq(FormalEvent)
      BY DEF FormalTypeOK
    <3>3. Append(ledger, EventOf(s)) \in Seq(FormalEvent)
      BY <2>1, <3>2, AppendStays
    <3> QED
      BY <3>1, <3>2, <3>3
  <2>3. faults' \in Nat /\ unnoticed' \in Nat
    <3>1. faults' \in {faults, faults + 1} /\ unnoticed' \in {unnoticed, unnoticed + 1}
      BY <1>6 DEF Reserve, Performs
    <3> QED
      BY <3>1 DEF FormalTypeOK
  <2>4. [session[s] EXCEPT !.pc = "send", !.events = Append(@, EventOf(s))] \in Memory
    <3>1. Append(session[s].events, EventOf(s)) \in Seq(FormalEvent)
      BY <1>0, <2>1, AppendStays DEF Memory
    <3> QED
      BY <1>0, <3>1 DEF Memory
  <2>5. \/ Goes(s, "send") \/ Exhausted(s) \/ Raises(s)
        \/ session' = [session EXCEPT ![s].pc = "send", ![s].events = Append(@, EventOf(s))]
    BY <1>6 DEF Reserve
  <2>6. session' \in [Sessions -> Memory]
    <3>1. CASE Goes(s, "send")
      BY <3>1, GoesHasType
    <3>2. CASE Exhausted(s)
      BY <3>2, ExhaustedHasType
    <3>3. CASE Raises(s)
      BY <3>3, RaisesHasType
    <3>4. CASE session' = [session EXCEPT ![s].pc = "send",
                                          ![s].events = Append(@, EventOf(s))]
      BY <2>4, <3>4 DEF FormalTypeOK
    <3> QED
      BY <2>5, <3>1, <3>2, <3>3, <3>4
  <2> QED
    BY <1>6, <2>2, <2>3, <2>6 DEF Reserve, FormalTypeOK
<1>7. CASE Send(s)
  <2>1. session' \in [Sessions -> Memory]
    BY <1>7, GoesHasType DEF Send
  <2>2. <<session[s].sample, session[s].operation, session[s].phase, session[s].retry>>
          \in Named \X OperationName \X PhaseName \X Nat
    BY <1>0 DEF Memory
  <2>3. sent' \in Seq(Named \X OperationName \X PhaseName \X Nat)
    BY <1>7, <2>2 DEF Send, FormalTypeOK
  <2> QED
    BY <1>7, <2>1, <2>3 DEF Send, FormalTypeOK, files
<1>8. CASE Transient(s)
  <2>1. session[s].phase \in PhaseName /\ session[s].retry + 1 \in Nat
    BY <1>0 DEF Memory
  <2>2. session' \in [Sessions -> Memory]
    BY <1>8, <2>1, AgainHasType, RaisesHasType DEF Transient
  <2> QED
    BY <1>8, <2>2 DEF Transient, FormalTypeOK, files, history
<1>9. CASE NeedsRepair(s)
  <2>1. "schema_repair" \in PhaseName /\ 1 \in Nat
    BY DEF PhaseName
  <2>2. session' \in [Sessions -> Memory]
    BY <1>9, <2>1, AgainHasType, RaisesHasType DEF NeedsRepair
  <2> QED
    BY <1>9, <2>2 DEF NeedsRepair, FormalTypeOK, files, history
<1>10. CASE Valid(s)
  <2>1. [session[s] EXCEPT !.pc = "ready",
                           !.reviewed = @ \cup {session[s].sample}] \in Memory
    BY <1>0 DEF Memory
  <2>2. session' \in [Sessions -> Memory]
    BY <1>10, <2>1, GoesHasType DEF Valid, FormalTypeOK
  <2>3. <<session[s].sample, Len(session[s].events)>> \in Named \X Nat
    BY <1>0 DEF Memory
  <2>4. accepted' \subseteq Named \X Nat
    BY <1>10, <2>3 DEF Valid, FormalTypeOK
  <2> QED
    BY <1>10, <2>2, <2>4 DEF Valid, FormalTypeOK, files
<1>11. CASE Save(s)
  <2>1. session' \in [Sessions -> Memory]
    BY <1>11, GoesHasType DEF Save
  <2>2. Len(session[s].events) \in Nat
    BY <1>0 DEF Memory
  <2>3. saved' \in [NaturalIds -> Nat]
    <3>1. \/ saved' = saved
          \/ saved' = [saved EXCEPT ![session[s].sample] = Len(session[s].events)]
      BY <1>11 DEF Save
    <3> QED
      BY <2>2, <3>1 DEF FormalTypeOK
  <2>4. faults' \in Nat
    BY <1>11 DEF Save, Performs, FormalTypeOK
  <2> QED
    BY <1>11, <2>1, <2>3, <2>4 DEF Save, FormalTypeOK, history
<1>12. CASE Fail(s)
  <2>1. [session[s] EXCEPT !.pc = "ready", !.started = Started(s)] \in Memory
    BY <1>0 DEF Memory, Started
  <2>2. [session[s] EXCEPT !.pc = "partial"] \in Memory
    BY <1>0 DEF Memory
  <2>3. session' \in [Sessions -> Memory]
    BY <1>12, <2>1, <2>2, OutsideIsMemory DEF Fail, FormalTypeOK
  <2>4. failed' \subseteq Named /\ faults' \in Nat
    BY <1>0, <1>12 DEF Fail, Performs, FormalTypeOK, Memory
  <2> QED
    BY <1>12, <2>3, <2>4 DEF Fail, FormalTypeOK, history
<1>13. CASE Crash(s)
  <2>1. session' \in [Sessions -> Memory]
    BY <1>13, GoesHasType DEF Crash
  <2> QED
    BY <1>13, <2>1 DEF Crash, FormalTypeOK, files, history
<1>14. CASE Begin(s)
  <2>1. [session[s] EXCEPT !.running = TRUE] \in Memory
    BY <1>0 DEF Memory
  <2>2. session' \in [Sessions -> Memory] /\ early' \in Nat
    BY <1>14, <2>1 DEF Begin, FormalTypeOK
  <2> QED
    BY <1>14, <2>2 DEF Begin, FormalTypeOK
<1>15. CASE Observes(s)
  <2>1. [session[s] EXCEPT !.observed = @ + 1] \in Memory
    BY <1>0 DEF Memory
  <2>2. session' \in [Sessions -> Memory]
    BY <1>15, <2>1 DEF Observes, FormalTypeOK
  <2> QED
    BY <1>15, <2>2 DEF Observes, FormalTypeOK, files, history
<1>16. CASE Finish(s)
  <2>1. [session[s] EXCEPT !.running = FALSE] \in Memory
    BY <1>0 DEF Memory
  <2>2. session' \in [Sessions -> Memory]
    BY <1>16, <2>1 DEF Finish, FormalTypeOK
  <2>3. index' \in Seq(FormalEvent)
    BY <1>0, <1>16 DEF Finish, Memory
  <2>4. candidate' \in BOOLEAN
    BY <1>16 DEF Finish, Accepts
  <2> QED
    BY <1>16, <2>2, <2>3, <2>4 DEF Finish, FormalTypeOK, history
<1>17. CASE FinishPartially(s)
  <2>1. [session[s] EXCEPT !.pc = "ready", !.running = FALSE] \in Memory
    BY <1>0 DEF Memory
  <2>2. session' \in [Sessions -> Memory]
    BY <1>17, <2>1 DEF FinishPartially, FormalTypeOK
  <2>3. index' \in Seq(FormalEvent)
    BY <1>0, <1>17 DEF FinishPartially, Memory
  <2> QED
    BY <1>17, <2>2, <2>3 DEF FinishPartially, FormalTypeOK, history
<1> QED
  BY <1>1, <1>2, <1>3, <1>4, <1>5, <1>6, <1>7, <1>8, <1>9, <1>10, <1>11, <1>12, <1>13, <1>14,
     <1>15, <1>16, <1>17 DEF FormalStep

LEMMA NextHasType ==
  ASSUME FormalTypeOK, [FormalNext]_formalVars
  PROVE  FormalTypeOK'
<1>1. CASE Freeze
  BY <1>1 DEF Freeze, FormalTypeOK, history
<1>2. CASE Qualify
  BY <1>2 DEF Qualify, FormalTypeOK, history
<1>3. CASE Edit
  BY <1>3 DEF Edit, FormalTypeOK, files
<1>4. CASE UNCHANGED formalVars
  BY <1>4 DEF formalVars, files, history, FormalTypeOK
<1> QED
  BY <1>1, <1>2, <1>3, <1>4, StepHasType DEF FormalNext

-------------------------------------------------------------------------------
(* Who is at work                                                          *)

Facts == <<ledger, sent, accepted, saved, index, unnoticed, tree>>

LEMMA OthersStay ==
  ASSUME FormalTypeOK, NEW s \in Sessions, FormalStep(s), NEW t \in Sessions, t # s
  PROVE  session'[t] = session[t]
<1>1. \A pc : Goes(s, pc) => session'[t] = session[t]
  BY DEF Goes, FormalTypeOK
<1>2. \A phase, retry : Again(s, phase, retry) => session'[t] = session[t]
  BY DEF Again, FormalTypeOK
<1>3. Raises(s) => session'[t] = session[t]
  BY <1>1 DEF Raises
<1>4. Exhausted(s) => session'[t] = session[t]
  BY <1>3 DEF Exhausted, FormalTypeOK
<1>5. CASE Verify(s) \/ Mark(s) \/ Check(s) \/ Send(s) \/ Save(s) \/ Crash(s)
  BY <1>1, <1>5 DEF Verify, Mark, Check, Send, Save, Crash
<1>6. CASE Transient(s) \/ NeedsRepair(s)
  BY <1>2, <1>3, <1>6 DEF Transient, NeedsRepair
<1>7. CASE Reserve(s)
  BY <1>1, <1>3, <1>4, <1>7 DEF Reserve, FormalTypeOK
<1>8. CASE Valid(s)
  BY <1>1, <1>8 DEF Valid, FormalTypeOK
<1>9. CASE Fail(s) \/ Begin(s) \/ Observes(s) \/ Finish(s) \/ FinishPartially(s)
  BY <1>9 DEF Fail, Begin, Observes, Finish, FinishPartially, FormalTypeOK
<1>10. CASE \E n \in NaturalIds : Generate(s, n)
  BY <1>10 DEF Generate, FormalTypeOK
<1>11. CASE \E x \in SampleIds : AuditSample(s, x)
  BY <1>11 DEF AuditSample, FormalTypeOK
<1> QED
  BY <1>5, <1>6, <1>7, <1>8, <1>9, <1>10, <1>11 DEF FormalStep

\* What a process does before it is at work changes nothing but the marker.
LEMMA EnteringIsQuiet ==
  ASSUME NEW s \in Sessions, FormalStep(s), ~Active(s)
  PROVE  /\ Verify(s) \/ Mark(s) \/ Crash(s)
         /\ UNCHANGED Facts
<1>1. Verify(s) \/ Mark(s) \/ Crash(s)
  BY DEF FormalStep, Active, Generate, AuditSample, Check, Reserve, Send, Transient, NeedsRepair,
         Valid, Save, Fail, Begin, Observes, Finish, FinishPartially
<1>2. UNCHANGED Facts
  BY <1>1 DEF Verify, Mark, Crash, Facts, files, history
<1> QED
  BY <1>1, <1>2

\* A process that moves on, with another attempt or a budget that is exhausted, keeps
\* what it did.
Kept(s) ==
  /\ session'[s].started = session[s].started /\ session'[s].events = session[s].events
  /\ session'[s].sample = session[s].sample /\ session'[s].operation = session[s].operation

LEMMA MovesOn ==
  ASSUME NEW r \in Memory, NEW a, NEW b, NEW c
  PROVE  LET q == [r EXCEPT !.pc = a, !.phase = b, !.retry = c]
             u == [r EXCEPT !.phase = b, !.pc = a]
         IN  /\ q.pc = a /\ q.phase = b /\ q.retry = c
             /\ q.started = r.started /\ q.events = r.events
             /\ q.sample = r.sample /\ q.operation = r.operation
             /\ u.pc = a /\ u.started = r.started /\ u.events = r.events
             /\ u.sample = r.sample /\ u.operation = r.operation
BY DEF Memory

LEMMA AgainIs ==
  ASSUME FormalTypeOK, NEW s \in Sessions, NEW phase, NEW retry, Again(s, phase, retry)
  PROVE  /\ Kept(s)
         /\ session'[s].pc = IF Generates(s) THEN "attempt" ELSE "reserve"
         /\ session'[s].phase = phase /\ session'[s].retry = retry
<1> DEFINE pc == IF Generates(s) THEN "attempt" ELSE "reserve"
<1>1. session[s] \in Memory
  BY DEF FormalTypeOK
<1>2. session'[s] = [session[s] EXCEPT !.pc = pc, !.phase = phase, !.retry = retry]
  BY DEF Again, FormalTypeOK
<1> HIDE DEF pc
<1>3. Kept(s) /\ session'[s].pc = pc /\ session'[s].phase = phase /\ session'[s].retry = retry
  BY <1>1, <1>2, MovesOn DEF Kept
<1> QED
  BY <1>3 DEF pc

LEMMA GoesIs ==
  ASSUME FormalTypeOK, NEW s \in Sessions, NEW pc, Goes(s, pc)
  PROVE  /\ session'[s].pc = pc
         /\ pc # "gone" => Kept(s) /\ session'[s].phase = session[s].phase
                             /\ session'[s].retry = session[s].retry
<1>1. session[s] \in Memory
  BY DEF FormalTypeOK
<1>2. CASE pc = "gone"
  BY <1>2, OutsideIsMemory DEF Goes, FormalTypeOK
<1>3. CASE pc # "gone"
  <2>1. session'[s] = [session[s] EXCEPT !.pc = pc]
    BY <1>3 DEF Goes, FormalTypeOK
  <2> QED
    BY <1>1, <1>3, <2>1 DEF Memory, Kept
<1> QED
  BY <1>2, <1>3

LEMMA RaisesIs ==
  ASSUME FormalTypeOK, NEW s \in Sessions, Raises(s)
  PROVE  /\ session'[s].pc \in {"failing", "gone", "ready"}
         /\ session'[s].pc # "gone" => Kept(s)
BY GoesIs DEF Raises

LEMMA ExhaustedIs ==
  ASSUME FormalTypeOK, NEW s \in Sessions, Exhausted(s)
  PROVE  /\ session'[s].pc \in {"failing", "gone", "ready", "partial"}
         /\ session'[s].pc # "gone" => Kept(s)
<1> DEFINE pc == IF Generates(s) THEN "failing" ELSE "partial"
<1>1. session[s] \in Memory
  BY DEF FormalTypeOK
<1>2. CASE ~session[s].running
  BY <1>2, RaisesIs DEF Exhausted
<1>3. CASE session[s].running
  <2>1. session'[s] = [session[s] EXCEPT !.phase = "exhausted", !.pc = pc]
    BY <1>3 DEF Exhausted, FormalTypeOK
  <2> HIDE DEF pc
  <2>2. Kept(s) /\ session'[s].pc = pc
    BY <1>1, <2>1, MovesOn DEF Kept
  <2> QED
    BY <2>2 DEF pc
<1> QED
  BY <1>2, <1>3

\* A process at work keeps the marker, and starts nothing anew.
LEMMA WorkingGoesOn ==
  ASSUME FormalTypeOK, NEW s \in Sessions, FormalStep(s), Active(s)
  PROVE  marker' = marker /\ session'[s].pc \notin {"outside", "verified"}
<1>0. session[s] \in Memory /\ s \in DOMAIN session
  BY DEF FormalTypeOK
<1>1. ASSUME NEW pc, Goes(s, pc) PROVE session'[s].pc = pc
  BY <1>1, GoesIs
<1>2. ASSUME NEW phase, NEW retry, Again(s, phase, retry)
      PROVE  session'[s].pc \in {"attempt", "reserve"}
  BY <1>2, AgainIs
<1>3. Raises(s) => session'[s].pc \in {"failing", "gone", "ready"}
  BY RaisesIs
<1>4. Exhausted(s) => session'[s].pc \in {"failing", "gone", "ready", "partial"}
  BY ExhaustedIs
<1>5. ~Verify(s) /\ ~Mark(s)
  BY DEF Active, Verify, Mark
<1>6. CASE Check(s) \/ Send(s) \/ Save(s) \/ Crash(s)
  BY <1>1, <1>6 DEF Check, Send, Save, Crash, files
<1>7. CASE Transient(s) \/ NeedsRepair(s)
  BY <1>2, <1>3, <1>7 DEF Transient, NeedsRepair, files
<1>8. CASE Reserve(s)
  BY <1>0, <1>1, <1>3, <1>4, <1>8 DEF Reserve, Memory
<1>9. CASE Valid(s)
  BY <1>0, <1>1, <1>9 DEF Valid, Memory, files
<1>10. CASE Fail(s)
  BY <1>0, <1>10, OutsideIsMemory DEF Fail, Memory
<1>11. CASE Begin(s) \/ Observes(s) \/ Finish(s) \/ FinishPartially(s)
  BY <1>0, <1>11 DEF Begin, Observes, Finish, FinishPartially, Memory, files
<1>12. CASE \E n \in NaturalIds : Generate(s, n)
  BY <1>0, <1>12 DEF Generate, Memory, files
<1>13. CASE \E x \in SampleIds : AuditSample(s, x)
  BY <1>0, <1>13 DEF AuditSample, Memory, files
<1> QED
  BY <1>5, <1>6, <1>7, <1>8, <1>9, <1>10, <1>11, <1>12, <1>13 DEF FormalStep

\* Only one process is at work at a time.
LEMMA Alone ==
  ASSUME FormalInvariant, NEW s \in Sessions, FormalStep(s),
         NEW t \in Sessions, t # s, Active(t)'
  PROVE  Active(t) /\ ~Active(s) /\ UNCHANGED Facts
<1>1. Active(t)
  BY OthersStay DEF Active, FormalInvariant
<1>2. ~Active(s)
  BY <1>1 DEF FormalInvariant, MarkerSound
<1> QED
  BY <1>1, <1>2, EnteringIsQuiet

LEMMA StepKeepsMarker ==
  ASSUME FormalInvariant, NEW s \in Sessions, FormalStep(s)
  PROVE  MarkerSound'
<1>0. FormalTypeOK /\ MarkerSound /\ session[s] \in Memory /\ s \in DOMAIN session
  BY DEF FormalInvariant, FormalTypeOK
<1>1. CASE Active(s)
  <2>1. marker = s /\ marker' = s
    BY <1>0, <1>1, WorkingGoesOn DEF MarkerSound
  <2>2. ASSUME NEW t \in Sessions
        PROVE  /\ Active(t)' => marker' = t
               /\ session'[t].pc \in {"outside", "verified"} =>
                    session'[t].started = {} /\ session'[t].events = << >>
    <3>1. CASE t = s
      BY <1>0, <1>1, <2>1, <3>1, WorkingGoesOn
    <3>2. CASE t # s
      BY <1>0, <1>1, <2>1, <3>2, OthersStay, Alone DEF MarkerSound
    <3> QED
      BY <3>1, <3>2
  <2> QED
    BY <2>1, <2>2, NobodyIsNoSession DEF MarkerSound, Active
<1>2. CASE ~Active(s)
  <2>1. UNCHANGED Facts /\ (Verify(s) \/ Mark(s) \/ Crash(s))
    BY <1>2, EnteringIsQuiet
  <2>2. marker' = marker \/ (marker = Nobody /\ marker' = s)
    BY <2>1 DEF Verify, Mark, Crash, files
  <2>3. /\ Active(s)' => marker' = s
        /\ session'[s].pc \in {"outside", "verified"} =>
             session'[s].started = {} /\ session'[s].events = << >>
    <3>1. CASE Verify(s)
      BY <1>0, <3>1 DEF Verify, Goes, Memory, Active, MarkerSound
    <3>2. CASE Mark(s)
      <4>1. CASE session'[s].pc = "gone"
        BY <4>1 DEF Active
      <4>2. CASE session'[s].pc = "ready"
        BY <1>0, <3>2, <4>2, OutsideIsMemory DEF Mark, Goes, Memory
      <4> QED
        BY <1>0, <3>2, <4>1, <4>2, OutsideIsMemory DEF Mark, Goes, Memory
    <3>3. CASE Crash(s)
      BY <1>0, <3>3, OutsideIsMemory DEF Crash, Goes, Active
    <3> QED
      BY <2>1, <3>1, <3>2, <3>3
  <2>4. ASSUME NEW t \in Sessions, t # s
        PROVE  /\ Active(t)' => marker' = t
               /\ session'[t].pc \in {"outside", "verified"} =>
                    session'[t].started = {} /\ session'[t].events = << >>
    BY <1>0, <2>2, <2>4, OthersStay, NobodyIsNoSession DEF MarkerSound, Active
  <2>5. marker' = Nobody =>
          ledger' = << >> /\ sent' = << >> /\ accepted' = {} /\ \A n \in NaturalIds : saved'[n] = 0
    BY <1>0, <2>1, <2>2, NobodyIsNoSession DEF MarkerSound, Facts
  <2> QED
    BY <2>3, <2>4, <2>5 DEF MarkerSound, Active
<1> QED
  BY <1>1, <1>2

-------------------------------------------------------------------------------
(* Draws                                                                   *)

Draw(s) ==
  /\ Active(s) => \A a \in accepted : a[1] \in session[s].started
  /\ Generating(s) =>
       /\ session[s].sample \in session[s].started
       /\ \A a \in accepted : a[1] # session[s].sample
  /\ session[s].pc = "save" =>
       /\ session[s].sample \in NaturalIds
       /\ <<session[s].sample, Len(session[s].events)>> \in accepted

LEMMA DrawsAreSound == DrawSound <=> \A s \in Sessions : Draw(s)
BY DEF DrawSound, Draw

\* A step towards an answer, or away from one.
LEMMA MoveKeepsDraw ==
  ASSUME NEW s \in Sessions, Draw(s), Active(s), accepted' = accepted,
         session'[s].started = session[s].started, session'[s].pc # "save",
         Generating(s)' => Generating(s) /\ session'[s].sample = session[s].sample
  PROVE  Draw(s)'
BY DEF Draw, Active, Generating

LEMMA StepKeepsItsDraw ==
  ASSUME FormalInvariant, NEW s \in Sessions, FormalStep(s)
  PROVE  Draw(s)'
<1>0. /\ FormalTypeOK /\ MarkerSound /\ Draw(s) /\ session[s] \in Memory
      /\ \A t \in Sessions : Draw(t)
  BY DrawsAreSound DEF FormalInvariant, FormalTypeOK
<1>1. CASE ~Active(s)
  <2>1. accepted' = accepted /\ (Verify(s) \/ Mark(s) \/ Crash(s))
    BY <1>1, EnteringIsQuiet DEF Facts
  <2>2. CASE Verify(s) \/ Crash(s)
    BY <1>0, <2>2, GoesIs DEF Verify, Crash, Draw, Active, Generating
  <2>3. CASE Mark(s)
    <3>1. session'[s].pc = "gone" \/ (session'[s].pc = "ready" /\ marker = Nobody)
      BY <1>0, <2>3, GoesIs DEF Mark
    <3>2. marker = Nobody => accepted = {}
      BY <1>0 DEF MarkerSound
    <3> QED
      BY <2>1, <3>1, <3>2 DEF Draw, Active, Generating
  <2> QED
    BY <2>1, <2>2, <2>3
<1>2. CASE Active(s)
  <2>0. ~Verify(s) /\ ~Mark(s)
    BY <1>2 DEF Active, Verify, Mark
  <2>1. CASE session'[s].pc = "gone"
    BY <2>1 DEF Draw, Active, Generating
  <2>2. CASE Check(s) \/ Send(s) \/ Crash(s)
    <3>1. accepted' = accepted
      BY <2>2 DEF Check, Send, Crash, history
    <3>2. session'[s].pc # "gone" => Kept(s) /\ session'[s].pc \in {"failing", "reserve", "sent"}
      BY <1>0, <2>2, GoesIs DEF Check, Send, Crash
    <3>3. session[s].pc \in {"attempt", "send"} \/ session'[s].pc = "gone"
      BY <1>0, <2>2, GoesIs DEF Check, Send, Crash
    <3> QED
      BY <1>0, <1>2, <2>1, <3>1, <3>2, <3>3, MoveKeepsDraw DEF Kept, Generating, Generates
  <2>3. CASE Reserve(s)
    <3>1. accepted' = accepted /\ session[s].pc = "reserve"
      BY <2>3 DEF Reserve
    <3>2. CASE Goes(s, "send") \/ Exhausted(s) \/ Raises(s)
      BY <1>0, <1>2, <2>1, <3>1, <3>2, GoesIs, ExhaustedIs, RaisesIs, MoveKeepsDraw
         DEF Kept, Generating, Generates
    <3>3. CASE session' = [session EXCEPT ![s].pc = "send",
                                          ![s].events = Append(@, EventOf(s))]
      <4>1. session'[s] = [session[s] EXCEPT !.pc = "send", !.events = Append(@, EventOf(s))]
        BY <1>0, <3>3 DEF FormalTypeOK
      <4>2. /\ session'[s].pc = "send" /\ session'[s].started = session[s].started
            /\ session'[s].sample = session[s].sample
            /\ session'[s].operation = session[s].operation
        BY <1>0, <4>1 DEF Memory
      <4> QED
        BY <1>0, <1>2, <3>1, <4>2, MoveKeepsDraw DEF Generating, Generates
    <3> QED
      BY <2>3, <3>2, <3>3 DEF Reserve
  <2>4. CASE Transient(s) \/ NeedsRepair(s)
    <3>1. accepted' = accepted /\ session[s].pc = "sent"
      BY <2>4 DEF Transient, NeedsRepair, history
    <3>2. session'[s].pc # "gone" => Kept(s) /\ session'[s].pc # "save"
      BY <1>0, <2>4, AgainIs, RaisesIs DEF Transient, NeedsRepair
    <3> QED
      BY <1>0, <1>2, <2>1, <3>1, <3>2, MoveKeepsDraw DEF Kept, Generating, Generates
  <2>5. CASE Valid(s)
    <3>1. CASE Generates(s)
      <4>1. /\ session'[s].pc = "save" /\ Kept(s)
            /\ accepted' = accepted \cup {<<session[s].sample, Len(session[s].events)>>}
        BY <1>0, <2>5, <3>1, GoesIs DEF Valid
      <4>2. session[s].sample \in session[s].started
        BY <1>0, <2>5, <3>1 DEF Draw, Generating, Valid
      <4>3. session[s].sample \in NaturalIds
        BY <1>0, <4>2 DEF Memory
      <4> QED
        BY <1>0, <1>2, <4>1, <4>2, <4>3 DEF Draw, Kept, Generating
    <3>2. CASE ~Generates(s)
      <4>1. session'[s] = [session[s] EXCEPT !.pc = "ready",
                                             !.reviewed = @ \cup {session[s].sample}]
        BY <1>0, <2>5, <3>2 DEF Valid, FormalTypeOK
      <4>2. session'[s].pc = "ready" /\ session'[s].started = session[s].started
        BY <1>0, <4>1 DEF Memory
      <4>3. accepted' = accepted
        BY <2>5, <3>2 DEF Valid
      <4> QED
        BY <1>0, <1>2, <4>2, <4>3, MoveKeepsDraw DEF Generating
    <3> QED
      BY <3>1, <3>2
  <2>6. CASE Save(s)
    <3>1. Kept(s) /\ session'[s].pc \in {"ready", "failing"} /\ accepted' = accepted
      BY <1>0, <2>6, GoesIs DEF Save, history
    <3> QED
      BY <1>0, <1>2, <3>1, MoveKeepsDraw DEF Kept, Generating
  <2>7. CASE Fail(s)
    <3>1. accepted' = accepted
      BY <2>7 DEF Fail, history
    <3>2. \/ session'[s] = [session[s] EXCEPT !.pc = "ready", !.started = Started(s)]
          \/ session'[s] = [session[s] EXCEPT !.pc = "partial"]
          \/ session'[s] = Gone
      BY <1>0, <2>7 DEF Fail, FormalTypeOK
    <3>3. \/ session'[s].pc = "gone"
          \/ session'[s].pc \in {"ready", "partial"} /\ session'[s].started = session[s].started
      BY <1>0, <3>2, OutsideIsMemory DEF Memory, Started
    <3> QED
      BY <1>0, <1>2, <2>1, <3>1, <3>3, MoveKeepsDraw DEF Generating
  <2>8. CASE Begin(s) \/ Observes(s) \/ Finish(s) \/ FinishPartially(s)
    <3>1. accepted' = accepted
      BY <2>8 DEF Begin, Observes, Finish, FinishPartially, history
    <3>2. session'[s].pc = "ready" /\ session'[s].started = session[s].started
      BY <1>0, <2>8 DEF Begin, Observes, Finish, FinishPartially, FormalTypeOK, Memory
    <3> QED
      BY <1>0, <1>2, <3>1, <3>2, MoveKeepsDraw DEF Generating
  <2>9. ASSUME NEW n \in NaturalIds, Generate(s, n) PROVE Draw(s)'
    <3>1. accepted' = accepted /\ n \notin session[s].started
      BY <2>9 DEF Generate, history
    <3>2. session'[s] = [session[s] EXCEPT !.pc = "attempt", !.started = @ \cup {n},
                            !.sample = n, !.operation = "generation",
                            !.phase = "request", !.retry = 1]
      BY <1>0, <2>9 DEF Generate, FormalTypeOK
    <3>3. /\ session'[s].pc = "attempt" /\ session'[s].sample = n
          /\ session'[s].started = session[s].started \cup {n}
      BY <1>0, <3>2 DEF Memory
    <3> QED
      BY <1>0, <1>2, <3>1, <3>3 DEF Draw, Active, Generating
  <2>10. ASSUME NEW x \in SampleIds, AuditSample(s, x) PROVE Draw(s)'
    <3>1. accepted' = accepted
      BY <2>10 DEF AuditSample, history
    <3>2. session'[s] = [session[s] EXCEPT !.pc = "reserve", !.sample = x,
                            !.operation = "review", !.phase = "request", !.retry = 1]
      BY <1>0, <2>10 DEF AuditSample, FormalTypeOK
    <3>3. /\ session'[s].pc = "reserve" /\ session'[s].operation = "review"
          /\ session'[s].started = session[s].started
      BY <1>0, <3>2 DEF Memory
    <3> QED
      BY <1>0, <1>2, <3>1, <3>3, MoveKeepsDraw DEF Generating, Generates
  <2> QED
    BY <2>0, <2>2, <2>3, <2>4, <2>5, <2>6, <2>7, <2>8, <2>9, <2>10 DEF FormalStep
<1> QED
  BY <1>1, <1>2

LEMMA StepKeepsDraw ==
  ASSUME FormalInvariant, NEW s \in Sessions, FormalStep(s)
  PROVE  DrawSound'
<1>0. \A t \in Sessions : Draw(t)
  BY DrawsAreSound DEF FormalInvariant
<1>1. ASSUME NEW t \in Sessions, t # s PROVE Draw(t)'
  <2>1. CASE Active(t)'
    <3>1. Draw(t) /\ Active(t) /\ accepted' = accepted
      BY <1>0, <1>1, <2>1, Alone DEF Facts
    <3>2. session'[t] = session[t]
      BY <1>1, OthersStay DEF FormalInvariant
    <3> QED
      BY <3>1, <3>2 DEF Draw, Active, Generating, Generates
  <2>2. CASE ~Active(t)'
    BY <2>2 DEF Draw, Active, Generating
  <2> QED
    BY <2>1, <2>2
<1>2. Draw(s)'
  BY StepKeepsItsDraw
<1> QED
  BY <1>1, <1>2 DEF DrawSound, Draw


LEMMA StepKeepsOneDraw ==
  ASSUME FormalInvariant, NEW s \in Sessions, FormalStep(s)
  PROVE  OneDraw'
<1>0. FormalTypeOK /\ OneDraw /\ Draw(s) /\ session[s] \in Memory
  BY DrawsAreSound DEF FormalInvariant, FormalTypeOK
<1>1. CASE Valid(s)
  <2>1. saved' = saved
    BY <1>1 DEF Valid, files
  <2>2. CASE Generates(s)
    <3>1. accepted' = accepted \cup {<<session[s].sample, Len(session[s].events)>>}
      BY <1>1, <2>2 DEF Valid
    <3>2. \A a \in accepted : a[1] # session[s].sample
      BY <1>0, <1>1, <2>2 DEF Draw, Generating, Valid
    <3> QED
      BY <1>0, <2>1, <3>1, <3>2 DEF OneDraw
  <2>3. CASE ~Generates(s)
    BY <1>0, <1>1, <2>1, <2>3 DEF Valid, OneDraw
  <2> QED
    BY <2>2, <2>3
<1>2. CASE Save(s)
  <2> DEFINE n == session[s].sample
             k == Len(session[s].events)
  <2>1. n \in NaturalIds /\ <<n, k>> \in accepted /\ accepted' = accepted
    BY <1>0, <1>2 DEF Save, Draw, history
  <2>2. saved' = saved \/ saved' = [saved EXCEPT ![n] = k]
    BY <1>2 DEF Save
  <2>3. ASSUME NEW m \in NaturalIds PROVE saved'[m] = saved[m] \/ (m = n /\ saved'[m] = k)
    BY <1>0, <2>1, <2>2 DEF FormalTypeOK
  <2> QED
    BY <1>0, <2>1, <2>3 DEF OneDraw
<1>3. CASE ~Valid(s) /\ ~Save(s)
  <2>1. accepted' = accepted /\ saved' = saved
    BY <1>3 DEF FormalStep, Verify, Mark, Generate, AuditSample, Check, Reserve, Send, Transient,
                NeedsRepair, Fail, Crash, Begin, Observes, Finish, FinishPartially, files, history
  <2> QED
    BY <1>0, <2>1 DEF OneDraw
<1> QED
  BY <1>1, <1>2, <1>3

-------------------------------------------------------------------------------
(* Edits                                                                   *)

Seen(s) == session[s].pc = "reserve" /\ Generates(s) => unnoticed = 0

\* A generation comes to its reservation from its verification.
LEMMA ReservationIsVerified ==
  ASSUME FormalTypeOK, NEW s \in Sessions, FormalStep(s),
         session'[s].pc = "reserve", session'[s].operation = "generation"
  PROVE  Check(s) /\ tree = "A"
<1>0. session[s] \in Memory /\ s \in DOMAIN session
  BY DEF FormalTypeOK
<1>1. ASSUME NEW pc, Goes(s, pc) PROVE session'[s].pc = pc
  BY <1>1, GoesIs
<1>2. ASSUME NEW phase, NEW retry, Again(s, phase, retry) PROVE FALSE
  BY <1>2, AgainIs DEF Kept, Generates
<1>3. ~Raises(s) /\ ~Exhausted(s)
  BY RaisesIs, ExhaustedIs
<1>4. ~Verify(s) /\ ~Mark(s) /\ ~Send(s) /\ ~Save(s) /\ ~Crash(s)
  BY <1>1 DEF Verify, Mark, Send, Save, Crash
<1>5. ~Transient(s) /\ ~NeedsRepair(s)
  BY <1>2, <1>3 DEF Transient, NeedsRepair
<1>6. ~Reserve(s)
  <2>1. session' # [session EXCEPT ![s].pc = "send", ![s].events = Append(@, EventOf(s))]
    BY <1>0 DEF Memory
  <2> QED
    BY <1>1, <1>3, <2>1 DEF Reserve
<1>7. ~Valid(s)
  BY <1>0, <1>1 DEF Valid, Memory
<1>8. ~Fail(s)
  <2>1. SUFFICES ASSUME Fail(s) PROVE FALSE
    OBVIOUS
  <2>2. \/ session'[s] = [session[s] EXCEPT !.pc = "ready", !.started = Started(s)]
        \/ session'[s] = [session[s] EXCEPT !.pc = "partial"]
        \/ session'[s] = Gone
    BY <1>0, <2>1 DEF Fail
  <2> QED
    BY <1>0, <2>2, OutsideIsMemory DEF Memory
<1>9. ~Begin(s) /\ ~Observes(s) /\ ~Finish(s) /\ ~FinishPartially(s)
  BY <1>0 DEF Begin, Observes, Finish, FinishPartially, Memory
<1>10. ~ \E n \in NaturalIds : Generate(s, n)
  <2>1. SUFFICES ASSUME NEW n \in NaturalIds, Generate(s, n) PROVE FALSE
    OBVIOUS
  <2> QED
    BY <1>0, <2>1 DEF Generate, Memory
<1>11. ~ \E x \in SampleIds : AuditSample(s, x)
  <2>1. SUFFICES ASSUME NEW x \in SampleIds, AuditSample(s, x) PROVE FALSE
    OBVIOUS
  <2> QED
    BY <1>0, <2>1 DEF AuditSample, Memory
<1>12. Check(s)
  BY <1>4, <1>5, <1>6, <1>7, <1>8, <1>9, <1>10, <1>11 DEF FormalStep
<1>13. tree # "A" => Goes(s, "failing")
  BY <1>12 DEF Check, Notices
<1>14. tree # "A" => session'[s].pc = "failing"
  BY <1>1, <1>13
<1> QED
  BY <1>12, <1>14

LEMMA StepKeepsEdit ==
  ASSUME FormalInvariant, NEW s \in Sessions, FormalStep(s)
  PROVE  EditSound' /\ EditIsNoticed'
<1>0. /\ FormalTypeOK /\ EditIsNoticed /\ session[s] \in Memory
      /\ tree = "A" => unnoticed = 0
  BY DEF FormalInvariant, FormalTypeOK, EditSound
<1>1. \A t \in Sessions : Seen(t)
  BY DEF FormalInvariant, EditSound, Seen
<1>2. tree' = tree
  BY DEF FormalStep, Verify, Mark, Generate, AuditSample, Check, Reserve, Send, Transient,
         NeedsRepair, Valid, Save, Fail, Crash, Begin, Observes, Finish, FinishPartially
<1>3. CASE Reserve(s)
  <2>1. \/ unnoticed' = unnoticed
        \/ unnoticed = 0 /\ unnoticed' = 1 /\ tree # "A"
    BY <1>0, <1>1, <1>3 DEF Reserve, Seen
  <2>2. ASSUME NEW t \in Sessions PROVE ~(session'[t].pc = "reserve" /\ Generates(t)')
    <3>1. CASE t = s
      BY <1>0, <1>3, <3>1, ReservationIsVerified DEF Generates, Reserve, Check
    <3>2. CASE t # s
      BY <1>3, <3>2, Alone DEF Active, Reserve
    <3> QED
      BY <3>1, <3>2
  <2> QED
    BY <1>0, <1>2, <2>1, <2>2 DEF EditSound, EditIsNoticed
<1>4. CASE ~Reserve(s)
  <2>1. unnoticed' = unnoticed
    BY <1>4 DEF FormalStep, Verify, Mark, Generate, AuditSample, Check, Send, Transient,
         NeedsRepair, Valid, Save, Fail, Crash, Begin, Observes, Finish, FinishPartially, history
  <2>2. ASSUME NEW t \in Sessions, session'[t].pc = "reserve", Generates(t)'
        PROVE  unnoticed = 0
    <3>1. CASE t = s
      BY <1>0, <2>2, <3>1, ReservationIsVerified DEF Generates
    <3>2. CASE t # s
      BY <1>0, <1>1, <2>2, <3>2, OthersStay DEF Generates, Seen
    <3> QED
      BY <3>1, <3>2
  <2> QED
    BY <1>0, <1>2, <2>1, <2>2 DEF EditSound, EditIsNoticed
<1> QED
  BY <1>3, <1>4

-------------------------------------------------------------------------------
(* What was sent                                                           *)

\* Only a reservation and a request change where a process is in the ledger.
LEMMA EventsAreKept ==
  ASSUME FormalTypeOK, NEW s \in Sessions, FormalStep(s), ~Reserve(s), ~Send(s)
  PROVE  \/ session'[s].pc = "gone"
         \/ /\ session'[s].events = session[s].events
            /\ session[s].pc # "send" /\ session'[s].pc # "send"
<1>0. session[s] \in Memory /\ s \in DOMAIN session
  BY DEF FormalTypeOK
<1>1. ASSUME NEW pc, Goes(s, pc), pc # "gone"
      PROVE  session'[s].events = session[s].events /\ session'[s].pc = pc
  BY <1>1, GoesIs DEF Kept
<1>2. ASSUME NEW phase, NEW retry, Again(s, phase, retry)
      PROVE  session'[s].events = session[s].events /\ session'[s].pc # "send"
  BY <1>2, AgainIs DEF Kept
<1>3. Raises(s) =>
        \/ session'[s].pc = "gone"
        \/ session'[s].events = session[s].events /\ session'[s].pc # "send"
  BY RaisesIs DEF Kept
<1>4. Crash(s) => session'[s].pc = "gone"
  BY GoesIs DEF Crash
<1>5. CASE Verify(s) \/ Save(s)
  BY <1>1, <1>5 DEF Verify, Save
<1>6. CASE Mark(s)
  <2>1. Goes(s, "ready") \/ Goes(s, "gone")
    BY <1>6 DEF Mark
  <2> QED
    BY <1>1, <1>6, <2>1, GoesIs DEF Mark
<1>7. CASE Check(s)
  <2>1. Goes(s, "failing") \/ Goes(s, "reserve")
    BY <1>7 DEF Check
  <2> QED
    BY <1>1, <1>7, <2>1 DEF Check
<1>8. CASE Transient(s) \/ NeedsRepair(s)
  BY <1>2, <1>3, <1>8 DEF Transient, NeedsRepair
<1>9. CASE Valid(s)
  BY <1>0, <1>1, <1>9 DEF Valid, Memory
<1>10. CASE Fail(s)
  <2>1. \/ session'[s] = [session[s] EXCEPT !.pc = "ready", !.started = Started(s)]
        \/ session'[s] = [session[s] EXCEPT !.pc = "partial"]
        \/ session'[s] = Gone
    BY <1>0, <1>10 DEF Fail
  <2>2. session[s].pc # "send"
    BY <1>10 DEF Fail
  <2> QED
    BY <1>0, <2>1, <2>2, OutsideIsMemory DEF Memory
<1>11. CASE Begin(s) \/ Observes(s) \/ Finish(s) \/ FinishPartially(s)
  BY <1>0, <1>11 DEF Begin, Observes, Finish, FinishPartially, Memory
<1>12. CASE \E n \in NaturalIds : Generate(s, n)
  BY <1>0, <1>12 DEF Generate, Memory
<1>13. CASE \E x \in SampleIds : AuditSample(s, x)
  BY <1>0, <1>13 DEF AuditSample, Memory
<1> QED
  BY <1>4, <1>5, <1>6, <1>7, <1>8, <1>9, <1>10, <1>11, <1>12, <1>13 DEF FormalStep

LogSound ==
  /\ Len(sent) <= Len(ledger) /\ \A i \in 1..Len(sent) : sent[i] = Wire(ledger[i])
  /\ Len(index) <= Len(sent)

\* What a process that is at work knows of the ledger.
InStep(r) ==
  /\ Len(r.events) <= Len(ledger) /\ \A i \in 1..Len(r.events) : r.events[i] = ledger[i]
  /\ IF r.pc # "send" THEN Len(sent) = Len(r.events)
     ELSE /\ Len(r.events) = Len(sent) + 1
          /\ Wire(r.events[Len(r.events)]) = <<r.sample, r.operation, r.phase, r.retry>>

LEMMA SentIs == SentSound <=> LogSound /\ \A s \in Sessions : Active(s) => InStep(session[s])
BY DEF SentSound, LogSound, InStep

LEMMA StepKeepsOthersInStep ==
  ASSUME FormalInvariant, NEW s \in Sessions, FormalStep(s),
         NEW t \in Sessions, t # s, Active(t)'
  PROVE  InStep(session[t])'
<1>1. Active(t) /\ ledger' = ledger /\ sent' = sent
  BY Alone DEF Facts
<1>2. session'[t] = session[t]
  BY OthersStay DEF FormalInvariant
<1>3. InStep(session[t])
  BY <1>1, SentIs DEF FormalInvariant
<1> QED
  BY <1>1, <1>2, <1>3 DEF InStep

LEMMA EventIsWire ==
  ASSUME NEW s \in Sessions
  PROVE  Wire(EventOf(s)) = <<session[s].sample, session[s].operation, session[s].phase,
                              session[s].retry>>
BY DEF Wire, EventOf

LEMMA ReserveKeepsSent ==
  ASSUME FormalInvariant, NEW s \in Sessions, Reserve(s)
  PROVE  LogSound' /\ (Active(s)' => InStep(session[s])')
<1> DEFINE events == session[s].events
           e == EventOf(s)
<1>0. FormalTypeOK /\ session[s] \in Memory /\ events \in Seq(FormalEvent)
  BY DEF FormalInvariant, FormalTypeOK, Memory
<1>1. LogSound /\ InStep(session[s]) /\ session[s].pc = "reserve"
  BY SentIs DEF FormalInvariant, Reserve, Active
<1>2. sent' = sent /\ index' = index
  BY DEF Reserve
<1>3. /\ e \in FormalEvent /\ ledger \in Seq(FormalEvent)
      /\ sent \in Seq(Named \X OperationName \X PhaseName \X Nat)
      /\ index \in Seq(FormalEvent)
  BY <1>0, EventHasType DEF FormalTypeOK
<1>4. /\ Len(Append(ledger, e)) = Len(ledger) + 1
      /\ \A i \in 1..Len(ledger) : Append(ledger, e)[i] = ledger[i]
      /\ Append(ledger, e)[Len(ledger) + 1] = e
  BY <1>3, AppendStays
<1>5. /\ Len(Append(events, e)) = Len(events) + 1
      /\ \A i \in 1..Len(events) : Append(events, e)[i] = events[i]
      /\ Append(events, e)[Len(events) + 1] = e
  BY <1>0, <1>3, AppendStays
<1>6. ledger' = ledger \/ ledger' = Append(ledger, e)
  BY DEF Reserve
<1>7. Len(sent) \in Nat /\ Len(ledger) \in Nat /\ Len(events) \in Nat /\ Len(index) \in Nat
  BY <1>0, <1>3
<1> HIDE DEF e, events
<1>8. /\ Len(ledger') >= Len(ledger) /\ Len(ledger') \in Nat
      /\ \A i \in 1..Len(ledger) : ledger'[i] = ledger[i]
  BY <1>4, <1>6, <1>7
<1>9. LogSound'
  BY <1>1, <1>2, <1>7, <1>8 DEF LogSound
<1>10. CASE Exhausted(s) \/ Raises(s)
  <2>1. session'[s].pc = "gone" \/ (session'[s].pc # "send" /\ session'[s].events = events)
    BY <1>0, <1>10, RaisesIs, ExhaustedIs DEF Kept, events
  <2> QED
    BY <1>1, <1>2, <1>7, <1>8, <1>9, <2>1 DEF InStep, Active, events
<1>11. CASE /\ session' = [session EXCEPT ![s].pc = "send", ![s].events = Append(@, e)]
            /\ ledger' = Append(ledger, e) /\ Len(ledger) = Len(events)
  <2>1. session'[s] = [session[s] EXCEPT !.pc = "send", !.events = Append(@, e)]
    BY <1>0, <1>11 DEF FormalTypeOK
  <2>2. /\ session'[s].pc = "send" /\ session'[s].events = Append(events, e)
        /\ session'[s].sample = session[s].sample /\ session'[s].phase = session[s].phase
        /\ session'[s].operation = session[s].operation
        /\ session'[s].retry = session[s].retry
    BY <1>0, <2>1 DEF Memory, events
  <2>3. Len(sent) = Len(events) /\ \A i \in 1..Len(events) : events[i] = ledger[i]
    BY <1>1 DEF InStep, events
  <2>4. /\ Len(session'[s].events) = Len(ledger')
        /\ Len(session'[s].events) = Len(sent') + 1
        /\ session'[s].events[Len(session'[s].events)] = e
    BY <1>2, <1>4, <1>5, <1>7, <1>11, <2>2, <2>3
  <2>5. ASSUME NEW i \in 1..Len(session'[s].events)
        PROVE  session'[s].events[i] = ledger'[i]
    <3>1. session'[s].events = Append(events, e) /\ ledger' = Append(ledger, e)
      BY <1>11, <2>2
    <3>2. i \in 1..(Len(events) + 1)
      BY <1>5, <2>5, <3>1
    <3>3. CASE i = Len(events) + 1
      BY <1>4, <1>5, <1>11, <3>1, <3>3
    <3>4. CASE i # Len(events) + 1
      <4>1. i \in 1..Len(events) /\ i \in 1..Len(ledger)
        BY <1>7, <1>11, <3>2, <3>4
      <4> QED
        BY <1>4, <1>5, <2>3, <3>1, <4>1
    <3> QED
      BY <3>3, <3>4
  <2>6. Wire(e) = <<session[s].sample, session[s].operation, session[s].phase,
                    session[s].retry>>
    BY EventIsWire DEF e
  <2>7. Wire(session'[s].events[Len(session'[s].events)])
          = <<session'[s].sample, session'[s].operation, session'[s].phase, session'[s].retry>>
    BY <2>2, <2>4, <2>6
  <2>8. Len(session'[s].events) <= Len(ledger')
    BY <1>4, <1>7, <1>11, <2>4
  <2> QED
    BY <1>9, <2>2, <2>4, <2>5, <2>7, <2>8 DEF InStep, Wire
<1> QED
  BY <1>9, <1>10, <1>11 DEF Reserve, Reserves, e, events

LEMMA SendKeepsSent ==
  ASSUME FormalInvariant, NEW s \in Sessions, Send(s)
  PROVE  LogSound' /\ (Active(s)' => InStep(session[s])')
<1> DEFINE events == session[s].events
           w == <<session[s].sample, session[s].operation, session[s].phase, session[s].retry>>
           Wires == Named \X OperationName \X PhaseName \X Nat
<1>0. FormalTypeOK /\ session[s] \in Memory /\ events \in Seq(FormalEvent)
  BY DEF FormalInvariant, FormalTypeOK, Memory
<1>1. LogSound /\ InStep(session[s]) /\ session[s].pc = "send"
  BY SentIs DEF FormalInvariant, Send, Active
<1>2. /\ sent' = Append(sent, w) /\ ledger' = ledger /\ index' = index
      /\ session'[s].events = events /\ session'[s].pc = "sent"
  BY <1>0, GoesIs DEF Send, files, Kept
<1>3. w \in Wires
  BY <1>0 DEF Memory
<1>4. sent \in Seq(Wires) /\ ledger \in Seq(FormalEvent) /\ index \in Seq(FormalEvent)
  BY <1>0 DEF FormalTypeOK
<1>5. Len(sent) \in Nat /\ Len(ledger) \in Nat /\ Len(events) \in Nat /\ Len(index) \in Nat
  BY <1>0, <1>4
<1>6. /\ Len(events) = Len(sent) + 1 /\ Wire(events[Len(events)]) = w
      /\ Len(events) <= Len(ledger) /\ \A i \in 1..Len(events) : events[i] = ledger[i]
  BY <1>1 DEF InStep
<1> HIDE DEF w, events, Wires
<1>7. /\ Len(sent') = Len(sent) + 1 /\ sent'[Len(sent) + 1] = w
      /\ \A i \in 1..Len(sent) : sent'[i] = sent[i]
  BY <1>2, <1>3, <1>4, AppendStays
<1>8. w = Wire(ledger[Len(sent) + 1])
  BY <1>5, <1>6
<1>9. ASSUME NEW i \in 1..Len(sent') PROVE sent'[i] = Wire(ledger'[i])
  <2>1. CASE i = Len(sent) + 1
    BY <1>2, <1>7, <1>8, <2>1
  <2>2. CASE i # Len(sent) + 1
    BY <1>1, <1>2, <1>5, <1>7, <2>2 DEF LogSound
  <2> QED
    BY <2>1, <2>2
<1>10. LogSound'
  BY <1>1, <1>2, <1>5, <1>6, <1>7, <1>9 DEF LogSound
<1>11. InStep(session[s])'
  BY <1>2, <1>5, <1>6, <1>7 DEF InStep
<1> QED
  BY <1>10, <1>11

LEMMA StepKeepsSent ==
  ASSUME FormalInvariant, NEW s \in Sessions, FormalStep(s)
  PROVE  SentSound'
<1>0. FormalTypeOK /\ MarkerSound /\ session[s] \in Memory /\ s \in DOMAIN session
  BY DEF FormalInvariant, FormalTypeOK
<1>1. LogSound /\ (Active(s) => InStep(session[s]))
  BY SentIs DEF FormalInvariant
<1>2. ASSUME ~Reserve(s), ~Send(s)
      PROVE  LogSound' /\ (Active(s)' => InStep(session[s])')
  <2>1. ledger' = ledger /\ sent' = sent
    BY <1>2 DEF FormalStep, Verify, Mark, Generate, AuditSample, Check, Transient, NeedsRepair,
                Valid, Save, Fail, Crash, Begin, Observes, Finish, FinishPartially, files, history
  <2>2. \/ session'[s].pc = "gone"
        \/ /\ session'[s].events = session[s].events
           /\ session[s].pc # "send" /\ session'[s].pc # "send"
    BY <1>0, <1>2, EventsAreKept
  <2>3. CASE Finish(s) \/ FinishPartially(s)
    <3>1. index' = session[s].events /\ Active(s) /\ session[s].pc # "send"
      BY <2>3 DEF Finish, FinishPartially, Active
    <3>2. /\ session[s].events \in Seq(FormalEvent)
          /\ sent \in Seq(Named \X OperationName \X PhaseName \X Nat)
      BY <1>0 DEF Memory, FormalTypeOK
    <3>3. Len(index') <= Len(sent)
      BY <1>1, <3>1, <3>2 DEF InStep
    <3>4. LogSound'
      BY <1>1, <2>1, <3>3 DEF LogSound
    <3>5. Active(s)' => InStep(session[s])'
      BY <1>1, <2>1, <2>2, <3>1 DEF InStep, Active
    <3> QED
      BY <3>4, <3>5
  <2>4. CASE ~Finish(s) /\ ~FinishPartially(s)
    <3>1. index' = index
      BY <1>2, <2>4 DEF FormalStep, Verify, Mark, Generate, AuditSample, Check, Transient,
               NeedsRepair, Valid, Save, Fail, Crash, Begin, Observes, files
    <3>2. LogSound'
      BY <1>1, <2>1, <3>1 DEF LogSound
    <3>3. CASE Active(s)
      BY <1>1, <2>1, <2>2, <3>2, <3>3 DEF InStep, Active
    <3>4. CASE ~Active(s)
      <4>1. CASE Mark(s) /\ session'[s].pc = "ready"
        <5>1. marker = Nobody /\ session[s].pc = "verified"
          BY <1>0, <4>1, GoesIs DEF Mark
        <5>2. ledger = << >> /\ sent = << >> /\ session'[s].events = << >>
          BY <1>0, <2>2, <4>1, <5>1 DEF MarkerSound
        <5> QED
          BY <2>1, <3>2, <4>1, <5>2 DEF InStep
      <4>2. CASE ~(Mark(s) /\ session'[s].pc = "ready")
        <5>1. ~Active(s)'
          <6>1. CASE Verify(s) \/ Crash(s)
            BY <1>0, <6>1, GoesIs DEF Verify, Crash, Active
          <6>2. CASE Mark(s)
            <7>1. session'[s].pc \in {"ready", "gone"}
              BY <1>0, <6>2, GoesIs DEF Mark
            <7> QED
              BY <4>2, <6>2, <7>1 DEF Active
          <6> QED
            BY <3>4, <6>1, <6>2, EnteringIsQuiet
        <5> QED
          BY <3>2, <5>1
      <4> QED
        BY <4>1, <4>2
    <3> QED
      BY <3>3, <3>4
  <2> QED
    BY <2>3, <2>4
<1>3. LogSound' /\ (Active(s)' => InStep(session[s])')
  BY <1>2, ReserveKeepsSent, SendKeepsSent
<1>4. ASSUME NEW t \in Sessions, Active(t)' PROVE InStep(session[t])'
  BY <1>3, <1>4, StepKeepsOthersInStep
<1> QED
  BY <1>3, <1>4 DEF SentSound, LogSound, InStep

-------------------------------------------------------------------------------
(* The invariant                                                           *)

LEMMA InitIsSound == FormalInit => FormalInvariant
<1> SUFFICES ASSUME FormalInit PROVE FormalInvariant
  OBVIOUS
<1>1. /\ \A s \in Sessions : session[s].pc = "outside" /\ session[s].started = {}
                               /\ session[s].events = << >>
      /\ ledger = << >> /\ sent = << >> /\ index = << >> /\ accepted = {} /\ unnoticed = 0
      /\ \A n \in NaturalIds : saved[n] = 0
  BY DEF FormalInit, Outside, NoFile
<1>2. MarkerSound /\ DrawSound /\ EditSound /\ OneDraw /\ EditIsNoticed
  BY <1>1 DEF MarkerSound, DrawSound, EditSound, OneDraw, EditIsNoticed, Active, Generating
<1>3. SentSound
  BY <1>1 DEF SentSound, Active
<1> QED
  BY <1>2, <1>3, InitType DEF FormalInvariant

LEMMA NextKeepsInvariant ==
  ASSUME FormalInvariant, [FormalNext]_formalVars
  PROVE  FormalInvariant'
<1>0. FormalTypeOK'
  BY NextHasType DEF FormalInvariant
<1>1. ASSUME NEW s \in Sessions, FormalStep(s) PROVE FormalInvariant'
  BY <1>0, <1>1, StepKeepsMarker, StepKeepsDraw, StepKeepsOneDraw, StepKeepsEdit, StepKeepsSent
     DEF FormalInvariant
<1>2. CASE Freeze \/ Qualify \/ Edit \/ UNCHANGED formalVars
  <2>1. UNCHANGED <<session, marker, ledger, saved, index, sent, accepted>>
    BY <1>2 DEF Freeze, Qualify, Edit, formalVars, files, history
  <2>2. MarkerSound' /\ DrawSound' /\ OneDraw' /\ SentSound'
    BY <2>1 DEF FormalInvariant, MarkerSound, DrawSound, OneDraw, SentSound, Active, Generating,
                Generates
  <2>3. unnoticed' = 0 \/ (unnoticed' = unnoticed /\ tree' = tree)
    BY <1>2 DEF Freeze, Qualify, Edit, formalVars, files, history
  <2>4. EditSound' /\ EditIsNoticed'
    BY <2>1, <2>3 DEF FormalInvariant, EditSound, EditIsNoticed, Generates
  <2> QED
    BY <1>0, <2>2, <2>4 DEF FormalInvariant
<1> QED
  BY <1>1, <1>2 DEF FormalNext

\* Every reachable state of a formal run, with any number of processes that generate,
\* fail, crash and start again, satisfies the inductive invariant.
THEOREM FormalRunIsSound == FormalSpec => []FormalInvariant
BY InitIsSound, NextKeepsInvariant, PTL DEF FormalSpec

\* A natural sample is drawn at most once, and the trace that is saved is the one drawn.
THEOREM SamplesAreDrawnOnce == FormalSpec => []OneDraw
<1>1. FormalInvariant => OneDraw
  BY DEF FormalInvariant
<1> QED
  BY <1>1, FormalRunIsSound, PTL

\* After an edit of the frozen code at most one more generation attempt is made.
THEOREM EditsAreNoticed == FormalSpec => []EditIsNoticed
<1>1. FormalInvariant => EditIsNoticed
  BY DEF FormalInvariant
<1> QED
  BY <1>1, FormalRunIsSound, PTL

LEMMA QualifyCountsAll ==
  ASSUME FormalInvariant, [FormalNext]_formalVars, qualified' # qualified
  PROVE  sent' = [i \in DOMAIN index' |-> <<index'[i].sample, index'[i].operation,
                                            index'[i].phase, index'[i].retry>>]
<1>1. Qualify
  <2>1. ASSUME NEW s \in Sessions, FormalStep(s) PROVE qualified' = qualified
    BY <2>1 DEF FormalStep, Verify, Mark, Generate, AuditSample, Check, Reserve, Send, Transient,
                NeedsRepair, Valid, Save, Fail, Crash, Begin, Observes, Finish, FinishPartially,
                files
  <2>2. Freeze \/ Edit \/ UNCHANGED formalVars => qualified' = qualified
    BY DEF Freeze, Edit, formalVars, files
  <2> QED
    BY <2>1, <2>2 DEF FormalNext
<1>2. index = ledger /\ sent' = sent /\ index' = index
  BY <1>1 DEF Qualify, Qualifies, history
<1>3. LogSound
  BY SentIs DEF FormalInvariant
<1>4. /\ sent \in Seq(Named \X OperationName \X PhaseName \X Nat)
      /\ index \in Seq(FormalEvent)
  BY DEF FormalInvariant, FormalTypeOK
<1>5. Len(sent) = Len(index) /\ Len(index) \in Nat
  BY <1>2, <1>3, <1>4 DEF LogSound
<1>6. DOMAIN sent = DOMAIN index
  BY <1>4, <1>5
<1>7. \A i \in DOMAIN index : sent[i] = Wire(index[i])
  BY <1>2, <1>3, <1>4, <1>5 DEF LogSound
<1>8. sent = [i \in DOMAIN sent |-> sent[i]]
  BY <1>4
<1> QED
  BY <1>2, <1>6, <1>7, <1>8 DEF Wire

\* A run that qualifies counts every request that was ever sent for it, by whichever
\* process, and nothing else.
THEOREM QualificationCountsAll == FormalSpec => QualifiedIsAllThatWasSent
<1>1. FormalInvariant /\ [FormalNext]_formalVars =>
        [qualified' # qualified =>
           sent' = [i \in DOMAIN index' |-> <<index'[i].sample, index'[i].operation,
                                              index'[i].phase, index'[i].retry>>]]_formalVars
  BY QualifyCountsAll
<1> QED
  BY <1>1, FormalRunIsSound, PTL DEF FormalSpec, QualifiedIsAllThatWasSent

-------------------------------------------------------------------------------
(* The configuration and what qualifies                                    *)

LEMMA LedgerGrows ==
  ASSUME FormalInvariant, [FormalNext]_formalVars
  PROVE  /\ Len(ledger) \in Nat /\ Len(ledger') \in Nat /\ Len(ledger) <= Len(ledger')
         /\ \A i \in 1..Len(ledger) : ledger'[i] = ledger[i]
<1>0. ledger \in Seq(FormalEvent) /\ FormalTypeOK
  BY DEF FormalInvariant, FormalTypeOK
<1>1. ASSUME NEW s \in Sessions, FormalStep(s), ~Reserve(s)
      PROVE  ledger' = ledger
  BY <1>1 DEF FormalStep, Verify, Mark, Generate, AuditSample, Check, Send, Transient, NeedsRepair,
              Valid, Save, Fail, Crash, Begin, Observes, Finish, FinishPartially, files
<1>2. ASSUME NEW s \in Sessions, Reserve(s)
      PROVE  ledger' = ledger \/ ledger' = Append(ledger, EventOf(s))
  BY <1>2 DEF Reserve
<1>3. Freeze \/ Qualify \/ Edit \/ UNCHANGED formalVars => ledger' = ledger
  BY DEF Freeze, Qualify, Edit, formalVars, files
<1>4. ledger' = ledger \/ \E e \in FormalEvent : ledger' = Append(ledger, e)
  BY <1>0, <1>1, <1>2, <1>3, EventHasType DEF FormalNext
<1>5. CASE ledger' = ledger
  BY <1>0, <1>5
<1>6. CASE \E e \in FormalEvent : ledger' = Append(ledger, e)
  BY <1>0, <1>6, AppendStays
<1> QED
  BY <1>4, <1>5, <1>6

\* A process runs on, or it was told to begin; one that is gone does not run.
RunsOn(s) ==
  /\ session'[s].running => session[s].running /\ session'[s].pc # "gone"
  /\ session'[s].pc = "partial" => session'[s].running

LEMMA RunningIs ==
  ASSUME FormalTypeOK, NEW s \in Sessions, FormalStep(s), ~Begin(s)
  PROVE  RunsOn(s)
<1>0. session[s] \in Memory /\ s \in DOMAIN session
  BY DEF FormalTypeOK
<1>1. Gone.running = FALSE /\ Gone.pc = "gone"
  BY DEF Gone, Outside
<1>2. ASSUME NEW pc, Goes(s, pc), pc # "partial"
      PROVE  RunsOn(s)
  <2>1. CASE pc = "gone"
    BY <1>0, <1>1, <1>2, <2>1 DEF Goes, RunsOn
  <2>2. CASE pc # "gone"
    <3>1. session'[s] = [session[s] EXCEPT !.pc = pc]
      BY <1>0, <1>2, <2>2 DEF Goes
    <3>2. session'[s].pc = pc /\ session'[s].running = session[s].running
      BY <1>0, <3>1 DEF Memory
    <3> QED
      BY <1>2, <2>2, <3>2 DEF RunsOn
  <2> QED
    BY <2>1, <2>2
<1>3. ASSUME NEW phase, NEW retry, Again(s, phase, retry)
      PROVE  RunsOn(s)
  <2> DEFINE pc == IF Generates(s) THEN "attempt" ELSE "reserve"
  <2>1. session'[s] = [session[s] EXCEPT !.pc = pc, !.phase = phase, !.retry = retry]
    BY <1>0, <1>3 DEF Again
  <2>2. pc # "gone" /\ pc # "partial"
    OBVIOUS
  <2> HIDE DEF pc
  <2>3. session'[s].pc = pc /\ session'[s].running = session[s].running
    BY <1>0, <2>1 DEF Memory
  <2> QED
    BY <2>2, <2>3 DEF RunsOn
<1>4. Raises(s) => RunsOn(s)
  BY <1>2 DEF Raises
<1>5. ASSUME Exhausted(s) PROVE RunsOn(s)
  <2>1. CASE ~session[s].running
    BY <1>4, <1>5, <2>1 DEF Exhausted
  <2>2. CASE session[s].running
    <3> DEFINE pc == IF Generates(s) THEN "failing" ELSE "partial"
    <3>1. session'[s] = [session[s] EXCEPT !.phase = "exhausted", !.pc = pc]
      BY <1>0, <1>5, <2>2 DEF Exhausted
    <3>2. pc # "gone"
      OBVIOUS
    <3> HIDE DEF pc
    <3>3. session'[s].pc = pc /\ session'[s].running = session[s].running
      BY <1>0, <3>1 DEF Memory
    <3> QED
      BY <2>2, <3>2, <3>3 DEF RunsOn
  <2> QED
    BY <2>1, <2>2
<1>6. CASE Verify(s) \/ Mark(s) \/ Check(s) \/ Send(s) \/ Save(s) \/ Crash(s)
  BY <1>2, <1>6 DEF Verify, Mark, Check, Send, Save, Crash
<1>7. CASE Transient(s) \/ NeedsRepair(s)
  BY <1>3, <1>4, <1>7 DEF Transient, NeedsRepair
<1>8. CASE Reserve(s)
  <2>1. CASE Goes(s, "send") \/ Raises(s) \/ Exhausted(s)
    BY <1>2, <1>4, <1>5, <2>1
  <2>2. CASE session' = [session EXCEPT ![s].pc = "send", ![s].events = Append(@, EventOf(s))]
    BY <1>0, <2>2 DEF Memory, RunsOn
  <2> QED
    BY <1>8, <2>1, <2>2 DEF Reserve
<1>9. CASE Valid(s)
  BY <1>0, <1>2, <1>9 DEF Valid, Memory, RunsOn
<1>10. CASE Fail(s)
  <2>1. \/ session'[s] = [session[s] EXCEPT !.pc = "ready", !.started = Started(s)]
        \/ session[s].running /\ session'[s] = [session[s] EXCEPT !.pc = "partial"]
        \/ session'[s] = Gone
    BY <1>0, <1>10 DEF Fail
  <2> QED
    BY <1>0, <1>1, <2>1 DEF Memory, RunsOn
<1>11. CASE Observes(s) \/ Finish(s) \/ FinishPartially(s)
  BY <1>0, <1>11 DEF Observes, Finish, FinishPartially, Memory, RunsOn
<1>12. CASE \E n \in NaturalIds : Generate(s, n)
  BY <1>0, <1>12 DEF Generate, Memory, RunsOn
<1>13. CASE \E x \in SampleIds : AuditSample(s, x)
  BY <1>0, <1>13 DEF AuditSample, Memory, RunsOn
<1> QED
  BY <1>6, <1>7, <1>8, <1>9, <1>10, <1>11, <1>12, <1>13 DEF FormalStep

\* The parts of ConfigSound.
RunningSound ==
  \A s \in Sessions :
    /\ session[s].running => Active(s) /\ config # NoFile
    /\ session[s].pc = "partial" => session[s].running
EarlySound ==
  config # NoFile =>
    /\ early <= Len(ledger)
    /\ \A n \in NaturalIds :
         config[n].events = {e \in {ledger[i] : i \in 1..early} :
                               e.sample = n /\ e.operation = "generation"}
CandidateSound ==
  candidate \/ qualified => config # NoFile /\ \A s \in Sessions : ~session[s].running
QualifiedSound ==
  qualified =>
    /\ early <= Len(index) /\ Accepts(Plan, index)
    /\ \A n \in NaturalIds : config[n].events = GenerationOf(index, n)
IndexSound == \A i \in 1..Len(index) : index[i] = ledger[i]

LEMMA ConfigSoundIs ==
  ConfigSound <=> RunningSound /\ IndexSound /\ EarlySound /\ CandidateSound /\ QualifiedSound
BY DEF ConfigSound, RunningSound, IndexSound, EarlySound, CandidateSound, QualifiedSound

Reports == <<config, index, candidate, qualified, early>>

LEMMA ReportsStay ==
  ASSUME NEW s \in Sessions, FormalStep(s), ~Begin(s), ~Finish(s), ~FinishPartially(s)
  PROVE  UNCHANGED Reports
BY DEF FormalStep, Verify, Mark, Generate, AuditSample, Check, Reserve, Send, Transient, NeedsRepair,
       Valid, Save, Fail, Crash, Observes, files, history, Reports

LEMMA CorpusIsNoNothing == \A events : CorpusWith(events) # NoFile
<1>1. NaturalIds # {}
  <2>1. Natural \in Seq(SampleIds) /\ Natural # << >>
    BY FormalRunAssumption
  <2>2. 1 \in DOMAIN Natural
    BY <2>1
  <2> QED
    BY <2>2 DEF NaturalIds
<1>2. \A events : DOMAIN CorpusWith(events) = NaturalIds
  BY DEF CorpusWith
<1>3. DOMAIN NoFile = {}
  BY DEF NoFile
<1> QED
  BY <1>1, <1>2, <1>3

\* While a ledger grows, what was said of its beginning stays true.
LEMMA EarlyStays ==
  ASSUME FormalInvariant, [FormalNext]_formalVars, EarlySound, IndexSound,
         config' = config, early' = early
  PROVE  EarlySound' /\ (index' = index => IndexSound')
<1>1. /\ Len(ledger) \in Nat /\ Len(ledger') \in Nat /\ Len(ledger) <= Len(ledger')
      /\ \A i \in 1..Len(ledger) : ledger'[i] = ledger[i]
  BY LedgerGrows
<1>2. early \in Nat /\ Len(index) \in Nat /\ Len(index) <= Len(ledger)
  BY SentIs DEF FormalInvariant, FormalTypeOK, LogSound
<1>3. ASSUME config # NoFile
      PROVE  {ledger'[i] : i \in 1..early} = {ledger[i] : i \in 1..early}
  <2>1. early <= Len(ledger)
    BY <1>3 DEF EarlySound
  <2>2. \A i \in 1..early : ledger'[i] = ledger[i]
    BY <1>1, <1>2, <2>1
  <2> QED
    BY <2>2
<1>4. EarlySound'
  <2> SUFFICES ASSUME config # NoFile PROVE EarlySound'
    BY DEF EarlySound
  <2>1. early <= Len(ledger')
    BY <1>1, <1>2 DEF EarlySound
  <2> QED
    BY <1>3, <2>1 DEF EarlySound
<1>5. index' = index => IndexSound'
  BY <1>1, <1>2 DEF IndexSound
<1> QED
  BY <1>4, <1>5

LEMMA OnlyOneRuns ==
  ASSUME FormalInvariant, RunningSound, NEW s \in Sessions, Active(s),
         NEW t \in Sessions, session[t].running
  PROVE  t = s
BY DEF RunningSound, FormalInvariant, MarkerSound

LEMMA StepKeepsRunning ==
  ASSUME FormalInvariant, RunningSound, NEW s \in Sessions, FormalStep(s),
         config' # NoFile \/ config' = config
  PROVE  RunningSound'
<1>0. FormalTypeOK /\ session[s] \in Memory /\ s \in DOMAIN session
  BY DEF FormalInvariant, FormalTypeOK
<1>1. ASSUME NEW t \in Sessions, t # s
      PROVE  session'[t] = session[t]
  BY <1>0, <1>1, OthersStay
<1>2. CASE Begin(s)
  <2>1. /\ session'[s].pc = "ready" /\ config' # NoFile
    BY <1>0, <1>2, CorpusIsNoNothing DEF Begin, Memory
  <2> QED
    BY <1>1, <2>1 DEF RunningSound, Active
<1>3. CASE ~Begin(s)
  <2>1. RunsOn(s)
    BY <1>0, <1>3, RunningIs
  <2>2. session'[s].running => Active(s) /\ session'[s].pc \notin {"outside", "verified"}
    BY <1>0, <2>1, WorkingGoesOn DEF RunsOn, RunningSound
  <2> QED
    BY <1>1, <2>1, <2>2 DEF RunningSound, Active, RunsOn
<1> QED
  BY <1>2, <1>3

LEMMA BeginKeepsConfig ==
  ASSUME FormalInvariant, ConfigSound, NEW s \in Sessions, Begin(s), RunningSound'
  PROVE  ConfigSound'
<1>0. ledger \in Seq(FormalEvent)
  BY DEF FormalInvariant, FormalTypeOK
<1>1. /\ config = NoFile /\ config' = CorpusWith(ledger) /\ early' = Len(ledger)
      /\ UNCHANGED <<ledger, index, candidate, qualified>>
  BY DEF Begin
<1>2. ~candidate /\ ~qualified /\ IndexSound
  BY <1>1, ConfigSoundIs DEF CandidateSound
<1>3. EarlySound'
  <2>1. ASSUME NEW n \in NaturalIds
        PROVE  config'[n].events = {e \in {ledger[i] : i \in 1..Len(ledger)} :
                                      e.sample = n /\ e.operation = "generation"}
    <3>1. config'[n].events = GenerationOf(ledger, n)
      BY <1>1 DEF CorpusWith
    <3>2. DOMAIN ledger = 1..Len(ledger)
      BY <1>0
    <3> QED
      BY <3>1, <3>2 DEF GenerationOf
  <2>2. Len(ledger) <= Len(ledger)
    BY <1>0
  <2> QED
    BY <1>1, <2>1, <2>2 DEF EarlySound
<1> QED
  BY <1>1, <1>2, <1>3, ConfigSoundIs DEF ConfigSound, RunningSound, IndexSound, EarlySound,
     CandidateSound, QualifiedSound

LEMMA FinishKeepsConfig ==
  ASSUME FormalInvariant, ConfigSound, NEW s \in Sessions, Finish(s) \/ FinishPartially(s),
         FormalStep(s), RunningSound'
  PROVE  ConfigSound'
<1>0. FormalTypeOK /\ session[s] \in Memory /\ s \in DOMAIN session /\ FormalNext
  BY DEF FormalInvariant, FormalTypeOK, FormalNext
<1>1. /\ session[s].running /\ Active(s) /\ config # NoFile /\ session[s].pc # "send"
      /\ index' = session[s].events /\ UNCHANGED <<config, ledger, qualified, early>>
  BY ConfigSoundIs DEF Finish, FinishPartially, RunningSound, history, Active
<1>2. ~qualified /\ ~candidate
  BY <1>1, ConfigSoundIs DEF CandidateSound
<1>3. IndexSound'
  <2>1. InStep(session[s])
    BY <1>1, SentIs DEF FormalInvariant
  <2> QED
    BY <1>1, <2>1 DEF InStep, IndexSound
<1>4. EarlySound'
  BY <1>0, <1>1, ConfigSoundIs, EarlyStays
<1>5. ASSUME NEW t \in Sessions
      PROVE  ~session'[t].running
  <2>1. CASE t = s
    BY <1>0, <2>1 DEF Finish, FinishPartially, Memory
  <2>2. CASE t # s
    <3>1. session'[t] = session[t]
      BY <1>0, <2>2, OthersStay
    <3> QED
      BY <1>1, <2>2, <3>1, OnlyOneRuns, ConfigSoundIs
  <2> QED
    BY <2>1, <2>2
<1>6. CandidateSound'
  BY <1>1, <1>5 DEF CandidateSound
<1>7. QualifiedSound'
  BY <1>1, <1>2 DEF QualifiedSound
<1> QED
  BY <1>3, <1>4, <1>6, <1>7 DEF ConfigSound, RunningSound, IndexSound, EarlySound,
     CandidateSound, QualifiedSound

LEMMA StepKeepsConfig ==
  ASSUME FormalInvariant, ConfigSound, NEW s \in Sessions, FormalStep(s)
  PROVE  ConfigSound'
<1>0. FormalTypeOK /\ FormalNext
  BY DEF FormalInvariant, FormalNext
<1>1. CASE Begin(s)
  <2>1. RunningSound'
    BY <1>1, CorpusIsNoNothing, StepKeepsRunning, ConfigSoundIs DEF Begin
  <2> QED
    BY <1>1, <2>1, BeginKeepsConfig
<1>2. CASE Finish(s) \/ FinishPartially(s)
  <2>1. config' = config
    BY <1>2 DEF Finish, FinishPartially
  <2> QED
    BY <1>0, <1>2, <2>1, StepKeepsRunning, ConfigSoundIs, FinishKeepsConfig
<1>3. CASE ~Begin(s) /\ ~Finish(s) /\ ~FinishPartially(s)
  <2>1. UNCHANGED Reports
    BY <1>3, ReportsStay
  <2>2. RunningSound' /\ EarlySound' /\ IndexSound'
    BY <1>0, <2>1, StepKeepsRunning, EarlyStays, ConfigSoundIs DEF Reports
  <2>3. CandidateSound'
    <3>1. ASSUME NEW t \in Sessions, ~session[t].running
          PROVE  ~session'[t].running
      BY <1>0, <1>3, <3>1, OthersStay, RunningIs DEF RunsOn
    <3> QED
      BY <2>1, <3>1, ConfigSoundIs DEF CandidateSound, Reports
  <2>4. QualifiedSound'
    BY <2>1, ConfigSoundIs DEF QualifiedSound, Reports
  <2> QED
    BY <2>2, <2>3, <2>4 DEF ConfigSound, RunningSound, IndexSound, EarlySound,
       CandidateSound, QualifiedSound
<1> QED
  BY <1>1, <1>2, <1>3

LEMMA QualifyKeepsConfig ==
  ASSUME FormalInvariant, ConfigSound, Qualify
  PROVE  ConfigSound'
<1>1. /\ candidate /\ index = ledger /\ Accepts(Plan, index) /\ config = CorpusWith(index)
      /\ UNCHANGED <<session, config, ledger, index, candidate, early>>
  BY DEF Qualify, Qualifies, SameCorpus, history
<1>2. RunningSound /\ IndexSound /\ EarlySound /\ CandidateSound
  BY ConfigSoundIs
<1>3. RunningSound' /\ IndexSound' /\ EarlySound'
  BY <1>1, <1>2 DEF RunningSound, IndexSound, EarlySound, Active
<1>4. CandidateSound'
  BY <1>1, <1>2 DEF CandidateSound
<1>5. early <= Len(index) /\ \A n \in NaturalIds : config[n].events = GenerationOf(index, n)
  BY <1>1, <1>2 DEF CandidateSound, EarlySound, CorpusWith
<1>6. QualifiedSound'
  BY <1>1, <1>5 DEF QualifiedSound
<1> QED
  BY <1>3, <1>4, <1>6 DEF ConfigSound, RunningSound, IndexSound, EarlySound,
     CandidateSound, QualifiedSound

LEMMA NextKeepsConfig ==
  ASSUME FormalInvariant, ConfigSound, [FormalNext]_formalVars
  PROVE  ConfigSound'
<1>1. CASE Freeze \/ Edit \/ UNCHANGED formalVars
  <2>1. UNCHANGED <<session, config, ledger, index, candidate, qualified, early>>
    BY <1>1 DEF Freeze, Edit, formalVars, files, history
  <2> QED
    BY <2>1 DEF ConfigSound, Active, GenerationOf
<1> QED
  BY <1>1, StepKeepsConfig, QualifyKeepsConfig DEF FormalNext

LEMMA InitIsConfigSound == FormalInit => ConfigSound
<1> SUFFICES ASSUME FormalInit PROVE ConfigSound
  OBVIOUS
<1>1. /\ \A s \in Sessions : session[s].pc = "outside" /\ session[s].running = FALSE
      /\ config = NoFile /\ index = << >> /\ candidate = FALSE /\ qualified = FALSE
  BY DEF FormalInit, Outside, NoFile
<1> QED
  BY <1>1 DEF ConfigSound

-------------------------------------------------------------------------------
(* The reviews that may come after the configuration                       *)

LastNatural == Natural[Len(Natural)]

LEMMA ConcatGoesOn ==
  ASSUME NEW S, NEW p \in Seq(S), NEW q \in Seq(S), NEW k \in 1..Len(q)
  PROVE  Len(p) \in Nat /\ Len(p \o q) = Len(p) + Len(q) /\ (p \o q)[Len(p) + k] = q[k]
OBVIOUS

\* The plan ends with the generation and the review of the last natural sample.
LEMMA PlanEnds ==
  /\ Len(Plan) \in Nat /\ Len(Plan) >= 2 /\ LastNatural \in NaturalIds
  /\ Plan[Len(Plan)] = [sample |-> LastNatural, operation |-> "review"]
  /\ Plan[Len(Plan) - 1] = [sample |-> LastNatural, operation |-> "generation"]
<1> DEFINE Block(x, operation) == [sample |-> x, operation |-> operation]
           n == Len(Natural)
           B == {Block(x, operation) : x \in SampleIds, operation \in {"generation", "review"}}
           P == [i \in DOMAIN Controlled |-> Block(Controlled[i], "review")]
           Q == [k \in 1..(2 * n) |->
                   Block(Natural[(k + 1) \div 2], IF k % 2 = 1 THEN "generation" ELSE "review")]
<1>1. /\ Controlled \in Seq(SampleIds) /\ Natural \in Seq(SampleIds)
      /\ n \in Nat /\ n >= 1 /\ n \in DOMAIN Natural
  BY FormalRunAssumption
<1>2. P \in Seq(B)
  <2>1. Len(Controlled) \in Nat /\ DOMAIN Controlled = 1..Len(Controlled)
    BY <1>1
  <2>2. \A i \in DOMAIN Controlled : Controlled[i] \in SampleIds
    BY <1>1
  <2>3. P \in [1..Len(Controlled) -> B]
    BY <2>1, <2>2
  <2> HIDE DEF P, B
  <2> QED
    BY <2>1, <2>3
<1>3. /\ Q \in Seq(B) /\ Len(Q) = 2 * n
      /\ Q[2 * n] = Block(LastNatural, "review")
      /\ Q[2 * n - 1] = Block(LastNatural, "generation")
  <2>1. ASSUME NEW k \in 1..(2 * n)
        PROVE  (k + 1) \div 2 \in 1..n
    BY <1>1
  <2>2. \A i \in 1..n : Natural[i] \in SampleIds
    BY <1>1
  <2>3. Q \in [1..(2 * n) -> B]
    BY <2>1, <2>2
  <2>4. 2 * n \in 1..(2 * n) /\ 2 * n - 1 \in 1..(2 * n) /\ 2 * n \in Nat
    BY <1>1
  <2>5. (2 * n + 1) \div 2 = n /\ (2 * n) % 2 = 0
        /\ ((2 * n - 1) + 1) \div 2 = n /\ (2 * n - 1) % 2 = 1
    BY <1>1
  <2>6. Q[2 * n] = Block(LastNatural, "review")
    BY <2>4, <2>5 DEF LastNatural
  <2>7. Q[2 * n - 1] = Block(LastNatural, "generation")
    BY <2>4, <2>5 DEF LastNatural
  <2>8. Q \in Seq(B) /\ Len(Q) = 2 * n
    <3> HIDE DEF Q, B
    <3> QED
      BY <2>3, <2>4
  <2> QED
    BY <2>6, <2>7, <2>8
<1>4. Plan = P \o Q
  BY DEF Plan
<1>5. LastNatural \in NaturalIds
  BY <1>1 DEF LastNatural, NaturalIds
<1> HIDE DEF P, Q, B, n
<1> DEFINE m == 2 * n
<1>6. m \in Nat /\ m >= 2 /\ Len(Q) = m
  BY <1>1, <1>3
<1>7. Q[m] = Block(LastNatural, "review") /\ Q[m - 1] = Block(LastNatural, "generation")
  BY <1>3
<1> HIDE DEF m
<1>8. /\ Len(Plan) \in Nat /\ Len(Plan) >= 2
      /\ Plan[Len(Plan)] = Q[m] /\ Plan[Len(Plan) - 1] = Q[m - 1]
  <2>1. m \in 1..Len(Q) /\ m - 1 \in 1..Len(Q)
    BY <1>6
  <2>2. /\ Len(P) \in Nat /\ Len(Plan) = Len(P) + m
        /\ Plan[Len(P) + m] = Q[m] /\ Plan[Len(P) + (m - 1)] = Q[m - 1]
    <3>1. P \in Seq(B) /\ Q \in Seq(B)
      BY <1>2, <1>3
    <3>2. Len(P \o Q) = Len(P) + Len(Q) /\ (P \o Q)[Len(P) + m] = Q[m]
      BY <2>1, <3>1, ConcatGoesOn
    <3>3. Len(P) \in Nat /\ (P \o Q)[Len(P) + (m - 1)] = Q[m - 1]
      BY <2>1, <3>1, ConcatGoesOn
    <3> QED
      BY <1>4, <1>6, <3>2, <3>3
  <2>3. Len(P) + (m - 1) = Len(Plan) - 1
    BY <1>6, <2>2
  <2> QED
    BY <1>6, <2>2, <2>3
<1> QED
  BY <1>5, <1>7, <1>8

\* In a ledger that follows the plan, the last block is entered from the one before.
LEMMA LastBlockIsEntered ==
  ASSUME NEW n \in Nat, NEW L \in Nat, L >= 2, NEW at \in [1..n -> 1..L],
         n # 0 => at[1] = 1,
         \A i \in 2..n : at[i] = at[i - 1] \/ at[i] = at[i - 1] + 1
  PROVE  \A i \in 1..n : at[i] = L => \E j \in 1..n : j < i /\ at[j] = L - 1
<1> DEFINE S == {i \in 0..n : i > 0 /\ at[i] = L => \E j \in 1..n : j < i /\ at[j] = L - 1}
<1>1. 0 \in S
  OBVIOUS
<1>2. ASSUME NEW i \in 0..n, i \in S, i < n
      PROVE  i + 1 \in S
  <2> SUFFICES ASSUME at[i + 1] = L PROVE \E j \in 1..n : j < i + 1 /\ at[j] = L - 1
    BY <1>2
  <2>1. i # 0
    BY <1>2
  <2>2. i \in 1..n /\ i + 1 \in 2..n /\ (i + 1) - 1 = i /\ at[i] \in 1..L
    BY <1>2, <2>1
  <2>3. at[i + 1] = at[i] \/ at[i + 1] = at[i] + 1
    BY <2>2
  <2>4. CASE at[i] = L
    <3>1. PICK j \in 1..n : j < i /\ at[j] = L - 1
      BY <1>2, <2>2, <2>4
    <3>2. j < i + 1
      BY <3>1
    <3> QED
      BY <3>1, <3>2
  <2>5. CASE at[i] = L - 1
    BY <2>2, <2>5
  <2> QED
    BY <2>2, <2>3, <2>4, <2>5
<1>3. \A i \in 0..n : i \in S
  <2> HIDE DEF S
  <2> QED
    BY <1>1, <1>2, UpTo
<1> QED
  BY <1>3

LEMMA BlocksAscend ==
  ASSUME NEW n \in Nat, NEW at \in [1..n -> Nat], NEW j \in 1..n,
         \A i \in 2..n : at[i] = at[i - 1] \/ at[i] = at[i - 1] + 1
  PROVE  \A k \in 1..n : k >= j => at[k] >= at[j]
<1> DEFINE S == {k \in 0..n : k >= j => at[k] >= at[j]}
<1>1. 0 \in S
  OBVIOUS
<1>2. ASSUME NEW k \in 0..n, k \in S, k < n
      PROVE  k + 1 \in S
  <2> SUFFICES ASSUME k + 1 >= j PROVE at[k + 1] >= at[j]
    BY <1>2
  <2>1. CASE k + 1 = j
    BY <2>1
  <2>2. CASE k + 1 # j
    <3>1. k >= j /\ k \in 1..n /\ k + 1 \in 2..n /\ (k + 1) - 1 = k
      BY <1>2, <2>2
    <3>2. at[k] >= at[j] /\ (at[k + 1] = at[k] \/ at[k + 1] = at[k] + 1)
      BY <1>2, <3>1
    <3> QED
      BY <3>1, <3>2
  <2> QED
    BY <2>1, <2>2
<1>3. \A k \in 0..n : k \in S
  <2> HIDE DEF S
  <2> QED
    BY <1>1, <1>2, UpTo
<1> QED
  BY <1>3

LEMMA ConfigPrecedesReviews ==
  ASSUME FormalInvariant, ConfigSound, qualified
  PROVE  \A k \in (early + 1)..Len(index) :
           index[k].operation = "review" /\ index[k].sample = LastNatural
<1> DEFINE n == Len(index)
           L == Len(Plan)
<1>1. /\ early \in Nat /\ early <= n /\ n \in Nat /\ DOMAIN index = 1..n
      /\ Accepts(Plan, index) /\ config # NoFile
      /\ config[LastNatural].events = GenerationOf(index, LastNatural)
      /\ config[LastNatural].events = {e \in {ledger[i] : i \in 1..early} :
                                         e.sample = LastNatural /\ e.operation = "generation"}
      /\ \A i \in 1..n : index[i] = ledger[i]
  BY PlanEnds, ConfigSoundIs
     DEF FormalInvariant, FormalTypeOK, QualifiedSound, CandidateSound, EarlySound, IndexSound
<1>2. PICK at \in [1..n -> 1..L] : Walks(Plan, index, at)
  BY <1>1, PlanEnds, AcceptedIsGrammatical DEF Grammatical
<1>3. L \in Nat /\ L >= 2 /\ n # 0
  BY <1>1, PlanEnds, AcceptedIsGrammatical DEF Grammatical
<1> HIDE DEF L, n
<1>4. /\ at[1] = 1 /\ at[n] = L
      /\ \A i \in 2..n : at[i] = at[i - 1] \/ at[i] = at[i - 1] + 1
      /\ \A i \in 1..n : index[i].sequence = i /\ Names(index[i], Plan[at[i]])
  BY <1>2, <1>3 DEF Walks, n, L
<1>5. ASSUME NEW j \in 1..n, at[j] = L - 1
      PROVE  j <= early
  <2>1. index[j].sample = LastNatural /\ index[j].operation = "generation"
    BY <1>4, <1>5, PlanEnds DEF Names, L
  <2>2. index[j] \in GenerationOf(index, LastNatural)
    BY <1>1, <2>1 DEF GenerationOf
  <2>3. PICK i \in 1..early : index[j] = ledger[i]
    BY <1>1, <2>2
  <2>4. i \in 1..n
    BY <1>1, <1>3
  <2>5. index[j] = index[i]
    BY <1>1, <2>3, <2>4
  <2>6. j = i
    BY <1>4, <2>4, <2>5
  <2> QED
    BY <2>6
<1>6. PICK j \in 1..n : at[j] = L - 1
  <2>1. n \in 1..n
    BY <1>1, <1>3
  <2> QED
    <3>1. \A i \in 1..n : at[i] = L => \E j \in 1..n : j < i /\ at[j] = L - 1
      BY <1>1, <1>2, <1>3, <1>4, LastBlockIsEntered
    <3> QED
      BY <1>4, <2>1, <3>1
<1>7. ASSUME NEW k \in (early + 1)..n
      PROVE  index[k].operation = "review" /\ index[k].sample = LastNatural
  <2>1. k \in 1..n /\ k > early /\ k >= j
    BY <1>1, <1>5, <1>6, <1>7
  <2>2. at \in [1..n -> Nat]
    BY <1>2, <1>3
  <2>3. at[k] >= L - 1
    BY <1>1, <1>4, <1>6, <2>1, <2>2, BlocksAscend
  <2>4. at[k] # L - 1
    BY <1>5, <2>1, <1>1
  <2>5. at[k] = L
    BY <1>2, <1>3, <2>1, <2>3, <2>4
  <2> QED
    BY <1>4, <2>1, <2>5, PlanEnds DEF Names, L
<1> QED
  BY <1>7 DEF n

\* In a run that qualifies, the only attempts after config.json was written are reviews
\* of the last natural sample: all generations and all other reviews came before it.
THEOREM ConfigurationComesLate == FormalSpec => []ReviewsPrecedeConfig
<1>1. FormalInit => FormalInvariant /\ ConfigSound
  BY InitIsSound, InitIsConfigSound
<1>2. FormalInvariant /\ ConfigSound /\ [FormalNext]_formalVars
        => (FormalInvariant /\ ConfigSound)'
  BY NextKeepsInvariant, NextKeepsConfig
<1>3. FormalInvariant /\ ConfigSound => ReviewsPrecedeConfig
  BY ConfigPrecedesReviews DEF ReviewsPrecedeConfig, LastNatural
<1> QED
  BY <1>1, <1>2, <1>3, PTL DEF FormalSpec

================================================================================
