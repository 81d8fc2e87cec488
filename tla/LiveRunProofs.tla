---------------------------- MODULE LiveRunProofs ----------------------------
(***************************************************************************)
(* Proofs about LiveRun, for every number of samples and attempts, every   *)
(* limit, price bound and report, and any number of faults and starts.     *)
(***************************************************************************)
EXTENDS LiveRun, TLAPS

LEMMA InitInvariant == Init => Invariant
<1> SUFFICES ASSUME Init PROVE Invariant
  OBVIOUS
<1> USE LiveRunAssumption DEF Init
<1>1. EvidenceType
  <2>1. ledger \in Seq(EventType)
    OBVIOUS
  <2>2. settled \in [AttemptNumbers -> SettlementType \cup {None}]
    OBVIOUS
  <2>3. observations \in [1..Samples -> {"agreed", "arbitrated", None}]
    OBVIOUS
  <2> QED
    BY <2>1, <2>2, <2>3 DEF EvidenceType
<1>2. ProviderType /\ CallType /\ MemoryType
  BY DEF ProviderType, CallType, MemoryType, Operation, Phase
<1>3. pc \in PcPoint /\ pc \notin Working \cup {"config"}
  BY DEF PcPoint, Working, Ended
<1>4. TypeOK
  BY <1>1, <1>2, <1>3 DEF TypeOK
<1>5. AccountsBalance /\ LedgerCounts /\ EndIsLast /\ CallInRange
  BY <1>3 DEF AccountsBalance, LedgerCounts, EndIsLast, CallInRange, NeverOverspends,
    IndexCoversSent, ReportedIsSettled, Fresh, Held
<1> QED
  BY <1>4, <1>5 DEF Invariant

LEMMA Bounds ==
  ASSUME TypeOK
  PROVE  /\ RmbUpper \in Nat /\ TokensUpper \in Nat
         /\ \A u \in Usages : Rmb(u) \in Nat /\ Tokens(u) \in Nat /\ u # None
<1>1. phase \in Phase /\ Input[phase] \in Nat /\ Output \in Nat
  BY LiveRunAssumption DEF TypeOK, CallType
<1>2. ASSUME NEW u \in Usages PROVE Rmb(u) \in Nat /\ Tokens(u) \in Nat /\ u # None
  <2>1. u \in Usage /\ u # None
    BY LiveRunAssumption
  <2>2. u.prompt \in Nat /\ u.completion \in Nat /\ u.total \in Nat \cup {None}
    BY <2>1 DEF Usage
  <2> QED
    BY <2>1, <2>2 DEF Rmb, Tokens
<1> QED
  BY <1>1, <1>2 DEF RmbUpper, TokensUpper

\* What is known while an attempt is under way: of its money,
Funds ==
  /\ RmbUpper \in Nat /\ TokensUpper \in Nat
  /\ cost \in Nat /\ tokens \in Nat /\ billed.rmb \in Nat /\ billed.tokens \in Nat
  /\ cost <= CostLimit /\ tokens <= TokenLimit

\* of its number,
Counts ==
  /\ used \in Nat /\ refs = used - Consumed /\ used = Consumed + Len(ledger)
  /\ Len(ledger) \in Nat /\ Len(sent) \in Nat
  /\ Len(ledger) <= AttemptLimit - Consumed /\ Len(sent) <= refs
  /\ \A i \in 1..Len(sent) :
       sent[i] \in AttemptNumbers /\ sent[i] \in reserved /\ sent[i] <= used
  /\ \A i, j \in 1..Len(sent) : i < j => sent[i] < sent[j]

\* and of the run.
Unreported == config /\ index = None /\ report = None /\ sample \in 1..Samples

LEMMA AttemptFacts ==
  ASSUME Invariant, pc \in {"reserve", "record", "reservation", "post", "answer", "settle"}
  PROVE  Funds /\ Counts /\ Unreported
<1> USE LiveRunAssumption DEF Invariant, Working, Final, PcPoint, Ended
<1>1. RmbUpper \in Nat /\ TokensUpper \in Nat
  BY Bounds
<1>2. config /\ index = None /\ report = None
  BY DEF EndIsLast
<1>3. sample \in 1..Samples
  BY DEF TypeOK, CallType, CallInRange
<1>4. /\ cost \in Nat /\ tokens \in Nat /\ billed.rmb \in Nat /\ billed.tokens \in Nat
      /\ cost <= CostLimit /\ tokens <= TokenLimit
  BY DEF TypeOK, ProviderType, MemoryType, AccountsBalance
<1>5. /\ used \in Nat /\ Len(ledger) \in Nat /\ Len(sent) \in Nat
      /\ \A i \in 1..Len(sent) : sent[i] \in AttemptNumbers
  BY DEF TypeOK, EvidenceType, ProviderType, MemoryType
<1>6. /\ refs = used - Consumed /\ used = Consumed + Len(ledger)
      /\ Len(ledger) <= AttemptLimit - Consumed /\ Len(sent) <= refs
      /\ \A i \in 1..Len(sent) : sent[i] \in reserved /\ sent[i] <= used
      /\ \A i, j \in 1..Len(sent) : i < j => sent[i] < sent[j]
  BY DEF LedgerCounts
<1> QED
  BY <1>1, <1>2, <1>3, <1>4, <1>5, <1>6 DEF Funds, Counts, Unreported

LEMMA ReserveInvariant ==
  ASSUME Invariant, Reserve
  PROVE  Invariant'
<1> USE DEF Invariant
<1>1. pc = "reserve" /\ pc' \in {"record", "finalize"}
  BY DEF Reserve, Goes
<1>2. Funds /\ Counts /\ Unreported
  BY <1>1, AttemptFacts
<1>3. UNCHANGED <<config, ledger, reserved, settled, observations, index, failure, report,
                  sent, billed, sample, doing, phase, retry, used, refs, due, pending,
                  after, faults, starts, RmbUpper, TokensUpper>>
  BY DEF Reserve, evidence, provider, call, RmbUpper, TokensUpper
<1>4. \/ /\ pc' = "record" /\ ending' = ending
         /\ cost' = cost + RmbUpper /\ cost' <= CostLimit
         /\ tokens' = tokens + TokensUpper /\ tokens' <= TokenLimit
      \/ pc' = "finalize" /\ ending' = "partial" /\ cost' = cost /\ tokens' = tokens
  BY DEF Reserve, Goes, Fits, guards
<1>5. TypeOK'
  BY <1>2, <1>3, <1>4
  DEF TypeOK, EvidenceType, ProviderType, CallType, MemoryType, PcPoint, Funds
<1>6. AccountsBalance'
  <2>1. billed.rmb <= cost /\ billed.tokens <= tokens /\ NeverOverspends
    BY <1>1 DEF AccountsBalance, Held, Working, PcPoint, Ended
  <2> QED
    BY <1>2, <1>3, <1>4, <2>1 DEF AccountsBalance, NeverOverspends, Held, Funds
<1>7. LedgerCounts'
  BY <1>1, <1>3, <1>4 DEF LedgerCounts, Working, Final, PcPoint, Ended
<1>8. EndIsLast' /\ CallInRange'
  BY <1>1, <1>3, <1>4 DEF EndIsLast, Fresh, IndexCoversSent, ReportedIsSettled, CallInRange,
    Working, Final, PcPoint, Ended
<1> QED
  BY <1>5, <1>6, <1>7, <1>8

\* Giving a reservation back leaves the accounts in balance.
LEMMA CancelBalances ==
  ASSUME Funds, NeverOverspends, pc' \in {"fail", "finalize"},
         billed.rmb + RmbUpper <= cost, billed.tokens + TokensUpper <= tokens,
         billed' = billed, cost' = cost - RmbUpper, tokens' = tokens - TokensUpper
  PROVE  AccountsBalance'
<1>1. CostLimit \in Nat /\ TokenLimit \in Nat
  BY LiveRunAssumption
<1>2. /\ RmbUpper \in Nat /\ TokensUpper \in Nat
      /\ cost \in Nat /\ tokens \in Nat /\ billed.rmb \in Nat /\ billed.tokens \in Nat
      /\ cost <= CostLimit /\ tokens <= TokenLimit
  BY DEF Funds
<1>3. cost' <= CostLimit /\ tokens' <= TokenLimit
  BY <1>1, <1>2
<1>4. billed.rmb <= cost' /\ billed.tokens <= tokens'
  BY <1>2
<1> QED
  BY <1>3, <1>4 DEF AccountsBalance, NeverOverspends, Held

\* An attempt is recorded, is not, or was the last.
LEMMA RecordInvariant ==
  ASSUME Invariant, Record
  PROVE  Invariant'
<1> USE DEF Invariant
<1>1. pc = "record" /\ pc' \in {"reservation", "fail", "finalize"}
  BY DEF Record, Goes
<1>2. Funds /\ Counts /\ Unreported
  BY <1>1, AttemptFacts
<1>3. UNCHANGED <<config, reserved, settled, observations, index, failure, report, sent, billed,
                  sample, doing, phase, retry, due, pending, after, starts,
                  RmbUpper, TokensUpper>>
  BY DEF Record, provider, call, RmbUpper, TokensUpper
<1>4. /\ billed.rmb + RmbUpper <= cost /\ billed.tokens + TokensUpper <= tokens
      /\ NeverOverspends
  BY <1>1 DEF AccountsBalance, Held
<1>5. \A i \in 1..Len(sent) : settled[sent[i]] # None
  BY <1>1 DEF EndIsLast, Working, Final, PcPoint, Ended
<1>6. /\ ledger \in Seq(EventType) /\ Append(ledger, Event) \in Seq(EventType)
      /\ Len(Append(ledger, Event)) = Len(ledger) + 1
  <2>1. Event \in EventType
    BY <1>2 DEF TypeOK, CallType, Event, EventType, Counts, Unreported
  <2> QED
    BY <2>1 DEF TypeOK, EvidenceType
<1>7. CASE /\ pc' = "reservation" /\ BudgetLeft
           /\ ledger' = Append(ledger, Event) /\ refs' = refs + 1 /\ used' = used + 1
           /\ UNCHANGED <<cost, tokens, ending, faults>>
  <2>1. /\ Len(ledger') = Len(ledger) + 1 /\ Len(ledger') <= AttemptLimit - Consumed
        /\ used' = Consumed + Len(ledger') /\ used' \in AttemptNumbers
    BY <1>2, <1>6, <1>7, LiveRunAssumption DEF BudgetLeft, Counts, AttemptNumbers
  <2>2. TypeOK'
    BY <1>2, <1>3, <1>6, <1>7, LiveRunAssumption
    DEF TypeOK, EvidenceType, ProviderType, CallType, MemoryType, PcPoint, Counts
  <2>3. AccountsBalance'
    BY <1>2, <1>3, <1>4, <1>7 DEF AccountsBalance, NeverOverspends, Held, Funds
  <2>4. LedgerCounts'
    <3>1. Consumed \in Nat /\ AttemptLimit \in Nat
      BY LiveRunAssumption
    <3>2. \A i \in 1..Len(sent) :
            /\ sent[i] \in Nat /\ sent[i] \in reserved
            /\ sent[i] <= used /\ sent[i] < used' /\ sent[i] <= Consumed + Len(ledger')
      BY <1>2, <1>7, <2>1, <3>1 DEF Counts, AttemptNumbers
    <3>3. /\ Len(ledger) \in Nat /\ Len(sent) \in Nat /\ used \in Nat
          /\ used = Consumed + Len(ledger) /\ refs = used - Consumed /\ Len(sent) <= refs
          /\ \A i, j \in 1..Len(sent) : i < j => sent[i] < sent[j]
      BY <1>2 DEF Counts
    <3>4. /\ refs' = used' - Consumed /\ Consumed <= used' /\ used' = Consumed + Len(ledger')
          /\ Len(sent) < refs' /\ Len(sent) <= Len(ledger')
      BY <1>7, <2>1, <3>1, <3>3
    <3>5. sent' = sent /\ reserved' = reserved /\ pc' = "reservation"
      BY <1>3, <1>7
    <3> QED
      BY <2>1, <3>2, <3>3, <3>4, <3>5 DEF LedgerCounts, Final
  <2>5. EndIsLast' /\ CallInRange'
    BY <1>2, <1>3, <1>5, <1>7 DEF EndIsLast, Fresh, IndexCoversSent, ReportedIsSettled,
      CallInRange, Final, Unreported
  <2> QED
    BY <2>2, <2>3, <2>4, <2>5
<1>8. CASE /\ pc' \in {"fail", "finalize"}
           /\ ledger' \in {ledger, Append(ledger, Event)} /\ Len(ledger') <= AttemptLimit - Consumed
           /\ cost' = cost - RmbUpper /\ tokens' = tokens - TokensUpper
           /\ used' = used /\ refs' = refs /\ faults' \in {faults, faults + 1}
           /\ ending' \in {ending, "partial"}
           /\ pc' = "finalize" => ending' = "partial"
  <2>1. /\ Len(ledger') \in {Len(ledger), Len(ledger) + 1}
        /\ ledger' \in Seq(EventType)
    BY <1>6, <1>8
  <2>2. TypeOK'
    <3>1. cost' \in Nat /\ tokens' \in Nat
      BY <1>2, <1>4, <1>8 DEF Funds
    <3>2. MemoryType'
      BY <1>3, <1>8, <3>1 DEF TypeOK, MemoryType
    <3>3. EvidenceType' /\ ProviderType' /\ CallType'
      BY <1>3, <2>1 DEF TypeOK, EvidenceType, ProviderType, CallType
    <3> QED
      BY <1>3, <1>8, <3>2, <3>3 DEF TypeOK, PcPoint
  <2>3. AccountsBalance'
    BY <1>2, <1>3, <1>4, <1>8, CancelBalances
  <2>4. LedgerCounts'
    <3>1. Consumed \in Nat /\ AttemptLimit \in Nat /\ Len(ledger') \in Nat
      BY <2>1, LiveRunAssumption
    <3>2. \A i \in 1..Len(sent) :
            /\ sent[i] \in Nat /\ sent[i] \in reserved
            /\ sent[i] <= used /\ sent[i] <= Consumed + Len(ledger')
      BY <1>2, <2>1, <3>1 DEF Counts, AttemptNumbers
    <3>3. /\ Len(ledger) \in Nat /\ Len(sent) \in Nat /\ used \in Nat
          /\ used = Consumed + Len(ledger) /\ refs = used - Consumed /\ Len(sent) <= refs
          /\ \A i, j \in 1..Len(sent) : i < j => sent[i] < sent[j]
      BY <1>2 DEF Counts
    <3>4. /\ Consumed <= used /\ used <= Consumed + Len(ledger') /\ Len(sent) <= Len(ledger')
      BY <2>1, <3>1, <3>3
    <3>5. /\ sent' = sent /\ reserved' = reserved /\ used' = used /\ refs' = refs
          /\ pc' \in {"fail", "finalize"} /\ Len(ledger') <= AttemptLimit - Consumed
      BY <1>3, <1>8
    <3> QED
      BY <3>2, <3>3, <3>4, <3>5 DEF LedgerCounts, Final
  <2>5. EndIsLast' /\ CallInRange'
    BY <1>2, <1>3, <1>5, <1>8 DEF EndIsLast, Fresh, IndexCoversSent, ReportedIsSettled,
      CallInRange, Final, Unreported
  <2> QED
    BY <2>2, <2>3, <2>4, <2>5
<1>9. Len(ledger) + 1 <= AttemptLimit - Consumed \/ ~BudgetLeft
  BY <1>2, LiveRunAssumption DEF BudgetLeft, Counts
<1> QED
  BY <1>1, <1>2, <1>6, <1>7, <1>8, <1>9 DEF Record, Goes, Cancel, Fault, Counts, guards

LEMMA WriteReservationInvariant ==
  ASSUME Invariant, WriteReservation
  PROVE  Invariant'
<1> USE DEF Invariant
<1>1. pc = "reservation" /\ pc' \in {"post", "fail"}
  BY DEF WriteReservation, Goes
<1>2. Funds /\ Counts /\ Unreported
  BY <1>1, AttemptFacts
<1>3. UNCHANGED <<config, ledger, settled, observations, index, failure, report, sent, billed,
                  sample, doing, phase, retry, used, refs, due, pending, after, ending, starts,
                  RmbUpper, TokensUpper>>
  BY DEF WriteReservation, provider, call, memory, RmbUpper, TokensUpper
<1>4. /\ billed.rmb + RmbUpper <= cost /\ billed.tokens + TokensUpper <= tokens
      /\ NeverOverspends
  BY <1>1 DEF AccountsBalance, Held
<1>5. /\ used \in AttemptNumbers /\ Len(sent) < refs
      /\ \A i \in 1..Len(sent) : sent[i] < used
  BY <1>1 DEF LedgerCounts
<1>6. reserved' \in {reserved, reserved \cup {used}} /\ (pc' = "post" => used \in reserved')
  BY DEF WriteReservation, Documented, Goes
<1>7. /\ faults' \in {faults, faults + 1}
      /\ \/ pc' = "post" /\ cost' = cost /\ tokens' = tokens
         \/ pc' = "fail" /\ cost' = cost - RmbUpper /\ tokens' = tokens - TokensUpper
  BY DEF WriteReservation, Fault, Goes, Cancel, guards
<1>8. TypeOK'
  <2>1. cost' \in Nat /\ tokens' \in Nat
    BY <1>2, <1>4, <1>7 DEF Funds
  <2>2. reserved' \subseteq AttemptNumbers
    BY <1>5, <1>6 DEF TypeOK, EvidenceType
  <2>3. faults' \in Nat /\ pc' \in PcPoint
    BY <1>7 DEF TypeOK, PcPoint
  <2> QED
    BY <1>3, <2>1, <2>2, <2>3 DEF TypeOK, EvidenceType, ProviderType, CallType, MemoryType
<1>9. AccountsBalance'
  <2>1. CASE pc' = "post" /\ cost' = cost /\ tokens' = tokens
    BY <1>2, <1>3, <1>4, <2>1 DEF AccountsBalance, NeverOverspends, Held, Funds
  <2>2. CASE pc' = "fail" /\ cost' = cost - RmbUpper /\ tokens' = tokens - TokensUpper
    BY <1>2, <1>3, <1>4, <2>2, CancelBalances
  <2> QED
    BY <1>7, <2>1, <2>2
<1>10. LedgerCounts'
  BY <1>2, <1>3, <1>5, <1>6, <1>7, LiveRunAssumption
  DEF LedgerCounts, Final, Counts, AttemptNumbers
<1>11. EndIsLast' /\ CallInRange'
  BY <1>1, <1>2, <1>3, <1>7 DEF EndIsLast, Fresh, IndexCoversSent, ReportedIsSettled,
    CallInRange, Working, Final, PcPoint, Ended, Unreported
<1> QED
  BY <1>8, <1>9, <1>10, <1>11

\* The request is transmitted: its number is the next, its bill is reserved.
LEMMA PostInvariant ==
  ASSUME Invariant, Post
  PROVE  Invariant'
<1> USE DEF Invariant
<1>1. pc = "post" /\ pc' = "answer" /\ sent' = Append(sent, used)
  BY DEF Post, Goes
<1>2. Funds /\ Counts /\ Unreported
  BY <1>1, AttemptFacts
<1>3. UNCHANGED <<config, ledger, reserved, settled, observations, index, failure, report,
                  sample, doing, phase, retry, cost, tokens, used, refs, pending, after,
                  ending, faults, starts, RmbUpper, TokensUpper, Billable>>
  BY DEF Post, evidence, call, guards, RmbUpper, TokensUpper, Billable
<1>4. /\ billed.rmb + RmbUpper <= cost /\ billed.tokens + TokensUpper <= tokens
  BY <1>1 DEF AccountsBalance, Held
<1>5. /\ used \in AttemptNumbers /\ used \in reserved /\ Len(sent) < refs
      /\ \A i \in 1..Len(sent) : sent[i] < used
  BY <1>1 DEF LedgerCounts
<1>6. /\ sent' \in Seq(AttemptNumbers) /\ Len(sent') = Len(sent) + 1
      /\ sent'[Len(sent')] = used
      /\ \A i \in 1..Len(sent') : i = Len(sent') \/ (i \in 1..Len(sent) /\ sent'[i] = sent[i])
  <2>1. sent \in Seq(AttemptNumbers)
    BY DEF TypeOK, ProviderType
  <2>2. /\ Append(sent, used) \in Seq(AttemptNumbers)
        /\ Len(Append(sent, used)) = Len(sent) + 1
    BY <1>5, <2>1
  <2>3. \A i \in 1..Len(sent) : Append(sent, used)[i] = sent[i]
    BY <1>5, <2>1
  <2>4. Append(sent, used)[Len(sent) + 1] = used
    BY <1>5, <2>1
  <2>5. Len(sent) \in Nat
    BY <2>1
  <2> QED
    BY <1>1, <2>2, <2>3, <2>4, <2>5
<1>7. PICK u \in Billable :
        due' = u /\ billed' = [rmb |-> billed.rmb + Rmb(u), tokens |-> billed.tokens + Tokens(u)]
  BY DEF Post
<1>8. /\ u \in Usages /\ Rmb(u) \in Nat /\ Tokens(u) \in Nat
      /\ Rmb(u) <= RmbUpper /\ Tokens(u) <= TokensUpper
  BY Bounds DEF Billable
<1>9. billed'.rmb = billed.rmb + Rmb(u) /\ billed'.tokens = billed.tokens + Tokens(u)
  BY <1>7
<1>10. TypeOK'
  <2>1. billed' \in [rmb : Nat, tokens : Nat]
    BY <1>2, <1>7, <1>8 DEF Funds
  <2> QED
    BY <1>1, <1>3, <1>6, <1>7, <1>8, <2>1
    DEF TypeOK, EvidenceType, ProviderType, CallType, MemoryType, PcPoint
<1>11. AccountsBalance'
  <2>1. NeverOverspends'
    BY <1>2, <1>4, <1>8, <1>9, LiveRunAssumption DEF NeverOverspends, Funds
  <2>2. (due \in Billable)'
    BY <1>3, <1>7
  <2>3. /\ (billed.rmb + RmbUpper <= cost + Rmb(due))'
        /\ (billed.tokens + TokensUpper <= tokens + Tokens(due))'
    BY <1>2, <1>3, <1>4, <1>7, <1>8, <1>9 DEF Funds
  <2>4. (cost <= CostLimit /\ tokens <= TokenLimit)'
    BY <1>2, <1>3 DEF Funds
  <2> QED
    BY <1>1, <2>1, <2>2, <2>3, <2>4 DEF AccountsBalance, Held
<1>12. LedgerCounts'
  <2>1. \A i \in 1..Len(sent') : sent'[i] \in reserved /\ sent'[i] <= used
    BY <1>2, <1>5, <1>6 DEF Counts
  <2>2. \A i, j \in 1..Len(sent') : i < j => sent'[i] < sent'[j]
    BY <1>2, <1>5, <1>6 DEF Counts
  <2> QED
    BY <1>1, <1>2, <1>3, <1>5, <1>6, <2>1, <2>2, LiveRunAssumption
    DEF LedgerCounts, Final, Counts
<1>13. EndIsLast' /\ CallInRange'
  <2>1. \A i \in 1..Len(sent) : settled[sent[i]] # None
    BY <1>1 DEF EndIsLast, Working, Final, PcPoint, Ended
  <2> QED
    BY <1>1, <1>2, <1>3, <1>6, <2>1 DEF EndIsLast, Fresh, IndexCoversSent, ReportedIsSettled,
      CallInRange, Working, Final, PcPoint, Ended, Unreported
<1> QED
  BY <1>10, <1>11, <1>12, <1>13

\* What the client charges for an answer covers what was billed for it.
LEMMA ChargeCovers ==
  ASSUME Invariant, pc = "answer", NEW u \in Reports
  PROVE  LET rmb == Charge(RmbUpper, u, Rmb(u))
             tok == Charge(TokensUpper, u, Tokens(u)) IN
         /\ rmb \in Nat /\ tok \in Nat /\ rmb <= RmbUpper /\ tok <= TokensUpper
         /\ billed.rmb + RmbUpper <= cost + rmb
         /\ billed.tokens + TokensUpper <= tokens + tok
<1>1. Funds
  BY AttemptFacts
<1>2. /\ due \in Billable
      /\ billed.rmb + RmbUpper <= cost + Rmb(due)
      /\ billed.tokens + TokensUpper <= tokens + Tokens(due)
  BY DEF Invariant, AccountsBalance
<1>3. /\ Rmb(due) \in Nat /\ Tokens(due) \in Nat
      /\ Rmb(due) <= RmbUpper /\ Tokens(due) <= TokensUpper
  BY <1>2, Bounds DEF Invariant, Billable
<1>4. ASSUME u # None
      PROVE  /\ Rmb(u) \in Nat /\ Tokens(u) \in Nat
             /\ Rmb(due) <= Rmb(u) /\ Tokens(due) <= Tokens(u)
  BY <1>3, <1>4, Bounds DEF Invariant, Reports
<1> QED
  BY <1>1, <1>2, <1>3, <1>4 DEF Charge, Least, Funds

\* The provider's answer, or its absence: the reservation covers the bill.
LEMMA AnswerInvariant ==
  ASSUME Invariant, TransportError \/ Response
  PROVE  Invariant'
<1> USE DEF Invariant
<1>1. pc = "answer" /\ pc' = "settle" /\ due' = None
  BY DEF TransportError, Response, Goes
<1>2. Funds /\ Counts /\ Unreported
  BY <1>1, AttemptFacts
<1>3. UNCHANGED <<config, ledger, reserved, settled, observations, index, failure, report,
                  sent, billed, sample, doing, phase, retry, used, refs, ending, faults, starts>>
  BY DEF TransportError, Response, evidence, provider, call
<1>4. /\ after' \in Following /\ after' # None
      /\ after' = "retry" => retry < MaxAttempts
  <2>1. retry \in 1..MaxAttempts
    BY DEF TypeOK, CallType
  <2> QED
    BY <2>1, LiveRunAssumption DEF TransportError, Response, Retry, Repair, Following
<1>5. /\ cost' \in Nat /\ tokens' \in Nat /\ cost' <= cost /\ tokens' <= tokens
      /\ billed.rmb <= cost' /\ billed.tokens <= tokens'
      /\ pending' \in SettlementType
  <2>1. CASE TransportError
    <3>1. None \in Reports
      BY DEF Reports
    <3>2. cost' = cost /\ tokens' = tokens
      BY <2>1 DEF TransportError, guards
    <3>3. pending' = [usage |-> None, rmb |-> RmbUpper, tokens |-> TokensUpper,
                      allRmb |-> cost', allTokens |-> tokens']
      BY <2>1 DEF TransportError, Settlement
    <3>4. billed.rmb <= cost /\ billed.tokens <= tokens
      BY <1>1, <1>2, <3>1, ChargeCovers DEF Charge, Funds
    <3> QED
      BY <1>2, <3>2, <3>3, <3>4 DEF Funds, SettlementType
  <2>2. CASE Response
    <3> DEFINE rmb(u) == Charge(RmbUpper, u, Rmb(u))
               tok(u) == Charge(TokensUpper, u, Tokens(u))
    <3>1. PICK u \in Reports :
            /\ cost' = cost - (RmbUpper - rmb(u)) /\ tokens' = tokens - (TokensUpper - tok(u))
            /\ pending' = [usage |-> u, rmb |-> rmb(u), tokens |-> tok(u),
                           allRmb |-> cost', allTokens |-> tokens']
      BY <2>2 DEF Response, Settlement
    <3>2. /\ rmb(u) \in Nat /\ tok(u) \in Nat /\ rmb(u) <= RmbUpper /\ tok(u) <= TokensUpper
          /\ billed.rmb + RmbUpper <= cost + rmb(u)
          /\ billed.tokens + TokensUpper <= tokens + tok(u)
      BY <1>1, ChargeCovers
    <3>3. u \in Usages \cup {None}
      BY DEF Reports
    <3> HIDE DEF rmb, tok
    <3>4. /\ cost' \in Nat /\ tokens' \in Nat /\ cost' <= cost /\ tokens' <= tokens
          /\ billed.rmb <= cost' /\ billed.tokens <= tokens'
      BY <1>2, <3>1, <3>2 DEF Funds
    <3> QED
      BY <3>1, <3>2, <3>3, <3>4 DEF SettlementType
  <2> QED
    BY <2>1, <2>2
<1>6. pending' # None
  BY <1>5, LiveRunAssumption
<1>7. TypeOK'
  BY <1>1, <1>3, <1>4, <1>5
  DEF TypeOK, EvidenceType, ProviderType, CallType, MemoryType, PcPoint
<1>8. AccountsBalance'
  <2>1. NeverOverspends
    BY DEF AccountsBalance
  <2> QED
    BY <1>1, <1>2, <1>3, <1>5, <2>1, LiveRunAssumption
    DEF AccountsBalance, NeverOverspends, Held, Funds
<1>9. LedgerCounts'
  BY <1>1, <1>3 DEF LedgerCounts, Working, Final, PcPoint, Ended
<1>10. EndIsLast' /\ CallInRange'
  BY <1>1, <1>2, <1>3, <1>4, <1>6 DEF EndIsLast, Fresh, IndexCoversSent, ReportedIsSettled,
    CallInRange, Working, Final, PcPoint, Ended, Unreported
<1> QED
  BY <1>7, <1>8, <1>9, <1>10

\* Steps after which the process is over keep what is published and sent.
LEMMA EndsInvariant ==
  ASSUME Invariant, TypeOK', pc' \in Ended,
         UNCHANGED <<ledger, reserved, sent, billed>>,
         (~config => Fresh)', IndexCoversSent', ReportedIsSettled'
  PROVE  Invariant'
<1>1. /\ pc' \notin Working /\ pc' # "config" /\ pc' # "settle"
      /\ pc' \notin Held \cup {"answer", "settle", "failure", "report", "finalize"}
  BY DEF Ended, Working, Held, PcPoint
<1>2. AccountsBalance'
  BY <1>1 DEF Invariant, AccountsBalance, NeverOverspends
<1>3. LedgerCounts'
  BY <1>1 DEF Invariant, LedgerCounts, Held
<1>4. EndIsLast' /\ CallInRange'
  BY <1>1 DEF EndIsLast, CallInRange
<1> QED
  BY <1>2, <1>3, <1>4 DEF Invariant

\* Steps of the process between two attempts.
Between == {"sample", "reserve", "done", "trace", "result", "observation", "fail"}

LEMMA BetweenInvariant ==
  ASSUME Invariant, TypeOK', CallInRange',
         pc \in Between, pc' \in Between, pc = "fail" => pc' = "fail",
         UNCHANGED <<config, ledger, reserved, settled, index, failure, report,
                     sent, billed, cost, tokens, used, refs>>
  PROVE  Invariant'
<1> USE DEF Invariant, Between, Working, Final, Held, PcPoint, Ended
<1>1. AccountsBalance'
  BY DEF AccountsBalance, NeverOverspends
<1>2. LedgerCounts'
  BY DEF LedgerCounts
<1>3. EndIsLast'
  BY DEF EndIsLast, Fresh, IndexCoversSent, ReportedIsSettled
<1> QED
  BY <1>1, <1>2, <1>3

\* The step to the end of the run.
LEMMA FinalizeInvariant ==
  ASSUME Invariant, TypeOK', pc \in {"sample", "fail"}, pc' = "finalize",
         ending' \in {"complete", "failed"}, pc = "fail" => ending' = "failed",
         UNCHANGED <<config, ledger, reserved, settled, index, failure, report,
                     sent, billed, cost, tokens, used, refs>>
  PROVE  Invariant'
<1> USE DEF Invariant, Working, Final, Held, PcPoint, Ended
<1>1. AccountsBalance'
  BY DEF AccountsBalance, NeverOverspends
<1>2. LedgerCounts'
  BY DEF LedgerCounts
<1>3. EndIsLast' /\ CallInRange'
  BY DEF EndIsLast, CallInRange, Fresh, IndexCoversSent, ReportedIsSettled
<1> QED
  BY <1>1, <1>2, <1>3

LEMMA StartInvariant ==
  ASSUME Invariant, Start
  PROVE  Invariant'
<1> USE DEF Invariant, Start, Goes, evidence, provider
<1>1. TypeOK'
  BY LiveRunAssumption
  DEF TypeOK, EvidenceType, ProviderType, CallType, MemoryType, PcPoint, Operation, Phase
<1>2. AccountsBalance'
  BY DEF AccountsBalance, NeverOverspends, Held, Working, PcPoint, Ended
<1>3. LedgerCounts'
  BY DEF LedgerCounts, Held, Working, PcPoint, Ended
<1>4. EndIsLast' /\ CallInRange'
  BY DEF EndIsLast, CallInRange, Fresh, IndexCoversSent, ReportedIsSettled, Working, PcPoint, Ended
<1> QED
  BY <1>1, <1>2, <1>3, <1>4

LEMMA WriteConfigInvariant ==
  ASSUME Invariant, WriteConfig
  PROVE  Invariant'
<1> USE DEF Invariant
<1>1. /\ pc = "config"
      /\ UNCHANGED <<ledger, reserved, settled, observations, index, failure, report, sent,
                     billed, sample, doing, phase, retry, cost, tokens, used, refs, due,
                     pending, after, ending, starts>>
      /\ config' \in {config, TRUE} /\ faults' \in {faults, faults + 1}
      /\ pc' \in {"sample", "artifact_failed"}
  BY DEF WriteConfig, provider, call, guards, memory, Fault, Goes
<1>2. TypeOK'
  <2>1. config' \in BOOLEAN
    BY <1>1 DEF TypeOK, EvidenceType
  <2> QED
    BY <1>1, <2>1 DEF TypeOK, EvidenceType, ProviderType, CallType, MemoryType, PcPoint, Ended
<1>3. CASE pc' = "artifact_failed"
  <2>1. ~config => Fresh
    BY DEF EndIsLast
  <2>2. (~config => Fresh)'
    <3>1. config' = config \/ config' = TRUE
      BY <1>1
    <3>2. UNCHANGED Fresh
      BY <1>1 DEF Fresh
    <3> QED
      BY <2>1, <3>1, <3>2
  <2>3. IndexCoversSent' /\ ReportedIsSettled'
    BY <1>1 DEF EndIsLast, IndexCoversSent, ReportedIsSettled
  <2> QED
    BY <1>1, <1>2, <1>3, <2>2, <2>3, EndsInvariant DEF Ended
<1>4. CASE pc' = "sample"
  <2>1. ~config /\ config'
    BY <1>4 DEF WriteConfig, Goes
  <2>2. /\ ledger = <<>> /\ sent = <<>> /\ index = None /\ report = None
        /\ billed = [rmb |-> 0, tokens |-> 0] /\ Len(sent) = 0 /\ Len(ledger) = 0
    BY <2>1 DEF EndIsLast, Fresh
  <2>3. cost = 0 /\ tokens = 0 /\ used = Consumed /\ refs = 0
    BY <1>1 DEF AccountsBalance, LedgerCounts
  <2>4. AccountsBalance'
    BY <1>1, <1>4, <2>2, <2>3, LiveRunAssumption DEF AccountsBalance, NeverOverspends, Held
  <2>5. LedgerCounts'
    BY <1>1, <1>4, <2>2, <2>3, LiveRunAssumption DEF LedgerCounts, Final
  <2>6. EndIsLast' /\ CallInRange'
    BY <1>1, <1>4, <2>1, <2>2 DEF EndIsLast, CallInRange, IndexCoversSent, ReportedIsSettled, Final
  <2> QED
    BY <1>2, <2>4, <2>5, <2>6
<1> QED
  BY <1>1, <1>3, <1>4

LEMMA TakeSampleInvariant ==
  ASSUME Invariant, TakeSample
  PROVE  Invariant'
<1> USE DEF Invariant
<1>1. /\ pc = "sample"
      /\ UNCHANGED <<config, ledger, reserved, settled, observations, index, failure, report,
                     sent, billed, sample, cost, tokens, used, refs, due, pending, after,
                     faults, starts>>
      /\ \/ pc' \in {"reserve", "trace"} /\ sample \in 1..Samples /\ ending' = ending
         \/ pc' = "finalize" /\ ending' = "complete"
      /\ \/ doing' = "generate" /\ phase' = "request" /\ retry' = 1
         \/ doing' = doing /\ phase' = phase /\ retry' = retry
  BY LiveRunAssumption DEF TakeSample, Request, Goes, evidence, provider, guards
<1>2. TypeOK'
  BY <1>1, LiveRunAssumption
  DEF TypeOK, EvidenceType, ProviderType, CallType, MemoryType, PcPoint, Operation, Phase
<1>3. CASE pc' = "finalize"
  BY <1>1, <1>2, <1>3, FinalizeInvariant
<1>4. CASE pc' \in {"reserve", "trace"} /\ sample \in 1..Samples
  <2>1. CallInRange'
    BY <1>1, <1>4, LiveRunAssumption DEF CallInRange
  <2> QED
    BY <1>1, <1>2, <1>4, <2>1, BetweenInvariant DEF Between
<1> QED
  BY <1>1, <1>3, <1>4

\* An exception that is not a transport error: the bill is covered, nothing is told.
LEMMA OtherErrorInvariant ==
  ASSUME Invariant, OtherError
  PROVE  Invariant'
<1> USE DEF Invariant
<1>1. /\ pc = "answer" /\ pc' = "fail" /\ due' = None
      /\ UNCHANGED <<config, ledger, reserved, settled, observations, index, failure, report,
                     sent, billed, sample, doing, phase, retry, cost, tokens, used, refs,
                     pending, after, ending, faults, starts>>
  BY DEF OtherError, OtherErrorLeadsTo, Goes, evidence, provider, call, guards
<1>2. Funds /\ Counts /\ Unreported
  BY <1>1, AttemptFacts
<1>3. TypeOK'
  BY <1>1 DEF TypeOK, EvidenceType, ProviderType, CallType, MemoryType, PcPoint
<1>4. AccountsBalance'
  <2>1. billed.rmb <= cost /\ billed.tokens <= tokens /\ NeverOverspends
    <3>1. None \in Reports
      BY DEF Reports
    <3> QED
      BY <1>1, <1>2, <3>1, ChargeCovers DEF Charge, Funds, AccountsBalance
  <2> QED
    BY <1>1, <1>2, <2>1, LiveRunAssumption DEF AccountsBalance, NeverOverspends, Held, Funds
<1>5. LedgerCounts'
  BY <1>1 DEF LedgerCounts, Working, Final, PcPoint, Ended
<1>6. EndIsLast' /\ CallInRange'
  BY <1>1, <1>2 DEF EndIsLast, Fresh, IndexCoversSent, ReportedIsSettled,
    CallInRange, Working, Final, PcPoint, Ended, Unreported
<1> QED
  BY <1>3, <1>4, <1>5, <1>6

\* The attempt is settled, so that every request is when the next one is made.
LEMMA WriteSettlementInvariant ==
  ASSUME Invariant, WriteSettlement
  PROVE  Invariant'
<1> USE DEF Invariant
<1>1. /\ pc = "settle" /\ pending' = None /\ after' = None
      /\ UNCHANGED <<config, ledger, reserved, observations, index, failure, report, sent,
                     billed, sample, doing, cost, tokens, used, refs, due, ending, starts>>
      /\ settled' \in {settled, [settled EXCEPT ![used] = pending]}
      /\ faults' \in {faults, faults + 1}
  BY DEF WriteSettlement, Fault, provider, guards
<1>2. Funds /\ Counts /\ Unreported
  BY <1>1, AttemptFacts
<1>3. /\ pending \in SettlementType /\ pending # None /\ after \in Following /\ after # None
      /\ after = "retry" => retry < MaxAttempts
      /\ used \in AttemptNumbers
      /\ \A i \in 1..Len(sent) : settled[sent[i]] # None \/ sent[i] = used
  BY <1>1 DEF TypeOK, MemoryType, EndIsLast, CallInRange, LedgerCounts
<1>4. \/ pc' = "fail" /\ phase' = phase /\ retry' = retry
      \/ /\ settled' = [settled EXCEPT ![used] = pending]
         /\ pc' \in {"reserve", "fail", "done"}
         /\ phase' \in {phase, "schema_repair"}
         /\ retry' \in {retry, 1} \/ (retry' = retry + 1 /\ retry < MaxAttempts)
  BY <1>3 DEF WriteSettlement, Goes, Following
<1>5. TypeOK'
  <2>1. settled' \in [AttemptNumbers -> SettlementType \cup {None}]
    BY <1>1, <1>3 DEF TypeOK, EvidenceType
  <2>2. retry' \in 1..MaxAttempts /\ phase' \in Phase
    BY <1>4, LiveRunAssumption DEF TypeOK, CallType, Phase
  <2> QED
    BY <1>1, <1>4, <2>1, <2>2
    DEF TypeOK, EvidenceType, ProviderType, CallType, MemoryType, PcPoint
<1>6. AccountsBalance'
  <2>1. billed.rmb <= cost /\ billed.tokens <= tokens /\ NeverOverspends
    BY <1>1 DEF AccountsBalance, Held, Working, PcPoint, Ended
  <2> QED
    BY <1>1, <1>2, <1>4, <2>1 DEF AccountsBalance, NeverOverspends, Held, Funds
<1>7. LedgerCounts'
  BY <1>1, <1>4 DEF LedgerCounts, Working, Final, PcPoint, Ended
<1>8. EndIsLast' /\ CallInRange'
  <2>1. pc' # "fail" => \A i \in 1..Len(sent) : settled'[sent[i]] # None
    BY <1>2, <1>3, <1>4 DEF TypeOK, EvidenceType, Counts
  <2> QED
    BY <1>1, <1>2, <1>4, <2>1 DEF EndIsLast, Fresh, IndexCoversSent, ReportedIsSettled,
      CallInRange, Working, Final, PcPoint, Ended, Unreported
<1> QED
  BY <1>5, <1>6, <1>7, <1>8

\* Steps of the process that touch no attempt.
LEMMA SampleStepInvariant ==
  ASSUME Invariant, EndCall \/ WriteTraceAndJudge \/ WriteResult
  PROVE  Invariant'
<1> USE DEF Invariant
<1>1. /\ pc \in {"done", "trace", "result"}
      /\ pc' \in {"trace", "reserve", "result", "observation", "fail"}
      /\ UNCHANGED <<config, ledger, reserved, settled, observations, index, failure, report,
                     sent, billed, sample, cost, tokens, used, refs, due, pending, after,
                     ending, starts>>
      /\ faults' \in {faults, faults + 1}
      /\ \/ doing' \in Operation /\ phase' = "request" /\ retry' = 1
         \/ doing' = doing /\ phase' = phase /\ retry' = retry
  BY DEF EndCall, WriteTraceAndJudge, WriteResult, Request, Goes, Fault, Operation,
    evidence, provider, call, guards, memory
<1>2. TypeOK'
  BY <1>1, LiveRunAssumption
  DEF TypeOK, EvidenceType, ProviderType, CallType, MemoryType, PcPoint, Phase
<1>3. CallInRange'
  BY <1>1 DEF CallInRange, Working, Final, PcPoint, Ended
<1> QED
  BY <1>1, <1>2, <1>3, BetweenInvariant DEF Between

LEMMA WriteObservationInvariant ==
  ASSUME Invariant, WriteObservation
  PROVE  Invariant'
<1> USE DEF Invariant
<1>1. /\ pc = "observation"
      /\ UNCHANGED <<config, ledger, reserved, settled, index, failure, report, sent, billed,
                     doing, phase, retry, cost, tokens, used, refs, due, pending, after,
                     ending, starts>>
      /\ observations' \in {observations, [observations EXCEPT ![sample] = Observation]}
      /\ faults' \in {faults, faults + 1}
      /\ \/ pc' = "sample" /\ sample' = sample + 1
         \/ pc' = "artifact_failed" /\ sample' = sample
  BY DEF WriteObservation, Goes, Fault, provider, guards, memory
<1>2. sample \in 1..Samples
  BY <1>1 DEF TypeOK, CallType, CallInRange, Working, Final, PcPoint, Ended
<1>3. TypeOK'
  <2>1. observations' \in [1..Samples -> {"agreed", "arbitrated", None}]
    BY <1>1, <1>2 DEF TypeOK, EvidenceType, Observation
  <2>2. sample' \in 1..(Samples + 1)
    BY <1>1, <1>2, LiveRunAssumption
  <2> QED
    BY <1>1, <2>1, <2>2
    DEF TypeOK, EvidenceType, ProviderType, CallType, MemoryType, PcPoint, Ended
<1>4. CASE pc' = "sample"
  <2>1. CallInRange'
    BY <1>4 DEF CallInRange
  <2> QED
    BY <1>1, <1>3, <1>4, <2>1, BetweenInvariant DEF Between
<1>5. CASE pc' = "artifact_failed"
  BY <1>1, <1>3, <1>5, EndsInvariant
  DEF Ended, EndIsLast, Fresh, IndexCoversSent, ReportedIsSettled
<1> QED
  BY <1>1, <1>4, <1>5

LEMMA WriteSampleFailureInvariant ==
  ASSUME Invariant, WriteSampleFailure
  PROVE  Invariant'
<1> USE DEF Invariant
<1>1. /\ pc = "fail"
      /\ UNCHANGED <<config, ledger, reserved, settled, observations, index, failure, report,
                     sent, billed, sample, doing, phase, retry, cost, tokens, used, refs, due,
                     pending, after, starts>>
      /\ faults' \in {faults, faults + 1}
      /\ \/ pc' = "finalize" /\ ending' = "failed"
         \/ pc' = "artifact_failed" /\ ending' = ending
  BY DEF WriteSampleFailure, Goes, Fault, evidence, provider, call, guards
<1>2. TypeOK'
  BY <1>1 DEF TypeOK, EvidenceType, ProviderType, CallType, MemoryType, PcPoint, Ended
<1>3. CASE pc' = "finalize"
  BY <1>1, <1>2, <1>3, FinalizeInvariant
<1>4. CASE pc' = "artifact_failed"
  BY <1>1, <1>2, <1>4, EndsInvariant
  DEF Ended, EndIsLast, Fresh, IndexCoversSent, ReportedIsSettled
<1> QED
  BY <1>1, <1>3, <1>4

\* The index is written once nothing more is sent, and covers what was.
LEMMA WriteIndexInvariant ==
  ASSUME Invariant, WriteIndex
  PROVE  Invariant'
<1> USE DEF Invariant
<1>1. /\ pc = "finalize"
      /\ UNCHANGED <<config, ledger, reserved, settled, observations, failure, report, sent,
                     billed, sample, doing, phase, retry, cost, tokens, used, refs, due,
                     pending, after, ending, starts>>
      /\ index' \in {index, refs} /\ faults' \in {faults, faults + 1}
      /\ \/ pc' = "failure" /\ ending = "failed" /\ index' = refs
         \/ pc' = "report" /\ ending # "failed" /\ index' = refs
         \/ pc' = "artifact_failed"
  BY DEF WriteIndex, Indexed, Goes, Fault, provider, call, guards, memory
<1>2. /\ index = None /\ report = None /\ config
      /\ ending \in {"complete", "partial", "failed"}
      /\ ending # "failed" => \A i \in 1..Len(sent) : settled[sent[i]] # None
  BY <1>1 DEF EndIsLast, Working, Final, PcPoint, Ended
<1>3. /\ refs \in Nat /\ refs = used - Consumed /\ used \in Nat
      /\ \A i \in 1..Len(sent) : sent[i] <= used
  BY <1>1 DEF TypeOK, MemoryType, LedgerCounts, Working, Final, PcPoint, Ended
<1>4. IndexCoversSent'
  <2>1. Consumed + refs = used
    BY <1>3, LiveRunAssumption
  <2> QED
    BY <1>1, <1>2, <1>3, <2>1 DEF IndexCoversSent
<1>5. ReportedIsSettled'
  BY <1>1, <1>2 DEF ReportedIsSettled
<1>6. TypeOK'
  BY <1>1, <1>3 DEF TypeOK, EvidenceType, ProviderType, CallType, MemoryType, PcPoint, Ended
<1>7. CASE pc' = "artifact_failed"
  BY <1>1, <1>2, <1>4, <1>5, <1>6, <1>7, EndsInvariant DEF Ended
<1>8. CASE pc' \in {"failure", "report"}
  <2>1. index' # None
    BY <1>1, <1>3, <1>8, LiveRunAssumption
  <2>2. AccountsBalance'
    BY <1>1, <1>8 DEF AccountsBalance, NeverOverspends, Held, Working, PcPoint, Ended
  <2>3. LedgerCounts'
    BY <1>1, <1>8 DEF LedgerCounts, Working, Final, PcPoint, Ended
  <2>4. EndIsLast' /\ CallInRange'
    BY <1>1, <1>2, <1>4, <1>5, <1>8, <2>1 DEF EndIsLast, CallInRange, Working, Final, PcPoint, Ended
  <2> QED
    BY <1>6, <2>2, <2>3, <2>4
<1> QED
  BY <1>1, <1>7, <1>8

\* The end is published, or the process stops.
LEMMA LastWritesInvariant ==
  ASSUME Invariant, WriteFailure \/ WriteReport \/ Crash
  PROVE  Invariant'
<1> USE DEF Invariant
<1>1. /\ pc' \in Ended
      /\ UNCHANGED <<config, ledger, reserved, settled, observations, index, sent,
                     billed, sample, doing, phase, retry, cost, tokens, used, refs, due,
                     pending, after, ending, starts>>
      /\ faults' \in {faults, faults + 1}
      /\ failure' = failure \/ (pc = "failure" /\ failure' = TRUE)
      /\ report' = report \/ (pc = "report" /\ report' = ending)
  <2>1. CASE WriteFailure
    <3>1. failure' = failure \/ failure' = TRUE
      BY <2>1 DEF WriteFailure
    <3> QED
      BY <2>1, <3>1 DEF WriteFailure, Ended, Goes, Fault, provider, call, guards, memory
  <2>2. CASE WriteReport
    BY <2>2 DEF WriteReport, Ended, Goes, Fault, provider, call, guards, memory
  <2>3. CASE Crash
    BY <2>3 DEF Crash, Ended, Goes, evidence, provider, call, guards, memory
  <2> QED
    BY <2>1, <2>2, <2>3
<1>2. config \/ (failure' = failure /\ report' = report)
  BY <1>1 DEF EndIsLast, Working, PcPoint, Ended
<1>3. pc = "report" => /\ ending \in {"complete", "partial"}
                       /\ \A i \in 1..Len(sent) : settled[sent[i]] # None
  BY DEF EndIsLast, Working, Final, PcPoint, Ended
<1>4. TypeOK'
  <2>1. failure' \in BOOLEAN
    <3>1. failure \in BOOLEAN
      BY DEF TypeOK, EvidenceType
    <3> QED
      BY <1>1, <3>1
  <2>2. report' \in {"complete", "partial", None}
    BY <1>1, <1>3 DEF TypeOK, EvidenceType
  <2>3. pc' \in PcPoint /\ faults' \in Nat
    BY <1>1 DEF PcPoint, TypeOK
  <2> QED
    BY <1>1, <2>1, <2>2, <2>3 DEF TypeOK, EvidenceType, ProviderType, CallType, MemoryType
<1>5. (~config => Fresh)'
  BY <1>1, <1>2 DEF EndIsLast, Fresh
<1>6. IndexCoversSent' /\ ReportedIsSettled'
  BY <1>1, <1>3 DEF EndIsLast, IndexCoversSent, ReportedIsSettled
<1> QED
  BY <1>1, <1>4, <1>5, <1>6, EndsInvariant

LEMMA NextInvariant == Invariant /\ [Next]_vars => Invariant'
<1> SUFFICES ASSUME Invariant, [Next]_vars PROVE Invariant'
  OBVIOUS
<1>1. CASE Attempt
  BY <1>1, ReserveInvariant, RecordInvariant, WriteReservationInvariant, PostInvariant,
    AnswerInvariant, OtherErrorInvariant, WriteSettlementInvariant DEF Attempt
<1>2. CASE UNCHANGED vars
  <2>1. UNCHANGED <<TypeOK, AccountsBalance, LedgerCounts, EndIsLast, CallInRange>>
    BY <1>2 DEF vars, evidence, provider, call, guards, memory, TypeOK, EvidenceType,
      ProviderType, CallType, MemoryType, AccountsBalance, NeverOverspends, RmbUpper,
      TokensUpper, Billable, LedgerCounts, EndIsLast, Fresh, IndexCoversSent,
      ReportedIsSettled, CallInRange
  <2> QED
    BY <2>1 DEF Invariant
<1> QED
  BY <1>1, <1>2, StartInvariant, WriteConfigInvariant, TakeSampleInvariant,
    SampleStepInvariant, WriteObservationInvariant, WriteSampleFailureInvariant,
    WriteIndexInvariant, LastWritesInvariant DEF Next

\* The inductive invariant holds: it carries the theorems below.
THEOREM Correctness == Spec => []Invariant
BY InitInvariant, NextInvariant, PTL DEF Spec

\* Files, bill and memory keep their shape.
THEOREM TypeCorrectness == Spec => []TypeOK
<1>1. Invariant => TypeOK
  BY DEF Invariant
<1> QED
  BY <1>1, Correctness, PTL

\* No request is sent unrecorded or under a number that was sent before: the ledger
\* event and the reservation are written first, and nothing takes them back.
THEOREM RequestsAreRecorded == Spec => []RecordedBeforeSent
<1>1. Invariant => RecordedBeforeSent
  BY DEF Invariant, LedgerCounts, RecordedBeforeSent
<1> QED
  BY <1>1, Correctness, PTL

\* The bill stays within the spend cap and the token quota: what a guard charges
\* covers, at any moment, what was billed and what may be.
THEOREM BillIsCapped == Spec => []NeverOverspends
<1>1. Invariant => NeverOverspends
  BY DEF Invariant, AccountsBalance
<1> QED
  BY <1>1, Correctness, PTL

\* The ledger index, from which a successor counts, covers every request that was sent:
\* it is written once nothing more is sent.
THEOREM IndexIsComplete == Spec => []IndexCoversSent
<1>1. Invariant => IndexCoversSent
  BY DEF Invariant, EndIsLast
<1> QED
  BY <1>1, Correctness, PTL

\* A run that ends with a report has settled every request it sent.
THEOREM ReportsAreSettled == Spec => []ReportedIsSettled
<1>1. Invariant => ReportedIsSettled
  BY DEF Invariant, EndIsLast
<1> QED
  BY <1>1, Correctness, PTL

-------------------------------------------------------------------------------
(* What the settlements say                                                *)

LEMMA SettlementsInit == Init => SettlementsAgree
BY DEF Init, SettlementsAgree, InFlight, Working, PcPoint, Ended

\* A process that does not work, or has stopped, charges nothing.
LEMMA SettlementsAtEnd ==
  ASSUME SettlementsAgree, pc' \in {"config"} \cup (Ended \ {"execution_failed"}),
         config' = config \/ config' = TRUE, UNCHANGED <<settled, index, billed>>
  PROVE  SettlementsAgree'
BY DEF SettlementsAgree, InFlight, Working, PcPoint, Ended, AttemptNumbers, AllRmb, AllTokens

\* Neither do the steps between two attempts.
LEMMA SettlementsBetween ==
  ASSUME SettlementsAgree, pc \in Between, pc' \in Between \cup {"finalize"},
         UNCHANGED <<config, settled, index, billed, cost, tokens, used>>
  PROVE  SettlementsAgree'
BY DEF SettlementsAgree, ChargedSince, Between, InFlight, Working, PcPoint, Ended, AttemptNumbers,
  AllRmb, AllTokens

LEMMA SettlementsStep ==
  ASSUME Invariant, SettlementsAgree, [Next]_vars
  PROVE  SettlementsAgree'
<1> USE DEF Invariant
<1>1. /\ cost \in Nat /\ tokens \in Nat /\ used \in Nat
      /\ settled \in [AttemptNumbers -> SettlementType \cup {None}]
      /\ RmbUpper \in Nat /\ TokensUpper \in Nat
  BY Bounds DEF TypeOK, MemoryType, EvidenceType
<1>2. /\ pc \in Working => config
      /\ pc \in Working \ {"failure", "report"} => index = None
  BY DEF EndIsLast
<1> DEFINE Quiet == Working \ ({"record"} \cup InFlight)
<1>3. /\ ~config => \A n \in AttemptNumbers : settled[n] = None
      /\ pc \in Working => \A n \in AttemptNumbers : settled[n] # None => n <= used
      /\ pc \in InFlight => settled[used] = None
      /\ pc = "settle" => pending.allRmb = cost /\ pending.allTokens = tokens
      /\ pc = "record" => ChargedSince(used, RmbUpper, TokensUpper)
      /\ pc \in Quiet => ChargedSince(used, 0, 0)
      /\ pc = "failure" => index = used - Consumed
  BY DEF SettlementsAgree
<1> USE DEF InFlight, Working, PcPoint, Ended
<1>4. CASE Start
  <2>1. UNCHANGED <<config, settled, index, billed>> /\ pc' = "config"
    BY <1>4 DEF Start, Goes, evidence, provider
  <2> QED
    BY <2>1, SettlementsAtEnd
<1>5. CASE WriteConfig
  <2>1. UNCHANGED <<settled, index, billed, cost, tokens, used>> /\ pc = "config"
        /\ pc' \in {"sample", "artifact_failed"} /\ config' \in {config, TRUE}
    BY <1>5 DEF WriteConfig, Goes, provider, guards, memory
  <2>2. CASE pc' = "sample"
    <3>1. \A n \in AttemptNumbers : settled[n] = None
      BY <1>3, <1>5, <2>2 DEF WriteConfig, Goes
    <3>2. config'
      BY <1>5, <2>2 DEF WriteConfig, Goes
    <3> QED
      BY <2>1, <2>2, <3>1, <3>2 DEF SettlementsAgree, ChargedSince, AttemptNumbers
  <2> QED
    BY <2>1, <2>2, SettlementsAtEnd
<1>6. CASE TakeSample \/ EndCall \/ WriteTraceAndJudge \/ WriteResult
  <2>1. /\ UNCHANGED <<config, settled, index, billed, cost, tokens, used>>
        /\ pc \in {"sample", "done", "trace", "result"}
        /\ pc' \in {"reserve", "trace", "result", "observation", "fail", "finalize"}
    BY <1>6 DEF TakeSample, EndCall, WriteTraceAndJudge, WriteResult, Request, Goes,
      evidence, provider, guards, memory
  <2> QED
    BY <2>1, SettlementsBetween DEF Between
<1>7. CASE WriteObservation \/ WriteSampleFailure
  <2>1. /\ UNCHANGED <<config, settled, index, billed, cost, tokens, used>>
        /\ pc \in {"observation", "fail"} /\ pc' \in {"sample", "finalize", "artifact_failed"}
    BY <1>7 DEF WriteObservation, WriteSampleFailure, Goes, evidence, provider, guards, memory
  <2> QED
    BY <2>1, SettlementsBetween, SettlementsAtEnd DEF Between
<1>8. CASE WriteReport \/ Crash
  BY <1>8, SettlementsAtEnd DEF WriteReport, Crash, Goes, evidence, provider
<1>9. CASE Reserve
  <2>1. /\ UNCHANGED <<config, settled, index, billed, used, RmbUpper, TokensUpper>>
        /\ pc = "reserve"
        /\ \/ pc' = "record" /\ cost' = cost + RmbUpper /\ tokens' = tokens + TokensUpper
           \/ pc' = "finalize" /\ cost' = cost /\ tokens' = tokens
    BY <1>9 DEF Reserve, Goes, evidence, provider, call, guards, RmbUpper, TokensUpper
  <2>2. ChargedSince(used, 0, 0) /\ index = None
    BY <1>2, <1>3, <2>1
  <2>3. (pc = "record" => ChargedSince(used, RmbUpper, TokensUpper))'
    BY <1>1, <2>1, <2>2 DEF ChargedSince, AttemptNumbers, SettlementType
  <2>4. (pc = "finalize" => ChargedSince(used, 0, 0))'
    BY <2>1, <2>2 DEF ChargedSince, AttemptNumbers
  <2>5. (pc \in Working => \A n \in AttemptNumbers : settled[n] # None => n <= used)'
    BY <1>3, <2>1 DEF AttemptNumbers
  <2> QED
    BY <1>2, <2>1, <2>2, <2>3, <2>4, <2>5 DEF SettlementsAgree
<1>10. CASE Record
  <2>1. /\ UNCHANGED <<config, settled, index, billed, RmbUpper, TokensUpper>> /\ pc = "record"
        /\ \/ pc' = "reservation" /\ used' = used + 1
           \/ /\ pc' \in {"fail", "finalize"} /\ used' = used
              /\ cost' = cost - RmbUpper /\ tokens' = tokens - TokensUpper
    BY <1>10 DEF Record, Cancel, Goes, provider, call, guards, RmbUpper, TokensUpper
  <2>2. ChargedSince(used, RmbUpper, TokensUpper) /\ index = None /\ config
    BY <1>2, <1>3, <2>1
  <2>3. CASE pc' = "reservation"
    <3>1. used' \in AttemptNumbers
      BY <1>10, <2>1, <2>3, AttemptFacts, LiveRunAssumption
      DEF Record, BudgetLeft, Goes, Counts, AttemptNumbers
    <3>2. \A n \in AttemptNumbers : settled[n] # None => n <= used
      BY <1>3, <2>1
    <3>3. settled[used'] = None
      BY <1>1, <2>1, <2>3, <3>1, <3>2
    <3>4. (\A n \in AttemptNumbers : settled[n] # None => n <= used)'
      BY <1>1, <2>1, <2>3, <3>2, LiveRunAssumption DEF AttemptNumbers
    <3> QED
      BY <2>1, <2>2, <2>3, <3>3, <3>4 DEF SettlementsAgree
  <2>4. CASE pc' \in {"fail", "finalize"}
    <3>1. ChargedSince(used, 0, 0)'
      BY <1>1, <2>1, <2>2, <2>4 DEF ChargedSince, AttemptNumbers, SettlementType
    <3>2. (\A n \in AttemptNumbers : settled[n] # None => n <= used)'
      BY <1>3, <2>1, <2>4 DEF AttemptNumbers
    <3> QED
      BY <2>1, <2>2, <2>4, <3>1, <3>2 DEF SettlementsAgree
  <2> QED
    BY <2>1, <2>3, <2>4
<1>11. CASE WriteReservation \/ Post \/ TransportError \/ Response \/ OtherError
  <2>1. /\ UNCHANGED <<config, settled, index, used>>
        /\ pc \in InFlight /\ pc' \in {"post", "answer", "settle", "fail"}
    BY <1>11 DEF WriteReservation, Post, TransportError, Response, OtherError,
      OtherErrorLeadsTo, Goes, evidence, memory
  <2>2. settled[used] = None /\ index = None /\ config
        /\ \A n \in AttemptNumbers : settled[n] # None => n <= used
    BY <1>2, <1>3, <2>1
  <2>3. (pc = "settle" => pending.allRmb = cost /\ pending.allTokens = tokens)'
    <3>1. CASE TransportError \/ Response
      BY <3>1 DEF TransportError, Response, Settlement
    <3>2. CASE WriteReservation \/ Post \/ OtherError
      BY <3>2 DEF WriteReservation, Post, OtherError, OtherErrorLeadsTo, Goes
    <3> QED
      BY <1>11, <3>1, <3>2
  <2> QED
    BY <2>1, <2>2, <2>3 DEF SettlementsAgree, ChargedSince, AttemptNumbers
<1>12. CASE WriteSettlement
  <2>1. /\ UNCHANGED <<config, index, used, cost, tokens>>
        /\ pc = "settle" /\ pc' \in {"reserve", "fail", "done"}
        /\ settled' \in {settled, [settled EXCEPT ![used] = pending]}
    <3>1. after \in Following
      BY <1>12 DEF WriteSettlement, TypeOK, MemoryType, EndIsLast
    <3> QED
      BY <1>12, <3>1 DEF WriteSettlement, Goes, Following, guards
  <2>2. /\ settled[used] = None /\ index = None /\ config
        /\ \A n \in AttemptNumbers : settled[n] # None => n <= used
        /\ pending.allRmb = cost /\ pending.allTokens = tokens
    BY <1>2, <1>3, <2>1
  <2>3. used \in AttemptNumbers
    BY <2>1 DEF LedgerCounts
  <2>4. /\ settled'[used] \in {None, pending}
        /\ \A n \in AttemptNumbers : n # used => settled'[n] = settled[n]
    BY <1>1, <2>1, <2>2, <2>3
  <2>5. (\A n \in AttemptNumbers : settled[n] # None => n <= used)'
    BY <1>1, <2>1, <2>2, <2>4 DEF AttemptNumbers
  <2>6. ChargedSince(used, 0, 0)'
    BY <1>1, <2>1, <2>2, <2>4 DEF ChargedSince
  <2> QED
    BY <2>1, <2>2, <2>5, <2>6 DEF SettlementsAgree
<1>13. CASE WriteIndex
  <2>1. /\ UNCHANGED <<config, settled, billed, used, cost, tokens>> /\ pc = "finalize"
        /\ index' \in {index, refs}
        /\ pc' \in {"failure", "report"} => index' = refs
        /\ pc' \in {"failure", "report", "artifact_failed"}
    BY <1>13 DEF WriteIndex, Indexed, Goes, provider, guards, memory
  <2>2. index = None /\ config /\ refs = used - Consumed /\ ChargedSince(used, 0, 0)
        /\ \A n \in AttemptNumbers : settled[n] # None => n <= used
    BY <1>2, <1>3, <2>1 DEF LedgerCounts
  <2>3. billed.rmb <= cost /\ billed.tokens <= tokens /\ billed.rmb \in Nat /\ billed.tokens \in Nat
    BY <2>1 DEF AccountsBalance, Held, TypeOK, ProviderType
  <2>4. ASSUME index' # None, Consumed + index' \in AttemptNumbers,
               settled[Consumed + index'] # None
        PROVE  (AllRmb(index) >= billed.rmb /\ AllTokens(index) >= billed.tokens)'
    <3>1. index' = refs /\ Consumed + index' = used
      BY <1>1, <2>1, <2>2, <2>4, LiveRunAssumption
    <3>2. index' # 0
      BY <1>1, <2>4, LiveRunAssumption DEF AttemptNumbers
    <3>3. settled[used].allRmb + 0 = cost /\ settled[used].allTokens + 0 = tokens
      BY <2>2, <2>4, <3>1 DEF ChargedSince
    <3>4. settled[used] \in SettlementType
      BY <1>1, <2>4, <3>1
    <3>5. settled[used].allRmb = cost /\ settled[used].allTokens = tokens
      BY <1>1, <3>3, <3>4 DEF SettlementType
    <3> QED
      BY <1>1, <2>1, <2>3, <3>1, <3>2, <3>5 DEF AllRmb, AllTokens
  <2>5. (pc \in {"failure", "report"} => ChargedSince(used, 0, 0))'
    BY <2>1, <2>2 DEF ChargedSince, AttemptNumbers
  <2>6. (pc \in {"failure", "report"} => index = used - Consumed)'
    BY <2>1, <2>2
  <2> QED
    BY <2>1, <2>2, <2>4, <2>5, <2>6 DEF SettlementsAgree, AttemptNumbers
<1>14. CASE WriteFailure
  <2>1. /\ UNCHANGED <<config, settled, index, billed, used, cost, tokens>> /\ pc = "failure"
        /\ pc' \in {"execution_failed", "artifact_failed"}
    BY <1>14 DEF WriteFailure, Goes, provider, guards, memory
  <2>2. CASE pc' = "execution_failed"
    BY <1>2, <2>1, <2>2 DEF SettlementsAgree, ChargedSince, AttemptNumbers, AllRmb, AllTokens
  <2> QED
    BY <2>1, <2>2, SettlementsAtEnd
<1>15. CASE UNCHANGED vars
  BY <1>15 DEF vars, evidence, provider, guards, memory, call, SettlementsAgree, ChargedSince,
    AttemptNumbers, AllRmb, AllTokens, RmbUpper, TokensUpper
<1> QED
  BY <1>4, <1>5, <1>6, <1>7, <1>8, <1>9, <1>10, <1>11, <1>12, <1>13, <1>14, <1>15
  DEF Next, Attempt

\* What a chained successor accepts as evidence is what the guards had charged when the
\* run failed, and no less than the bill: the last indexed attempt is the last that was
\* made, and its settlement was written when the guards had settled it.
THEOREM EvidenceAddsUp == Spec => []EvidenceIsTrue
<1>1. Invariant /\ SettlementsAgree => EvidenceIsTrue
  <2> SUFFICES ASSUME Invariant, SettlementsAgree, EvidenceAccepted
               PROVE  /\ AllRmb(index) >= billed.rmb /\ AllTokens(index) >= billed.tokens
                      /\ pc = "execution_failed" =>
                           AllRmb(index) = cost /\ AllTokens(index) = tokens
    BY DEF EvidenceIsTrue
  <2>1. index \in Nat /\ index # 0 /\ index # None
    BY DEF EvidenceAccepted, Invariant, TypeOK, EvidenceType
  <2>2. Consumed + index \in AttemptNumbers /\ settled[Consumed + index] # None
    <3>1. Consumed + index \in (Consumed + 1)..(Consumed + index)
      BY <2>1, LiveRunAssumption
    <3> QED
      BY <3>1 DEF EvidenceAccepted
  <2>3. AllRmb(index) >= billed.rmb /\ AllTokens(index) >= billed.tokens
    BY <2>1, <2>2 DEF SettlementsAgree
  <2>4. ASSUME pc = "execution_failed"
        PROVE  AllRmb(index) = cost /\ AllTokens(index) = tokens
    <3>1. ChargedSince(used, 0, 0) /\ index = used - Consumed
      BY <2>4 DEF SettlementsAgree
    <3>2. used \in Nat /\ used = Consumed + index
      BY <3>1, LiveRunAssumption DEF Invariant, TypeOK, MemoryType
    <3>3. settled[used] \in SettlementType
      BY <2>2, <3>2 DEF Invariant, TypeOK, EvidenceType
    <3>4. settled[used].allRmb = cost /\ settled[used].allTokens = tokens
      BY <2>2, <3>1, <3>2, <3>3 DEF ChargedSince, SettlementType
    <3> QED
      BY <2>1, <3>2, <3>4 DEF AllRmb, AllTokens
  <2> QED
    BY <2>3, <2>4
<1>2. Spec => []SettlementsAgree
  BY Correctness, SettlementsInit, SettlementsStep, PTL DEF Spec
<1> QED
  BY <1>1, <1>2, Correctness, PTL

-------------------------------------------------------------------------------
(* The order of the attempts                                               *)

LEMMA OrderInit == Init => OrderSound
<1> SUFFICES ASSUME Init PROVE OrderSound
  OBVIOUS
<1>1. ledger = <<>> /\ pc = "off" /\ report # "complete" /\ pc \notin Working
  BY LiveRunAssumption DEF Init, Working, Ended
<1> QED
  BY <1>1 DEF OrderSound, Numbered, Placed, Completing, BetweenSamples, InFlight

\* The ledger and the observations decide these.
LEMMA OrderIsKept ==
  ASSUME UNCHANGED <<ledger, observations>>
  PROVE  /\ Numbered' <=> Numbered
         /\ InOrder' <=> InOrder
         /\ Finished' <=> Finished
         /\ \A s, o : EndsAt(s, o)' <=> EndsAt(s, o)
         /\ \A s : AllThrough(s)' <=> AllThrough(s)
         /\ \A e : MayBeNext(e)' <=> MayBeNext(e)
         /\ Latest' = Latest
<1>1. \A s : LastOf(s)' = LastOf(s)
  BY DEF LastOf
<1>2. \A d, e : ComesAfter(d, e)' <=> ComesAfter(d, e)
  BY <1>1 DEF ComesAfter
<1>3. Latest' = Latest
  BY DEF Latest
<1>4. \A s, o : EndsAt(s, o)' <=> EndsAt(s, o)
  BY <1>3 DEF EndsAt
<1>5. \A s : AllThrough(s)' <=> AllThrough(s)
  BY <1>1, <1>4 DEF AllThrough
<1>6. \A e : MayBeNext(e)' <=> MayBeNext(e)
  BY <1>2, <1>3 DEF MayBeNext
<1>7. InOrder' <=> InOrder
  BY <1>2 DEF InOrder
<1> QED
  BY <1>3, <1>4, <1>5, <1>6, <1>7 DEF Numbered, Finished

\* A process that works on nothing says nothing of the ledger.
LEMMA OrderAtEnd ==
  ASSUME OrderSound, pc' \in Ended, UNCHANGED <<ledger, observations, report>>
  PROVE  OrderSound'
<1>1. Placed'
  BY DEF Placed, Ended, InFlight, Completing, BetweenSamples
<1>2. pc' \notin Working
  BY DEF Working
<1>3. /\ Numbered' <=> Numbered
      /\ InOrder' <=> InOrder
      /\ Finished' <=> Finished
  BY OrderIsKept
<1> QED
  BY <1>1, <1>2, <1>3 DEF OrderSound

\* A step of a process that works on, and records and observes nothing.
LEMMA OrderGoesOn ==
  ASSUME OrderSound, pc \in Working, Seen', Placed', UNCHANGED <<ledger, observations, report>>
  PROVE  OrderSound'
<1>1. /\ Numbered' <=> Numbered
      /\ InOrder' <=> InOrder
      /\ Finished' <=> Finished
  BY OrderIsKept
<1> QED
  BY <1>1 DEF OrderSound

\* Where a sample begins: the first attempt of the ledger, or one after the last of the
\* sample before.
LEMMA SampleBegins ==
  ASSUME NEW e, sample \in Nat \ {0}, AllThrough(sample - 1),
         e.sample = sample, e.operation = FirstOf(sample), e.phase = "request", e.retry = 1
  PROVE  MayBeNext(e)
<1>1. Profile!Opens(e)
  BY DEF Profile!Opens
<1>2. CASE sample = 1
  BY <1>1, <1>2 DEF AllThrough, MayBeNext, Begins
<1>3. CASE sample # 1
  <2>1. EndsAt(sample - 1, LastOf(sample - 1))
    BY <1>3 DEF AllThrough
  <2>2. ledger # <<>> /\ Latest.sample = sample - 1 /\ Latest.operation = LastOf(Latest.sample)
    BY <2>1 DEF EndsAt
  <2>3. e.sample = Latest.sample + 1
    BY <2>2
  <2> QED
    BY <1>1, <2>2, <2>3 DEF MayBeNext, ComesAfter
<1> QED
  BY <1>2, <1>3

LEMMA LedgerFacts ==
  ASSUME Invariant
  PROVE  /\ ledger \in Seq(EventType) /\ Len(ledger) \in Nat
         /\ sample \in 1..(Samples + 1) /\ Samples \in Nat
         /\ \A i \in 1..Len(ledger) :
              ledger[i] \in EventType /\ ledger[i].sample \in 1..Samples
         /\ ledger # <<>> =>
              Len(ledger) \in 1..Len(ledger) /\ Latest \in EventType /\ Latest.sample \in 1..Samples
<1>1. ledger \in Seq(EventType) /\ sample \in 1..(Samples + 1) /\ Samples \in Nat
  BY LiveRunAssumption DEF Invariant, TypeOK, EvidenceType, CallType
<1>2. \A i \in 1..Len(ledger) : ledger[i] \in EventType
  BY <1>1
<1>3. Len(ledger) \in Nat /\ (ledger # <<>> => Len(ledger) \in 1..Len(ledger))
  BY <1>1
<1>4. \A e \in EventType : e.sample \in 1..Samples
  BY DEF EventType
<1> QED
  BY <1>1, <1>2, <1>3, <1>4 DEF Latest

\* The configuration of a new benchmark is written: there is no attempt yet.
LEMMA WriteConfigOrder ==
  ASSUME Invariant, OrderSound, WriteConfig
  PROVE  OrderSound'
<1>1. pc = "config" /\ UNCHANGED <<ledger, observations, report, sample>>
  BY DEF WriteConfig, call
<1>2. CASE pc' = "artifact_failed"
  BY <1>1, <1>2, OrderAtEnd DEF Ended
<1>3. CASE pc' # "artifact_failed"
  <2>1. ~config /\ pc' = "sample"
    BY <1>3 DEF WriteConfig, Goes
  <2>2. ledger = <<>> /\ ledger' = <<>> /\ report' = None /\ sample' = 1
    BY <1>1, <2>1 DEF Invariant, EndIsLast, Fresh, OrderSound, Placed
  <2>3. Numbered' /\ InOrder' /\ Seen'
    BY <2>2 DEF Numbered, InOrder, Seen
  <2>4. AllThrough(sample - 1)' /\ Passed'
    BY <2>2 DEF AllThrough, Passed
  <2>5. Placed'
    BY <2>1, <2>4 DEF Placed, Completing, InFlight
  <2>6. report' # "complete"
    BY <2>2, LiveRunAssumption
  <2> QED
    BY <2>3, <2>5, <2>6 DEF OrderSound
<1> QED
  BY <1>2, <1>3

\* The next sample is taken, or all are through.
LEMMA TakeSampleOrder ==
  ASSUME Invariant, OrderSound, TakeSample
  PROVE  OrderSound'
<1>1. /\ pc = "sample" /\ pc \in Working /\ BetweenSamples
      /\ UNCHANGED <<ledger, observations, report, sample>>
  BY DEF TakeSample, evidence, Working, Ended, PcPoint, BetweenSamples
<1>2. /\ sample \in 1..(Samples + 1) /\ sample \in Nat /\ Samples \in Nat
      /\ AllThrough(sample - 1) /\ Passed
      /\ \A i \in 1..Len(ledger) : ledger[i].sample \in 1..Samples
  BY <1>1, LedgerFacts DEF OrderSound, Placed
<1>3. \A s : AllThrough(s)' <=> AllThrough(s)
  BY <1>1, OrderIsKept
<1>4. AllThrough(sample - 1)' /\ Passed'
  BY <1>1, <1>2, <1>3 DEF Passed
<1>5. Seen'
  BY <1>1, <1>2 DEF Seen, Passed, OrderSound
<1>6. CASE pc' = "reserve"
  <2>1. sample \in Generated /\ doing' = "generate" /\ phase' = "request" /\ retry' = 1
    BY <1>6 DEF TakeSample, Goes, Request
  <2>2. /\ Event'.sample = sample /\ Event'.operation = FirstOf(sample)
        /\ Event'.phase = "request" /\ Event'.retry = 1
    BY <1>1, <2>1 DEF Event, FirstOf
  <2>3. MayBeNext(Event')
    BY <1>2, <2>2, SampleBegins
  <2>4. MayBeNext(Event)'
    BY <1>1, <2>3, OrderIsKept
  <2>5. Placed'
    BY <1>6, <2>4 DEF Placed, Completing, BetweenSamples, InFlight
  <2> QED
    BY <1>1, <1>5, <2>5, OrderGoesOn
<1>7. CASE pc' = "trace"
  <2>1. sample' \notin Generated
    BY <1>1, <1>7 DEF TakeSample, Goes, Request
  <2>2. Placed'
    BY <1>4, <1>7, <2>1 DEF Placed, Completing, InFlight
  <2> QED
    BY <1>1, <1>5, <2>2, OrderGoesOn
<1>8. CASE pc' = "finalize"
  <2>1. sample' = Samples + 1
    BY <1>1, <1>2, <1>8 DEF TakeSample, Goes, Request
  <2>2. Placed'
    BY <1>4, <1>8, <2>1 DEF Placed, InFlight
  <2> QED
    BY <1>1, <1>5, <2>2, OrderGoesOn
<1> QED
  BY <1>6, <1>7, <1>8 DEF TakeSample, Goes, Request

\* Between the attempts of an operation nothing is recorded.
LEMMA ReserveOrder ==
  ASSUME Invariant, OrderSound, Reserve
  PROVE  OrderSound'
<1>1. /\ pc = "reserve" /\ pc \in Working
      /\ UNCHANGED <<ledger, observations, report, sample, doing, phase, retry, used>>
  BY DEF Reserve, evidence, call, Working, Ended, PcPoint
<1>2. \/ pc' = "record"
      \/ pc' = "finalize" /\ ending' = "partial"
  BY DEF Reserve, Goes
<1>3. Seen'
  BY <1>1 DEF OrderSound, Seen
<1>4. MayBeNext(Event)
  BY <1>1 DEF OrderSound, Placed
<1>5. MayBeNext(Event')
  BY <1>1, <1>4 DEF Event
<1>6. MayBeNext(Event)'
  BY <1>1, <1>5, OrderIsKept
<1>7. Placed'
  BY <1>2, <1>6 DEF Placed, Completing, BetweenSamples, InFlight
<1> QED
  BY <1>1, <1>3, <1>7, OrderGoesOn

\* The attempt joins the ledger where it may come next.
LEMMA RecordOrder ==
  ASSUME Invariant, OrderSound, Record
  PROVE  OrderSound'
<1>1. /\ pc = "record" /\ pc \in Working
      /\ UNCHANGED <<observations, report, sample, doing, phase, retry>>
  BY DEF Record, call, Working, Ended, PcPoint
<1>2. /\ ledger \in Seq(EventType) /\ Len(ledger) \in Nat
      /\ sample \in 1..Samples /\ used = Consumed + Len(ledger) /\ report = None
      /\ Event \in EventType
  BY <1>1, LedgerFacts, AttemptFacts, LiveRunAssumption
  DEF Counts, Unreported, Event, EventType, Invariant, TypeOK, CallType
<1>3. MayBeNext(Event) /\ Seen /\ InOrder /\ Numbered
  BY <1>1 DEF OrderSound, Placed
<1>4. report' # "complete"
  BY <1>1, <1>2, LiveRunAssumption
<1>5. CASE ledger' = ledger
  <2>1. Numbered' /\ InOrder' /\ Seen'
    <3>1. Numbered' /\ InOrder'
      BY <1>1, <1>3, <1>5, OrderIsKept
    <3> QED
      BY <1>1, <1>3, <1>5, <3>1 DEF Seen
  <2>2. \/ pc' = "fail"
        \/ pc' = "finalize" /\ ending' = "partial"
    <3>1. ledger # Append(ledger, Event)
      BY <1>2
    <3> QED
      BY <1>5, <3>1 DEF Record, Goes
  <2>3. Placed'
    BY <2>2 DEF Placed, Completing, BetweenSamples, InFlight
  <2> QED
    BY <1>4, <2>1, <2>3 DEF OrderSound
<1>6. CASE ledger' = Append(ledger, Event)
  <2> DEFINE n == Len(ledger)
  <2>1. /\ n \in Nat /\ Len(ledger') = n + 1 /\ ledger' # <<>>
        /\ \A i \in 1..n : ledger'[i] = ledger[i]
        /\ ledger'[n + 1] = Event
    BY <1>2, <1>6
  <2>2. /\ Event.sequence = Consumed + (n + 1) /\ Event.sample = sample
        /\ Event.operation = doing /\ Event.phase = phase /\ Event.retry = retry
    BY <1>2, LiveRunAssumption DEF Event
  <2>3. ledger # <<>> => n \in 1..n /\ Latest = ledger[n] /\ n # 0
    BY <1>2 DEF Latest
  <2>4. ledger = <<>> => n = 0
    OBVIOUS
  <2>5. Latest' = Event
    BY <2>1 DEF Latest
  <2>6. \A i \in 1..Len(ledger) :
          /\ ledger[i].sample <= sample
          /\ ledger[i].operation = "arbiter" =>
                IF ledger[i].sample = sample THEN doing = "arbiter"
                                             ELSE observations[ledger[i].sample] = "arbitrated"
    BY <1>3 DEF Seen
  <2>7. \A i \in 1..n : ledger[i].sequence = Consumed + i
    BY <1>3 DEF Numbered
  <2> HIDE DEF n
  <2>8. Numbered'
    BY <2>1, <2>2, <2>7 DEF Numbered
  <2>9. Seen'
    BY <1>1, <1>2, <2>1, <2>2, <2>6 DEF Seen, n
  <2>10. InOrder'
    <3>1. Begins(ledger'[1])
      BY <1>3, <2>1, <2>3, <2>4 DEF InOrder, MayBeNext
    <3>2. ASSUME NEW i \in 2..(n + 1) PROVE ComesAfter(ledger'[i - 1], ledger'[i])
      <4>1. CASE i = n + 1
        <5>1. ledger # <<>>
          BY <2>1, <3>2, <4>1 DEF n
        <5>2. ledger'[i - 1] = Latest /\ ledger'[i] = Event
          BY <2>1, <2>3, <4>1, <5>1
        <5> QED
          BY <1>3, <5>1, <5>2 DEF MayBeNext
      <4>2. CASE i # n + 1
        <5>1. i \in 2..n /\ i - 1 \in 1..n /\ i \in 1..n
          BY <2>1, <3>2, <4>2
        <5>2. ledger'[i - 1] = ledger[i - 1] /\ ledger'[i] = ledger[i]
          BY <2>1, <5>1
        <5> QED
          BY <1>3, <5>1, <5>2 DEF InOrder, n
      <4> QED
        BY <4>1, <4>2
    <3>3. ASSUME NEW i \in 1..(n + 1), ledger'[i].operation = "generate"
          PROVE  ledger'[i].sample \in Generated
      <4>1. CASE i = n + 1
        <5>1. Event.operation = "generate" /\ Event.sample \in 1..Samples
          BY <1>2, <2>1, <2>2, <3>3, <4>1
        <5>2. CASE ledger = <<>>
          BY <1>3, <2>1, <4>1, <5>1, <5>2 DEF MayBeNext, Begins, FirstOf
        <5>3. CASE ledger # <<>>
          <6>1. ComesAfter(Latest, Event)
            BY <1>3, <5>3 DEF MayBeNext
          <6>2. Latest.operation = "generate" => Latest.sample \in Generated
            BY <1>3, <2>3, <5>3 DEF InOrder, n
          <6> QED
            BY <2>1, <4>1, <5>1, <6>1, <6>2 DEF ComesAfter, FirstOf
        <5> QED
          BY <5>2, <5>3
      <4>2. CASE i # n + 1
        <5>1. i \in 1..n
          BY <2>1, <3>3, <4>2
        <5> QED
          BY <1>3, <2>1, <3>3, <5>1 DEF InOrder, n
      <4> QED
        BY <4>1, <4>2
    <3>4. \A i \in 2..(n + 1) : ComesAfter(ledger[i - 1], ledger[i])'
      BY <1>1, <3>2 DEF ComesAfter, LastOf
    <3>5. Begins(ledger[1])'
      BY <3>1 DEF Begins
    <3> QED
      BY <2>1, <3>3, <3>4, <3>5 DEF InOrder
  <2>11. EndsAt(sample, doing)' /\ Latest'.phase = phase' /\ Latest'.retry = retry'
    BY <1>1, <2>1, <2>2, <2>5 DEF EndsAt
  <2>12. pc' \in {"reservation", "fail"}
    BY <1>2, <1>6 DEF Record, Goes
  <2>13. Placed'
    BY <2>11, <2>12 DEF Placed, Completing, BetweenSamples, InFlight
  <2> QED
    BY <1>4, <2>8, <2>9, <2>10, <2>13 DEF OrderSound
<1> QED
  BY <1>5, <1>6 DEF Record

\* An attempt is under way: it stays the latest until it is settled.
LEMMA InFlightOrder ==
  ASSUME Invariant, OrderSound,
         WriteReservation \/ Post \/ TransportError \/ OtherError \/ Response
  PROVE  OrderSound'
<1>1. /\ pc \in {"reservation", "post", "answer"} /\ pc \in Working /\ pc \in InFlight
      /\ pc' \in {"post", "answer", "settle", "fail"}
      /\ UNCHANGED <<ledger, observations, report, sample, doing, phase, retry>>
  BY DEF WriteReservation, Post, TransportError, OtherError, OtherErrorLeadsTo, Response, Goes,
    evidence, call, Working, Ended, PcPoint, InFlight
<1>2. pc' = "settle" /\ after' = "repair" => phase = "request"
  BY DEF WriteReservation, Post, TransportError, OtherError, OtherErrorLeadsTo, Response, Goes,
    Retry, Repair
<1>3. Seen'
  BY <1>1 DEF OrderSound, Seen
<1>4. EndsAt(sample, doing) /\ Latest.phase = phase /\ Latest.retry = retry
  BY <1>1 DEF OrderSound, Placed
<1>5. EndsAt(sample, doing)' /\ Latest'.phase = phase' /\ Latest'.retry = retry'
  <2>1. Latest' = Latest
    BY <1>1 DEF Latest
  <2> QED
    BY <1>1, <1>4, <2>1 DEF EndsAt
<1>6. Placed'
  BY <1>1, <1>2, <1>5 DEF Placed, Completing, BetweenSamples
<1> QED
  BY <1>1, <1>3, <1>6, OrderGoesOn

\* The next attempt at the operation follows the one that was settled.
LEMMA WriteSettlementOrder ==
  ASSUME Invariant, OrderSound, WriteSettlement
  PROVE  OrderSound'
<1>1. /\ pc = "settle" /\ pc \in Working /\ pc \in InFlight
      /\ UNCHANGED <<ledger, observations, report, sample, doing, used>>
  BY DEF WriteSettlement, Working, Ended, PcPoint, InFlight
<1>2. /\ EndsAt(sample, doing) /\ Latest.phase = phase /\ Latest.retry = retry /\ Seen
      /\ after = "repair" => phase = "request"
  BY <1>1 DEF OrderSound, Placed
<1>3. phase \in Phase /\ after \in Following
  <2>1. after # None
    BY <1>1 DEF Invariant, EndIsLast
  <2> QED
    BY <2>1 DEF Invariant, TypeOK, CallType, MemoryType
<1>4. Seen'
  BY <1>1, <1>2 DEF Seen
<1>5. CASE pc' \in {"done", "fail"}
  <2>1. EndsAt(sample, doing)'
    BY <1>1, <1>2 DEF EndsAt, Latest
  <2>2. Placed'
    BY <1>5, <2>1 DEF Placed, Completing, BetweenSamples, InFlight
  <2> QED
    BY <1>1, <1>4, <2>2, OrderGoesOn
<1>6. CASE pc' = "reserve"
  <2>1. \/ phase' = phase /\ retry' = retry + 1
        \/ phase = "request" /\ phase' = "schema_repair" /\ retry' = 1
    BY <1>2, <1>3, <1>6 DEF WriteSettlement, Goes, Following
  <2>2. /\ Event'.sample = sample /\ Event'.operation = doing
        /\ Event'.phase = phase' /\ Event'.retry = retry'
    BY <1>1 DEF Event
  <2>3. Profile!Follows(Latest, Event')
    BY <1>2, <1>3, <2>1, <2>2 DEF Profile!Follows, Phase
  <2>4. MayBeNext(Event')
    BY <1>2, <2>2, <2>3 DEF MayBeNext, ComesAfter, EndsAt
  <2>5. MayBeNext(Event)'
    BY <1>1, <2>4, OrderIsKept
  <2>6. Placed'
    BY <1>6, <2>5 DEF Placed, Completing, BetweenSamples, InFlight
  <2> QED
    BY <1>1, <1>4, <2>6, OrderGoesOn
<1> QED
  BY <1>3, <1>5, <1>6 DEF WriteSettlement, Goes, Following

\* The next operation of the sample opens after the last attempt at the one before.
LEMMA OperationOpens ==
  ASSUME NEW o, EndsAt(sample, doing),
         <<doing, o>> \in {<<"generate", "logic">>, <<"logic", "adversarial">>,
                           <<"adversarial", "arbiter">>},
         pc \in Working, Seen', Request(o), OrderSound,
         UNCHANGED <<ledger, observations, report, sample, used>>
  PROVE  OrderSound'
<1>1. /\ Event'.sample = sample /\ Event'.operation = o /\ pc' = "reserve"
      /\ Event'.phase = "request" /\ Event'.retry = 1
  BY DEF Request, Goes, Event
<1>2. Profile!Opens(Event')
  BY <1>1 DEF Profile!Opens
<1>3. MayBeNext(Event')
  BY <1>1, <1>2 DEF MayBeNext, ComesAfter, EndsAt
<1>4. MayBeNext(Event)'
  BY <1>3, OrderIsKept
<1>5. Placed'
  BY <1>1, <1>4 DEF Placed, Completing, BetweenSamples, InFlight
<1> QED
  BY <1>5, OrderGoesOn

\* An accepted answer leads to the trace, to the next review, or to the result.
LEMMA EndCallOrder ==
  ASSUME Invariant, OrderSound, EndCall
  PROVE  OrderSound'
<1>1. /\ pc = "done" /\ pc \in Working
      /\ UNCHANGED <<ledger, observations, report, sample, used>>
  BY DEF EndCall, evidence, memory, Working, Ended, PcPoint
<1>2. EndsAt(sample, doing) /\ Seen /\ InOrder
  BY <1>1 DEF OrderSound, Placed
<1>3. CASE doing' = doing
  <2>1. Seen' /\ EndsAt(sample, doing)'
    BY <1>1, <1>2, <1>3 DEF Seen, EndsAt, Latest
  <2>2. \/ pc' = "trace" /\ doing = "generate"
        \/ pc' = "result" /\ doing \in {"adversarial", "arbiter"}
    BY <1>3 DEF EndCall, Request, Goes
  <2>3. doing = "generate" => sample \in Generated
    BY <1>2, LedgerFacts DEF EndsAt, InOrder, Latest
  <2>4. Placed'
    BY <1>1, <1>3, <2>1, <2>2, <2>3 DEF Placed, Completing, BetweenSamples, InFlight
  <2> QED
    BY <1>1, <2>1, <2>4, OrderGoesOn
<1>4. CASE doing = "logic" /\ Request("adversarial")
  <2>1. Seen'
    BY <1>1, <1>2, <1>4 DEF Seen
  <2> QED
    BY <1>1, <1>2, <1>4, <2>1, OperationOpens
<1>5. CASE doing = "adversarial" /\ Request("arbiter")
  <2>1. Seen'
    BY <1>1, <1>2, <1>5 DEF Seen, Request
  <2> QED
    BY <1>1, <1>2, <1>5, <2>1, OperationOpens
<1> QED
  BY <1>3, <1>4, <1>5 DEF EndCall

\* The logic review is the first attempt of a sample that came with its trace, and follows
\* the generation of any other.
LEMMA WriteTraceAndJudgeOrder ==
  ASSUME Invariant, OrderSound, WriteTraceAndJudge
  PROVE  OrderSound'
<1>1. /\ pc = "trace" /\ pc \in Working
      /\ UNCHANGED <<ledger, observations, report, sample, used>>
  BY DEF WriteTraceAndJudge, evidence, memory, Working, Ended, PcPoint
<1>2. Seen
  BY <1>1 DEF OrderSound
<1>3. CASE pc' = "fail"
  <2>1. doing' = doing
    BY <1>3 DEF WriteTraceAndJudge, Request, Goes
  <2>2. Seen' /\ Placed'
    BY <1>1, <1>2, <1>3, <2>1 DEF Seen, Placed, Completing, BetweenSamples, InFlight
  <2> QED
    BY <1>1, <2>2, OrderGoesOn
<1>4. CASE Request("logic") /\ sample \in Generated
  <2>1. doing = "generate" /\ EndsAt(sample, doing)
    BY <1>1, <1>4 DEF OrderSound, Placed
  <2>2. Seen'
    BY <1>1, <1>2, <2>1 DEF Seen
  <2> QED
    BY <1>1, <1>4, <2>1, <2>2, OperationOpens
<1>5. CASE Request("logic") /\ sample \notin Generated
  <2>1. AllThrough(sample - 1) /\ Passed
    BY <1>1, <1>5 DEF OrderSound, Placed, BetweenSamples
  <2>2. sample \in Nat \ {0} /\ \A i \in 1..Len(ledger) : ledger[i].sample \in 1..Samples
    BY LedgerFacts
  <2>3. Seen'
    BY <1>1, <1>2, <2>1, <2>2 DEF Seen, Passed
  <2>4. /\ Event'.sample = sample /\ Event'.operation = FirstOf(sample)
        /\ Event'.phase = "request" /\ Event'.retry = 1 /\ pc' = "reserve"
    BY <1>1, <1>5 DEF Event, FirstOf, Request, Goes
  <2>5. MayBeNext(Event')
    BY <2>1, <2>2, <2>4, SampleBegins
  <2>6. MayBeNext(Event)'
    BY <1>1, <2>5, OrderIsKept
  <2>7. Placed'
    BY <2>4, <2>6 DEF Placed, Completing, BetweenSamples, InFlight
  <2> QED
    BY <1>1, <2>3, <2>7, OrderGoesOn
<1> QED
  BY <1>3, <1>4, <1>5 DEF WriteTraceAndJudge, Goes

\* The result, and the end of a run, leave the ledger as it is.
LEMMA LastStepsOrder ==
  ASSUME Invariant, OrderSound, WriteResult \/ WriteSampleFailure \/ WriteIndex \/ WriteFailure
  PROVE  OrderSound'
<1>1. /\ pc \in {"result", "fail", "finalize", "failure"} /\ pc \in Working
      /\ UNCHANGED <<ledger, observations, report, sample, doing>>
  BY DEF WriteResult, WriteSampleFailure, WriteIndex, WriteFailure, evidence, call, Working,
    Ended, PcPoint
<1>2. CASE pc' \in Ended
  BY <1>1, <1>2, OrderAtEnd
<1>3. CASE pc' \notin Ended
  <2>1. \/ pc = "result" /\ pc' \in {"observation", "fail"}
        \/ pc' = "finalize" /\ ending' = "failed"
        \/ pc = "finalize" /\ pc' = "report" /\ ending' = ending
        \/ pc = "finalize" /\ pc' = "failure"
    BY <1>3 DEF WriteResult, WriteSampleFailure, WriteIndex, WriteFailure, Goes, Ended, memory
  <2>2. Seen'
    BY <1>1 DEF OrderSound, Seen
  <2>3. pc = "result" => EndsAt(sample, doing)' /\ doing' \in {"adversarial", "arbiter"}
    BY <1>1 DEF OrderSound, Placed, EndsAt, Latest
  <2>4. Completing' => /\ pc = "finalize" /\ ending = "complete"
                       /\ Completing /\ BetweenSamples
    BY <2>1 DEF Completing, BetweenSamples
  <2>5. Completing' => sample' = Samples + 1 /\ AllThrough(sample - 1) /\ Passed
    BY <1>1, <2>4 DEF OrderSound, Placed
  <2>6. Completing' => AllThrough(sample - 1)' /\ Passed'
    <3>1. \A s : AllThrough(s)' <=> AllThrough(s)
      BY <1>1, OrderIsKept
    <3> QED
      BY <1>1, <2>5, <3>1 DEF Passed
  <2>7. BetweenSamples' => Completing'
    BY <2>1 DEF BetweenSamples, Completing
  <2>8. Placed'
    BY <2>1, <2>3, <2>5, <2>6, <2>7 DEF Placed, InFlight
  <2> QED
    BY <1>1, <2>2, <2>8, OrderGoesOn
<1> QED
  BY <1>2, <1>3

\* The observation tells which operation the sample ended with.
LEMMA WriteObservationOrder ==
  ASSUME Invariant, OrderSound, WriteObservation
  PROVE  OrderSound'
<1>1. /\ pc = "observation" /\ pc \in Working
      /\ UNCHANGED <<ledger, report, doing>>
  BY DEF WriteObservation, Working, Ended, PcPoint
<1>2. /\ EndsAt(sample, doing) /\ doing \in {"adversarial", "arbiter"}
      /\ Seen /\ InOrder /\ Numbered /\ report' # "complete"
  BY <1>1, LiveRunAssumption DEF OrderSound, Placed, Invariant, EndIsLast
<1>3. /\ sample \in 1..Samples /\ Len(ledger) \in Nat
      /\ \A i \in 1..Len(ledger) : ledger[i].sample \in 1..Samples
      /\ observations \in [1..Samples -> {"agreed", "arbitrated", None}]
  BY <1>1, LedgerFacts
  DEF Invariant, TypeOK, EvidenceType, CallInRange, Working, Final, PcPoint, Ended
<1>4. Numbered'
  BY <1>1, <1>2 DEF Numbered
<1>5. CASE pc' = "artifact_failed"
  <2>1. Placed' /\ pc' \notin Working
    BY <1>5 DEF Placed, Completing, BetweenSamples, InFlight, Working, Ended
  <2> QED
    BY <1>2, <1>4, <2>1 DEF OrderSound
<1>6. CASE pc' # "artifact_failed"
  <2>1. /\ pc' = "sample" /\ sample' = sample + 1
        /\ observations' = [observations EXCEPT ![sample] = Observation]
    BY <1>6 DEF WriteObservation, Goes
  <2>2. \A s \in 1..Samples : s # sample => observations'[s] = observations[s]
    BY <1>3, <2>1
  <2>3. observations'[sample] = "arbitrated" <=> doing = "arbiter"
    BY <1>3, <2>1 DEF Observation
  <2>4. Seen' /\ Passed'
    BY <1>1, <1>2, <1>3, <2>1, <2>2, <2>3 DEF Seen, Passed
  <2>5. \A i \in 2..Len(ledger) : ComesAfter(ledger[i - 1], ledger[i])'
    <3> SUFFICES ASSUME NEW i \in 2..Len(ledger)
                 PROVE  ComesAfter(ledger[i - 1], ledger[i])'
      OBVIOUS
    <3>1. i \in 1..Len(ledger) /\ i - 1 \in 1..Len(ledger)
      BY <1>3
    <3>2. ComesAfter(ledger[i - 1], ledger[i])
      BY <1>2 DEF InOrder
    <3>3. /\ ledger[i - 1].sample \in 1..Samples /\ ledger[i].sample \in 1..Samples
          /\ ledger[i].sample <= sample
      BY <1>2, <1>3, <3>1 DEF Seen
    <3>4. ledger[i].sample = ledger[i - 1].sample + 1 =>
            observations'[ledger[i - 1].sample] = observations[ledger[i - 1].sample]
      BY <1>3, <2>2, <3>3
    <3> QED
      BY <1>1, <3>2, <3>4 DEF ComesAfter, LastOf
  <2>6. InOrder'
    BY <1>1, <1>2, <2>5 DEF InOrder, Begins
  <2>7. ledger # <<>> /\ Latest.sample = sample /\ Latest.operation = doing
    BY <1>2 DEF EndsAt
  <2>8. AllThrough(sample - 1)'
    <3>1. sample' - 1 = sample /\ sample # 0
      BY <1>3, <2>1
    <3>2. doing = IF observations'[sample] = "arbitrated" THEN "arbiter" ELSE "adversarial"
      BY <1>2, <2>3
    <3> QED
      BY <1>1, <2>7, <3>1, <3>2 DEF AllThrough, EndsAt, Latest, LastOf
  <2>9. Placed'
    BY <2>1, <2>4, <2>8 DEF Placed, Completing, InFlight
  <2> QED
    BY <1>2, <1>4, <2>4, <2>6, <2>9 DEF OrderSound
<1> QED
  BY <1>5, <1>6

\* A complete report is written when the last sample is through.
LEMMA WriteReportOrder ==
  ASSUME Invariant, OrderSound, WriteReport
  PROVE  OrderSound'
<1>1. /\ pc = "report" /\ pc \in Working /\ report = None
      /\ pc' \in Ended /\ report' \in {report, ending}
      /\ UNCHANGED <<ledger, observations>>
  BY DEF WriteReport, Goes, Invariant, EndIsLast, Working, Ended, PcPoint
<1>2. /\ Numbered' <=> Numbered
      /\ InOrder' <=> InOrder
      /\ Finished' <=> Finished
  BY <1>1, OrderIsKept
<1>3. ASSUME report' = "complete" PROVE Finished
  <2>1. Completing /\ BetweenSamples
    BY <1>1, <1>3, LiveRunAssumption DEF Completing, BetweenSamples
  <2>2. sample = Samples + 1 /\ AllThrough(sample - 1) /\ Passed /\ Seen
    BY <1>1, <2>1 DEF OrderSound, Placed
  <2>3. sample - 1 = Samples
    BY <2>2, LiveRunAssumption
  <2>4. \A i \in 1..Len(ledger) : ledger[i].sample # sample
    BY <2>2, LedgerFacts DEF Passed
  <2> QED
    BY <2>2, <2>3, <2>4 DEF Finished, Seen
<1>4. Placed' /\ pc' \notin Working
  BY <1>1 DEF Placed, Completing, BetweenSamples, InFlight, Working, Ended
<1> QED
  BY <1>1, <1>2, <1>3, <1>4 DEF OrderSound

LEMMA OrderStep == Invariant /\ OrderSound /\ [Next]_vars => OrderSound'
<1> SUFFICES ASSUME Invariant, OrderSound, [Next]_vars PROVE OrderSound'
  OBVIOUS
<1>1. CASE Start
  <2>1. /\ UNCHANGED <<ledger, observations, report>>
        /\ pc' = "config" /\ pc' \notin Working /\ sample' = 1
    BY <1>1 DEF Start, Goes, evidence, Working
  <2>2. Placed'
    BY <2>1 DEF Placed, Completing, BetweenSamples, InFlight
  <2>3. /\ Numbered' <=> Numbered
        /\ InOrder' <=> InOrder
        /\ Finished' <=> Finished
    BY <2>1, OrderIsKept
  <2> QED
    BY <2>1, <2>2, <2>3 DEF OrderSound
<1>2. CASE Crash
  BY <1>2, OrderAtEnd DEF Crash, Goes, evidence, Ended
<1>3. CASE UNCHANGED vars
  <2>1. UNCHANGED <<ledger, observations, report, pc, sample, doing, phase, retry, used,
                    after, ending>>
    BY <1>3 DEF vars, evidence, call, memory
  <2>2. /\ Numbered' <=> Numbered
        /\ InOrder' <=> InOrder
        /\ Finished' <=> Finished
        /\ \A s, o : EndsAt(s, o)' <=> EndsAt(s, o)
        /\ \A s : AllThrough(s)' <=> AllThrough(s)
        /\ \A e : MayBeNext(e)' <=> MayBeNext(e)
        /\ Latest' = Latest
    BY <2>1, OrderIsKept
  <2>3. Event' = Event /\ (Completing' <=> Completing) /\ (BetweenSamples' <=> BetweenSamples)
        /\ (Seen' <=> Seen) /\ (Passed' <=> Passed)
    BY <2>1 DEF Event, Completing, BetweenSamples, Seen, Passed
  <2>4. AllThrough(sample - 1)' <=> AllThrough(sample - 1)
    BY <2>1, <2>2
  <2>5. EndsAt(sample, doing)' <=> EndsAt(sample, doing)
    BY <2>1, <2>2
  <2>6. MayBeNext(Event)' <=> MayBeNext(Event)
    BY <2>1, <2>2, <2>3
  <2>7. Placed' <=> Placed
    BY <2>1, <2>2, <2>3, <2>4, <2>5, <2>6 DEF Placed
  <2> QED
    BY <2>1, <2>2, <2>3, <2>7 DEF OrderSound
<1> QED
  BY <1>1, <1>2, <1>3, WriteConfigOrder, TakeSampleOrder, ReserveOrder, RecordOrder,
    InFlightOrder, WriteSettlementOrder, EndCallOrder, WriteTraceAndJudgeOrder,
    LastStepsOrder, WriteObservationOrder, WriteReportOrder
  DEF Next, Attempt

LEMMA LedgerIsOrdered == Spec => []OrderSound
BY Correctness, OrderInit, OrderStep, PTL DEF Spec

-------------------------------------------------------------------------------
(* A complete ledger walks the plan                                        *)

Scans == INSTANCE AttemptProfileProofs WITH MaxRetries <- MaxAttempts, Benchmark <- "this"

\* The plans of the first s samples, for s up to n.
IsPlan(f, n) == f = [s \in 0..n |-> IF s = 0 THEN <<>> ELSE f[s - 1] \o Blocks(s)]

LEMMA PlanExists ==
  ASSUME NEW n \in Nat
  PROVE  \E f : IsPlan(f, n)
<1> DEFINE S == {m \in 0..n : \E f : IsPlan(f, m)}
<1>1. 0 \in S
  <2> DEFINE f == [s \in 0..0 |-> <<>>]
  <2>1. f = [s \in 0..0 |-> IF s = 0 THEN <<>> ELSE f[s - 1] \o Blocks(s)]
    OBVIOUS
  <2>2. IsPlan(f, 0)
    BY <2>1 DEF IsPlan
  <2> QED
    BY <2>2
<1>2. ASSUME NEW m \in 0..n, m \in S, m < n
      PROVE  m + 1 \in S
  <2>1. PICK f : IsPlan(f, m)
    BY <1>2
  <2> DEFINE g == [s \in 0..(m + 1) |-> IF s = m + 1 THEN f[m] \o Blocks(m + 1) ELSE f[s]]
  <2>2. ASSUME NEW s \in 0..(m + 1)
        PROVE  g[s] = IF s = 0 THEN <<>> ELSE g[s - 1] \o Blocks(s)
    <3>1. CASE s = m + 1
      BY <3>1
    <3>2. CASE s # m + 1
      <4>1. s \in 0..m /\ g[s] = f[s] /\ (s # 0 => g[s - 1] = f[s - 1])
        BY <3>2
      <4>2. f[s] = IF s = 0 THEN <<>> ELSE f[s - 1] \o Blocks(s)
        BY <2>1, <4>1 DEF IsPlan
      <4> HIDE DEF g
      <4> QED
        BY <4>1, <4>2
    <3> QED
      BY <3>1, <3>2
  <2>3. g = [s \in 0..(m + 1) |-> g[s]]
    OBVIOUS
  <2>4. IsPlan(g, m + 1)
    <3> HIDE DEF g
    <3> QED
      BY <2>2, <2>3 DEF IsPlan
  <2>5. m + 1 \in 0..n
    BY <1>2
  <2> HIDE DEF g
  <2> QED
    BY <2>4, <2>5
<1>3. \A i \in 0..n : i \in S
  <2> HIDE DEF S
  <2> QED
    BY <1>1, <1>2, Scans!UpTo
<1> QED
  BY <1>3

LEMMA PlanUnfolds ==
  \E f : /\ f[0] = <<>> /\ f[Samples] = Plan
         /\ \A s \in 1..Samples : f[s] = f[s - 1] \o Blocks(s)
<1> DEFINE f == CHOOSE f : f = [s \in 0..Samples |-> IF s = 0 THEN <<>> ELSE f[s - 1] \o Blocks(s)]
<1>1. Plan = f[Samples]
  BY DEF Plan
<1>2. IsPlan(f, Samples)
  <2>1. \E g : g = [s \in 0..Samples |-> IF s = 0 THEN <<>> ELSE g[s - 1] \o Blocks(s)]
    <3>1. \E g : IsPlan(g, Samples)
      BY PlanExists, LiveRunAssumption
    <3> QED
      BY <3>1, Zenon DEF IsPlan
  <2> QED
    BY <2>1, Zenon DEF IsPlan
<1> HIDE DEF f
<1>3. f = [s \in 0..Samples |-> IF s = 0 THEN <<>> ELSE f[s - 1] \o Blocks(s)]
  BY <1>2 DEF IsPlan
<1>4. f[0] = <<>>
  BY <1>3, LiveRunAssumption
<1>5. ASSUME NEW s \in 1..Samples PROVE f[s] = f[s - 1] \o Blocks(s)
  <2>1. s \in 0..Samples /\ s # 0
    BY LiveRunAssumption
  <2> QED
    BY <1>3, <2>1
<1> QED
  BY <1>1, <1>4, <1>5

Block == [sample : 1..Samples, operation : Operation]

\* The operations a sample has, and where they are among its own.
Has(s, o) ==
  /\ o \in Operation
  /\ o = "generate" => s \in Generated
  /\ o = "arbiter" => observations[s] = "arbitrated"

Rank(o) == CASE o = "generate" -> 0 [] o = "logic" -> 1 [] o = "adversarial" -> 2 [] OTHER -> 3
Turn(s, o) == IF s \in Generated THEN Rank(o) + 1 ELSE Rank(o)

LEMMA Joined ==
  ASSUME NEW S, NEW a \in Seq(S), NEW b \in Seq(S), NEW c \in Seq(S)
  PROVE  /\ a \o b \o c \in Seq(S)
         /\ Len(a \o b \o c) = Len(a) + Len(b) + Len(c)
         /\ \A i \in 1..Len(a) : (a \o b \o c)[i] = a[i]
         /\ \A i \in 1..Len(b) : (a \o b \o c)[Len(a) + i] = b[i]
         /\ \A i \in 1..Len(c) : (a \o b \o c)[Len(a) + Len(b) + i] = c[i]
<1>1. /\ a \o b \in Seq(S) /\ Len(a \o b) = Len(a) + Len(b)
      /\ \A i \in 1..Len(a) : (a \o b)[i] = a[i]
      /\ \A i \in 1..Len(b) : (a \o b)[Len(a) + i] = b[i]
  OBVIOUS
<1> DEFINE d == a \o b
<1>2. d \in Seq(S)
  BY <1>1
<1> HIDE DEF d
<1>3. /\ d \o c \in Seq(S) /\ Len(d \o c) = Len(d) + Len(c)
      /\ \A i \in 1..Len(d) : (d \o c)[i] = d[i]
      /\ \A i \in 1..Len(c) : (d \o c)[Len(d) + i] = c[i]
  BY <1>2
<1>4. Len(a) \in Nat /\ Len(b) \in Nat
  OBVIOUS
<1> QED
  BY <1>1, <1>3, <1>4 DEF d

LEMMA BlocksInOrder ==
  ASSUME NEW s \in 1..Samples
  PROVE  /\ Blocks(s) \in Seq(Block)
         /\ Len(Blocks(s)) = Turn(s, LastOf(s))
         /\ Turn(s, FirstOf(s)) = 1
         /\ \A o : Has(s, o) =>
              /\ Turn(s, o) \in 1..Len(Blocks(s))
              /\ Blocks(s)[Turn(s, o)] = [sample |-> s, operation |-> o]
<1> DEFINE B(o) == [sample |-> s, operation |-> o]
           a == IF s \in Generated THEN <<B("generate")>> ELSE <<>>
           b == <<B("logic"), B("adversarial")>>
           c == IF observations[s] = "arbitrated" THEN <<B("arbiter")>> ELSE <<>>
           j == a \o b \o c
<1>1. \A o \in Operation : B(o) \in Block
  BY DEF Block
<1>2. /\ B("generate") \in Block /\ B("logic") \in Block /\ B("adversarial") \in Block
      /\ B("arbiter") \in Block
  BY <1>1 DEF Operation
<1>3. Blocks(s) = j
  BY DEF Blocks
<1> HIDE DEF B
<1>4. /\ a \in Seq(Block) /\ b \in Seq(Block) /\ c \in Seq(Block)
      /\ Len(a) = IF s \in Generated THEN 1 ELSE 0
      /\ Len(b) = 2
      /\ Len(c) = IF observations[s] = "arbitrated" THEN 1 ELSE 0
      /\ s \in Generated => a[1] = B("generate")
      /\ b[1] = B("logic") /\ b[2] = B("adversarial")
      /\ observations[s] = "arbitrated" => c[1] = B("arbiter")
  BY <1>2
<1> HIDE DEF a, b, c
<1>5. /\ j \in Seq(Block) /\ Len(j) = Len(a) + Len(b) + Len(c)
      /\ \A i \in 1..Len(a) : j[i] = a[i]
      /\ \A i \in 1..Len(b) : j[Len(a) + i] = b[i]
      /\ \A i \in 1..Len(c) : j[Len(a) + Len(b) + i] = c[i]
  <2>1. a \in Seq(Block) /\ b \in Seq(Block) /\ c \in Seq(Block)
    BY <1>4
  <2>2. /\ a \o b \o c \in Seq(Block)
        /\ Len(a \o b \o c) = Len(a) + Len(b) + Len(c)
        /\ \A i \in 1..Len(a) : (a \o b \o c)[i] = a[i]
        /\ \A i \in 1..Len(b) : (a \o b \o c)[Len(a) + i] = b[i]
        /\ \A i \in 1..Len(c) : (a \o b \o c)[Len(a) + Len(b) + i] = c[i]
    BY <2>1, Joined
  <2> QED
    BY <2>2
<1> HIDE DEF j
<1>6. /\ s \in Generated => j[1] = B("generate")
      /\ j[Len(a) + 1] = B("logic") /\ j[Len(a) + 2] = B("adversarial")
      /\ observations[s] = "arbitrated" => j[Len(a) + 3] = B("arbiter")
  BY <1>4, <1>5
<1>7. Len(j) = Turn(s, LastOf(s)) /\ Turn(s, FirstOf(s)) = 1
  BY <1>4, <1>5 DEF Turn, Rank, FirstOf, LastOf
<1>8. ASSUME NEW o, Has(s, o) PROVE Turn(s, o) \in 1..Len(j) /\ j[Turn(s, o)] = B(o)
  <2>1. CASE o = "generate"
    BY <1>4, <1>5, <1>6, <1>8, <2>1 DEF Turn, Rank, Has
  <2>2. CASE o = "logic"
    BY <1>4, <1>5, <1>6, <1>8, <2>2 DEF Turn, Rank, Has
  <2>3. CASE o = "adversarial"
    BY <1>4, <1>5, <1>6, <1>8, <2>3 DEF Turn, Rank, Has
  <2>4. CASE o = "arbiter"
    BY <1>4, <1>5, <1>6, <1>8, <2>4 DEF Turn, Rank, Has
  <2> QED
    BY <1>8, <2>1, <2>2, <2>3, <2>4 DEF Has, Operation
<1> QED
  BY <1>3, <1>5, <1>7, <1>8 DEF B

\* Where a sample's operation is in the plan f is made of.
Place(f, s, o) == Len(f[s - 1]) + Turn(s, o)

\* Every operation of a sample has its place in the plan; the next one has the next place,
\* and the first of a sample comes after the last of the sample before.
LEMMA PlanInOrder ==
  \E f :
    /\ Plan \in Seq(Block) /\ (Samples = 0 => Plan = <<>>)
    /\ \A s \in 1..Samples : \A o : Has(s, o) =>
         /\ Place(f, s, o) \in 1..Len(Plan)
         /\ Plan[Place(f, s, o)] = [sample |-> s, operation |-> o]
    /\ Samples # 0 => Place(f, 1, FirstOf(1)) = 1
    /\ Samples # 0 => Place(f, Samples, LastOf(Samples)) = Len(Plan)
    /\ \A s \in 1..Samples : s + 1 \in 1..Samples =>
         Place(f, s + 1, FirstOf(s + 1)) = Place(f, s, LastOf(s)) + 1
    /\ \A s \in 1..Samples : Len(f[s - 1]) \in Nat
<1>0. Samples \in Nat
  BY LiveRunAssumption
<1>1. PICK f : /\ f[0] = <<>> /\ f[Samples] = Plan
               /\ \A s \in 1..Samples : f[s] = f[s - 1] \o Blocks(s)
  BY PlanUnfolds
<1>2. \A s \in 0..Samples : f[s] \in Seq(Block)
  <2> DEFINE S == {s \in 0..Samples : f[s] \in Seq(Block)}
  <2>1. 0 \in S
    <3>1. <<>> \in Seq(Block)
      OBVIOUS
    <3>2. f[0] \in Seq(Block)
      BY <1>1, <3>1
    <3>3. 0 \in 0..Samples
      BY <1>0
    <3> QED
      BY <3>2, <3>3
  <2>2. ASSUME NEW s \in 0..Samples, s \in S, s < Samples PROVE s + 1 \in S
    <3>1. s + 1 \in 1..Samples /\ s + 1 \in 0..Samples /\ (s + 1) - 1 = s
      BY <1>0, <2>2
    <3>2. f[s + 1] = f[s] \o Blocks(s + 1)
      BY <1>1, <3>1
    <3>3. Blocks(s + 1) \in Seq(Block)
      BY <3>1, BlocksInOrder
    <3>4. f[s] \in Seq(Block)
      BY <2>2
    <3> DEFINE u == f[s]
               v == Blocks(s + 1)
    <3>5. u \o v \in Seq(Block)
      <4> HIDE DEF u, v
      <4>1. u \in Seq(Block) /\ v \in Seq(Block)
        BY <3>3, <3>4 DEF u, v
      <4> QED
        BY <4>1
    <3> QED
      BY <3>1, <3>2, <3>5
  <2> HIDE DEF S
  <2>3. \A s \in 0..Samples : s \in S
    BY <1>0, <2>1, <2>2, Scans!UpTo
  <2> QED
    BY <2>3 DEF S
<1>3. ASSUME NEW s \in 1..Samples
      PROVE  /\ Len(f[s]) = Len(f[s - 1]) + Len(Blocks(s))
             /\ \A k \in 1..Len(f[s - 1]) : f[s][k] = f[s - 1][k]
             /\ \A k \in 1..Len(Blocks(s)) : f[s][Len(f[s - 1]) + k] = Blocks(s)[k]
             /\ Len(f[s]) \in Nat /\ Len(f[s - 1]) \in Nat /\ Len(Blocks(s)) \in Nat
             /\ Len(f[s - 1]) <= Len(f[s])
  <2>0. s - 1 \in 0..Samples
    BY <1>0
  <2>1. f[s] = f[s - 1] \o Blocks(s) /\ f[s - 1] \in Seq(Block) /\ Blocks(s) \in Seq(Block)
    <3>1. Blocks(s) \in Seq(Block)
      BY BlocksInOrder
    <3> QED
      BY <1>1, <1>2, <2>0, <3>1
  <2> DEFINE u == f[s - 1]
             v == Blocks(s)
             w == f[s]
  <2>2. w = u \o v /\ u \in Seq(Block) /\ v \in Seq(Block)
    BY <2>1
  <2> HIDE DEF u, v, w
  <2>3. /\ Len(w) = Len(u) + Len(v)
        /\ \A k \in 1..Len(u) : w[k] = u[k]
        /\ \A k \in 1..Len(v) : w[Len(u) + k] = v[k]
        /\ Len(u) \in Nat /\ Len(v) \in Nat
    BY <2>2
  <2> QED
    BY <2>3 DEF u, v, w
<1>4. \A i \in 0..Samples :
        /\ Len(f[Samples - i]) <= Len(Plan)
        /\ \A k \in 1..Len(f[Samples - i]) : Plan[k] = f[Samples - i][k]
  <2> DEFINE Kept(i) == /\ Len(f[Samples - i]) <= Len(Plan)
                        /\ \A k \in 1..Len(f[Samples - i]) : Plan[k] = f[Samples - i][k]
             S == {i \in 0..Samples : Kept(i)}
  <2>1. 0 \in S
    <3>1. Samples - 0 = Samples /\ f[Samples] = Plan /\ Len(Plan) \in Nat /\ 0 \in 0..Samples
      BY <1>0, <1>1, <1>2
    <3>2. Kept(0)
      BY <3>1
    <3> HIDE DEF Kept
    <3> QED
      BY <3>1, <3>2
  <2>2. ASSUME NEW i \in 0..Samples, i \in S, i < Samples PROVE i + 1 \in S
    <3> DEFINE s == Samples - i
    <3>1. s \in 1..Samples /\ Samples - (i + 1) = s - 1 /\ i + 1 \in 0..Samples
      BY <1>0, <2>2
    <3>2. Len(f[s]) <= Len(Plan) /\ \A k \in 1..Len(f[s]) : Plan[k] = f[s][k]
      BY <2>2
    <3>3. Len(Plan) \in Nat
      BY <1>0, <1>1, <1>2
    <3> HIDE DEF s
    <3>4. Kept(i + 1)
      BY <1>3, <3>1, <3>2, <3>3
    <3> QED
      BY <3>1, <3>4
  <2> HIDE DEF S
  <2>3. \A i \in 0..Samples : i \in S
    BY <1>0, <2>1, <2>2, Scans!UpTo
  <2> QED
    BY <2>3 DEF S
<1>5. ASSUME NEW s \in 1..Samples, NEW o, Has(s, o)
      PROVE  /\ Place(f, s, o) \in 1..Len(Plan)
             /\ Plan[Place(f, s, o)] = [sample |-> s, operation |-> o]
  <2>1. /\ Turn(s, o) \in 1..Len(Blocks(s))
        /\ Blocks(s)[Turn(s, o)] = [sample |-> s, operation |-> o]
    BY <1>5, BlocksInOrder
  <2>2. Samples - s \in 0..Samples /\ Samples - (Samples - s) = s
    BY <1>0
  <2>3. Len(f[s]) <= Len(Plan) /\ \A k \in 1..Len(f[s]) : Plan[k] = f[s][k]
    BY <1>4, <2>2
  <2>4. Place(f, s, o) \in 1..Len(f[s]) /\ f[s][Place(f, s, o)] = Blocks(s)[Turn(s, o)]
    <3> DEFINE k == Turn(s, o)
    <3>1. /\ k \in 1..Len(Blocks(s)) /\ Place(f, s, o) = Len(f[s - 1]) + k
          /\ f[s][Len(f[s - 1]) + k] = Blocks(s)[k]
      BY <1>3, <2>1 DEF Place
    <3> HIDE DEF k
    <3>2. /\ Len(f[s]) = Len(f[s - 1]) + Len(Blocks(s))
          /\ Len(f[s - 1]) \in Nat /\ Len(Blocks(s)) \in Nat
      BY <1>3
    <3> QED
      BY <3>1, <3>2 DEF k
  <2>5. Len(Plan) \in Nat /\ Len(f[s]) \in Nat
    BY <1>0, <1>1, <1>2, <1>3
  <2> QED
    BY <1>3, <2>1, <2>3, <2>4, <2>5
<1>6. ASSUME NEW s \in 1..Samples
      PROVE  /\ Place(f, s, LastOf(s)) = Len(f[s])
             /\ Place(f, s, FirstOf(s)) = Len(f[s - 1]) + 1
  BY <1>3, BlocksInOrder DEF Place
<1>7. Samples # 0 => Place(f, 1, FirstOf(1)) = 1
  <2>1. Len(f[0]) = 0
    BY <1>1
  <2> QED
    BY <1>0, <1>6, <2>1
<1>8. Samples # 0 => Place(f, Samples, LastOf(Samples)) = Len(Plan)
  BY <1>0, <1>1, <1>6
<1>9. ASSUME NEW s \in 1..Samples, s + 1 \in 1..Samples
      PROVE  Place(f, s + 1, FirstOf(s + 1)) = Place(f, s, LastOf(s)) + 1
  <2>1. (s + 1) - 1 = s
    BY <1>0
  <2> QED
    BY <1>6, <1>9, <2>1
<1>10. Plan \in Seq(Block) /\ (Samples = 0 => Plan = <<>>)
  BY <1>0, <1>1, <1>2
<1> QED
  BY <1>3, <1>5, <1>7, <1>8, <1>9, <1>10

\* The ledger as the profile reads it.
Entries == [i \in 1..Len(ledger) |->
  [sequence |-> ledger[i].sequence, benchmark |-> "this", sample |-> ledger[i].sample,
   operation |-> ledger[i].operation, phase |-> ledger[i].phase, retry |-> ledger[i].retry]]

LEMMA EntriesAre ==
  ASSUME ledger \in Seq(EventType)
  PROVE  /\ Len(Entries) = Len(ledger) /\ Len(ledger) \in Nat
         /\ \A i \in 1..Len(ledger) :
              /\ ledger[i] \in EventType
              /\ Entries[i].sequence = ledger[i].sequence /\ Entries[i].benchmark = "this"
              /\ Entries[i].sample = ledger[i].sample
              /\ Entries[i].operation = ledger[i].operation
              /\ Entries[i].phase = ledger[i].phase /\ Entries[i].retry = ledger[i].retry
<1> DEFINE n == Len(ledger)
<1>1. n \in Nat /\ \A i \in 1..n : ledger[i] \in EventType
  OBVIOUS
<1> HIDE DEF n
<1>2. DOMAIN Entries = 1..n
  BY DEF Entries, n
<1>3. Len(Entries) = n
  BY <1>1, <1>2
<1> QED
  BY <1>1, <1>3 DEF Entries, n

LEMMA CompleteWalks ==
  ASSUME Invariant, OrderSound, report = "complete", Consumed = 0
  PROVE  Scans!Accepts(Plan, Entries)
<1>1. /\ ledger \in Seq(EventType) /\ Samples \in Nat
      /\ InOrder /\ Finished /\ Numbered
  BY LedgerFacts DEF OrderSound
<1>2. PICK f :
        /\ Plan \in Seq(Block) /\ (Samples = 0 => Plan = <<>>)
        /\ \A s \in 1..Samples : \A o : Has(s, o) =>
             /\ Place(f, s, o) \in 1..Len(Plan)
             /\ Plan[Place(f, s, o)] = [sample |-> s, operation |-> o]
        /\ Samples # 0 => Place(f, 1, FirstOf(1)) = 1
        /\ Samples # 0 => Place(f, Samples, LastOf(Samples)) = Len(Plan)
        /\ \A s \in 1..Samples : s + 1 \in 1..Samples =>
             Place(f, s + 1, FirstOf(s + 1)) = Place(f, s, LastOf(s)) + 1
        /\ \A s \in 1..Samples : Len(f[s - 1]) \in Nat
  BY PlanInOrder
<1> DEFINE n == Len(ledger)
           m == Len(Plan)
           at == [i \in 1..n |-> Place(f, ledger[i].sample, ledger[i].operation)]
<1>3. /\ n \in Nat /\ m \in Nat /\ Len(Entries) = n
      /\ \A i \in 1..n :
           /\ ledger[i] \in EventType
           /\ Entries[i].sequence = ledger[i].sequence /\ Entries[i].benchmark = "this"
           /\ Entries[i].sample = ledger[i].sample
           /\ Entries[i].operation = ledger[i].operation
           /\ Entries[i].phase = ledger[i].phase /\ Entries[i].retry = ledger[i].retry
  BY <1>1, <1>2, EntriesAre
<1>4. \A i \in 1..n :
        /\ ledger[i].sample \in 1..Samples /\ ledger[i].retry <= MaxAttempts
        /\ Has(ledger[i].sample, ledger[i].operation)
  <2> SUFFICES ASSUME NEW i \in 1..n
               PROVE  /\ ledger[i].sample \in 1..Samples /\ ledger[i].retry <= MaxAttempts
                      /\ Has(ledger[i].sample, ledger[i].operation)
    OBVIOUS
  <2>1. ledger[i] \in EventType
    BY <1>3
  <2>2. /\ ledger[i].sample \in 1..Samples /\ ledger[i].operation \in Operation
        /\ ledger[i].retry <= MaxAttempts
    BY <2>1, LiveRunAssumption DEF EventType
  <2>3. /\ ledger[i].operation = "generate" => ledger[i].sample \in Generated
        /\ ledger[i].operation = "arbiter" => observations[ledger[i].sample] = "arbitrated"
    BY <1>1 DEF InOrder, Finished
  <2> QED
    BY <2>2, <2>3 DEF Has
<1>5. \A i \in 1..n :
        /\ at[i] \in 1..m
        /\ Plan[at[i]] = [sample |-> ledger[i].sample, operation |-> ledger[i].operation]
  BY <1>2, <1>4
<1>6. \A i \in 1..n : at[i] = Place(f, ledger[i].sample, ledger[i].operation)
  OBVIOUS
<1>7. at \in [1..n -> 1..m]
  BY <1>5
<1>8. n # 0 => Begins(ledger[1]) /\ 1 \in 1..n /\ n \in 1..n /\ Latest = ledger[n]
               /\ Samples # 0 /\ EndsAt(Samples, LastOf(Samples))
  <2> SUFFICES ASSUME n # 0
               PROVE  /\ Begins(ledger[1]) /\ 1 \in 1..n /\ n \in 1..n /\ Latest = ledger[n]
                      /\ Samples # 0 /\ EndsAt(Samples, LastOf(Samples))
    OBVIOUS
  <2>1. ledger # <<>> /\ 1 \in 1..n /\ n \in 1..n
    BY <1>3
  <2>2. Samples # 0
    BY <1>1, <1>4, <2>1
  <2> QED
    BY <1>1, <2>1, <2>2 DEF InOrder, Finished, AllThrough, Latest
<1>9. n = 0 => m = 0
  <2> SUFFICES ASSUME n = 0 PROVE m = 0
    OBVIOUS
  <2>1. ledger = <<>>
    BY <1>1
  <2>2. Samples = 0
    BY <1>1, <2>1 DEF Finished, AllThrough, EndsAt
  <2> QED
    BY <1>2, <2>2
<1>10. \A i \in 2..n : ComesAfter(ledger[i - 1], ledger[i])
  BY <1>1 DEF InOrder
<1> HIDE DEF n, m, at
<1>11. ASSUME NEW i \in 1..n
       PROVE  /\ Entries[i].sequence = i /\ Entries[i].benchmark = "this"
              /\ Scans!Names(Entries[i], Plan[at[i]])
              /\ Entries[i].retry <= MaxAttempts
  <2>1. ledger[i].sequence = i
    BY <1>1, <1>3 DEF Numbered, n
  <2>2. Scans!Names(Entries[i], Plan[at[i]])
    <3> DEFINE b == Plan[at[i]]
    <3>1. b = [sample |-> ledger[i].sample, operation |-> ledger[i].operation]
      BY <1>5
    <3>2. Entries[i].sample = ledger[i].sample /\ Entries[i].operation = ledger[i].operation
      BY <1>3
    <3> HIDE DEF b
    <3>3. b.sample = ledger[i].sample /\ b.operation = ledger[i].operation
      BY <3>1
    <3>4. Scans!Names(Entries[i], b)
      BY <3>2, <3>3 DEF Scans!Names
    <3> QED
      BY <3>4 DEF b
  <2> QED
    BY <1>3, <1>4, <2>1, <2>2
<1>12. n # 0 => at[1] = 1 /\ Scans!Opens(Entries[1]) /\ at[n] = m
  <2> SUFFICES ASSUME n # 0 PROVE at[1] = 1 /\ Scans!Opens(Entries[1]) /\ at[n] = m
    OBVIOUS
  <2>1. ledger[1].sample = 1 /\ ledger[1].operation = FirstOf(1) /\ Profile!Opens(ledger[1])
    BY <1>8 DEF Begins
  <2>2. ledger[n].sample = Samples /\ ledger[n].operation = LastOf(Samples)
    BY <1>8 DEF EndsAt
  <2>3. at[1] = 1 /\ at[n] = m
    BY <1>2, <1>6, <1>8, <2>1, <2>2 DEF m
  <2> QED
    BY <1>3, <1>8, <2>1, <2>3 DEF Scans!Opens, Profile!Opens
<1>13. ASSUME NEW i \in 2..n
       PROVE  /\ \/ at[i] = at[i - 1] /\ Scans!Follows(Entries[i - 1], Entries[i])
                 \/ at[i] = at[i - 1] + 1 /\ Scans!Opens(Entries[i])
              /\ at[i] # at[i - 1] => ~Scans!Names(Entries[i], Plan[at[i - 1]])
  <2> DEFINE d == ledger[i - 1]
             e == ledger[i]
  <2>1. i \in 1..n /\ i - 1 \in 1..n
    BY <1>3
  <2>2. /\ at[i - 1] = Place(f, d.sample, d.operation) /\ at[i - 1] \in Nat
        /\ at[i] = Place(f, e.sample, e.operation)
        /\ d.sample \in 1..Samples /\ e.sample \in 1..Samples
        /\ Plan[at[i - 1]] = [sample |-> d.sample, operation |-> d.operation]
        /\ Has(d.sample, d.operation) /\ Has(e.sample, e.operation)
    <3>1. at[i - 1] \in 1..m /\ Plan[at[i - 1]] = [sample |-> d.sample, operation |-> d.operation]
      BY <1>5, <2>1
    <3>2. at[i - 1] = Place(f, d.sample, d.operation) /\ at[i] = Place(f, e.sample, e.operation)
      BY <1>6, <2>1
    <3>3. /\ d.sample \in 1..Samples /\ e.sample \in 1..Samples
          /\ Has(d.sample, d.operation) /\ Has(e.sample, e.operation)
      BY <1>4, <2>1
    <3>4. at[i - 1] \in Nat
      BY <1>3, <3>1
    <3> QED
      BY <3>1, <3>2, <3>3, <3>4
  <2>3. /\ Entries[i].phase = e.phase /\ Entries[i].retry = e.retry
        /\ Entries[i].sample = e.sample /\ Entries[i].operation = e.operation
        /\ Entries[i - 1].phase = d.phase /\ Entries[i - 1].retry = d.retry
    BY <1>3, <2>1
  <2>4. Scans!Names(Entries[i], Plan[at[i - 1]]) <=>
          e.sample = d.sample /\ e.operation = d.operation
    BY <2>2, <2>3 DEF Scans!Names
  <2>5. ComesAfter(d, e)
    BY <1>10
  <2> HIDE DEF d, e
  <2>6. CASE e.sample = d.sample /\ e.operation = d.operation /\ Profile!Follows(d, e)
    BY <2>2, <2>3, <2>6 DEF Scans!Follows, Profile!Follows
  <2>7. CASE /\ e.sample = d.sample /\ Profile!Opens(e)
             /\ <<d.operation, e.operation>> \in
                  {<<"generate", "logic">>, <<"logic", "adversarial">>,
                   <<"adversarial", "arbiter">>}
    <3>1. Turn(e.sample, e.operation) = Turn(d.sample, d.operation) + 1
      BY <2>7 DEF Turn, Rank
    <3>2. at[i] = at[i - 1] + 1
      <4>1. /\ at[i - 1] = Len(f[d.sample - 1]) + Turn(d.sample, d.operation)
            /\ at[i] = Len(f[d.sample - 1]) + Turn(e.sample, e.operation)
            /\ Len(f[d.sample - 1]) \in Nat /\ Turn(d.sample, d.operation) \in Nat
        BY <1>2, <2>2, <2>7 DEF Place, Turn, Rank
      <4> QED
        BY <3>1, <4>1
    <3>3. e.operation # d.operation
      BY <2>7
    <3> QED
      BY <2>3, <2>4, <2>7, <3>2, <3>3 DEF Scans!Opens, Profile!Opens
  <2>8. CASE /\ e.sample = d.sample + 1 /\ Profile!Opens(e)
             /\ d.operation = LastOf(d.sample) /\ e.operation = FirstOf(e.sample)
    <3>1. at[i] = at[i - 1] + 1
      BY <1>2, <2>2, <2>8
    <3>2. e.sample # d.sample
      BY <2>2, <2>8
    <3> QED
      BY <2>3, <2>4, <2>8, <3>1, <3>2 DEF Scans!Opens, Profile!Opens
  <2> QED
    BY <2>5, <2>6, <2>7, <2>8 DEF ComesAfter
<1>14. Scans!Walks(Plan, Entries, at)
  BY <1>3, <1>11, <1>12, <1>13 DEF Scans!Walks, m
<1>15. Scans!Distinguishes(Plan, Entries, at)
  BY <1>3, <1>13 DEF Scans!Distinguishes
<1> QED
  <2>1. Len(Plan) \in Nat /\ Len(Entries) \in Nat /\ (Len(Entries) = 0 => Len(Plan) = 0)
    BY <1>3, <1>9 DEF m
  <2>2. at \in [1..Len(Entries) -> 1..Len(Plan)]
    BY <1>3, <1>7 DEF m
  <2> QED
    BY <1>14, <1>15, <2>1, <2>2, Scans!WalkIsAccepted

\* The ledger of a complete run that started from nothing passes the profile of a formal
\* run: the events walk the frozen plan, each an attempt the profile's scan expects there.
THEOREM CompleteRunsFitTheProfile == Spec => []CompleteFitsProfile
<1>1. Invariant /\ OrderSound => CompleteFitsProfile
  <2> SUFFICES ASSUME Invariant, OrderSound, report = "complete", Consumed = 0
               PROVE  Profile!Accepts(Plan, Entries)
    BY DEF CompleteFitsProfile, Entries
  <2>1. Scans!Accepts(Plan, Entries)
    BY CompleteWalks
  <2> QED
    BY <2>1 DEF Scans!Accepts, Profile!Accepts, Scans!Scanned, Profile!Scanned,
      Scans!Scan, Profile!Scan, Scans!Names, Profile!Names, Scans!Consume, Profile!Consume,
      Scans!Enter, Profile!Enter, Scans!Before, Profile!Before, Scans!Reject, Profile!Reject,
      Scans!MayRequest, Profile!MayRequest, Scans!MayRepair, Profile!MayRepair
<1> QED
  BY <1>1, Correctness, LedgerIsOrdered, PTL

-------------------------------------------------------------------------------
(* The spending it promises                                               *)

\* Every step of the benchmark records an attempt, transmits a recorded one, or is
\* invisible: the benchmark implements the spending it promises.
THEOREM SpendingRefinement == Spec => SpendingSpec
<1>1. Init => Spending!Init
  BY DEF Init, Spending!Init
<1>2. Invariant /\ Invariant' /\ [Next]_vars => [Spending!Next]_(Spending!vars)
  <2> SUFFICES ASSUME Invariant, Invariant', [Next]_vars
               PROVE  Spending!Next \/ UNCHANGED Spending!vars
    OBVIOUS
  <2>1. CASE Record
    <3>1. Counts
      BY <2>1, AttemptFacts DEF Record
    <3>2. UNCHANGED <<sent, billed>>
      BY <2>1 DEF Record, provider
    <3>3. Len(ledger') <= AttemptLimit - Consumed
      BY DEF Invariant, LedgerCounts
    <3>4. \/ ledger' = ledger
          \/ Len(ledger') = Len(ledger) + 1
      <4>1. ledger' = ledger \/ ledger' = Append(ledger, Event)
        BY <2>1 DEF Record
      <4>2. ledger \in Seq(EventType)
        BY DEF Invariant, TypeOK, EvidenceType
      <4> QED
        BY <4>1, <4>2
    <3>5. CASE ledger' = ledger
      BY <3>2, <3>5 DEF Spending!vars
    <3>6. CASE Len(ledger') = Len(ledger) + 1
      <4>1. Spending!Record
        BY <3>1, <3>2, <3>3, <3>6, LiveRunAssumption DEF Spending!Record, Counts
      <4> QED
        BY <4>1 DEF Spending!Next
    <3> QED
      BY <3>4, <3>5, <3>6
  <2>2. CASE Post
    <3>1. pc = "post" /\ Counts /\ Funds
      BY <2>2, AttemptFacts DEF Post
    <3>2. Len(sent) < Len(ledger)
      BY <3>1, LiveRunAssumption DEF Invariant, LedgerCounts, Counts
    <3>3. ledger' = ledger /\ Len(sent') = Len(sent) + 1
      BY <2>2 DEF Post, evidence, Invariant, TypeOK, ProviderType
    <3>4. /\ billed'.rmb \in Nat /\ billed'.rmb >= billed.rmb /\ billed'.rmb <= CostLimit
          /\ billed'.tokens \in Nat /\ billed'.tokens >= billed.tokens
          /\ billed'.tokens <= TokenLimit
      <4>1. PICK u \in Billable :
              billed' = [rmb |-> billed.rmb + Rmb(u), tokens |-> billed.tokens + Tokens(u)]
        BY <2>2 DEF Post
      <4>2. Rmb(u) \in Nat /\ Tokens(u) \in Nat
        BY Bounds DEF Invariant, Billable
      <4>3. billed'.rmb = billed.rmb + Rmb(u) /\ billed'.tokens = billed.tokens + Tokens(u)
        BY <4>1
      <4> QED
        BY <3>1, <4>2, <4>3 DEF Funds, Invariant, AccountsBalance, NeverOverspends
    <3>5. /\ billed'.rmb \in billed.rmb..CostLimit
          /\ billed'.tokens \in billed.tokens..TokenLimit
      BY <3>1, <3>4, LiveRunAssumption DEF Funds
    <3>6. Spending!Transmit
      BY <3>2, <3>3, <3>5 DEF Spending!Transmit
    <3> QED
      BY <3>6 DEF Spending!Next
  <2>3. CASE ~Record /\ ~Post
    <3>1. UNCHANGED <<ledger, sent, billed>>
      BY <2>3 DEF Next, Attempt, vars, Start, WriteConfig, TakeSample, Reserve,
        WriteReservation, TransportError, OtherError, Response, WriteSettlement, EndCall,
        WriteTraceAndJudge, WriteResult, WriteObservation, WriteSampleFailure, WriteIndex,
        WriteFailure, WriteReport, Crash, evidence, provider
    <3> QED
      BY <3>1 DEF Spending!vars
  <2> QED
    BY <2>1, <2>2, <2>3
<1> QED
  BY <1>1, <1>2, Correctness, PTL DEF Spec, SpendingSpec, Spending!Spec

-------------------------------------------------------------------------------
(* The files it creates                                                  *)

LEMMA FilesAwaitedInit == Init => FilesAwaited
BY DEF Init, FilesAwaited, Working, PcPoint, Ended

\* A step that writes none of these files, and starts no sample anew.
LEMMA FilesStillAwaited ==
  ASSUME FilesAwaited, pc' \in Working => pc \in Working, pc' # "reservation",
         UNCHANGED <<config, reserved, observations, failure, sample, used>>
  PROVE  FilesAwaited'
BY DEF FilesAwaited

LEMMA FilesAwaitedStep ==
  ASSUME Invariant, FilesAwaited, [Next]_vars
  PROVE  FilesAwaited'
<1> USE DEF Invariant, TypeOK, Working, PcPoint, Ended, Goes
<1>1. CASE Start
  BY <1>1 DEF Start, FilesAwaited, evidence
<1>2. CASE WriteConfig
  <2>1. UNCHANGED <<ledger, reserved, observations, failure, sample, used>>
    BY <1>2 DEF WriteConfig, call, memory
  <2>2. pc' = "sample" => ~config
    BY <1>2 DEF WriteConfig
  <2>3. pc' \in {"sample", "artifact_failed"} /\ (config => config')
    BY <1>2 DEF WriteConfig, EvidenceType
  <2>4. ~config => reserved = {} /\ ~failure
    BY DEF EndIsLast, Fresh
  <2> QED
    BY <2>1, <2>2, <2>3, <2>4 DEF FilesAwaited
<1>3. CASE TakeSample \/ Reserve \/ Post \/ TransportError \/ OtherError \/ Response
           \/ EndCall \/ WriteTraceAndJudge \/ WriteResult \/ WriteSampleFailure
  <2>1. UNCHANGED <<config, reserved, observations, failure, sample, used>>
    BY <1>3 DEF TakeSample, Reserve, Post, TransportError, OtherError, Response, EndCall,
      WriteTraceAndJudge, WriteResult, WriteSampleFailure, Request, evidence, call, memory, guards
  <2>2. pc \in Working /\ pc' # "reservation"
    BY <1>3 DEF TakeSample, Reserve, Post, TransportError, OtherError, Response, EndCall,
      WriteTraceAndJudge, WriteResult, WriteSampleFailure, Request, OtherErrorLeadsTo
  <2> QED
    BY <2>1, <2>2, FilesStillAwaited
<1>4. CASE Record
  <2>1. UNCHANGED <<config, reserved, observations, failure, sample>> /\ pc = "record"
    BY <1>4 DEF Record, call
  <2>2. used \in Nat
    BY DEF MemoryType
  <2>3. /\ used' \in {used, used + 1}
        /\ pc' = "reservation" => used' = used + 1
    BY <1>4 DEF Record
  <2>4. reserved \subseteq Int
    BY LiveRunAssumption DEF EvidenceType, AttemptNumbers
  <2>5. \A n \in reserved : n <= used
    BY <2>1 DEF FilesAwaited
  <2>6. (\A n \in reserved : n <= used') /\ (pc' = "reservation" => used' \notin reserved)
    BY <2>2, <2>3, <2>4, <2>5
  <2> QED
    BY <2>1, <2>6 DEF FilesAwaited
<1>5. CASE WriteReservation
  <2>1. UNCHANGED <<config, observations, failure, sample, used>> /\ pc = "reservation"
        /\ pc' \in {"post", "fail"} /\ reserved' \subseteq reserved \cup {used}
    BY <1>5 DEF WriteReservation, Documented, call, memory
  <2>2. used \in Nat
    BY DEF MemoryType
  <2> QED
    BY <2>1, <2>2 DEF FilesAwaited
<1>6. CASE WriteSettlement
  <2>1. UNCHANGED <<config, reserved, observations, failure, sample, used>> /\ pc = "settle"
    BY <1>6 DEF WriteSettlement
  <2>2. after \in Following
    BY <2>1 DEF EndIsLast, MemoryType
  <2>3. pc' \in {"reserve", "fail", "done"}
    BY <1>6, <2>2 DEF WriteSettlement, Following
  <2> QED
    BY <2>1, <2>3, FilesStillAwaited
<1>7. CASE WriteObservation
  <2>1. UNCHANGED <<config, reserved, failure, used>> /\ pc = "observation"
    BY <1>7 DEF WriteObservation, memory
  <2>2. sample \in 1..(Samples + 1) /\ Samples \in Nat
    BY LiveRunAssumption DEF CallType
  <2>3. config
    BY <2>1 DEF EndIsLast
  <2>4. CASE pc' = "artifact_failed"
    BY <2>1, <2>3, <2>4 DEF FilesAwaited
  <2>5. CASE pc' # "artifact_failed"
    <3>1. /\ observations' = [observations EXCEPT ![sample] = Observation]
          /\ sample' = sample + 1 /\ pc' = "sample"
      BY <1>7, <2>5 DEF WriteObservation
    <3>2. \A s \in 1..Samples : sample <= s => observations[s] = None
      BY <2>1 DEF FilesAwaited
    <3>3. \A s \in 1..Samples : sample' <= s => observations'[s] = None
      BY <2>2, <3>1, <3>2 DEF EvidenceType
    <3> QED
      BY <2>1, <2>3, <3>1, <3>3 DEF FilesAwaited
  <2> QED
    BY <2>4, <2>5
<1>8. CASE WriteIndex \/ WriteReport
  <2>1. UNCHANGED <<config, reserved, observations, failure, sample, used>>
    BY <1>8 DEF WriteIndex, WriteReport, call, memory
  <2>2. pc \in Working /\ pc' # "reservation"
    BY <1>8 DEF WriteIndex, WriteReport
  <2> QED
    BY <2>1, <2>2, FilesStillAwaited
<1>9. CASE WriteFailure
  BY <1>9 DEF WriteFailure, FilesAwaited
<1>10. CASE Crash
  BY <1>10 DEF Crash, FilesAwaited, evidence
<1>11. CASE UNCHANGED vars
  BY <1>11 DEF vars, evidence, call, memory, FilesAwaited
<1> QED
  BY <1>1, <1>2, <1>3, <1>4, <1>5, <1>6, <1>7, <1>8, <1>9, <1>10, <1>11 DEF Next, Attempt

\* What each file holds.
Holds(f) ==
  LET n == f[2] IN
  /\ f[1] = "config" => ContentOf(f) = IF config THEN "written" ELSE None
  /\ f[1] = "failure" => ContentOf(f) = IF failure THEN "written" ELSE None
  /\ f[1] = "index" => ContentOf(f) = index
  /\ f[1] = "report" => ContentOf(f) = report
  /\ f[1] = "event" =>
       ContentOf(f) = IF n - Consumed <= Len(ledger) THEN ledger[n - Consumed] ELSE None
  /\ f[1] = "reservation" => ContentOf(f) = IF n \in reserved THEN "written" ELSE None
  /\ f[1] = "settlement" => ContentOf(f) = settled[n]
  /\ f[1] = "observation" => ContentOf(f) = observations[n]

LEMMA FilesHold == \A f \in LiveFile : Holds(f)
<1> SUFFICES ASSUME NEW f \in LiveFile PROVE Holds(f)
  OBVIOUS
<1>1. f[1] = "config" => ContentOf(f) = IF config THEN "written" ELSE None
  BY DEF ContentOf
<1>2. f[1] = "failure" => ContentOf(f) = IF failure THEN "written" ELSE None
  BY DEF ContentOf
<1>3. f[1] = "index" => ContentOf(f) = index
  BY DEF ContentOf
<1>4. f[1] = "report" => ContentOf(f) = report
  BY DEF ContentOf
<1>5. f[1] = "event" =>
        ContentOf(f) = IF f[2] - Consumed <= Len(ledger) THEN ledger[f[2] - Consumed] ELSE None
  BY DEF ContentOf
<1>6. f[1] = "reservation" => ContentOf(f) = IF f[2] \in reserved THEN "written" ELSE None
  BY DEF ContentOf
<1>7. f[1] = "settlement" => ContentOf(f) = settled[f[2]]
  BY DEF ContentOf
<1>8. f[1] = "observation" => ContentOf(f) = observations[f[2]]
  BY DEF ContentOf
<1> QED
  BY <1>1, <1>2, <1>3, <1>4, <1>5, <1>6, <1>7, <1>8 DEF Holds

LEMMA FilesHoldNext == (\A f \in LiveFile : Holds(f))'
BY FilesHold, PTL

LEMMA LiveFiles ==
  ASSUME NEW f \in LiveFile
  PROVE  /\ f = <<f[1], f[2]>>
         /\ \/ f[1] \in {"config", "index", "failure", "report"} /\ f[2] = 0
            \/ f[1] \in {"event", "reservation", "settlement"} /\ f[2] \in AttemptNumbers
            \/ f[1] = "observation" /\ f[2] \in 1..Samples
BY DEF LiveFile

\* Only the files of one kind change, and of these only that of the number n.
Creates(kind, n) ==
  LET f == <<kind, n>> IN
  /\ f \in LiveFile
  /\ ContentOf(f) = None /\ ContentOf(f)' \in LiveContent
  /\ \A g \in LiveFile : g # f => ContentOf(g)' = ContentOf(g)

Leaves == \A g \in LiveFile : ContentOf(g)' = ContentOf(g)

LEMMA OneIsCreated ==
  ASSUME NEW kind, NEW n, Creates(kind, n)
  PROVE  \E f \in LiveFile, c \in LiveContent : Store!Create(f, c)
<1>1. <<kind, n>> \in LiveFile /\ ContentOf(<<kind, n>>)' \in LiveContent
  BY DEF Creates
<1> DEFINE f == <<kind, n>>
           c == ContentOf(f)'
<1>2. /\ ContentOf(f) = None /\ c \in LiveContent /\ f \in LiveFile
      /\ \A g \in LiveFile : g # f => ContentOf(g)' = ContentOf(g)
  BY DEF Creates
<1>3. Store!Create(f, c)
  BY <1>2 DEF Store!Create
<1> QED
  BY <1>2, <1>3

LEMMA NothingIsWritten == ASSUME UNCHANGED evidence PROVE Leaves
<1>1. UNCHANGED <<config, ledger, reserved, settled, observations, index, failure, report>>
  BY DEF evidence
<1> QED
  BY <1>1, LiveFiles, FilesHold, FilesHoldNext DEF Leaves, Holds

\* Files there is one of.
LEMMA FileIsCreated ==
  ASSUME UNCHANGED <<ledger, reserved, settled, observations>>,
         NEW kind \in {"config", "index", "failure", "report"},
         ContentOf(<<kind, 0>>) = None, ContentOf(<<kind, 0>>)' \in LiveContent,
         kind = "config" \/ config' = config, kind = "index" \/ index' = index,
         kind = "failure" \/ failure' = failure, kind = "report" \/ report' = report
  PROVE  Creates(kind, 0)
<1>1. <<kind, 0>> \in LiveFile
  BY DEF LiveFile
<1>2. ASSUME NEW g \in LiveFile, g # <<kind, 0>> PROVE ContentOf(g)' = ContentOf(g)
  <2>1. g[1] # kind
    BY <1>2, LiveFiles
  <2> QED
    BY <1>2, <2>1, LiveFiles, FilesHold, FilesHoldNext DEF Holds
<1> QED
  BY <1>1, <1>2 DEF Creates

LEMMA SingleFiles ==
  /\ ContentOf(<<"config", 0>>) = IF config THEN "written" ELSE None
  /\ ContentOf(<<"failure", 0>>) = IF failure THEN "written" ELSE None
  /\ ContentOf(<<"index", 0>>) = index /\ ContentOf(<<"report", 0>>) = report
<1>1. /\ <<"config", 0>> \in LiveFile /\ <<"failure", 0>> \in LiveFile
      /\ <<"index", 0>> \in LiveFile /\ <<"report", 0>> \in LiveFile
  BY DEF LiveFile
<1> QED
  BY <1>1, FilesHold DEF Holds

LEMMA SingleFilesNext ==
  /\ ContentOf(<<"config", 0>>)' = IF config' THEN "written" ELSE None
  /\ ContentOf(<<"failure", 0>>)' = IF failure' THEN "written" ELSE None
  /\ ContentOf(<<"index", 0>>)' = index' /\ ContentOf(<<"report", 0>>)' = report'
<1>1. /\ <<"config", 0>> \in LiveFile /\ <<"failure", 0>> \in LiveFile
      /\ <<"index", 0>> \in LiveFile /\ <<"report", 0>> \in LiveFile
  BY DEF LiveFile
<1> QED
  BY <1>1, FilesHoldNext DEF Holds

OneFile == Leaves \/ \E kind, n : Creates(kind, n)

LEMMA RecordCreates == ASSUME Invariant, Invariant', Record PROVE OneFile
<1>0. PICK m, n : m = Len(ledger) /\ n = Consumed + m + 1
  OBVIOUS
<1>1. ledger \in Seq(EventType) /\ m \in Nat /\ Consumed \in Nat /\ AttemptLimit \in Nat
  BY <1>0, LiveRunAssumption DEF Invariant, TypeOK, EvidenceType
<1>2. UNCHANGED <<config, reserved, settled, observations, index, failure, report>>
      /\ ledger' \in {ledger, Append(ledger, Event)}
  BY DEF Record
<1>3. CASE ledger' = ledger
  BY <1>2, <1>3, NothingIsWritten DEF OneFile, evidence
<1>4. CASE ledger' = Append(ledger, Event)
  <2>1. ledger' \in Seq(EventType) /\ Len(ledger') <= AttemptLimit - Consumed
    BY DEF Invariant, TypeOK, EvidenceType, LedgerCounts
  <2>2. /\ Len(ledger') = m + 1
        /\ \A i \in 1..m : ledger'[i] = ledger[i]
        /\ ledger'[m + 1] \in EventType
    BY <1>0, <1>1, <1>4, <2>1
  <2>3. n \in AttemptNumbers
    BY <1>0, <1>1, <2>1, <2>2 DEF AttemptNumbers
  <2>4. <<"event", n>> \in LiveFile
    BY <2>3 DEF LiveFile
  <2>5. ContentOf(<<"event", n>>) = None
    <3>1. ~(n - Consumed <= Len(ledger))
      BY <1>0, <1>1
    <3> QED
      BY <2>4, <3>1, FilesHold DEF Holds
  <2>6. ContentOf(<<"event", n>>)' \in LiveContent
    <3>1. n - Consumed = m + 1 /\ n - Consumed <= Len(ledger')
      BY <1>0, <1>1, <2>2
    <3>2. ContentOf(<<"event", n>>)' = ledger'[m + 1]
      BY <2>4, <3>1, FilesHoldNext DEF Holds
    <3> QED
      BY <2>2, <3>2 DEF LiveContent
  <2>7. ASSUME NEW g \in LiveFile, g # <<"event", n>> PROVE ContentOf(g)' = ContentOf(g)
    <3>1. CASE g[1] # "event"
      BY <1>2, <3>1, LiveFiles, FilesHold, FilesHoldNext DEF Holds
    <3>2. CASE g[1] = "event"
      <4>1. g[2] \in AttemptNumbers /\ g[2] # n
        BY <2>7, <3>2, LiveFiles
      <4>2. g[2] \in Int /\ g[2] >= Consumed + 1
        BY <1>1, <4>1 DEF AttemptNumbers
      <4>3. CASE g[2] - Consumed <= m
        <5>1. g[2] - Consumed \in 1..m /\ g[2] - Consumed <= Len(ledger')
          BY <1>1, <2>2, <4>2, <4>3
        <5>2. ContentOf(g) = ledger[g[2] - Consumed]
          BY <1>0, <3>2, <4>3, FilesHold DEF Holds
        <5>3. ContentOf(g)' = ledger'[g[2] - Consumed]
          BY <3>2, <5>1, FilesHoldNext DEF Holds
        <5> QED
          BY <2>2, <5>1, <5>2, <5>3
      <4>4. CASE ~(g[2] - Consumed <= m)
        <5>1. ~(g[2] - Consumed <= Len(ledger'))
          BY <1>0, <1>1, <2>2, <4>1, <4>2, <4>4
        <5> QED
          BY <1>0, <3>2, <4>4, <5>1, FilesHold, FilesHoldNext DEF Holds
      <4> QED
        BY <4>3, <4>4
    <3> QED
      BY <3>1, <3>2
  <2>8. Creates("event", n)
    BY <2>4, <2>5, <2>6, <2>7 DEF Creates
  <2> QED
    BY <2>8 DEF OneFile
<1> QED
  BY <1>2, <1>3, <1>4

LEMMA ReservationCreates ==
  ASSUME Invariant, FilesAwaited, WriteReservation PROVE OneFile
<1>0. PICK n : n = used
  OBVIOUS
<1>1. UNCHANGED <<config, ledger, settled, observations, index, failure, report>>
      /\ reserved' \in {reserved, reserved \cup {used}} /\ pc = "reservation"
  BY DEF WriteReservation, Documented
<1>2. n \in AttemptNumbers /\ n \notin reserved
  BY <1>0, <1>1 DEF Invariant, LedgerCounts, FilesAwaited
<1>3. CASE reserved' = reserved
  BY <1>1, <1>3, NothingIsWritten DEF OneFile, evidence
<1>4. CASE reserved' = reserved \cup {used}
  <2>1. <<"reservation", n>> \in LiveFile
    BY <1>2 DEF LiveFile
  <2>2. ContentOf(<<"reservation", n>>) = None
    BY <1>2, <2>1, FilesHold DEF Holds
  <2>3. ContentOf(<<"reservation", n>>)' = "written"
    BY <1>0, <1>4, <2>1, FilesHoldNext DEF Holds
  <2>4. ASSUME NEW g \in LiveFile, g # <<"reservation", n>> PROVE ContentOf(g)' = ContentOf(g)
    <3>1. CASE g[1] # "reservation"
      BY <1>1, <3>1, LiveFiles, FilesHold, FilesHoldNext DEF Holds
    <3>2. CASE g[1] = "reservation"
      <4>1. g[2] # n
        BY <2>4, <3>2, LiveFiles
      <4> QED
        BY <1>0, <1>4, <3>2, <4>1, FilesHold, FilesHoldNext DEF Holds
    <3> QED
      BY <3>1, <3>2
  <2>5. Creates("reservation", n)
    BY <2>1, <2>2, <2>3, <2>4 DEF Creates, LiveContent
  <2> QED
    BY <2>5 DEF OneFile
<1> QED
  BY <1>1, <1>3, <1>4

LEMMA SettlementCreates ==
  ASSUME Invariant, SettlementsAgree, WriteSettlement PROVE OneFile
<1>0. PICK n : n = used
  OBVIOUS
<1>1. UNCHANGED <<config, ledger, reserved, observations, index, failure, report>>
      /\ settled' \in {settled, [settled EXCEPT ![used] = pending]} /\ pc = "settle"
  BY DEF WriteSettlement
<1>2. n \in AttemptNumbers /\ settled[n] = None
  BY <1>0, <1>1 DEF Invariant, LedgerCounts, SettlementsAgree, InFlight
<1>3. pending \in SettlementType /\ settled \in [AttemptNumbers -> SettlementType \cup {None}]
  BY <1>0, <1>1 DEF Invariant, TypeOK, EvidenceType, MemoryType, EndIsLast
<1>4. CASE settled' = settled
  BY <1>1, <1>4, NothingIsWritten DEF OneFile, evidence
<1>5. CASE settled' = [settled EXCEPT ![used] = pending]
  <2>1. <<"settlement", n>> \in LiveFile
    BY <1>2 DEF LiveFile
  <2>2. ContentOf(<<"settlement", n>>) = None
    BY <1>2, <2>1, FilesHold DEF Holds
  <2>3. settled'[n] = pending /\ \A m \in AttemptNumbers : m # n => settled'[m] = settled[m]
    BY <1>0, <1>2, <1>3, <1>5
  <2>4. ContentOf(<<"settlement", n>>)' = pending
    BY <2>1, <2>3, FilesHoldNext DEF Holds
  <2>5. ASSUME NEW g \in LiveFile, g # <<"settlement", n>> PROVE ContentOf(g)' = ContentOf(g)
    <3>1. CASE g[1] # "settlement"
      BY <1>1, <3>1, LiveFiles, FilesHold, FilesHoldNext DEF Holds
    <3>2. CASE g[1] = "settlement"
      <4>1. g[2] # n /\ g[2] \in AttemptNumbers
        BY <2>5, <3>2, LiveFiles
      <4> QED
        BY <2>3, <3>2, <4>1, FilesHold, FilesHoldNext DEF Holds
    <3> QED
      BY <3>1, <3>2
  <2>6. Creates("settlement", n)
    BY <1>3, <2>1, <2>2, <2>4, <2>5 DEF Creates, LiveContent
  <2> QED
    BY <2>6 DEF OneFile
<1> QED
  BY <1>1, <1>4, <1>5

LEMMA ObservationCreates ==
  ASSUME Invariant, FilesAwaited, WriteObservation PROVE OneFile
<1>0. PICK n : n = sample
  OBVIOUS
<1>1. UNCHANGED <<config, ledger, reserved, settled, index, failure, report>>
      /\ observations' \in {observations, [observations EXCEPT ![sample] = Observation]}
      /\ pc = "observation"
  BY DEF WriteObservation
<1>2. n \in 1..Samples
  BY <1>0, <1>1, LiveRunAssumption
     DEF Invariant, TypeOK, CallType, CallInRange, Working, Final, PcPoint, Ended
<1>3. observations[n] = None
  BY <1>0, <1>1, <1>2, LiveRunAssumption DEF FilesAwaited, Working, PcPoint, Ended
<1>4. Observation \in {"agreed", "arbitrated"}
      /\ observations \in [1..Samples -> {"agreed", "arbitrated", None}]
  BY DEF Observation, Invariant, TypeOK, EvidenceType
<1>5. CASE observations' = observations
  BY <1>1, <1>5, NothingIsWritten DEF OneFile, evidence
<1>6. CASE observations' = [observations EXCEPT ![sample] = Observation]
  <2>1. <<"observation", n>> \in LiveFile
    BY <1>2 DEF LiveFile
  <2>2. ContentOf(<<"observation", n>>) = None
    BY <1>3, <2>1, FilesHold DEF Holds
  <2>3. /\ observations'[n] = Observation
        /\ \A s \in 1..Samples : s # n => observations'[s] = observations[s]
    BY <1>0, <1>2, <1>4, <1>6
  <2>4. ContentOf(<<"observation", n>>)' = Observation
    BY <2>1, <2>3, FilesHoldNext DEF Holds
  <2>5. ASSUME NEW g \in LiveFile, g # <<"observation", n>>
        PROVE  ContentOf(g)' = ContentOf(g)
    <3>1. CASE g[1] # "observation"
      BY <1>1, <3>1, LiveFiles, FilesHold, FilesHoldNext DEF Holds
    <3>2. CASE g[1] = "observation"
      <4>1. g[2] # n /\ g[2] \in 1..Samples
        BY <2>5, <3>2, LiveFiles
      <4> QED
        BY <2>3, <3>2, <4>1, FilesHold, FilesHoldNext DEF Holds
    <3> QED
      BY <3>1, <3>2
  <2>6. Creates("observation", n)
    BY <1>0, <1>4, <2>1, <2>2, <2>4, <2>5 DEF Creates, LiveContent
  <2> QED
    BY <2>6 DEF OneFile
<1> QED
  BY <1>1, <1>5, <1>6

\* config.json and what ends a run.
LEMMA SingleCreates ==
  ASSUME Invariant, FilesAwaited, WriteConfig \/ WriteIndex \/ WriteFailure \/ WriteReport
  PROVE  OneFile
<1> USE DEF Invariant, Working, PcPoint, Ended
<1>1. CASE UNCHANGED evidence
  BY <1>1, NothingIsWritten DEF OneFile
<1>2. CASE WriteConfig /\ ~UNCHANGED evidence
  <2>1. UNCHANGED <<ledger, reserved, settled, observations, index, failure, report>>
        /\ config' \in {config, TRUE}
    BY <1>2 DEF WriteConfig
  <2>2. ~config /\ config'
    BY <1>2, <2>1 DEF evidence, TypeOK, EvidenceType
  <2>3. Creates("config", 0)
    BY <2>1, <2>2, SingleFiles, SingleFilesNext, FileIsCreated DEF LiveContent
  <2> QED
    BY <2>3 DEF OneFile
<1>3. CASE WriteIndex /\ ~UNCHANGED evidence
  <2>1. UNCHANGED <<config, ledger, reserved, settled, observations, failure, report>>
        /\ pc = "finalize" /\ index' \in {index, refs}
    BY <1>3 DEF WriteIndex, Indexed
  <2>2. index = None /\ index' = refs /\ refs \in Nat
    BY <1>3, <2>1 DEF EndIsLast, evidence, TypeOK, MemoryType
  <2>3. Creates("index", 0)
    BY <2>1, <2>2, SingleFiles, SingleFilesNext, FileIsCreated DEF LiveContent
  <2> QED
    BY <2>3 DEF OneFile
<1>4. CASE WriteFailure /\ ~UNCHANGED evidence
  <2>1. UNCHANGED <<config, ledger, reserved, settled, observations, index, report>>
        /\ pc = "failure" /\ failure' \in {failure, TRUE}
    BY <1>4 DEF WriteFailure
  <2>2. ~failure /\ failure'
    BY <1>4, <2>1 DEF FilesAwaited, evidence
  <2>3. Creates("failure", 0)
    BY <2>1, <2>2, SingleFiles, SingleFilesNext, FileIsCreated DEF LiveContent
  <2> QED
    BY <2>3 DEF OneFile
<1>5. CASE WriteReport /\ ~UNCHANGED evidence
  <2>1. UNCHANGED <<config, ledger, reserved, settled, observations, index, failure>>
        /\ pc = "report" /\ report' \in {report, ending}
    BY <1>5 DEF WriteReport
  <2>2. report = None /\ report' = ending /\ ending \in {"complete", "partial"}
    BY <1>5, <2>1 DEF EndIsLast, evidence
  <2>3. Creates("report", 0)
    BY <2>1, <2>2, SingleFiles, SingleFilesNext, FileIsCreated DEF LiveContent
  <2> QED
    BY <2>3 DEF OneFile
<1> QED
  BY <1>1, <1>2, <1>3, <1>4, <1>5

LEMMA StepCreatesFile ==
  ASSUME Invariant, Invariant', SettlementsAgree, FilesAwaited, [Next]_vars
  PROVE  OneFile
<1>1. CASE Start \/ TakeSample \/ Reserve \/ Post \/ TransportError \/ OtherError \/ Response
           \/ EndCall \/ WriteTraceAndJudge \/ WriteResult \/ WriteSampleFailure \/ Crash
           \/ UNCHANGED vars
  <2>1. UNCHANGED evidence
    BY <1>1 DEF Start, TakeSample, Reserve, Post, TransportError, OtherError, Response, EndCall,
      WriteTraceAndJudge, WriteResult, WriteSampleFailure, Crash, vars
  <2> QED
    BY <2>1, NothingIsWritten DEF OneFile
<1>2. CASE WriteConfig \/ WriteIndex \/ WriteFailure \/ WriteReport
  BY <1>2, SingleCreates
<1>3. CASE Record \/ WriteReservation \/ WriteSettlement \/ WriteObservation
  BY <1>3, RecordCreates, ReservationCreates, SettlementCreates, ObservationCreates
<1> QED
  BY <1>1, <1>2, <1>3 DEF Next, Attempt

LEMMA SettlementsHold == Spec => []SettlementsAgree
BY SettlementsInit, SettlementsStep, Correctness, PTL DEF Spec

\* A live benchmark uses the store as the store promises to be used: every write of a
\* run, in whatever way earlier writes failed and earlier runs stopped, is of a file that
\* is not there, and no step publishes two.
THEOREM LiveFilesAreCreated == Spec => FilesAreCreated
<1>1. Invariant /\ Invariant' /\ SettlementsAgree /\ FilesAwaited /\ [Next]_vars
      => [\E f \in LiveFile, c \in LiveContent : Store!Create(f, c)]_
           [f \in LiveFile |-> ContentOf(f)]
  <2> SUFFICES ASSUME Invariant, Invariant', SettlementsAgree, FilesAwaited, [Next]_vars
               PROVE  \/ \E f \in LiveFile, c \in LiveContent : Store!Create(f, c)
                      \/ UNCHANGED [f \in LiveFile |-> ContentOf(f)]
    OBVIOUS
  <2>1. OneFile
    BY StepCreatesFile
  <2>2. Leaves => UNCHANGED [f \in LiveFile |-> ContentOf(f)]
    BY DEF Leaves
  <2> QED
    BY <2>1, <2>2, OneIsCreated DEF OneFile
<1>2. Spec => []FilesAwaited
  BY FilesAwaitedInit, FilesAwaitedStep, Correctness, PTL DEF Spec
<1> QED
  BY <1>1, <1>2, SettlementsHold, Correctness, PTL DEF Spec, FilesAreCreated

===============================================================================
