------------------------ MODULE AttemptProfileProofs ------------------------
(***************************************************************************)
(* Proofs about the profile of attempts: the scan of                       *)
(* formal_attempt_profile_is_valid accepts the grammatical ledgers and no   *)
(* others, whatever the plan and however long the ledger.                   *)
(***************************************************************************)
EXTENDS AttemptProfile, WellFoundedInduction, TLAPS

\* Induction up to a bound, for the set of the numbers a formula holds for.
LEMMA UpTo ==
  ASSUME NEW n \in Nat, NEW S, 0 \in S,
         \A i \in 0..n : i \in S /\ i < n => i + 1 \in S
  PROVE  \A i \in 0..n : i \in S
<1> DEFINE T == {i \in 0..n : i \notin S}
<1> SUFFICES ASSUME T # {} PROVE FALSE
  OBVIOUS
<1>1. T \subseteq Nat
  OBVIOUS
<1>2. PICK x \in T : \A y \in T : ~ (<<y, x>> \in OpToRel(<, Nat))
  <2> HIDE DEF T
  <2> QED
    BY <1>1, NatLessThanWellFounded, WFMin
<1>3. x \in 0..n /\ x \notin S /\ x # 0
  OBVIOUS
<1>4. x - 1 \in 0..n /\ x - 1 < x /\ x - 1 < n /\ x = (x - 1) + 1
  BY <1>3
<1>5. x - 1 \notin T
  <2> SUFFICES ASSUME x - 1 \in T PROVE FALSE
    OBVIOUS
  <2>1. x - 1 \in Nat /\ x \in Nat
    BY <1>3, <1>4
  <2>2. ~ (x - 1 < x)
    <3> HIDE DEF T
    <3> QED
      BY <1>2, <2>1 DEF OpToRel
  <2> QED
    BY <1>4, <2>2
<1> QED
  BY <1>3, <1>4, <1>5

\* The states of the scan of a ledger of n events.
IsScan(f, plan, events, n) ==
  f = [i \in 0..n |-> IF i = 0 THEN Before ELSE Scan(plan, f[i - 1], events[i])]

LEMMA ScanExists ==
  ASSUME NEW plan, NEW events, NEW n \in Nat
  PROVE  \E f : IsScan(f, plan, events, n)
<1> DEFINE S == {m \in 0..n : \E f : IsScan(f, plan, events, m)}
<1>1. 0 \in S
  <2> DEFINE f == [i \in 0..0 |-> Before]
  <2>1. f = [i \in 0..0 |-> IF i = 0 THEN Before ELSE Scan(plan, f[i - 1], events[i])]
    OBVIOUS
  <2>2. IsScan(f, plan, events, 0)
    BY <2>1 DEF IsScan
  <2> QED
    BY <2>2
<1>2. ASSUME NEW m \in 0..n, m \in S, m < n
      PROVE  m + 1 \in S
  <2>1. PICK f : IsScan(f, plan, events, m)
    BY <1>2
  <2> DEFINE g == [i \in 0..(m + 1) |-> IF i = m + 1 THEN Scan(plan, f[m], events[m + 1])
                                                    ELSE f[i]]
  <2>2. ASSUME NEW i \in 0..(m + 1)
        PROVE  g[i] = IF i = 0 THEN Before ELSE Scan(plan, g[i - 1], events[i])
    <3>1. CASE i = m + 1
      BY <3>1
    <3>2. CASE i # m + 1
      <4>1. i \in 0..m /\ g[i] = f[i] /\ (i # 0 => g[i - 1] = f[i - 1])
        BY <3>2
      <4>2. f[i] = IF i = 0 THEN Before ELSE Scan(plan, f[i - 1], events[i])
        BY <2>1, <4>1 DEF IsScan
      <4> HIDE DEF g
      <4> QED
        BY <4>1, <4>2
    <3> QED
      BY <3>1, <3>2
  <2>3. g = [i \in 0..(m + 1) |-> g[i]]
    OBVIOUS
  <2>4. IsScan(g, plan, events, m + 1)
    <3> HIDE DEF g
    <3> QED
      BY <2>2, <2>3 DEF IsScan
  <2>5. m + 1 \in 0..n
    BY <1>2
  <2> HIDE DEF g
  <2> QED
    BY <2>4, <2>5
<1>3. \A i \in 0..n : i \in S
  <2> HIDE DEF S
  <2> QED
    BY <1>1, <1>2, UpTo
<1> QED
  BY <1>3

LEMMA ScannedUnfolds ==
  ASSUME NEW plan, NEW events, Len(events) \in Nat
  PROVE  /\ Scanned(plan, events)[0] = Before
         /\ \A i \in 1..Len(events) :
              Scanned(plan, events)[i] = Scan(plan, Scanned(plan, events)[i - 1], events[i])
<1>1. Scanned(plan, events) =
        CHOOSE f : f = [i \in 0..Len(events) |->
                          IF i = 0 THEN Before ELSE Scan(plan, f[i - 1], events[i])]
  BY DEF Scanned
<1>2. IsScan(Scanned(plan, events), plan, events, Len(events))
  <2>1. \E f : f = [i \in 0..Len(events) |->
                      IF i = 0 THEN Before ELSE Scan(plan, f[i - 1], events[i])]
    <3>1. \E f : IsScan(f, plan, events, Len(events))
      BY ScanExists
    <3> QED
      BY <3>1, Zenon DEF IsScan
  <2> QED
    BY <1>1, <2>1, Zenon DEF IsScan
<1> DEFINE f == Scanned(plan, events)
           n == Len(events)
<1>3. n \in Nat /\ f = [i \in 0..n |-> IF i = 0 THEN Before ELSE Scan(plan, f[i - 1], events[i])]
  BY <1>2 DEF IsScan
<1> HIDE DEF f, n
<1>4. f[0] = Before /\ \A i \in 1..n : f[i] = Scan(plan, f[i - 1], events[i])
  BY <1>3
<1> QED
  BY <1>4 DEF f, n

-------------------------------------------------------------------------------
(* One step of the scan                                                    *)

ScanStates(plan) == [ok : BOOLEAN, block : 0..Len(plan), requests : Nat, repairs : Nat]

\* The event is another request of the operation, or another repair.
Requests(s, e, t) ==
  /\ e.phase = "request" /\ MayRequest(s, e)
  /\ t.requests = s.requests + 1 /\ t.repairs = s.repairs
Repairs(s, e, t) ==
  /\ e.phase = "schema_repair" /\ MayRepair(s, e)
  /\ t.requests = s.requests /\ t.repairs = s.repairs + 1
Advances(s, e, t) == e.benchmark = Benchmark /\ (Requests(s, e, t) \/ Repairs(s, e, t))

Continues(s, e) ==
  \/ e.phase = "request" /\ MayRequest(s, e)
  \/ e.phase = "schema_repair" /\ MayRepair(s, e)

LEMMA ConsumeAdvances ==
  ASSUME NEW plan, NEW s \in ScanStates(plan), s.ok, NEW e
  PROVE  /\ Consume(s, e) \in ScanStates(plan)
         /\ Consume(s, e).block = s.block
         /\ Consume(s, e).ok => Advances(s, e, Consume(s, e))
         /\ e.benchmark = Benchmark /\ Continues(s, e) => Consume(s, e).ok
<1>1. CASE e.benchmark = Benchmark /\ e.phase = "request" /\ MayRequest(s, e)
  <2>1. Consume(s, e) = [s EXCEPT !.requests = @ + 1]
    BY <1>1 DEF Consume
  <2> QED
    BY <1>1, <2>1 DEF ScanStates, Advances, Requests
<1>2. CASE e.benchmark = Benchmark /\ e.phase = "schema_repair" /\ MayRepair(s, e)
  <2>1. Consume(s, e) = [s EXCEPT !.repairs = @ + 1]
    BY <1>2 DEF Consume
  <2> QED
    BY <1>2, <2>1 DEF ScanStates, Advances, Repairs
<1>3. CASE ~(e.benchmark = Benchmark /\ Continues(s, e))
  <2>1. Consume(s, e) = [s EXCEPT !.ok = FALSE]
    BY <1>3 DEF Consume, Reject, Continues
  <2> QED
    BY <1>3, <2>1 DEF ScanStates
<1> QED
  BY <1>1, <1>2, <1>3 DEF Continues

\* The event belongs to the operation the scan is at, or to the next.
Here(plan, s, e) == s.block > 0 /\ Names(e, plan[s.block])
There(plan, s, e) == s.block < Len(plan) /\ Names(e, plan[s.block + 1])

LEMMA EnterStarts ==
  ASSUME NEW plan, Len(plan) \in Nat, NEW s \in ScanStates(plan), s.block < Len(plan)
  PROVE  /\ Enter(s) \in ScanStates(plan)
         /\ Enter(s).ok = s.ok /\ Enter(s).block = s.block + 1
         /\ Enter(s).requests = 0 /\ Enter(s).repairs = 0
<1> DEFINE n == Len(plan)
<1>1. n \in Nat /\ s \in [ok : BOOLEAN, block : 0..n, requests : Nat, repairs : Nat] /\ s.block < n
  BY DEF ScanStates
<1> HIDE DEF n
<1>2. s.block + 1 \in 0..n
  BY <1>1
<1>3. Enter(s) = [ok |-> s.ok, block |-> s.block + 1, requests |-> 0, repairs |-> 0]
  <2> DEFINE a == [s EXCEPT !.block = @ + 1]
             b == [a EXCEPT !.requests = 0]
             c == [b EXCEPT !.repairs = 0]
  <2>1. Enter(s) = c
    BY DEF Enter
  <2>2. a = [ok |-> s.ok, block |-> s.block + 1, requests |-> s.requests, repairs |-> s.repairs]
    BY <1>1
  <2> HIDE DEF a
  <2>3. b = [ok |-> s.ok, block |-> s.block + 1, requests |-> 0, repairs |-> s.repairs]
    BY <2>2
  <2> HIDE DEF b
  <2>4. c = [ok |-> s.ok, block |-> s.block + 1, requests |-> 0, repairs |-> 0]
    BY <2>3
  <2> HIDE DEF c
  <2> QED
    BY <2>1, <2>4
<1>4. Enter(s) \in [ok : BOOLEAN, block : 0..n, requests : Nat, repairs : Nat]
  BY <1>1, <1>2, <1>3
<1> QED
  BY <1>3, <1>4 DEF n, ScanStates

LEMMA ScanIsThere ==
  ASSUME NEW plan, NEW s, NEW e, s.ok, ~Here(plan, s, e), There(plan, s, e)
  PROVE  Scan(plan, s, e) = Consume(Enter(s), e)
BY DEF Scan, Here, There

LEMMA ScanAdvances ==
  ASSUME NEW plan, Len(plan) \in Nat, NEW s \in ScanStates(plan), NEW e
  PROVE  /\ Scan(plan, s, e) \in ScanStates(plan)
         /\ Scan(plan, s, e).ok =>
              /\ s.ok
              /\ \/ /\ Here(plan, s, e) /\ Scan(plan, s, e).block = s.block
                    /\ Advances(s, e, Scan(plan, s, e))
                 \/ /\ There(plan, s, e) /\ Scan(plan, s, e).block = s.block + 1
                    /\ Advances(Enter(s), e, Scan(plan, s, e))
<1>1. CASE ~s.ok
  <2>1. Scan(plan, s, e) = s
    BY <1>1 DEF Scan
  <2> QED
    BY <1>1, <2>1
<1>2. CASE s.ok /\ Here(plan, s, e)
  <2>1. Scan(plan, s, e) = Consume(s, e)
    BY <1>2 DEF Scan, Here
  <2> QED
    BY <1>2, <2>1, ConsumeAdvances
<1>3. CASE s.ok /\ ~Here(plan, s, e) /\ There(plan, s, e)
  <2>1. Scan(plan, s, e) = Consume(Enter(s), e)
    BY <1>3, ScanIsThere
  <2>2. Enter(s) \in ScanStates(plan) /\ Enter(s).ok /\ Enter(s).block = s.block + 1
    BY <1>3, EnterStarts DEF There
  <2> DEFINE u == Enter(s)
  <2> HIDE DEF u
  <2>3. /\ Consume(u, e) \in ScanStates(plan) /\ Consume(u, e).block = u.block
        /\ Consume(u, e).ok => Advances(u, e, Consume(u, e))
    BY <2>2, ConsumeAdvances DEF u
  <2> QED
    BY <1>3, <2>1, <2>2, <2>3 DEF u
<1>4. CASE s.ok /\ ~Here(plan, s, e) /\ ~There(plan, s, e)
  <2>1. Scan(plan, s, e) = [s EXCEPT !.ok = FALSE]
    BY <1>4 DEF Scan, Here, There, Reject
  <2> QED
    BY <2>1 DEF ScanStates
<1> QED
  BY <1>1, <1>2, <1>3, <1>4

-------------------------------------------------------------------------------
(* What the scan accepts is grammatical                                    *)

LEMMA ScannedHasType ==
  ASSUME NEW plan, Len(plan) \in Nat, NEW events, Len(events) \in Nat
  PROVE  \A i \in 0..Len(events) : Scanned(plan, events)[i] \in ScanStates(plan)
<1> DEFINE n == Len(events)
           f == Scanned(plan, events)
           S == {i \in 0..n : f[i] \in ScanStates(plan)}
<1>1. n \in Nat /\ f[0] = Before /\ \A i \in 1..n : f[i] = Scan(plan, f[i - 1], events[i])
  BY ScannedUnfolds
<1> HIDE DEF n, f
<1>2. 0 \in S
  <2>1. 0 \in 0..Len(plan) /\ 0 \in 0..n
    BY <1>1
  <2>2. Before \in ScanStates(plan)
    BY <2>1 DEF ScanStates, Before
  <2> QED
    BY <1>1, <2>1, <2>2
<1>3. ASSUME NEW i \in 0..n, i \in S, i < n
      PROVE  i + 1 \in S
  <2>1. i + 1 \in 1..n /\ (i + 1) - 1 = i
    BY <1>1, <1>3
  <2>2. f[i + 1] = Scan(plan, f[i], events[i + 1])
    BY <1>1, <2>1
  <2>3. Scan(plan, f[i], events[i + 1]) \in ScanStates(plan)
    BY <1>3, ScanAdvances
  <2> QED
    BY <2>1, <2>2, <2>3, <1>1
<1>4. \A i \in 0..n : i \in S
  <2> HIDE DEF S
  <2> QED
    BY <1>1, <1>2, <1>3, UpTo
<1> QED
  BY <1>4 DEF n, f

\* A scan that ends well was well at every event.
LEMMA ScannedStaysOk ==
  ASSUME NEW plan, Len(plan) \in Nat, NEW events, Len(events) \in Nat,
         Scanned(plan, events)[Len(events)].ok
  PROVE  \A i \in 0..Len(events) : Scanned(plan, events)[i].ok
<1> DEFINE n == Len(events)
           f == Scanned(plan, events)
           S == {i \in 0..n : f[n - i].ok}
<1>1. n \in Nat /\ f[n].ok /\ \A i \in 1..n : f[i] = Scan(plan, f[i - 1], events[i])
  BY ScannedUnfolds
<1>2. \A i \in 0..n : f[i] \in ScanStates(plan)
  BY ScannedHasType
<1> HIDE DEF n, f
<1>3. 0 \in S
  BY <1>1
<1>4. ASSUME NEW i \in 0..n, i \in S, i < n
      PROVE  i + 1 \in S
  <2>1. n - i \in 1..n /\ (n - i) - 1 = n - (i + 1) /\ n - (i + 1) \in 0..n /\ i + 1 \in 0..n
    BY <1>1, <1>4
  <2> DEFINE k == n - (i + 1)
  <2>2. f[n - i] = Scan(plan, f[k], events[n - i]) /\ f[k] \in ScanStates(plan)
    BY <1>1, <1>2, <2>1
  <2>3. f[n - i].ok
    BY <1>4
  <2> HIDE DEF k
  <2>4. f[k].ok
    BY <2>2, <2>3, ScanAdvances
  <2> QED
    BY <2>1, <2>4 DEF k
<1>5. \A i \in 0..n : i \in S
  <2> HIDE DEF S
  <2> QED
    BY <1>1, <1>3, <1>4, UpTo
<1>6. ASSUME NEW i \in 0..n PROVE f[i].ok
  <2>1. n - i \in 0..n /\ n - (n - i) = i
    BY <1>1
  <2> QED
    BY <1>5, <2>1
<1> QED
  BY <1>6 DEF n, f

\* The counts after an event that belongs to the operation the scan is at.
Counted(e, s) ==
  /\ e.benchmark = Benchmark /\ e.retry <= MaxRetries /\ s.requests > 0
  /\ \/ e.phase = "request" /\ e.retry = s.requests /\ s.repairs = 0
     \/ e.phase = "schema_repair" /\ e.retry = s.repairs /\ s.repairs > 0

LEMMA AdvancesCounts ==
  ASSUME NEW plan, NEW s \in ScanStates(plan), NEW t \in ScanStates(plan), NEW e,
         Advances(s, e, t)
  PROVE  Counted(e, t)
BY DEF ScanStates, Advances, Requests, Repairs, MayRequest, MayRepair, Counted

At(plan, events, i) ==
  LET s == Scanned(plan, events)[i] IN
  s.block \in 1..Len(plan) /\ Names(events[i], plan[s.block]) /\ Counted(events[i], s)

LEMMA ScannedStep ==
  ASSUME NEW plan, Len(plan) \in Nat, NEW events, Len(events) \in Nat,
         Scanned(plan, events)[Len(events)].ok,
         NEW i \in 1..Len(events)
  PROVE  LET s == Scanned(plan, events)[i - 1]
             t == Scanned(plan, events)[i] IN
         /\ At(plan, events, i)
         /\ \/ Here(plan, s, events[i]) /\ t.block = s.block /\ Advances(s, events[i], t)
            \/ t.block = s.block + 1 /\ Opens(events[i])
<1> DEFINE s == Scanned(plan, events)[i - 1]
           t == Scanned(plan, events)[i]
           e == events[i]
<1>1. /\ t = Scan(plan, s, e) /\ s \in ScanStates(plan) /\ t \in ScanStates(plan)
      /\ s.ok /\ t.ok
  <2>1. i - 1 \in 0..Len(events) /\ i \in 0..Len(events)
    OBVIOUS
  <2> QED
    BY <2>1, ScannedUnfolds, ScannedHasType, ScannedStaysOk
<1> HIDE DEF s, t, e
<1>2. \/ Here(plan, s, e) /\ t.block = s.block /\ Advances(s, e, t)
      \/ There(plan, s, e) /\ t.block = s.block + 1 /\ Advances(Enter(s), e, t)
  BY <1>1, ScanAdvances
<1>3. /\ s.block \in Nat /\ s.requests \in Nat /\ s.repairs \in Nat
      /\ t.block \in 0..Len(plan) /\ t.requests \in Nat /\ t.repairs \in Nat
  BY <1>1 DEF ScanStates
<1>4. /\ t.block \in 1..Len(plan) /\ Names(e, plan[t.block]) /\ Counted(e, t)
      /\ \/ Here(plan, s, e) /\ t.block = s.block /\ Advances(s, e, t)
         \/ t.block = s.block + 1 /\ Opens(e)
  <2>1. CASE Here(plan, s, e) /\ t.block = s.block /\ Advances(s, e, t)
    <3>1. Counted(e, t)
      BY <1>1, <2>1, AdvancesCounts
    <3> QED
      BY <2>1, <3>1, <1>3 DEF Here
  <2>2. CASE There(plan, s, e) /\ t.block = s.block + 1 /\ Advances(Enter(s), e, t)
    <3>1. Enter(s).requests = 0 /\ Enter(s).repairs = 0 /\ Enter(s) \in ScanStates(plan)
      BY <1>1, <2>2, EnterStarts DEF There
    <3>2. Opens(e)
      BY <2>2, <3>1 DEF Advances, Requests, Repairs, MayRequest, MayRepair, Opens
    <3>3. Counted(e, t)
      BY <1>1, <2>2, <3>1, AdvancesCounts
    <3> QED
      BY <2>2, <3>2, <3>3, <1>3 DEF There
  <2> QED
    BY <1>2, <2>1, <2>2
<1> QED
  BY <1>4 DEF At, s, t, e

LEMMA AcceptedIsGrammatical ==
  ASSUME NEW plan, Len(plan) \in Nat, NEW events, Len(events) \in Nat,
         Accepts(plan, events)
  PROVE  Grammatical(plan, events)
<1> DEFINE n == Len(events)
           f == Scanned(plan, events)
           at == [i \in 1..n |-> f[i].block]
<1>1. /\ n \in Nat /\ f[0] = Before /\ f[n].ok /\ f[n].block = Len(plan)
      /\ \A i \in 1..n : events[i].sequence = i
  BY ScannedUnfolds DEF Accepts
<1>2. ASSUME NEW i \in 1..n
      PROVE  /\ At(plan, events, i)
             /\ \/ /\ Here(plan, f[i - 1], events[i]) /\ f[i].block = f[i - 1].block
                   /\ Advances(f[i - 1], events[i], f[i])
                \/ f[i].block = f[i - 1].block + 1 /\ Opens(events[i])
  BY <1>1, ScannedStep
<1>3. ASSUME NEW i \in 1..n
      PROVE  /\ f[i].block \in 1..Len(plan)
             /\ events[i].benchmark = Benchmark /\ Names(events[i], plan[f[i].block])
             /\ events[i].retry <= MaxRetries
  BY <1>2 DEF At, Counted
<1>4. ASSUME n # 0
      PROVE  f[1].block = 1 /\ Opens(events[1])
  <2>1. 1 \in 1..n /\ 1 - 1 = 0
    BY <1>1, <1>4
  <2>2. ~Here(plan, f[0], events[1]) /\ f[0].block = 0
    BY <1>1 DEF Here, Before
  <2>3. f[1].block = f[0].block + 1 /\ Opens(events[1])
    <3> HIDE DEF f, n
    <3> QED
      BY <1>2, <2>1, <2>2
  <2> QED
    BY <2>2, <2>3
<1>5. ASSUME NEW i \in 2..n
      PROVE  \/ f[i].block = f[i - 1].block /\ Follows(events[i - 1], events[i])
             \/ f[i].block = f[i - 1].block + 1 /\ Opens(events[i])
  <2>1. i \in 1..n /\ i - 1 \in 1..n /\ i - 1 \in 0..n
    BY <1>1
  <2>2. At(plan, events, i - 1)
    BY <1>2, <2>1
  <2>3. f[i - 1] \in ScanStates(plan)
    BY <2>1, ScannedHasType
  <2>4. CASE Here(plan, f[i - 1], events[i]) /\ f[i].block = f[i - 1].block
             /\ Advances(f[i - 1], events[i], f[i])
    <3> DEFINE s == f[i - 1]
               d == events[i - 1]
               e == events[i]
    <3>1. /\ \/ d.phase = "request" /\ d.retry = s.requests /\ s.repairs = 0
             \/ /\ d.phase = "schema_repair" /\ d.retry = s.repairs
                /\ s.repairs > 0 /\ s.requests > 0
          /\ s.requests \in Nat /\ s.repairs \in Nat
      BY <2>2, <2>3 DEF At, Counted, ScanStates
    <3>2. \/ e.phase = "request" /\ s.repairs = 0 /\ e.retry = s.requests + 1
          \/ e.phase = "schema_repair" /\ s.requests > 0 /\ e.retry = s.repairs + 1
      BY <2>4 DEF Advances, Requests, Repairs, MayRequest, MayRepair
    <3> HIDE DEF s, d, e
    <3>3. Follows(d, e)
      BY <3>1, <3>2 DEF Follows
    <3> QED
      BY <2>4, <3>3 DEF s, d, e
  <2> QED
    BY <1>2, <2>1, <2>4
<1>6. at \in [1..n -> 1..Len(plan)]
  BY <1>3
<1>7. \A i \in 1..n : at[i] = f[i].block
  OBVIOUS
<1> HIDE DEF at, f
<1>8. Walks(plan, events, at)
  <2>1. n # 0 => at[1] = 1 /\ Opens(events[1]) /\ at[n] = Len(plan)
    BY <1>1, <1>4, <1>7
  <2>2. ASSUME NEW i \in 2..n
        PROVE  \/ at[i] = at[i - 1] /\ Follows(events[i - 1], events[i])
               \/ at[i] = at[i - 1] + 1 /\ Opens(events[i])
    <3>1. i \in 1..n /\ i - 1 \in 1..n
      BY <1>1
    <3> QED
      BY <1>5, <1>7, <3>1
  <2> QED
    BY <1>1, <1>3, <1>7, <2>1, <2>2 DEF Walks
<1>9. n = 0 => Len(plan) = 0
  BY <1>1 DEF Before
<1> QED
  BY <1>6, <1>8, <1>9 DEF Grammatical

-------------------------------------------------------------------------------
(* What is grammatical the scan accepts                                    *)

\* The scan tells an operation from the one before it.
Distinguishes(plan, events, at) ==
  \A i \in 2..Len(events) : at[i] # at[i - 1] => ~Names(events[i], plan[at[i - 1]])

LEMMA WalkIsScanned ==
  ASSUME NEW plan, Len(plan) \in Nat, NEW events, Len(events) \in Nat,
         NEW at \in [1..Len(events) -> 1..Len(plan)],
         Walks(plan, events, at), Distinguishes(plan, events, at)
  PROVE  \A i \in 1..Len(events) :
           /\ Scanned(plan, events)[i].ok
           /\ Scanned(plan, events)[i].block = at[i]
           /\ Counted(events[i], Scanned(plan, events)[i])
<1> DEFINE n == Len(events)
           f == Scanned(plan, events)
           Good(i) == f[i].ok /\ f[i].block = at[i] /\ Counted(events[i], f[i])
           S == {i \in 0..n : i > 0 => Good(i)}
<1>1. /\ n \in Nat /\ f[0] = Before /\ \A i \in 1..n : f[i] = Scan(plan, f[i - 1], events[i])
      /\ \A i \in 0..n : f[i] \in ScanStates(plan)
  BY ScannedUnfolds, ScannedHasType
<1>2. 0 \in S
  BY <1>1
<1>3. ASSUME NEW i \in 0..n, i \in S, i < n
      PROVE  i + 1 \in S
  <2> DEFINE s == f[i]
             e == events[i + 1]
             t == f[i + 1]
             b == at[i + 1]
  <2>1. i + 1 \in 1..n /\ (i + 1) - 1 = i /\ i + 1 \in 0..n
    BY <1>1, <1>3
  <2>2. t = Scan(plan, s, e) /\ s \in ScanStates(plan) /\ t \in ScanStates(plan)
    <3> HIDE DEF f
    <3> QED
      BY <1>1, <2>1
  <2>3. /\ b \in 1..Len(plan) /\ e.benchmark = Benchmark /\ Names(e, plan[b])
        /\ e.retry <= MaxRetries
    BY <2>1 DEF Walks
  <2>4. /\ s.ok
        /\ \/ Here(plan, s, e) /\ s.block = b /\ Continues(s, e)
           \/ ~Here(plan, s, e) /\ There(plan, s, e) /\ b = s.block + 1 /\ Opens(e)
    <3>1. CASE i = 0
      <4>1. b = 1 /\ Opens(e) /\ s = Before
        BY <1>1, <1>3, <3>1 DEF Walks
      <4>2. 1 <= Len(plan)
        BY <2>3, <4>1
      <4> HIDE DEF s, b, e
      <4> QED
        BY <4>1, <4>2, <2>3 DEF Here, There, Before
    <3>2. CASE i # 0
      <4>1. s.ok /\ s.block = at[i] /\ Counted(events[i], s)
        BY <1>3, <3>2
      <4>2. i + 1 \in 2..n
        BY <2>1, <3>2
      <4> DEFINE d == events[i]
                 c == at[i]
      <4>3. /\ \/ d.phase = "request" /\ d.retry = s.requests /\ s.repairs = 0
               \/ d.phase = "schema_repair" /\ d.retry = s.repairs /\ s.repairs > 0
            /\ s.requests > 0
            /\ c \in 1..Len(plan) /\ s.requests \in Nat /\ s.repairs \in Nat
        BY <4>1, <2>1, <2>2, <3>2 DEF Counted, ScanStates
      <4>4. /\ \/ b = c /\ Follows(d, e)
               \/ b = c + 1 /\ Opens(e)
            /\ b # c => ~Names(e, plan[c])
        BY <2>1, <4>2 DEF Walks, Distinguishes
      <4>5. s.block = c /\ s.ok
        BY <4>1
      <4> HIDE DEF s, b, e, d, c
      <4>6. CASE b = c /\ Follows(d, e)
        <5>1. Continues(s, e)
          <6>1. CASE d.phase = "request" /\ e.phase = "request" /\ e.retry = d.retry + 1
            BY <6>1, <4>3, <2>3 DEF MayRequest, Continues
          <6>2. CASE d.phase = "request" /\ e.phase = "schema_repair" /\ e.retry = 1
            BY <6>2, <4>3, <2>3 DEF MayRepair, Continues
          <6>3. CASE d.phase = "schema_repair" /\ e.phase = "schema_repair"
                     /\ e.retry = d.retry + 1
            BY <6>3, <4>3, <2>3 DEF MayRepair, Continues
          <6> QED
            BY <4>6, <6>1, <6>2, <6>3 DEF Follows
        <5>2. Here(plan, s, e)
          BY <4>3, <4>5, <4>6, <2>3 DEF Here
        <5> QED
          BY <4>5, <4>6, <5>1, <5>2
      <4>7. CASE b = c + 1 /\ Opens(e)
        <5>1. ~Names(e, plan[s.block]) /\ s.block + 1 = b /\ s.block < Len(plan)
          BY <4>3, <4>4, <4>5, <4>7, <2>3
        <5>2. ~Here(plan, s, e) /\ There(plan, s, e)
          BY <5>1, <2>3 DEF Here, There
        <5> QED
          BY <4>5, <4>7, <5>2
      <4> QED
        BY <4>4, <4>6, <4>7
    <3> QED
      BY <3>1, <3>2
  <2> HIDE DEF s, e, t, b, f
  <2>5. ASSUME s.ok /\ Here(plan, s, e) /\ s.block = b /\ Continues(s, e)
        PROVE  t.ok /\ t.block = b /\ Counted(e, t)
    <3>1. t = Consume(s, e)
      BY <2>2, <2>5 DEF Scan, Here
    <3>2. t.ok /\ t.block = b /\ Advances(s, e, t)
      <4>1. /\ Consume(s, e).block = s.block
            /\ Consume(s, e).ok => Advances(s, e, Consume(s, e))
            /\ e.benchmark = Benchmark /\ Continues(s, e) => Consume(s, e).ok
        BY <2>2, <2>5, ConsumeAdvances
      <4> QED
        BY <3>1, <2>3, <2>5, <4>1
    <3> QED
      BY <3>2, <2>2, AdvancesCounts
  <2>6. ASSUME s.ok /\ ~Here(plan, s, e) /\ There(plan, s, e) /\ b = s.block + 1 /\ Opens(e)
        PROVE  t.ok /\ t.block = b /\ Counted(e, t)
    <3>1. t = Consume(Enter(s), e)
      BY <2>2, <2>6, ScanIsThere
    <3> DEFINE u == Enter(s)
    <3>2. /\ u \in ScanStates(plan) /\ u.ok /\ u.block = b
          /\ u.requests = 0 /\ u.repairs = 0
      BY <2>2, <2>6, EnterStarts DEF There
    <3> HIDE DEF u
    <3>3. Continues(u, e)
      BY <3>2, <2>3, <2>6 DEF MayRequest, Opens, Continues
    <3>4. t.ok /\ t.block = b /\ Advances(u, e, t)
      BY <3>1, <3>2, <3>3, <2>3, ConsumeAdvances DEF u
    <3> QED
      BY <3>4, <3>2, <2>2, AdvancesCounts
  <2>7. t.ok /\ t.block = b /\ Counted(e, t)
    BY <2>4, <2>5, <2>6
  <2> QED
    BY <2>1, <2>7 DEF t, e, b
<1>4. \A i \in 0..n : i \in S
  <2> HIDE DEF S
  <2> QED
    BY <1>1, <1>2, <1>3, UpTo
<1>5. \A i \in 1..n : i \in 0..n /\ i > 0
  BY <1>1
<1> QED
  BY <1>4, <1>5

LEMMA WalkIsAccepted ==
  ASSUME NEW plan, Len(plan) \in Nat, NEW events, Len(events) \in Nat,
         Len(events) = 0 => Len(plan) = 0,
         NEW at \in [1..Len(events) -> 1..Len(plan)],
         Walks(plan, events, at), Distinguishes(plan, events, at)
  PROVE  Accepts(plan, events)
<1>1. \A i \in 1..Len(events) : events[i].sequence = i
  BY DEF Walks
<1>2. CASE Len(events) = 0
  BY <1>1, <1>2, ScannedUnfolds DEF Accepts, Before
<1>3. CASE Len(events) # 0
  <2>1. Len(events) \in 1..Len(events) /\ at[Len(events)] = Len(plan)
    BY <1>3 DEF Walks
  <2>2. /\ Scanned(plan, events)[Len(events)].ok
        /\ Scanned(plan, events)[Len(events)].block = at[Len(events)]
    BY <2>1, WalkIsScanned
  <2> QED
    BY <1>1, <2>1, <2>2 DEF Accepts
<1> QED
  BY <1>2, <1>3

\* formal_attempt_profile_is_valid scans once, with two counters; it accepts a ledger
\* exactly if its events can be laid along the plan, each the opening of an operation or
\* the attempt that may follow the one before it.  The plan may be any in which an
\* operation is not planned twice in a row.
THEOREM ProfileIsGrammar ==
  ASSUME NEW plan, Len(plan) \in Nat,
         \A k \in 2..Len(plan) : \/ plan[k].sample # plan[k - 1].sample
                                 \/ plan[k].operation # plan[k - 1].operation,
         NEW events, Len(events) \in Nat
  PROVE  Accepts(plan, events) <=> Grammatical(plan, events)
<1>1. Accepts(plan, events) => Grammatical(plan, events)
  BY AcceptedIsGrammatical
<1>2. ASSUME Grammatical(plan, events)
      PROVE  Accepts(plan, events)
  <2>1. PICK at \in [1..Len(events) -> 1..Len(plan)] : Walks(plan, events, at)
    BY <1>2 DEF Grammatical
  <2>2. ASSUME NEW i \in 2..Len(events), at[i] # at[i - 1]
        PROVE  ~Names(events[i], plan[at[i - 1]])
    <3> DEFINE k == at[i]
               j == at[i - 1]
    <3>1. i \in 1..Len(events) /\ i - 1 \in 1..Len(events)
      OBVIOUS
    <3>2. k = j + 1 /\ k \in 1..Len(plan) /\ j \in 1..Len(plan) /\ Names(events[i], plan[k])
      BY <2>1, <2>2, <3>1 DEF Walks
    <3> HIDE DEF k, j
    <3>3. k \in 2..Len(plan) /\ k - 1 = j
      BY <3>2
    <3>4. ~Names(events[i], plan[j])
      BY <3>2, <3>3 DEF Names
    <3> QED
      BY <3>4 DEF j
  <2>3. Distinguishes(plan, events, at)
    BY <2>2 DEF Distinguishes
  <2> QED
    BY <1>2, <2>1, <2>3, WalkIsAccepted DEF Grammatical
<1> QED
  BY <1>1, <1>2

=============================================================================
