---------------------------- MODULE DecisionsProofs ----------------------------
(***************************************************************************)
(* Proofs about what decides over evidence: the fusion of reviews, for any  *)
(* traces and verdicts; the three modules a formal corpus comes from, that  *)
(* is the selection of its problems, the judging of its sources and the     *)
(* review of its samples; and the metrics of what a run observed.           *)
(***************************************************************************)
EXTENDS EvidenceFusion, AttemptLedger, FormalJudging, HumanReview, Selection, Metrics,
        AttemptProfileProofs, FiniteSetTheorems, FunctionTheorems, SequenceTheorems,
        WellFoundedInduction, TLAPS

-------------------------------------------------------------------------------
(* The search for a cycle                                                  *)

Looks == [cyclic : BOOLEAN, visited : SUBSET Steps]

Ranking(depends, rank) ==
  /\ rank \in [Steps -> Steps]
  /\ \A s \in Steps : \A d \in Range(depends[s]) : rank[d] < rank[s]

\* The steps of V rest on steps of V, and as few ranks will do.
Ordered(depends, V) ==
  \E rank \in [V -> 1..Cardinality(V)] :
    \A s \in V : \A d \in Range(depends[s]) : d \in V /\ rank[d] < rank[s]

\* What a visit of s under the steps X may return, that was called with the visited
\* steps V: without a cycle s and what it rests on are among the visited; and there is
\* none if the dependencies have a ranking that puts s below all of X.
Clears(depends, s, X, V, r) ==
  /\ r \in Looks /\ V \subseteq r.visited
  /\ ~r.cyclic => s \in r.visited
  /\ ~r.cyclic /\ Ordered(depends, V) => Ordered(depends, r.visited)
  /\ \A rank : Ranking(depends, rank) /\ (\A v \in X : rank[s] < rank[v]) => ~r.cyclic

VisitsClear(visit, depends, list, X) ==
  \A i \in 1..Len(list), W \in SUBSET Steps :
    Clears(depends, list[i], X, W, visit[<<list[i], X, W>>])

VisitsAgree(other, visit, list, X) ==
  \A i \in 1..Len(list), W \in SUBSET Steps :
    other[<<list[i], X, W>>] = visit[<<list[i], X, W>>]

IsWalk(g, visit, list, X, V, n) ==
  g = [i \in 0..n |-> IF i = 0 THEN [cyclic |-> FALSE, visited |-> V]
                      ELSE After(visit, X, list[i], g[i - 1])]

LEMMA WalkExists ==
  ASSUME NEW visit, NEW list, NEW X, NEW V, NEW n \in Nat
  PROVE  \E g : IsWalk(g, visit, list, X, V, n)
<1> DEFINE start == [cyclic |-> FALSE, visited |-> V]
           S == {m \in 0..n : \E g : IsWalk(g, visit, list, X, V, m)}
<1>1. 0 \in S
  <2> DEFINE g == [i \in 0..0 |-> start]
  <2>1. g = [i \in 0..0 |-> IF i = 0 THEN start ELSE After(visit, X, list[i], g[i - 1])]
    OBVIOUS
  <2>2. IsWalk(g, visit, list, X, V, 0)
    BY <2>1 DEF IsWalk
  <2> QED
    BY <2>2
<1>2. ASSUME NEW m \in 0..n, m \in S, m < n
      PROVE  m + 1 \in S
  <2>1. PICK g : IsWalk(g, visit, list, X, V, m)
    BY <1>2
  <2> DEFINE h == [i \in 0..(m + 1) |->
                     IF i = m + 1 THEN After(visit, X, list[m + 1], g[m]) ELSE g[i]]
  <2>2. ASSUME NEW i \in 0..(m + 1)
        PROVE  h[i] = IF i = 0 THEN start ELSE After(visit, X, list[i], h[i - 1])
    <3>1. CASE i = m + 1
      BY <3>1
    <3>2. CASE i # m + 1
      <4>1. i \in 0..m /\ h[i] = g[i] /\ (i # 0 => h[i - 1] = g[i - 1])
        BY <3>2
      <4>2. g[i] = IF i = 0 THEN start ELSE After(visit, X, list[i], g[i - 1])
        BY <2>1, <4>1 DEF IsWalk
      <4> HIDE DEF h
      <4> QED
        BY <4>1, <4>2
    <3> QED
      BY <3>1, <3>2
  <2>3. h = [i \in 0..(m + 1) |-> h[i]]
    OBVIOUS
  <2>4. IsWalk(h, visit, list, X, V, m + 1)
    <3> HIDE DEF h
    <3> QED
      BY <2>2, <2>3 DEF IsWalk
  <2>5. m + 1 \in 0..n
    BY <1>2
  <2> HIDE DEF h
  <2> QED
    BY <2>4, <2>5
<1>3. \A i \in 0..n : i \in S
  <2> HIDE DEF S
  <2> QED
    BY <1>1, <1>2, UpTo
<1> QED
  BY <1>3

LEMMA WalkUnfolds ==
  ASSUME NEW visit, NEW list, NEW X, NEW V, Len(list) \in Nat
  PROVE  /\ Walk(visit, list, X, V)[0] = [cyclic |-> FALSE, visited |-> V]
         /\ \A i \in 1..Len(list) :
              Walk(visit, list, X, V)[i] =
                After(visit, X, list[i], Walk(visit, list, X, V)[i - 1])
<1> DEFINE n == Len(list)
           start == [cyclic |-> FALSE, visited |-> V]
           g == Walk(visit, list, X, V)
<1>1. g = CHOOSE f : f = [i \in 0..n |-> IF i = 0 THEN start
                                         ELSE After(visit, X, list[i], f[i - 1])]
  BY DEF Walk
<1>2. \E f : f = [i \in 0..n |-> IF i = 0 THEN start
                                  ELSE After(visit, X, list[i], f[i - 1])]
  <2>1. \E f : IsWalk(f, visit, list, X, V, n)
    BY WalkExists
  <2> QED
    BY <2>1, Zenon DEF IsWalk
<1>3. n \in Nat /\ g = [i \in 0..n |-> IF i = 0 THEN start
                                        ELSE After(visit, X, list[i], g[i - 1])]
  BY <1>1, <1>2, Zenon
<1> HIDE DEF g, n, start
<1>4. /\ g[0] = start
      /\ \A i \in 1..n : g[i] = After(visit, X, list[i], g[i - 1])
  BY <1>3
<1> QED
  BY <1>4 DEF g, n, start

\* The loop over a list, after i of its steps.
ClearSoFar(depends, list, X, V, i, found) ==
  /\ found \in Looks /\ V \subseteq found.visited
  /\ ~found.cyclic => \A j \in 1..i : list[j] \in found.visited
  /\ ~found.cyclic /\ Ordered(depends, V) => Ordered(depends, found.visited)
  /\ \A rank : Ranking(depends, rank)
               /\ (\A j \in 1..Len(list) : \A v \in X : rank[list[j]] < rank[v])
                 => ~found.cyclic

\* The loop clears its list if the visits it makes do.
LEMMA WalkClears ==
  ASSUME NEW depends, NEW list \in Seq(Steps), NEW X, NEW V \in SUBSET Steps,
         NEW visit, VisitsClear(visit, depends, list, X)
  PROVE  \A i \in 0..Len(list) :
           ClearSoFar(depends, list, X, V, i, Walk(visit, list, X, V)[i])
<1> DEFINE n == Len(list)
           g == Walk(visit, list, X, V)
           S == {i \in 0..n : ClearSoFar(depends, list, X, V, i, g[i])}
<1>1. n \in Nat /\ 0 \in 0..n
  OBVIOUS
<1>2. g[0] = [cyclic |-> FALSE, visited |-> V]
      /\ \A i \in 1..n : g[i] = After(visit, X, list[i], g[i - 1])
  BY <1>1, WalkUnfolds
<1> HIDE DEF g
<1>3. 0 \in S
  <2>1. ClearSoFar(depends, list, X, V, 0, g[0])
    BY <1>2 DEF ClearSoFar, Looks
  <2> QED
    BY <1>1, <2>1
<1>4. ASSUME NEW i \in 0..n, i \in S, i < n PROVE i + 1 \in S
  <2>1. i + 1 \in 1..n /\ i + 1 \in 0..n /\ (i + 1) - 1 = i
        /\ (\A j \in 1..(i + 1) : j \in 1..i \/ j = i + 1)
    BY <1>1, <1>4
  <2> DEFINE d == list[i + 1]
             found == g[i]
             r == g[i + 1]
  <2>2. ClearSoFar(depends, list, X, V, i, found)
    BY <1>4
  <2>3. r = After(visit, X, d, found)
    BY <1>2, <2>1
  <2>4. ClearSoFar(depends, list, X, V, i + 1, r)
    <3>1. CASE found.cyclic
      <4>1. r = found
        BY <2>3, <3>1 DEF After
      <4> HIDE DEF r, found, d
      <4> QED
        BY <2>2, <3>1, <4>1 DEF ClearSoFar
    <3>2. CASE ~found.cyclic
      <4>1. r = visit[<<d, X, found.visited>>]
        BY <2>3, <3>2 DEF After
      <4>2. found.visited \in SUBSET Steps
        BY <2>2 DEF ClearSoFar, Looks
      <4>3. Clears(depends, d, X, found.visited, r)
        BY <2>1, <4>1, <4>2 DEF VisitsClear
      <4>4. r \in Looks /\ V \subseteq r.visited /\ found.visited \subseteq r.visited
        BY <2>2, <4>3 DEF ClearSoFar, Clears
      <4>5. ~r.cyclic => \A j \in 1..(i + 1) : list[j] \in r.visited
        BY <2>1, <2>2, <3>2, <4>3, <4>4 DEF ClearSoFar, Clears
      <4>6. ~r.cyclic /\ Ordered(depends, V) => Ordered(depends, r.visited)
        BY <2>2, <3>2, <4>3 DEF ClearSoFar, Clears
      <4>7. \A rank : Ranking(depends, rank)
                      /\ (\A j \in 1..Len(list) : \A v \in X : rank[list[j]] < rank[v])
                        => ~r.cyclic
        BY <2>1, <4>3 DEF Clears
      <4> QED
        BY <4>4, <4>5, <4>6, <4>7 DEF ClearSoFar
    <3> QED
      BY <3>1, <3>2
  <2> QED
    BY <2>1, <2>4
<1>5. \A i \in 0..n : i \in S
  <2> HIDE DEF S, n
  <2> QED
    BY <1>1, <1>3, <1>4, UpTo
<1> QED
  BY <1>5 DEF g

\* The loop does not tell visits apart that agree on its list.
LEMMA WalksAgree ==
  ASSUME NEW depends, NEW list \in Seq(Steps), NEW X, NEW V \in SUBSET Steps,
         NEW visit, NEW other, VisitsClear(visit, depends, list, X),
         VisitsAgree(other, visit, list, X)
  PROVE  Walk(other, list, X, V)[Len(list)] = Walk(visit, list, X, V)[Len(list)]
<1> DEFINE n == Len(list)
           g == Walk(visit, list, X, V)
           h == Walk(other, list, X, V)
           S == {i \in 0..n : h[i] = g[i]}
<1>1. n \in Nat /\ 0 \in 0..n /\ n \in 0..n
  OBVIOUS
<1>2. \A i \in 0..n : g[i].visited \in SUBSET Steps
  BY WalkClears DEF ClearSoFar, Looks
<1>3. /\ g[0] = [cyclic |-> FALSE, visited |-> V] /\ h[0] = [cyclic |-> FALSE, visited |-> V]
      /\ \A i \in 1..n : g[i] = After(visit, X, list[i], g[i - 1])
      /\ \A i \in 1..n : h[i] = After(other, X, list[i], h[i - 1])
  BY <1>1, WalkUnfolds
<1> HIDE DEF g, h
<1>4. 0 \in S
  BY <1>1, <1>3
<1>5. ASSUME NEW i \in 0..n, i \in S, i < n PROVE i + 1 \in S
  <2>1. i + 1 \in 1..n /\ i + 1 \in 0..n /\ (i + 1) - 1 = i
    BY <1>1, <1>5
  <2>2. other[<<list[i + 1], X, g[i].visited>>] = visit[<<list[i + 1], X, g[i].visited>>]
    BY <1>2, <2>1 DEF VisitsAgree
  <2>3. h[i + 1] = After(other, X, list[i + 1], g[i])
        /\ g[i + 1] = After(visit, X, list[i + 1], g[i])
    BY <1>3, <1>5, <2>1
  <2>4. After(other, X, list[i + 1], g[i]) = After(visit, X, list[i + 1], g[i])
    BY <2>2 DEF After
  <2> QED
    BY <2>1, <2>3, <2>4
<1>6. \A i \in 0..n : i \in S
  <2> HIDE DEF S, n
  <2> QED
    BY <1>1, <1>4, <1>5, UpTo
<1> QED
  BY <1>1, <1>6 DEF g, h

\* A step that rests on ordered steps only can be put after them.
LEMMA OrderedGrows ==
  ASSUME NEW depends, NEW V \in SUBSET Steps, NEW s \in Steps, Ordered(depends, V),
         Range(depends[s]) \subseteq V
  PROVE  Ordered(depends, V \cup {s})
<1>1. CASE s \in V
  <2>1. V \cup {s} = V
    BY <1>1
  <2> QED
    BY <2>1
<1>2. CASE s \notin V
  <2>1. PICK rank \in [V -> 1..Cardinality(V)] :
          \A w \in V : \A d \in Range(depends[w]) : d \in V /\ rank[d] < rank[w]
    BY DEF Ordered
  <2>2. IsFiniteSet(V)
    <3>1. IsFiniteSet(Steps)
      BY NStepsAssumption, FS_Interval DEF Steps
    <3> QED
      BY <3>1, FS_Subset
  <2>3. Cardinality(V) \in Nat /\ Cardinality(V \cup {s}) = Cardinality(V) + 1
    BY <1>2, <2>2, FS_CardinalityType, FS_AddElement
  <2> DEFINE high == [w \in V \cup {s} |-> IF w = s THEN Cardinality(V) + 1 ELSE rank[w]]
  <2>4. \A w \in V : rank[w] \in 1..Cardinality(V) /\ high[w] = rank[w]
    BY <1>2, <2>1
  <2>5. high[s] = Cardinality(V) + 1
    OBVIOUS
  <2>6. high \in [V \cup {s} -> 1..(Cardinality(V) + 1)]
    <3>1. \A w \in V \cup {s} : high[w] \in 1..(Cardinality(V) + 1)
      BY <2>3, <2>4, <2>5
    <3> QED
      BY <3>1
  <2> HIDE DEF high
  <2>7. ASSUME NEW w \in V \cup {s}, NEW d \in Range(depends[w])
        PROVE  d \in V \cup {s} /\ high[d] < high[w]
    <3>1. CASE w \in V
      BY <2>1, <2>4, <3>1
    <3>2. CASE w = s
      <4>1. d \in V
        BY <3>2
      <4> QED
        BY <2>3, <2>4, <2>5, <3>2, <4>1
    <3> QED
      BY <3>1, <3>2
  <2> QED
    BY <2>3, <2>6, <2>7 DEF Ordered
<1> QED
  BY <1>1, <1>2

\* A visit clears its step if those it makes do.
LEMMA VisitClears ==
  ASSUME NEW depends \in [Steps -> Seq(Steps)], NEW s \in Steps, NEW X \in SUBSET Steps,
         NEW V \in SUBSET Steps, NEW visit,
         s \notin X => VisitsClear(visit, depends, depends[s], X \cup {s})
  PROVE  Clears(depends, s, X, V, Visit(visit, depends, s, X, V))
<1> DEFINE below == Walk(visit, depends[s], X \cup {s}, V)[Len(depends[s])]
<1> SUFFICES ASSUME NEW r, r = Visit(visit, depends, s, X, V)
             PROVE  Clears(depends, s, X, V, r)
  OBVIOUS
<1>1. CASE s \in X
  <2>1. r = [cyclic |-> TRUE, visited |-> V]
    BY <1>1, Zenon DEF Visit
  <2>2. \A rank : Ranking(depends, rank) => ~(rank[s] < rank[s])
    <3> SUFFICES ASSUME NEW rank, Ranking(depends, rank) PROVE ~(rank[s] < rank[s])
      OBVIOUS
    <3>1. rank[s] \in 1..NSteps
      BY DEF Ranking, Steps
    <3> QED
      BY <3>1, NStepsAssumption
  <2> QED
    BY <1>1, <2>1, <2>2 DEF Clears, Looks
<1>2. CASE s \notin X /\ s \in V
  <2>1. r = [cyclic |-> FALSE, visited |-> V]
    BY <1>2, Zenon DEF Visit
  <2> QED
    BY <1>2, <2>1 DEF Clears, Looks
<1>3. CASE s \notin X /\ s \notin V
  <2>1. r = IF below.cyclic THEN below ELSE [below EXCEPT !.visited = @ \cup {s}]
    BY <1>3, Zenon DEF Visit
  <2>2. depends[s] \in Seq(Steps) /\ Len(depends[s]) \in 0..Len(depends[s])
        /\ Len(depends[s]) \in Nat
        /\ Range(depends[s]) = {depends[s][j] : j \in 1..Len(depends[s])}
        /\ (\A j \in 1..Len(depends[s]) : depends[s][j] \in Steps)
    BY DEF Range
  <2>3. ClearSoFar(depends, depends[s], X \cup {s}, V, Len(depends[s]), below)
    BY <1>3, <2>2, WalkClears
  <2> HIDE DEF below
  <2>4. ASSUME NEW rank, Ranking(depends, rank), \A v \in X : rank[s] < rank[v]
        PROVE  ~below.cyclic
    <3>1. ASSUME NEW j \in 1..Len(depends[s]), NEW v \in X \cup {s}
          PROVE  rank[depends[s][j]] < rank[v]
      <4>1. rank[depends[s][j]] < rank[s]
        BY <2>2, <2>4 DEF Ranking
      <4>2. \A w \in Steps : rank[w] \in Int
        BY <2>4, NStepsAssumption DEF Ranking, Steps
      <4>3. depends[s][j] \in Steps /\ v \in Steps
        BY <2>2
      <4> QED
        BY <2>4, <4>1, <4>2, <4>3
    <3> QED
      BY <2>3, <2>4, <3>1 DEF ClearSoFar
  <2>5. CASE below.cyclic
    <3>1. r = below
      BY <2>1, <2>5
    <3> QED
      BY <2>3, <2>4, <2>5, <3>1 DEF Clears, ClearSoFar
  <2>6. CASE ~below.cyclic
    <3>1. r = [below EXCEPT !.visited = @ \cup {s}]
      BY <2>1, <2>6
    <3>2. below \in Looks /\ V \subseteq below.visited
      BY <2>3 DEF ClearSoFar
    <3>3. r \in Looks /\ ~r.cyclic /\ r.visited = below.visited \cup {s}
      BY <2>6, <3>1, <3>2 DEF Looks
    <3>4. Range(depends[s]) \subseteq below.visited
      BY <2>2, <2>3, <2>6 DEF ClearSoFar
    <3>5. Ordered(depends, V) => Ordered(depends, below.visited)
      BY <2>3, <2>6 DEF ClearSoFar
    <3>6. Ordered(depends, V) => Ordered(depends, r.visited)
      BY <3>2, <3>3, <3>4, <3>5, OrderedGrows DEF Looks
    <3> QED
      BY <3>2, <3>3, <3>6 DEF Clears
  <2> QED
    BY <2>5, <2>6
<1> QED
  BY <1>1, <1>2, <1>3

\* The visits under so many steps that fewer than n can follow.
Deep(n) == {call \in Calls : NSteps < Cardinality(call[2]) + n}
IsDescent(f, depends, n) ==
  f = [call \in Deep(n) |-> Visit(f, depends, call[1], call[2], call[3])]

LEMMA DeepCalls ==
  /\ NSteps \in Nat
  /\ \A X \in SUBSET Steps : Cardinality(X) \in Nat
  /\ Deep(0) = {}
  /\ Deep(NSteps + 1) = Calls
  /\ \A n \in Nat : Deep(n) \subseteq Deep(n + 1)
  /\ \A n \in Nat, s \in Steps, X \in SUBSET Steps, V \in SUBSET Steps :
       <<s, X, V>> \in Deep(n) <=> NSteps < Cardinality(X) + n
  /\ \A n \in Nat, s, d \in Steps, X \in SUBSET Steps, V, W \in SUBSET Steps :
       <<s, X, V>> \in Deep(n + 1) /\ s \notin X => <<d, X \cup {s}, W>> \in Deep(n)
<1>1. NSteps \in Nat
  BY NStepsAssumption
<1>2. IsFiniteSet(Steps) /\ Cardinality(Steps) = NSteps
  BY <1>1, FS_Interval DEF Steps
<1>3. \A X \in SUBSET Steps : IsFiniteSet(X) /\ Cardinality(X) \in Nat /\ Cardinality(X) <= NSteps
  BY <1>2, FS_Subset, FS_CardinalityType
<1>4. \A X \in SUBSET Steps, s \in Steps : s \notin X => Cardinality(X \cup {s}) = Cardinality(X) + 1
  BY <1>3, FS_AddElement
<1>5. \A call \in Calls : call[2] \in SUBSET Steps
  BY DEF Calls
<1>6. Deep(0) = {}
  BY <1>1, <1>3, <1>5 DEF Deep
<1>7. Deep(NSteps + 1) = Calls
  BY <1>1, <1>3, <1>5 DEF Deep
<1>8. \A n \in Nat : Deep(n) \subseteq Deep(n + 1)
  BY <1>1, <1>3, <1>5 DEF Deep
<1>9. \A n \in Nat, s \in Steps, X \in SUBSET Steps, V \in SUBSET Steps :
        <<s, X, V>> \in Deep(n) <=> NSteps < Cardinality(X) + n
  BY DEF Deep, Calls
<1>10. ASSUME NEW n \in Nat, NEW s \in Steps, NEW d \in Steps, NEW X \in SUBSET Steps,
              NEW V \in SUBSET Steps, NEW W \in SUBSET Steps,
              <<s, X, V>> \in Deep(n + 1), s \notin X
       PROVE  <<d, X \cup {s}, W>> \in Deep(n)
  <2>1. NSteps < Cardinality(X) + (n + 1)
    BY <1>9, <1>10
  <2>2. NSteps < Cardinality(X \cup {s}) + n
    BY <1>1, <1>3, <1>4, <1>10, <2>1
  <2>3. X \cup {s} \in SUBSET Steps
    OBVIOUS
  <2> QED
    BY <1>9, <2>2, <2>3
<1> QED
  BY <1>1, <1>3, <1>6, <1>7, <1>8, <1>9, <1>10

LEMMA DescentClears ==
  ASSUME NEW depends \in [Steps -> Seq(Steps)], NEW n \in Nat, NEW f, IsDescent(f, depends, n)
  PROVE  \A s \in Steps, X \in SUBSET Steps, V \in SUBSET Steps :
           <<s, X, V>> \in Deep(n) => Clears(depends, s, X, V, f[<<s, X, V>>])
<1> DEFINE S == {m \in 0..n : \A s \in Steps, X \in SUBSET Steps, V \in SUBSET Steps :
                   <<s, X, V>> \in Deep(m) => Clears(depends, s, X, V, f[<<s, X, V>>])}
<1>1. 0 \in 0..n /\ n \in 0..n
  OBVIOUS
<1>2. 0 \in S
  BY <1>1, DeepCalls
<1>3. ASSUME NEW m \in 0..n, m \in S, m < n PROVE m + 1 \in S
  <2>1. m + 1 \in 0..n /\ m \in Nat
    BY <1>3
  <2>2. ASSUME NEW s \in Steps, NEW X \in SUBSET Steps, NEW V \in SUBSET Steps,
               <<s, X, V>> \in Deep(m + 1)
        PROVE  Clears(depends, s, X, V, f[<<s, X, V>>])
    <3>1. <<s, X, V>> \in Deep(n)
      <4>1. NSteps < Cardinality(X) + (m + 1)
        BY <2>1, <2>2, DeepCalls
      <4>2. Cardinality(X) \in Nat
        BY DeepCalls
      <4>3. NSteps < Cardinality(X) + n
        BY <2>1, <4>1, <4>2, DeepCalls
      <4> QED
        BY <4>3, DeepCalls
    <3>2. f[<<s, X, V>>] = Visit(f, depends, s, X, V)
      BY <3>1 DEF IsDescent
    <3>3. depends[s] \in Seq(Steps)
      OBVIOUS
    <3>4. s \notin X => VisitsClear(f, depends, depends[s], X \cup {s})
      <4> SUFFICES ASSUME s \notin X, NEW i \in 1..Len(depends[s]), NEW W \in SUBSET Steps
                   PROVE  Clears(depends, depends[s][i], X \cup {s}, W,
                                 f[<<depends[s][i], X \cup {s}, W>>])
        BY DEF VisitsClear
      <4>1. depends[s][i] \in Steps /\ X \cup {s} \in SUBSET Steps
        BY <3>3
      <4>2. <<depends[s][i], X \cup {s}, W>> \in Deep(m)
        BY <2>1, <2>2, <4>1, DeepCalls
      <4> QED
        BY <1>3, <4>1, <4>2
    <3> QED
      BY <3>2, <3>4, VisitClears
  <2> QED
    BY <2>1, <2>2
<1>4. \A m \in 0..n : m \in S
  <2> HIDE DEF S
  <2> QED
    BY <1>2, <1>3, UpTo
<1> QED
  BY <1>1, <1>4

LEMMA DescentExists ==
  ASSUME NEW depends \in [Steps -> Seq(Steps)]
  PROVE  \E f : IsDescent(f, depends, NSteps + 1)
<1> DEFINE N == NSteps + 1
           S == {n \in 0..N : \E f : IsDescent(f, depends, n)}
<1>1. N \in Nat /\ 0 \in 0..N /\ N \in 0..N
  BY DeepCalls
<1>2. 0 \in S
  <2> DEFINE f == [call \in {} |-> 0]
  <2>1. IsDescent(f, depends, 0)
    BY DeepCalls DEF IsDescent
  <2> QED
    BY <1>1, <2>1
<1>3. ASSUME NEW n \in 0..N, n \in S, n < N PROVE n + 1 \in S
  <2>1. PICK f : IsDescent(f, depends, n)
    BY <1>3
  <2> DEFINE Called(g, call) == Visit(g, depends, call[1], call[2], call[3])
             h == [call \in Deep(n + 1) |-> IF call \in Deep(n) THEN f[call] ELSE Called(f, call)]
  <2>2. n \in Nat /\ n + 1 \in 0..N
    BY <1>1, <1>3
  <2>3. \A call \in Deep(n) : f[call] = Called(f, call)
    BY <2>1 DEF IsDescent
  <2>4. Deep(n) \subseteq Deep(n + 1)
    BY <2>2, DeepCalls
  <2>5. ASSUME NEW call \in Deep(n + 1)
        PROVE  h[call] = Called(h, call)
    <3>1. PICK s \in Steps, X \in SUBSET Steps, V \in SUBSET Steps : call = <<s, X, V>>
      BY DEF Deep, Calls
    <3>2. h[call] = Called(f, call)
      BY <2>3
    <3>3. ASSUME s \notin X, NEW i \in 1..Len(depends[s]), NEW W \in SUBSET Steps
          PROVE  /\ Clears(depends, depends[s][i], X \cup {s}, W,
                           f[<<depends[s][i], X \cup {s}, W>>])
                 /\ h[<<depends[s][i], X \cup {s}, W>>] = f[<<depends[s][i], X \cup {s}, W>>]
      <4>1. depends[s][i] \in Steps /\ X \cup {s} \in SUBSET Steps
        OBVIOUS
      <4>2. <<depends[s][i], X \cup {s}, W>> \in Deep(n)
        BY <2>2, <3>1, <3>3, <4>1, DeepCalls
      <4>3. Clears(depends, depends[s][i], X \cup {s}, W, f[<<depends[s][i], X \cup {s}, W>>])
        BY <2>1, <2>2, <4>1, <4>2, DescentClears
      <4> QED
        BY <2>4, <4>2, <4>3
    <3> HIDE DEF h
    <3>4. s \notin X => VisitsClear(f, depends, depends[s], X \cup {s})
      BY <3>3 DEF VisitsClear
    <3>5. s \notin X => VisitsAgree(h, f, depends[s], X \cup {s})
      BY <3>3 DEF VisitsAgree
    <3>6. Visit(h, depends, s, X, V) = Visit(f, depends, s, X, V)
      <4>1. CASE s \in X
        BY <4>1, Zenon DEF Visit
      <4>2. CASE s \notin X
        <5>1. depends[s] \in Seq(Steps) /\ V \in SUBSET Steps
          BY <3>1
        <5>2. Walk(h, depends[s], X \cup {s}, V)[Len(depends[s])]
                = Walk(f, depends[s], X \cup {s}, V)[Len(depends[s])]
          BY <3>4, <3>5, <4>2, <5>1, WalksAgree
        <5> QED
          BY <5>2, Zenon DEF Visit
      <4> QED
        BY <4>1, <4>2
    <3> QED
      BY <3>1, <3>2, <3>6
  <2>6. h = [call \in Deep(n + 1) |-> h[call]]
    OBVIOUS
  <2>7. IsDescent(h, depends, n + 1)
    <3> HIDE DEF h
    <3> QED
      BY <2>5, <2>6 DEF IsDescent
  <2> HIDE DEF h
  <2> QED
    BY <2>2, <2>7
<1>4. \A n \in 0..N : n \in S
  <2> HIDE DEF S, N
  <2> QED
    BY <1>1, <1>2, <1>3, UpTo
<1> QED
  BY <1>1, <1>4

\* validate_step_graph: whatever a trace says its steps depend on, and in whatever
\* order, the search of visit raises exactly if the dependencies have a cycle; with one
\* set of visited steps over all of the loop it overlooks none, and it takes no two ways
\* to one step for a cycle.
THEOREM StepGraphIsAcyclic ==
  ASSUME NEW depends \in [Steps -> Seq(Steps)]
  PROVE  ValidStepGraph(depends) <=> Acyclic(depends)
<1> DEFINE visit == CHOOSE f : f = [call \in Calls |->
                                      Visit(f, depends, call[1], call[2], call[3])]
           all == [s \in Steps |-> s]
           found == Walk(visit, all, {}, {})[NSteps]
<1>1. ValidStepGraph(depends) <=> ~found.cyclic
  BY DEF ValidStepGraph
<1>2. IsDescent(visit, depends, NSteps + 1)
  <2>1. \E f : f = [call \in Calls |-> Visit(f, depends, call[1], call[2], call[3])]
    BY DescentExists, DeepCalls DEF IsDescent
  <2>2. visit = [call \in Calls |-> Visit(visit, depends, call[1], call[2], call[3])]
    BY <2>1, Zenon
  <2> HIDE DEF visit
  <2> QED
    BY <2>2, DeepCalls DEF IsDescent
<1>3. NSteps \in Nat /\ Cardinality(Steps) = NSteps
  BY NStepsAssumption, FS_Interval DEF Steps
<1>4. all \in Seq(Steps) /\ Len(all) = NSteps /\ \A s \in Steps : all[s] = s
  BY <1>3 DEF Steps
<1> HIDE DEF visit, all
<1>5. VisitsClear(visit, depends, all, {})
  <2> SUFFICES ASSUME NEW i \in 1..Len(all), NEW W \in SUBSET Steps
               PROVE  Clears(depends, all[i], {}, W, visit[<<all[i], {}, W>>])
    BY DEF VisitsClear
  <2>1. all[i] \in Steps
    BY <1>4
  <2>2. <<all[i], {}, W>> \in Deep(NSteps + 1)
    BY <2>1, DeepCalls DEF Calls
  <2>3. NSteps + 1 \in Nat
    BY <1>3
  <2> QED
    BY <1>2, <2>1, <2>2, <2>3, DescentClears
<1>6. ClearSoFar(depends, all, {}, {}, NSteps, found)
  <2>1. NSteps \in 0..Len(all) /\ {} \in SUBSET Steps
    BY <1>3, <1>4
  <2>2. \A i \in 0..Len(all) : ClearSoFar(depends, all, {}, {}, i, Walk(visit, all, {}, {})[i])
    BY <1>4, <1>5, <2>1, WalkClears
  <2> QED
    BY <2>1, <2>2
<1> HIDE DEF found
<1>7. ASSUME ~found.cyclic PROVE Acyclic(depends)
  <2>1. Ordered(depends, {})
    <3> DEFINE rank == [v \in {} |-> 0]
    <3>1. rank \in [{} -> 1..Cardinality({})]
      OBVIOUS
    <3> QED
      BY <3>1 DEF Ordered
  <2>2. found.visited = Steps
    <3>1. \A j \in 1..NSteps : all[j] \in found.visited
      BY <1>6, <1>7 DEF ClearSoFar
    <3>2. found.visited \subseteq Steps
      BY <1>6 DEF ClearSoFar, Looks
    <3> QED
      BY <1>4, <3>1, <3>2 DEF Steps
  <2>3. Ordered(depends, Steps)
    BY <1>6, <1>7, <2>1, <2>2 DEF ClearSoFar
  <2> QED
    BY <1>3, <2>3 DEF Ordered, Acyclic, Steps
<1>8. ASSUME Acyclic(depends) PROVE ~found.cyclic
  <2>1. PICK rank : Ranking(depends, rank)
    BY <1>8 DEF Acyclic, Ranking
  <2> QED
    BY <1>6, <2>1 DEF ClearSoFar
<1> QED
  BY <1>1, <1>7, <1>8

\* The dependencies of a trace have no cycle.
LEMMA TraceIsAcyclic ==
  ASSUME NEW t \in Trace
  PROVE  t.depends \in [Steps -> Seq(Steps)] /\ Acyclic(t.depends)
<1>1. t.depends \in [Steps -> Seq(Steps)] /\ ValidStepGraph(t.depends)
  BY DEF Trace
<1> QED
  BY <1>1, StepGraphIsAcyclic

-------------------------------------------------------------------------------
(* The search for an earlier error                                         *)

Result == [hit : BOOLEAN, visited : SUBSET Steps]

\* What the visit of a step u returns, that was called with the visited steps V: a hit is
\* upstream, and without one all of the steps it visited have all they depend on among
\* the visited, and no candidate there.
Explores(t, C, u, V, r) ==
  /\ r \in Result /\ V \subseteq r.visited
  /\ r.hit => Upstream(t, u) \cap C # {}
  /\ ~r.hit => \A w \in (r.visited \ V) \cup {u} : Direct(t, w) \subseteq r.visited \ C

\* visit does so for what u depends on.
VisitsBelow(visit, t, C, u) ==
  \A d \in Direct(t, u), W \in SUBSET Steps : Explores(t, C, d, W, visit[<<d, W>>])

IsLook(g, visit, t, C, u, V, n) ==
  g = [i \in 0..n |-> IF i = 0 THEN [hit |-> FALSE, visited |-> V]
                      ELSE Turn(visit, C, t.depends[u][i], g[i - 1])]

LEMMA DependsOnSteps ==
  ASSUME NEW t \in Trace, NEW u \in Steps
  PROVE  /\ Len(t.depends[u]) \in Nat
         /\ \A i \in 1..Len(t.depends[u]) : t.depends[u][i] \in Direct(t, u)
         /\ \A d \in Direct(t, u) : \E i \in 1..Len(t.depends[u]) : d = t.depends[u][i]
         /\ Direct(t, u) \subseteq Steps
<1>1. t.depends[u] \in Seq(Steps)
  BY DEF Trace
<1>2. DOMAIN t.depends[u] = 1..Len(t.depends[u]) /\ Len(t.depends[u]) \in Nat
      /\ \A i \in 1..Len(t.depends[u]) : t.depends[u][i] \in Steps
  BY <1>1
<1> QED
  BY <1>2 DEF Direct, Range

\* What is directly upstream is upstream, with all that is upstream of it.
LEMMA UpstreamOfDirect ==
  ASSUME NEW t \in Trace, NEW u \in Steps, NEW d \in Direct(t, u)
  PROVE  d \in Upstream(t, u) /\ Upstream(t, d) \subseteq Upstream(t, u)
<1>1. d \in Steps
  BY DependsOnSteps
<1>2. d \in Upstream(t, u)
  BY <1>1 DEF Upstream
<1>3. ASSUME NEW e \in Upstream(t, d) PROVE e \in Upstream(t, u)
  <2>1. SUFFICES ASSUME NEW C \in SUBSET Steps, Direct(t, u) \subseteq C,
                        \A c \in C : Direct(t, c) \subseteq C
                 PROVE  e \in C
    BY <1>3 DEF Upstream
  <2>2. Direct(t, d) \subseteq C
    BY <2>1
  <2> QED
    BY <1>3, <2>1, <2>2 DEF Upstream
<1> QED
  BY <1>2, <1>3

\* If a visit from s that has seen s only finds no candidate, there is none upstream.
LEMMA MissIsComplete ==
  ASSUME NEW t \in Trace, NEW C \in SUBSET Steps, NEW s \in Steps, NEW r,
         Explores(t, C, s, {s}, r)
  PROVE  r.hit <=> Upstream(t, s) \cap C # {}
<1>1. CASE r.hit
  BY <1>1 DEF Explores
<1>2. CASE ~r.hit
  <2> DEFINE K == r.visited \ C
  <2>1. K \in SUBSET Steps
    BY DEF Explores, Result
  <2>2. Direct(t, s) \subseteq K
    BY <1>2 DEF Explores
  <2>3. \A c \in K : Direct(t, c) \subseteq K
    BY <1>2 DEF Explores
  <2>4. Upstream(t, s) \subseteq K
    <3> HIDE DEF K
    <3> QED
      BY <2>1, <2>2, <2>3 DEF Upstream
  <2> QED
    BY <1>2, <2>4
<1> QED
  BY <1>1, <1>2

LEMMA LookExists ==
  ASSUME NEW visit, NEW t, NEW C, NEW u, NEW V, NEW n \in Nat
  PROVE  \E g : IsLook(g, visit, t, C, u, V, n)
<1> DEFINE None0 == [hit |-> FALSE, visited |-> V]
           S == {m \in 0..n : \E g : IsLook(g, visit, t, C, u, V, m)}
<1>1. 0 \in S
  <2> DEFINE g == [i \in 0..0 |-> None0]
  <2>1. g = [i \in 0..0 |-> IF i = 0 THEN None0 ELSE Turn(visit, C, t.depends[u][i], g[i - 1])]
    OBVIOUS
  <2>2. IsLook(g, visit, t, C, u, V, 0)
    BY <2>1 DEF IsLook
  <2> QED
    BY <2>2
<1>2. ASSUME NEW m \in 0..n, m \in S, m < n
      PROVE  m + 1 \in S
  <2>1. PICK g : IsLook(g, visit, t, C, u, V, m)
    BY <1>2
  <2> DEFINE h == [i \in 0..(m + 1) |->
                     IF i = m + 1 THEN Turn(visit, C, t.depends[u][m + 1], g[m]) ELSE g[i]]
  <2>2. ASSUME NEW i \in 0..(m + 1)
        PROVE  h[i] = IF i = 0 THEN None0 ELSE Turn(visit, C, t.depends[u][i], h[i - 1])
    <3>1. CASE i = m + 1
      BY <3>1
    <3>2. CASE i # m + 1
      <4>1. i \in 0..m /\ h[i] = g[i] /\ (i # 0 => h[i - 1] = g[i - 1])
        BY <3>2
      <4>2. g[i] = IF i = 0 THEN None0 ELSE Turn(visit, C, t.depends[u][i], g[i - 1])
        BY <2>1, <4>1 DEF IsLook
      <4> HIDE DEF h
      <4> QED
        BY <4>1, <4>2
    <3> QED
      BY <3>1, <3>2
  <2>3. h = [i \in 0..(m + 1) |-> h[i]]
    OBVIOUS
  <2>4. IsLook(h, visit, t, C, u, V, m + 1)
    <3> HIDE DEF h
    <3> QED
      BY <2>2, <2>3 DEF IsLook
  <2>5. m + 1 \in 0..n
    BY <1>2
  <2> HIDE DEF h
  <2> QED
    BY <2>4, <2>5
<1>3. \A i \in 0..n : i \in S
  <2> HIDE DEF S
  <2> QED
    BY <1>1, <1>2, UpTo
<1> QED
  BY <1>3

LEMMA LookedUnfolds ==
  ASSUME NEW visit, NEW t, NEW C, NEW u, NEW V, Len(t.depends[u]) \in Nat
  PROVE  /\ Looked(visit, t, C, u, V)[0] = [hit |-> FALSE, visited |-> V]
         /\ \A i \in 1..Len(t.depends[u]) :
              Looked(visit, t, C, u, V)[i] =
                Turn(visit, C, t.depends[u][i], Looked(visit, t, C, u, V)[i - 1])
<1> DEFINE n == Len(t.depends[u])
           start == [hit |-> FALSE, visited |-> V]
           g == Looked(visit, t, C, u, V)
<1>1. g = CHOOSE f : f = [i \in 0..n |-> IF i = 0 THEN start
                                         ELSE Turn(visit, C, t.depends[u][i], f[i - 1])]
  BY DEF Looked
<1>2. \E f : f = [i \in 0..n |-> IF i = 0 THEN start
                                  ELSE Turn(visit, C, t.depends[u][i], f[i - 1])]
  <2>1. \E f : IsLook(f, visit, t, C, u, V, n)
    BY LookExists
  <2> QED
    BY <2>1, Zenon DEF IsLook
<1>3. n \in Nat /\ g = [i \in 0..n |-> IF i = 0 THEN start
                                        ELSE Turn(visit, C, t.depends[u][i], g[i - 1])]
  BY <1>1, <1>2, Zenon
<1> HIDE DEF g, n, start
<1>4. /\ g[0] = start
      /\ \A i \in 1..n : g[i] = Turn(visit, C, t.depends[u][i], g[i - 1])
  BY <1>3
<1> QED
  BY <1>4 DEF g, n, start

\* The loop over what u depends on, after i of them.
SoFar(t, C, u, V, i, found) ==
  /\ found \in Result /\ V \subseteq found.visited
  /\ found.hit => Upstream(t, u) \cap C # {}
  /\ ~found.hit =>
       /\ \A w \in found.visited \ V : Direct(t, w) \subseteq found.visited \ C
       /\ \A j \in 1..i : t.depends[u][j] \in found.visited \ C

LEMMA TurnKeepsSoFar ==
  ASSUME NEW t \in Trace, NEW C \in SUBSET Steps, NEW u \in Steps, NEW V \in SUBSET Steps,
         NEW visit, VisitsBelow(visit, t, C, u),
         NEW i \in 1..Len(t.depends[u]), NEW found, SoFar(t, C, u, V, i - 1, found)
  PROVE  SoFar(t, C, u, V, i, Turn(visit, C, t.depends[u][i], found))
<1> DEFINE d == t.depends[u][i]
<1> SUFFICES ASSUME NEW r, r = Turn(visit, C, d, found)
             PROVE  SoFar(t, C, u, V, i, r)
  OBVIOUS
<1>1. d \in Direct(t, u) /\ d \in Steps /\ Len(t.depends[u]) \in Nat
  BY DependsOnSteps
<1>2. d \in Upstream(t, u) /\ Upstream(t, d) \subseteq Upstream(t, u)
  BY <1>1, UpstreamOfDirect
<1>3. found \in Result /\ V \subseteq found.visited
  BY DEF SoFar
<1>4. \A j \in 1..i : j \in 1..(i - 1) \/ j = i
  BY <1>1
<1>5. CASE found.hit
  <2>1. r = found
    BY <1>5 DEF Turn
  <2> QED
    BY <1>5, <2>1 DEF SoFar
<1>6. CASE ~found.hit /\ d \in C
  <2>1. r = [found EXCEPT !.hit = TRUE]
    BY <1>6 DEF Turn
  <2>2. r \in Result /\ r.hit /\ r.visited = found.visited
    BY <1>3, <2>1 DEF Result
  <2> QED
    BY <1>2, <1>3, <1>6, <2>2 DEF SoFar
<1>7. CASE ~found.hit /\ d \notin C /\ d \in found.visited
  <2>1. r = found
    BY <1>7 DEF Turn
  <2>2. \A j \in 1..i : t.depends[u][j] \in found.visited \ C
    BY <1>4, <1>7 DEF SoFar
  <2> QED
    BY <1>7, <2>1, <2>2 DEF SoFar
<1>8. CASE ~found.hit /\ d \notin C /\ d \notin found.visited
  <2> DEFINE W == found.visited \cup {d}
  <2>1. r = visit[<<d, W>>]
    BY <1>8, Zenon DEF Turn
  <2>2. Explores(t, C, d, W, r)
    <3>1. W \in SUBSET Steps
      BY <1>1, <1>3 DEF Result
    <3> QED
      BY <1>1, <2>1, <3>1 DEF VisitsBelow
  <2>3. r \in Result /\ W \subseteq r.visited /\ V \subseteq r.visited
    BY <1>3, <2>2 DEF Explores
  <2>4. r.hit => Upstream(t, u) \cap C # {}
    BY <1>2, <2>2 DEF Explores
  <2>5. ASSUME ~r.hit
        PROVE  /\ \A w \in r.visited \ V : Direct(t, w) \subseteq r.visited \ C
               /\ \A j \in 1..i : t.depends[u][j] \in r.visited \ C
    <3>1. ASSUME NEW w \in r.visited \ V PROVE Direct(t, w) \subseteq r.visited \ C
      <4>1. CASE w \in (r.visited \ W) \cup {d}
        BY <2>2, <2>5, <4>1 DEF Explores
      <4>2. CASE w \in found.visited \ V
        <5>1. Direct(t, w) \subseteq found.visited \ C
          BY <1>8, <4>2 DEF SoFar
        <5> QED
          BY <2>3, <5>1
      <4> QED
        BY <3>1, <4>1, <4>2
    <3>2. ASSUME NEW j \in 1..i PROVE t.depends[u][j] \in r.visited \ C
      <4>1. CASE j = i
        BY <1>8, <2>3, <4>1
      <4>2. CASE j \in 1..(i - 1)
        <5>1. t.depends[u][j] \in found.visited \ C
          BY <1>8, <4>2 DEF SoFar
        <5> QED
          BY <2>3, <5>1
      <4> QED
        BY <1>4, <3>2, <4>1, <4>2
    <3> QED
      BY <3>1, <3>2
  <2> QED
    BY <2>3, <2>4, <2>5 DEF SoFar
<1> QED
  BY <1>5, <1>6, <1>7, <1>8

\* The loop explores if the visits it makes do.
LEMMA LookExplores ==
  ASSUME NEW t \in Trace, NEW C \in SUBSET Steps, NEW u \in Steps, NEW V \in SUBSET Steps,
         NEW visit, VisitsBelow(visit, t, C, u)
  PROVE  /\ \A i \in 0..Len(t.depends[u]) : SoFar(t, C, u, V, i, Looked(visit, t, C, u, V)[i])
         /\ Explores(t, C, u, V, Looked(visit, t, C, u, V)[Len(t.depends[u])])
<1> DEFINE n == Len(t.depends[u])
           g == Looked(visit, t, C, u, V)
           S == {i \in 0..n : SoFar(t, C, u, V, i, g[i])}
<1>1. n \in Nat /\ 0 \in 0..n /\ n \in 0..n
  BY DependsOnSteps
<1>3. g[0] = [hit |-> FALSE, visited |-> V]
      /\ \A i \in 1..n : g[i] = Turn(visit, C, t.depends[u][i], g[i - 1])
  BY <1>1, LookedUnfolds
<1> HIDE DEF g
<1>4. 0 \in S
  <2>1. SoFar(t, C, u, V, 0, g[0])
    BY <1>3 DEF SoFar, Result
  <2> QED
    BY <1>1, <2>1
<1>5. ASSUME NEW i \in 0..n, i \in S, i < n PROVE i + 1 \in S
  <2>1. i + 1 \in 1..n /\ i + 1 \in 0..n /\ (i + 1) - 1 = i
    BY <1>1, <1>5
  <2>2. SoFar(t, C, u, V, (i + 1) - 1, g[(i + 1) - 1])
    BY <1>5, <2>1
  <2>3. SoFar(t, C, u, V, i + 1, Turn(visit, C, t.depends[u][i + 1], g[(i + 1) - 1]))
    BY <2>1, <2>2, TurnKeepsSoFar
  <2> QED
    BY <1>3, <2>1, <2>3
<1>6. \A i \in 0..n : i \in S
  <2> HIDE DEF S, n
  <2> QED
    BY <1>1, <1>4, <1>5, UpTo
<1>7. SoFar(t, C, u, V, n, g[n])
  BY <1>1, <1>6
<1>8. Explores(t, C, u, V, g[n])
  <2>1. ~g[n].hit => Direct(t, u) \subseteq g[n].visited \ C
    BY <1>7, DependsOnSteps DEF SoFar
  <2> QED
    BY <1>7, <2>1 DEF SoFar, Explores
<1> QED
  BY <1>6, <1>8 DEF g

\* The loop does not tell visits apart that agree on what u depends on.
LEMMA LooksAgree ==
  ASSUME NEW t \in Trace, NEW C \in SUBSET Steps, NEW u \in Steps, NEW V \in SUBSET Steps,
         NEW visit, NEW other, VisitsBelow(visit, t, C, u),
         \A d \in Direct(t, u), W \in SUBSET Steps : other[<<d, W>>] = visit[<<d, W>>]
  PROVE  Looked(other, t, C, u, V)[Len(t.depends[u])] = Looked(visit, t, C, u, V)[Len(t.depends[u])]
<1> DEFINE n == Len(t.depends[u])
           g == Looked(visit, t, C, u, V)
           h == Looked(other, t, C, u, V)
           S == {i \in 0..n : h[i] = g[i]}
<1>1. n \in Nat /\ 0 \in 0..n /\ n \in 0..n
  BY DependsOnSteps
<1>3. \A i \in 0..n : g[i].visited \in SUBSET Steps
  BY LookExplores DEF SoFar, Result
<1>4. /\ g[0] = [hit |-> FALSE, visited |-> V] /\ h[0] = [hit |-> FALSE, visited |-> V]
      /\ \A i \in 1..n : g[i] = Turn(visit, C, t.depends[u][i], g[i - 1])
      /\ \A i \in 1..n : h[i] = Turn(other, C, t.depends[u][i], h[i - 1])
  BY <1>1, LookedUnfolds
<1> HIDE DEF g, h
<1>5. 0 \in S
  BY <1>1, <1>4
<1>6. ASSUME NEW i \in 0..n, i \in S, i < n PROVE i + 1 \in S
  <2>1. i + 1 \in 1..n /\ i + 1 \in 0..n /\ (i + 1) - 1 = i
    BY <1>1, <1>6
  <2> DEFINE d == t.depends[u][i + 1]
  <2>2. d \in Direct(t, u) /\ d \in Steps
    BY <2>1, DependsOnSteps
  <2>3. g[i].visited \cup {d} \in SUBSET Steps
    BY <1>3, <2>2
  <2>4. other[<<d, g[i].visited \cup {d}>>] = visit[<<d, g[i].visited \cup {d}>>]
    BY <2>2, <2>3
  <2>5. h[i + 1] = Turn(other, C, d, g[i]) /\ g[i + 1] = Turn(visit, C, d, g[i])
    BY <1>4, <1>6, <2>1
  <2>6. Turn(other, C, d, g[i]) = Turn(visit, C, d, g[i])
    BY <2>4 DEF Turn
  <2> QED
    BY <2>1, <2>5, <2>6
<1>7. \A i \in 0..n : i \in S
  <2> HIDE DEF S, n
  <2> QED
    BY <1>1, <1>5, <1>6, UpTo
<1> QED
  BY <1>1, <1>7 DEF g, h

\* The visits of the steps of rank up to n, one being given by those of lower rank.
Below(rank, n) == {u \in Steps : rank[u] <= n} \X SUBSET Steps
IsVisit(f, t, C, rank, n) ==
  f = [call \in Below(rank, n) |->
         Looked(f, t, C, call[1], call[2])[Len(t.depends[call[1]])]]
IsRank(t, rank) ==
  rank \in [Steps -> Steps] /\ \A s \in Steps : \A d \in Direct(t, s) : rank[d] < rank[s]

LEMMA VisitsExplore ==
  ASSUME NEW t \in Trace, NEW C \in SUBSET Steps, NEW rank, IsRank(t, rank),
         NEW n \in 0..NSteps, NEW f, IsVisit(f, t, C, rank, n),
         NEW u \in Steps, rank[u] <= n, NEW V \in SUBSET Steps
  PROVE  Explores(t, C, u, V, f[<<u, V>>])
<1> DEFINE S == {m \in 0..n : \A w \in Steps, W \in SUBSET Steps :
                                rank[w] <= m => Explores(t, C, w, W, f[<<w, W>>])}
<1>1. /\ \A w \in Steps : rank[w] \in Nat /\ rank[w] # 0
      /\ NSteps \in Nat /\ n \in Nat /\ 0 \in 0..n /\ n \in 0..n
  <2>1. NSteps \in Nat /\ n \in Nat
    BY NStepsAssumption
  <2>2. 0 \in 0..n /\ n \in 0..n
    BY <2>1
  <2>3. ASSUME NEW w \in Steps PROVE rank[w] \in Nat /\ rank[w] # 0
    <3>1. rank[w] \in 1..NSteps
      BY DEF IsRank, Steps
    <3> QED
      BY <2>1, <3>1
  <2> QED
    BY <2>1, <2>2, <2>3
<1>2. \A w \in Steps, W \in SUBSET Steps : rank[w] <= n =>
        f[<<w, W>>] = Looked(f, t, C, w, W)[Len(t.depends[w])]
  <2> SUFFICES ASSUME NEW w \in Steps, NEW W \in SUBSET Steps, rank[w] <= n
               PROVE  f[<<w, W>>] = Looked(f, t, C, w, W)[Len(t.depends[w])]
    OBVIOUS
  <2>1. <<w, W>> \in Below(rank, n)
    BY DEF Below
  <2> QED
    BY <2>1 DEF IsVisit
<1>3. 0 \in S
  BY <1>1
<1>4. ASSUME NEW m \in 0..n, m \in S, m < n PROVE m + 1 \in S
  <2>1. ASSUME NEW w \in Steps, NEW W \in SUBSET Steps, rank[w] <= m + 1
        PROVE  Explores(t, C, w, W, f[<<w, W>>])
    <3>1. \A d \in Direct(t, w) : d \in Steps /\ rank[d] <= m
      BY <1>1, <2>1, DependsOnSteps DEF IsRank
    <3>2. VisitsBelow(f, t, C, w)
      BY <1>4, <3>1 DEF VisitsBelow
    <3>3. Explores(t, C, w, W, Looked(f, t, C, w, W)[Len(t.depends[w])])
      BY <3>2, LookExplores
    <3>4. rank[w] <= n
      BY <1>1, <1>4, <2>1
    <3> QED
      BY <1>2, <3>3, <3>4
  <2>2. m + 1 \in 0..n
    BY <1>1, <1>4
  <2> QED
    BY <2>1, <2>2
<1>5. \A m \in 0..n : m \in S
  <2> HIDE DEF S
  <2> QED
    BY <1>1, <1>3, <1>4, UpTo
<1> QED
  BY <1>1, <1>5

LEMMA VisitsExist ==
  ASSUME NEW t \in Trace, NEW C \in SUBSET Steps, NEW rank, IsRank(t, rank)
  PROVE  \E f : IsVisit(f, t, C, rank, NSteps)
<1> DEFINE S == {n \in 0..NSteps : \E f : IsVisit(f, t, C, rank, n)}
<1>1. /\ \A w \in Steps : rank[w] \in Nat /\ rank[w] # 0
      /\ NSteps \in Nat /\ 0 \in 0..NSteps /\ NSteps \in 0..NSteps
  BY NStepsAssumption DEF IsRank, Steps
<1>2. 0 \in S
  <2> DEFINE f == [call \in {} |-> 0]
  <2>1. Below(rank, 0) = {}
    BY <1>1 DEF Below
  <2>2. IsVisit(f, t, C, rank, 0)
    BY <2>1 DEF IsVisit
  <2> QED
    BY <1>1, <2>2
<1>3. ASSUME NEW n \in 0..NSteps, n \in S, n < NSteps PROVE n + 1 \in S
  <2>1. PICK f : IsVisit(f, t, C, rank, n)
    BY <1>3
  <2> DEFINE Called(g, call) == Looked(g, t, C, call[1], call[2])[Len(t.depends[call[1]])]
             h == [call \in Below(rank, n + 1) |->
                     IF call \in Below(rank, n) THEN f[call] ELSE Called(f, call)]
  <2>2. \A call \in Below(rank, n) : f[call] = Called(f, call)
    BY <2>1 DEF IsVisit
  <2>3. Below(rank, n) \subseteq Below(rank, n + 1)
    BY <1>1 DEF Below
  <2>4. ASSUME NEW call \in Below(rank, n + 1)
        PROVE  h[call] = Called(h, call)
    <3>1. PICK u \in Steps, V \in SUBSET Steps : call = <<u, V>> /\ rank[u] <= n + 1
      BY DEF Below
    <3>2. h[call] = Called(f, call)
      BY <2>2
    <3>3. ASSUME NEW d \in Direct(t, u), NEW W \in SUBSET Steps
          PROVE  /\ Explores(t, C, d, W, f[<<d, W>>])
                 /\ h[<<d, W>>] = f[<<d, W>>]
      <4>1. d \in Steps /\ rank[d] <= n
        BY <1>1, <3>1, DependsOnSteps DEF IsRank
      <4>2. <<d, W>> \in Below(rank, n)
        BY <4>1 DEF Below
      <4>3. Explores(t, C, d, W, f[<<d, W>>])
        BY <1>3, <2>1, <4>1, VisitsExplore
      <4> QED
        BY <2>3, <4>2, <4>3
    <3> HIDE DEF h
    <3>4. VisitsBelow(f, t, C, u)
      BY <3>3 DEF VisitsBelow
    <3>5. Looked(h, t, C, u, V)[Len(t.depends[u])] = Looked(f, t, C, u, V)[Len(t.depends[u])]
      BY <3>1, <3>3, <3>4, LooksAgree
    <3> QED
      BY <3>1, <3>2, <3>5
  <2>5. h = [call \in Below(rank, n + 1) |-> h[call]]
    OBVIOUS
  <2>6. IsVisit(h, t, C, rank, n + 1)
    <3> HIDE DEF h
    <3> QED
      BY <2>4, <2>5 DEF IsVisit
  <2>7. n + 1 \in 0..NSteps
    BY <1>1, <1>3
  <2> HIDE DEF h
  <2> QED
    BY <2>6, <2>7
<1>4. \A n \in 0..NSteps : n \in S
  <2> HIDE DEF S
  <2> QED
    BY <1>1, <1>2, <1>3, UpTo
<1> QED
  BY <1>1, <1>4

\* The search finds a candidate exactly if one is upstream.
LEMMA SearchIsUpstream ==
  ASSUME NEW t \in Trace, NEW C \in SUBSET Steps, NEW s \in Steps
  PROVE  Search(t, C, s) <=> Upstream(t, s) \cap C # {}
<1> DEFINE Called(f, call) == Looked(f, t, C, call[1], call[2])[Len(t.depends[call[1]])]
           visit == CHOOSE f : f = [call \in Steps \X SUBSET Steps |-> Called(f, call)]
<1>1. Search(t, C, s) = visit[<<s, {s}>>].hit
  BY DEF Search
<1>2. PICK rank : IsRank(t, rank)
  BY TraceIsAcyclic DEF Acyclic, IsRank, Direct
<1>3. NSteps \in 0..NSteps /\ (\A u \in Steps : rank[u] <= NSteps)
  BY <1>2, NStepsAssumption DEF IsRank, Steps
<1>4. Below(rank, NSteps) = Steps \X SUBSET Steps
  BY <1>3 DEF Below
<1>5. \E f : f = [call \in Steps \X SUBSET Steps |-> Called(f, call)]
  <2>1. \E f : IsVisit(f, t, C, rank, NSteps)
    BY <1>2, VisitsExist
  <2> QED
    BY <1>4, <2>1, Zenon DEF IsVisit
<1>6. visit = [call \in Steps \X SUBSET Steps |-> Called(visit, call)]
  BY <1>5, Zenon
<1> HIDE DEF visit
<1>7. IsVisit(visit, t, C, rank, NSteps)
  BY <1>4, <1>6, Zenon DEF IsVisit
<1>8. Explores(t, C, s, {s}, visit[<<s, {s}>>])
  BY <1>2, <1>3, <1>7, VisitsExplore
<1> QED
  BY <1>1, <1>8, MissIsComplete

-------------------------------------------------------------------------------
(* Localization                                                            *)

\* The roots are the candidates with no candidate upstream.
LEMMA RootsHaveNoneUpstream ==
  ASSUME NEW t \in Trace, NEW candidates \in SUBSET Steps
  PROVE  Roots(t, candidates) = {s \in candidates : Upstream(t, s) \cap candidates = {}}
BY SearchIsUpstream DEF Roots

\* A set whose elements are numbered has an element with the least number.
LEMMA LeastExists ==
  ASSUME NEW S, S # {}, NEW f \in [S -> Nat]
  PROVE  \E s \in S : \A u \in S : f[s] <= f[u]
<1> DEFINE T == {f[s] : s \in S}
<1>1. T \subseteq Nat /\ T # {}
  OBVIOUS
<1> HIDE DEF T
<1>2. PICK x \in T : \A y \in T : ~ (<<y, x>> \in OpToRel(<, Nat))
  BY <1>1, NatLessThanWellFounded, WFMin
<1>3. \A y \in T : x <= y
  <2> SUFFICES ASSUME NEW y \in T PROVE x <= y
    OBVIOUS
  <2>1. x \in Nat /\ y \in Nat
    BY <1>1
  <2>2. ~ (y < x)
    BY <1>2, <2>1 DEF OpToRel
  <2> QED
    BY <2>1, <2>2
<1> QED
  BY <1>3 DEF T

LEMMA EarliestIsLeast ==
  ASSUME NEW t \in Trace, NEW S \in SUBSET Steps, S # {}
  PROVE  Earliest(t, S) \in S /\ \A u \in S : t.number[Earliest(t, S)] <= t.number[u]
<1>1. t.number \in [Steps -> Nat]
  BY DEF Trace
<1> DEFINE f == [s \in S |-> t.number[s]]
<1>2. f \in [S -> Nat]
  BY <1>1
<1>3. \E s \in S : \A u \in S : f[s] <= f[u]
  <2> HIDE DEF f
  <2> QED
    BY <1>2, LeastExists
<1>4. \E s \in S : \A u \in S : t.number[s] <= t.number[u]
  BY <1>3
<1> QED
  BY <1>4 DEF Earliest

\* What is upstream of a step has a lower rank.
LEMMA UpstreamIsLower ==
  ASSUME NEW t \in Trace, NEW rank \in [Steps -> Int],
         \A s \in Steps : \A d \in Direct(t, s) : rank[d] < rank[s],
         NEW s \in Steps, NEW d \in Upstream(t, s)
  PROVE  rank[d] < rank[s]
<1>1. \A c \in Steps : Direct(t, c) \subseteq Steps
  BY DependsOnSteps
<1> DEFINE C == {c \in Steps : rank[c] < rank[s]}
<1>2. Direct(t, s) \subseteq C
  BY <1>1
<1>3. \A c \in C : Direct(t, c) \subseteq C
  <2> SUFFICES ASSUME NEW c \in C, NEW e \in Direct(t, c) PROVE e \in C
    OBVIOUS
  <2>1. e \in Steps /\ rank[e] < rank[c] /\ rank[c] < rank[s]
    BY <1>1
  <2>2. rank[e] \in Int /\ rank[c] \in Int /\ rank[s] \in Int
    BY <2>1
  <2> QED
    BY <2>1, <2>2
<1>4. C \in SUBSET Steps
  OBVIOUS
<1> HIDE DEF C
<1>5. d \in C
  BY <1>2, <1>3, <1>4 DEF Upstream
<1> QED
  BY <1>5 DEF C

\* Of any steps, one rests on none of the others: dependencies have no cycle.
LEMMA RootExists ==
  ASSUME NEW t \in Trace, NEW candidates \in SUBSET Steps, candidates # {}
  PROVE  Roots(t, candidates) # {}
<1>1. PICK rank \in [Steps -> Steps] : \A s \in Steps : \A d \in Direct(t, s) : rank[d] < rank[s]
  BY TraceIsAcyclic DEF Acyclic, Direct
<1>2. rank \in [Steps -> Nat] /\ rank \in [Steps -> Int]
  BY <1>1, NStepsAssumption DEF Steps
<1> DEFINE f == [s \in candidates |-> rank[s]]
<1>3. f \in [candidates -> Nat]
  BY <1>2
<1>4. PICK s \in candidates : \A u \in candidates : f[s] <= f[u]
  <2> HIDE DEF f
  <2> QED
    BY <1>3, LeastExists
<1>5. \A u \in candidates : rank[s] <= rank[u]
  BY <1>4
<1>6. \A d \in Upstream(t, s) : rank[d] < rank[s]
  BY <1>1, <1>2, UpstreamIsLower
<1>7. Upstream(t, s) \cap candidates = {}
  <2> SUFFICES ASSUME NEW d \in Upstream(t, s) \cap candidates PROVE FALSE
    OBVIOUS
  <2>1. rank[d] \in Int /\ rank[s] \in Int
    BY <1>2
  <2>2. rank[d] < rank[s] /\ rank[s] <= rank[d]
    BY <1>5, <1>6
  <2> QED
    BY <2>1, <2>2
<1> QED
  BY <1>7, RootsHaveNoneUpstream

LEMMA LocalizedIsRoot ==
  ASSUME NEW t \in Trace, NEW candidates \in SUBSET Steps, candidates # {}
  PROVE  /\ Localized(t, candidates) \in candidates
         /\ \A s \in Roots(t, candidates) : t.number[Localized(t, candidates)] <= t.number[s]
<1>1. Roots(t, candidates) # {} /\ Roots(t, candidates) \in SUBSET candidates
  BY RootExists DEF Roots
<1>2. Roots(t, candidates) \in SUBSET Steps
  BY <1>1
<1> QED
  BY <1>1, <1>2, EarliestIsLeast DEF Localized

\* Errors cost points, and never more than there are.
LEMMA ScoreIsReduced ==
  ASSUME NEW t \in Trace, NEW wrong \in SUBSET Steps, wrong # {}
  PROVE  Score(t, wrong) \in 0..99
<1>1. PICK s \in wrong : TRUE
  OBVIOUS
<1>2. t.stage[s] \in ReasoningStage
  BY DEF Trace
<1> DEFINE D(stage, weight) == Deduction(t, wrong, stage, weight)
<1>3. /\ D("problem_understanding", 20) \in {0, 20} /\ D("algorithm_design", 25) \in {0, 25}
      /\ D("correctness_argument", 20) \in {0, 20} /\ D("complexity_analysis", 10) \in {0, 10}
      /\ D("implementation", 10) \in {0, 10} /\ D("edge_cases", 15) \in {0, 15}
  BY DEF Deduction
<1>4. \/ D("problem_understanding", 20) = 20 \/ D("algorithm_design", 25) = 25
      \/ D("correctness_argument", 20) = 20 \/ D("complexity_analysis", 10) = 10
      \/ D("implementation", 10) = 10 \/ D("edge_cases", 15) = 15
  BY <1>2 DEF Deduction, ReasoningStage
<1>5. Score(t, wrong) = 100 - D("problem_understanding", 20) - D("algorithm_design", 25)
                          - D("correctness_argument", 20) - D("complexity_analysis", 10)
                          - D("implementation", 10) - D("edge_cases", 15)
  BY DEF Score
<1> HIDE DEF D
<1> QED
  BY <1>3, <1>4, <1>5

\* Where no rule has found anything, the first erroneous step is a root.
LEMMA RootIsFirst ==
  ASSUME NEW t \in Trace, Findings(t) = {}, NEW candidates \in SUBSET Steps, candidates # {}
  PROVE  \A s \in candidates : t.number[Localized(t, candidates)] <= t.number[s]
<1>1. t.number \in [Steps -> Nat] /\ t.number \in [Steps -> Int]
  BY DEF Trace
<1>2. Backward(t) = {}
  BY DEF Findings
<1>3. \A s \in Steps : \A d \in Direct(t, s) : t.number[d] < t.number[s]
  <2> SUFFICES ASSUME NEW s \in Steps, NEW d \in Direct(t, s) PROVE t.number[d] < t.number[s]
    OBVIOUS
  <2>1. t.number[d] \in Int /\ t.number[s] \in Int
    BY <1>1, DependsOnSteps
  <2>2. ~ (t.number[d] >= t.number[s])
    BY <1>2 DEF Backward
  <2> QED
    BY <2>1, <2>2
<1> DEFINE e == Earliest(t, candidates)
<1>4. e \in candidates /\ \A u \in candidates : t.number[e] <= t.number[u]
  BY EarliestIsLeast
<1> HIDE DEF e
<1>5. e \in Roots(t, candidates)
  <2> SUFFICES ASSUME NEW d \in Upstream(t, e) \cap candidates PROVE FALSE
    BY <1>4, RootsHaveNoneUpstream
  <2>1. t.number[d] < t.number[e]
    BY <1>1, <1>3, <1>4, UpstreamIsLower
  <2>2. t.number[d] \in Int /\ t.number[e] \in Int
    BY <1>1, <1>4
  <2> QED
    BY <1>4, <2>1, <2>2
<1>6. Localized(t, candidates) \in candidates /\ t.number[Localized(t, candidates)] <= t.number[e]
  BY <1>5, LocalizedIsRoot
<1> SUFFICES ASSUME NEW s \in candidates PROVE t.number[Localized(t, candidates)] <= t.number[s]
  OBVIOUS
<1>7. /\ t.number[Localized(t, candidates)] \in Int
      /\ t.number[e] \in Int /\ t.number[s] \in Int
  BY <1>1, <1>4, <1>6
<1> QED
  BY <1>4, <1>6, <1>7

-------------------------------------------------------------------------------
(* What rules find                                                         *)

LEMMA TextRuleType ==
  \A x \in Defect \ {"hidden_tests"} :
    /\ TextRule[x].order \in 0..9
    /\ TextRule[x].taxonomy \in ErrorTaxonomy
    /\ TextRule[x].stage \in ReasoningStage
  BY DEF Defect, TextRule, ErrorTaxonomy, ReasoningStage

LEMMA FirstOfType ==
  ASSUME NEW t \in Trace, NEW stage
  PROVE  FirstOf(t, stage) \in Steps
<1> DEFINE matching == {s \in Steps : t.stage[s] = stage}
           S == IF matching = {} THEN Steps ELSE matching
<1>1. S \in SUBSET Steps /\ S # {}
  BY NStepsAssumption DEF Steps
<1>2. FirstOf(t, stage) = Earliest(t, S)
  BY DEF FirstOf
<1> HIDE DEF S
<1> QED
  BY <1>1, <1>2, EarliestIsLeast

LEMMA FindingsType ==
  ASSUME NEW t \in Trace
  PROVE  Findings(t) \subseteq Finding
<1>1. t.defects \subseteq Defect
  BY DEF Trace
<1>2. Backward(t) \subseteq Steps
  BY DEF Backward
<1>3. 1 \in Steps
  BY NStepsAssumption DEF Steps
<1>4. {[order |-> 0, step |-> s, taxonomy |-> "algorithm_logic"] : s \in Backward(t)} \subseteq Finding
  BY <1>2 DEF Finding, ErrorTaxonomy
<1>5. {[order |-> TextRule[x].order, step |-> FirstOf(t, TextRule[x].stage),
        taxonomy |-> TextRule[x].taxonomy] : x \in t.defects \ {"hidden_tests"}} \subseteq Finding
  BY <1>1, TextRuleType, FirstOfType DEF Finding
<1>6. {[order |-> 9, step |-> 1, taxonomy |-> "hallucination"] :
          x \in t.defects \cap {"hidden_tests"}} \subseteq Finding
  BY <1>3 DEF Finding, ErrorTaxonomy
<1> QED
  BY <1>4, <1>5, <1>6 DEF Findings

-------------------------------------------------------------------------------
(* Reports                                                                 *)

\* What AuditReport accepts.
ReportWellFormed(r) ==
  IF r.process_valid
  THEN r.taxonomy = None /\ r.first_error = None /\ r.process_score = 100
  ELSE /\ r.taxonomy # None /\ r.first_error # None
       /\ r.process_score \in 0..99

LEMMA InvalidIsWellFormed ==
  ASSUME NEW t \in Trace, NEW accepted \in BOOLEAN, NEW human \in BOOLEAN,
         NEW wrong \in SUBSET Steps, wrong # {},
         NEW root \in Steps, NEW taxonomy \in ErrorTaxonomy
  PROVE  /\ Invalid(t, accepted, wrong, root, taxonomy, human) \in Report
         /\ ReportWellFormed(Invalid(t, accepted, wrong, root, taxonomy, human))
<1>1. Score(t, wrong) \in 0..99 /\ Score(t, wrong) \in Int
  BY ScoreIsReduced
<1>2. root # None /\ taxonomy # None
  BY FusionAssumption, NStepsAssumption DEF Steps
<1> QED
  BY <1>1, <1>2 DEF Invalid, Report, ReportWellFormed

\* The first finding at the root gives a taxonomy.
LEMMA RuleReportIsWellFormed ==
  ASSUME NEW t \in Trace, NEW accepted \in BOOLEAN, Findings(t) # {}
  PROVE  RuleReport(t, accepted) \in Report /\ ReportWellFormed(RuleReport(t, accepted))
<1> DEFINE wrong == {f.step : f \in Findings(t)}
           root == Localized(t, wrong)
           here == {f \in Findings(t) : f.step = root}
           S == IF here = {} THEN Findings(t) ELSE here
           first == CHOOSE f \in S : \A g \in S : f.order <= g.order
<1>1. wrong \in SUBSET Steps /\ wrong # {}
  BY FindingsType DEF Finding
<1>2. root \in Steps
  BY <1>1, LocalizedIsRoot
<1>3. S \subseteq Finding /\ S # {}
  BY FindingsType
<1>4. first \in S
  <2> HIDE DEF S
  <2> DEFINE f == [s \in S |-> s.order]
  <2>1. f \in [S -> Nat]
    BY <1>3 DEF Finding
  <2>2. \E s \in S : \A u \in S : f[s] <= f[u]
    <3> HIDE DEF f
    <3> QED
      BY <1>3, <2>1, LeastExists
  <2>3. \E s \in S : \A u \in S : s.order <= u.order
    BY <2>2
  <2> QED
    BY <2>3
<1>5. first.taxonomy \in ErrorTaxonomy
  <2> HIDE DEF first, S
  <2> QED
    BY <1>3, <1>4 DEF Finding
<1>6. RuleReport(t, accepted) = Invalid(t, accepted, wrong, root, first.taxonomy, FALSE)
  BY DEF RuleReport
<1> HIDE DEF wrong, root, first
<1> QED
  BY <1>1, <1>2, <1>5, <1>6, InvalidIsWellFormed

\* A reviewer names the kind of every error.
LEMMA ErroneousHasTaxonomy ==
  ASSUME NEW v \in Verdict, NEW s \in Erroneous(v)
  PROVE  s \in Steps /\ v.reviews[s].taxonomy \in ErrorTaxonomy
<1>1. s \in Steps /\ v.reviews[s] \in StepReview
  BY DEF Erroneous, Verdict
<1> QED
  BY <1>1 DEF Erroneous, StepReview

LEMMA ReviewReportIsWellFormed ==
  ASSUME NEW t \in Trace, NEW accepted \in BOOLEAN, NEW v \in Verdict,
         NEW unresolved \in BOOLEAN
  PROVE  /\ ReviewReport(t, accepted, v, unresolved) \in Report
         /\ ReportWellFormed(ReviewReport(t, accepted, v, unresolved))
<1>1. CASE Erroneous(v) = {}
  BY <1>1 DEF ReviewReport, Report, ReportWellFormed
<1>2. CASE Erroneous(v) # {}
  <2> DEFINE root == Localized(t, Erroneous(v))
  <2>1. Erroneous(v) \in SUBSET Steps
    BY DEF Erroneous
  <2>2. root \in Erroneous(v)
    BY <1>2, <2>1, LocalizedIsRoot
  <2>3. root \in Steps /\ v.reviews[root].taxonomy \in ErrorTaxonomy
    BY <2>2, ErroneousHasTaxonomy
  <2>4. ReviewReport(t, accepted, v, unresolved) =
          Invalid(t, accepted, Erroneous(v), root, v.reviews[root].taxonomy, unresolved)
    BY <1>2, <2>2 DEF ReviewReport
  <2> HIDE DEF root
  <2> QED
    BY <1>2, <2>1, <2>3, <2>4, InvalidIsWellFormed
<1> QED
  BY <1>1, <1>2

LEMMA FusedIsWellFormed ==
  ASSUME NEW t \in Trace, NEW accepted \in BOOLEAN, NEW v \in Verdict,
         NEW unresolved \in BOOLEAN
  PROVE  /\ Fused(t, accepted, v, unresolved) \in Report
         /\ ReportWellFormed(Fused(t, accepted, v, unresolved))
         /\ Fused(t, accepted, v, unresolved).final_correct = accepted
<1>1. Fused(t, accepted, v, unresolved) \in Report /\ ReportWellFormed(Fused(t, accepted, v, unresolved))
  BY RuleReportIsWellFormed, ReviewReportIsWellFormed DEF Fused
<1>2. Fused(t, accepted, v, unresolved).final_correct = accepted
  BY DEF Fused, RuleReport, ReviewReport, Invalid
<1> QED
  BY <1>1, <1>2

\* Verdicts of one signature blame the same steps for the same.
LEMMA SignatureDecides ==
  ASSUME NEW v \in Verdict, NEW w \in Verdict, Signature(v) = Signature(w)
  PROVE  /\ Erroneous(v) = Erroneous(w)
         /\ \A s \in Erroneous(v) : v.reviews[s].taxonomy = w.reviews[s].taxonomy
<1> DEFINE Flagged(x) == {<<s, x.reviews[s].status, x.reviews[s].taxonomy>> :
                            s \in {u \in Steps : x.reviews[u].material}}
<1>1. Flagged(v) = Flagged(w)
  BY DEF Signature
<1>2. ASSUME NEW x \in Verdict, NEW y \in Verdict, Flagged(x) = Flagged(y), NEW s \in Erroneous(x)
      PROVE  s \in Erroneous(y) /\ x.reviews[s].taxonomy = y.reviews[s].taxonomy
  <2>1. s \in Steps /\ x.reviews[s].material /\ x.reviews[s].status \in Wrong
    BY DEF Erroneous
  <2>2. <<s, x.reviews[s].status, x.reviews[s].taxonomy>> \in Flagged(y)
    BY <1>2, <2>1
  <2>3. PICK u \in Steps : /\ y.reviews[u].material
                           /\ <<s, x.reviews[s].status, x.reviews[s].taxonomy>> =
                              <<u, y.reviews[u].status, y.reviews[u].taxonomy>>
    BY <2>2
  <2> QED
    BY <2>1, <2>3 DEF Erroneous
<1> HIDE DEF Flagged
<1> QED
  BY <1>1, <1>2

-------------------------------------------------------------------------------
(* The specification                                                       *)

LEMMA SelectedType ==
  ASSUME TypeOK, BothReviewed
  PROVE  /\ \A r \in Primary : reviews[r] \in Verdict
         /\ reviews["arbiter"] # None => reviews["arbiter"] \in Verdict
         /\ Selected \in Verdict
         /\ Unresolved \in BOOLEAN
  BY FusionAssumption DEF TypeOK, BothReviewed, Reviewer, Primary, Selected, Unresolved

\* The state is well typed, and a report is the fusion of its trace, of both reviews
\* and, where they disagree, of the arbiter's: run_logic, run_adversarial, run_arbiter
\* and fuse cannot be combined in another way.
THEOREM FusedInvariant == Spec => []Invariant
<1>1. Init => Invariant
  BY DEF Init, Invariant, TypeOK, ReportIsFused, Reviewer
<1>2. Invariant /\ [Next]_vars => Invariant'
  <2> SUFFICES ASSUME Invariant, [Next]_vars PROVE Invariant'
    OBVIOUS
  <2>1. ASSUME NEW r \in Primary, Review(r) PROVE Invariant'
    <3>1. /\ r # "arbiter" /\ r \in Reviewer /\ reviews[r] = None
          /\ trace' = trace /\ report' = report
      BY <2>1 DEF Review, Returns, Primary
    <3>2. PICK v \in Verdicts : reviews' = [reviews EXCEPT ![r] = v]
      BY <2>1 DEF Review, Returns
    <3>3. reviews["arbiter"] = None /\ report = None
      BY <2>1, <3>1 DEF Invariant, ReportIsFused, BothReviewed
    <3>4. reviews'["arbiter"] = None
      BY <3>1, <3>2, <3>3 DEF Invariant, TypeOK, Reviewer
    <3> QED
      BY <3>1, <3>2, <3>3, <3>4 DEF Invariant, TypeOK, ReportIsFused
  <2>2. CASE Arbitrate
    <3>1. /\ BothReviewed /\ Disagreement /\ report = None
          /\ trace' = trace /\ report' = report
      BY <2>2 DEF Arbitrate, Returns
    <3>2. PICK v \in Verdicts : reviews' = [reviews EXCEPT !["arbiter"] = v]
      BY <2>2 DEF Arbitrate, Returns
    <3>3. \A r \in Primary : reviews'[r] = reviews[r]
      BY <3>2 DEF Invariant, TypeOK, Reviewer, Primary
    <3>4. BothReviewed' /\ Disagreement'
      BY <3>1, <3>3 DEF BothReviewed, Disagreement, Primary, Reviewer
    <3> QED
      BY <3>1, <3>2, <3>4 DEF Invariant, TypeOK, ReportIsFused
  <2>3. CASE Fuse
    <3>1. /\ BothReviewed /\ (Disagreement => reviews["arbiter"] # None)
          /\ trace' = trace /\ reviews' = reviews
      BY <2>3 DEF Fuse, Settled
    <3>2. PICK accepted \in BOOLEAN : report' = Fused(trace, accepted, Selected, Unresolved)
      BY <2>3 DEF Fuse
    <3>3. trace \in Trace /\ Selected \in Verdict /\ Unresolved \in BOOLEAN
      BY <3>1, SelectedType, FusionAssumption DEF Invariant, TypeOK
    <3>4. report' \in Report /\ report'.final_correct = accepted
      BY <3>2, <3>3, FusedIsWellFormed
    <3>5. BothReviewed' = BothReviewed /\ Disagreement' = Disagreement
          /\ Selected' = Selected /\ Unresolved' = Unresolved
      BY <3>1 DEF BothReviewed, Disagreement, Selected, Unresolved
    <3> QED
      BY <3>1, <3>2, <3>4, <3>5 DEF Invariant, TypeOK, ReportIsFused
  <2>4. CASE UNCHANGED vars
    BY <2>4 DEF vars, Invariant, TypeOK, ReportIsFused, BothReviewed, Disagreement, Selected, Unresolved
  <2> QED
    BY <2>1, <2>2, <2>3, <2>4 DEF Next
<1> QED
  BY <1>1, <1>2, PTL DEF Spec

\* What the invariant says of a report that is there.
LEMMA ReportOfFusion ==
  ASSUME Invariant, report # None
  PROVE  /\ trace \in Trace /\ report \in Report /\ report.final_correct \in BOOLEAN
         /\ BothReviewed /\ (Disagreement => reviews["arbiter"] # None)
         /\ report = Fused(trace, report.final_correct, Selected, Unresolved)
         /\ ReportWellFormed(report)
<1>1. /\ trace \in Trace /\ report \in Report /\ report.final_correct \in BOOLEAN
      /\ BothReviewed /\ (Disagreement => reviews["arbiter"] # None)
      /\ report = Fused(trace, report.final_correct, Selected, Unresolved)
  BY FusionAssumption DEF Invariant, TypeOK, ReportIsFused, Report
<1>2. Selected \in Verdict /\ Unresolved \in BOOLEAN
  BY <1>1, SelectedType DEF Invariant
<1> QED
  BY <1>1, <1>2, FusedIsWellFormed

\* The search of localize_root_error is right for every trace and set of candidates: it
\* finds one exactly if one is upstream, however long the trace, however often and in
\* whatever order its steps list what they depend on.
THEOREM SearchIsComplete == Spec => []SearchFindsUpstream
<1>1. Invariant => SearchFindsUpstream
  BY SearchIsUpstream, FusionAssumption DEF Invariant, TypeOK, SearchFindsUpstream
<1> QED
  BY <1>1, FusedInvariant, PTL

\* fuse never raises: there is always a root, a finding or a review at the root to take
\* the taxonomy from, and the score stays between 0 and 100, lower if the process is invalid.
THEOREM FusionIsTotal == Spec => []FusionNeverFails
<1>1. Invariant => FusionNeverFails
  BY ReportOfFusion DEF FusionNeverFails, ReportWellFormed
<1> QED
  BY <1>1, FusedInvariant, PTL

\* Without an arbiter it does not matter which of the reviewers fuse takes, as it takes
\* the first.
THEOREM AgreementSuffices == Spec => []AgreementIsEnough
<1>1. Invariant => AgreementIsEnough
  <2> SUFFICES ASSUME Invariant, report # None, reviews["arbiter"] = None
               PROVE  report = Fused(trace, report.final_correct,
                                     reviews["adversarial-reviewer"], FALSE)
    BY DEF AgreementIsEnough
  <2> DEFINE v == reviews["logic-reviewer"]
             w == reviews["adversarial-reviewer"]
             accepted == report.final_correct
  <2>1. Selected = v /\ Unresolved = FALSE
    BY DEF Selected, Unresolved
  <2>2. v \in Verdict /\ w \in Verdict
    BY ReportOfFusion, SelectedType DEF Invariant, Primary, Reviewer
  <2>3. Signature(v) = Signature(w)
    BY ReportOfFusion DEF Disagreement
  <2>4. /\ Erroneous(v) = Erroneous(w)
        /\ \A s \in Erroneous(v) : v.reviews[s].taxonomy = w.reviews[s].taxonomy
    BY <2>2, <2>3, SignatureDecides
  <2>5. ReviewReport(trace, accepted, v, FALSE) = ReviewReport(trace, accepted, w, FALSE)
    <3> HIDE DEF v, w, accepted
    <3> DEFINE root == Localized(trace, Erroneous(v))
    <3>1. /\ Erroneous(v) # {} => root \in Erroneous(v)
          /\ root \in Erroneous(v) => v.reviews[root].taxonomy = w.reviews[root].taxonomy
      BY <2>4, ReportOfFusion, LocalizedIsRoot DEF Erroneous
    <3>2. (IF root \in Erroneous(v) THEN v.reviews[root].taxonomy ELSE None)
            = (IF root \in Erroneous(w) THEN w.reviews[root].taxonomy ELSE None)
      BY <2>4, <3>1
    <3> QED
      BY <2>4, <3>2, Zenon DEF ReviewReport
  <2>6. report = Fused(trace, accepted, v, FALSE)
    BY <2>1, ReportOfFusion
  <2> QED
    BY <2>5, <2>6 DEF Fused
<1> QED
  BY <1>1, FusedInvariant, PTL

\* A verdict that stands without a person to look at it is the verdict of a reviewer:
\* an arbiter who agrees with neither leaves the conflict unresolved.
THEOREM UnattendedIsSupported == Spec => []UnattendedHasSupport
<1>1. Invariant => UnattendedHasSupport
  <2> SUFFICES ASSUME Invariant, report # None, Findings(trace) = {}, ~ report.needs_human_review
               PROVE  \E r \in Primary :
                        IF report.process_valid
                        THEN Erroneous(reviews[r]) = {} /\ report.final_correct
                        ELSE /\ report.first_error \in Erroneous(reviews[r])
                             /\ reviews[r].reviews[report.first_error].taxonomy = report.taxonomy
    BY DEF UnattendedHasSupport
  <2>1. /\ Selected \in Verdict /\ Unresolved \in BOOLEAN
        /\ \A r \in Primary : reviews[r] \in Verdict
    BY ReportOfFusion, SelectedType DEF Invariant
  <2>2. report = ReviewReport(trace, report.final_correct, Selected, Unresolved)
    BY ReportOfFusion DEF Fused
  <2>3. ~ Unresolved
    BY <2>1, <2>2 DEF ReviewReport, Invalid
  <2>4. PICK r \in Primary : Signature(Selected) = Signature(reviews[r])
    BY <2>3 DEF Selected, Unresolved, Primary, Reviewer
  <2>5. /\ Erroneous(Selected) = Erroneous(reviews[r])
        /\ \A s \in Erroneous(Selected) :
             Selected.reviews[s].taxonomy = reviews[r].reviews[s].taxonomy
    BY <2>1, <2>4, SignatureDecides
  <2>6. CASE Erroneous(Selected) = {}
    <3> DEFINE accepted == report.final_correct
    <3>1. accepted \in BOOLEAN
      BY ReportOfFusion
    <3>2. report = [final_correct |-> accepted, process_valid |-> TRUE, process_score |-> 100,
                    taxonomy |-> None, first_error |-> None,
                    needs_human_review |-> Unresolved \/ ~accepted]
      BY <2>2, <2>6, Zenon DEF ReviewReport
    <3> HIDE DEF accepted
    <3>3. report.process_valid /\ (report.needs_human_review <=> (Unresolved \/ ~accepted))
      BY <3>2
    <3>4. report.process_valid /\ report.final_correct
      BY <3>1, <3>3 DEF accepted
    <3> QED
      BY <2>5, <2>6, <3>4
  <2>7. CASE Erroneous(Selected) # {}
    <3> DEFINE root == Localized(trace, Erroneous(Selected))
    <3>1. root \in Erroneous(Selected)
      BY <2>7, ReportOfFusion, LocalizedIsRoot DEF Erroneous
    <3>2. /\ ~ report.process_valid /\ report.first_error = root
          /\ report.taxonomy = Selected.reviews[root].taxonomy
      BY <2>2, <2>7, <3>1 DEF ReviewReport, Invalid
    <3> QED
      BY <2>5, <3>1, <3>2
  <2> QED
    BY <2>6, <2>7
<1> QED
  BY <1>1, FusedInvariant, PTL

\* Since a rule reports every dependency that contradicts the numbers, a root named by
\* reviewers is their erroneous step with the least number.
THEOREM ReviewedRootIsLeast == Spec => []ReviewedRootIsFirst
<1>1. Invariant => ReviewedRootIsFirst
  <2> SUFFICES ASSUME Invariant, report # None, Findings(trace) = {}, ~ report.process_valid
               PROVE  \A s \in Erroneous(Selected) :
                        trace.number[report.first_error] <= trace.number[s]
    BY DEF ReviewedRootIsFirst
  <2>1. report = ReviewReport(trace, report.final_correct, Selected, Unresolved)
    BY ReportOfFusion DEF Fused
  <2>2. Erroneous(Selected) # {}
    BY <2>1 DEF ReviewReport
  <2>3. report.first_error = Localized(trace, Erroneous(Selected))
    BY <2>1, <2>2 DEF ReviewReport, Invalid
  <2>4. Erroneous(Selected) \in SUBSET Steps
    BY DEF Erroneous
  <2> QED
    BY <2>2, <2>3, <2>4, RootIsFirst, ReportOfFusion
<1> QED
  BY <1>1, FusedInvariant, PTL

-------------------------------------------------------------------------------
(* Selection                                                               *)

\* What an eligible entry says of its row, its review and its topic.
LEMMA EligibleIs ==
  ASSUME NEW converted, NEW split, NEW e \in Eligible(converted, split)
  PROVE  /\ e.split = split /\ e.review \in converted.reviews
         /\ e.topic \in TopicsOf(e.row, e.review)
         /\ \E i \in DOMAIN converted.rows :
              /\ e.row = converted.rows[i] /\ e.problem = converted.rows[i].problem
              /\ Passes(converted.rows, i, e.review)
BY DEF Eligible, EntriesOf

LEMMA TopicIs ==
  ASSUME NEW row \in RawRow, NEW review, NEW t \in TopicsOf(row, review)
  PROVE  /\ t \in row.topics /\ review.topic \in {t, NoTopic}
         /\ \A u \in TopicsOf(row, review) : u = t
<1>1. CASE Cardinality(row.topics) = 1
  <2>1. IsFiniteSet(row.topics)
    BY FS_Subset, SelectionAssumption DEF RawRow
  <2>2. PICK x : row.topics = {x}
    BY <1>1, <2>1, FS_Singleton
  <2> QED
    BY <1>1, <2>2 DEF TopicsOf
<1>2. CASE Cardinality(row.topics) # 1
  BY <1>2 DEF TopicsOf
<1> QED
  BY <1>1, <1>2

\* Of one conversion a problem is eligible once.
LEMMA EligibleOnce ==
  ASSUME NEW converted, NEW split, converted.rows \in Seq(RawRow),
         Fits(converted.rows, converted.reviews),
         NEW a \in Eligible(converted, split), NEW b \in Eligible(converted, split),
         a.problem = b.problem
  PROVE  a = b
<1>1. PICK i \in DOMAIN converted.rows :
        /\ a.row = converted.rows[i] /\ a.problem = converted.rows[i].problem
        /\ Passes(converted.rows, i, a.review)
  BY EligibleIs
<1>2. PICK j \in DOMAIN converted.rows :
        /\ b.row = converted.rows[j] /\ b.problem = converted.rows[j].problem
        /\ Passes(converted.rows, j, b.review)
  BY EligibleIs
<1>3. i \in Nat /\ j \in Nat /\ i >= 1 /\ j >= 1
  OBVIOUS
<1>4. i = j
  <2>1. converted.rows[i].problem = converted.rows[j].problem
    BY <1>1, <1>2
  <2>2. ~(i < j)
    <3>1. \A k \in 1..(j - 1) : converted.rows[k].problem # converted.rows[j].problem
      BY <1>2 DEF Passes
    <3> QED
      BY <1>3, <2>1, <3>1
  <2>3. ~(j < i)
    <3>1. \A k \in 1..(i - 1) : converted.rows[k].problem # converted.rows[i].problem
      BY <1>1 DEF Passes
    <3> QED
      BY <1>3, <2>1, <3>1
  <2> QED
    BY <1>3, <2>2, <2>3
<1>5. a.review = b.review
  <2>1. a.review \in converted.reviews /\ b.review \in converted.reviews
    BY EligibleIs
  <2>2. a.review.problem = a.problem /\ b.review.problem = b.problem
    BY <1>1, <1>2 DEF Passes
  <2>3. \A x, y \in converted.reviews : x.problem = y.problem => x = y
    BY DEF Fits
  <2> QED
    BY <2>1, <2>2, <2>3
<1>6. a.row = b.row /\ a.row \in RawRow
  BY <1>1, <1>2, <1>4
<1>7. a.topic = b.topic
  <2>1. a.topic \in TopicsOf(a.row, a.review) /\ b.topic \in TopicsOf(a.row, a.review)
    BY <1>5, <1>6, EligibleIs
  <2> QED
    BY <1>6, <2>1, TopicIs
<1>8. a.band = b.band /\ a.split = b.split
  <2>1. a.band = a.row.band /\ b.band = b.row.band
    BY DEF Eligible, EntriesOf
  <2> QED
    BY <1>6, <2>1, EligibleIs
<1> QED
  BY <1>1, <1>2, <1>5, <1>6, <1>7, <1>8 DEF Eligible, EntriesOf

\* A selection that replays is reviewed, whatever it was frozen from.
LEMMA ReplayedIsReviewed ==
  ASSUME NEW files \in [Splits -> Files], NEW sets \in [Splits -> ReviewSets],
         NEW listed \in [Splits -> UNION {Listings[f] : f \in Files}],
         Replays(files, sets, listed), chain' = [entries |-> selection.entries, rows |-> listed]
  PROVE  VerifiedIsReviewed'
<1> DEFINE reports == [s \in Splits |->
                        [source |-> files[s], rows |-> listed[s], reviews |-> sets[s]]]
           choice == {e.problem : e \in selection.entries}
<1>1. sets = Approved /\ MayFreeze(choice, reports, QuotaOf(reports)) /\ NoneTwice(reports)
      /\ \A s \in Splits : listed[s] \in Seq(RawRow) /\ Fits(listed[s], sets[s])
  BY SelectionAssumption DEF Replays, AreApproved
<1>2. selection.entries = {e \in Candidates(reports) : e.problem \in choice}
  <2>1. selection = FrozenOf(choice, reports, QuotaOf(reports))
    BY DEF Replays
  <2> HIDE DEF reports, choice
  <2> QED
    BY <2>1 DEF FrozenOf
<1>3. \A s \in Splits : reports[s].rows = listed[s] /\ reports[s].reviews = sets[s]
  OBVIOUS
<1>4. ASSUME NEW e \in selection.entries
      PROVE  e.split \in Splits /\ e \in Eligible(reports[e.split], e.split)
  <2>1. PICK s \in Splits : e \in Eligible(reports[s], s)
    BY <1>2 DEF Candidates
  <2> QED
    BY <2>1, EligibleIs
<1>5. /\ \A cell \in Cells : Cardinality(InCell(selection.entries, cell)) = PerCell
      /\ \A e \in selection.entries : e.review.bound
  BY <1>1, <1>2 DEF MayFreeze
<1>6. \A a, b \in selection.entries : a.problem = b.problem => a.split = b.split
  BY <1>1, <1>2 DEF NoneTwice
<1> HIDE DEF reports, choice
<1>7. ASSUME NEW a \in selection.entries, NEW b \in selection.entries, a.problem = b.problem
      PROVE  a = b
  <2>1. a.split = b.split
    BY <1>6, <1>7
  <2>2. reports[a.split].rows \in Seq(RawRow) /\ Fits(reports[a.split].rows, reports[a.split].reviews)
    BY <1>1, <1>3, <1>4
  <2> QED
    BY <1>4, <1>7, <2>1, <2>2, EligibleOnce
<1>8. ASSUME NEW e \in selection.entries
      PROVE  /\ e.row.sound /\ e.topic \in e.row.topics
             /\ \E review \in Approved[e.split] :
                  review.standard /\ review.row = e.row /\ review.topic \in {e.topic, NoTopic}
             /\ \A i \in DOMAIN listed[e.split] :
                  listed[e.split][i].problem = e.problem => listed[e.split][i] = e.row
  <2>1. e.split \in Splits /\ e \in Eligible(reports[e.split], e.split)
    BY <1>4
  <2>2. PICK i \in DOMAIN listed[e.split] :
          /\ e.row = listed[e.split][i] /\ e.problem = listed[e.split][i].problem
          /\ Passes(listed[e.split], i, e.review)
    BY <1>3, <2>1, EligibleIs
  <2>3. e.review \in Approved[e.split] /\ e.topic \in TopicsOf(e.row, e.review)
    BY <1>1, <1>3, <2>1, EligibleIs
  <2>4. e.row \in RawRow
    BY <1>1, <2>1, <2>2
  <2>5. e.topic \in e.row.topics /\ e.review.topic \in {e.topic, NoTopic}
    BY <2>3, <2>4, TopicIs
  <2>6. e.review.bound /\ e.review.problem = e.problem /\ e.review.standard /\ e.row.sound
    BY <1>5, <2>2 DEF Passes
  <2>7. \A k \in DOMAIN listed[e.split] :
          listed[e.split][k].problem = e.problem => listed[e.split][k] = e.review.row
    BY <1>1, <2>1, <2>3, <2>6 DEF Fits
  <2>8. e.row = e.review.row
    BY <2>2, <2>7
  <2> QED
    BY <2>3, <2>5, <2>6, <2>7, <2>8
<1> QED
  BY <1>5, <1>7, <1>8 DEF VerifiedIsReviewed

\* A verified selection has approved reviews of the rows its problems come from, and of
\* no others, in every cell, for any files, converters, reviews and number of problems.
THEOREM VerifiedSelections == SelectionSpec => []VerifiedIsReviewed
<1>1. SelectionInit => VerifiedIsReviewed
  BY DEF SelectionInit, VerifiedIsReviewed
<1>2. VerifiedIsReviewed /\ [SelectionNext]_selectionVars => VerifiedIsReviewed'
  <2> SUFFICES ASSUME VerifiedIsReviewed, [SelectionNext]_selectionVars
               PROVE  VerifiedIsReviewed'
    OBVIOUS
  <2>1. CASE VerifyChain
    BY <2>1, ReplayedIsReviewed DEF VerifyChain
  <2>2. CASE ~VerifyChain
    <3>1. chain' = chain
      BY <2>2 DEF SelectionNext, Convert, ConvertAgain, Count, FreezeSelection, selectionVars
    <3> QED
      BY <3>1 DEF VerifiedIsReviewed
  <2> QED
    BY <2>1, <2>2
<1> QED
  BY <1>1, <1>2, PTL DEF SelectionSpec

-------------------------------------------------------------------------------
(* Human review                                                            *)

\* What was decided, and what became of it, stays as it was when it was qualified.
ReviewInvariant ==
  /\ outcome \in {"open", "accepted", "refused"}
  /\ decisions = NoDecisions \/ decisions \in DecisionSets
  /\ outcome = "accepted" => Confirms /\ decisions # NoDecisions
  /\ outcome = "refused" => ~Confirms

LEMMA ReviewInvariantHolds == ReviewSpec => []ReviewInvariant
<1>1. ReviewInit => ReviewInvariant
  BY DEF ReviewInit, ReviewInvariant
<1>2. ReviewInvariant /\ [ReviewNext]_reviewVars => ReviewInvariant'
  <2> SUFFICES ASSUME ReviewInvariant, [ReviewNext]_reviewVars PROVE ReviewInvariant'
    OBVIOUS
  <2>1. CASE QualifyReview
    <3>1. Confirms' <=> Confirms
      BY <2>1 DEF QualifyReview, Confirms
    <3> QED
      BY <2>1, <3>1 DEF QualifyReview, ReviewInvariant
  <2>2. CASE PersistBatch \/ PersistDecisions \/ ReplayDecisions
    BY <2>2 DEF PersistBatch, PersistDecisions, ReplayDecisions, ReviewInvariant
  <2>3. CASE UNCHANGED reviewVars
    <3>1. Confirms' <=> Confirms
      BY <2>3 DEF reviewVars, Confirms
    <3> QED
      BY <2>3, <3>1 DEF reviewVars, ReviewInvariant
  <2> QED
    BY <2>1, <2>2, <2>3 DEF ReviewNext
<1> QED
  BY <1>1, <1>2, PTL DEF ReviewSpec

LEMMA TheIsOneOf ==
  ASSUME NEW d, NEW blind, On(d, blind) # {}
  PROVE  \E i \in On(d, blind) : The(d, blind) = d[i]
BY DEF The

\* In the canonical order the item of a place has one initial decision.
LEMMA CanonicalInitial ==
  ASSUME NEW ds \in Seq(Decision), NEW n \in Nat, BlindOf(ds) = [b \in 1..n |-> b]
  PROVE  /\ DOMAIN ds = 1..n
         /\ \A b \in 1..n : ds[b].blind = b /\ On(ds, b) = {b} /\ The(ds, b) = ds[b]
<1>1. DOMAIN ds = 1..n
  BY DEF BlindOf
<1>2. ASSUME NEW b \in 1..n PROVE ds[b].blind = b
  BY <1>1 DEF BlindOf
<1>3. ASSUME NEW b \in 1..n PROVE On(ds, b) = {b} /\ The(ds, b) = ds[b]
  <2>1. On(ds, b) = {b}
    BY <1>1, <1>2 DEF On
  <2> QED
    BY <2>1, TheIsOneOf
<1> QED
  BY <1>1, <1>2, <1>3

LEMMA AcceptedReviews == ReviewInvariant => AcceptedIsReviewed
<1>0. ReviewInvariant /\ outcome = "accepted" => replay.observations = Observed
  BY DEF ReviewInvariant, Confirms, Expected
<1> SUFFICES ASSUME ReviewInvariant, outcome = "accepted", NEW i \in DOMAIN Samples
             PROVE  LET about == About(Samples[i])
                        label == Gold[Samples[i]] IN
                    /\ replay.labels[i] = [sample |-> Samples[i], label |-> label]
                    /\ \E f \in about.first :
                         IF about.again = {} THEN decisions.initial[f].label = label
                         ELSE \E a \in about.again :
                                /\ decisions.delayed[a].label = label
                                /\ decisions.delayed[a].reviewer = decisions.initial[f].reviewer
                                /\ decisions.delayed[a].at > decisions.initial[f].at
  BY <1>0 DEF AcceptedIsReviewed
<1> DEFINE initial == decisions.initial
           delayed == decisions.delayed
           label == Gold[Samples[i]]
<1>1. /\ export = Samples /\ mapping = Samples
      /\ BlindOf(initial) = [b \in DOMAIN Samples |-> b]
      /\ SameReviewer(decisions)
      /\ replay = Expected(decisions, mapping, Observed) /\ replay.labels = GoldLabels
      /\ decisions \in DecisionSets
  BY DEF ReviewInvariant, Confirms
<1>2. initial \in Seq(Decision) /\ delayed \in Seq(Decision) /\ WellFormed(decisions)
  BY <1>1, HumanReviewAssumption DEF DecisionSets
<1>3. DOMAIN Samples = 1..Size /\ Size \in Nat
  BY HumanReviewAssumption DEF Size
<1>4. replay.labels[i] = [sample |-> Samples[i], label |-> label]
  BY <1>1 DEF GoldLabels
<1>5. /\ DOMAIN initial = 1..Size
      /\ \A b \in 1..Size : initial[b].blind = b /\ On(initial, b) = {b}
                              /\ The(initial, b) = initial[b]
  BY <1>1, <1>2, <1>3, CanonicalInitial
<1>6. \A k \in DOMAIN delayed : delayed[k].blind \in 1..Size
  <2> DEFINE ids == BlindOf(initial)
  <2>1. PICK draw \in Draws[Len(ids)] : BlindOf(delayed) = Drawn(ids, draw)
    BY <1>2 DEF WellFormed
  <2>2. ids = [b \in 1..Size |-> b] /\ Len(ids) = Size /\ Size \in 1..Size
    BY <1>1, <1>3, HumanReviewAssumption DEF Size
  <2>3. \A k \in DOMAIN draw : draw[k] \in 1..Size
    BY <2>1, <2>2, HumanReviewAssumption
  <2>4. DOMAIN delayed = DOMAIN draw /\ \A k \in DOMAIN draw : delayed[k].blind = ids[draw[k]]
    <3>1. DOMAIN BlindOf(delayed) = DOMAIN delayed
      BY DEF BlindOf
    <3>2. DOMAIN Drawn(ids, draw) = DOMAIN draw
      BY DEF Drawn
    <3>3. \A k \in DOMAIN delayed : BlindOf(delayed)[k] = delayed[k].blind
      BY DEF BlindOf
    <3>4. \A k \in DOMAIN draw : Drawn(ids, draw)[k] = ids[draw[k]]
      BY DEF Drawn
    <3> QED
      BY <2>1, <3>1, <3>2, <3>3, <3>4
  <2> QED
    BY <2>2, <2>3, <2>4
<1>7. i \in About(Samples[i]).first /\ About(Samples[i]).again = On(delayed, i)
  <2>1. About(Samples[i]).first = {k \in DOMAIN initial : Samples[initial[k].blind] = Samples[i]}
    BY <1>1 DEF About
  <2>2. About(Samples[i]).again = {k \in DOMAIN delayed : Samples[delayed[k].blind] = Samples[i]}
    BY <1>1 DEF About
  <2>3. \A b \in 1..Size : Samples[b] = Samples[i] => b = i
    BY <1>3, HumanReviewAssumption DEF Distinct
  <2>4. i \in About(Samples[i]).first
    BY <1>3, <1>5, <2>1
  <2>5. \A k \in DOMAIN delayed : Samples[delayed[k].blind] = Samples[i] <=> delayed[k].blind = i
    BY <1>3, <1>6, <2>3
  <2> QED
    BY <2>2, <2>4, <2>5 DEF On
<1>8. /\ On(delayed, i) = {} => The(initial, i).label = label
      /\ On(delayed, i) # {} => The(delayed, i).label = label
  <2>1. ExpectedLabels(decisions, mapping) = GoldLabels
    BY <1>1 DEF Expected
  <2>2. ExpectedLabels(decisions, mapping)[i].label
          = (IF On(delayed, i) = {} THEN The(initial, i) ELSE The(delayed, i)).label
    BY <1>1 DEF ExpectedLabels
  <2>3. GoldLabels[i].label = label
    BY DEF GoldLabels
  <2> QED
    BY <2>1, <2>2, <2>3
<1>9. CASE On(delayed, i) = {}
  BY <1>3, <1>4, <1>5, <1>7, <1>8, <1>9
<1>10. CASE On(delayed, i) # {}
  <2>1. PICK a \in On(delayed, i) : The(delayed, i) = delayed[a]
    BY <1>10, TheIsOneOf
  <2>2. a \in DOMAIN delayed /\ delayed[a].blind = i
    BY DEF On
  <2>3. delayed[a].at > The(initial, i).at
    BY <1>2, <2>2 DEF WellFormed
  <2>4. delayed[a].reviewer = The(initial, i).reviewer
    BY <1>1, <2>2 DEF SameReviewer
  <2> QED
    BY <1>3, <1>4, <1>5, <1>7, <1>8, <1>10, <2>1, <2>3, <2>4
<1> QED
  BY <1>9, <1>10

LEMMA AgreeingReplays == ReviewInvariant => ReplaysAgree
<1> SUFFICES ASSUME ReviewInvariant, outcome = "refused",
                    export = Samples, mapping = Samples,
                    BlindOf(decisions.initial) = [b \in DOMAIN mapping |-> b],
                    SameReviewer(decisions), replay = Replayed(decisions, mapping, Observed),
                    \A b \in DOMAIN mapping : Standing(decisions, b).label = Gold[mapping[b]]
             PROVE  FALSE
  BY DEF ReplaysAgree
<1> DEFINE initial == decisions.initial
<1>1. DOMAIN Samples = 1..Size /\ Size \in Nat /\ Size # 0
  BY HumanReviewAssumption DEF Size
<1>2. initial \in Seq(Decision)
  <2>1. initial = << >> => FALSE
    BY <1>1 DEF BlindOf
  <2>2. decisions \in DecisionSets
    BY <2>1 DEF ReviewInvariant, NoDecisions
  <2> QED
    BY <2>2, HumanReviewAssumption DEF DecisionSets
<1>3. DOMAIN initial = 1..Size /\ \A b \in 1..Size : initial[b].blind = b
  BY <1>1, <1>2, CanonicalInitial
<1>4. Replayed(decisions, mapping, Observed).labels
        = [b \in 1..Size |-> [sample |-> Samples[b], label |-> Standing(decisions, b).label]]
  BY <1>3 DEF Replayed
<1>5. ExpectedLabels(decisions, mapping)
        = [b \in 1..Size |-> [sample |-> Samples[b], label |-> Standing(decisions, b).label]]
  BY <1>1 DEF ExpectedLabels, Standing
<1>6. GoldLabels = [b \in 1..Size |-> [sample |-> Samples[b], label |-> Gold[Samples[b]]]]
  BY <1>1 DEF GoldLabels
<1>7. replay.labels = GoldLabels
  BY <1>1, <1>4, <1>6
<1>8. replay = Expected(decisions, mapping, Observed)
  BY <1>4, <1>5 DEF Replayed, Expected
<1> QED
  BY <1>7, <1>8 DEF Confirms, ReviewInvariant

\* An accepted review gives every sample the label last decided about the item that stood
\* for it, by the reviewer who decided first, for any corpus, reviewers and draws.
THEOREM AcceptedReviewsAreWhole == ReviewSpec => []AcceptedIsReviewed
BY ReviewInvariantHolds, AcceptedReviews, PTL

\* The qualification computes the labels that the replay computed.
THEOREM ReplaysAreComputedAlike == ReviewSpec => []ReplaysAgree
BY ReviewInvariantHolds, AgreeingReplays, PTL

-------------------------------------------------------------------------------
(* Judging                                                                 *)

\* The first test with a property: 0 when there is none.
LEMMA FirstIs ==
  ASSUME NEW S \in SUBSET (Nat \ {0})
  PROVE  /\ S = {} => First(S) = 0
         /\ S # {} => First(S) \in S /\ \A j \in S : First(S) <= j
<1>1. CASE S = {}
  BY <1>1 DEF First
<1>2. CASE S # {}
  <2>1. PICK x \in S : \A y \in S : ~ (<<y, x>> \in OpToRel(<, Nat))
    BY <1>2, NatLessThanWellFounded, WFMin
  <2>2. \A y \in S : x <= y
    <3> SUFFICES ASSUME NEW y \in S PROVE x <= y
      OBVIOUS
    <3>1. x \in Nat /\ y \in Nat
      OBVIOUS
    <3>2. ~(y < x)
      BY <2>1, <3>1 DEF OpToRel
    <3> QED
      BY <3>1, <3>2
  <2>3. \E i \in S : \A j \in S : i <= j
    BY <2>2
  <2> QED
    BY <1>2, <2>3 DEF First
<1> QED
  BY <1>1, <1>2

LEMMA StatusIs ==
  ASSUME NEW run \in Run
  PROVE  /\ TestStatus(run) \in SemanticFailure \cup {"ac", Infrastructure}
         /\ TestStatus(run) = Infrastructure <=> IsUnavailable(run)
         /\ TestStatus(run) = "ac" <=> ~Fails(run)
BY DEF TestStatus, Run, RunStatus, SandboxFails, Infrastructure, SemanticFailure, IsUnavailable,
       Fails

\* The evidence of a source that was compiled: unless a test could not be run, it
\* shows the input of the first failing test, if any, and no other.
LEMMA JudgedIs ==
  ASSUME NEW n \in Nat \ {0}, NEW runs \in [1..n -> Run]
  PROVE  LET e == Judged([tests |-> n, compile |-> "ac", runs |-> runs])
             k == First({i \in 1..n : TestStatus(runs[i]) # "ac"}) IN
         /\ e.compile = "ac" /\ DOMAIN e.tests = 1..n /\ Len(e.tests) = n
         /\ \A i \in 1..n : e.tests[i].status = TestStatus(runs[i])
         /\ IF \E i \in 1..n : IsUnavailable(runs[i])
            THEN /\ e.verdict = Infrastructure /\ e.counterexample = NotShown
                 /\ \A i \in 1..n : e.tests[i].counterexample = NotShown
            ELSE /\ e.verdict = (IF k = 0 THEN "ac" ELSE TestStatus(runs[k]))
                 /\ e.counterexample = k
                 /\ \A i \in 1..n : e.tests[i].counterexample = IF i = k THEN k ELSE NotShown
<1> DEFINE w == [tests |-> n, compile |-> "ac", runs |-> runs]
           e == Judged(w)
           tests == [i \in 1..n |-> RunTest(runs, i)]
           failing == {i \in 1..n : TestStatus(runs[i]) # "ac"}
           missing == {i \in 1..n : TestStatus(runs[i]) = Infrastructure}
           k == First(failing)
           shown == Shown(tests)
<1>1. e = Aggregate(tests)
  BY DEF Judged, SandboxFails, Infrastructure
<1>2. \A i \in 1..n :
        /\ tests[i].status = TestStatus(runs[i])
        /\ tests[i].counterexample =
             IF TestStatus(runs[i]) \in {"ac", Infrastructure} THEN NotShown ELSE i
        /\ tests[i] \in [status : {TestStatus(runs[i])}, counterexample : Nat]
  BY DEF RunTest, NotShown
<1>3. Unavailable(tests) = First(missing) /\ FirstFailure(tests) = k
  <2>1. {i \in DOMAIN tests : tests[i].status = Infrastructure} = missing
    BY <1>2
  <2>2. {i \in DOMAIN tests : tests[i].status # "ac"} = failing
    BY <1>2
  <2> QED
    BY <2>1, <2>2 DEF Unavailable, FirstFailure
<1>4. /\ missing = {} <=> First(missing) = 0
      /\ missing # {} => First(missing) \in missing
      /\ failing = {} <=> k = 0
      /\ failing # {} => k \in failing
  <2>1. missing \in SUBSET (Nat \ {0}) /\ failing \in SUBSET (Nat \ {0})
    OBVIOUS
  <2>2. 0 \notin missing /\ 0 \notin failing
    OBVIOUS
  <2> HIDE DEF missing, failing
  <2> QED
    BY <2>1, <2>2, FirstIs
<1>5. missing = {} <=> ~ \E i \in 1..n : IsUnavailable(runs[i])
  BY StatusIs
<1> HIDE DEF tests, failing, missing, k
<1>6. DOMAIN tests = 1..n
  BY DEF tests
<1>7. /\ e.compile = "ac" /\ DOMAIN e.tests = 1..n
      /\ e.verdict = (IF Decisive(tests) = 0 THEN "ac" ELSE tests[Decisive(tests)].status)
      /\ e.counterexample = (IF shown = 0 THEN NotShown ELSE tests[shown].counterexample)
      /\ \A i \in 1..n : e.tests[i] = IF i = shown THEN tests[i]
                                      ELSE [tests[i] EXCEPT !.counterexample = NotShown]
  BY <1>1, <1>6 DEF Aggregate
<1> HIDE DEF e
<1>8. Len(e.tests) = n
  <2>1. e.tests = [i \in 1..n |-> IF i = shown THEN tests[i]
                                  ELSE [tests[i] EXCEPT !.counterexample = NotShown]]
    BY <1>1, <1>6 DEF Aggregate
  <2> QED
    BY <2>1
<1>9. \A i \in 1..n :
        /\ e.tests[i].status = TestStatus(runs[i])
        /\ e.tests[i].counterexample = IF i = shown THEN tests[i].counterexample ELSE NotShown
  <2> TAKE i \in 1..n
  <2>1. CASE i = shown
    BY <1>2, <1>7, <2>1
  <2>2. CASE i # shown
    <3>1. e.tests[i] = [tests[i] EXCEPT !.counterexample = NotShown]
      BY <1>7, <2>2
    <3>2. tests[i] \in [status : {TestStatus(runs[i])}, counterexample : Nat]
      BY <1>2
    <3> QED
      BY <2>2, <3>1, <3>2
  <2> QED
    BY <2>1, <2>2
<1>10. CASE missing # {}
  <2>1. shown = NotShown /\ Decisive(tests) \in missing
    BY <1>3, <1>4, <1>10 DEF Shown, Decisive
  <2>2. e.verdict = Infrastructure
    <3>1. Decisive(tests) \in 1..n /\ TestStatus(runs[Decisive(tests)]) = Infrastructure
      BY <2>1 DEF missing
    <3> QED
      BY <1>2, <1>7, <3>1
  <2>3. e.counterexample = NotShown /\ \A i \in 1..n : e.tests[i].counterexample = NotShown
    BY <1>7, <1>9, <2>1 DEF NotShown
  <2> QED
    BY <1>5, <1>7, <1>8, <1>9, <1>10, <2>2, <2>3 DEF e, k, failing
<1>11. CASE missing = {}
  <2>1. shown = k /\ Decisive(tests) = k
    BY <1>3, <1>4, <1>11 DEF Shown, Decisive
  <2>2. k # 0 => k \in 1..n /\ tests[k].counterexample = k /\ tests[k].status = TestStatus(runs[k])
    <3>1. k # 0 => k \in 1..n /\ TestStatus(runs[k]) # "ac"
      BY <1>4 DEF failing
    <3>2. \A i \in 1..n : TestStatus(runs[i]) # Infrastructure
      BY <1>11 DEF missing
    <3> QED
      BY <1>2, <3>1, <3>2
  <2>3. e.verdict = (IF k = 0 THEN "ac" ELSE TestStatus(runs[k])) /\ e.counterexample = k
    BY <1>7, <2>1, <2>2 DEF NotShown
  <2>4. \A i \in 1..n : e.tests[i].counterexample = IF i = k THEN k ELSE NotShown
    BY <1>9, <2>1, <2>2
  <2> QED
    BY <1>5, <1>7, <1>8, <1>9, <1>11, <2>3, <2>4 DEF e, k, failing
<1> QED
  BY <1>10, <1>11

\* The checks of the evidence accept what the judge produces of a source exactly when
\* its runs are as its kind says.
WorldsAt(i) == WorldsOf([record |-> Pinned[Corpus[i].problem]])

LEMMA WorldIs ==
  ASSUME NEW i \in Places, NEW w \in WorldsAt(i)
  PROVE  LET n == Tests[Pinned[Corpus[i].problem]] IN
         /\ n \in Nat /\ Corpus[i].kind \in Kind
         /\ w.tests = n /\ w.compile \in CompileStatus
         /\ w.compile # "ac" => w.runs = << >>
         /\ w.compile = "ac" => w.runs \in [1..n -> Run]
         /\ w = [tests |-> w.tests, compile |-> w.compile, runs |-> w.runs]
<1>1. Tests[Pinned[Corpus[i].problem]] \in Nat /\ Corpus[i].kind \in Kind /\ Runs \subseteq Run
  <2> DEFINE S == [id : STRING, kind : Kind, problem : DOMAIN Pinned, source : STRING]
  <2>1. Corpus[i] \in S
    <3>1. Corpus \in Seq(S)
      BY FormalJudgingAssumption, Zenon
    <3> HIDE DEF S
    <3> QED
      BY <3>1 DEF Places
  <2>2. Corpus[i].problem \in DOMAIN Pinned /\ Corpus[i].kind \in Kind
    BY <2>1
  <2> QED
    BY <2>2, FormalJudgingAssumption
<1> QED
  BY <1>1 DEF WorldsAt, WorldsOf, CompileStatus

LEMMA SupportIsTruth ==
  ASSUME NEW i \in Places, NEW w \in WorldsAt(i), NEW case,
         case.record = Pinned[Corpus[i].problem], case.kind = Corpus[i].kind
  PROVE  TestsAgree(case, Judged(w)) /\ BehavesAs(case, Judged(w)) <=> Holds(Corpus[i], w)
<1> DEFINE n == Tests[Pinned[Corpus[i].problem]]
           e == Judged(w)
           k == First({t \in 1..n : TestStatus(w.runs[t]) # "ac"})
<1>0. /\ n \in Nat /\ Corpus[i].kind \in Kind /\ w.tests = n /\ w.compile \in CompileStatus
      /\ w.compile = "ac" => w.runs \in [1..n -> Run]
      /\ w = [tests |-> w.tests, compile |-> w.compile, runs |-> w.runs]
  BY WorldIs
<1>1. CASE w.compile # "ac"
  <2>1. e.compile # "ac" \/ e.verdict = Infrastructure
    BY <1>0, <1>1 DEF Judged, Without, CompileStatus, Infrastructure, SandboxFails
  <2> QED
    BY <1>1, <2>1 DEF BehavesAs, Holds
<1>2. CASE n = 0
  <2>1. e.verdict = Infrastructure
    BY <1>0, <1>2 DEF Judged, Without
  <2>2. w.compile = "ac" => w.runs = << >>
    BY <1>0, <1>2
  <2> QED
    BY <2>1, <2>2 DEF BehavesAs, Holds
<1>3. CASE w.compile = "ac" /\ n # 0
  <2>1. n \in Nat \ {0} /\ w.runs \in [1..n -> Run] /\ w.runs # << >> /\ Len(w.runs) = n
        /\ DOMAIN w.runs = 1..n
    BY <1>0, <1>3
  <2>2. w = [tests |-> n, compile |-> "ac", runs |-> w.runs]
    BY <1>0, <1>3
  <2>3. /\ e.compile = "ac" /\ DOMAIN e.tests = 1..n /\ Len(e.tests) = n
        /\ \A t \in 1..n : e.tests[t].status = TestStatus(w.runs[t])
        /\ IF \E t \in 1..n : IsUnavailable(w.runs[t])
           THEN /\ e.verdict = Infrastructure /\ e.counterexample = NotShown
                /\ \A t \in 1..n : e.tests[t].counterexample = NotShown
           ELSE /\ e.verdict = (IF k = 0 THEN "ac" ELSE TestStatus(w.runs[k]))
                /\ e.counterexample = k
                /\ \A t \in 1..n : e.tests[t].counterexample = IF t = k THEN k ELSE NotShown
    <3> HIDE DEF n
    <3> DEFINE f == Judged([tests |-> n, compile |-> "ac", runs |-> w.runs])
    <3>1. /\ f.compile = "ac" /\ DOMAIN f.tests = 1..n /\ Len(f.tests) = n
          /\ \A t \in 1..n : f.tests[t].status = TestStatus(w.runs[t])
          /\ IF \E t \in 1..n : IsUnavailable(w.runs[t])
             THEN /\ f.verdict = Infrastructure /\ f.counterexample = NotShown
                  /\ \A t \in 1..n : f.tests[t].counterexample = NotShown
             ELSE /\ f.verdict = (IF k = 0 THEN "ac" ELSE TestStatus(w.runs[k]))
                  /\ f.counterexample = k
                  /\ \A t \in 1..n : f.tests[t].counterexample = IF t = k THEN k ELSE NotShown
      BY <2>1, JudgedIs
    <3>2. f = e
      BY <2>2
    <3> HIDE DEF f, e
    <3> QED
      BY <3>1, <3>2
  <2>4. \A t \in 1..n :
          /\ TestStatus(w.runs[t]) \in SemanticFailure \cup {"ac", Infrastructure}
          /\ TestStatus(w.runs[t]) = Infrastructure <=> IsUnavailable(w.runs[t])
          /\ TestStatus(w.runs[t]) = "ac" <=> ~Fails(w.runs[t])
    BY <2>1, StatusIs
  <2>5. CASE \E t \in 1..n : IsUnavailable(w.runs[t])
    BY <2>1, <2>3, <2>5 DEF BehavesAs, Holds
  <2>6. CASE ~ \E t \in 1..n : IsUnavailable(w.runs[t])
    <3> DEFINE failing == {t \in 1..n : TestStatus(w.runs[t]) # "ac"}
    <3>1. /\ failing = {} <=> k = 0
          /\ failing # {} => k \in failing
      <4>1. failing \in SUBSET (Nat \ {0}) /\ 0 \notin failing /\ k = First(failing)
        OBVIOUS
      <4> HIDE DEF failing, k
      <4> QED
        BY <4>1, FirstIs
    <3>2. FirstFailure(e.tests) = k
      <4>1. {t \in DOMAIN e.tests : e.tests[t].status # "ac"} = failing
        BY <2>3
      <4> QED
        BY <4>1 DEF FirstFailure
    <3> HIDE DEF k, e, n
    <3>3. TestsAgree(case, e)
      <4>1. k # 0 => k \in 1..n
        BY <3>1
      <4>2. \A t \in 1..n : e.tests[t].status \notin {"not_run", Infrastructure}
        BY <2>3, <2>4, <2>6 DEF SemanticFailure, Infrastructure
      <4>3. e.verdict = (IF k = 0 THEN "ac" ELSE e.tests[k].status) /\ e.counterexample = k
        BY <2>3, <2>6, <4>1
      <4>4. /\ k # 0 => e.tests[k].counterexample = k
            /\ \A t \in 1..n : t # k => e.tests[t].counterexample = NotShown
        BY <2>3, <2>6, <4>1
      <4>5. Len(e.tests) = Tests[case.record] /\ e.tests # << >>
        BY <2>1, <2>3 DEF n
      <4> QED
        BY <2>3, <3>2, <4>2, <4>3, <4>4, <4>5 DEF TestsAgree
    <3>4. (k = 0 <=> \A t \in 1..n : ~Fails(w.runs[t]))
      BY <2>4, <3>1
    <3>5. /\ k = 0 => e.verdict = "ac"
          /\ k # 0 => e.verdict \in SemanticFailure
      BY <2>3, <2>4, <2>6, <3>1
    <3>6. BehavesAs(case, e) <=> (IF Corpus[i].kind = "mutant" THEN k # 0 ELSE k = 0)
      BY <1>0, <2>3, <3>5 DEF BehavesAs, Kind, SemanticFailure, Infrastructure
    <3>7. Holds(Corpus[i], w) <=> (IF Corpus[i].kind = "mutant" THEN k # 0 ELSE k = 0)
      BY <1>3, <2>1, <2>6, <3>4 DEF Holds, n
    <3> QED
      BY <3>3, <3>6, <3>7 DEF e
  <2> QED
    BY <2>5, <2>6
<1> QED
  BY <1>1, <1>2, <1>3

LEMMA DifferentialAgrees ==
  ASSUME NEW i \in Places, NEW w \in WorldsAt(i), Holds(Corpus[i], w)
  PROVE  Corpus[i].kind # "mutant" <=> Differential(w.runs) = "passed"
BY DEF Holds, Differential, Fails, IsUnavailable

\* What was judged belongs to the corpus, and a verdict about it to what was judged.
JudgingInvariant ==
  /\ Len(worlds) \in Nat /\ DOMAIN worlds = 1..Len(worlds) /\ Len(worlds) <= Len(Corpus)
  /\ \A i \in DOMAIN worlds : worlds[i] \in WorldsAt(i)
  /\ verdict = "judging" => Chain(handed)
  /\ verdict \in {"eligible", "replayed"} =>
       /\ DOMAIN worlds = Places
       /\ \A i \in Places : Holds(Corpus[i], worlds[i])
       /\ manifest.evidence = Evidence
  /\ verdict = "replayed" => raw = Evidence
  /\ verdict = "refused" /\ Chain(handed) => \E i \in Places : ~Holds(Corpus[i], worlds[i])

LEMMA PlacesAre == Len(Corpus) \in Nat /\ Places = 1..Len(Corpus)
<1> DEFINE S == [id : STRING, kind : Kind, problem : DOMAIN Pinned, source : STRING]
<1>1. Corpus \in Seq(S)
  BY FormalJudgingAssumption, Zenon
<1> HIDE DEF S
<1> QED
  BY <1>1 DEF Places

LEMMA ChainIs ==
  ASSUME NEW h, Chain(h)
  PROVE  /\ Len(h.cases) = Len(Corpus)
         /\ \A i \in Places : /\ h.cases[i].record = Pinned[Corpus[i].problem]
                              /\ h.cases[i].kind = Corpus[i].kind
BY DEF Chain

LEMMA HandedIs ==
  ASSUME NEW h \in Handings, Chain(h)
  PROVE  DOMAIN h.cases = Places
<1> DEFINE C == [id : STRING, kind : Kind, problem : STRING, record : DOMAIN Tests,
                 source : STRING]
<1>1. h.cases \in Seq(C)
  BY FormalJudgingAssumption, Zenon
<1> HIDE DEF C
<1>2. DOMAIN h.cases = 1..Len(h.cases)
  BY <1>1
<1> QED
  BY <1>2, ChainIs, PlacesAre

\* The judging of the next case.
LEMMA JudgeKeeps ==
  ASSUME JudgingInvariant, JudgeCase
  PROVE  JudgingInvariant'
<1> DEFINE n == Len(worlds) + 1
<1>1. /\ verdict = "judging" /\ Chain(handed) /\ Len(worlds) \in Nat
      /\ DOMAIN worlds = 1..Len(worlds) /\ verdict' = verdict
      /\ handed' = handed
  BY DEF JudgingInvariant, JudgeCase
<1>2. PICK w \in WorldsOf(handed.cases[n]) : worlds' = Append(worlds, w)
  BY DEF JudgeCase
<1>3. n \in Places /\ n <= Len(Corpus)
  BY <1>1, ChainIs, PlacesAre DEF JudgeCase
<1>4. w \in WorldsAt(n)
  <2>1. handed.cases[n].record = Pinned[Corpus[n].problem]
    BY <1>1, <1>3, ChainIs
  <2> QED
    BY <1>2, <2>1 DEF WorldsAt, WorldsOf
<1>5. /\ Len(worlds') = n /\ DOMAIN worlds' = 1..n
      /\ \A i \in 1..Len(worlds) : worlds'[i] = worlds[i]
      /\ worlds'[n] = w
  BY <1>1, <1>2
<1>6. \A i \in DOMAIN worlds' : worlds'[i] \in WorldsAt(i)
  BY <1>1, <1>4, <1>5 DEF JudgingInvariant
<1>7. Chain(handed)'
  BY <1>1 DEF Chain
<1> QED
  BY <1>1, <1>3, <1>5, <1>6, <1>7 DEF JudgingInvariant, WorldsAt, WorldsOf

\* The manifest is written for what is true, and only for that.
LEMMA WriteKeeps ==
  ASSUME JudgingInvariant, WriteManifest, handed \in Handings
  PROVE  JudgingInvariant'
<1>1. /\ Chain(handed) /\ Len(worlds) = Len(handed.cases)
      /\ worlds' = worlds /\ handed' = handed
  BY DEF JudgingInvariant, WriteManifest
<1>2. DOMAIN worlds = Places /\ DOMAIN handed.cases = Places /\ DOMAIN Evidence = Places
  BY <1>1, ChainIs, HandedIs, PlacesAre DEF JudgingInvariant, Evidence
<1>3. Supports(handed.cases, Evidence) <=> \A i \in Places : Holds(Corpus[i], worlds[i])
  <2>1. ASSUME NEW i \in Places
        PROVE  TestsAgree(handed.cases[i], Evidence[i]) /\ BehavesAs(handed.cases[i], Evidence[i])
                 <=> Holds(Corpus[i], worlds[i])
    <3>1. Evidence[i] = Judged(worlds[i]) /\ worlds[i] \in WorldsAt(i)
      BY <1>2 DEF Evidence, JudgingInvariant
    <3> QED
      BY <1>1, <3>1, ChainIs, SupportIsTruth
  <2> QED
    BY <1>2, <2>1 DEF Supports
<1>4. Evidence' = Evidence /\ (Chain(handed)' <=> Chain(handed))
  BY <1>1 DEF Evidence, Chain
<1>5. \A i \in DOMAIN worlds' : worlds'[i] \in WorldsAt(i)
  BY <1>1 DEF JudgingInvariant
<1>6. CASE Supports(handed.cases, Evidence)
  BY <1>1, <1>2, <1>3, <1>4, <1>5, <1>6 DEF JudgingInvariant, WriteManifest
<1>7. CASE ~Supports(handed.cases, Evidence)
  BY <1>1, <1>2, <1>3, <1>4, <1>5, <1>7 DEF JudgingInvariant, WriteManifest
<1> QED
  BY <1>6, <1>7

LEMMA JudgingInvariantHolds == JudgingSpec => [](JudgingInvariant /\ handed \in Handings)
<1>1. JudgingInit => JudgingInvariant /\ handed \in Handings
  BY PlacesAre DEF JudgingInit, JudgingInvariant
<1>2. (JudgingInvariant /\ handed \in Handings) /\ [JudgingNext]_judgingVars =>
        (JudgingInvariant /\ handed \in Handings)'
  <2> SUFFICES ASSUME JudgingInvariant, handed \in Handings, [JudgingNext]_judgingVars
               PROVE  JudgingInvariant' /\ handed' \in Handings
    OBVIOUS
  <2>1. CASE JudgeCase
    BY <2>1, JudgeKeeps DEF JudgeCase
  <2>2. CASE WriteManifest
    BY <2>2, WriteKeeps DEF WriteManifest
  <2>3. CASE CheckChain
    <3>1. /\ worlds' = worlds /\ handed' = handed /\ (Chain(handed)' <=> Chain(handed))
          /\ verdict' = IF Chain(handed) THEN "judging" ELSE "refused"
      BY <2>3 DEF CheckChain, Chain
    <3>2. \A i \in DOMAIN worlds' : worlds'[i] \in WorldsAt(i)
      BY <3>1 DEF JudgingInvariant
    <3> QED
      BY <3>1, <3>2 DEF JudgingInvariant
  <2>4. CASE JudgeRaises
    <3>1. worlds' = worlds /\ handed' = handed /\ verdict' = "raised"
      BY <2>4 DEF JudgeRaises
    <3>2. \A i \in DOMAIN worlds' : worlds'[i] \in WorldsAt(i)
      BY <3>1 DEF JudgingInvariant
    <3> QED
      BY <3>1, <3>2 DEF JudgingInvariant
  <2>5. CASE Replay
    <3>1. /\ worlds' = worlds /\ manifest' = manifest /\ verdict = "eligible"
          /\ handed' \in Handings /\ verdict' \in {"replayed", "rejected"}
          /\ verdict' = "replayed" => manifest.evidence = raw'
      BY <2>5 DEF Replay, ReplayAccepts
    <3>2. Evidence' = Evidence
      BY <3>1 DEF Evidence
    <3>3. \A i \in DOMAIN worlds' : worlds'[i] \in WorldsAt(i)
      BY <3>1 DEF JudgingInvariant
    <3> QED
      BY <3>1, <3>2, <3>3 DEF JudgingInvariant
  <2>6. CASE UNCHANGED judgingVars
    <3>1. worlds' = worlds /\ handed' = handed /\ verdict' = verdict /\ raw' = raw
          /\ manifest' = manifest
      BY <2>6 DEF judgingVars
    <3>2. Evidence' = Evidence /\ (Chain(handed)' <=> Chain(handed))
      BY <3>1 DEF Evidence, Chain
    <3>3. \A i \in DOMAIN worlds' : worlds'[i] \in WorldsAt(i)
      BY <3>1 DEF JudgingInvariant
    <3> QED
      BY <3>1, <3>2, <3>3 DEF JudgingInvariant
  <2> QED
    BY <2>1, <2>2, <2>3, <2>4, <2>5, <2>6 DEF JudgingNext
<1> QED
  BY <1>1, <1>2, PTL DEF JudgingSpec

LEMMA InvariantIsEligible == JudgingInvariant => EligibleIsTrue
<1> SUFFICES ASSUME JudgingInvariant PROVE EligibleIsTrue
  OBVIOUS
<1>1. ASSUME verdict \in {"eligible", "replayed"}, NEW i \in Places
      PROVE  /\ DOMAIN worlds = Places /\ Holds(Corpus[i], worlds[i])
             /\ Corpus[i].kind # "mutant" <=> Differential(worlds[i].runs) = "passed"
  <2>1. worlds[i] \in WorldsAt(i) /\ Holds(Corpus[i], worlds[i]) /\ DOMAIN worlds = Places
    BY <1>1 DEF JudgingInvariant
  <2> QED
    BY <2>1, DifferentialAgrees
<1> QED
  BY <1>1 DEF EligibleIsTrue, JudgingInvariant

LEMMA InvariantShowsOne == JudgingInvariant => OneInputIsShown
<1> SUFFICES ASSUME JudgingInvariant, NEW i \in DOMAIN worlds
             PROVE  LET e == Judged(worlds[i])
                        shown == {t \in DOMAIN e.tests : e.tests[t].counterexample # NotShown} IN
                    IF e.verdict \in SemanticFailure
                    THEN /\ shown = {e.counterexample}
                         /\ e.tests[e.counterexample].status = e.verdict
                         /\ \A t \in 1..(e.counterexample - 1) : e.tests[t].status = "ac"
                    ELSE shown = {} /\ e.counterexample = NotShown
  BY DEF OneInputIsShown
<1> DEFINE w == worlds[i]
           n == Tests[Pinned[Corpus[i].problem]]
           e == Judged(w)
           k == First({t \in 1..n : TestStatus(w.runs[t]) # "ac"})
<1>0. i \in Places /\ w \in WorldsAt(i)
  BY PlacesAre DEF JudgingInvariant
<1> HIDE DEF w
<1>1. /\ n \in Nat /\ w.tests = n /\ w.compile \in CompileStatus
      /\ w.compile = "ac" => w.runs \in [1..n -> Run]
      /\ w = [tests |-> w.tests, compile |-> w.compile, runs |-> w.runs]
  BY <1>0, WorldIs
<1>2. CASE w.compile # "ac" \/ n = 0
  <2>1. /\ e.tests = << >> /\ e.counterexample = NotShown
        /\ e.verdict \in {Infrastructure, "compile_error"}
    BY <1>1, <1>2 DEF Judged, Without, CompileStatus, Infrastructure, SandboxFails
  <2> QED
    BY <2>1 DEF SemanticFailure, Infrastructure, w
<1>3. CASE w.compile = "ac" /\ n # 0
  <2>1. n \in Nat \ {0} /\ w.runs \in [1..n -> Run]
    BY <1>1, <1>3
  <2>2. e = Judged([tests |-> n, compile |-> "ac", runs |-> w.runs])
    BY <1>1, <1>3
  <2> HIDE DEF n
  <2>3. /\ DOMAIN e.tests = 1..n
        /\ \A t \in 1..n : e.tests[t].status = TestStatus(w.runs[t])
        /\ IF \E t \in 1..n : IsUnavailable(w.runs[t])
           THEN /\ e.verdict = Infrastructure /\ e.counterexample = NotShown
                /\ \A t \in 1..n : e.tests[t].counterexample = NotShown
           ELSE /\ e.verdict = (IF k = 0 THEN "ac" ELSE TestStatus(w.runs[k]))
                /\ e.counterexample = k
                /\ \A t \in 1..n : e.tests[t].counterexample = IF t = k THEN k ELSE NotShown
    <3> DEFINE f == Judged([tests |-> n, compile |-> "ac", runs |-> w.runs])
    <3>1. /\ DOMAIN f.tests = 1..n
          /\ \A t \in 1..n : f.tests[t].status = TestStatus(w.runs[t])
          /\ IF \E t \in 1..n : IsUnavailable(w.runs[t])
             THEN /\ f.verdict = Infrastructure /\ f.counterexample = NotShown
                  /\ \A t \in 1..n : f.tests[t].counterexample = NotShown
             ELSE /\ f.verdict = (IF k = 0 THEN "ac" ELSE TestStatus(w.runs[k]))
                  /\ f.counterexample = k
                  /\ \A t \in 1..n : f.tests[t].counterexample = IF t = k THEN k ELSE NotShown
      BY <2>1, JudgedIs
    <3>2. f = e
      BY <2>2
    <3> HIDE DEF f, e
    <3> QED
      BY <3>1, <3>2
  <2>4. /\ k = 0 \/ (k \in 1..n /\ TestStatus(w.runs[k]) # "ac")
        /\ k # 0 => \A t \in 1..n : TestStatus(w.runs[t]) # "ac" => k <= t
    <3> DEFINE failing == {t \in 1..n : TestStatus(w.runs[t]) # "ac"}
    <3>1. failing \in SUBSET (Nat \ {0}) /\ k = First(failing)
      BY <2>1
    <3>2. /\ failing = {} => k = 0
          /\ failing # {} => k \in failing /\ \A j \in failing : k <= j
      <4> HIDE DEF failing, k
      <4> QED
        BY <3>1, FirstIs
    <3> QED
      BY <3>2
  <2> HIDE DEF e, k
  <2>5. CASE \E t \in 1..n : IsUnavailable(w.runs[t])
    BY <2>3, <2>5 DEF SemanticFailure, Infrastructure, e, w
  <2>6. CASE ~ \E t \in 1..n : IsUnavailable(w.runs[t])
    <3>1. CASE k = 0
      BY <2>3, <2>6, <3>1 DEF SemanticFailure, NotShown, e, w
    <3>2. CASE k # 0
      <4>1. k \in 1..n /\ e.verdict = TestStatus(w.runs[k]) /\ e.verdict # "ac"
            /\ e.counterexample = k
        BY <2>3, <2>4, <2>6, <3>2
      <4>2. e.verdict \in SemanticFailure
        <5>1. /\ TestStatus(w.runs[k]) \in SemanticFailure \cup {"ac", Infrastructure}
              /\ TestStatus(w.runs[k]) # Infrastructure
          BY <2>1, <2>6, <4>1, StatusIs
        <5> QED
          BY <4>1, <5>1
      <4>3. {t \in DOMAIN e.tests : e.tests[t].counterexample # NotShown} = {k}
        BY <2>3, <2>6, <3>2, <4>1 DEF NotShown
      <4>4. e.tests[k].status = e.verdict
        BY <2>3, <4>1
      <4>5. \A t \in 1..(k - 1) : e.tests[t].status = "ac"
        BY <2>1, <2>3, <2>4, <4>1
      <4> QED
        BY <4>1, <4>2, <4>3, <4>4, <4>5 DEF e, w
    <3> QED
      BY <3>1, <3>2
  <2> QED
    BY <2>5, <2>6
<1> QED
  BY <1>2, <1>3

\* What the formal corpus calls judged is true of the runs, and what is true is judged,
\* for any corpus, cases, tests and behaviour of the programs.
THEOREM EligibleCorpora == JudgingSpec => []EligibleIsTrue
BY JudgingInvariantHolds, InvariantIsEligible, PTL

\* No evidence shows more than the one hidden input that decided its verdict.
THEOREM ShownInputs == JudgingSpec => []OneInputIsShown
BY JudgingInvariantHolds, InvariantShowsOne, PTL

-------------------------------------------------------------------------------
(* Metrics                                                                 *)

\* What is in one set when its image is in the other is as much in both.
LEMMA CountedAlike ==
  ASSUME NEW S, NEW T, IsFiniteSet(S), NEW f \in Bijection(S, T),
         NEW A \in SUBSET S, NEW B \in SUBSET T, \A x \in S : x \in A <=> f[x] \in B
  PROVE  Cardinality(A) = Cardinality(B)
<1> DEFINE g == [x \in A |-> f[x]]
<1>1. IsFiniteSet(A)
  BY FS_Subset
<1>2. /\ f \in [S -> T]
      /\ \A a, b \in S : f[a] = f[b] => a = b
      /\ \A t \in T : \E s \in S : f[s] = t
  BY DEF Bijection, Injection, Surjection, IsInjective
<1>3. g \in Bijection(A, B)
  <2>1. g \in [A -> B]
    BY <1>2
  <2>2. \A a, b \in A : g[a] = g[b] => a = b
    BY <1>2
  <2>3. \A t \in B : \E s \in A : g[s] = t
    BY <1>2
  <2> QED
    BY <2>1, <2>2, <2>3 DEF Bijection, Injection, Surjection, IsInjective
<1> QED
  <2>1. ExistsBijection(A, B)
    BY <1>3 DEF ExistsBijection
  <2> QED
    BY <1>1, <2>1, FS_Bijection

\* What a run hands over are observations that its checks accepted.
MetricsInvariant ==
  /\ rows \in Seq(Observation)
  /\ \A i \in DOMAIN rows : IsAccepted(rows[i])

LEMMA MetricsInvariantHolds == MetricsSpec => []MetricsInvariant
<1>1. MetricsInit => MetricsInvariant
  BY DEF MetricsInit, MetricsInvariant
<1>2. MetricsInvariant /\ [MetricsNext]_metricsVars => MetricsInvariant'
  <2> SUFFICES ASSUME MetricsInvariant, [MetricsNext]_metricsVars PROVE MetricsInvariant'
    OBVIOUS
  <2>1. CASE Observe
    <3>1. PICK r \in Rows : IsAccepted(r) /\ rows' = Append(rows, r)
      BY <2>1 DEF Observe
    <3>2. formal' = formal /\ r \in Observation
      BY <2>1, MetricsAssumption DEF Observe
    <3>3. rows' \in Seq(Observation) /\ DOMAIN rows' = 1..(Len(rows) + 1)
          /\ rows'[Len(rows) + 1] = r /\ \A i \in 1..Len(rows) : rows'[i] = rows[i]
      BY <3>1, <3>2 DEF MetricsInvariant
    <3>4. \A i \in DOMAIN rows' : i \in DOMAIN rows \/ i = Len(rows) + 1
      BY <3>3 DEF MetricsInvariant
    <3>5. \A i \in DOMAIN rows' : IsAccepted(rows'[i])
      BY <3>1, <3>3, <3>4 DEF MetricsInvariant
    <3> QED
      BY <3>2, <3>3, <3>5 DEF MetricsInvariant, IsAccepted
  <2>2. CASE UNCHANGED metricsVars
    BY <2>2 DEF metricsVars, MetricsInvariant, IsAccepted
  <2> QED
    BY <2>1, <2>2 DEF MetricsNext
<1> QED
  BY <1>1, <1>2, PTL DEF MetricsSpec

LEMMA CountedRows == MetricsInvariant => FormalCountsEverySample
<1> SUFFICES ASSUME MetricsInvariant, formal,
                    NEW name \in RatioMetric \ {"flagged_final_correct_process_issue_rate",
                                                "flagged_false_positive_rate"},
                    NEW k \in DOMAIN All
             PROVE  Includes(name, All[k], labels) <=> Meant(name, All[k])
  BY DEF FormalCountsEverySample, InMetric
<1> DEFINE r == rows[k]
<1>1. All[k] = [id |-> k, row |-> r] /\ r \in Observation /\ IsAccepted(r)
  BY DEF All, MetricsInvariant
<1>2. LabelsFit(r) /\ KindFits(r) /\ r.agreed # "unknown"
  BY <1>1 DEF IsAccepted
<1>3. r.kind \in {"natural", "gold", "controlled_wrong", "paradox"} /\ r.goldStep \in Nat
  BY <1>1 DEF Observation
<1>4. /\ r.kind = "natural" => r.goldFinal # "unknown" /\ r.goldProcess # "unknown"
      /\ r.kind = "gold" => r.goldFinal = "yes" /\ r.goldProcess = "yes"
      /\ r.kind = "controlled_wrong" => r.goldFinal = "no" /\ r.goldProcess = "no" /\ r.goldStep # 0
      /\ r.kind = "paradox" => r.goldFinal = "yes" /\ r.goldProcess = "no"
  BY <1>2, <1>3 DEF KindFits, LabelsFit
<1>5. All[k].row = r
  BY <1>1
<1> HIDE DEF r
<1>6. name \in RatioMetric
  OBVIOUS
<1> QED
  BY <1>2, <1>3, <1>4, <1>5 DEF Includes, Meant, RatioMetric, IsWrong

\* A pool is what the metric includes, for the rows have their places as names.
LEMMA PoolIs ==
  ASSUME NEW name
  PROVE  Pool(name, All, labels) = InMetric(name, All, labels)
<1>1. \A k \in DOMAIN All : All[k].id = k
  BY DEF All
<1>2. InMetric(name, All, labels) \subseteq DOMAIN All
  BY DEF InMetric
<1> QED
  BY <1>1, <1>2 DEF Pool, IdsAt

\* A row of a replicate is included, and counts, as the row it was drawn from.
LEMMA DrawnAlike ==
  ASSUME NEW name \in Metric, NEW s, NEW given, NEW sampled,
         DOMAIN sampled \subseteq DOMAIN given, \A i \in DOMAIN sampled : sampled[i] = given[i],
         s.id \in DOMAIN given => s.id \in DOMAIN sampled,
         Includes(name, s, given)
  PROVE  /\ Includes(name, s, sampled)
         /\ Succeeds(name, s, sampled) <=> Succeeds(name, s, given)
<1>1. CASE name \in {"flagged_final_correct_process_issue_rate", "flagged_false_positive_rate"}
  <2>1. s.id \in DOMAIN given
    BY <1>1 DEF Includes
  <2> QED
    BY <1>1, <2>1 DEF Includes, Succeeds
<1>2. CASE name \notin {"flagged_final_correct_process_issue_rate", "flagged_false_positive_rate"}
  <2>1. Includes(name, s, sampled) <=> Includes(name, s, given)
    BY <1>2 DEF Includes, Metric, RatioMetric
  <2>2. Succeeds(name, s, sampled) <=> Succeeds(name, s, given)
    BY <1>2 DEF Succeeds, Metric, RatioMetric
  <2> QED
    BY <2>1, <2>2
<1> QED
  BY <1>1, <1>2

\* F1 does not depend on the order of the rows.
LEMMA F1Alike ==
  ASSUME NEW n \in Nat, NEW places, NEW f \in Bijection(1..n, places), NEW sample, NEW whole,
         \A k \in 1..n : sample[k] = whole[f[k]], NEW t
  PROVE  F1(sample, 1..n, t) = F1(whole, places, t)
<1> DEFINE gold == {k \in 1..n : sample[k].row.goldTaxonomy = t}
           said == {k \in 1..n : sample[k].row.taxonomy = t}
           goldOf == {k \in places : whole[k].row.goldTaxonomy = t}
           saidOf == {k \in places : whole[k].row.taxonomy = t}
<1>1. IsFiniteSet(1..n) /\ f \in [1..n -> places]
  <2>1. 1 \in Int /\ n \in Int
    OBVIOUS
  <2>2. IsFiniteSet(1..n)
    BY <2>1, FS_Interval
  <2>3. f \in [1..n -> places]
    BY DEF Bijection, Injection
  <2> QED
    BY <2>2, <2>3
<1>2. \A k \in 1..n : /\ k \in gold <=> f[k] \in goldOf
                      /\ k \in said <=> f[k] \in saidOf
                      /\ k \in gold \cap said <=> f[k] \in goldOf \cap saidOf
  BY <1>1
<1>3. gold \in SUBSET (1..n) /\ said \in SUBSET (1..n) /\ gold \cap said \in SUBSET (1..n)
  OBVIOUS
<1>4. goldOf \in SUBSET places /\ saidOf \in SUBSET places
      /\ goldOf \cap saidOf \in SUBSET places
  OBVIOUS
<1>5. /\ Cardinality(gold) = Cardinality(goldOf)
      /\ Cardinality(said) = Cardinality(saidOf)
      /\ Cardinality(gold \cap said) = Cardinality(goldOf \cap saidOf)
  <2> DEFINE all == 1..n
  <2>1. IsFiniteSet(all) /\ f \in Bijection(all, places)
    BY <1>1
  <2>2. /\ \A k \in all : k \in gold <=> f[k] \in goldOf
        /\ \A k \in all : k \in said <=> f[k] \in saidOf
        /\ \A k \in all : k \in gold \cap said <=> f[k] \in goldOf \cap saidOf
    BY <1>2
  <2>3. gold \in SUBSET all /\ said \in SUBSET all /\ gold \cap said \in SUBSET all
    BY <1>3
  <2> HIDE DEF gold, said, goldOf, saidOf, all
  <2>4. Cardinality(gold) = Cardinality(goldOf)
    BY <1>4, <2>1, <2>2, <2>3, CountedAlike
  <2>5. Cardinality(said) = Cardinality(saidOf)
    BY <1>4, <2>1, <2>2, <2>3, CountedAlike
  <2> DEFINE both == gold \cap said
             bothOf == goldOf \cap saidOf
  <2>6. /\ \A k \in all : k \in both <=> f[k] \in bothOf
        /\ both \in SUBSET all /\ bothOf \in SUBSET places
    BY <1>4, <2>2, <2>3
  <2>7. Cardinality(both) = Cardinality(bothOf)
    <3> HIDE DEF both, bothOf
    <3> QED
      BY <2>1, <2>6, CountedAlike
  <2> QED
    BY <2>4, <2>5, <2>7
<1> QED
  BY <1>5 DEF F1

LEMMA ValidReplicates == MetricsInvariant => ReplicatesAreValid
<1> SUFFICES ASSUME MetricsInvariant, NEW name \in Metric,
                    NEW draw \in Drawings(Pool(name, All, labels))
             PROVE  LET sample == Replicate(All, draw)
                        given == Of(labels, IdsAt(All, Pool(name, All, labels)))
                        sampled == SampledLabels(sample, given) IN
                    /\ Computes(sample, sampled, FALSE)
                    /\ InMetric(name, sample, sampled) = DOMAIN sample
                    /\ (\A j, k \in DOMAIN draw : draw[j] = draw[k] => j = k) =>
                         Value(name, sample, sampled) = Value(name, All, labels)
  BY DEF ReplicatesAreValid
<1> DEFINE pool == InMetric(name, All, labels)
           n == Cardinality(pool)
           sample == Replicate(All, draw)
           given == Of(labels, IdsAt(All, Pool(name, All, labels)))
           sampled == SampledLabels(sample, given)
<1>1. pool \subseteq DOMAIN All /\ IsFiniteSet(pool) /\ n \in Nat
  <2>1. DOMAIN All = 1..Len(rows) /\ Len(rows) \in Nat
    BY DEF All, MetricsInvariant
  <2>2. IsFiniteSet(DOMAIN All)
    BY <2>1, FS_Interval
  <2>3. pool \subseteq DOMAIN All
    BY DEF InMetric
  <2> QED
    BY <2>2, <2>3, FS_Subset, FS_CardinalityType
<1>2. draw \in [1..n -> pool] /\ Pool(name, All, labels) = pool
  BY PoolIs DEF Drawings
<1>3. \A k \in DOMAIN All : All[k].id = k
  BY DEF All
<1>4. DOMAIN sample = 1..n /\ \A k \in 1..n : sample[k] = All[draw[k]] /\ sample[k].id = draw[k]
  BY <1>1, <1>2, <1>3 DEF Replicate
<1>5. Ids(sample) = {draw[k] : k \in 1..n}
  BY <1>4 DEF Ids, IdsAt
<1>6. given = Of(labels, pool)
  BY <1>1, <1>2, <1>3 DEF IdsAt
<1>7. DOMAIN sampled = DOMAIN labels \cap pool \cap Ids(sample)
      /\ \A i \in DOMAIN sampled : sampled[i] = labels[i]
  BY <1>6 DEF SampledLabels, Of
<1> HIDE DEF pool, n, sample, given, sampled
<1>8. ASSUME NEW k \in 1..n
      PROVE  /\ Includes(name, sample[k], sampled)
             /\ Succeeds(name, sample[k], sampled) <=> Succeeds(name, All[draw[k]], labels)
  <2>1. Includes(name, sample[k], labels)
    BY <1>2, <1>4 DEF pool, InMetric
  <2>2. sample[k].id \in DOMAIN labels => sample[k].id \in DOMAIN sampled
    BY <1>2, <1>4, <1>5, <1>7
  <2>3. DOMAIN sampled \subseteq DOMAIN labels
    BY <1>7
  <2>4. /\ Includes(name, sample[k], sampled)
        /\ Succeeds(name, sample[k], sampled) <=> Succeeds(name, sample[k], labels)
    BY <1>7, <2>1, <2>2, <2>3, DrawnAlike
  <2> QED
    BY <1>4, <2>4
<1>9. Computes(sample, sampled, FALSE)
  BY <1>7 DEF Computes
<1>10. InMetric(name, sample, sampled) = 1..n
  BY <1>4, <1>8 DEF InMetric
<1>11. ASSUME \A j, k \in DOMAIN draw : draw[j] = draw[k] => j = k
       PROVE  Value(name, sample, sampled) = Value(name, All, labels)
  <2>1. draw \in Bijection(1..n, pool)
    <3>1. draw \in Injection(1..n, pool)
      BY <1>2, <1>11 DEF Injection, IsInjective
    <3>2. IsFiniteSet(1..n) /\ Cardinality(1..n) = n
      BY <1>1, FS_Interval
    <3>3. draw \in Surjection(1..n, pool)
      BY <1>1, <3>1, <3>2, FS_Injection DEF n
    <3> QED
      BY <3>1, <3>3 DEF Bijection
  <2>2. Cardinality(1..n) = Cardinality(pool) /\ IsFiniteSet(1..n)
        /\ (1..n = {} <=> pool = {})
    <3>1. IsFiniteSet(1..n) /\ Cardinality(1..n) = n
      BY <1>1, FS_Interval
    <3>2. pool = {} <=> n = 0
      BY <1>1, FS_EmptySet DEF n
    <3>3. 1..n = {} <=> n = 0
      BY <1>1
    <3> QED
      BY <3>1, <3>2, <3>3 DEF n
  <2>3. \A t : F1(sample, 1..n, t) = F1(All, pool, t)
    BY <1>1, <1>4, <2>1, F1Alike
  <2>4. Cardinality({k \in 1..n : Succeeds(name, sample[k], sampled)})
          = Cardinality({k \in pool : Succeeds(name, All[k], labels)})
    <3> DEFINE A == {k \in 1..n : Succeeds(name, sample[k], sampled)}
               B == {k \in pool : Succeeds(name, All[k], labels)}
               all == 1..n
    <3>1. \A k \in all : k \in A <=> draw[k] \in B
      BY <1>2, <1>8
    <3>2. A \in SUBSET all /\ B \in SUBSET pool /\ IsFiniteSet(all)
          /\ draw \in Bijection(all, pool)
      BY <2>1, <2>2
    <3>3. Cardinality(A) = Cardinality(B)
      <4> HIDE DEF A, B, all
      <4> QED
        BY <3>1, <3>2, CountedAlike
    <3> QED
      BY <3>3
  <2>5. Value(name, sample, sampled)
          = CASE pool = {} -> NotEvaluable
              [] pool # {} /\ name = "taxonomy_macro_f1" -> [t \in Taxonomies |-> F1(All, pool, t)]
              [] OTHER -> <<Cardinality({k \in pool : Succeeds(name, All[k], labels)}),
                            Cardinality(pool)>>
    BY <1>10, <2>2, <2>3, <2>4 DEF Value
  <2> QED
    BY <2>5 DEF Value, pool
<1>12. DOMAIN sample = 1..n
  BY <1>4
<1> QED
  BY <1>9, <1>10, <1>11, <1>12 DEF sample, given, sampled

\* Every observation of a formal run counts in every metric of its kind, for any
\* observations, taxonomies and number of them.
THEOREM FormalMetrics == MetricsSpec => []FormalCountsEverySample
BY MetricsInvariantHolds, CountedRows, PTL

\* The bootstrap of any metric over any observations and labels computes every
\* replicate it may draw, over rows that all count.
THEOREM BootstrapReplicates == MetricsSpec => []ReplicatesAreValid
BY MetricsInvariantHolds, ValidReplicates, PTL

-------------------------------------------------------------------------------
(* The ledgers of a plan                                                   *)

\* A ledger laid along the first b operations.
Laid(b, l, at) ==
  /\ l \in Seq(LedgerEvent) /\ at \in [1..Len(l) -> 1..b]
  /\ Len(l) = 0 => b = 0
  /\ \A i \in 1..Len(l) :
       /\ l[i].sequence = i /\ l[i].benchmark = Benchmark
       /\ Names(l[i], Operations[at[i]])
       /\ l[i].retry <= MaxRetries
  /\ Len(l) # 0 => at[1] = 1 /\ Opens(l[1]) /\ at[Len(l)] = b
  /\ \A i \in 2..Len(l) :
       \/ at[i] = at[i - 1] /\ Follows(l[i - 1], l[i])
       \/ at[i] = at[i - 1] + 1 /\ Opens(l[i])

\* What the attempts at an operation look like: numbered after the others, the first
\* opens, and each follows the last.
AreAttempts(x, b, after) ==
  /\ x \in Seq(LedgerEvent) /\ Len(x) \in Nat \ {0}
  /\ \A i \in 1..Len(x) :
       /\ x[i].sequence = after + i /\ x[i].benchmark = Benchmark
       /\ Names(x[i], Operations[b])
       /\ x[i].retry <= MaxRetries
  /\ Opens(x[1])
  /\ \A i \in 2..Len(x) : Follows(x[i - 1], x[i])

LEMMA AttemptsFollow ==
  ASSUME NEW b \in 1..Len(Operations), NEW after \in Nat,
         NEW requests \in 1..MaxRetries, NEW repairs \in 0..MaxRetries,
         NEW x, x = Attempts(Operations[b], requests, repairs, after)
  PROVE  AreAttempts(x, b, after)
<1> DEFINE n == requests + repairs
           block == Operations[b]
           one(i) == [sequence |-> after + i, benchmark |-> Benchmark,
                      sample |-> block.sample, operation |-> block.operation,
                      phase |-> IF i <= requests THEN "request" ELSE "schema_repair",
                      retry |-> IF i <= requests THEN i ELSE i - requests]
<1>1. /\ MaxRetries \in Nat /\ requests \in Nat /\ repairs \in Nat /\ n \in Nat /\ n # 0
      /\ 1 <= requests /\ requests <= MaxRetries /\ repairs <= MaxRetries
  BY AttemptLedgerAssumption
<1>2. block.sample \in Texts /\ block.operation \in Texts /\ Benchmark \in Texts
  <2>1. block \in [sample : Texts, operation : Texts]
    BY AttemptLedgerAssumption, ElementOfSeq
  <2> HIDE DEF block
  <2> QED
    BY <2>1, AttemptLedgerAssumption
<1>3. x = [i \in 1..n |-> one(i)]
  BY DEF Attempts
<1>4. ASSUME NEW i \in 1..n PROVE one(i) \in LedgerEvent
  <2> DEFINE phase == IF i <= requests THEN "request" ELSE "schema_repair"
             retry == IF i <= requests THEN i ELSE i - requests
  <2>1. after + i \in Nat \ {0} /\ phase \in Texts /\ retry \in Nat \ {0}
    <3>1. phase \in Texts
      <4>1. "request" \in Texts /\ "schema_repair" \in Texts
        BY AttemptLedgerAssumption
      <4> QED
        BY <4>1, Zenon
    <3>2. i \in Nat \ {0}
      BY <1>1
    <3>3. i > requests => i - requests \in Nat \ {0}
      BY <1>1, <3>2
    <3>4. ~(i <= requests) => i > requests
      BY <1>1, <3>2
    <3>5. retry \in Nat \ {0}
      BY <3>2, <3>3, <3>4
    <3> QED
      BY <3>1, <3>2, <3>5
  <2> HIDE DEF phase, retry, block, n
  <2>2. [sequence |-> after + i, benchmark |-> Benchmark,
         sample |-> block.sample, operation |-> block.operation,
         phase |-> phase, retry |-> retry] \in LedgerEvent
    BY <1>2, <2>1 DEF LedgerEvent
  <2> QED
    BY <2>2 DEF phase, retry
<1>5. \A i \in 1..n :
        /\ one(i).sequence = after + i /\ one(i).benchmark = Benchmark
        /\ one(i).sample = block.sample /\ one(i).operation = block.operation
        /\ one(i).phase = IF i <= requests THEN "request" ELSE "schema_repair"
        /\ one(i).retry = IF i <= requests THEN i ELSE i - requests
  OBVIOUS
<1> HIDE DEF one, block, n
<1>6. x \in Seq(LedgerEvent) /\ Len(x) = n /\ \A i \in 1..n : x[i] = one(i)
  BY <1>1, <1>3, <1>4
<1>7. ASSUME NEW i \in 1..n PROVE one(i).retry <= MaxRetries
  <2>1. i \in Nat /\ i <= requests + repairs
    BY <1>1 DEF n
  <2>2. one(i).retry = IF i <= requests THEN i ELSE i - requests
    BY <1>5
  <2>3. CASE i <= requests
    BY <1>1, <2>1, <2>2, <2>3
  <2>4. CASE ~(i <= requests)
    BY <1>1, <2>1, <2>2, <2>4
  <2> QED
    BY <2>3, <2>4
<1>8. Opens(x[1])
  BY <1>1, <1>5, <1>6 DEF Opens, n
<1>9. ASSUME NEW i \in 2..n PROVE Follows(x[i - 1], x[i])
  <2>1. i \in 1..n /\ i - 1 \in 1..n
    BY <1>1
  <2>2. x[i].phase = (IF i <= requests THEN "request" ELSE "schema_repair")
        /\ x[i].retry = IF i <= requests THEN i ELSE i - requests
    BY <1>5, <1>6, <2>1
  <2>3. x[i - 1].phase = (IF i - 1 <= requests THEN "request" ELSE "schema_repair")
        /\ x[i - 1].retry = IF i - 1 <= requests THEN i - 1 ELSE (i - 1) - requests
    BY <1>5, <1>6, <2>1
  <2>4. i \in Int /\ 1 <= i - 1
    BY <1>1
  <2>5. CASE i <= requests
    BY <1>1, <2>2, <2>3, <2>4, <2>5 DEF Follows
  <2>6. CASE i = requests + 1
    BY <1>1, <2>2, <2>3, <2>4, <2>6 DEF Follows
  <2>7. CASE i > requests + 1
    BY <1>1, <2>2, <2>3, <2>4, <2>7 DEF Follows
  <2> QED
    BY <1>1, <2>4, <2>5, <2>6, <2>7
<1>10. \A i \in 1..n : /\ x[i].sequence = after + i /\ x[i].benchmark = Benchmark
                       /\ Names(x[i], block) /\ x[i].retry <= MaxRetries
  BY <1>5, <1>6, <1>7 DEF Names
<1> QED
  BY <1>1, <1>6, <1>8, <1>9, <1>10 DEF AreAttempts, block, n

\* A ledger laid along the operations before b is laid along b too when it goes on with
\* the attempts at b.
LEMMA LaidGrows ==
  ASSUME NEW b \in 1..Len(Operations), NEW l, NEW at, Laid(b - 1, l, at),
         NEW requests \in 1..MaxRetries, NEW repairs \in 0..MaxRetries,
         NEW x, x = Attempts(Operations[b], requests, repairs, Len(l))
  PROVE  \E way : Laid(b, l \o x, way)
<1> DEFINE m == Len(l)
           n == Len(x)
           e == l \o x
           way == [i \in 1..(m + n) |-> IF i <= m THEN at[i] ELSE b]
<1>1. l \in Seq(LedgerEvent) /\ m \in Nat /\ b \in Nat /\ b >= 1
  BY LenProperties, AttemptLedgerAssumption DEF Laid
<1>2. /\ x \in Seq(LedgerEvent) /\ n \in Nat \ {0}
      /\ \A i \in 1..n : /\ x[i].sequence = m + i /\ x[i].benchmark = Benchmark
                         /\ Names(x[i], Operations[b]) /\ x[i].retry <= MaxRetries
      /\ Opens(x[1])
      /\ \A i \in 2..n : Follows(x[i - 1], x[i])
  <2>1. AreAttempts(x, b, m)
    BY <1>1, AttemptsFollow
  <2> QED
    BY <2>1 DEF AreAttempts
<1>3. /\ e \in Seq(LedgerEvent) /\ Len(e) = m + n
      /\ \A i \in 1..m : e[i] = l[i]
      /\ \A i \in (m + 1)..(m + n) : e[i] = x[i - m]
  <2>1. /\ e \in Seq(LedgerEvent) /\ Len(e) = m + n
        /\ \A i \in 1..(m + n) : e[i] = IF i <= m THEN l[i] ELSE x[i - m]
    BY <1>1, <1>2, ConcatProperties
  <2> HIDE DEF e, m, n
  <2> QED
    BY <1>1, <1>2, <2>1
<1>4. (\A i \in 1..m : at[i] \in 1..b) /\ (m # 0 => at[m] = b - 1)
  BY <1>1 DEF Laid
<1>5. way \in [1..(m + n) -> 1..b]
  <2>1. \A i \in 1..(m + n) : way[i] \in 1..b
    BY <1>1, <1>2, <1>4
  <2> QED
    BY <2>1
<1>6. /\ \A i \in 1..m : way[i] = at[i]
      /\ \A i \in (m + 1)..(m + n) : way[i] = b
  BY <1>1, <1>2
<1>7. /\ \A i \in 1..m : /\ l[i].sequence = i /\ l[i].benchmark = Benchmark
                         /\ Names(l[i], Operations[at[i]]) /\ l[i].retry <= MaxRetries
      /\ m = 0 => b = 1
      /\ m # 0 => at[1] = 1 /\ Opens(l[1])
      /\ \A i \in 2..m : \/ at[i] = at[i - 1] /\ Follows(l[i - 1], l[i])
                         \/ at[i] = at[i - 1] + 1 /\ Opens(l[i])
  BY <1>1 DEF Laid
<1> HIDE DEF e, m, n, way
<1>8. ASSUME NEW i \in 1..(m + n)
      PROVE  /\ e[i].sequence = i /\ e[i].benchmark = Benchmark
             /\ Names(e[i], Operations[way[i]]) /\ e[i].retry <= MaxRetries
  <2>1. CASE i \in 1..m
    BY <1>3, <1>6, <1>7, <2>1
  <2>2. CASE i \in (m + 1)..(m + n)
    <3>0. m \in Nat /\ n \in Nat /\ i \in Int /\ m + 1 <= i /\ i <= m + n
      BY <1>1, <1>2, <2>2
    <3>1. i - m \in 1..n /\ m + (i - m) = i
      BY <3>0
    <3> QED
      BY <1>2, <1>3, <1>6, <2>2, <3>1
  <2> QED
    BY <1>1, <1>2, <2>1, <2>2
<1>9. way[1] = 1 /\ Opens(e[1]) /\ way[m + n] = b
  <2>1. m + n \in (m + 1)..(m + n)
    BY <1>1, <1>2
  <2>2. CASE m = 0
    <3>1. 1 \in (m + 1)..(m + n) /\ 1 - m = 1
      BY <1>2, <2>2
    <3> QED
      BY <1>2, <1>3, <1>6, <1>7, <2>1, <2>2, <3>1
  <2>3. CASE m # 0
    <3>1. 1 \in 1..m
      BY <1>1, <2>3
    <3> QED
      BY <1>3, <1>6, <1>7, <2>1, <2>3, <3>1
  <2> QED
    BY <2>2, <2>3
<1>10. ASSUME NEW i \in 2..(m + n)
       PROVE  \/ way[i] = way[i - 1] /\ Follows(e[i - 1], e[i])
              \/ way[i] = way[i - 1] + 1 /\ Opens(e[i])
  <2>1. CASE i \in 2..m
    <3>1. i \in 1..m /\ i - 1 \in 1..m
      BY <1>1, <2>1
    <3> QED
      BY <1>3, <1>6, <1>7, <2>1, <3>1
  <2>2. CASE i = m + 1
    <3>1. m \in 1..m /\ m # 0 /\ i - 1 = m /\ i \in (m + 1)..(m + n) /\ i - m = 1
      BY <1>1, <1>2, <2>2
    <3>2. way[i - 1] = b - 1 /\ way[i] = b /\ e[i] = x[1]
      BY <1>3, <1>4, <1>6, <3>1
    <3> QED
      BY <1>1, <1>2, <3>2
  <2>3. CASE i \in (m + 2)..(m + n)
    <3>0. m \in Nat /\ n \in Nat /\ i \in Int /\ m + 2 <= i /\ i <= m + n
      BY <1>1, <1>2, <2>3
    <3>1. i \in (m + 1)..(m + n) /\ i - 1 \in (m + 1)..(m + n)
      BY <3>0
    <3>2. i - m \in 2..n /\ (i - 1) - m = (i - m) - 1
      BY <3>0
    <3>3. way[i] = b /\ way[i - 1] = b /\ e[i] = x[i - m] /\ e[i - 1] = x[(i - m) - 1]
      BY <1>3, <1>6, <3>1, <3>2
    <3> QED
      BY <1>2, <3>2, <3>3
  <2> QED
    BY <1>1, <1>2, <2>1, <2>2, <2>3
<1>11. m + n # 0
  BY <1>1, <1>2
<1>12. Laid(b, e, way)
  BY <1>3, <1>5, <1>8, <1>9, <1>10, <1>11 DEF Laid
<1> QED
  BY <1>12 DEF e

\* What looks like the attempts at an operation is them, for some numbers of requests and
\* repairs.
LEMMA LooksLikeAttempts ==
  ASSUME NEW b \in 1..Len(Operations), NEW after \in Nat, NEW x, AreAttempts(x, b, after)
  PROVE  \E requests \in 1..MaxRetries, repairs \in 0..MaxRetries :
           x = Attempts(Operations[b], requests, repairs, after)
<1> DEFINE n == Len(x)
           Split(a, j) == /\ x[j].phase = IF j <= a THEN "request" ELSE "schema_repair"
                          /\ x[j].retry = IF j <= a THEN j ELSE j - a
           S == {i \in 0..n : i = 0 \/ \E a \in 1..i : \A j \in 1..i : Split(a, j)}
<1>1. x \in Seq(LedgerEvent) /\ n \in Nat /\ n # 0 /\ MaxRetries \in Nat
  BY AttemptLedgerAssumption DEF AreAttempts
<1>2. 0 \in S
  BY <1>1
<1>3. ASSUME NEW i \in 0..n, i \in S, i < n PROVE i + 1 \in S
  <2>1. i + 1 \in 1..n /\ i + 1 \in 0..n /\ i \in Nat
    BY <1>1, <1>3
  <2>2. CASE i = 0
    <3>1. x[1].phase = "request" /\ x[1].retry = 1
      BY DEF AreAttempts, Opens
    <3>2. Split(1, 1)
      BY <3>1
    <3>3. i + 1 = 1 /\ \A j \in 1..1 : j = 1
      BY <2>2
    <3> HIDE DEF Split
    <3> QED
      BY <2>1, <3>2, <3>3
  <2>3. CASE i # 0
    <3>1. PICK a \in 1..i : \A j \in 1..i : Split(a, j)
      BY <1>3, <2>3
    <3>2. i \in 1..i /\ i + 1 \in 2..n /\ (i + 1) - 1 = i /\ a \in Nat /\ a <= i
      BY <1>1, <2>1, <2>3, <3>1
    <3>3. Split(a, i) /\ Follows(x[i], x[i + 1])
      <4>1. Follows(x[(i + 1) - 1], x[i + 1])
        BY <3>2 DEF AreAttempts
      <4> QED
        BY <3>1, <3>2, <4>1
    <3>4. Split(a, i + 1) \/ (a = i /\ Split(i + 1, i + 1))
      <4>1. CASE a = i
        <5>1. x[i].phase = "request" /\ x[i].retry = i
          BY <2>1, <3>2, <3>3, <4>1
        <5>2. CASE x[i + 1].phase = "request" /\ x[i + 1].retry = i + 1
          BY <2>1, <4>1, <5>2
        <5>3. CASE x[i + 1].phase = "schema_repair" /\ x[i + 1].retry = 1
          BY <2>1, <4>1, <5>3
        <5> QED
          BY <3>3, <5>1, <5>2, <5>3 DEF Follows
      <4>2. CASE a < i
        <5>1. x[i].phase = "schema_repair" /\ x[i].retry = i - a
          BY <2>1, <3>2, <3>3, <4>2
        <5>2. x[i + 1].phase = "schema_repair" /\ x[i + 1].retry = (i - a) + 1
          BY <3>3, <5>1 DEF Follows
        <5> QED
          BY <2>1, <3>2, <4>2, <5>2
      <4> QED
        BY <2>1, <3>2, <4>1, <4>2
    <3>5. \A j \in 1..(i + 1) : j \in 1..i \/ j = i + 1
      BY <2>1
    <3>6. CASE Split(a, i + 1)
      <4>1. \A j \in 1..(i + 1) : Split(a, j)
        <5> HIDE DEF Split
        <5> QED
          BY <3>1, <3>5, <3>6
      <4>2. a \in 1..(i + 1)
        BY <3>2
      <4> HIDE DEF Split
      <4> QED
        BY <2>1, <4>1, <4>2
    <3>7. CASE a = i /\ Split(i + 1, i + 1)
      <4>1. \A j \in 1..i : Split(a, j) => Split(i + 1, j)
        BY <2>1, <3>7
      <4>2. \A j \in 1..(i + 1) : Split(i + 1, j)
        <5> HIDE DEF Split
        <5> QED
          BY <3>1, <3>5, <3>7, <4>1
      <4>3. i + 1 \in 1..(i + 1)
        BY <2>1
      <4> HIDE DEF Split
      <4> QED
        BY <2>1, <4>2, <4>3
    <3> QED
      BY <3>4, <3>6, <3>7
  <2> QED
    BY <2>2, <2>3
<1>4. n \in S
  <2>1. \A i \in 0..n : i \in S
    <3> HIDE DEF S, n
    <3> QED
      BY <1>1, <1>2, <1>3, UpTo
  <2>2. n \in 0..n
    BY <1>1
  <2> HIDE DEF S, n
  <2> QED
    BY <2>1, <2>2
<1>5. PICK a \in 1..n : \A j \in 1..n : Split(a, j)
  BY <1>1, <1>4
<1> DEFINE r == n - a
<1>6. a \in Nat /\ r \in Nat /\ n = a + r /\ n \in 1..n /\ a \in 1..n
  BY <1>1, <1>5
<1>7. \A j \in 1..n : x[j].retry <= MaxRetries
  BY DEF AreAttempts
<1>8. a \in 1..MaxRetries /\ r \in 0..MaxRetries
  <2>1. x[a].retry = a
    BY <1>5, <1>6
  <2>2. r # 0 => ~(n <= a)
    <3> HIDE DEF r, n
    <3> QED
      BY <1>6
  <2>3. r # 0 => x[n].retry = r
    BY <1>5, <1>6, <2>2
  <2>4. a <= MaxRetries
    BY <1>6, <1>7, <2>1
  <2>5. r <= MaxRetries
    <3>1. CASE r = 0
      BY <1>1, <3>1
    <3>2. CASE r # 0
      <4> HIDE DEF r, n
      <4> QED
        BY <1>6, <1>7, <2>3, <3>2
    <3> QED
      BY <3>1, <3>2
  <2> QED
    BY <1>1, <1>5, <1>6, <2>4, <2>5
<1> HIDE DEF r
<1>9. x = Attempts(Operations[b], a, r, after)
  <2> DEFINE block == Operations[b]
             one(j) == [sequence |-> after + j, benchmark |-> Benchmark,
                        sample |-> block.sample, operation |-> block.operation,
                        phase |-> IF j <= a THEN "request" ELSE "schema_repair",
                        retry |-> IF j <= a THEN j ELSE j - a]
  <2>1. ASSUME NEW j \in 1..n PROVE x[j] = one(j)
    <3>1. x[j] \in LedgerEvent
      BY <1>1
    <3>2. /\ x[j].sequence = after + j /\ x[j].benchmark = Benchmark
          /\ x[j].sample = block.sample /\ x[j].operation = block.operation
      BY DEF AreAttempts, Names
    <3>3. /\ x[j].phase = IF j <= a THEN "request" ELSE "schema_repair"
          /\ x[j].retry = IF j <= a THEN j ELSE j - a
      BY <1>5
    <3>4. x[j] = [sequence |-> x[j].sequence, benchmark |-> x[j].benchmark,
                  sample |-> x[j].sample, operation |-> x[j].operation,
                  phase |-> x[j].phase, retry |-> x[j].retry]
      BY <3>1 DEF LedgerEvent
    <3> HIDE DEF block
    <3> QED
      BY <3>2, <3>3, <3>4
  <2>2. x = [j \in 1..n |-> x[j]]
    BY <1>1
  <2>3. x = [j \in 1..n |-> one(j)]
    <3> HIDE DEF one, n
    <3> QED
      BY <2>1, <2>2
  <2> QED
    BY <1>6, <2>3 DEF Attempts
<1> QED
  BY <1>8, <1>9

\* A ledger laid along b ends in what looks like attempts at b; what comes before is laid
\* along the operations before b.
LEMMA LaidCut ==
  ASSUME NEW b \in 1..Len(Operations), NEW e, NEW at, Laid(b, e, at)
  PROVE  \E l, way, x : Laid(b - 1, l, way) /\ AreAttempts(x, b, Len(l)) /\ e = l \o x
<1> DEFINE n == Len(e)
           S == {i \in 1..n : at[i] = b}
<1>1. e \in Seq(LedgerEvent) /\ n \in Nat /\ b \in Nat /\ b >= 1 /\ n # 0
      /\ at \in [1..n -> 1..b]
  BY LenProperties, AttemptLedgerAssumption DEF Laid
<1>2. /\ \A i \in 1..n : /\ e[i].sequence = i /\ e[i].benchmark = Benchmark
                         /\ Names(e[i], Operations[at[i]]) /\ e[i].retry <= MaxRetries
      /\ at[1] = 1 /\ Opens(e[1]) /\ at[n] = b
      /\ \A i \in 2..n : \/ at[i] = at[i - 1] /\ Follows(e[i - 1], e[i])
                         \/ at[i] = at[i - 1] + 1 /\ Opens(e[i])
  BY <1>1 DEF Laid
<1> HIDE DEF n
<1>3. PICK k \in S : \A i \in S : k <= i
  <2>1. n \in S
    BY <1>1, <1>2
  <2>2. [i \in S |-> i] \in [S -> Nat]
    BY <1>1
  <2>3. \E k \in S : \A i \in S : [j \in S |-> j][k] <= [j \in S |-> j][i]
    <3> HIDE DEF S
    <3> QED
      BY <2>1, <2>2, LeastExists
  <2> QED
    BY <2>3
<1>4. k \in 1..n /\ at[k] = b /\ k \in Nat /\ k >= 1
  BY <1>1, <1>3
<1> DEFINE m == k - 1
           l == [i \in 1..m |-> e[i]]
           x == [i \in 1..(n - m) |-> e[m + i]]
           way == [i \in 1..m |-> at[i]]
<1>5. m \in Nat /\ m < n /\ n - m \in Nat /\ n - m # 0 /\ k = m + 1
  BY <1>1, <1>4
<1>6. \A i \in 1..m : i \in 1..n /\ at[i] \in 1..(b - 1)
  <2> SUFFICES ASSUME NEW i \in 1..m PROVE i \in 1..n /\ at[i] \in 1..(b - 1)
    OBVIOUS
  <2>1. i \in 1..n /\ i < k
    BY <1>1, <1>5
  <2>2. at[i] # b
    BY <1>3, <1>4, <2>1
  <2>3. at[i] \in 1..b
    BY <1>1, <2>1
  <2> QED
    BY <1>1, <2>1, <2>2, <2>3
<1>7. \A i \in (m + 1)..n : at[i] = b
  <2> DEFINE T == {i \in 0..(n - k) : at[k + i] = b}
  <2>1. 0 \in T
    BY <1>1, <1>4
  <2>2. ASSUME NEW i \in 0..(n - k), i \in T, i < n - k PROVE i + 1 \in T
    <3>1. k + i \in 1..n /\ k + (i + 1) \in 2..n /\ (k + (i + 1)) - 1 = k + i
          /\ k + (i + 1) \in 1..n
      BY <1>1, <1>4, <2>2
    <3>2. at[k + (i + 1)] = b \/ at[k + (i + 1)] = b + 1
      BY <1>2, <2>2, <3>1
    <3>3. at[k + (i + 1)] \in 1..b
      BY <1>1, <3>1
    <3>4. at[k + (i + 1)] = b
      BY <1>1, <3>2, <3>3
    <3> QED
      BY <1>1, <1>4, <2>2, <3>4
  <2>3. n - k \in Nat
    BY <1>1, <1>4
  <2>4. \A i \in 0..(n - k) : i \in T
    <3> HIDE DEF T
    <3> QED
      BY <2>1, <2>2, <2>3, UpTo
  <2>5. ASSUME NEW i \in (m + 1)..n PROVE at[i] = b
    <3>1. i - k \in 0..(n - k) /\ k + (i - k) = i
      BY <1>1, <1>4, <1>5
    <3> QED
      BY <2>4, <3>1
  <2> QED
    BY <2>5
<1>8. l \in Seq(LedgerEvent) /\ Len(l) = m /\ \A i \in 1..m : l[i] = e[i]
  <2>1. \A i \in 1..m : e[i] \in LedgerEvent
    BY <1>1, <1>6 DEF n
  <2> QED
    BY <1>5, <2>1
<1>9. x \in Seq(LedgerEvent) /\ Len(x) = n - m /\ \A i \in 1..(n - m) : x[i] = e[m + i]
  <2>1. \A i \in 1..(n - m) : m + i \in 1..n
    BY <1>1, <1>5
  <2>2. \A i \in 1..(n - m) : e[m + i] \in LedgerEvent
    BY <1>1, <2>1 DEF n
  <2> QED
    BY <1>5, <2>2
<1>10. way \in [1..m -> 1..(b - 1)] /\ \A i \in 1..m : way[i] = at[i]
  BY <1>6
<1> HIDE DEF m, l, x, way, S
<1>11. (m = 0 => b = 1) /\ (m # 0 => at[m] = b - 1) /\ Opens(e[k])
  <2>1. CASE m = 0
    BY <1>2, <1>4, <1>5, <2>1
  <2>2. CASE m # 0
    <3>1. k \in 2..n /\ k - 1 = m /\ m \in 1..m
      BY <1>1, <1>4, <1>5, <2>2
    <3>2. at[m] \in 1..(b - 1)
      BY <1>6, <3>1
    <3>3. at[k] = at[m] + 1 /\ Opens(e[k])
      <4>1. \/ at[k] = at[k - 1] /\ Follows(e[k - 1], e[k])
            \/ at[k] = at[k - 1] + 1 /\ Opens(e[k])
        BY <1>2, <3>1
      <4>2. at[m] # b
        BY <1>1, <3>2
      <4> QED
        BY <1>4, <3>1, <4>1, <4>2
    <3> QED
      BY <1>1, <1>4, <2>2, <3>2, <3>3
  <2> QED
    BY <2>1, <2>2
<1>12. Laid(b - 1, l, way)
  <2>1. \A i \in 2..m : i \in 2..n /\ i \in 1..m /\ i - 1 \in 1..m
    BY <1>1, <1>5
  <2>2. \A i \in 2..m : \/ way[i] = way[i - 1] /\ Follows(l[i - 1], l[i])
                        \/ way[i] = way[i - 1] + 1 /\ Opens(l[i])
    BY <1>2, <1>8, <1>10, <2>1
  <2>3. \A i \in 1..m : /\ l[i].sequence = i /\ l[i].benchmark = Benchmark
                        /\ Names(l[i], Operations[way[i]]) /\ l[i].retry <= MaxRetries
    BY <1>2, <1>6, <1>8, <1>10
  <2>4. m # 0 => way[1] = 1 /\ Opens(l[1]) /\ way[m] = b - 1
    <3>1. m # 0 => 1 \in 1..m /\ m \in 1..m
      BY <1>5
    <3> QED
      BY <1>2, <1>8, <1>10, <1>11, <3>1
  <2>5. m = 0 => b - 1 = 0
    BY <1>11
  <2> QED
    BY <1>8, <1>10, <2>2, <2>3, <2>4, <2>5 DEF Laid
<1>13. AreAttempts(x, b, m)
  <2>1. \A i \in 1..(n - m) : m + i \in (m + 1)..n /\ m + i \in 1..n
    BY <1>1, <1>5
  <2>2. \A i \in 1..(n - m) : /\ x[i].sequence = m + i /\ x[i].benchmark = Benchmark
                              /\ Names(x[i], Operations[b]) /\ x[i].retry <= MaxRetries
    BY <1>2, <1>7, <1>9, <2>1
  <2>3. Opens(x[1])
    BY <1>5, <1>9, <1>11
  <2>4. ASSUME NEW i \in 2..(n - m) PROVE Follows(x[i - 1], x[i])
    <3>1. i \in 1..(n - m) /\ i - 1 \in 1..(n - m) /\ m + i \in 2..n /\ (m + i) - 1 = m + (i - 1)
      BY <1>1, <1>5
    <3>2. at[m + i] = b /\ at[(m + i) - 1] = b
      BY <1>7, <2>1, <3>1
    <3>3. Follows(e[(m + i) - 1], e[m + i])
      BY <1>1, <1>2, <3>1, <3>2
    <3> QED
      BY <1>9, <3>1, <3>3
  <2> QED
    BY <1>5, <1>9, <2>2, <2>3, <2>4 DEF AreAttempts
<1>14. e = l \o x
  <2>1. /\ l \o x \in Seq(LedgerEvent) /\ Len(l \o x) = m + (n - m)
        /\ \A i \in 1..(m + (n - m)) : (l \o x)[i] = IF i <= m THEN l[i] ELSE x[i - m]
    <3>1. /\ l \o x \in Seq(LedgerEvent) /\ Len(l \o x) = Len(l) + Len(x)
          /\ \A i \in 1..(Len(l) + Len(x)) :
               (l \o x)[i] = IF i <= Len(l) THEN l[i] ELSE x[i - Len(l)]
      BY <1>8, <1>9, ConcatProperties
    <3> QED
      BY <1>8, <1>9, <3>1
  <2>2. m + (n - m) = n
    BY <1>1, <1>5
  <2>3. ASSUME NEW i \in 1..n PROVE (l \o x)[i] = e[i]
    <3>1. CASE i \in 1..m
      BY <1>5, <1>8, <2>1, <2>2, <3>1
    <3>2. CASE i \in (m + 1)..n
      <4>1. i - m \in 1..(n - m) /\ m + (i - m) = i /\ ~(i <= m)
        BY <1>1, <1>5, <3>2
      <4>2. (l \o x)[i] = x[i - m]
        BY <2>1, <2>2, <4>1
      <4>3. x[i - m] = e[m + (i - m)]
        BY <1>9, <4>1
      <4> QED
        BY <4>1, <4>2, <4>3
    <3>3. i \in 1..m \/ i \in (m + 1)..n
      BY <1>1, <1>5
    <3> QED
      BY <3>1, <3>2, <3>3
  <2> QED
    BY <1>1, <2>1, <2>2, <2>3, SeqEqual DEF n
<1> QED
  BY <1>8, <1>12, <1>13, <1>14

Produced(before, b) ==
  {l \o Attempts(Operations[b], requests, repairs, Len(l)) :
     l \in before, requests \in 1..MaxRetries, repairs \in 0..MaxRetries}

AreLedgers(g, n) ==
  g = [b \in 0..n |-> IF b = 0 THEN {<< >>} ELSE Produced(g[b - 1], b)]

GoesOn(before, b, e) ==
  \E l \in before, requests \in 1..MaxRetries, repairs \in 0..MaxRetries :
    e = l \o Attempts(Operations[b], requests, repairs, Len(l))

LEMMA ProducedGoOn ==
  ASSUME NEW before, NEW b, NEW e
  PROVE  e \in Produced(before, b) <=> GoesOn(before, b, e)
BY DEF Produced, GoesOn

LEMMA LedgersExist ==
  ASSUME NEW n \in Nat
  PROVE  \E g : AreLedgers(g, n)
<1> DEFINE S == {m \in 0..n : \E g : AreLedgers(g, m)}
<1>1. 0 \in S
  <2> DEFINE g == [b \in 0..0 |-> {<< >>}]
  <2>1. g = [b \in 0..0 |-> IF b = 0 THEN {<< >>} ELSE Produced(g[b - 1], b)]
    OBVIOUS
  <2>2. AreLedgers(g, 0)
    BY <2>1 DEF AreLedgers
  <2> QED
    BY <2>2
<1>2. ASSUME NEW m \in 0..n, m \in S, m < n
      PROVE  m + 1 \in S
  <2>1. PICK g : AreLedgers(g, m)
    BY <1>2
  <2> DEFINE h == [b \in 0..(m + 1) |-> IF b = m + 1 THEN Produced(g[m], m + 1) ELSE g[b]]
  <2>2. ASSUME NEW b \in 0..(m + 1)
        PROVE  h[b] = IF b = 0 THEN {<< >>} ELSE Produced(h[b - 1], b)
    <3>1. CASE b = m + 1
      BY <3>1
    <3>2. CASE b # m + 1
      <4>1. b \in 0..m /\ h[b] = g[b] /\ (b # 0 => h[b - 1] = g[b - 1])
        BY <3>2
      <4>2. g[b] = IF b = 0 THEN {<< >>} ELSE Produced(g[b - 1], b)
        BY <2>1, <4>1 DEF AreLedgers
      <4> HIDE DEF h
      <4> QED
        BY <4>1, <4>2
    <3> QED
      BY <3>1, <3>2
  <2>3. h = [b \in 0..(m + 1) |-> h[b]]
    OBVIOUS
  <2>4. AreLedgers(h, m + 1)
    <3> HIDE DEF h
    <3> QED
      BY <2>2, <2>3 DEF AreLedgers
  <2>5. m + 1 \in 0..n
    BY <1>2
  <2> HIDE DEF h
  <2> QED
    BY <2>4, <2>5
<1>3. \A m \in 0..n : m \in S
  <2> HIDE DEF S
  <2> QED
    BY <1>1, <1>2, UpTo
<1> QED
  BY <1>3

LEMMA LedgersUnfold ==
  /\ Len(Operations) \in Nat
  /\ Ledgers[0] = {<< >>}
  /\ \A b \in 1..Len(Operations) : Ledgers[b] = Produced(Ledgers[b - 1], b)
<1> DEFINE n == Len(Operations)
<1>1. n \in Nat
  BY AttemptLedgerAssumption, LenProperties
<1>2. Ledgers = CHOOSE g : g = [b \in 0..n |-> IF b = 0 THEN {<< >>} ELSE Produced(g[b - 1], b)]
  BY DEF Ledgers, Produced
<1>3. \E g : g = [b \in 0..n |-> IF b = 0 THEN {<< >>} ELSE Produced(g[b - 1], b)]
  BY <1>1, LedgersExist DEF AreLedgers
<1>4. AreLedgers(Ledgers, n)
  BY <1>2, <1>3, Zenon DEF AreLedgers
<1>5. ASSUME NEW g, AreLedgers(g, n)
      PROVE  g[0] = {<< >>} /\ \A b \in 1..n : g[b] = Produced(g[b - 1], b)
  <2> HIDE DEF n
  <2>1. \A b \in 0..n : g[b] = IF b = 0 THEN {<< >>} ELSE Produced(g[b - 1], b)
    BY <1>5, Zenon DEF AreLedgers
  <2>2. 0 \in 0..n /\ \A b \in 1..n : b \in 0..n /\ b # 0
    BY <1>1
  <2> QED
    BY <2>1, <2>2
<1> QED
  BY <1>1, <1>4, <1>5

LEMMA LedgersGrow ==
  ASSUME NEW b \in 1..Len(Operations),
         \A e : e \in Ledgers[b - 1] <=> \E at : Laid(b - 1, e, at)
  PROVE  \A e : e \in Ledgers[b] <=> \E at : Laid(b, e, at)
<1>1. Ledgers[b] = Produced(Ledgers[b - 1], b)
  BY LedgersUnfold
<1>2. ASSUME NEW e \in Ledgers[b] PROVE \E at : Laid(b, e, at)
  <2>1. PICK k \in Ledgers[b - 1], requests \in 1..MaxRetries, repairs \in 0..MaxRetries :
          e = k \o Attempts(Operations[b], requests, repairs, Len(k))
    <3>1. e \in Produced(Ledgers[b - 1], b)
      BY <1>1, <1>2
    <3>2. GoesOn(Ledgers[b - 1], b, e)
      BY <3>1, ProducedGoOn
    <3> QED
      BY <3>2 DEF GoesOn
  <2>2. PICK at : Laid(b - 1, k, at)
    BY <2>1
  <2> QED
    BY <2>1, <2>2, LaidGrows
<1>3. ASSUME NEW e, NEW at, Laid(b, e, at) PROVE e \in Ledgers[b]
  <2>1. PICK k, way, x : Laid(b - 1, k, way) /\ AreAttempts(x, b, Len(k)) /\ e = k \o x
    BY <1>3, LaidCut
  <2>2. Len(k) \in Nat
    BY <2>1, LenProperties DEF Laid
  <2>3. PICK requests \in 1..MaxRetries, repairs \in 0..MaxRetries :
          x = Attempts(Operations[b], requests, repairs, Len(k))
    BY <2>1, <2>2, LooksLikeAttempts
  <2>4. k \in Ledgers[b - 1]
    BY <2>1
  <2> QED
    <3>1. e = k \o Attempts(Operations[b], requests, repairs, Len(k))
      BY <2>1, <2>3
    <3>2. e \in Produced(Ledgers[b - 1], b)
      BY <2>3, <2>4, <3>1, ProducedGoOn DEF GoesOn
    <3> QED
      BY <1>1, <3>2
<1> QED
  BY <1>2, <1>3

\* The ledgers of the first operations are those that can be laid along them.
LEMMA LedgersAreLaid ==
  ASSUME NEW l
  PROVE  l \in Grammar <=> \E at : Laid(Len(Operations), l, at)
<1> DEFINE n == Len(Operations)
           S == {b \in 0..n : \A e : e \in Ledgers[b] <=> \E at : Laid(b, e, at)}
<1>1. n \in Nat /\ 0 \in 0..n /\ n \in 0..n
  BY LedgersUnfold
<1>2. 0 \in S
  <2>1. ASSUME NEW e, NEW at, Laid(0, e, at) PROVE e = << >>
    <3>1. e \in Seq(LedgerEvent) /\ Len(e) \in Nat /\ at \in [1..Len(e) -> 1..0]
      BY <2>1, LenProperties DEF Laid
    <3>2. Len(e) = 0
      <4> SUFFICES ASSUME Len(e) # 0 PROVE FALSE
        OBVIOUS
      <4>1. 1 \in 1..Len(e)
        BY <3>1
      <4> QED
        BY <3>1, <4>1
    <3> QED
      BY <3>1, <3>2, EmptySeq
  <2>2. Laid(0, << >>, [i \in {} |-> 0])
    <3>1. << >> \in Seq(LedgerEvent) /\ Len(<< >>) = 0
      BY EmptySeq
    <3>2. [i \in {} |-> 0] \in [1..0 -> 1..0]
      OBVIOUS
    <3> QED
      BY <3>1, <3>2 DEF Laid
  <2>3. \A e : e \in Ledgers[0] <=> \E at : Laid(0, e, at)
    BY <2>1, <2>2, LedgersUnfold
  <2> QED
    BY <1>1, <2>3
<1>3. ASSUME NEW m \in 0..n, m \in S, m < n PROVE m + 1 \in S
  <2>1. m + 1 \in 1..n /\ m + 1 \in 0..n /\ (m + 1) - 1 = m
    BY <1>1, <1>3
  <2>2. \A e : e \in Ledgers[m] <=> \E at : Laid(m, e, at)
    BY <1>3
  <2>3. \A e : e \in Ledgers[m + 1] <=> \E at : Laid(m + 1, e, at)
    BY <2>1, <2>2, LedgersGrow
  <2> QED
    BY <2>1, <2>3
<1>4. \A b \in 0..n : b \in S
  <2> HIDE DEF S, n
  <2> QED
    BY <1>1, <1>2, <1>3, UpTo
<1>5. n \in S
  BY <1>1, <1>4
<1> QED
  BY <1>5 DEF Grammar

LedgerTyped == events \in Seq(LedgerEvent)

LEMMA LedgerHasType == LedgerSpec => []LedgerTyped
<1>1. LedgerInit => LedgerTyped
  BY EmptySeq DEF LedgerInit, LedgerTyped
<1>2. LedgerTyped /\ [Load]_events => LedgerTyped'
  <2> SUFFICES ASSUME LedgerTyped, [Load]_events PROVE LedgerTyped'
    OBVIOUS
  <2>1. CASE Load
    <3>1. PICK e \in LedgerEvent : events' = Append(events, e)
      BY <2>1, AttemptLedgerAssumption DEF Load
    <3> QED
      BY <3>1, AppendProperties DEF LedgerTyped
  <2>2. CASE UNCHANGED events
    BY <2>2 DEF LedgerTyped
  <2> QED
    BY <2>1, <2>2
<1> QED
  BY <1>1, <1>2, PTL DEF LedgerSpec

\* formal_attempt_profile_is_valid, whatever was done for however many samples, and
\* whatever the files of a ledger hold: the one scan with its counters accepts what has
\* been read exactly if it could be produced, operation by operation, by requests and
\* repairs within their limit.
THEOREM ProfileAcceptsGrammar == LedgerSpec => []AcceptsGrammar
<1>1. LedgerTyped => AcceptsGrammar
  <2> SUFFICES ASSUME LedgerTyped PROVE AcceptsGrammar
    OBVIOUS
  <2>0. events \in Seq(LedgerEvent)
    BY DEF LedgerTyped
  <2>1. Len(Operations) \in Nat /\ Len(events) \in Nat
    BY <2>0, AttemptLedgerAssumption, LenProperties
  <2>2. \A k \in 2..Len(Operations) : \/ Operations[k].sample # Operations[k - 1].sample
                                      \/ Operations[k].operation # Operations[k - 1].operation
    <3> SUFFICES ASSUME NEW k \in 2..Len(Operations),
                        Operations[k].sample = Operations[k - 1].sample,
                        Operations[k].operation = Operations[k - 1].operation
                 PROVE  FALSE
      OBVIOUS
    <3>1. k \in 1..Len(Operations) /\ k - 1 \in 1..Len(Operations) /\ k # k - 1
      BY <2>1
    <3>2. /\ Operations[k] \in [sample : Texts, operation : Texts]
          /\ Operations[k - 1] \in [sample : Texts, operation : Texts]
      BY <3>1, AttemptLedgerAssumption, ElementOfSeq
    <3>3. Operations[k] = Operations[k - 1]
      BY <3>2
    <3> QED
      BY <3>1, <3>3, AttemptLedgerAssumption
  <2>3. Accepts(Operations, events) <=> Grammatical(Operations, events)
    BY <2>1, <2>2, ProfileIsGrammar
  <2>4. Grammatical(Operations, events) <=> \E at : Laid(Len(Operations), events, at)
    BY <2>0 DEF Grammatical, Walks, Laid
  <2>5. events \in Grammar <=> \E at : Laid(Len(Operations), events, at)
    BY LedgersAreLaid
  <2> QED
    BY <2>3, <2>4, <2>5 DEF AcceptsGrammar
<1> QED
  BY <1>1, LedgerHasType, PTL

================================================================================
