------------------------- MODULE ArtifactStoreProofs -------------------------
(***************************************************************************)
(* Proofs about ArtifactStore, for every number of calls, paths,           *)
(* directories, content lengths, errors and power failures; and about the   *)
(* response cache, whose files are created in the same way, for every       *)
(* number of runs, threads and failures.                                    *)
(***************************************************************************)
EXTENDS ArtifactStore, ResponseCache, FiniteSetTheorems, TLAPS

LEMMA InitInvariant == Init => Invariant
BY ArtifactStoreAssumption DEF Init, Invariant, TypeOK, Whole

\* What every step but a power failure has in common: it is a step of one call.
LEMMA StepInvariant ==
  ASSUME NEW c \in Calls, Invariant, Step(c)
  PROVE  Invariant'
<1> USE ArtifactStoreAssumption DEF Invariant, TypeOK, Whole, Goes, Raises, Error, disk
<1>1. ASSUME NEW p \in Paths, Begin(c, p) PROVE Invariant'
  BY <1>1 DEF Begin
<1>2. CASE OpenParent(c)
  BY <1>2 DEF OpenParent
<1>3. CASE OpenTemporary(c)
  BY <1>3 DEF OpenTemporary
<1>4. CASE WriteSome(c)
  BY <1>4 DEF WriteSome
<1>5. CASE SyncTemporary(c)
  BY <1>5 DEF SyncTemporary, Sync
<1>6. CASE LinkFinal(c)
  BY <1>6 DEF LinkFinal, Free
<1>7. CASE SyncDirectory(c)
  BY <1>7 DEF SyncDirectory, SyncDir
<1>8. CASE Unlink(c)
  BY <1>8 DEF Unlink
<1>9. CASE Die(c)
  BY <1>9 DEF Die, Ended
<1> QED
  BY <1>1, <1>2, <1>3, <1>4, <1>5, <1>6, <1>7, <1>8, <1>9 DEF Step

LEMMA PowerLossInvariant ==
  ASSUME Invariant, PowerLoss
  PROVE  Invariant'
<1> USE ArtifactStoreAssumption DEF Invariant, TypeOK, Whole
<1> QED
  BY DEF PowerLoss, Ended

LEMMA NextInvariant == Invariant /\ [Next]_vars => Invariant'
<1> SUFFICES ASSUME Invariant, [Next]_vars PROVE Invariant'
  OBVIOUS
<1>1. CASE \E c \in Calls : Step(c)
  BY <1>1, StepInvariant
<1>2. CASE PowerLoss
  BY <1>2, PowerLossInvariant
<1>3. CASE UNCHANGED vars
  BY <1>3 DEF vars, disk, Invariant, TypeOK, Whole
<1> QED
  BY <1>1, <1>2, <1>3 DEF Next

\* The inductive invariant holds: it carries the theorems below.
THEOREM Correctness == Spec => []Invariant
BY InitInvariant, NextInvariant, PTL DEF Spec

\* A published document is whole, power failures included: its bytes are synced
\* before its name exists.
THEOREM PublishedIsWhole == Spec => []NeverTorn
<1>1. Invariant => NeverTorn
  BY DEF Invariant, TypeOK, Whole, NeverTorn
<1> QED
  BY <1>1, Correctness, PTL

\* A reference that write_json returned stays good until power fails, in a directory
\* that was there and that its file system syncs for ever.
THEOREM ReferencesSurvive == Spec => []AcknowledgedSurvives
<1>1. Invariant => AcknowledgedSurvives
  BY DEF Invariant, TypeOK, AcknowledgedSurvives, Lasting, Acknowledged
<1> QED
  BY <1>1, Correctness, PTL

-------------------------------------------------------------------------------
(* Refinement of CreateOnlyStore                                           *)

\* Only the return of a call adds to the safe paths.
LEMMA SafeUnchanged ==
  ASSUME target' = target, \A c \in Calls : Lasting(c)' <=> Lasting(c)
  PROVE  SafePaths' = SafePaths
BY DEF SafePaths

\* A power failure takes nothing from a safe path.
LEMMA PowerLossRefines ==
  ASSUME Invariant, PowerLoss
  PROVE  Store!Next
<1> USE ArtifactStoreAssumption
<1> DEFINE S == {p \in Paths : final'[p] = None}
<1>1. SafePaths' = SafePaths
  <2>1. \A c \in Calls : Lasting(c)' <=> Lasting(c)
    BY DEF PowerLoss, Ended, Lasting, Acknowledged, Invariant, TypeOK
  <2> QED
    BY <2>1, SafeUnchanged DEF PowerLoss
<1>2. S \cap SafePaths = {}
  BY DEF PowerLoss, SafePaths, Lasting, Acknowledged, Invariant, TypeOK
<1>3. final' = [p \in Paths |-> IF p \in S THEN None ELSE final[p]]
  <2>1. /\ final' = [p \in Paths |-> final'[p]]
        /\ \A p \in Paths : final'[p] \in {None, final[p], stored[p]}
    BY DEF PowerLoss
  <2>2. \A p \in Paths : final'[p] = IF p \in S THEN None ELSE final[p]
    BY <2>1 DEF Invariant, TypeOK
  <2> QED
    BY <2>1, <2>2
<1>4. Store!Lose(S)
  BY <1>1, <1>2, <1>3 DEF Store!Lose
<1> QED
  BY <1>4 DEF Store!Next

LEMMA StepRefines ==
  ASSUME Invariant, NEW c \in Calls, Step(c)
  PROVE  Store!Next \/ UNCHANGED Store!vars
<1> USE ArtifactStoreAssumption
<1>1. CASE LinkFinal(c) /\ Free(target[c]) /\ final' # final
  <2>1. final' = [final EXCEPT ![target[c]] = c] /\ target[c] \in Paths
    BY <1>1 DEF LinkFinal, Free, Invariant, TypeOK
  <2>2. SafePaths' = SafePaths
    <3>1. \A b \in Calls : Lasting(b)' <=> Lasting(b)
      BY <1>1 DEF LinkFinal, Lasting, Acknowledged, Goes, Raises, Invariant, TypeOK
    <3> QED
      BY <1>1, <3>1, SafeUnchanged DEF LinkFinal
  <2>3. Store!Create(target[c], c)
    BY <1>1, <2>1, <2>2 DEF Store!Create, Free
  <2> QED
    BY <2>1, <2>3 DEF Store!Next
<1>2. CASE Unlink(c) /\ Lasting(c)'
  <2>1. target[c] \in Paths /\ final[target[c]] = c /\ None # c
    BY <1>2 DEF Unlink, Lasting, Acknowledged, Raises, Invariant, TypeOK
  <2>2. SafePaths' = SafePaths \cup {target[c]}
    <3>1. \A b \in Calls : Lasting(b)' <=> Lasting(b) \/ b = c
      BY <1>2 DEF Unlink, Lasting, Acknowledged, Goes, Raises, Invariant, TypeOK
    <3> QED
      BY <1>2, <2>1, <3>1 DEF SafePaths, Unlink
  <2>3. Store!Acknowledge(target[c])
    BY <1>2, <2>1, <2>2 DEF Store!Acknowledge, Unlink
  <2> QED
    BY <2>1, <2>3 DEF Store!Next
<1>3. CASE Unlink(c) /\ ~Lasting(c)'
  <2>1. \A b \in Calls : Lasting(b)' <=> Lasting(b)
    BY <1>3 DEF Unlink, Lasting, Acknowledged, Goes, Raises, Invariant, TypeOK
  <2> QED
    BY <1>3, <2>1, SafeUnchanged DEF Store!vars, Unlink
<1>4. CASE \E p \in Paths : Begin(c, p)
  <2>1. PICK p \in Paths : Begin(c, p)
    BY <1>4
  <2>2. \A b \in Calls : /\ b # c => target'[b] = target[b]
                         /\ Lasting(b)' <=> Lasting(b)
                         /\ ~Lasting(c)
    BY <2>1 DEF Begin, Lasting, Acknowledged, Goes, Invariant, TypeOK
  <2>3. SafePaths' = SafePaths
    BY <2>2 DEF SafePaths
  <2> QED
    BY <2>1, <2>3 DEF Store!vars, Begin, disk
<1>5. CASE \/ OpenParent(c) \/ OpenTemporary(c) \/ WriteSome(c)
           \/ SyncTemporary(c) \/ SyncDirectory(c) \/ Die(c)
           \/ LinkFinal(c) /\ final' = final
  <2>1. final' = final /\ target' = target
    BY <1>5 DEF OpenParent, OpenTemporary, WriteSome, SyncTemporary,
                SyncDirectory, Die, LinkFinal, disk
  <2>2. \A b \in Calls : Lasting(b)' <=> Lasting(b)
    BY <1>5 DEF OpenParent, OpenTemporary, WriteSome, SyncTemporary, SyncDirectory, Die,
                LinkFinal, Lasting, Acknowledged, Goes, Raises, Ended, Invariant, TypeOK
  <2> QED
    BY <2>1, <2>2, SafeUnchanged DEF Store!vars
<1>6. LinkFinal(c) /\ final' # final => Free(target[c])
  BY DEF LinkFinal
<1> QED
  BY <1>1, <1>2, <1>3, <1>4, <1>5, <1>6 DEF Step

\* write_json implements the create-only store: racing calls, failing system
\* calls, dying processes, directories that cannot be synced and power failures
\* included.
THEOREM StoreRefinement == Spec => StoreSpec
<1>1. Init => Store!Init
  BY DEF Init, Store!Init, SafePaths, Lasting, Acknowledged
<1>2. Invariant /\ [Next]_vars => [Store!Next]_(Store!vars)
  <2> SUFFICES ASSUME Invariant, [Next]_vars
               PROVE  Store!Next \/ UNCHANGED Store!vars
    OBVIOUS
  <2>1. CASE \E c \in Calls : Step(c)
    BY <2>1, StepRefines
  <2>2. CASE PowerLoss
    BY <2>2, PowerLossRefines
  <2>3. CASE UNCHANGED vars
    BY <2>3 DEF vars, disk, Store!vars, SafePaths, Lasting, Acknowledged
  <2> QED
    BY <2>1, <2>2, <2>3 DEF Next
<1> QED
  BY <1>1, <1>2, Correctness, PTL DEF Spec, StoreSpec, Store!Spec

-------------------------------------------------------------------------------
(* The response cache                                                      *)

Asker == [pc : {"queued", "lookup", "request", "repair", "put", "done", "failed"},
          question : Seq(Nat), answer : Nat]

CacheTypeOK ==
  /\ asker \in [CachedRuns -> Asker]
  /\ drawn \in Nat /\ \A q \in DOMAIN cache : cache[q] \in Nat
  /\ given \subseteq Seq(Nat) \X Nat

\* The answers to a question that are not the published one, and the runs that may
\* still bring such an answer.
Given(q) == {g \in given : g[1] = q}
Others(q) == Given(q) \ {<<q, cache[q]>>}
Holding(q) ==
  {r \in CachedRuns : /\ asker[r].question = q /\ asker[r].pc \in {"request", "repair", "put"}
                      /\ asker[r].pc = "put" => asker[r].answer # cache[q]}

AnswersFit(q) ==
  IF q \in DOMAIN cache
  THEN IsFiniteSet(Others(q)) /\ Cardinality(Others(q)) + Cardinality(Holding(q)) < Workers
  ELSE Given(q) = {}

CacheInvariant ==
  /\ CacheTypeOK
  /\ IsFiniteSet(Working) /\ Cardinality(Working) <= Workers
  /\ \A q : AnswersFit(q)

CacheStep(r) == Take(r) \/ Lookup(r) \/ Ask(r) \/ Put(r)

LEMMA AskerMoves ==
  ASSUME CacheTypeOK, NEW r \in CachedRuns
  PROVE  /\ \A to : Moves(r, to) =>
              /\ asker' = [asker EXCEPT ![r] = [asker[r] EXCEPT !.pc = to]]
              /\ asker'[r].pc = to /\ asker'[r].question = asker[r].question
         /\ \A a : Answers(r, a) =>
              /\ asker' = [asker EXCEPT ![r] = [asker[r] EXCEPT !.pc = "put", !.answer = a]]
              /\ asker'[r].pc = "put" /\ asker'[r].question = asker[r].question
              /\ asker'[r].answer = a
<1>1. asker[r] \in Asker /\ DOMAIN asker = CachedRuns
  BY DEF CacheTypeOK
<1>2. ASSUME NEW to, Moves(r, to)
      PROVE  /\ asker' = [asker EXCEPT ![r] = [asker[r] EXCEPT !.pc = to]]
             /\ asker'[r].pc = to /\ asker'[r].question = asker[r].question
  <2>1. asker' = [asker EXCEPT ![r] = [asker[r] EXCEPT !.pc = to]]
    BY <1>1, <1>2 DEF Moves
  <2>2. asker'[r] = [asker[r] EXCEPT !.pc = to]
    BY <1>1, <2>1
  <2> QED
    BY <1>1, <2>1, <2>2 DEF Asker
<1>3. ASSUME NEW a, Answers(r, a)
      PROVE  /\ asker' = [asker EXCEPT ![r] = [asker[r] EXCEPT !.pc = "put", !.answer = a]]
             /\ asker'[r].pc = "put" /\ asker'[r].question = asker[r].question
             /\ asker'[r].answer = a
  <2>1. asker' = [asker EXCEPT ![r] = [asker[r] EXCEPT !.pc = "put", !.answer = a]]
    BY <1>1, <1>3 DEF Answers
  <2>2. asker'[r] = [asker[r] EXCEPT !.pc = "put", !.answer = a]
    BY <1>1, <2>1
  <2> QED
    BY <1>1, <2>1, <2>2 DEF Asker
<1> QED
  BY <1>2, <1>3

LEMMA AskerKeeps ==
  ASSUME NEW f \in [CachedRuns -> Asker], NEW r \in CachedRuns, NEW a \in Asker
  PROVE  [f EXCEPT ![r] = a] \in [CachedRuns -> Asker]
OBVIOUS

\* What a step of a run makes of the run.
LEMMA AskerIs ==
  ASSUME CacheTypeOK, NEW r \in CachedRuns, CacheStep(r)
  PROVE  /\ asker' \in [CachedRuns -> Asker]
         /\ \A s \in CachedRuns : s # r => asker'[s] = asker[s]
<1>0. asker \in [CachedRuns -> Asker] /\ asker[r] \in Asker
  BY DEF CacheTypeOK
<1>1. \E a \in Asker : asker' = [asker EXCEPT ![r] = a]
  <2>1. ASSUME NEW to \in {"lookup", "request", "repair", "failed"}, Moves(r, to)
        PROVE  \E a \in Asker : asker' = [asker EXCEPT ![r] = a]
    <3>1. [asker[r] EXCEPT !.pc = to] \in Asker
      BY <1>0 DEF Asker
    <3> QED
      BY <2>1, <3>1, AskerMoves
  <2>2. ASSUME NEW n \in Nat, Answers(r, n)
        PROVE  \E a \in Asker : asker' = [asker EXCEPT ![r] = a]
    <3>1. [asker[r] EXCEPT !.pc = "put", !.answer = n] \in Asker
      BY <1>0 DEF Asker
    <3> QED
      BY <2>2, <3>1, AskerMoves
  <2>3. CASE Take(r) \/ Lookup(r)
    BY <2>1, <2>2, <2>3 DEF Take, Lookup, CacheTypeOK
  <2>4. CASE Ask(r)
    BY <2>1, <2>2, <2>4 DEF Ask, CacheTypeOK
  <2>5. CASE Put(r)
    <3>1. \/ asker' = [asker EXCEPT ![r] = [pc |-> "lookup", question |-> <<asker[r].answer>>,
                                            answer |-> 0]]
          \/ asker' = [asker EXCEPT ![r] = [asker[r] EXCEPT !.pc = "done"]]
          \/ Moves(r, "failed")
      BY <1>0, <2>5 DEF Put
    <3>2. /\ [pc |-> "lookup", question |-> <<asker[r].answer>>, answer |-> 0] \in Asker
          /\ [asker[r] EXCEPT !.pc = "done"] \in Asker
      BY <1>0 DEF Asker
    <3> QED
      BY <2>1, <3>1, <3>2
  <2> QED
    BY <2>3, <2>4, <2>5 DEF CacheStep
<1> QED
  BY <1>0, <1>1, AskerKeeps

LEMMA CacheStepHasType ==
  ASSUME CacheTypeOK, NEW r \in CachedRuns, CacheStep(r)
  PROVE  CacheTypeOK'
<1>0. asker[r].answer \in Nat /\ asker[r].question \in Seq(Nat)
  BY DEF CacheTypeOK, Asker
<1>1. asker' \in [CachedRuns -> Asker]
  BY AskerIs
<1>2. CASE Take(r) \/ Lookup(r)
  BY <1>1, <1>2 DEF Take, Lookup, CacheTypeOK
<1>3. CASE Ask(r)
  BY <1>1, <1>3 DEF Ask, CacheTypeOK
<1>4. CASE Put(r)
  <2>1. \A k \in DOMAIN cache' : cache'[k] \in Nat
    BY <1>0, <1>4 DEF Put, CacheTypeOK
  <2>2. given' = given \/ given' = given \cup {<<asker[r].question, asker[r].answer>>}
    BY <1>4 DEF Put
  <2> QED
    BY <1>0, <1>1, <1>4, <2>1, <2>2 DEF Put, CacheTypeOK
<1> QED
  BY <1>2, <1>3, <1>4 DEF CacheStep

LEMMA CacheStepKeepsWorking ==
  ASSUME CacheInvariant, NEW r \in CachedRuns, CacheStep(r)
  PROVE  IsFiniteSet(Working') /\ Cardinality(Working') <= Workers
<1>0. /\ CacheTypeOK /\ Workers \in Nat /\ IsFiniteSet(Working) /\ Cardinality(Working) <= Workers
      /\ Cardinality(Working) \in Nat
  BY ResponseCacheAssumption, FS_CardinalityType DEF CacheInvariant
<1>1. \A s \in CachedRuns : s # r => asker'[s].pc = asker[s].pc
  BY <1>0, AskerIs
<1>2. Working' \subseteq Working \cup {r}
  BY <1>1 DEF Working
<1>3. CASE Take(r)
  <2>1. r \notin Working /\ Cardinality(Working) < Workers
    BY <1>3 DEF Take, Working
  <2>2. IsFiniteSet(Working \cup {r}) /\ Cardinality(Working \cup {r}) <= Workers
    BY <1>0, <2>1, FS_AddElement
  <2>3. /\ IsFiniteSet(Working')
        /\ Cardinality(Working') \in Nat /\ Cardinality(Working \cup {r}) \in Nat
        /\ Cardinality(Working') <= Cardinality(Working \cup {r})
    BY <1>2, <2>2, FS_Subset, FS_CardinalityType
  <2> QED
    BY <1>0, <2>2, <2>3
<1>4. CASE ~Take(r)
  <2>1. r \in Working
    BY <1>4 DEF CacheStep, Lookup, Ask, Put, Working
  <2>2. Working' \subseteq Working
    BY <1>2, <2>1
  <2>3. /\ IsFiniteSet(Working') /\ Cardinality(Working') \in Nat
        /\ Cardinality(Working') <= Cardinality(Working)
    BY <1>0, <2>2, FS_Subset, FS_CardinalityType
  <2> QED
    BY <1>0, <2>3
<1> QED
  BY <1>3, <1>4

\* Fewer runs that may bring another answer, and no more of these answers.
LEMMA FewerStayFew ==
  ASSUME CacheInvariant, NEW q, q \in DOMAIN cache, q \in DOMAIN cache',
         Others(q)' = Others(q), Holding(q)' \subseteq Holding(q)
  PROVE  AnswersFit(q)'
<1>1. IsFiniteSet(Others(q)) /\ Cardinality(Others(q)) + Cardinality(Holding(q)) < Workers
  BY DEF CacheInvariant, AnswersFit
<1>2. Holding(q) \subseteq Working
  BY DEF Holding, Working
<1>3. IsFiniteSet(Holding(q))
  BY <1>2, FS_Subset DEF CacheInvariant
<1>4. Cardinality(Holding(q)') <= Cardinality(Holding(q))
  BY <1>3, FS_Subset
<1>5. /\ Cardinality(Holding(q)') \in Nat /\ Cardinality(Holding(q)) \in Nat
      /\ Cardinality(Others(q)) \in Nat /\ Workers \in Nat
  BY <1>1, <1>3, FS_Subset, FS_CardinalityType, ResponseCacheAssumption
<1> QED
  BY <1>1, <1>4, <1>5 DEF AnswersFit

LEMMA OtherStepsKeepAnswers ==
  ASSUME CacheInvariant, NEW r \in CachedRuns, Take(r) \/ Lookup(r) \/ Ask(r), NEW q
  PROVE  AnswersFit(q)'
<1>0. /\ CacheTypeOK /\ CacheStep(r) /\ cache' = cache /\ given' = given
      /\ \A s \in CachedRuns : s # r => asker'[s] = asker[s]
  BY AskerIs DEF CacheInvariant, CacheStep, Take, Lookup, Ask
<1>1. CASE q \notin DOMAIN cache
  BY <1>0, <1>1 DEF CacheInvariant, AnswersFit, Given
<1>2. CASE q \in DOMAIN cache
  <2>1. Others(q)' = Others(q)
    BY <1>0 DEF Others, Given
  <2>2. r \in Holding(q)' => r \in Holding(q)
    <3>1. CASE Take(r)
      <4>1. asker'[r].pc = "lookup"
        BY <1>0, <3>1, AskerMoves DEF Take
      <4> QED
        BY <4>1 DEF Holding
    <3>2. CASE Lookup(r)
      <4>1. CASE asker[r].question = q
        BY <1>0, <1>2, <3>2, <4>1, AskerMoves DEF Lookup, Holding
      <4>2. CASE asker[r].question # q
        BY <1>0, <3>2, <4>2, AskerMoves DEF Lookup, Holding
      <4> QED
        BY <4>1, <4>2
    <3>3. CASE Ask(r)
      <4>1. asker'[r].question = asker[r].question /\ asker[r].pc \in {"request", "repair"}
        BY <1>0, <3>3, AskerMoves DEF Ask
      <4> QED
        BY <4>1 DEF Holding
    <3> QED
      BY <3>1, <3>2, <3>3
  <2>3. Holding(q)' \subseteq Holding(q)
    BY <1>0, <2>2 DEF Holding
  <2> QED
    BY <1>0, <1>2, <2>1, <2>3, FewerStayFew
<1> QED
  BY <1>1, <1>2

\* A put that uses its answer, or that fails.
LEMMA PutKeepsAnswers ==
  ASSUME CacheInvariant, NEW r \in CachedRuns, Put(r), NEW q
  PROVE  AnswersFit(q)'
<1> DEFINE p == asker[r].question
           a == asker[r].answer
<1>0. /\ CacheTypeOK /\ AnswersFit(q) /\ Workers \in Nat
      /\ \A s \in CachedRuns : s # r => asker'[s] = asker[s]
      /\ asker[r] \in Asker /\ asker[r].pc = "put"
  BY AskerIs, ResponseCacheAssumption DEF CacheInvariant, CacheStep, CacheTypeOK, Put
<1>1. asker'[r].pc \in {"lookup", "done", "failed"}
  <2>1. Moves(r, "failed") => asker'[r].pc = "failed"
    BY <1>0, AskerMoves
  <2>2. \/ asker'[r] = [pc |-> "lookup", question |-> <<a>>, answer |-> 0]
        \/ asker'[r] = [asker[r] EXCEPT !.pc = "done"]
        \/ Moves(r, "failed")
    BY <1>0 DEF Put, CacheTypeOK
  <2> QED
    BY <1>0, <2>1, <2>2 DEF Asker
<1>2. Holding(q)' \subseteq {s \in CachedRuns :
        /\ s # r /\ asker[s].question = q /\ asker[s].pc \in {"request", "repair", "put"}
        /\ asker[s].pc = "put" => asker[s].answer # cache'[q]}
  BY <1>0, <1>1 DEF Holding
<1>3. given' = given \/ given' = given \cup {<<p, a>>}
  BY DEF Put
<1>4. \/ cache' = cache
      \/ /\ p \notin DOMAIN cache
         /\ cache' = [k \in DOMAIN cache \cup {p} |-> IF k = p THEN a ELSE cache[k]]
  BY DEF Put
<1>5. p \notin DOMAIN cache' => given' = given
  <2>1. PICK raised \in BOOLEAN, linked \in BOOLEAN :
          /\ ~raised => linked
          /\ cache' = IF linked /\ p \notin DOMAIN cache
                   THEN [k \in DOMAIN cache \cup {p} |-> IF k = p THEN a ELSE cache[k]]
                   ELSE cache
          /\ Used(raised) \/ given' = given
    BY DEF Put
  <2> QED
    BY <2>1 DEF Used
<1> HIDE DEF p, a
<1>6. CASE q # p
  <2>1. Given(q)' = Given(q)
    BY <1>3, <1>6 DEF Given
  <2>2. q \in DOMAIN cache' <=> q \in DOMAIN cache
    BY <1>4, <1>6
  <2>3. CASE q \notin DOMAIN cache
    BY <1>0, <2>1, <2>2, <2>3 DEF AnswersFit
  <2>4. CASE q \in DOMAIN cache
    <3>1. cache'[q] = cache[q]
      BY <1>4, <1>6, <2>4
    <3>2. Others(q)' = Others(q) /\ Holding(q)' \subseteq Holding(q)
      BY <1>2, <2>1, <3>1 DEF Others, Holding
    <3> QED
      BY <2>2, <2>4, <3>2, FewerStayFew
  <2> QED
    BY <2>3, <2>4
<1>7. CASE q = p /\ q \notin DOMAIN cache'
  <2>1. q \notin DOMAIN cache
    BY <1>4, <1>7
  <2> QED
    BY <1>0, <1>5, <1>7, <2>1 DEF AnswersFit, Given
<1>8. CASE q = p /\ q \in DOMAIN cache' /\ q \notin DOMAIN cache
  <2>1. cache'[q] = a /\ Given(q) = {}
    BY <1>0, <1>4, <1>8 DEF AnswersFit
  <2>2. Given(q)' \subseteq {<<p, a>>}
    BY <1>3, <2>1 DEF Given
  <2>3. Others(q)' = {}
    BY <1>8, <2>1, <2>2 DEF Others
  <2>4. Holding(q)' \subseteq Working \ {r} /\ r \in Working
    BY <1>0, <1>2 DEF Working
  <2>5. /\ IsFiniteSet(Working \ {r}) /\ Cardinality(Working \ {r}) < Workers
        /\ Cardinality(Working \ {r}) \in Nat
    <3>1. IsFiniteSet(Working) /\ Cardinality(Working) <= Workers
      BY DEF CacheInvariant
    <3>2. Cardinality(Working) \in Nat
      BY <3>1, FS_CardinalityType
    <3>3. IsFiniteSet(Working \ {r}) /\ Cardinality(Working \ {r}) = Cardinality(Working) - 1
      BY <2>4, <3>1, FS_RemoveElement
    <3>4. Cardinality(Working \ {r}) \in Nat
      BY <3>3, FS_CardinalityType
    <3> QED
      BY <1>0, <3>1, <3>2, <3>3, <3>4
  <2>6. Cardinality(Holding(q)') \in Nat /\ Cardinality(Holding(q)') <= Cardinality(Working \ {r})
    BY <2>4, <2>5, FS_Subset, FS_CardinalityType
  <2>7. IsFiniteSet(Others(q)') /\ Cardinality(Others(q)') = 0
    BY <2>3, FS_EmptySet
  <2> QED
    BY <1>0, <1>8, <2>5, <2>6, <2>7 DEF AnswersFit
<1>9. CASE q = p /\ q \in DOMAIN cache
  <2>1. cache' = cache
    BY <1>4, <1>9
  <2>2. Holding(q)' \subseteq Holding(q) \ {r}
    BY <1>2, <2>1 DEF Holding
  <2>3. CASE Others(q)' = Others(q)
    BY <1>9, <2>1, <2>2, <2>3, FewerStayFew
  <2>4. CASE Others(q)' # Others(q)
    <3>1. Others(q)' = Others(q) \cup {<<p, a>>} /\ a # cache[q]
      BY <1>3, <1>9, <2>1, <2>4 DEF Others, Given
    <3>2. r \in Holding(q)
      BY <1>0, <1>9, <3>1 DEF Holding, p, a
    <3>3. IsFiniteSet(Others(q)) /\ Cardinality(Others(q)) + Cardinality(Holding(q)) < Workers
      BY <1>0, <1>9 DEF AnswersFit
    <3>4. Holding(q) \subseteq Working
      BY DEF Holding, Working
    <3>5. IsFiniteSet(Holding(q))
      BY <3>4, FS_Subset DEF CacheInvariant
    <3>6. /\ IsFiniteSet(Holding(q) \ {r})
          /\ Cardinality(Holding(q) \ {r}) = Cardinality(Holding(q)) - 1
      BY <3>2, <3>5, FS_RemoveElement
    <3>7. Cardinality(Holding(q)') \in Nat
          /\ Cardinality(Holding(q)') <= Cardinality(Holding(q) \ {r})
      BY <2>2, <3>6, FS_Subset, FS_CardinalityType
    <3>8. /\ IsFiniteSet(Others(q)')
          /\ Cardinality(Others(q)') <= Cardinality(Others(q)) + 1
          /\ Cardinality(Others(q)') \in Nat /\ Cardinality(Others(q)) \in Nat
          /\ Cardinality(Holding(q)) \in Nat
      <4>1. Cardinality(Others(q)) \in Nat /\ Cardinality(Holding(q)) \in Nat
        BY <3>3, <3>5, FS_CardinalityType
      <4>2. /\ IsFiniteSet(Others(q)')
            /\ Cardinality(Others(q)') \in {Cardinality(Others(q)), Cardinality(Others(q)) + 1}
        BY <3>1, <3>3, FS_AddElement
      <4> QED
        BY <4>1, <4>2
    <3> QED
      BY <1>0, <1>9, <2>1, <3>3, <3>6, <3>7, <3>8 DEF AnswersFit
  <2> QED
    BY <2>3, <2>4
<1> QED
  BY <1>4, <1>6, <1>7, <1>8, <1>9

LEMMA CacheInvariantHolds == CacheSpec => []CacheInvariant
<1>1. CacheInit => CacheInvariant
  <2> SUFFICES ASSUME CacheInit PROVE CacheInvariant
    OBVIOUS
  <2>1. CacheTypeOK
    <3>1. [pc |-> "queued", question |-> << >>, answer |-> 0] \in Asker
      BY DEF Asker
    <3> QED
      BY <3>1 DEF CacheInit, CacheTypeOK
  <2>2. Working = {}
    BY DEF CacheInit, Working
  <2>3. \A q : AnswersFit(q)
    BY DEF CacheInit, AnswersFit, Given
  <2> QED
    BY <2>1, <2>2, <2>3, FS_EmptySet, ResponseCacheAssumption DEF CacheInvariant
<1>2. CacheInvariant /\ [CacheNext]_cacheVars => CacheInvariant'
  <2> SUFFICES ASSUME CacheInvariant, [CacheNext]_cacheVars PROVE CacheInvariant'
    OBVIOUS
  <2>1. ASSUME NEW r \in CachedRuns, CacheStep(r) PROVE CacheInvariant'
    <3>1. ASSUME NEW q PROVE AnswersFit(q)'
      BY <2>1, OtherStepsKeepAnswers, PutKeepsAnswers DEF CacheStep
    <3>2. CacheTypeOK'
      BY <2>1, CacheStepHasType DEF CacheInvariant
    <3> QED
      BY <2>1, <3>1, <3>2, CacheStepKeepsWorking DEF CacheInvariant
  <2>2. CASE UNCHANGED cacheVars
    BY <2>2 DEF cacheVars, CacheInvariant, CacheTypeOK, Working, AnswersFit, Others, Given, Holding
  <2> QED
    BY <2>1, <2>2 DEF CacheNext, CacheStep
<1> QED
  BY <1>1, <1>2, PTL DEF CacheSpec

LEMMA AnswersAreCounted == CacheInvariant => AnswersAreFew
<1> SUFFICES ASSUME CacheInvariant, NEW h \in given
             PROVE  Cardinality({g \in given : g[1] = h[1]}) <= Workers
  BY DEF AnswersAreFew
<1> DEFINE q == h[1]
<1>1. h \in Given(q)
  BY DEF Given
<1>2. /\ q \in DOMAIN cache /\ IsFiniteSet(Others(q))
      /\ Cardinality(Others(q)) + Cardinality(Holding(q)) < Workers
  BY <1>1 DEF CacheInvariant, AnswersFit
<1>3. IsFiniteSet(Holding(q))
  <2>1. Holding(q) \subseteq Working
    BY DEF Holding, Working
  <2> QED
    BY <2>1, FS_Subset DEF CacheInvariant
<1>4. Given(q) \subseteq Others(q) \cup {<<q, cache[q]>>}
  BY DEF Others
<1>5. /\ IsFiniteSet(Others(q) \cup {<<q, cache[q]>>})
      /\ Cardinality(Others(q) \cup {<<q, cache[q]>>}) <= Cardinality(Others(q)) + 1
      /\ Cardinality(Others(q)) \in Nat /\ Cardinality(Holding(q)) \in Nat
  <2>1. Cardinality(Others(q)) \in Nat /\ Cardinality(Holding(q)) \in Nat
    BY <1>2, <1>3, FS_CardinalityType
  <2> DEFINE more == Others(q) \cup {<<q, cache[q]>>}
  <2>2. /\ IsFiniteSet(more)
        /\ Cardinality(more) \in {Cardinality(Others(q)), Cardinality(Others(q)) + 1}
    BY <1>2, FS_AddElement
  <2> QED
    BY <2>1, <2>2
<1>6. /\ Cardinality(Given(q)) \in Nat
      /\ Cardinality(Given(q)) <= Cardinality(Others(q) \cup {<<q, cache[q]>>})
      /\ Cardinality(Others(q) \cup {<<q, cache[q]>>}) \in Nat
  BY <1>4, <1>5, FS_Subset, FS_CardinalityType
<1>7. Cardinality(Given(q)) <= Workers
  BY <1>2, <1>5, <1>6, ResponseCacheAssumption
<1> QED
  BY <1>7 DEF Given

\* The runs that ask one question are given no more answers than there are threads, for
\* any number of runs and of failures of the cache.
THEOREM CachedAnswersAreFew == CacheSpec => []AnswersAreFew
BY CacheInvariantHolds, AnswersAreCounted, PTL

===============================================================================
