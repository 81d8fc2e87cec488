----------------------- MODULE ContinuationChainProofs -----------------------
(***************************************************************************)
(* Proofs about ContinuationChain, for every number of benchmarks,          *)
(* packages, processes, limits, starts and stops.                           *)
(***************************************************************************)
EXTENDS ContinuationChain, TLAPS

-------------------------------------------------------------------------------
(* Documents                                                               *)

LEMMA PartIsContent ==
  ASSUME NEW c \in Carryover, NEW doc \in Document
  PROVE  Part(doc, c) \in Content /\ Part(doc, c) # None
<1>1. Part(doc, c) \in Content
  BY DEF Part, Document, Content, Carryover
<1> QED
  BY <1>1, NoneIsNoContent

LEMMA CarryoverIsNotNone == ASSUME NEW c \in Carryover PROVE c # None
BY NoneIsNoContent DEF Content

\* The preflight of a package is a carryover, if there is one.
LEMMA BoundIsCarryover ==
  ASSUME Invariant, NEW d \in Packages, Bound(d) # None
  PROVE  Bound(d) \in Carryover /\ Proper(Bound(d))
BY DEF Invariant, PackageSound, Proper

\* An authorized package is complete.
LEMMA AuthorizedIsComplete ==
  ASSUME Invariant, NEW d \in Packages, Authorized(d)
  PROVE  /\ Bound(d) # None /\ Proper(Bound(d)) /\ Bound(d).kind = "authorized"
         /\ Historical(Bound(d))
<1>1. Bound(d) # None
  BY DEF Authorized, Document, Bound
<1> QED
  BY <1>1, BoundIsCarryover DEF Authorized

-------------------------------------------------------------------------------
(* What no step takes away                                                 *)

\* The evidence of a failed benchmark, and a package with a preflight.
EvidenceKept ==
  \A b \in Ids : failure[b] =>
    failure'[b] /\ base'[b] = base[b] /\ index'[b] = index[b] /\ settled'[b] = settled[b]
PackagesKept == \A d \in Packages : Bound(d) # None => pkg'[d] = pkg[d]

LEMMA StepKeepsEvidence ==
  ASSUME Invariant, NEW p \in Procs, Step(p)
  PROVE  EvidenceKept
<1> USE DEF Invariant, TypeOK, EvidenceKept, evidence
<1>1. CASE DeriveConservative(p)
  BY <1>1 DEF DeriveConservative, Derives
<1>2. CASE DeriveChained(p)
  BY <1>2 DEF DeriveChained, Derives
<1>3. CASE BeginPackage(p)
  BY <1>3 DEF BeginPackage
<1>4. CASE WriteDocument(p)
  BY <1>4 DEF WriteDocument
<1>5. CASE VerifyPackage(p)
  BY <1>5 DEF VerifyPackage
<1>6. CASE StartAnew(p)
  BY <1>6 DEF StartAnew, Begins, NotBegun, EvidenceSound
<1>7. CASE WriteConfig(p)
  BY <1>7 DEF WriteConfig, Begins, NotBegun, EvidenceSound
<1>8. CASE Attempt(p)
  <2>1. place[p] \in Ids /\ ~failure[place[p]]
    BY <1>8 DEF Attempt, RunSound, Running
  <2> QED
    BY <1>8, <2>1 DEF Attempt
<1>9. CASE WriteIndex(p)
  <2>1. place[p] \in Ids /\ ~failure[place[p]]
    BY <1>9 DEF WriteIndex, RunSound, Running
  <2> QED
    BY <1>9, <2>1 DEF WriteIndex
<1>10. CASE WriteFailure(p)
  BY <1>10 DEF WriteFailure
<1>11. CASE Stop(p)
  BY <1>11 DEF Stop
<1> QED
  BY <1>1, <1>2, <1>3, <1>4, <1>5, <1>6, <1>7, <1>8, <1>9, <1>10, <1>11 DEF Step

\* A document is written into a package without a preflight only.
LEMMA WriterIsEarlier ==
  ASSUME Invariant, NEW p \in Procs, pc[p] \in Document, Free(place[p], pc[p])
  PROVE  Bound(place[p]) = None
<1>1. place[p] \in Packages
  BY DEF Invariant, WriterSound
<1>2. CASE pc[p] = "source"
  <2>1. pkg[place[p]] = Empty
    BY <1>1, <1>2 DEF Invariant, PackageSound, Free
  <2> QED
    BY <2>1 DEF Empty, Bound, Document
<1>3. CASE pc[p] \in Writing
  <2>1. "preflight" \notin Earlier(pc[p], plan[p].kind)
    BY <1>3 DEF Earlier, Writing, Document
  <2> QED
    BY <1>3, <2>1 DEF Invariant, WriterSound, Bound, Document
<1> QED
  BY <1>2, <1>3 DEF Writing

LEMMA StepKeepsPackages ==
  ASSUME Invariant, NEW p \in Procs, Step(p)
  PROVE  PackagesKept
<1> USE DEF PackagesKept
<1>1. CASE WriteDocument(p) /\ Free(place[p], pc[p])
  <2>1. Bound(place[p]) = None
    BY <1>1, WriterIsEarlier DEF WriteDocument
  <2> QED
    BY <1>1, <2>1 DEF WriteDocument, Invariant, TypeOK
<1>2. CASE WriteDocument(p) /\ ~Free(place[p], pc[p])
  BY <1>2 DEF WriteDocument
<1>3. CASE ~WriteDocument(p)
  <2>1. pkg' = pkg
    BY <1>3 DEF Step, DeriveConservative, DeriveChained, Derives, BeginPackage, VerifyPackage,
       StartAnew, WriteConfig, Attempt, WriteIndex, WriteFailure, Stop
  <2> QED
    BY <2>1
<1> QED
  BY <1>1, <1>2, <1>3

\* What supports a carryover supports it for ever.
LEMMA HistoricalStays ==
  ASSUME EvidenceKept, NEW c \in Carryover, Historical(c)
  PROVE  Historical(c)'
BY DEF EvidenceKept, Historical, FailedAfter, Carryover

LEMMA AuthorizedStays ==
  ASSUME Invariant, EvidenceKept, PackagesKept, NEW d \in Packages, Authorized(d)
  PROVE  Authorized(d)' /\ pkg'[d] = pkg[d]
<1>1. Bound(d) # None /\ Bound(d) \in Carryover /\ Historical(Bound(d))
  BY AuthorizedIsComplete DEF Proper
<1>2. pkg'[d] = pkg[d]
  BY <1>1 DEF PackagesKept
<1>3. Historical(Bound(d))'
  BY <1>1, <1>2 DEF EvidenceKept, Historical, FailedAfter, Carryover, Bound
<1> QED
  BY <1>2, <1>3 DEF Authorized, Bound

LEMMA SupportedStays ==
  ASSUME Invariant, EvidenceKept, PackagesKept, NEW c \in Carryover, Supported(c)
  PROVE  Supported(c)'
<1>1. CASE c.kind # "chained"
  BY <1>1, HistoricalStays DEF Supported
<1>2. CASE c.kind = "chained"
  <2>1. PICK d \in Packages :
          /\ Authorized(d)
          /\ Bound(d).predecessor = c.ancestor /\ Bound(d).successor = c.predecessor
          /\ Bound(d).consumed = c.before /\ Bound(d).limit = c.limit
    BY <1>2 DEF Supported, Chained
  <2>2. Authorized(d)' /\ pkg'[d] = pkg[d]
    BY <2>1, AuthorizedStays
  <2>3. FailedAfter(c.predecessor, c.before) /\ settled[c.predecessor]
        /\ c.consumed = Consumed(c.before, index[c.predecessor])
    BY <1>2 DEF Supported, Chained
  <2>4. (FailedAfter(c.predecessor, c.before) /\ settled[c.predecessor]
        /\ c.consumed = Consumed(c.before, index[c.predecessor]))'
    BY <2>3 DEF EvidenceKept, FailedAfter, Carryover, Consumed
  <2> QED
    BY <1>2, <2>1, <2>2, <2>4 DEF Supported, Chained, Bound
<1> QED
  BY <1>1, <1>2

-------------------------------------------------------------------------------
(* The invariant                                                           *)

LEMMA InitInvariant == Init => Invariant
<1> SUFFICES ASSUME Init PROVE Invariant
  OBVIOUS
<1>1. \A d \in Packages : pkg[d] = Empty /\ Bound(d) = None
  BY DEF Init, Bound, Empty, Document
<1>2. TypeOK
  BY DEF Init, TypeOK, Empty, Document
<1>3. PackageIsOneWrite /\ EvidenceStays /\ PackageSound
  BY <1>1 DEF PackageIsOneWrite, EvidenceStays, PackageSound
<1>4. WriterSound /\ RunSound /\ EvidenceSound
  BY DEF Init, WriterSound, RunSound, EvidenceSound, Running, Writing, Document
<1> QED
  BY <1>2, <1>3, <1>4 DEF Invariant

LEMMA StepTypeOK ==
  ASSUME Invariant, NEW p \in Procs, Step(p)
  PROVE  TypeOK'
<1> USE DEF TypeOK, evidence, memory, bounds, Ends, Goes
<1>0. TypeOK
  BY DEF Invariant
<1>1. CASE DeriveConservative(p)
  <2>1. PICK b, s \in Ids, kind \in {"plain", "authorized"}, limit \in Limits :
          /\ FailedAfter(b, 0) /\ index[b] \in 1..limit
          /\ Derives(p, [kind |-> kind, ancestor |-> None, predecessor |-> b, successor |-> s,
                         before |-> 0, consumed |-> index[b], limit |-> limit])
    BY <1>1 DEF DeriveConservative
  <2>2. [kind |-> kind, ancestor |-> None, predecessor |-> b, successor |-> s,
         before |-> 0, consumed |-> index[b], limit |-> limit] \in Carryover
    BY <1>0, <2>1, ContinuationAssumption DEF Carryover, FailedAfter
  <2> QED
    BY <1>0, <2>1, <2>2 DEF Derives
<1>2. CASE DeriveChained(p)
  <2>1. PICK d \in Packages, s \in Ids :
          /\ Authorized(d)
          /\ FailedAfter(Bound(d).successor, Bound(d).consumed)
          /\ Derives(p, [kind |-> "chained", ancestor |-> Bound(d).predecessor,
                         predecessor |-> Bound(d).successor, successor |-> s,
                         before |-> Bound(d).consumed,
                         consumed |-> Consumed(Bound(d).consumed, index[Bound(d).successor]),
                         limit |-> Bound(d).limit])
    BY <1>2 DEF DeriveChained
  <2>2. Bound(d) \in Carryover
    BY <2>1, AuthorizedIsComplete DEF Proper
  <2>3. [kind |-> "chained", ancestor |-> Bound(d).predecessor,
         predecessor |-> Bound(d).successor, successor |-> s, before |-> Bound(d).consumed,
         consumed |-> Consumed(Bound(d).consumed, index[Bound(d).successor]),
         limit |-> Bound(d).limit] \in Carryover
    BY <1>0, <2>1, <2>2 DEF Carryover, FailedAfter, Consumed
  <2> QED
    BY <1>0, <2>1, <2>3 DEF Derives
<1>3. CASE BeginPackage(p)
  BY <1>0, <1>3 DEF BeginPackage, Document
<1>4. CASE WriteDocument(p)
  <2>1. plan[p] \in Carryover /\ place[p] \in Packages /\ pc[p] \in Document
    BY <1>4 DEF WriteDocument, Invariant, WriterSound, Proper
  <2>2. Part(pc[p], plan[p]) \in Content
    BY <2>1, PartIsContent
  <2>3. CASE Free(place[p], pc[p])
    <3>1. pkg' = [pkg EXCEPT ![place[p]][pc[p]] = Part(pc[p], plan[p])]
      BY <1>4, <2>3 DEF WriteDocument
    <3>2. pkg' \in [Packages -> [Document -> Content \cup {None}]]
      BY <1>0, <2>1, <2>2, <3>1
    <3>3. pc[p] # "preflight" => Following(pc[p], plan[p].kind) \in Document
      BY <2>1 DEF Following, Document
    <3>4. pc' \in [Procs -> Document \cup {"idle", "derived", "verified", "working", "failure"}]
      BY <1>0, <1>4, <2>3, <3>3 DEF WriteDocument
    <3> QED
      BY <1>0, <1>4, <2>3, <3>2, <3>4 DEF WriteDocument
  <2>4. CASE ~Free(place[p], pc[p])
    BY <1>0, <1>4, <2>4 DEF WriteDocument
  <2> QED
    BY <2>3, <2>4
<1>5. CASE VerifyPackage(p)
  <2>1. PICK d \in Packages :
          /\ Authorized(d)
          /\ plan' = [plan EXCEPT ![p] = Bound(d)]
          /\ place' = [place EXCEPT ![p] = Bound(d).successor]
          /\ cap' = [cap EXCEPT ![p] = Bound(d).limit]
    BY <1>5 DEF VerifyPackage, Starts
  <2>2. Bound(d) \in Carryover
    BY <2>1, AuthorizedIsComplete DEF Proper
  <2>3. Bound(d).successor \in Ids /\ Bound(d).limit \in Nat
    BY <2>2 DEF Carryover
  <2> QED
    BY <1>0, <1>5, <2>1, <2>2, <2>3 DEF VerifyPackage
<1>6. CASE StartAnew(p)
  BY <1>0, <1>6, ContinuationAssumption DEF StartAnew, Begins, Before
<1>7. CASE WriteConfig(p)
  <2>1. /\ plan[p] \in Carryover /\ place[p] \in Ids
        /\ plan[p].consumed \in Nat
    BY <1>7 DEF WriteConfig, Invariant, RunSound, Proper, Carryover
  <2>2. Before(plan[p]) \in Nat
    BY <2>1 DEF Before
  <2>3. begun' \in [Ids -> BOOLEAN] /\ base' \in [Ids -> Nat]
        /\ under' \in [Ids -> Carryover \cup {None}] /\ runs' \in Nat
    <3>1. begun \in [Ids -> BOOLEAN] /\ base \in [Ids -> Nat]
          /\ under \in [Ids -> Carryover \cup {None}] /\ runs \in Nat
      BY <1>0
    <3>2. CASE Begins(p, place[p], plan[p])
      BY <2>1, <2>2, <3>1, <3>2 DEF Begins
    <3>3. CASE UNCHANGED <<begun, base, under, runs>>
      BY <3>1, <3>3
    <3> QED
      BY <1>7, <3>2, <3>3 DEF WriteConfig
  <2>4. /\ pc' \in [Procs -> Document \cup {"idle", "derived", "verified", "working", "failure"}]
        /\ plan' \in [Procs -> Carryover \cup {None}]
        /\ place' \in [Procs -> Packages \cup Ids \cup {None}]
        /\ cap' \in [Procs -> Nat] /\ refs' \in [Procs -> Nat]
    BY <1>0, <1>7 DEF WriteConfig, Begins
  <2> QED
    BY <1>0, <1>7, <2>3, <2>4 DEF WriteConfig
<1>8. CASE Attempt(p)
  <2>1. refs' \in [Procs -> Nat] /\ sent' \in [Ids -> Nat]
    BY <1>0, <1>8 DEF Attempt
  <2>2. settled' \in [Ids -> BOOLEAN]
    <3>1. settled' \in {settled, [settled EXCEPT ![place[p]] = FALSE]}
      BY <1>8 DEF Attempt
    <3>2. settled \in [Ids -> BOOLEAN]
      BY <1>0
    <3> QED
      BY <3>1, <3>2
  <2> QED
    BY <1>0, <1>8, <2>1, <2>2 DEF Attempt
<1>9. CASE WriteIndex(p)
  <2>1. index' \in [Ids -> Nat \cup {None}]
    BY <1>0, <1>9 DEF WriteIndex
  <2>2. /\ pc' \in [Procs -> Document \cup {"idle", "derived", "verified", "working", "failure"}]
        /\ plan' \in [Procs -> Carryover \cup {None}]
        /\ place' \in [Procs -> Packages \cup Ids \cup {None}]
        /\ cap' \in [Procs -> Nat] /\ refs' \in [Procs -> Nat]
    BY <1>0, <1>9 DEF WriteIndex
  <2> QED
    BY <1>0, <1>9, <2>1, <2>2 DEF WriteIndex
<1>10. CASE WriteFailure(p)
  BY <1>0, <1>10 DEF WriteFailure
<1>11. CASE Stop(p)
  BY <1>0, <1>11 DEF Stop
<1> QED
  BY <1>1, <1>2, <1>3, <1>4, <1>5, <1>6, <1>7, <1>8, <1>9, <1>10, <1>11 DEF Step

\* A step of p changes nothing in the memory of another process.
LEMMA Bystanders ==
  ASSUME Invariant, NEW p \in Procs, Step(p), NEW q \in Procs, q # p
  PROVE  /\ pc'[q] = pc[q] /\ plan'[q] = plan[q] /\ place'[q] = place[q]
         /\ cap'[q] = cap[q] /\ refs'[q] = refs[q]
<1> USE DEF Invariant, TypeOK, memory, Ends, Goes, Derives, Begins
<1>1. CASE DeriveConservative(p) \/ DeriveChained(p)
  BY <1>1 DEF DeriveConservative, DeriveChained
<1>2. CASE BeginPackage(p) \/ WriteDocument(p)
  BY <1>2 DEF BeginPackage, WriteDocument
<1>3. CASE VerifyPackage(p) \/ StartAnew(p) \/ WriteConfig(p)
  BY <1>3 DEF VerifyPackage, StartAnew, WriteConfig
<1>4. CASE Attempt(p) \/ WriteIndex(p) \/ WriteFailure(p) \/ Stop(p)
  BY <1>4 DEF Attempt, WriteIndex, WriteFailure, Stop
<1> QED
  BY <1>1, <1>2, <1>3, <1>4 DEF Step

\* A process whose call ended is idle and has nothing in memory.
LEMMA EndsIsIdle ==
  ASSUME TypeOK, NEW p \in Procs, Ends(p)
  PROVE  pc'[p] = "idle" /\ refs'[p] = 0
BY DEF TypeOK, Ends, Goes

\* What a step leaves in a package: nothing new, or the next document of p.
LEMMA PackageStep ==
  ASSUME Invariant, NEW p \in Procs, Step(p), NEW d \in Packages
  PROVE  \/ pkg'[d] = pkg[d]
         \/ /\ WriteDocument(p) /\ Free(place[p], pc[p]) /\ d = place[p]
            /\ pkg'[d] = [pkg[d] EXCEPT ![pc[p]] = Part(pc[p], plan[p])]
<1>1. CASE WriteDocument(p)
  BY <1>1 DEF WriteDocument, Invariant, TypeOK
<1>2. CASE ~WriteDocument(p)
  BY <1>2 DEF Step, DeriveConservative, DeriveChained, Derives, BeginPackage, VerifyPackage,
     StartAnew, WriteConfig, Attempt, WriteIndex, WriteFailure, Stop
<1> QED
  BY <1>1, <1>2

\* The carryover that p has at work when it writes, and where.
LEMMA WriterAtWork ==
  ASSUME Invariant, NEW p \in Procs, pc[p] \in Document
  PROVE  /\ plan[p] \in Carryover /\ Proper(plan[p]) /\ Supported(plan[p])
         /\ place[p] \in Packages
         /\ Part(pc[p], plan[p]) # None
         /\ pc[p] = "authorization" => plan[p].kind # "plain"
<1>1. /\ Proper(plan[p]) /\ Supported(plan[p]) /\ place[p] \in Packages
      /\ pc[p] = "authorization" => plan[p].kind # "plain"
  BY DEF Invariant, WriterSound
<1> QED
  BY <1>1, PartIsContent DEF Proper

\* Whoever has published a first document keeps others out of the directory.
LEMMA SourceKeepsOut ==
  ASSUME Invariant, NEW q \in Procs, pc[q] \in Writing
  PROVE  pkg[place[q]]["source"] # None
<1>1. pc[q] \in Document
  BY DEF Writing
<1>2. "source" \in Earlier(pc[q], plan[q].kind)
  BY DEF Earlier, Writing, Document
<1>3. pkg[place[q]]["source"] = Part("source", plan[q])
  BY <1>2 DEF Invariant, WriterSound, Document
<1> QED
  BY <1>1, <1>3, WriterAtWork, PartIsContent DEF Document

LEMMA StepPackages ==
  ASSUME Invariant, NEW p \in Procs, Step(p)
  PROVE  PackageIsOneWrite' /\ EvidenceStays' /\ PackageSound'
<1>0. EvidenceKept /\ PackagesKept
  BY StepKeepsEvidence, StepKeepsPackages
<1> SUFFICES ASSUME NEW d \in Packages
             PROVE  /\ (Bound(d) # None)' =>
                         /\ \A doc \in Document :
                              pkg'[d][doc] = IF doc = "authorization" /\ Bound(d)'.kind = "plain"
                                             THEN None ELSE Part(doc, Bound(d)')
                         /\ Supported(Bound(d))'
                         /\ Proper(Bound(d)')
                    /\ pkg'[d]["source"] = None => pkg'[d] = Empty
  BY DEF PackageIsOneWrite, EvidenceStays, PackageSound, Proper, Part, Bound
<1>1. CASE pkg'[d] = pkg[d]
  <2>1. Bound(d)' = Bound(d)
    BY <1>1 DEF Bound
  <2>2. ASSUME Bound(d) # None PROVE Supported(Bound(d))'
    <3>1. Bound(d) \in Carryover /\ Supported(Bound(d))
      BY <2>2, BoundIsCarryover DEF Invariant, EvidenceStays
    <3>2. PICK c \in Carryover : c = Bound(d)
      BY <3>1
    <3>3. Supported(c)'
      BY <1>0, <3>1, <3>2, SupportedStays
    <3> QED
      BY <2>1, <3>2, <3>3 DEF Supported, Chained, Historical, FailedAfter
  <2>3. Bound(d) # None => Proper(Bound(d))
    BY DEF Invariant, PackageSound
  <2> QED
    BY <1>1, <2>1, <2>2, <2>3 DEF Invariant, PackageIsOneWrite, PackageSound
<1>2. CASE /\ WriteDocument(p) /\ Free(place[p], pc[p]) /\ d = place[p]
           /\ pkg'[d] = [pkg[d] EXCEPT ![pc[p]] = Part(pc[p], plan[p])]
  <2>1. pc[p] \in Document
    BY <1>2 DEF WriteDocument
  <2>2. Bound(d) = None
    BY <1>2, <2>1, WriterIsEarlier
  <2>3. pkg[d] \in [Document -> Content \cup {None}]
    BY DEF Invariant, TypeOK
  <2>4. pkg'[d]["source"] # None
    <3>1. CASE pc[p] = "source"
      BY <1>2, <2>1, <2>3, <3>1, WriterAtWork DEF Document
    <3>2. CASE pc[p] \in Writing
      BY <1>2, <2>1, <2>3, <3>2, SourceKeepsOut DEF Document, Writing
    <3> QED
      BY <2>1, <3>1, <3>2 DEF Writing
  <2>5. CASE pc[p] # "preflight"
    BY <1>2, <2>2, <2>3, <2>4, <2>5 DEF Bound, Document
  <2>6. CASE pc[p] = "preflight"
    <3>1. Bound(d)' = plan[p]
      BY <1>2, <2>3, <2>6 DEF Bound, Document, Part
    <3>2. plan[p] \in Carryover /\ Proper(plan[p]) /\ Supported(plan[p])
      BY <2>1, WriterAtWork
    <3>3. Supported(Bound(d))'
      <4>1. PICK c \in Carryover : c = plan[p]
        BY <3>2
      <4>2. Supported(c)'
        BY <1>0, <3>2, <4>1, SupportedStays
      <4> QED
        BY <3>1, <4>1, <4>2 DEF Supported, Chained, Historical, FailedAfter
    <3>4. ASSUME NEW doc \in Document
          PROVE  pkg'[d][doc] = IF doc = "authorization" /\ plan[p].kind = "plain"
                                THEN None ELSE Part(doc, plan[p])
      <4>1. CASE doc = "preflight"
        BY <1>2, <2>3, <2>6, <4>1 DEF Document
      <4>2. CASE doc # "preflight"
        <5>1. pkg'[d][doc] = pkg[d][doc]
          BY <1>2, <2>3, <2>6, <4>2
        <5>2. pkg[d][doc] = IF doc \in Earlier("preflight", plan[p].kind)
                            THEN Part(doc, plan[p]) ELSE None
          BY <1>2, <2>6 DEF Invariant, WriterSound, Writing, Document
        <5>3. doc \in Earlier("preflight", plan[p].kind)
                <=> ~(doc = "authorization" /\ plan[p].kind = "plain")
          BY <4>2 DEF Earlier, Document
        <5> QED
          BY <5>1, <5>2, <5>3
      <4> QED
        BY <4>1, <4>2
    <3> QED
      BY <2>4, <3>1, <3>2, <3>3, <3>4
  <2> QED
    BY <2>5, <2>6
<1> QED
  BY <1>1, <1>2, PackageStep

\* The sentence of WriterSound about one process.
WriterOf(p) ==
  /\ pc[p] = "derived" => Proper(plan[p])
  /\ pc[p] \in Document =>
       /\ Proper(plan[p]) /\ Supported(plan[p])
       /\ place[p] \in Packages
       /\ pc[p] = "authorization" => plan[p].kind # "plain"
  /\ pc[p] \in Writing =>
       \A doc \in Document :
         pkg[place[p]][doc] = IF doc \in Earlier(pc[p], plan[p].kind)
                              THEN Part(doc, plan[p]) ELSE None

\* Two writers in one directory are one process.
Alone(p, q) == pc[p] \in Writing /\ pc[q] \in Writing /\ place[p] = place[q] => p = q

\* A package at which another process writes is left alone by p.
LEMMA WriterUndisturbed ==
  ASSUME Invariant, NEW p \in Procs, Step(p), NEW q \in Procs, q # p, pc[q] \in Writing
  PROVE  pkg'[place[q]] = pkg[place[q]]
<1>1. pc[q] \in Document /\ place[q] \in Packages
  BY WriterAtWork DEF Writing
<1>2. CASE WriteDocument(p) /\ Free(place[p], pc[p]) /\ place[q] = place[p]
  <2>1. pc[p] \in Document
    BY <1>2 DEF WriteDocument
  <2>2. pc[p] # "source"
    BY <1>2, SourceKeepsOut DEF Free
  <2>3. pc[p] \in Writing
    BY <2>1, <2>2 DEF Writing
  <2> QED
    BY <1>2, <2>3 DEF Invariant, WriterSound
<1> QED
  BY <1>1, <1>2, PackageStep

LEMMA StepWriterOfOther ==
  ASSUME Invariant, NEW p \in Procs, Step(p), NEW q \in Procs, q # p
  PROVE  WriterOf(q)'
<1>1. pc'[q] = pc[q] /\ plan'[q] = plan[q] /\ place'[q] = place[q]
  BY Bystanders
<1>2. WriterOf(q)
  BY DEF Invariant, WriterSound, WriterOf
<1>3. EvidenceKept /\ PackagesKept
  BY StepKeepsEvidence, StepKeepsPackages
<1>4. ASSUME pc[q] \in Document PROVE Supported(plan[q])'
  <2>1. PICK c \in Carryover : c = plan[q]
    BY <1>4, WriterAtWork
  <2>2. Supported(c)'
    BY <1>3, <1>4, <2>1, WriterAtWork, SupportedStays
  <2> QED
    BY <1>1, <2>1, <2>2 DEF Supported, Chained, Historical, FailedAfter
<1>5. pc[q] \in Writing => pkg'[place[q]] = pkg[place[q]]
  BY WriterUndisturbed
<1> QED
  BY <1>1, <1>2, <1>4, <1>5 DEF WriterOf, Proper

\* The document that p publishes and what it finds before it.
LEMMA StepWriterOfWriter ==
  ASSUME Invariant, NEW p \in Procs, WriteDocument(p), Free(place[p], pc[p]), Step(p),
         pc[p] # "preflight"
  PROVE  WriterOf(p)'
<1>1. pc[p] \in Document /\ place[p] \in Packages
      /\ plan[p] \in Carryover /\ Proper(plan[p]) /\ Supported(plan[p])
      /\ (pc[p] = "authorization" => plan[p].kind # "plain")
  BY WriterAtWork DEF WriteDocument
<1>2. /\ pkg' = [pkg EXCEPT ![place[p]][pc[p]] = Part(pc[p], plan[p])]
      /\ pc' = [pc EXCEPT ![p] = Following(pc[p], plan[p].kind)]
      /\ plan' = plan /\ place' = place
  BY DEF WriteDocument, Goes, memory
<1>3. pc'[p] = Following(pc[p], plan[p].kind)
  BY <1>2 DEF Invariant, TypeOK
<1>4. pc'[p] \in Writing
  BY <1>1, <1>3 DEF Following, Document, Writing
<1>5. Supported(plan[p])'
  <2>1. PICK c \in Carryover : c = plan[p]
    BY <1>1
  <2>2. Supported(c)'
    BY <1>1, <2>1, StepKeepsEvidence, StepKeepsPackages, SupportedStays
  <2> QED
    BY <1>2, <2>1, <2>2 DEF Supported, Chained, Historical, FailedAfter
<1>6. pkg[place[p]] \in [Document -> Content \cup {None}]
  BY <1>1 DEF Invariant, TypeOK
<1>7. pkg'[place[p]] = [pkg[place[p]] EXCEPT ![pc[p]] = Part(pc[p], plan[p])]
  BY <1>1, <1>2 DEF Invariant, TypeOK
<1>8. ASSUME NEW doc \in Document
      PROVE  pkg[place[p]][doc] = IF doc \in Earlier(pc[p], plan[p].kind)
                                  THEN Part(doc, plan[p]) ELSE None
  <2>1. CASE pc[p] \in Writing
    BY <2>1 DEF Invariant, WriterSound
  <2>2. CASE pc[p] = "source"
    <3>1. pkg[place[p]] = Empty
      BY <1>1, <2>2 DEF Invariant, PackageSound, Free
    <3>2. Earlier(pc[p], plan[p].kind) = {}
      BY <2>2 DEF Earlier
    <3> QED
      BY <3>1, <3>2 DEF Empty
  <2> QED
    BY <1>1, <2>1, <2>2 DEF Writing
<1>9. Earlier(pc'[p], plan[p].kind) = Earlier(pc[p], plan[p].kind) \cup {pc[p]}
  <2>1. CASE pc[p] = "source"
    BY <1>3, <2>1 DEF Following, Earlier
  <2>2. CASE pc[p] = "config"
    BY <1>3, <2>2 DEF Following, Earlier
  <2>3. CASE pc[p] = "carryover"
    BY <1>3, <2>3 DEF Following, Earlier
  <2>4. CASE pc[p] = "authorization"
    BY <1>1, <1>3, <2>4 DEF Following, Earlier
  <2> QED
    BY <1>1, <2>1, <2>2, <2>3, <2>4 DEF Document
<1>10. ASSUME NEW doc \in Document
       PROVE  pkg'[place[p]][doc] = IF doc \in Earlier(pc'[p], plan[p].kind)
                                    THEN Part(doc, plan[p]) ELSE None
  <2>1. CASE doc = pc[p]
    BY <1>6, <1>7, <1>9, <2>1
  <2>2. CASE doc # pc[p]
    BY <1>6, <1>7, <1>8, <1>9, <2>2
  <2> QED
    BY <2>1, <2>2
<1>11. pc'[p] = "authorization" => plan[p].kind # "plain"
  BY <1>1, <1>3 DEF Following, Document
<1> QED
  BY <1>1, <1>2, <1>4, <1>5, <1>10, <1>11 DEF WriterOf, Writing, Document, Proper

\* A process comes to no document but by writing the one before it.
LEMMA StepWriterOf ==
  ASSUME Invariant, NEW p \in Procs, Step(p)
  PROVE  WriterOf(p)'
<1>0. TypeOK
  BY DEF Invariant
<1> DEFINE Resting == pc'[p] \notin Document \cup {"derived"}
<1>1. Resting => WriterOf(p)'
  BY DEF WriterOf, Writing
<1>2. CASE DeriveConservative(p)
  <2>1. PICK b, s \in Ids, kind \in {"plain", "authorized"}, limit \in Limits :
          /\ s # b /\ FailedAfter(b, 0) /\ index[b] \in 1..limit
          /\ Derives(p, [kind |-> kind, ancestor |-> None, predecessor |-> b, successor |-> s,
                         before |-> 0, consumed |-> index[b], limit |-> limit])
    BY <1>2 DEF DeriveConservative
  <2>2. Proper([kind |-> kind, ancestor |-> None, predecessor |-> b, successor |-> s,
                before |-> 0, consumed |-> index[b], limit |-> limit])
    BY <1>0, <2>1, ContinuationAssumption DEF Proper, Carryover
  <2> QED
    BY <1>0, <2>1, <2>2 DEF Derives, Goes, WriterOf, TypeOK, Writing, Document, Proper
<1>3. CASE DeriveChained(p)
  <2>1. PICK d \in Packages, s \in Ids :
          /\ Authorized(d)
          /\ s \notin {Bound(d).predecessor, Bound(d).successor}
          /\ FailedAfter(Bound(d).successor, Bound(d).consumed)
          /\ Consumed(Bound(d).consumed, index[Bound(d).successor]) <= Bound(d).limit
          /\ Derives(p, [kind |-> "chained", ancestor |-> Bound(d).predecessor,
                         predecessor |-> Bound(d).successor, successor |-> s,
                         before |-> Bound(d).consumed,
                         consumed |-> Consumed(Bound(d).consumed, index[Bound(d).successor]),
                         limit |-> Bound(d).limit])
    BY <1>3 DEF DeriveChained
  <2>2. Bound(d) \in Carryover
    BY <2>1, AuthorizedIsComplete DEF Proper
  <2>3. index[Bound(d).successor] \in Nat
    BY <1>0, <2>1, <2>2 DEF TypeOK, FailedAfter, Carryover
  <2>4. Proper([kind |-> "chained", ancestor |-> Bound(d).predecessor,
                predecessor |-> Bound(d).successor, successor |-> s,
                before |-> Bound(d).consumed,
                consumed |-> Consumed(Bound(d).consumed, index[Bound(d).successor]),
                limit |-> Bound(d).limit])
    BY <2>1, <2>2, <2>3 DEF Proper, Carryover, Consumed
  <2> QED
    BY <1>0, <2>1, <2>4 DEF Derives, Goes, WriterOf, TypeOK, Writing, Document, Proper
<1>4. CASE BeginPackage(p)
  <2>1. CASE Supported(plan[p])
    <3>1. Proper(plan[p])
      BY <1>4 DEF BeginPackage, Invariant, WriterSound
    <3>2. PICK d \in Packages : place' = [place EXCEPT ![p] = d]
      BY <1>4, <2>1 DEF BeginPackage
    <3>3. pc'[p] = "source" /\ place'[p] = d /\ plan' = plan
      BY <1>0, <1>4, <2>1, <3>2 DEF BeginPackage, Goes, TypeOK
    <3>4. Supported(plan[p])'
      <4>1. PICK c \in Carryover : c = plan[p]
        BY <3>1 DEF Proper
      <4>2. Supported(c)'
        BY <2>1, <4>1, StepKeepsEvidence, StepKeepsPackages, SupportedStays
      <4> QED
        BY <3>3, <4>1, <4>2 DEF Supported, Chained, Historical, FailedAfter
    <3> QED
      BY <3>1, <3>3, <3>4 DEF WriterOf, Writing, Document, Proper
  <2>2. CASE ~Supported(plan[p])
    BY <1>0, <1>1, <1>4, <2>2, EndsIsIdle DEF BeginPackage, Document
  <2> QED
    BY <2>1, <2>2
<1>5. CASE WriteDocument(p)
  <2>1. CASE Free(place[p], pc[p]) /\ pc[p] # "preflight"
    BY <1>5, <2>1, StepWriterOfWriter
  <2>2. CASE ~(Free(place[p], pc[p]) /\ pc[p] # "preflight")
    BY <1>0, <1>1, <1>5, <2>2, EndsIsIdle DEF WriteDocument, Document
  <2> QED
    BY <2>1, <2>2
<1>6. CASE VerifyPackage(p) \/ StartAnew(p) \/ WriteConfig(p)
  BY <1>0, <1>1, <1>6, EndsIsIdle
     DEF VerifyPackage, StartAnew, WriteConfig, Begins, Goes, TypeOK, Document
<1>7. CASE Attempt(p) \/ WriteIndex(p) \/ WriteFailure(p) \/ Stop(p)
  BY <1>0, <1>1, <1>7, EndsIsIdle
     DEF Attempt, WriteIndex, WriteFailure, Stop, Goes, TypeOK, Document
<1> QED
  BY <1>2, <1>3, <1>4, <1>5, <1>6, <1>7 DEF Step

\* A process gets to own a directory only by publishing its first document.
LEMMA StepWriting ==
  ASSUME Invariant, NEW p \in Procs, Step(p), pc'[p] \in Writing
  PROVE  /\ pc[p] \in Document /\ place'[p] = place[p]
         /\ pc[p] = "source" => pkg[place[p]]["source"] = None
<1>0. TypeOK
  BY DEF Invariant
<1>1. CASE WriteDocument(p)
  BY <1>0, <1>1, EndsIsIdle DEF WriteDocument, Free, Writing, Document, memory
<1>2. CASE DeriveConservative(p) \/ DeriveChained(p) \/ BeginPackage(p)
  BY <1>0, <1>2, EndsIsIdle
     DEF DeriveConservative, DeriveChained, BeginPackage, Derives, Goes, TypeOK, Writing, Document
<1>3. CASE VerifyPackage(p) \/ StartAnew(p) \/ WriteConfig(p)
  BY <1>0, <1>3, EndsIsIdle
     DEF VerifyPackage, StartAnew, WriteConfig, Begins, Goes, TypeOK, Writing, Document
<1>4. CASE Attempt(p) \/ WriteIndex(p) \/ WriteFailure(p) \/ Stop(p)
  BY <1>0, <1>4, EndsIsIdle
     DEF Attempt, WriteIndex, WriteFailure, Stop, Goes, TypeOK, Writing, Document
<1> QED
  BY <1>1, <1>2, <1>3, <1>4 DEF Step

LEMMA StepAlone ==
  ASSUME Invariant, NEW p \in Procs, Step(p), NEW q \in Procs
  PROVE  Alone(p, q)'
<1> SUFFICES ASSUME q # p, pc'[p] \in Writing, pc'[q] \in Writing, place'[p] = place'[q]
             PROVE  FALSE
  BY DEF Alone
<1>1. pc[q] \in Writing /\ place'[q] = place[q]
  BY Bystanders
<1>2. pc[p] \in Document /\ place[p] = place[q]
      /\ (pc[p] = "source" => pkg[place[p]]["source"] = None)
  BY <1>1, StepWriting
<1>3. pc[p] \in Writing
  BY <1>1, <1>2, SourceKeepsOut DEF Writing
<1> QED
  BY <1>1, <1>2, <1>3 DEF Invariant, WriterSound

LEMMA StepWriterSound ==
  ASSUME Invariant, NEW p \in Procs, Step(p)
  PROVE  WriterSound'
<1>1. \A q \in Procs : WriterOf(q)'
  BY StepWriterOf, StepWriterOfOther
<1>2. ASSUME NEW q \in Procs, NEW r \in Procs PROVE Alone(q, r)'
  <2>1. CASE p = q
    BY <2>1, StepAlone
  <2>2. CASE p = r
    BY <2>2, StepAlone DEF Alone
  <2>3. CASE p # q /\ p # r
    BY <2>3, Bystanders DEF Alone, Invariant, WriterSound
  <2> QED
    BY <2>1, <2>2, <2>3
<1> QED
  BY <1>1, <1>2 DEF WriterSound, WriterOf, Alone, Proper, Supported, Chained, Historical,
     FailedAfter

\* The sentence of RunSound about one process.
RunOf(p) ==
  /\ pc[p] = "verified" =>
       /\ Proper(plan[p]) /\ plan[p].kind = "authorized" /\ Historical(plan[p])
       /\ place[p] = plan[p].successor /\ cap[p] = plan[p].limit
       /\ refs[p] = 0
  /\ pc[p] \notin Running => refs[p] = 0
  /\ pc[p] = "idle" => plan[p] = None
  /\ pc[p] \in Running =>
       /\ place[p] \in Ids
       /\ begun[place[p]] /\ ~failure[place[p]]
       /\ under[place[p]] = plan[p] /\ (plan[p] # None => cap[p] = plan[p].limit)
       /\ sent[place[p]] <= refs[p] /\ base[place[p]] + refs[p] <= cap[p]
       /\ (pc[p] = "working") <=> (index[place[p]] = None)

\* Two processes at work on one benchmark are one process.
OneRunner(p, q) == pc[p] \in Running /\ pc[q] \in Running /\ place[p] = place[q] => p = q

\* A benchmark is touched by the process that works on it, or by its start.
Untouched(b) ==
  /\ begun'[b] = begun[b] /\ base'[b] = base[b] /\ under'[b] = under[b]
  /\ sent'[b] = sent[b] /\ index'[b] = index[b] /\ failure'[b] = failure[b]

LEMMA OnlyTheRunner ==
  ASSUME Invariant, NEW p \in Procs, Step(p), NEW b \in Ids
  PROVE  \/ Untouched(b)
         \/ pc[p] \in Running /\ place[p] = b
         \/ ~begun[b] /\ Begins(p, b, IF pc[p] = "idle" THEN None ELSE plan[p])
                      /\ UNCHANGED <<sent, index, failure>>
                      /\ pc[p] \in {"idle", "verified"}
                      /\ place'[p] = b
<1> USE DEF Invariant, TypeOK, Untouched, evidence, memory
<1>1. CASE DeriveConservative(p) \/ DeriveChained(p) \/ BeginPackage(p) \/ WriteDocument(p)
           \/ VerifyPackage(p) \/ Stop(p)
  BY <1>1 DEF DeriveConservative, DeriveChained, Derives, BeginPackage, WriteDocument,
     VerifyPackage, Stop
<1>2. CASE StartAnew(p)
  <2>1. PICK c \in Ids : NotBegun(c) /\ Begins(p, c, None) /\ place' = [place EXCEPT ![p] = c]
    BY <1>2 DEF StartAnew
  <2>2. UNCHANGED <<sent, index, failure>> /\ pc[p] = "idle"
    BY <1>2 DEF StartAnew
  <2> QED
    BY <2>1, <2>2 DEF Begins, NotBegun
<1>3. CASE WriteConfig(p)
  <2>1. place[p] \in Ids
    BY <1>3 DEF WriteConfig, RunSound, Proper, Carryover
  <2> QED
    BY <1>3, <2>1 DEF WriteConfig, Begins, NotBegun
<1>4. CASE Attempt(p) \/ WriteIndex(p) \/ WriteFailure(p)
  BY <1>4 DEF Attempt, WriteIndex, WriteFailure, Running
<1> QED
  BY <1>1, <1>2, <1>3, <1>4 DEF Step

\* Another process at work on a benchmark finds it as it was.
LEMMA RunnerUndisturbed ==
  ASSUME Invariant, NEW p \in Procs, Step(p), NEW q \in Procs, q # p, pc[q] \in Running
  PROVE  Untouched(place[q])
<1>1. place[q] \in Ids /\ begun[place[q]]
  BY DEF Invariant, RunSound
<1>2. ~(pc[p] \in Running /\ place[p] = place[q])
  BY DEF Invariant, RunSound
<1> QED
  BY <1>1, <1>2, OnlyTheRunner

LEMMA StepRunOfOther ==
  ASSUME Invariant, NEW p \in Procs, Step(p), NEW q \in Procs, q # p
  PROVE  RunOf(q)'
<1>1. /\ pc'[q] = pc[q] /\ plan'[q] = plan[q] /\ place'[q] = place[q]
      /\ cap'[q] = cap[q] /\ refs'[q] = refs[q]
  BY Bystanders
<1>2. RunOf(q)
  BY DEF Invariant, RunSound, RunOf
<1>3. pc[q] \in Running => Untouched(place[q])
  BY RunnerUndisturbed
<1>4. ASSUME pc[q] = "verified" PROVE Historical(plan[q])'
  <2>1. PICK c \in Carryover : c = plan[q]
    BY <1>2, <1>4 DEF RunOf, Proper
  <2>2. Historical(c)'
    BY <1>2, <1>4, <2>1, StepKeepsEvidence, HistoricalStays DEF RunOf
  <2> QED
    BY <1>1, <2>1, <2>2 DEF Historical, FailedAfter
<1> QED
  BY <1>1, <1>2, <1>3, <1>4 DEF RunOf, Untouched, Proper

LEMMA StepRunOf ==
  ASSUME Invariant, NEW p \in Procs, Step(p)
  PROVE  RunOf(p)'
<1>0. TypeOK /\ RunOf(p) /\ EvidenceSound
  BY DEF Invariant, RunSound, RunOf
<1> DEFINE Ended == pc'[p] = "idle" /\ plan'[p] = None /\ refs'[p] = 0
<1>1. Ends(p) => Ended
  BY <1>0 DEF Ends, Goes, TypeOK
<1>2. Ended => RunOf(p)'
  BY DEF RunOf, Running
<1> DEFINE Elsewhere == pc'[p] \in Document \cup {"derived"} /\ refs'[p] = 0
<1>3. Elsewhere => RunOf(p)'
  BY DEF RunOf, Running, Document
<1>4. CASE DeriveConservative(p) \/ DeriveChained(p)
  BY <1>0, <1>3, <1>4
     DEF DeriveConservative, DeriveChained, Derives, Goes, TypeOK, RunOf, Running
<1>5. CASE BeginPackage(p)
  <2>1. CASE Supported(plan[p])
    BY <1>0, <1>3, <1>5, <2>1 DEF BeginPackage, Goes, TypeOK, RunOf, Running, Document
  <2>2. CASE ~Supported(plan[p])
    BY <1>1, <1>2, <1>5, <2>2 DEF BeginPackage
  <2> QED
    BY <2>1, <2>2
<1>6. CASE WriteDocument(p)
  <2>1. CASE Free(place[p], pc[p]) /\ pc[p] # "preflight"
    <3>1. pc'[p] = Following(pc[p], plan[p].kind) /\ refs' = refs
      BY <1>0, <1>6, <2>1 DEF WriteDocument, Goes, TypeOK, memory
    <3>2. pc[p] \in Document /\ refs[p] = 0
      BY <1>0, <1>6 DEF WriteDocument, RunOf, Running, Document
    <3>3. pc'[p] \in Document
      BY <2>1, <3>1, <3>2 DEF Following, Document
    <3> QED
      BY <1>3, <3>1, <3>2, <3>3
  <2>2. CASE ~(Free(place[p], pc[p]) /\ pc[p] # "preflight")
    BY <1>1, <1>2, <1>6, <2>2 DEF WriteDocument
  <2> QED
    BY <2>1, <2>2
<1>7. CASE VerifyPackage(p)
  <2>1. PICK d \in Packages :
          /\ Authorized(d)
          /\ plan' = [plan EXCEPT ![p] = Bound(d)]
          /\ place' = [place EXCEPT ![p] = Bound(d).successor]
          /\ cap' = [cap EXCEPT ![p] = Bound(d).limit]
    BY <1>7 DEF VerifyPackage, Starts
  <2>2. Proper(Bound(d)) /\ Bound(d).kind = "authorized" /\ Historical(Bound(d))
    BY <2>1, AuthorizedIsComplete
  <2>3. /\ plan'[p] = Bound(d) /\ place'[p] = Bound(d).successor
        /\ cap'[p] = Bound(d).limit
    BY <1>0, <2>1 DEF TypeOK
  <2>4. pc'[p] = "verified" /\ refs'[p] = 0
    BY <1>0, <1>7 DEF VerifyPackage, Goes, TypeOK, RunOf, Running
  <2>5. Historical(plan[p])'
    BY <1>7, <2>2, <2>3 DEF VerifyPackage, evidence, Historical, FailedAfter
  <2> QED
    BY <2>2, <2>3, <2>4, <2>5 DEF RunOf, Running, Proper
<1>8. CASE StartAnew(p)
  <2>1. PICK b \in Ids, limit \in Limits :
          /\ ~begun[b] /\ Begins(p, b, None)
          /\ place' = [place EXCEPT ![p] = b] /\ cap' = [cap EXCEPT ![p] = limit]
    BY <1>8 DEF StartAnew, NotBegun
  <2>2. /\ place'[p] = b /\ cap'[p] = limit /\ pc'[p] = "working"
        /\ plan'[p] = None /\ refs'[p] = 0
    BY <1>0, <1>8, <2>1 DEF StartAnew, Begins, Goes, TypeOK, RunOf, Running
  <2>3. /\ begun'[b] /\ under'[b] = None /\ base'[b] = 0
        /\ ~failure'[b] /\ index'[b] = None /\ sent'[b] = 0
    BY <1>0, <1>8, <2>1 DEF StartAnew, Begins, Before, TypeOK, EvidenceSound
  <2> QED
    BY <2>1, <2>2, <2>3, ContinuationAssumption DEF RunOf, Running
<1>9. CASE WriteConfig(p)
  <2>1. /\ Proper(plan[p]) /\ place[p] = plan[p].successor /\ cap[p] = plan[p].limit
        /\ refs[p] = 0 /\ pc[p] = "verified" /\ place[p] \in Ids
        /\ plan[p] # None /\ plan[p].consumed \in Nat
        /\ plan[p].consumed <= plan[p].limit
    BY <1>0, <1>9, CarryoverIsNotNone DEF WriteConfig, RunOf, Proper, Carryover
  <2>2. CASE NotBegun(place[p])
    <3>1. Begins(p, place[p], plan[p]) /\ UNCHANGED memory
          /\ UNCHANGED <<sent, index, failure>>
      BY <1>9, <2>2 DEF WriteConfig
    <3>2. pc'[p] = "working" /\ plan'[p] = plan[p] /\ place'[p] = place[p]
          /\ cap'[p] = cap[p] /\ refs'[p] = 0
      BY <1>0, <2>1, <3>1 DEF Begins, Goes, TypeOK, memory
    <3>3. /\ begun'[place[p]] /\ under'[place[p]] = plan[p]
          /\ base'[place[p]] = plan[p].consumed
          /\ ~failure'[place[p]] /\ index'[place[p]] = None /\ sent'[place[p]] = 0
      BY <1>0, <2>1, <2>2, <3>1 DEF Begins, Before, NotBegun, TypeOK, EvidenceSound
    <3> QED
      BY <2>1, <3>2, <3>3 DEF RunOf, Running
  <2>3. CASE ~NotBegun(place[p])
    BY <1>1, <1>2, <1>9, <2>3 DEF WriteConfig
  <2> QED
    BY <2>2, <2>3
<1>10. CASE Attempt(p)
  <2>1. pc[p] = "working" /\ pc[p] \in Running /\ place[p] \in Ids
        /\ base[place[p]] + refs[p] < cap[p]
    BY <1>0, <1>10 DEF Attempt, RunOf, Running
  <2>2. UNCHANGED <<begun, base, under, index, failure, pc, plan, place, cap>>
    BY <1>10 DEF Attempt
  <2>3. refs'[p] = refs[p] + 1
    BY <1>0, <1>10 DEF Attempt, TypeOK
  <2>4. sent'[place[p]] <= sent[place[p]] + 1
    BY <1>0, <1>10, <2>1 DEF Attempt, TypeOK
  <2>5. base[place[p]] \in Nat /\ refs[p] \in Nat /\ cap[p] \in Nat /\ sent[place[p]] \in Nat
        /\ sent'[place[p]] \in Nat
    BY <1>0, <1>10, <2>1 DEF TypeOK, Attempt
  <2> QED
    BY <1>0, <2>1, <2>2, <2>3, <2>4, <2>5 DEF RunOf, Running
<1>11. CASE WriteIndex(p)
  <2>1. CASE Goes(p, "failure") /\ UNCHANGED memory
    <3>1. pc'[p] = "failure" /\ plan'[p] = plan[p] /\ place'[p] = place[p]
          /\ cap'[p] = cap[p] /\ refs'[p] = refs[p]
      BY <1>0, <2>1 DEF Goes, TypeOK, memory
    <3>2. pc[p] = "working" /\ place[p] \in Ids /\ refs[p] \in Nat
      BY <1>0, <1>11 DEF WriteIndex, RunOf, Running, TypeOK
    <3>3. index'[place[p]] = refs[p] /\ refs[p] # None
      BY <1>0, <1>11, <3>2, ContinuationAssumption DEF WriteIndex, TypeOK
    <3>4. UNCHANGED <<begun, base, under, sent, failure>>
      BY <1>11 DEF WriteIndex
    <3> QED
      BY <1>0, <3>1, <3>2, <3>3, <3>4 DEF RunOf, Running
  <2>2. CASE Ends(p)
    BY <1>1, <1>2, <2>2
  <2> QED
    BY <1>11, <2>1, <2>2 DEF WriteIndex
<1>12. CASE WriteFailure(p) \/ Stop(p)
  BY <1>1, <1>2, <1>12 DEF WriteFailure, Stop
<1> QED
  BY <1>4, <1>5, <1>6, <1>7, <1>8, <1>9, <1>10, <1>11, <1>12 DEF Step

\* A process comes to work on a benchmark only by starting it.
LEMMA StepRunning ==
  ASSUME Invariant, NEW p \in Procs, Step(p), pc'[p] \in Running
  PROVE  \/ pc[p] \in Running /\ place'[p] = place[p]
         \/ ~begun[place'[p]]
<1>0. TypeOK
  BY DEF Invariant
<1>1. CASE WriteDocument(p)
  BY <1>0, <1>1, EndsIsIdle
     DEF WriteDocument, Goes, TypeOK, Following, Running, Document, memory
<1>2. CASE DeriveConservative(p) \/ DeriveChained(p) \/ BeginPackage(p)
  BY <1>0, <1>2, EndsIsIdle
     DEF DeriveConservative, DeriveChained, BeginPackage, Derives, Goes, TypeOK, Running
<1>3. CASE VerifyPackage(p) \/ StartAnew(p) \/ WriteConfig(p)
  BY <1>0, <1>3, EndsIsIdle
     DEF VerifyPackage, StartAnew, WriteConfig, NotBegun, Goes, TypeOK, Running, memory
<1>4. CASE Attempt(p) \/ WriteIndex(p) \/ WriteFailure(p) \/ Stop(p)
  BY <1>0, <1>4, EndsIsIdle
     DEF Attempt, WriteIndex, WriteFailure, Stop, Goes, TypeOK, Running, memory
<1> QED
  BY <1>1, <1>2, <1>3, <1>4 DEF Step

LEMMA StepOneRunner ==
  ASSUME Invariant, NEW p \in Procs, Step(p), NEW q \in Procs
  PROVE  OneRunner(p, q)'
<1> SUFFICES ASSUME q # p, pc'[p] \in Running, pc'[q] \in Running, place'[p] = place'[q]
             PROVE  FALSE
  BY DEF OneRunner
<1>1. pc[q] \in Running /\ place'[q] = place[q]
  BY Bystanders
<1>2. begun[place[q]]
  BY <1>1 DEF Invariant, RunSound
<1>3. pc[p] \in Running /\ place[p] = place[q]
  BY <1>1, <1>2, StepRunning
<1> QED
  BY <1>1, <1>3 DEF Invariant, RunSound

LEMMA StepRunSound ==
  ASSUME Invariant, NEW p \in Procs, Step(p)
  PROVE  RunSound'
<1>1. \A q \in Procs : RunOf(q)'
  BY StepRunOf, StepRunOfOther
<1>2. ASSUME NEW q \in Procs, NEW r \in Procs PROVE OneRunner(q, r)'
  <2>1. CASE p = q
    BY <2>1, StepOneRunner
  <2>2. CASE p = r
    BY <2>2, StepOneRunner DEF OneRunner
  <2>3. CASE p # q /\ p # r
    BY <2>3, Bystanders DEF OneRunner, Invariant, RunSound
  <2> QED
    BY <2>1, <2>2, <2>3
<1> QED
  BY <1>1, <1>2 DEF RunSound, RunOf, OneRunner, Proper, Historical, FailedAfter

\* The sentence of EvidenceSound about one benchmark.
EvidenceOf(b) ==
  /\ ~begun[b] => /\ under[b] = None /\ index[b] = None /\ ~failure[b]
                  /\ base[b] = 0 /\ sent[b] = 0
  /\ failure[b] => index[b] # None
  /\ index[b] # None => sent[b] <= index[b]
  /\ under[b] # None =>
       /\ Proper(under[b]) /\ under[b].kind = "authorized" /\ under[b].successor = b
       /\ Historical(under[b]) /\ base[b] = under[b].consumed
       /\ base[b] + sent[b] <= under[b].limit

\* The carryover of a started benchmark stays historical.
LEMMA UnderStays ==
  ASSUME Invariant, NEW p \in Procs, Step(p), NEW b \in Ids, under[b] # None,
         under'[b] = under[b]
  PROVE  Historical(under[b])'
<1>1. PICK c \in Carryover : c = under[b] /\ Historical(c)
  BY DEF Invariant, EvidenceSound, Proper
<1>2. Historical(c)'
  BY <1>1, StepKeepsEvidence, HistoricalStays
<1> QED
  BY <1>1, <1>2 DEF Historical, FailedAfter

LEMMA StepEvidenceOf ==
  ASSUME Invariant, NEW p \in Procs, Step(p), NEW b \in Ids
  PROVE  EvidenceOf(b)'
<1>0. TypeOK /\ EvidenceOf(b) /\ RunOf(p)
  BY DEF Invariant, EvidenceSound, EvidenceOf, RunSound, RunOf
<1>1. CASE Untouched(b)
  BY <1>0, <1>1, UnderStays DEF Untouched, EvidenceOf, Proper
<1>2. CASE ~Untouched(b) /\ pc[p] \in Running /\ place[p] = b
  <2>0. /\ begun[b] /\ ~failure[b] /\ under[b] = plan[p]
        /\ plan[p] # None => cap[p] = plan[p].limit
        /\ sent[b] <= refs[p] /\ base[b] + refs[p] <= cap[p]
        /\ (pc[p] = "working") <=> (index[b] = None)
        /\ sent[b] \in Nat /\ base[b] \in Nat /\ refs[p] \in Nat /\ cap[p] \in Nat
    BY <1>0, <1>2 DEF RunOf, TypeOK
  <2>1. CASE Attempt(p)
    <3>1. UNCHANGED <<begun, base, under, index, failure>> /\ pc[p] = "working"
          /\ base[b] + refs[p] < cap[p]
      BY <1>2, <2>1 DEF Attempt
    <3>2. sent'[b] <= sent[b] + 1 /\ sent'[b] \in Nat
      BY <1>0, <1>2, <2>1 DEF Attempt, TypeOK
    <3>3. under[b] # None => base[b] + sent'[b] <= under[b].limit
      BY <2>0, <3>1, <3>2
    <3> QED
      BY <1>0, <2>0, <3>1, <3>3, UnderStays DEF EvidenceOf, Proper
  <2>2. CASE WriteIndex(p)
    <3>1. UNCHANGED <<begun, base, under, sent, failure>>
      BY <2>2 DEF WriteIndex
    <3>2. index'[b] = refs[p]
      BY <1>0, <1>2, <2>2 DEF WriteIndex, TypeOK
    <3> QED
      BY <1>0, <2>0, <3>1, <3>2, UnderStays DEF EvidenceOf, Proper
  <2>3. CASE WriteFailure(p)
    <3>1. UNCHANGED <<begun, base, under, sent, index>> /\ pc[p] = "failure"
      BY <2>3 DEF WriteFailure
    <3> QED
      BY <1>0, <2>0, <3>1, UnderStays DEF EvidenceOf, Proper
  <2>4. CASE Stop(p)
    BY <1>2, <2>4 DEF Stop, evidence, Untouched
  <2>5. ~(\/ DeriveConservative(p) \/ DeriveChained(p) \/ BeginPackage(p) \/ WriteDocument(p)
          \/ VerifyPackage(p) \/ StartAnew(p) \/ WriteConfig(p))
    BY <1>2 DEF DeriveConservative, DeriveChained, BeginPackage, WriteDocument,
       VerifyPackage, StartAnew, WriteConfig, Running, Document
  <2> QED
    BY <2>1, <2>2, <2>3, <2>4, <2>5 DEF Step
<1>3. CASE /\ ~begun[b] /\ Begins(p, b, IF pc[p] = "idle" THEN None ELSE plan[p])
           /\ UNCHANGED <<sent, index, failure>>
           /\ pc[p] \in {"idle", "verified"}
           /\ place'[p] = b
  <2>1. /\ begun'[b] /\ sent'[b] = 0 /\ index'[b] = None /\ ~failure'[b]
    BY <1>0, <1>3 DEF Begins, TypeOK, EvidenceOf
  <2>2. CASE pc[p] = "idle"
    <3>1. under'[b] = None
      BY <1>0, <1>3, <2>2 DEF Begins, TypeOK
    <3> QED
      BY <2>1, <3>1 DEF EvidenceOf
  <2>3. CASE pc[p] = "verified"
    <3>1. /\ Proper(plan[p]) /\ plan[p].kind = "authorized" /\ Historical(plan[p])
          /\ place[p] = plan[p].successor /\ plan[p] # None
      BY <1>0, <2>3, CarryoverIsNotNone DEF RunOf, Proper
    <3>2. under'[b] = plan[p] /\ base'[b] = plan[p].consumed
      BY <1>0, <1>3, <2>3, <3>1 DEF Begins, Before, TypeOK
    <3>3. WriteConfig(p) /\ NotBegun(place[p])
      BY <1>0, <1>3, <2>1, <2>3 DEF Step, DeriveConservative, DeriveChained, BeginPackage,
         WriteDocument, VerifyPackage, StartAnew, WriteConfig, Attempt, WriteIndex,
         WriteFailure, Stop, evidence, Document
    <3>4. place[p] = b /\ plan'[p] = plan[p]
      BY <1>3, <3>3 DEF WriteConfig, memory
    <3>5. Historical(under[b])'
      <4>1. PICK c \in Carryover : c = plan[p]
        BY <3>1 DEF Proper
      <4>2. Historical(c)'
        BY <3>1, <4>1, StepKeepsEvidence, HistoricalStays
      <4> QED
        BY <3>2, <4>1, <4>2 DEF Historical, FailedAfter
    <3>6. plan[p].consumed <= plan[p].limit /\ plan[p].consumed \in Nat
      BY <3>1 DEF Proper, Carryover
    <3> QED
      BY <2>1, <3>1, <3>2, <3>4, <3>5, <3>6 DEF EvidenceOf, Proper
  <2> QED
    BY <1>3, <2>2, <2>3
<1> QED
  BY <1>1, <1>2, <1>3, OnlyTheRunner

LEMMA StepEvidenceSound ==
  ASSUME Invariant, NEW p \in Procs, Step(p)
  PROVE  EvidenceSound'
<1>1. \A b \in Ids : EvidenceOf(b)'
  BY StepEvidenceOf
<1> QED
  BY <1>1 DEF EvidenceSound, EvidenceOf, Proper, Historical, FailedAfter

LEMMA StutterInvariant == Invariant /\ UNCHANGED vars => Invariant'
BY DEF vars, evidence, memory, bounds, Invariant, TypeOK, PackageIsOneWrite, EvidenceStays,
   WriterSound, PackageSound, RunSound, EvidenceSound, Proper, Supported, Chained, Historical,
   Authorized, FailedAfter, Bound

LEMMA NextInvariant == Invariant /\ [Next]_vars => Invariant'
<1> SUFFICES ASSUME Invariant, [Next]_vars PROVE Invariant'
  OBVIOUS
<1>1. ASSUME NEW p \in Procs, Step(p) PROVE Invariant'
  BY <1>1, StepTypeOK, StepPackages, StepWriterSound, StepRunSound, StepEvidenceSound
     DEF Invariant
<1> QED
  BY <1>1, StutterInvariant DEF Next

\* The inductive invariant holds: it carries the theorems below, and says itself that
\* a package which was complete stays supported (EvidenceStays).
THEOREM Correctness == Spec => []Invariant
BY InitInvariant, NextInvariant, PTL DEF Spec

\* Type correctness: documents are documents, numbers are numbers.
THEOREM TypeCorrectness == Spec => []TypeOK
<1>1. Invariant => TypeOK
  BY DEF Invariant
<1> QED
  BY <1>1, Correctness, PTL

\* The documents of a package with a preflight were all written by one call of one
\* process, although any number of them derive, write and stop (create-only writes,
\* source-identity.json first, preflight.json last).
THEOREM PackagesAreWhole == Spec => []PackageIsOneWrite
<1>1. Invariant => PackageIsOneWrite
  BY DEF Invariant
<1> QED
  BY <1>1, Correctness, PTL

\* A complete package stays supported by the evidence of the failed benchmark.
THEOREM EvidenceIsKept == Spec => []EvidenceStays
<1>1. Invariant => EvidenceStays
  BY DEF Invariant
<1> QED
  BY <1>1, Correctness, PTL

LEMMA InvariantContinues == Invariant => SuccessorContinues
<1> SUFFICES ASSUME Invariant, NEW b \in Ids, under[b] # None
             PROVE  LET c == under[b] IN
                      /\ c.kind = "authorized" /\ c.successor = b /\ c.predecessor # b
                      /\ failure[c.predecessor]
                      /\ sent[c.predecessor] <= base[b]
                      /\ base[b] + sent[b] <= c.limit
  BY DEF SuccessorContinues
<1>1. /\ Proper(under[b]) /\ under[b].kind = "authorized" /\ under[b].successor = b
      /\ Historical(under[b]) /\ base[b] = under[b].consumed
      /\ base[b] + sent[b] <= under[b].limit
  BY DEF Invariant, EvidenceSound
<1>2. under[b].predecessor \in Ids
  BY <1>1 DEF Proper, Carryover
<1>3. sent[under[b].predecessor] <= index[under[b].predecessor]
  BY <1>1, <1>2 DEF Invariant, EvidenceSound, Historical, FailedAfter
<1> QED
  BY <1>1, <1>2, <1>3 DEF Proper, Historical, FailedAfter

\* A successor is started from an authorized package only, goes on behind everything
\* its failed predecessor sent, and stays within the limit they share.
THEOREM SuccessorsContinue == Spec => []SuccessorContinues
BY InvariantContinues, Correctness, PTL

LEMMA InvariantCounts == Invariant => ChainCountsAll
<1> SUFFICES ASSUME Invariant, NEW d \in Packages, Bound(d) # None, Bound(d).kind = "chained"
             PROVE  /\ sent[Bound(d).ancestor] + sent[Bound(d).predecessor] <= Bound(d).consumed
                    /\ Bound(d).consumed <= Bound(d).limit
                    /\ \A p \in Procs : pc[p] = "working" =>
                         place[p] \notin {Bound(d).ancestor, Bound(d).predecessor}
  BY DEF ChainCountsAll
<1>0. TypeOK /\ EvidenceSound /\ RunSound
  BY DEF Invariant
<1>1. Proper(Bound(d)) /\ Chained(Bound(d))
  BY DEF Invariant, PackageSound, EvidenceStays, Supported
<1>2. PICK e \in Packages :
        /\ Authorized(e)
        /\ Bound(e).predecessor = Bound(d).ancestor /\ Bound(e).consumed = Bound(d).before
  BY <1>1 DEF Chained
<1>3. Bound(e) \in Carryover /\ Historical(Bound(e))
  BY <1>2, AuthorizedIsComplete DEF Proper
<1> DEFINE a == Bound(d).ancestor
           b == Bound(d).predecessor
<1>4. a \in Ids /\ b \in Ids
  BY <1>1, <1>2, <1>3 DEF Proper, Carryover
<1>5. failure[a] /\ index[a] = Bound(d).before /\ index[a] # None
  BY <1>2, <1>3 DEF Historical, FailedAfter
<1>6. failure[b] /\ index[b] # None /\ Bound(d).consumed = Bound(d).before + index[b]
  BY <1>1 DEF Chained, FailedAfter, Consumed
<1>7. sent[a] <= index[a] /\ sent[b] <= index[b]
  BY <1>0, <1>4, <1>5, <1>6 DEF EvidenceSound
<1>8. index[a] \in Nat /\ index[b] \in Nat /\ sent[a] \in Nat /\ sent[b] \in Nat
  BY <1>0, <1>4, <1>5, <1>6 DEF TypeOK
<1>9. sent[a] + sent[b] <= Bound(d).consumed
  BY <1>5, <1>6, <1>7, <1>8
<1>10. \A p \in Procs : pc[p] = "working" => place[p] \notin {a, b}
  BY <1>0, <1>5, <1>6 DEF RunSound, Running
<1> QED
  BY <1>1, <1>9, <1>10 DEF Proper

\* A chained package counts everything both generations sent, neither of which sends
\* any more, and keeps below the limit of its parent.
THEOREM ChainsCountAll == Spec => []ChainCountsAll
BY InvariantCounts, Correctness, PTL

-------------------------------------------------------------------------------
(* The files                                                               *)

\* What each file holds.
Holds(f) ==
  /\ f[1] = "package" => ContentOf(f) = pkg[f[2]][f[3]]
  /\ f[1] = "benchmark" =>
       /\ f[3] = "config" => ContentOf(f) = IF begun[f[2]] THEN "written" ELSE None
       /\ f[3] = "index" => ContentOf(f) = index[f[2]]
       /\ f[3] = "failure" => ContentOf(f) = IF failure[f[2]] THEN "written" ELSE None

LEMMA FilesHold == \A f \in ChainFile : Holds(f)
<1> SUFFICES ASSUME NEW f \in ChainFile PROVE Holds(f)
  OBVIOUS
<1>1. f[1] = "package" => ContentOf(f) = pkg[f[2]][f[3]]
  BY DEF ContentOf
<1>2. f[1] = "benchmark" /\ f[3] = "config" =>
        ContentOf(f) = IF begun[f[2]] THEN "written" ELSE None
  BY DEF ContentOf
<1>3. f[1] = "benchmark" /\ f[3] = "index" => ContentOf(f) = index[f[2]]
  BY DEF ContentOf
<1>4. f[1] = "benchmark" /\ f[3] = "failure" =>
        ContentOf(f) = IF failure[f[2]] THEN "written" ELSE None
  BY DEF ContentOf
<1> QED
  BY <1>1, <1>2, <1>3, <1>4 DEF Holds

LEMMA FilesHoldNext == (\A f \in ChainFile : Holds(f))'
BY FilesHold, PTL

LEMMA ChainFiles ==
  ASSUME NEW f \in ChainFile
  PROVE  /\ f = <<f[1], f[2], f[3]>>
         /\ \/ f[1] = "benchmark" /\ f[2] \in Ids /\ f[3] \in {"config", "index", "failure"}
            \/ f[1] = "package" /\ f[2] \in Packages /\ f[3] \in Document
BY DEF ChainFile

\* Of all files that of the name f only is new.
Creates(f) ==
  /\ f \in ChainFile
  /\ ContentOf(f) = None /\ ContentOf(f)' \in ChainContent
  /\ \A g \in ChainFile : g # f => ContentOf(g)' = ContentOf(g)

Leaves == \A g \in ChainFile : ContentOf(g)' = ContentOf(g)

OneFile == Leaves \/ \E f : Creates(f)

LEMMA OneIsCreated ==
  ASSUME NEW f, Creates(f)
  PROVE  \E g \in ChainFile, c \in ChainContent : Store!Create(g, c)
<1> DEFINE c == ContentOf(f)'
<1>1. /\ ContentOf(f) = None /\ c \in ChainContent /\ f \in ChainFile
      /\ \A g \in ChainFile : g # f => ContentOf(g)' = ContentOf(g)
  BY DEF Creates
<1>2. Store!Create(f, c)
  BY <1>1 DEF Store!Create
<1> QED
  BY <1>1, <1>2

LEMMA NothingIsWritten == ASSUME UNCHANGED <<begun, index, failure, pkg>> PROVE Leaves
BY ChainFiles, FilesHold, FilesHoldNext DEF Leaves, Holds

LEMMA DocumentCreates ==
  ASSUME Invariant, NEW p \in Procs, WriteDocument(p)
  PROVE  OneFile
<1>1. CASE ~Free(place[p], pc[p])
  BY <1>1, NothingIsWritten DEF WriteDocument, OneFile, evidence
<1>2. CASE Free(place[p], pc[p])
  <2>0. PICK d, doc : d = place[p] /\ doc = pc[p]
    OBVIOUS
  <2>1. d \in Packages /\ doc \in Document /\ plan[p] \in Carryover
    BY <2>0 DEF WriteDocument, Invariant, WriterSound, Proper
  <2>2. /\ pkg[d][doc] = None /\ UNCHANGED <<begun, index, failure>>
        /\ pkg' = [pkg EXCEPT ![d][doc] = Part(doc, plan[p])]
    BY <1>2, <2>0 DEF WriteDocument, Free, evidence
  <2>3. pkg \in [Packages -> [Document -> Content \cup {None}]]
    BY DEF Invariant, TypeOK
  <2>4. /\ pkg'[d][doc] = Part(doc, plan[p])
        /\ \A e \in Packages, x \in Document : ~(e = d /\ x = doc) => pkg'[e][x] = pkg[e][x]
    BY <2>1, <2>2, <2>3
  <2>5. Part(doc, plan[p]) \in ChainContent
    BY <2>1, PartIsContent DEF ChainContent
  <2>6. <<"package", d, doc>> \in ChainFile
    BY <2>1 DEF ChainFile
  <2>7. ContentOf(<<"package", d, doc>>) = None
    BY <2>2, <2>6, FilesHold DEF Holds
  <2>8. ContentOf(<<"package", d, doc>>)' = pkg'[d][doc]
    BY <2>6, FilesHoldNext DEF Holds
  <2>9. ASSUME NEW g \in ChainFile, g # <<"package", d, doc>> PROVE ContentOf(g)' = ContentOf(g)
    <3>1. CASE g[1] = "benchmark"
      BY <2>2, <3>1, ChainFiles, FilesHold, FilesHoldNext DEF Holds
    <3>2. CASE g[1] = "package"
      <4>1. g[2] \in Packages /\ g[3] \in Document /\ ~(g[2] = d /\ g[3] = doc)
        BY <2>9, <3>2, ChainFiles
      <4>2. ContentOf(g) = pkg[g[2]][g[3]] /\ ContentOf(g)' = pkg'[g[2]][g[3]]
        BY <3>2, FilesHold, FilesHoldNext DEF Holds
      <4> QED
        BY <2>4, <4>1, <4>2
    <3> QED
      BY <3>1, <3>2, ChainFiles
  <2>10. Creates(<<"package", d, doc>>)
    BY <2>4, <2>5, <2>6, <2>7, <2>8, <2>9 DEF Creates
  <2> QED
    BY <2>10 DEF OneFile
<1> QED
  BY <1>1, <1>2

\* A file of one benchmark is new, and nothing else.
LEMMA EvidenceCreates ==
  ASSUME NEW b \in Ids, NEW kind \in {"config", "index", "failure"},
         ContentOf(<<"benchmark", b, kind>>) = None,
         ContentOf(<<"benchmark", b, kind>>)' \in ChainContent,
         pkg' = pkg,
         \A o \in Ids : (kind = "config" /\ o = b) \/ begun'[o] = begun[o],
         \A o \in Ids : (kind = "index" /\ o = b) \/ index'[o] = index[o],
         \A o \in Ids : (kind = "failure" /\ o = b) \/ failure'[o] = failure[o]
  PROVE  OneFile
<1>1. <<"benchmark", b, kind>> \in ChainFile
  BY DEF ChainFile
<1>2. ASSUME NEW g \in ChainFile, g # <<"benchmark", b, kind>>
      PROVE  ContentOf(g)' = ContentOf(g)
  <2>1. CASE g[1] = "package"
    BY <2>1, FilesHold, FilesHoldNext DEF Holds
  <2>2. CASE g[1] = "benchmark"
    <3>1. g[2] \in Ids /\ g[3] \in {"config", "index", "failure"} /\ ~(g[2] = b /\ g[3] = kind)
      BY <1>2, <2>2, ChainFiles
    <3> QED
      BY <2>2, <3>1, FilesHold, FilesHoldNext DEF Holds
  <2> QED
    BY <2>1, <2>2, ChainFiles
<1>3. Creates(<<"benchmark", b, kind>>)
  BY <1>1, <1>2 DEF Creates
<1> QED
  BY <1>3 DEF OneFile

LEMMA EvidenceFiles ==
  ASSUME NEW b \in Ids
  PROVE  /\ ContentOf(<<"benchmark", b, "config">>) = IF begun[b] THEN "written" ELSE None
         /\ ContentOf(<<"benchmark", b, "index">>) = index[b]
         /\ ContentOf(<<"benchmark", b, "failure">>) = IF failure[b] THEN "written" ELSE None
         /\ ContentOf(<<"benchmark", b, "config">>)' = IF begun'[b] THEN "written" ELSE None
         /\ ContentOf(<<"benchmark", b, "index">>)' = index'[b]
         /\ ContentOf(<<"benchmark", b, "failure">>)' = IF failure'[b] THEN "written" ELSE None
<1>1. /\ <<"benchmark", b, "config">> \in ChainFile
      /\ <<"benchmark", b, "index">> \in ChainFile
      /\ <<"benchmark", b, "failure">> \in ChainFile
  BY DEF ChainFile
<1> QED
  BY <1>1, FilesHold, FilesHoldNext DEF Holds

\* config.json, published by a run without a package or by one with it.
LEMMA ConfigCreates ==
  ASSUME Invariant, NEW b \in Ids, NotBegun(b), begun' = [begun EXCEPT ![b] = TRUE],
         UNCHANGED <<index, failure, pkg>>
  PROVE  OneFile
<1>1. begun \in [Ids -> BOOLEAN]
  BY DEF Invariant, TypeOK
<1>2. ~begun[b] /\ begun'[b] /\ \A o \in Ids : o = b \/ begun'[o] = begun[o]
  BY <1>1 DEF NotBegun
<1>3. ContentOf(<<"benchmark", b, "config">>) = None
      /\ ContentOf(<<"benchmark", b, "config">>)' \in ChainContent
  BY <1>2, EvidenceFiles DEF ChainContent
<1> QED
  BY <1>2, <1>3, EvidenceCreates

LEMMA StepCreatesFile ==
  ASSUME Invariant, NEW p \in Procs, Step(p)
  PROVE  OneFile
<1>1. CASE DeriveConservative(p) \/ DeriveChained(p) \/ BeginPackage(p) \/ VerifyPackage(p)
           \/ Attempt(p) \/ Stop(p)
  <2>1. UNCHANGED <<begun, index, failure, pkg>>
    BY <1>1 DEF DeriveConservative, DeriveChained, Derives, BeginPackage, VerifyPackage, Attempt,
      Stop, evidence
  <2> QED
    BY <2>1, NothingIsWritten DEF OneFile
<1>2. CASE WriteDocument(p)
  BY <1>2, DocumentCreates
<1>3. CASE StartAnew(p)
  <2>1. PICK b \in Ids : NotBegun(b) /\ begun' = [begun EXCEPT ![b] = TRUE]
    BY <1>3 DEF StartAnew, Begins
  <2>2. UNCHANGED <<index, failure, pkg>>
    BY <1>3 DEF StartAnew
  <2> QED
    BY <2>1, <2>2, ConfigCreates
<1>4. CASE WriteConfig(p)
  <2>1. UNCHANGED <<index, failure, pkg>>
    BY <1>4 DEF WriteConfig
  <2>2. CASE ~NotBegun(place[p])
    BY <1>4, <2>1, <2>2, NothingIsWritten DEF WriteConfig, OneFile
  <2>3. CASE NotBegun(place[p])
    <3>1. PICK b : b = place[p]
      OBVIOUS
    <3>2. b \in Ids
      BY <1>4, <3>1 DEF WriteConfig, Invariant, RunSound, Proper, Carryover
    <3>3. NotBegun(b) /\ begun' = [begun EXCEPT ![b] = TRUE]
      BY <1>4, <2>3, <3>1 DEF WriteConfig, Begins
    <3> QED
      BY <2>1, <3>2, <3>3, ConfigCreates
  <2> QED
    BY <2>2, <2>3
<1>5. CASE WriteIndex(p)
  <2>1. PICK b : b = place[p]
    OBVIOUS
  <2>2. b \in Ids /\ index[b] = None /\ refs[p] \in Nat
    BY <1>5, <2>1 DEF WriteIndex, Invariant, RunSound, Running, TypeOK
  <2>3. index' = [index EXCEPT ![b] = refs[p]] /\ UNCHANGED <<begun, failure, pkg>>
    BY <1>5, <2>1 DEF WriteIndex
  <2>4. index'[b] = refs[p] /\ \A o \in Ids : o = b \/ index'[o] = index[o]
    BY <2>2, <2>3 DEF Invariant, TypeOK
  <2>5. ContentOf(<<"benchmark", b, "index">>) = None
        /\ ContentOf(<<"benchmark", b, "index">>)' \in ChainContent
    BY <2>2, <2>4, EvidenceFiles DEF ChainContent
  <2> QED
    BY <2>2, <2>3, <2>4, <2>5, EvidenceCreates
<1>6. CASE WriteFailure(p)
  <2>1. PICK b : b = place[p]
    OBVIOUS
  <2>2. b \in Ids /\ ~failure[b]
    BY <1>6, <2>1 DEF WriteFailure, Invariant, RunSound, Running
  <2>3. failure' = [failure EXCEPT ![b] = TRUE] /\ UNCHANGED <<begun, index, pkg>>
    BY <1>6, <2>1 DEF WriteFailure
  <2>4. failure'[b] /\ \A o \in Ids : o = b \/ failure'[o] = failure[o]
    BY <2>2, <2>3 DEF Invariant, TypeOK
  <2>5. ContentOf(<<"benchmark", b, "failure">>) = None
        /\ ContentOf(<<"benchmark", b, "failure">>)' \in ChainContent
    BY <2>2, <2>4, EvidenceFiles DEF ChainContent
  <2> QED
    BY <2>2, <2>3, <2>4, <2>5, EvidenceCreates
<1> QED
  BY <1>1, <1>2, <1>3, <1>4, <1>5, <1>6 DEF Step

\* The commands that derive and write packages and the runs that are started under them
\* use the store as it promises to be used, any number of them at once: each step
\* publishes at most one file, that was not there, and replaces none.
THEOREM ChainFilesAreCreated == Spec => FilesAreCreated
<1>1. Invariant /\ [Next]_vars
      => [\E f \in ChainFile, c \in ChainContent : Store!Create(f, c)]_
           [f \in ChainFile |-> ContentOf(f)]
  <2> SUFFICES ASSUME Invariant, [Next]_vars
               PROVE  \/ \E f \in ChainFile, c \in ChainContent : Store!Create(f, c)
                      \/ UNCHANGED [f \in ChainFile |-> ContentOf(f)]
    OBVIOUS
  <2>1. OneFile
    <3>1. CASE Next
      BY <3>1, StepCreatesFile DEF Next
    <3>2. CASE UNCHANGED vars
      BY <3>2, NothingIsWritten DEF OneFile, vars, evidence
    <3> QED
      BY <3>1, <3>2
  <2>2. Leaves => UNCHANGED [f \in ChainFile |-> ContentOf(f)]
    BY DEF Leaves
  <2> QED
    BY <2>1, <2>2, OneIsCreated DEF OneFile
<1> QED
  BY <1>1, Correctness, PTL DEF Spec, FilesAreCreated

===============================================================================
