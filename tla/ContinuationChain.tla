--------------------------- MODULE ContinuationChain ---------------------------
(***************************************************************************)
(* nonformal_continuation.py and the start of a live run under a package:   *)
(* a benchmark that failed leaves evidence; from it a package is derived    *)
(* that lets a successor go on counting attempts where the predecessor      *)
(* ended; from a package and the failure of its successor the next package  *)
(* of the chain is derived, which waits for a new approval.  Processes      *)
(* derive, write, verify and run at the same time and stop anywhere.        *)
(***************************************************************************)
EXTENDS Integers

CONSTANTS Ids,       \* benchmark identities
          Packages,  \* package directories
          Procs,     \* processes
          Limits,    \* values of remote_attempt_limit
          MaxRuns,   \* bound: benchmarks started
          MaxStops,  \* bound: processes killed in the middle of a call
          None

ASSUME ContinuationAssumption == Limits \subseteq Nat /\ None \notin Ids \cup Packages \cup Nat

\* The documents of a package, one file each.
Document == {"source", "config", "carryover", "authorization", "preflight"}

\* NonformalRunCarryover (plain, or authorized by a resource authorization) and
\* NonformalRunChainCarryover.  Hashes are those of documents that never change.
Carryover ==
  [kind : {"plain", "authorized", "chained"}, ancestor : Ids \cup {None},
   predecessor : Ids, successor : Ids, before : Nat, consumed : Nat, limit : Nat]

\* What the documents of a package say.
Content ==
  [tree : {"frozen"}] \cup [benchmark : Ids, budget : Nat] \cup [manifest : Carryover]
    \cup [successor : Ids, pending : BOOLEAN] \cup Carryover

ASSUME NoneIsNoContent == None \notin Content

VARIABLES
  \* below the artifact root, for each benchmark
  begun,    \* whether config.json was published
  base,     \* the attempts that its budget began with
  under,    \* the carryover that it was started with, if any
  sent,     \* requests that left
  index,    \* attempts in ledger-index.json
  settled,  \* whether each attempt has a settlement that reports its usage
  failure,  \* whether failure.json was published
  \* the package directories: their documents
  pkg,
  \* the processes
  pc,
  plan,     \* the carryover at work
  place,    \* the package directory, or the benchmark
  cap,      \* the limit in the configuration of the run
  refs,     \* attempts on record in the ledger of the process
  runs,     \* benchmarks started so far
  stops     \* processes killed so far

evidence == <<begun, base, under, sent, index, settled, failure>>
memory   == <<plan, place, cap, refs>>
bounds   == <<runs, stops>>
vars     == <<evidence, pkg, pc, memory, bounds>>

-------------------------------------------------------------------------------
(* Documents                                                               *)

\* The order of their publication.
Following(doc, kind) ==
  CASE doc = "source"        -> "config"
    [] doc = "config"        -> "carryover"
    [] doc = "carryover"     -> IF kind = "plain" THEN "preflight" ELSE "authorization"
    [] doc = "authorization" -> "preflight"

\* What a document of the package of c says; the preflight holds the hashes of the
\* others and so determines them.
Part(doc, c) ==
  CASE doc = "source"        -> [tree |-> "frozen"]
    [] doc = "config"        -> [benchmark |-> c.successor, budget |-> c.limit]
    [] doc = "carryover"     -> [manifest |-> c]
    [] doc = "authorization" -> [successor |-> c.successor, pending |-> c.kind = "chained"]
    [] doc = "preflight"     -> c

Empty == [doc \in Document |-> None]
Bound(d) == pkg[d]["preflight"]

-------------------------------------------------------------------------------
(* Evidence                                                                *)

\* A failed benchmark whose ledger goes from the attempt after first.
FailedAfter(b, first) == failure[b] /\ index[b] # None /\ base[b] = first

\* assess_continuation: the ledger of the predecessor is numbered from one.
Historical(c) == FailedAfter(c.predecessor, 0) /\ index[c.predecessor] = c.consumed

\* verify_authorized_successor_package, with the source and configuration the
\* package was frozen with.
Authorized(d) ==
  /\ \A doc \in Document : pkg[d][doc] # None
  /\ Bound(d).kind = "authorized"
  /\ \A doc \in Document : pkg[d][doc] = Part(doc, Bound(d))
  /\ Historical(Bound(d))
  /\ Bound(d).consumed < Bound(d).limit

\* Mutant: the chain counts the latest generation only.
ConsumedAnew(before, latest) == latest

\* Attempts are numbered on from the parent: the number of the last one.
Consumed(before, latest) == before + latest

\* assess_chained_continuation: both generations.
Chained(c) ==
  /\ \E d \in Packages :
       /\ Authorized(d)
       /\ Bound(d).predecessor = c.ancestor /\ Bound(d).successor = c.predecessor
       /\ Bound(d).consumed = c.before /\ Bound(d).limit = c.limit
  /\ FailedAfter(c.predecessor, c.before) /\ settled[c.predecessor]
  /\ c.consumed = Consumed(c.before, index[c.predecessor])

Supported(c) == IF c.kind = "chained" THEN Chained(c) ELSE Historical(c)

-------------------------------------------------------------------------------
Init ==
  /\ begun = [b \in Ids |-> FALSE]
  /\ base = [b \in Ids |-> 0]
  /\ under = [b \in Ids |-> None]
  /\ sent = [b \in Ids |-> 0]
  /\ index = [b \in Ids |-> None]
  /\ settled = [b \in Ids |-> TRUE]
  /\ failure = [b \in Ids |-> FALSE]
  /\ pkg = [d \in Packages |-> Empty]
  /\ pc = [p \in Procs |-> "idle"]
  /\ plan = [p \in Procs |-> None]
  /\ place = [p \in Procs |-> None]
  /\ cap = [p \in Procs |-> 0]
  /\ refs = [p \in Procs |-> 0]
  /\ runs = 0 /\ stops = 0

Goes(p, to) == pc' = [pc EXCEPT ![p] = to]

\* The call is over: it returned, raised, or its process was killed.
Ends(p) ==
  /\ Goes(p, "idle")
  /\ plan' = [plan EXCEPT ![p] = None]
  /\ place' = [place EXCEPT ![p] = None]
  /\ cap' = [cap EXCEPT ![p] = 0]
  /\ refs' = [refs EXCEPT ![p] = 0]

-------------------------------------------------------------------------------
(* Deriving and writing packages                                           *)

Derives(p, c) ==
  /\ plan' = [plan EXCEPT ![p] = c]
  /\ Goes(p, "derived")
  /\ UNCHANGED <<evidence, pkg, place, cap, refs, bounds>>

\* derive_conservative_carryover; a resource authorization is the operator's.
DeriveConservative(p) ==
  /\ pc[p] = "idle"
  /\ \E b, s \in Ids, kind \in {"plain", "authorized"}, limit \in Limits :
       /\ s # b
       /\ FailedAfter(b, 0)
       /\ index[b] \in 1..limit
       /\ Derives(p, [kind |-> kind, ancestor |-> None, predecessor |-> b, successor |-> s,
                      before |-> 0, consumed |-> index[b], limit |-> limit])

\* derive_chained_carryover
DeriveChained(p) ==
  /\ pc[p] = "idle"
  /\ \E d \in Packages, s \in Ids :
       LET parent == Bound(d)
           b == parent.successor
       IN
       /\ Authorized(d)
       /\ s \notin {parent.predecessor, b}
       /\ FailedAfter(b, parent.consumed) /\ settled[b]
       /\ index[b] > 0
       /\ Consumed(parent.consumed, index[b]) <= parent.limit
       /\ Derives(p, [kind |-> "chained", ancestor |-> parent.predecessor,
                      predecessor |-> b, successor |-> s, before |-> parent.consumed,
                      consumed |-> Consumed(parent.consumed, index[b]),
                      limit |-> parent.limit])

\* write_successor_package and its two siblings: the evidence is assessed again.
BeginPackage(p) ==
  /\ pc[p] = "derived"
  /\ IF Supported(plan[p])
     THEN /\ \E d \in Packages : place' = [place EXCEPT ![p] = d]
          /\ Goes(p, "source")
          /\ UNCHANGED <<plan, cap, refs>>
     ELSE Ends(p)
  /\ UNCHANGED <<evidence, pkg, bounds>>

\* Mutant: a document that exists is replaced.
FreeOrNot(d, doc) == TRUE

Free(d, doc) == pkg[d][doc] = None

\* write_json: a document that exists is never replaced, the call raises.
WriteDocument(p) ==
  /\ pc[p] \in Document
  /\ IF Free(place[p], pc[p])
     THEN /\ pkg' = [pkg EXCEPT ![place[p]][pc[p]] = Part(pc[p], plan[p])]
          /\ IF pc[p] = "preflight" THEN Ends(p)
             ELSE Goes(p, Following(pc[p], plan[p].kind)) /\ UNCHANGED memory
     ELSE Ends(p) /\ UNCHANGED pkg
  /\ UNCHANGED <<evidence, bounds>>

-------------------------------------------------------------------------------
(* Running a benchmark                                                     *)

\* Mutant: any package whose documents belong together starts a run.
StartsAnything(d) ==
  /\ pkg[d]["preflight"] # None
  /\ Supported(Bound(d)) /\ Bound(d).consumed < Bound(d).limit

Starts(d) == Authorized(d)

\* benchmark_cli.main with a package: source and configuration are those of the
\* package, or the call ends here.
VerifyPackage(p) ==
  /\ pc[p] = "idle"
  /\ \E d \in Packages :
       /\ Starts(d)
       /\ plan' = [plan EXCEPT ![p] = Bound(d)]
       /\ place' = [place EXCEPT ![p] = Bound(d).successor]
       /\ cap' = [cap EXCEPT ![p] = Bound(d).limit]
  /\ Goes(p, "verified")
  /\ UNCHANGED <<evidence, pkg, refs, bounds>>

\* Mutant: the budget of a successor begins at zero.
FirstOfAll(c) == 0

\* The attempts the budget begins with.
Before(c) == IF c = None THEN 0 ELSE c.consumed

\* Mutant: a benchmark may be started again.
NotBegunOrAgain(b) == TRUE

NotBegun(b) == ~begun[b]

\* BenchmarkRunner.run publishes config.json, which one run only can.
Begins(p, b, c) ==
  /\ runs < MaxRuns /\ runs' = runs + 1
  /\ begun' = [begun EXCEPT ![b] = TRUE]
  /\ base' = [base EXCEPT ![b] = Before(c)]
  /\ under' = [under EXCEPT ![b] = c]
  /\ Goes(p, "working")

\* Without a package: nothing was read before config.json.
StartAnew(p) ==
  /\ pc[p] = "idle"
  /\ \E b \in Ids, limit \in Limits :
       /\ NotBegun(b)
       /\ Begins(p, b, None)
       /\ place' = [place EXCEPT ![p] = b]
       /\ cap' = [cap EXCEPT ![p] = limit]
  /\ UNCHANGED <<sent, index, settled, failure, pkg, plan, refs, stops>>

WriteConfig(p) ==
  /\ pc[p] = "verified"
  /\ IF NotBegun(place[p])
     THEN Begins(p, place[p], plan[p]) /\ UNCHANGED memory
     ELSE Ends(p) /\ UNCHANGED <<begun, base, under, runs>>
  /\ UNCHANGED <<sent, index, settled, failure, pkg, stops>>

\* An attempt is put on record; its request leaves, or not, and its usage is reported
\* in a settlement, or not.  An event whose publication fails is in no index and no
\* request.
Attempt(p) ==
  /\ pc[p] = "working"
  /\ base[place[p]] + refs[p] < cap[p]
  /\ refs' = [refs EXCEPT ![p] = @ + 1]
  /\ \/ /\ sent' = [sent EXCEPT ![place[p]] = @ + 1]
        /\ settled' \in {settled, [settled EXCEPT ![place[p]] = FALSE]}
     \/ /\ settled' = [settled EXCEPT ![place[p]] = FALSE]
        /\ UNCHANGED sent
  /\ UNCHANGED <<begun, base, under, index, failure, pkg, pc, plan, place, cap, bounds>>

\* ledger.finalize, at the end of a run, failed or not.
WriteIndex(p) ==
  /\ pc[p] = "working"
  /\ index' = [index EXCEPT ![place[p]] = refs[p]]
  /\ \/ Goes(p, "failure") /\ UNCHANGED memory
     \/ Ends(p)
  /\ UNCHANGED <<begun, base, under, sent, settled, failure, pkg, bounds>>

WriteFailure(p) ==
  /\ pc[p] = "failure"
  /\ failure' = [failure EXCEPT ![place[p]] = TRUE]
  /\ Ends(p)
  /\ UNCHANGED <<begun, base, under, sent, index, settled, pkg, bounds>>

\* A process is killed, or gives up at an error.
Stop(p) ==
  /\ pc[p] # "idle" /\ stops < MaxStops
  /\ stops' = stops + 1
  /\ Ends(p)
  /\ UNCHANGED <<evidence, pkg, runs>>

Step(p) ==
  \/ DeriveConservative(p) \/ DeriveChained(p) \/ BeginPackage(p) \/ WriteDocument(p)
  \/ VerifyPackage(p) \/ StartAnew(p) \/ WriteConfig(p)
  \/ Attempt(p) \/ WriteIndex(p) \/ WriteFailure(p) \/ Stop(p)

Next == \E p \in Procs : Step(p)

Spec == Init /\ [][Next]_vars

-------------------------------------------------------------------------------
(* Properties                                                              *)

TypeOK ==
  /\ begun \in [Ids -> BOOLEAN] /\ failure \in [Ids -> BOOLEAN]
  /\ settled \in [Ids -> BOOLEAN]
  /\ base \in [Ids -> Nat] /\ sent \in [Ids -> Nat]
  /\ index \in [Ids -> Nat \cup {None}]
  /\ under \in [Ids -> Carryover \cup {None}]
  /\ pkg \in [Packages -> [Document -> Content \cup {None}]]
  /\ pc \in [Procs -> Document \cup {"idle", "derived", "verified", "working", "failure"}]
  /\ plan \in [Procs -> Carryover \cup {None}]
  /\ place \in [Procs -> Packages \cup Ids \cup {None}]
  /\ cap \in [Procs -> Nat] /\ refs \in [Procs -> Nat]
  /\ runs \in Nat /\ stops \in Nat

\* The documents of a package with a preflight belong together, whoever else wrote
\* into its directory and wherever writers were stopped: the preflight is the
\* package's seal (write_json never replaces, source-identity.json comes first).
PackageIsOneWrite ==
  \A d \in Packages : Bound(d) # None =>
    \A doc \in Document :
      pkg[d][doc] = IF doc = "authorization" /\ Bound(d).kind = "plain" THEN None
                    ELSE Part(doc, Bound(d))

\* A package that was complete stays supported by the evidence it was derived from:
\* nothing that runs later, a second start of the failed benchmark included,
\* disturbs it.
EvidenceStays ==
  \A d \in Packages : Bound(d) # None => Supported(Bound(d))

\* A successor goes on where its failed predecessor ended: every request the
\* predecessor sent is below the successor's first number, and what both sent stays
\* within the limit they share.
SuccessorContinues ==
  \A b \in Ids : under[b] # None =>
    LET c == under[b] IN
      /\ c.kind = "authorized" /\ c.successor = b /\ c.predecessor # b
      /\ failure[c.predecessor]
      /\ sent[c.predecessor] <= base[b]
      /\ base[b] + sent[b] <= c.limit

\* A chained package counts the attempts of both generations, which are over, below
\* the limit of its parent package.
ChainCountsAll ==
  \A d \in Packages :
    LET c == Bound(d) IN
      (c # None /\ c.kind = "chained") =>
        /\ sent[c.ancestor] + sent[c.predecessor] <= c.consumed
        /\ c.consumed <= c.limit
        /\ \A p \in Procs : pc[p] = "working" => place[p] \notin {c.ancestor, c.predecessor}

-------------------------------------------------------------------------------
(* The inductive invariant behind these properties                         *)

Writing == Document \ {"source"}  \* the writer owns the directory
Running == {"working", "failure"}

Proper(c) ==
  /\ c \in Carryover
  /\ c.successor # c.predecessor
  /\ c.consumed <= c.limit

\* The documents that a writer has published when it comes to doc.
Earlier(doc, kind) ==
  CASE doc = "source"        -> {}
    [] doc = "config"        -> {"source"}
    [] doc = "carryover"     -> {"source", "config"}
    [] doc = "authorization" -> {"source", "config", "carryover"}
    [] doc = "preflight"     -> {"source", "config", "carryover"}
                                  \cup (IF kind = "plain" THEN {} ELSE {"authorization"})

\* A process at work on a package has a supported carryover; once it has published
\* the first document, the directory holds what it wrote, and nothing else.
WriterSound ==
  \A p \in Procs :
    /\ pc[p] = "derived" => Proper(plan[p])
    /\ pc[p] \in Document =>
         /\ Proper(plan[p]) /\ Supported(plan[p])
         /\ place[p] \in Packages
         /\ pc[p] = "authorization" => plan[p].kind # "plain"
    /\ pc[p] \in Writing =>
         \A doc \in Document :
           pkg[place[p]][doc] = IF doc \in Earlier(pc[p], plan[p].kind)
                                THEN Part(doc, plan[p]) ELSE None
    /\ \A q \in Procs : pc[p] \in Writing /\ pc[q] \in Writing /\ place[p] = place[q] => p = q

PackageSound ==
  \A d \in Packages :
    /\ pkg[d]["source"] = None => pkg[d] = Empty
    /\ Bound(d) # None => Proper(Bound(d))

\* A process at work on a benchmark is alone, and has not yet written its index.
RunSound ==
  \A p \in Procs :
    /\ pc[p] = "verified" =>
         /\ Proper(plan[p]) /\ plan[p].kind = "authorized" /\ Historical(plan[p])
         /\ place[p] = plan[p].successor /\ cap[p] = plan[p].limit
         /\ refs[p] = 0
    /\ pc[p] \notin Running => refs[p] = 0
    /\ pc[p] = "idle" => plan[p] = None
    /\ pc[p] \in Running =>
         /\ place[p] \in Ids
         /\ begun[place[p]] /\ ~failure[place[p]]
         /\ under[place[p]] = plan[p] /\ (plan[p] # None => cap[p] = plan[p].limit)
         /\ sent[place[p]] <= refs[p] /\ base[place[p]] + refs[p] <= cap[p]
         /\ (pc[p] = "working") <=> (index[place[p]] = None)
    /\ \A q \in Procs : pc[p] \in Running /\ pc[q] \in Running /\ place[p] = place[q] => p = q

\* What a benchmark leaves: an index that covers what was sent, and a base that is
\* what the evidence behind its carryover says.
EvidenceSound ==
  \A b \in Ids :
    /\ ~begun[b] => /\ under[b] = None /\ index[b] = None /\ ~failure[b]
                    /\ base[b] = 0 /\ sent[b] = 0
    /\ failure[b] => index[b] # None
    /\ index[b] # None => sent[b] <= index[b]
    /\ under[b] # None =>
         /\ Proper(under[b]) /\ under[b].kind = "authorized" /\ under[b].successor = b
         /\ Historical(under[b]) /\ base[b] = under[b].consumed
         /\ base[b] + sent[b] <= under[b].limit

Invariant ==
  TypeOK /\ PackageIsOneWrite /\ EvidenceStays
    /\ WriterSound /\ PackageSound /\ RunSound /\ EvidenceSound

-------------------------------------------------------------------------------
(* The files of benchmarks and packages, as their stores have them         *)

ChainFile ==
  ({"benchmark"} \X Ids \X {"config", "index", "failure"})
    \cup ({"package"} \X Packages \X Document)

ChainContent == {"written"} \cup Nat \cup Content

ContentOf(f) ==
  CASE f[1] = "package"   -> pkg[f[2]][f[3]]
    [] f[1] = "benchmark" ->
         CASE f[3] = "config"  -> IF begun[f[2]] THEN "written" ELSE None
           [] f[3] = "index"   -> index[f[2]]
           [] f[3] = "failure" -> IF failure[f[2]] THEN "written" ELSE None

Store ==
  INSTANCE CreateOnlyStore WITH
    Paths    <- ChainFile,
    Contents <- ChainContent,
    files    <- [f \in ChainFile |-> ContentOf(f)],
    safe     <- {}

\* However many processes derive, write and run at once: what a step publishes is one
\* file that was not there, and nothing that another process has read is replaced.
FilesAreCreated ==
  [][\E f \in ChainFile, c \in ChainContent : Store!Create(f, c)]_[f \in ChainFile |-> ContentOf(f)]

===============================================================================
