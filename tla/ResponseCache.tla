----------------------------- MODULE ResponseCache -----------------------------
(***************************************************************************)
(* The response cache that the worker threads of the local service share.   *)
(* Runs about one problem ask for a solution trace and then for the review  *)
(* of the trace they got.  A question is looked up, asked if nobody         *)
(* published an answer, and its answer is published create-only; whoever    *)
(* comes second keeps the answer it paid for.                               *)
(*                                                                         *)
(* A question is <<>> for the trace and <<t>> for the review of trace t:    *)
(* the key of a review hashes the whole trace.  No two answers of the       *)
(* remote are the same, so an answer is a number.                           *)
(***************************************************************************)
EXTENDS Naturals, Sequences, FiniteSets

CONSTANTS CachedRuns,      \* runs about one problem
          Workers,         \* background_workers of the service
          MaxCacheFaults   \* bound: failures of the cache directory

ASSUME ResponseCacheAssumption == Workers \in Nat /\ MaxCacheFaults \in Nat

VARIABLES cache,   \* the published files: question -> answer
          asker,   \* run -> [pc, question, answer]
          drawn,   \* answers of the remote so far
          cacheFaults,
          given    \* history: what _structured_call returned, as <<question, answer>>

cacheVars == <<cache, asker, drawn, cacheFaults, given>>

CacheInit ==
  /\ cache = [q \in {} |-> 0] /\ drawn = 0 /\ cacheFaults = 0 /\ given = {}
  /\ asker = [r \in CachedRuns |-> [pc |-> "queued", question |-> << >>, answer |-> 0]]

Moves(r, pc) == asker' = [asker EXCEPT ![r].pc = pc]
Answers(r, answer) == asker' = [asker EXCEPT ![r].pc = "put", ![r].answer = answer]
Working == {r \in CachedRuns : asker[r].pc \notin {"queued", "done", "failed"}}

\* A thread of the pool takes the run.
Take(r) ==
  /\ asker[r].pc = "queued" /\ Cardinality(Working) < Workers
  /\ Moves(r, "lookup")
  /\ UNCHANGED <<cache, drawn, cacheFaults, given>>

\* JsonResponseCache.get; a cached answer was validated for the same question.
Lookup(r) ==
  LET q == asker[r].question IN
  /\ asker[r].pc = "lookup"
  /\ IF q \in DOMAIN cache THEN Answers(r, cache[q]) ELSE Moves(r, "request")
  /\ UNCHANGED <<cache, drawn, cacheFaults, given>>

\* A valid answer, to the request or to its one repair, which an invalid answer
\* leads to; or the call fails.
Ask(r) ==
  /\ asker[r].pc \in {"request", "repair"}
  /\ \/ Answers(r, drawn + 1) /\ drawn' = drawn + 1
     \/ asker[r].pc = "request" /\ Moves(r, "repair") /\ UNCHANGED drawn
     \/ Moves(r, "failed") /\ UNCHANGED drawn
  /\ UNCHANGED <<cache, cacheFaults, given>>

\* Mutant: a put that raised does not matter.
PutIsOptional(raised) == TRUE

\* Whether the answer is used.
Used(raised) == ~raised

\* JsonResponseCache.put: a link to the first answer, or FileExistsError and the own one
\* is kept; an input/output error, before the link or at the unlink after it, fails the call.
Put(r) ==
  LET q == asker[r].question IN
  /\ asker[r].pc = "put"
  /\ \E raised \in BOOLEAN, linked \in BOOLEAN :
       /\ ~raised => linked
       /\ raised => cacheFaults < MaxCacheFaults
       /\ cacheFaults' = IF raised THEN cacheFaults + 1 ELSE cacheFaults
       /\ cache' = IF linked /\ q \notin DOMAIN cache
                   THEN [k \in DOMAIN cache \cup {q} |->
                           IF k = q THEN asker[r].answer ELSE cache[k]]
                   ELSE cache
       /\ IF Used(raised)
          THEN /\ given' = given \cup {<<q, asker[r].answer>>}
               /\ asker' = [asker EXCEPT ![r] =
                              IF q = << >>
                              THEN [pc |-> "lookup", question |-> <<@.answer>>, answer |-> 0]
                              ELSE [@ EXCEPT !.pc = "done"]]
          ELSE Moves(r, "failed") /\ UNCHANGED given
  /\ UNCHANGED drawn

CacheNext == \E r \in CachedRuns : Take(r) \/ Lookup(r) \/ Ask(r) \/ Put(r)

CacheSpec == CacheInit /\ [][CacheNext]_cacheVars

-------------------------------------------------------------------------------
(* Properties                                                              *)

\* However many runs ask one question, they are given no more answers than there are
\* threads: only those that were on their way when the first answer was published keep
\* another, and an answer that failed to be published is not used.
AnswersAreFew ==
  \A q \in {g[1] : g \in given} :
    Cardinality({g \in given : g[1] = q}) <= Workers

===============================================================================
