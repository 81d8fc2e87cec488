------------------------------ MODULE RunService ------------------------------
(***************************************************************************)
(* The audit run service: HTTP handlers that accept runs, the in-process   *)
(* worker pool that executes them and the reconciliation every service     *)
(* process performs before it serves.  Several processes may share one     *)
(* artifact root.  All durable facts live there, in files that are created *)
(* once and never replaced; a process that stops loses everything else.    *)
(*                                                                         *)
(* A run's transition files 000000.json, 000001.json, ... are the sequence *)
(* log[r].  A writer reads the history, computes the next entry from what  *)
(* it read and tries to create the file of that sequence number; the file  *)
(* system lets one writer of each number win.                              *)
(***************************************************************************)
EXTENDS Naturals, Sequences, FiniteSets

CONSTANTS Runs,        \* run identifiers (uuid4, never reused)
          Procs,       \* service processes sharing the artifact root
          Deliveries,  \* how often the executor may deliver one task
          MaxWorkers,  \* threads of one process's pool
          MaxFaults,   \* bound: input/output errors in a behaviour
          MaxCrashes,  \* bound: process crashes in a behaviour
          None         \* marks an absent value

ASSUME RunServiceAssumption ==
  /\ MaxWorkers \in Nat \ {0}
  /\ MaxFaults \in Nat
  /\ MaxCrashes \in Nat
  /\ None \notin Runs \cup Procs \cup Deliveries
  /\ "handler" \notin Procs \cup Deliveries
  /\ Procs \cap Deliveries = {} /\ Deliveries # {}

Workers == Runs \X Deliveries
RunOf(w) == w[1]

VARIABLES
  dirs,      \* runs whose directory exists below runs/
  requests,  \* runs whose request.json exists
  log,       \* run -> its published transitions
  indexed,   \* runs with a run-index entry
  internal,  \* run -> the worker whose internal report was published
  public,    \* run -> the worker whose public report was published
  owner,     \* run -> the process that took its submission
  hpc,       \* run -> control point of its submission handler
  hseen,     \* run -> history the handler read
  wpc,       \* worker -> control point
  wseen,     \* worker -> history the worker read inside _append_event
  claim,     \* worker -> hash of the RUNNING transition it published
  status,    \* process -> "down", "starting", "up"
  lock,      \* process -> whether RunService._lock is held
  tracked,   \* runs whose future has a done callback
  failures,  \* runs whose failure the executor of the owner has recorded
  rpc,       \* process -> control point of its reconciliation
  rrun,      \* process -> the run under reconciliation
  rseen,     \* process -> history the reconciliation read
  todo,      \* process -> directories listed and not visited yet
  swept,     \* process -> directories visited since it started
  faults,    \* input/output errors so far
  crashes    \* process crashes so far

store   == <<dirs, requests, log, indexed, internal, public>>
handler == <<owner, hpc, hseen>>
worker  == <<wpc, wseen, claim>>
pool    == <<tracked, failures>>
startup == <<rpc, rrun, rseen, todo, swept>>
vars    == <<store, handler, worker, pool, startup, status, lock, faults, crashes>>

-------------------------------------------------------------------------------
(* Transitions and their hash chain *)

Event == {"request", "queued", "running", "completed", "failed"}
TerminalEvent == {"completed", "failed"}

\* Mutant: a running run may be claimed again.
AllowedNextReclaims(e) ==
  CASE e = "request" -> {"queued"}
    [] e \in {"queued", "running"} -> {"running", "completed", "failed"}
    [] OTHER         -> {}

AllowedNext(e) ==
  CASE e = "request" -> {"queued"}
    [] e = "queued"  -> {"running", "failed"}
    [] e = "running" -> {"completed", "failed"}
    [] OTHER         -> {}

\* Who wrote an entry: the submitting handler, a worker, or a reconciliation.
Writer == {"handler"} \cup Deliveries \cup Procs

\* Two writers of one sequence number produce different bytes, and one writer
\* never publishes the same event twice: event and writer stand for the hash.
Hash(e) == [event |-> e.event, by |-> e.by]

ASSUME NoneIsNoHash == None \notin [event : Event, by : Writer]

Entry == [event  : Event,
          by     : Writer,
          prev   : [event : Event, by : Writer] \cup {None},
          report : Deliveries \cup {None}]

\* Mutant: the entry carries its predecessor instead of its hash.
NewEntryEmbeds(event, by, seen, report) ==
  [event  |-> event,
   by     |-> by,
   prev   |-> IF seen = <<>> THEN None ELSE seen[Len(seen)],
   report |-> report]

NewEntry(event, by, seen, report) ==
  [event  |-> event,
   by     |-> by,
   prev   |-> IF seen = <<>> THEN None ELSE Hash(seen[Len(seen)]),
   report |-> report]

LastOf(s) == s[Len(s)]
HasEvent(s, events) == s # <<>> /\ LastOf(s).event \in events
Terminal(r) == HasEvent(log[r], TerminalEvent)
Active(r) == HasEvent(log[r], {"queued", "running"})

\* Mutant: the worker trusts the claim it remembers.
ClaimIsRemembered(w) == claim[w] # None

\* RunService._claim_is_current
ClaimIsCurrent(w) ==
  LET l == log[RunOf(w)] IN
  HasEvent(l, {"running"}) /\ Hash(LastOf(l)) = claim[w]

-------------------------------------------------------------------------------
(* Creating one file: it appears, it was there already, or the call fails  *)
(* with an error, before or after the file was published (the directory is *)
(* fsynced after the link).                                                *)

Fault == faults < MaxFaults /\ faults' = faults + 1

\* Mutant: os.rename in place of os.link replaces what another writer published.
PublishByRename(r, seen, e) ==
  log' = [log EXCEPT ![r] = IF Len(@) > Len(seen) THEN [@ EXCEPT ![Len(seen) + 1] = e]
                                                  ELSE Append(@, e)]

\* A writer that read Len(seen) entries creates the file of that sequence number.
Publish(r, seen, e) ==
  Len(log[r]) = Len(seen) /\ log' = [log EXCEPT ![r] = Append(@, e)]

Taken(r, seen) == Len(log[r]) > Len(seen) /\ UNCHANGED log

Broken(r, seen, e) == Fault /\ (Publish(r, seen, e) \/ UNCHANGED log)

\* The same for a file that is one per run: a set of runs stands for it.
Create(set, r) == set \cup {r}
CreateBroken(set, r) == {set, set \cup {r}}

-------------------------------------------------------------------------------
Init ==
  /\ dirs = {} /\ requests = {} /\ indexed = {}
  /\ log = [r \in Runs |-> <<>>]
  /\ internal = [r \in Runs |-> None]
  /\ public = [r \in Runs |-> None]
  /\ owner = [r \in Runs |-> None]
  /\ hpc = [r \in Runs |-> "idle"]
  /\ hseen = [r \in Runs |-> <<>>]
  /\ wpc = [w \in Workers |-> "none"]
  /\ wseen = [w \in Workers |-> <<>>]
  /\ claim = [w \in Workers |-> None]
  /\ status = [p \in Procs |-> "down"]
  /\ lock = [p \in Procs |-> FALSE]
  /\ tracked = {} /\ failures = {}
  /\ rpc = [p \in Procs |-> "none"]
  /\ rrun = [p \in Procs |-> None]
  /\ rseen = [p \in Procs |-> <<>>]
  /\ todo = [p \in Procs |-> {}]
  /\ swept = [p \in Procs |-> {}]
  /\ faults = 0 /\ crashes = 0

-------------------------------------------------------------------------------
(* RunService.submit: one handler per run.  The first block of writes runs *)
(* under the lock of the process; any exception in it answers HTTP 500 and *)
(* leaves the files already written in place.                              *)

Unlock(p) == lock' = [lock EXCEPT ![p] = FALSE]
Lock(p) == ~lock[p] /\ lock' = [lock EXCEPT ![p] = TRUE]

HandlerGoes(r, to) == hpc' = [hpc EXCEPT ![r] = to]

\* Mutant: a failed write is swallowed and the client is answered 202.
HandlerSwallows(r) == HandlerGoes(r, "accepted") /\ Unlock(owner[r])

\* An exception leaves the with block.
HandlerRaises(r) == HandlerGoes(r, "error") /\ Unlock(owner[r])

Submit(p, r) ==
  /\ status[p] = "up"
  /\ hpc[r] = "idle"
  /\ Lock(p)
  /\ owner' = [owner EXCEPT ![r] = p]
  /\ HandlerGoes(r, "mkdir")
  /\ UNCHANGED <<store, hseen, worker, pool, startup, status, faults, crashes>>

\* _open_parent(create=True) makes runs/<id> before anything is written in it.
MakeRunDirectory(r) ==
  /\ hpc[r] = "mkdir"
  /\ \/ /\ dirs' = Create(dirs, r)
        /\ HandlerGoes(r, "request")
        /\ UNCHANGED <<lock, faults>>
     \/ /\ Fault
        /\ dirs' \in CreateBroken(dirs, r)
        /\ HandlerRaises(r)
  /\ UNCHANGED <<requests, log, indexed, internal, public, owner, hseen,
                 worker, pool, startup, status, crashes>>

WriteRequest(r) ==
  /\ hpc[r] = "request"
  /\ \/ /\ requests' = Create(requests, r)
        /\ HandlerGoes(r, "first")
        /\ UNCHANGED <<lock, faults>>
     \/ /\ Fault
        /\ requests' \in CreateBroken(requests, r)
        /\ HandlerRaises(r)
  /\ UNCHANGED <<dirs, log, indexed, internal, public, owner, hseen,
                 worker, pool, startup, status, crashes>>

\* Transitions 0 and 1 are built from what this handler wrote, not from a read
\* of the history: hseen holds its own chain.
HandlerWrites(r, at, event, to) ==
  LET e == NewEntry(event, "handler", hseen[r], None) IN
  /\ hpc[r] = at
  /\ \/ /\ Publish(r, hseen[r], e)
        /\ hseen' = [hseen EXCEPT ![r] = Append(@, e)]
        /\ HandlerGoes(r, to)
        /\ UNCHANGED <<lock, faults>>
     \/ /\ Taken(r, hseen[r])
        /\ HandlerRaises(r)
        /\ UNCHANGED <<hseen, faults>>
     \/ /\ Broken(r, hseen[r], e)
        /\ HandlerRaises(r)
        /\ UNCHANGED hseen
  /\ UNCHANGED <<dirs, requests, indexed, internal, public, owner,
                 worker, pool, startup, status, crashes>>

WriteFirstTransition(r) == HandlerWrites(r, "first", "request", "second")
WriteQueuedTransition(r) == HandlerWrites(r, "second", "queued", "index")

WriteIndex(r) ==
  /\ hpc[r] = "index"
  /\ \/ /\ indexed' = Create(indexed, r)
        /\ HandlerGoes(r, "dispatch")
        /\ Unlock(owner[r])
        /\ UNCHANGED faults
     \/ /\ Fault
        /\ indexed' \in CreateBroken(indexed, r)
        /\ HandlerRaises(r)
  /\ UNCHANGED <<dirs, requests, log, internal, public, owner, hseen,
                 worker, pool, startup, status, crashes>>

\* Every delivery of the task of run r waits in the pool's queue.
Enqueued(r) ==
  [w \in Workers |-> IF RunOf(w) = r THEN "queued" ELSE wpc[w]]

\* InProcessBackgroundExecutor.submit.  ThreadPoolExecutor may raise (a thread
\* cannot be started) after it has put the task in its queue.
Dispatch(r) ==
  /\ hpc[r] = "dispatch"
  /\ \/ /\ wpc' = Enqueued(r)
        /\ tracked' = tracked \cup {r}
        /\ HandlerGoes(r, "accepted")
        /\ UNCHANGED faults
     \/ /\ Fault
        /\ wpc' \in {wpc, Enqueued(r)}
        /\ HandlerGoes(r, "rejected")
        /\ UNCHANGED tracked
  /\ UNCHANGED <<store, owner, hseen, wseen, claim, failures,
                 startup, status, lock, crashes>>

\* _append_failure(EXECUTOR_FAILURE): the read, with the lock held from here.
HandlerReadsHistory(r) ==
  /\ hpc[r] = "rejected"
  /\ \/ /\ ~Terminal(r)
        /\ Lock(owner[r])
        /\ hseen' = [hseen EXCEPT ![r] = log[r]]
        /\ HandlerGoes(r, "failing")
        /\ UNCHANGED faults
     \/ /\ Terminal(r) /\ ~lock[owner[r]]    \* TerminalRunError is not caught
        /\ HandlerGoes(r, "error")
        /\ UNCHANGED <<hseen, lock, faults>>
     \/ /\ Fault /\ ~lock[owner[r]]
        /\ HandlerGoes(r, "error")
        /\ UNCHANGED <<hseen, lock>>
  /\ UNCHANGED <<store, owner, worker, pool, startup, status, crashes>>

HandlerWritesFailure(r) ==
  LET e == NewEntry("failed", "handler", hseen[r], None) IN
  /\ hpc[r] = "failing"
  /\ Unlock(owner[r])
  /\ \/ /\ Publish(r, hseen[r], e) \/ Taken(r, hseen[r])
        /\ HandlerGoes(r, "accepted")
        /\ UNCHANGED faults
     \/ /\ Broken(r, hseen[r], e)
        /\ HandlerGoes(r, "error")
  /\ UNCHANGED <<dirs, requests, indexed, internal, public, owner, hseen,
                 worker, pool, startup, status, crashes>>

-------------------------------------------------------------------------------
(* RunService._execute, run by a pool thread                               *)

WorkerGoes(w, to) == wpc' = [wpc EXCEPT ![w] = to]

Idle == {"none", "queued", "returned", "raised", "done", "gone"}
Busy(p) == {w \in Workers : owner[RunOf(w)] = p /\ wpc[w] \notin Idle}

WorkerStarts(w) ==
  /\ wpc[w] = "queued"
  /\ Cardinality(Busy(owner[RunOf(w)])) < MaxWorkers
  /\ WorkerGoes(w, "claim")
  /\ UNCHANGED <<store, handler, wseen, claim, pool, startup, status, lock,
                 faults, crashes>>

\* _append_event up to the write: take the lock, read the history, and refuse
\* when the run is terminal, when another transition than the expected one is
\* the latest, or when the event may not follow the latest.
Appendable(w, event) ==
  /\ ~Terminal(RunOf(w))
  /\ claim[w] # None => Hash(LastOf(log[RunOf(w)])) = claim[w]
  /\ event \in AllowedNext(LastOf(log[RunOf(w)]).event)

WorkerReads(w, at, event, to, onError) ==
  LET r == RunOf(w)
      p == owner[r] IN
  /\ wpc[w] = at
  /\ \/ /\ Appendable(w, event)
        /\ Lock(p)
        /\ wseen' = [wseen EXCEPT ![w] = log[r]]
        /\ WorkerGoes(w, to)
        /\ UNCHANGED faults
     \/ /\ ~Appendable(w, event) /\ ~lock[p]
        /\ WorkerGoes(w, "returned")
        /\ UNCHANGED <<wseen, lock, faults>>
     \/ /\ Fault /\ ~lock[p]
        /\ WorkerGoes(w, onError)
        /\ UNCHANGED <<wseen, lock>>
  /\ UNCHANGED <<store, handler, claim, pool, startup, status, crashes>>

\* The write of the transition: a lost race returns None and ends the task.
WorkerWrites(w, at, event, report, to, onError) ==
  LET r == RunOf(w)
      e == NewEntry(event, w[2], wseen[w], report) IN
  /\ wpc[w] = at
  /\ Unlock(owner[r])
  /\ \/ /\ Publish(r, wseen[w], e)
        /\ claim' = IF event = "running" THEN [claim EXCEPT ![w] = Hash(e)] ELSE claim
        /\ WorkerGoes(w, to)
        /\ UNCHANGED faults
     \/ /\ Taken(r, wseen[w])
        /\ WorkerGoes(w, "returned")
        /\ UNCHANGED <<claim, faults>>
     \/ /\ Broken(r, wseen[w], e)
        /\ WorkerGoes(w, onError)
        /\ UNCHANGED claim
  /\ UNCHANGED <<dirs, requests, indexed, internal, public, handler, wseen,
                 pool, startup, status, crashes>>

ReadForClaim(w) == WorkerReads(w, "claim", "running", "claiming", "fail")
WriteClaim(w) == WorkerWrites(w, "claiming", "running", None, "generate", "fail")

\* A generation, a judgement or a review ends, well or with an exception.
AfterPhase == [generate |-> "generated", judge |-> "judged", review |-> "reviewed"]
Phases == DOMAIN AfterPhase

PhaseEnds(w) ==
  /\ wpc[w] \in Phases
  /\ \/ WorkerGoes(w, AfterPhase[wpc[w]])
     \/ WorkerGoes(w, "fail")
  /\ UNCHANGED <<store, handler, wseen, claim, pool, startup, status, lock,
                 faults, crashes>>

\* Mutant: the internal report is forgotten.
NextPhaseSkipsReport == [generated |-> "judge", judged |-> "review", reviewed |-> "public"]

\* _claim_is_current between two phases.  The check before _complete and the one
\* at its start have nothing in between: they are one.
NextPhase == [generated |-> "judge", judged |-> "review", reviewed |-> "internal"]

CheckClaim(w) ==
  /\ wpc[w] \in DOMAIN NextPhase
  /\ \/ /\ ClaimIsCurrent(w)
        /\ WorkerGoes(w, NextPhase[wpc[w]])
        /\ UNCHANGED faults
     \/ /\ ~ClaimIsCurrent(w)
        /\ WorkerGoes(w, "returned")
        /\ UNCHANGED faults
     \/ /\ Fault
        /\ WorkerGoes(w, "fail")
  /\ UNCHANGED <<store, handler, wseen, claim, pool, startup, status, lock, crashes>>

\* _complete: the two reports, then COMPLETED.
WriteInternalReport(w) ==
  LET r == RunOf(w) IN
  /\ wpc[w] = "internal"
  /\ \/ /\ internal[r] = None
        /\ internal' = [internal EXCEPT ![r] = w[2]]
        /\ WorkerGoes(w, "public")
        /\ UNCHANGED faults
     \/ /\ internal[r] # None
        /\ WorkerGoes(w, "fail")
        /\ UNCHANGED <<internal, faults>>
     \/ /\ Fault
        /\ \/ internal[r] = None /\ internal' = [internal EXCEPT ![r] = w[2]]
           \/ UNCHANGED internal
        /\ WorkerGoes(w, "fail")
  /\ UNCHANGED <<dirs, requests, log, indexed, public, handler, wseen, claim,
                 pool, startup, status, lock, crashes>>

WritePublicReport(w) ==
  LET r == RunOf(w) IN
  /\ wpc[w] = "public"
  /\ \/ /\ public[r] = None
        /\ public' = [public EXCEPT ![r] = w[2]]
        /\ WorkerGoes(w, "complete")
        /\ UNCHANGED faults
     \/ /\ public[r] # None
        /\ WorkerGoes(w, "fail")
        /\ UNCHANGED <<public, faults>>
     \/ /\ Fault
        /\ \/ public[r] = None /\ public' = [public EXCEPT ![r] = w[2]]
           \/ UNCHANGED public
        /\ WorkerGoes(w, "fail")
  /\ UNCHANGED <<dirs, requests, log, indexed, internal, handler, wseen, claim,
                 pool, startup, status, lock, crashes>>

ReadForCompleted(w) == WorkerReads(w, "complete", "completed", "completing", "fail")
WriteCompleted(w) ==
  WorkerWrites(w, "completing", "completed", w[2], "returned", "fail")

\* _append_owned_failure: with a claim, look whether it is still current first.
CheckOwnership(w) ==
  /\ wpc[w] = "fail"
  /\ \/ /\ claim[w] = None \/ ClaimIsCurrent(w)
        /\ WorkerGoes(w, "owned")
        /\ UNCHANGED faults
     \/ /\ claim[w] # None /\ ~ClaimIsCurrent(w)
        /\ WorkerGoes(w, "returned")
        /\ UNCHANGED faults
     \/ /\ claim[w] # None /\ Fault
        /\ WorkerGoes(w, "raised")
  /\ UNCHANGED <<store, handler, wseen, claim, pool, startup, status, lock, crashes>>

ReadForFailed(w) == WorkerReads(w, "owned", "failed", "failing", "raised")
WriteFailed(w) == WorkerWrites(w, "failing", "failed", None, "returned", "raised")

\* Mutant: the callback drops the future without looking at its exception.
RecordsNothing(w) == FALSE

\* InProcessBackgroundExecutor._task_done: only a future that submit returned
\* has the callback that records the failure.
RecordsFailure(w) == wpc[w] = "raised" /\ RunOf(w) \in tracked

TaskDone(w) ==
  /\ wpc[w] \in {"returned", "raised"}
  /\ failures' = failures \cup {r \in {RunOf(w)} : RecordsFailure(w)}
  /\ WorkerGoes(w, "done")
  /\ UNCHANGED <<store, handler, wseen, claim, tracked, startup, status, lock,
                 faults, crashes>>

-------------------------------------------------------------------------------
(* RunService.reconcile_abandoned_runs, called by the lifespan of the      *)
(* application before it serves; an exception ends the process.            *)

Start(p) ==
  /\ status[p] = "down"
  /\ status' = [status EXCEPT ![p] = "starting"]
  /\ Lock(p)
  /\ rpc' = [rpc EXCEPT ![p] = "next"]
  /\ todo' = [todo EXCEPT ![p] = dirs]
  /\ UNCHANGED <<store, handler, worker, pool, rrun, rseen, swept, faults, crashes>>

\* Everything the memory of process p held is lost.
Forget(p) ==
  /\ status' = [status EXCEPT ![p] = "down"]
  /\ Unlock(p)
  /\ rpc' = [rpc EXCEPT ![p] = "none"]
  /\ rrun' = [rrun EXCEPT ![p] = None]
  /\ rseen' = [rseen EXCEPT ![p] = <<>>]
  /\ todo' = [todo EXCEPT ![p] = {}]
  /\ swept' = [swept EXCEPT ![p] = {}]

\* The next run directory: its request must be readable.
OpenRun(p, r) ==
  /\ rpc[p] = "next"
  /\ r \in todo[p]
  /\ \/ /\ r \in requests
        /\ rrun' = [rrun EXCEPT ![p] = r]
        /\ rpc' = [rpc EXCEPT ![p] = "read"]
        /\ UNCHANGED <<rseen, todo, swept, status, lock, faults>>
     \/ /\ r \notin requests                 \* InvalidRunHistoryError
        /\ Forget(p)
        /\ UNCHANGED faults
     \/ Fault /\ Forget(p)
  /\ UNCHANGED <<store, handler, worker, pool, crashes>>

Advance(p) ==
  /\ rpc' = [rpc EXCEPT ![p] = "next"]
  /\ rrun' = [rrun EXCEPT ![p] = None]
  /\ rseen' = [rseen EXCEPT ![p] = <<>>]
  /\ todo' = [todo EXCEPT ![p] = @ \ {rrun[p]}]
  /\ swept' = [swept EXCEPT ![p] = @ \cup {rrun[p]}]
  /\ UNCHANGED <<status, lock>>

\* Mutant: a queued run is left for a worker that no longer exists.
NeedsNothingWhenQueued(r) == HasEvent(log[r], {"queued", "completed", "failed"})

\* A run that is over needs no repair.
NeedsNothing(r) == Terminal(r)

\* Read the history: any other run gets its next entry.
ReadRun(p) ==
  /\ rpc[p] = "read"
  /\ \/ /\ NeedsNothing(rrun[p])
        /\ Advance(p)
        /\ UNCHANGED faults
     \/ /\ ~NeedsNothing(rrun[p])
        /\ rseen' = [rseen EXCEPT ![p] = log[rrun[p]]]
        /\ rpc' = [rpc EXCEPT ![p] = "write"]
        /\ UNCHANGED <<rrun, todo, swept, status, lock, faults>>
     \/ Fault /\ Forget(p)
  /\ UNCHANGED <<store, handler, worker, pool, crashes>>

\* _recover_partial_queue supplies the first two entries, then
\* _append_failure(ABANDONED_ON_RESTART).
Repair(s) == CASE Len(s) = 0 -> "request"
               [] Len(s) = 1 -> "queued"
               [] OTHER      -> "failed"

\* A lost race counts as done: the file is there.
WriteRun(p) ==
  LET r == rrun[p]
      e == NewEntry(Repair(rseen[p]), p, rseen[p], None) IN
  /\ rpc[p] = "write"
  /\ \/ /\ Publish(r, rseen[p], e) \/ Taken(r, rseen[p])
        /\ IF e.event = "failed"
           THEN Advance(p)
           ELSE /\ rpc' = [rpc EXCEPT ![p] = "read"]
                /\ UNCHANGED <<rrun, rseen, todo, swept, status, lock>>
        /\ UNCHANGED faults
     \/ Broken(r, rseen[p], e) /\ Forget(p)
  /\ UNCHANGED <<dirs, requests, indexed, internal, public, handler, worker,
                 pool, crashes>>

Serve(p) ==
  /\ rpc[p] = "next"
  /\ todo[p] = {}
  /\ status' = [status EXCEPT ![p] = "up"]
  /\ rpc' = [rpc EXCEPT ![p] = "none"]
  /\ Unlock(p)
  /\ UNCHANGED <<store, handler, worker, pool, rrun, rseen, todo, swept,
                 faults, crashes>>

-------------------------------------------------------------------------------
(* A process stops at any point; its threads go with it.                   *)

Answered == {"idle", "accepted", "error"}

Crash(p) ==
  /\ status[p] # "down"
  /\ crashes < MaxCrashes
  /\ crashes' = crashes + 1
  /\ Forget(p)
  /\ hpc' = [r \in Runs |-> IF owner[r] = p /\ hpc[r] \notin Answered
                            THEN "gone" ELSE hpc[r]]
  /\ wpc' = [w \in Workers |-> IF owner[RunOf(w)] = p /\ wpc[w] \notin {"none", "done"}
                               THEN "gone" ELSE wpc[w]]
  /\ tracked' = {r \in tracked : owner[r] # p}
  /\ failures' = {r \in failures : owner[r] # p}
  /\ UNCHANGED <<store, owner, hseen, wseen, claim, faults>>

-------------------------------------------------------------------------------
HandlerStep(r) ==
  \/ MakeRunDirectory(r) \/ WriteRequest(r)
  \/ WriteFirstTransition(r) \/ WriteQueuedTransition(r)
  \/ WriteIndex(r) \/ Dispatch(r)
  \/ HandlerReadsHistory(r) \/ HandlerWritesFailure(r)

WorkerStep(w) ==
  \/ WorkerStarts(w) \/ ReadForClaim(w) \/ WriteClaim(w)
  \/ PhaseEnds(w) \/ CheckClaim(w)
  \/ WriteInternalReport(w) \/ WritePublicReport(w)
  \/ ReadForCompleted(w) \/ WriteCompleted(w)
  \/ CheckOwnership(w) \/ ReadForFailed(w) \/ WriteFailed(w)
  \/ TaskDone(w)

StartupStep(p) ==
  \/ \E r \in Runs : OpenRun(p, r)
  \/ ReadRun(p) \/ WriteRun(p) \/ Serve(p)

Next ==
  \/ \E p \in Procs, r \in Runs : Submit(p, r)
  \/ \E r \in Runs : HandlerStep(r)
  \/ \E w \in Workers : WorkerStep(w)
  \/ \E p \in Procs : Start(p) \/ StartupStep(p) \/ Crash(p)

Spec == Init /\ [][Next]_vars

\* Threads that can run do; generation, judge and review calls return (each has
\* a deadline of its own); an operator restarts a process that stopped.
Fairness ==
  /\ \A r \in Runs : WF_vars(HandlerStep(r))
  /\ \A w \in Workers : WF_vars(WorkerStep(w))
  /\ \A p \in Procs : WF_vars(Start(p)) /\ WF_vars(StartupStep(p))

FairSpec == Spec /\ Fairness

-------------------------------------------------------------------------------
(* Reading a run                                                           *)

\* _validate_event_chain and the link checks of _load_transition_history, on
\* any history, partial ones included.
LegalChain(s) ==
  /\ Len(s) >= 1 => s[1].event = "request" /\ s[1].prev = None
  /\ \A i \in 2..Len(s) : /\ s[i].event \in AllowedNext(s[i-1].event)
                           /\ s[i].prev = Hash(s[i-1])

\* RunService.get_run, asked of process p.
View(p, r) ==
  IF r \notin requests THEN "missing"
  ELSE IF Len(log[r]) < 2 \/ ~LegalChain(log[r]) THEN "invalid"
  ELSE LET last == LastOf(log[r]) IN
       CASE last.event = "completed" ->
              IF public[r] # None /\ public[r] = last.report THEN "completed" ELSE "invalid"
         [] last.event = "running" /\ owner[r] = p /\ r \in failures -> "degraded"
         [] OTHER -> last.event

-------------------------------------------------------------------------------
(* Properties                                                              *)

HandlerPoint == {"idle", "mkdir", "request", "first", "second", "index", "dispatch",
                 "rejected", "failing", "accepted", "error", "gone"}
WorkerPoint == {"none", "queued", "claim", "claiming", "generate", "generated",
                "judge", "judged", "review", "reviewed", "internal", "public",
                "complete", "completing", "fail", "owned", "failing", "returned",
                "raised", "done", "gone"}

StoreType ==
  /\ dirs \subseteq Runs /\ requests \subseteq Runs /\ indexed \subseteq Runs
  /\ log \in [Runs -> Seq(Entry)]
  /\ internal \in [Runs -> Deliveries \cup {None}]
  /\ public \in [Runs -> Deliveries \cup {None}]

HandlerType ==
  /\ owner \in [Runs -> Procs \cup {None}]
  /\ hpc \in [Runs -> HandlerPoint]
  /\ hseen \in [Runs -> Seq(Entry)]

WorkerType ==
  /\ wpc \in [Workers -> WorkerPoint]
  /\ wseen \in [Workers -> Seq(Entry)]
  /\ claim \in [Workers -> [event : Event, by : Writer] \cup {None}]
  /\ tracked \subseteq Runs /\ failures \subseteq Runs

ProcessType ==
  /\ status \in [Procs -> {"down", "starting", "up"}]
  /\ lock \in [Procs -> BOOLEAN]
  /\ rpc \in [Procs -> {"none", "next", "read", "write"}]
  /\ rrun \in [Procs -> Runs \cup {None}]
  /\ rseen \in [Procs -> Seq(Entry)]
  /\ todo \in [Procs -> SUBSET Runs]
  /\ swept \in [Procs -> SUBSET Runs]
  /\ faults \in Nat /\ crashes \in Nat

\* Every history anyone holds is a sequence of transitions and every control
\* point is one of the code's.
TypeOK == StoreType /\ HandlerType /\ WorkerType /\ ProcessType

\* Whatever handlers, workers and reconciliations of several processes write at
\* the same time, and wherever they stop, a run's transitions form one legal
\* chain in which each entry carries the hash of the one before it.
ChainIntact == \A r \in Runs : LegalChain(log[r])

\* A client that was answered 202 can read its run from any process from then
\* on: never "not found", never a history or report the reader rejects.
AcceptedIsReadable ==
  \A r \in Runs, p \in Procs :
    hpc[r] = "accepted" => View(p, r) \notin {"missing", "invalid"}

\* A completed run was completed by the worker that holds its RUNNING claim, and
\* both reports are that worker's.
CompletedByClaimHolder ==
  \A r \in Runs : HasEvent(log[r], {"completed"}) =>
    \E w \in Workers : /\ RunOf(w) = r
                       /\ log[r][3].event = "running" /\ log[r][3].by = w[2]
                       /\ internal[r] = w[2] /\ public[r] = w[2]
                       /\ LastOf(log[r]).report = w[2]

\* However often the executor delivers a task, one worker at most gets past the
\* claim: generation, judge and reviewers are not paid for twice.
SingleClaim ==
  \A v, w \in Workers :
    RunOf(v) = RunOf(w) /\ claim[v] # None /\ claim[w] # None => v = w

\* A live process never loses a run it accepted: while the run is active some
\* thread still has work to do for it, or its failure is recorded.
AttendedWhileActive ==
  \A r \in Runs :
    hpc[r] = "accepted" /\ Active(r) /\ status[owner[r]] = "up" =>
      \/ r \in failures
      \/ \E w \in Workers : RunOf(w) = r /\ wpc[w] \notin {"none", "done", "gone"}

\* What a startup has visited is over, except a run whose worker, in another
\* process, won the race for the claim against the abandonment.
SweptIsSettled ==
  \A p \in Procs : \A r \in swept[p] :
    Terminal(r) \/ (HasEvent(log[r], {"running"}) /\ owner[r] # p)

\* A worker whose run has been ended, by a startup of another process or by its
\* own handler, starts no further phase and writes no further transition: at the
\* check after the phase it is in, it leaves.
StaleWorkerStops ==
  [][\A w \in Workers :
       Terminal(RunOf(w)) /\ claim[w] # None /\ wpc'[w] # wpc[w]
       => wpc'[w] \notin Phases \cup {"internal", "completing", "owned", "failing"}]_vars

-------------------------------------------------------------------------------
(* The inductive invariant behind these properties                         *)

PrefixOf(s, t) == Len(s) <= Len(t) /\ \A i \in 1..Len(s) : s[i] = t[i]

\* What the files of a run say of each other.
FilesSound(r) ==
  /\ LegalChain(log[r])
  /\ \A i \in 1..Len(log[r]) :
       /\ log[r][i].event = "running" => log[r][i].by \in Deliveries
       /\ log[r][i].event = "completed" =>
            /\ log[r][i].report = log[r][3].by
            /\ internal[r] = log[r][3].by /\ public[r] = log[r][3].by

\* A handler works before its run has workers, on a history that only grew since.
BeforeDispatch == {"idle", "mkdir", "request", "first", "second", "index", "dispatch"}
HandlerSound(r) ==
  /\ hpc[r] = "idle" => log[r] = <<>> /\ r \notin requests /\ owner[r] = None
  /\ hpc[r] # "idle" => owner[r] \in Procs
  /\ hpc[r] \in {"first", "second", "index", "dispatch", "rejected", "failing",
                 "accepted"} => r \in requests
  /\ hpc[r] \in {"index", "dispatch", "rejected", "failing", "accepted"} =>
       Len(log[r]) >= 2
  /\ PrefixOf(hseen[r], log[r])
  /\ hpc[r] \in {"idle", "mkdir", "request", "first"} => hseen[r] = <<>>
  /\ hpc[r] = "second" => Len(hseen[r]) = 1
  /\ hpc[r] = "failing" => HasEvent(hseen[r], {"queued", "running"})
  /\ hpc[r] \in BeforeDispatch => \A w \in Workers : RunOf(w) = r => wpc[w] = "none"

\* A worker past the claim holds the one RUNNING entry, and the reports it wrote.
Claimed == {"generate", "generated", "judge", "judged", "review", "reviewed",
            "internal", "public", "complete", "completing"}
WorkerSound(w) ==
  LET l == log[RunOf(w)] IN
  /\ wpc[w] # "none" => Len(l) >= 2
  /\ wpc[w] \in {"none", "queued", "claim", "claiming"} => claim[w] = None
  /\ wpc[w] \in Claimed => claim[w] # None
  /\ claim[w] # None => /\ Len(l) >= 3 /\ l[3].event = "running" /\ l[3].by = w[2]
                        /\ claim[w] = Hash(l[3])
  /\ PrefixOf(wseen[w], l)
  /\ wpc[w] = "claiming" => HasEvent(wseen[w], {"queued"})
  /\ wpc[w] = "completing" => HasEvent(wseen[w], {"running"})
  /\ wpc[w] = "failing" => HasEvent(wseen[w], {"queued", "running"})
  /\ wpc[w] \in {"public", "complete", "completing"} => internal[RunOf(w)] = w[2]
  /\ wpc[w] \in {"complete", "completing"} => public[RunOf(w)] = w[2]

\* A process that is not serving has no thread of an earlier life, and a startup
\* that read a queued run can only lose it to another process.
StartupSound(p) ==
  /\ rpc[p] # "none" => status[p] = "starting"
  /\ status[p] # "up" =>
       /\ \A r \in Runs : owner[r] = p => hpc[r] \in Answered \cup {"gone"}
       /\ \A w \in Workers : owner[RunOf(w)] = p => wpc[w] \in {"none", "done", "gone"}
  /\ rpc[p] \in {"read", "write"} => rrun[p] \in Runs /\ rrun[p] \in requests
  /\ rpc[p] = "write" =>
       LET l == log[rrun[p]] IN
       /\ PrefixOf(rseen[p], l)
       /\ ~HasEvent(rseen[p], TerminalEvent)
       /\ Len(rseen[p]) = 2 /\ Len(l) >= 3 /\ l[3].event = "running"
            => owner[rrun[p]] # p

FilesInvariant == \A r \in Runs : FilesSound(r)
HandlerInvariant == \A r \in Runs : HandlerSound(r)
WorkerInvariant == \A w \in Workers : WorkerSound(w)
StartupInvariant == \A p \in Procs : StartupSound(p)

Invariant ==
  /\ TypeOK
  /\ FilesInvariant /\ HandlerInvariant /\ WorkerInvariant /\ StartupInvariant
  /\ SweptIsSettled

-------------------------------------------------------------------------------
(* What AttendedWhileActive needs beside it                                *)

HandlerHolds(r) == hpc[r] \in {"mkdir", "request", "first", "second", "index", "failing"}
WorkerHolds(w) == wpc[w] \in {"claiming", "completing", "failing"}

\* The lock of a process has one holder at a time.
LockSound ==
  /\ \A r \in Runs : HandlerHolds(r) => lock[owner[r]]
  /\ \A w \in Workers : WorkerHolds(w) => lock[owner[RunOf(w)]]
  /\ \A r, q \in Runs :
       HandlerHolds(r) /\ HandlerHolds(q) /\ owner[r] = owner[q] => r = q
  /\ \A v, w \in Workers :
       WorkerHolds(v) /\ WorkerHolds(w) /\ owner[RunOf(v)] = owner[RunOf(w)] => v = w
  /\ \A r \in Runs, w \in Workers :
       HandlerHolds(r) /\ WorkerHolds(w) => owner[r] # owner[RunOf(w)]

\* So a writer of an accepted run loses its race to a startup only, which ended the run.
RacesSound ==
  /\ \A w \in Workers :
       WorkerHolds(w) /\ log[RunOf(w)] # wseen[w] => Terminal(RunOf(w))
  /\ \A r \in Runs : hpc[r] = "failing" /\ log[r] # hseen[r] => Terminal(r)

\* Who wrote RUNNING is past the claim.
RunningSound ==
  \A w \in Workers :
    LET l == log[RunOf(w)] IN
    Len(l) >= 3 /\ l[3].event = "running" /\ l[3].by = w[2] =>
      wpc[w] \notin {"none", "queued", "claim"}

\* A worker that will do something for its run, if only to report that it failed.
Attends(w) == wpc[w] \notin {"none", "done", "gone", "returned"}
Minded(r) ==
  /\ r \in tracked
  /\ \/ r \in failures
     \/ \E w \in Workers :
          /\ RunOf(w) = r /\ Attends(w)
          /\ LastOf(log[r]).event = "running" => w[2] = LastOf(log[r]).by
AttendedSound ==
  \A r \in Runs :
    hpc[r] = "accepted" /\ Active(r) /\ status[owner[r]] = "up" => Minded(r)

\* A startup does not overlook what its process accepted in an earlier life.
VisitSound ==
  /\ \A r \in Runs : hpc[r] \notin {"idle", "mkdir", "error", "gone"} => r \in dirs
  /\ \A p \in Procs, r \in Runs :
       status[p] = "starting" /\ hpc[r] = "accepted" /\ owner[r] = p =>
         r \in todo[p] \cup swept[p]

AttendedInvariant ==
  LockSound /\ RacesSound /\ RunningSound /\ AttendedSound /\ VisitSound

-------------------------------------------------------------------------------
\* What a client can observe of runs is the life cycle of RunLifecycle.
PhaseOf(r) == IF Len(log[r]) < 2 THEN "absent" ELSE LastOf(log[r]).event
ClaimantOf(r) == IF Len(log[r]) >= 3 /\ log[r][3].event = "running" THEN log[r][3].by ELSE None
ResultOf(r) == IF HasEvent(log[r], {"completed"}) THEN public[r] ELSE None

Lifecycle ==
  INSTANCE RunLifecycle WITH
    phase    <- [r \in Runs |-> PhaseOf(r)],
    claimant <- [r \in Runs |-> ClaimantOf(r)],
    result   <- [r \in Runs |-> ResultOf(r)]

LifecycleSpec == Lifecycle!Spec

\* The files of the runs, as the store has them.  Transition 000000.json is number 1 here.
RunFile == ({"request", "index", "internal", "public"} \X Runs \X {0})
             \cup ({"transition"} \X Runs \X (1..4))

\* A report is told by its worker, the request of a run and its index entry by the run.
RunContent == Runs \cup Deliveries \cup Entry

ContentOf(f) ==
  LET r == f[2] IN
  CASE f[1] = "request"    -> IF r \in requests THEN r ELSE None
    [] f[1] = "index"      -> IF r \in indexed THEN r ELSE None
    [] f[1] = "internal"   -> internal[r]
    [] f[1] = "public"     -> public[r]
    [] f[1] = "transition" -> IF f[3] <= Len(log[r]) THEN log[r][f[3]] ELSE None

Store ==
  INSTANCE CreateOnlyStore WITH
    Paths    <- RunFile,
    Contents <- RunContent,
    files    <- [f \in RunFile |-> ContentOf(f)],
    safe     <- {}

\* Handlers, workers, startups and crashes do with the files of the runs what the store
\* offers: a step creates one file that was not there, or leaves all as they are.
FilesAreCreated ==
  [][\E f \in RunFile, c \in RunContent : Store!Create(f, c)]_[f \in RunFile |-> ContentOf(f)]

\* Every accepted run ends, or its worker's failure is on record, provided
\* processes come back and no directory of an unfinished submission makes their
\* startup fail.
Stranded == \E r \in dirs \ requests : hpc[r] \in {"gone", "error"}
AcceptedRunSettles ==
  \A r \in Runs : hpc[r] = "accepted" ~> Terminal(r) \/ r \in failures \/ Stranded

\* docs/superpowers/plans/2026-08-21-hy3-algotrace-lab.md:65: "restart
\* reconciliation marks abandoned active runs failed".
RestartFailsAbandonedRuns ==
  \A r \in Runs : hpc[r] = "accepted" ~> Terminal(r)

\* tests/test_run_service.py:818: the failure of a background worker to persist
\* a terminal state "is observable".
WorkerFailureIsObservable ==
  \A r \in Runs : r \in failures =>
    View(owner[r], r) \in {"degraded", "completed", "failed"}

===============================================================================
