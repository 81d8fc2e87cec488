--------------------------- MODULE RunServiceProofs ---------------------------
(***************************************************************************)
(* Proofs about RunService, for any sets of runs, processes and deliveries *)
(* and any number of errors and crashes.                                   *)
(***************************************************************************)
EXTENDS RunService, TLAPS

-------------------------------------------------------------------------------
(* Facts about workers, entries and chains                                 *)

LEMMA WorkerTypes ==
  ASSUME NEW w \in Workers
  PROVE  RunOf(w) \in Runs /\ w[2] \in Deliveries /\ w[2] # None /\ w[2] \in Writer
BY RunServiceAssumption DEF Workers, RunOf, Writer

LEMMA SameWorker ==
  ASSUME NEW v \in Workers, NEW w \in Workers, RunOf(v) = RunOf(w), v[2] = w[2]
  PROVE  v = w
BY DEF Workers, RunOf

LEMMA PrefixReflexive ==
  ASSUME NEW s \in Seq(Entry)
  PROVE  PrefixOf(s, s)
BY DEF PrefixOf

LEMMA PrefixTransitive ==
  ASSUME NEW s \in Seq(Entry), NEW t \in Seq(Entry), NEW u \in Seq(Entry),
         PrefixOf(s, t), PrefixOf(t, u)
  PROVE  PrefixOf(s, u)
BY DEF PrefixOf

LEMMA PrefixEqual ==
  ASSUME NEW s \in Seq(Entry), NEW t \in Seq(Entry), PrefixOf(s, t), Len(s) = Len(t)
  PROVE  s = t
BY DEF PrefixOf

LEMMA NewEntryType ==
  ASSUME NEW s \in Seq(Entry), NEW event \in Event, NEW by \in Writer,
         NEW report \in Deliveries \cup {None}
  PROVE  /\ NewEntry(event, by, s, report) \in Entry
         /\ NewEntry(event, by, s, report).event = event
         /\ NewEntry(event, by, s, report).by = by
         /\ NewEntry(event, by, s, report).report = report
<1>1. CASE s = <<>>
  BY <1>1 DEF NewEntry, Entry
<1>2. CASE s # <<>>
  <2>1. s[Len(s)] \in Entry
    BY <1>2
  <2> QED
    BY <1>2, <2>1 DEF NewEntry, Entry, Hash
<1> QED
  BY <1>1, <1>2

\* An entry that may follow the last one of a legal chain extends it legally.
LEMMA AppendLegal ==
  ASSUME NEW s \in Seq(Entry), NEW event \in Event, NEW by \in Writer,
         NEW report \in Deliveries \cup {None}, LegalChain(s),
         s = <<>> => event = "request",
         s # <<>> => event \in AllowedNext(LastOf(s).event)
  PROVE  LegalChain(Append(s, NewEntry(event, by, s, report)))
<1> DEFINE e == NewEntry(event, by, s, report)
           t == Append(s, e)
<1> SUFFICES LegalChain(t)
  OBVIOUS
<1>1. e \in Entry /\ e.event = event /\ t \in Seq(Entry) /\ Len(t) = Len(s) + 1
  BY NewEntryType
<1>2. e.prev = IF s = <<>> THEN None ELSE Hash(s[Len(s)])
  BY DEF NewEntry
<1>3. \A i \in 1..Len(s) : t[i] = s[i]
  BY <1>1
<1>4. t[Len(s) + 1] = e
  BY <1>1
<1> HIDE DEF e, t
<1>5. CASE s = <<>>
  <2>1. Len(t) = 1 /\ t[1] = e /\ e.event = "request" /\ e.prev = None
    BY <1>1, <1>2, <1>4, <1>5
  <2> QED
    BY <2>1 DEF LegalChain
<1>6. CASE s # <<>>
  <2>1. t[1] = s[1] /\ Len(s) >= 1
    BY <1>3, <1>6
  <2>2. ASSUME NEW i \in 2..Len(t)
        PROVE  t[i].event \in AllowedNext(t[i-1].event) /\ t[i].prev = Hash(t[i-1])
    <3>1. CASE i = Len(s) + 1
      BY <1>1, <1>2, <1>3, <1>4, <1>6, <2>1, <3>1 DEF LastOf
    <3>2. CASE i # Len(s) + 1
      <4>1. i \in 2..Len(s) /\ t[i] = s[i] /\ t[i-1] = s[i-1]
        BY <1>1, <1>3, <3>2
      <4> QED
        BY <4>1 DEF LegalChain
    <3> QED
      BY <3>1, <3>2
  <2> QED
    BY <2>1, <2>2 DEF LegalChain
<1> QED
  BY <1>5, <1>6

\* A legal chain is a prefix of request, queued, running, completed or failed,
\* or fails before it runs.
LEMMA ChainShape ==
  ASSUME NEW s \in Seq(Entry), LegalChain(s)
  PROVE  /\ Len(s) <= 4
         /\ Len(s) >= 1 => s[1].event = "request"
         /\ Len(s) >= 2 => s[2].event = "queued"
         /\ Len(s) >= 3 => s[3].event \in {"running", "failed"}
         /\ Len(s) >= 4 => s[3].event = "running" /\ s[4].event \in {"completed", "failed"}
<1>1. Len(s) >= 1 => s[1].event = "request"
  BY DEF LegalChain
<1>2. Len(s) >= 2 => s[2].event = "queued"
  BY <1>1 DEF LegalChain, AllowedNext
<1>3. Len(s) >= 3 => s[3].event \in {"running", "failed"}
  BY <1>2 DEF LegalChain, AllowedNext
<1>4. Len(s) >= 4 => s[3].event = "running" /\ s[4].event \in {"completed", "failed"}
  <2>1. Len(s) >= 4 => s[4].event \in AllowedNext(s[3].event)
    BY DEF LegalChain
  <2> QED
    BY <1>3, <2>1 DEF AllowedNext
<1>5. Len(s) <= 4
  <2>1. Len(s) >= 5 => s[5].event \in AllowedNext(s[4].event)
    BY DEF LegalChain
  <2> QED
    BY <1>4, <2>1 DEF AllowedNext
<1> QED
  BY <1>1, <1>2, <1>3, <1>4, <1>5

LEMMA QueuedLast ==
  ASSUME NEW s \in Seq(Entry), LegalChain(s), s # <<>>, LastOf(s).event = "queued"
  PROVE  Len(s) = 2
<1> DEFINE n == Len(s)
<1>1. n \in Nat /\ n # 0 /\ n <= 4
  BY ChainShape
<1>2. n # 1 /\ n # 3 /\ n # 4
  BY <1>1, ChainShape DEF LastOf
<1> HIDE DEF n
<1>3. n = 2
  BY <1>1, <1>2
<1> QED
  BY <1>3 DEF n

-------------------------------------------------------------------------------
(* The initial state                                                       *)

LEMMA InitInvariant == Init => Invariant
BY RunServiceAssumption
DEF Init, Invariant, TypeOK, StoreType, HandlerType, WorkerType, ProcessType,
    HandlerPoint, WorkerPoint, FilesInvariant, FilesSound, HandlerInvariant, HandlerSound, WorkerInvariant, WorkerSound,
    StartupInvariant, StartupSound, SweptIsSettled, LegalChain, PrefixOf, BeforeDispatch, Claimed,
    HasEvent, Workers, RunOf, Answered, TerminalEvent

-------------------------------------------------------------------------------
(* What any step may do to the files                                       *)

Settled(p, r) == Terminal(r) \/ (HasEvent(log[r], {"running"}) /\ owner[r] # p)

\* Histories grow, reports and requests stay, a run that is settled for a startup
\* stays settled, and a startup that read a queued run is overtaken by another
\* process only.
Grows ==
  /\ UNCHANGED owner
  /\ StoreType' /\ FilesInvariant'
  /\ \A r \in Runs :
       /\ PrefixOf(log[r], log'[r])
       /\ internal[r] # None => internal'[r] = internal[r]
       /\ public[r] # None => public'[r] = public[r]
       /\ r \in requests => r \in requests'
       /\ hpc[r] = "idle" => log'[r] = log[r] /\ r \notin requests'
  /\ \A p \in Procs, r \in Runs : Settled(p, r) => Settled(p, r)'
  /\ \A p \in Procs : rpc[p] = "write" =>
       LET l == log[rrun[p]] IN
       Len(l) = 2 /\ Len(log'[rrun[p]]) >= 3 /\ log'[rrun[p]][3].event = "running"
         => owner[rrun[p]] # p

\* A step that publishes no transition and no report.
LEMMA QuietGrows ==
  ASSUME Invariant, UNCHANGED <<log, internal, public, owner>>,
         dirs' \subseteq Runs, indexed' \subseteq Runs, requests' \subseteq Runs,
         requests \subseteq requests',
         \A r \in requests' \ requests : hpc[r] # "idle"
  PROVE  Grows
<1>1. StoreType /\ HandlerInvariant /\ FilesInvariant
  BY DEF Invariant, TypeOK
<1>2. StoreType'
  BY <1>1 DEF StoreType
<1>3. FilesInvariant'
  BY <1>1 DEF FilesInvariant, FilesSound
<1>4. \A r \in Runs : PrefixOf(log[r], log'[r])
  BY <1>1, PrefixReflexive DEF StoreType
<1>5. \A r \in Runs : hpc[r] = "idle" => r \notin requests'
  BY <1>1 DEF HandlerInvariant, HandlerSound
<1>6. \A p \in Procs, r \in Runs : Settled(p, r) => Settled(p, r)'
  BY DEF Settled, Terminal
<1> QED
  BY <1>1, <1>2, <1>3, <1>4, <1>5, <1>6 DEF Grows

\* A step that publishes a transition computed from a prefix of the history.
LEMMA PublishGrows ==
  ASSUME Invariant, NEW r \in Runs, NEW seen \in Seq(Entry), PrefixOf(seen, log[r]),
         NEW event \in Event, NEW by \in Writer, NEW report \in Deliveries \cup {None},
         Publish(r, seen, NewEntry(event, by, seen, report)),
         hpc[r] # "idle",
         seen = <<>> => event = "request",
         seen # <<>> => event \in AllowedNext(LastOf(seen).event),
         event = "running" => by \in Deliveries,
         event = "running" => \A p \in Procs : rpc[p] = "write" => owner[r] # p,
         event = "completed" => /\ report = log[r][3].by
                                /\ internal[r] = log[r][3].by
                                /\ public[r] = log[r][3].by,
         UNCHANGED <<dirs, requests, indexed, internal, public, owner>>
  PROVE  /\ Grows /\ seen = log[r]
         /\ log' = [log EXCEPT ![r] = Append(@, NewEntry(event, by, seen, report))]
         /\ Len(log'[r]) = Len(seen) + 1
         /\ LastOf(log'[r]) = NewEntry(event, by, seen, report)
<1> DEFINE e == NewEntry(event, by, seen, report)
<1>1. StoreType /\ HandlerInvariant /\ FilesInvariant
  BY DEF Invariant, TypeOK
<1>2. log[r] \in Seq(Entry) /\ LegalChain(log[r])
  BY <1>1 DEF StoreType, FilesInvariant, FilesSound
<1>3. seen = log[r] /\ log' = [log EXCEPT ![r] = Append(@, e)]
  BY <1>2, PrefixEqual DEF Publish
<1>4. e \in Entry /\ e.event = event /\ e.by = by /\ e.report = report
  BY NewEntryType
<1> HIDE DEF e
<1>5. /\ log'[r] = Append(log[r], e) /\ log'[r] \in Seq(Entry)
      /\ Len(log'[r]) = Len(log[r]) + 1
      /\ \A i \in 1..Len(log[r]) : log'[r][i] = log[r][i]
      /\ log'[r][Len(log[r]) + 1] = e
      /\ \A q \in Runs : q # r => log'[q] = log[q]
  BY <1>1, <1>2, <1>3, <1>4 DEF StoreType
<1>6. LegalChain(log'[r])
  BY <1>2, <1>3, <1>5, AppendLegal DEF e
<1>7. StoreType'
  BY <1>1, <1>3, <1>4 DEF StoreType
<1>8. ASSUME NEW q \in Runs
      PROVE  PrefixOf(log[q], log'[q])
  <2>1. CASE q = r
    BY <1>2, <1>5, <2>1 DEF PrefixOf
  <2>2. CASE q # r
    <3>1. log'[q] = log[q] /\ log[q] \in Seq(Entry)
      BY <1>1, <1>5, <2>2 DEF StoreType
    <3> QED
      BY <3>1, PrefixReflexive
  <2> QED
    BY <2>1, <2>2
<1>9. FilesInvariant'
  <2>1. ASSUME NEW i \in 1..Len(log'[r])
        PROVE  /\ log'[r][i].event = "running" => log'[r][i].by \in Deliveries
               /\ log'[r][i].event = "completed" =>
                    /\ log'[r][i].report = log'[r][3].by
                    /\ internal'[r] = log'[r][3].by /\ public'[r] = log'[r][3].by
    <3>1. CASE i \in 1..Len(log[r])
      <4>1. log'[r][i] = log[r][i]
        BY <1>5, <3>1
      <4>2. log[r][i].event = "completed" => Len(log[r]) >= 3
        BY <1>2, <3>1, ChainShape
      <4>3. log[r][i].event = "completed" => log'[r][3] = log[r][3]
        BY <1>2, <1>5, <4>2
      <4> QED
        BY <1>1, <3>1, <4>1, <4>3 DEF FilesInvariant, FilesSound
    <3>2. CASE i = Len(log[r]) + 1
      <4>1. log'[r][i] = e
        BY <1>5, <3>2
      <4>2. event = "completed" => Len(log[r]) >= 3
        <5>1. Len(log[r]) = 0 => event = "request"
          BY <1>2, <1>3
        <5>2. Len(log[r]) >= 1 => event \in AllowedNext(log[r][Len(log[r])].event)
          BY <1>2, <1>3 DEF LastOf
        <5> QED
          BY <1>2, <5>1, <5>2, ChainShape DEF AllowedNext
      <4>3. event = "completed" => log'[r][3] = log[r][3]
        BY <1>2, <1>5, <4>2
      <4> QED
        BY <1>4, <4>1, <4>3
    <3>3. i \in 1..Len(log[r]) \/ i = Len(log[r]) + 1
      BY <1>2, <1>5
    <3> QED
      BY <3>1, <3>2, <3>3
  <2>2. ASSUME NEW q \in Runs, q # r
        PROVE  log'[q] = log[q] /\ internal'[q] = internal[q] /\ public'[q] = public[q]
    BY <1>5, <2>2
  <2> QED
    BY <1>1, <1>6, <2>1, <2>2 DEF FilesInvariant, FilesSound
<1>10. Terminal(r) => FALSE
  BY <1>3, <1>2 DEF Terminal, HasEvent, TerminalEvent, AllowedNext
<1>11. HasEvent(log[r], {"running"}) => e.event \in {"completed", "failed"}
  BY <1>3, <1>4 DEF HasEvent, AllowedNext
<1>12. LastOf(log'[r]) = e /\ log'[r] # <<>>
  BY <1>2, <1>5 DEF LastOf
<1>13. \A p \in Procs, q \in Runs : Settled(p, q) => Settled(p, q)'
  <2> SUFFICES ASSUME NEW p \in Procs, NEW q \in Runs, Settled(p, q) PROVE Settled(p, q)'
    OBVIOUS
  <2>1. CASE q = r
    BY <1>10, <1>11, <1>12, <2>1 DEF Settled, Terminal, HasEvent, TerminalEvent
  <2>2. CASE q # r
    BY <1>5, <2>2 DEF Settled, Terminal
  <2> QED
    BY <2>1, <2>2
<1>14. ASSUME NEW p \in Procs, rpc[p] = "write",
              Len(log[rrun[p]]) = 2, Len(log'[rrun[p]]) >= 3,
              log'[rrun[p]][3].event = "running"
       PROVE  owner[rrun[p]] # p
  <2>1. StartupInvariant
    BY DEF Invariant
  <2>2. rrun[p] \in Runs
    BY <1>14, <2>1 DEF StartupInvariant, StartupSound
  <2>3. rrun[p] = r
    <3>1. rrun[p] # r => log'[rrun[p]] = log[rrun[p]]
      BY <1>5, <2>2
    <3>2. Len(log'[rrun[p]]) # Len(log[rrun[p]])
      BY <1>14
    <3> QED
      BY <3>1, <3>2
  <2>4. log'[r][3] = e
    BY <1>5, <1>14, <2>3
  <2> QED
    BY <1>4, <1>14, <2>3, <2>4
<1> QED
  BY <1>1, <1>3, <1>5, <1>7, <1>8, <1>9, <1>12, <1>13, <1>14 DEF Grows, HandlerInvariant, HandlerSound, e

-------------------------------------------------------------------------------
(* What any step may do to the threads                                     *)

LEMMA Parts ==
  ASSUME Invariant
  PROVE  /\ StoreType /\ HandlerType /\ WorkerType /\ ProcessType
         /\ FilesInvariant /\ HandlerInvariant /\ WorkerInvariant /\ StartupInvariant
         /\ SweptIsSettled
         /\ \A r \in Runs : log[r] \in Seq(Entry) /\ LegalChain(log[r])
BY DEF Invariant, TypeOK, StoreType, FilesInvariant, FilesSound

\* Histories before and after a step.
LEMMA Histories ==
  ASSUME Invariant, Grows, NEW r \in Runs
  PROVE  /\ log[r] \in Seq(Entry) /\ log'[r] \in Seq(Entry)
         /\ Len(log[r]) <= Len(log'[r])
         /\ PrefixOf(log[r], log'[r])
         /\ Len(log[r]) >= 3 => log'[r][3] = log[r][3]
<1>1. log[r] \in Seq(Entry) /\ log'[r] \in Seq(Entry) /\ PrefixOf(log[r], log'[r])
  BY Parts DEF Grows, StoreType
<1> QED
  BY <1>1 DEF PrefixOf

\* A handler that does not move stays sound while histories grow.
LEMMA HandlerKept ==
  ASSUME Invariant, Grows, NEW r \in Runs, hpc'[r] = hpc[r], hseen'[r] = hseen[r],
         hpc[r] \in BeforeDispatch => \A w \in Workers : RunOf(w) = r => wpc'[w] = "none"
  PROVE  HandlerSound(r)'
<1>1. HandlerSound(r) /\ hseen[r] \in Seq(Entry)
  BY Parts DEF HandlerInvariant, HandlerType
<1>2. Len(log'[r]) >= Len(log[r]) /\ log[r] \in Seq(Entry) /\ log'[r] \in Seq(Entry)
  BY Histories
<1>3. PrefixOf(hseen[r], log'[r])
  BY <1>1, Histories, PrefixTransitive DEF HandlerSound
<1> QED
  BY <1>1, <1>2, <1>3 DEF HandlerSound, Grows

\* So does a worker.
LEMMA WorkerKept ==
  ASSUME Invariant, Grows, NEW v \in Workers,
         wpc'[v] = wpc[v], claim'[v] = claim[v], wseen'[v] = wseen[v]
  PROVE  WorkerSound(v)'
<1>1. WorkerSound(v) /\ wseen[v] \in Seq(Entry) /\ RunOf(v) \in Runs /\ v[2] # None
  BY Parts, WorkerTypes DEF WorkerInvariant, WorkerType
<1>2. /\ Len(log'[RunOf(v)]) >= Len(log[RunOf(v)])
      /\ log[RunOf(v)] \in Seq(Entry) /\ log'[RunOf(v)] \in Seq(Entry)
      /\ Len(log[RunOf(v)]) >= 3 => log'[RunOf(v)][3] = log[RunOf(v)][3]
  BY <1>1, Histories
<1>3. PrefixOf(wseen[v], log'[RunOf(v)])
  BY <1>1, Histories, PrefixTransitive DEF WorkerSound
<1>4. /\ internal[RunOf(v)] = v[2] => internal'[RunOf(v)] = v[2]
      /\ public[RunOf(v)] = v[2] => public'[RunOf(v)] = v[2]
  BY <1>1 DEF Grows
<1> QED
  BY <1>1, <1>2, <1>3, <1>4 DEF WorkerSound

\* So does a process.
LEMMA StartupKept ==
  ASSUME Invariant, Grows, NEW p \in Procs, status'[p] = status[p],
         rpc'[p] = rpc[p], rrun'[p] = rrun[p], rseen'[p] = rseen[p],
         status[p] # "up" =>
           /\ \A r \in Runs : owner[r] = p => hpc'[r] \in Answered \cup {"gone"}
           /\ \A w \in Workers : owner[RunOf(w)] = p => wpc'[w] \in {"none", "done", "gone"}
  PROVE  StartupSound(p)'
<1>1. StartupSound(p) /\ rseen[p] \in Seq(Entry)
  BY Parts DEF StartupInvariant, ProcessType
<1>2. ASSUME rpc[p] = "write"
      PROVE  /\ PrefixOf(rseen[p], log'[rrun[p]])
             /\ Len(rseen[p]) = 2 /\ Len(log'[rrun[p]]) >= 3 /\ log'[rrun[p]][3].event = "running"
                  => owner[rrun[p]] # p
  <2>1. rrun[p] \in Runs /\ PrefixOf(rseen[p], log[rrun[p]])
    BY <1>1, <1>2 DEF StartupSound
  <2>2. PrefixOf(rseen[p], log'[rrun[p]])
    BY <1>1, <2>1, Histories, PrefixTransitive
  <2>3. /\ Len(log[rrun[p]]) \in Nat /\ Len(rseen[p]) \in Nat
        /\ Len(log[rrun[p]]) >= 3 => log'[rrun[p]][3] = log[rrun[p]][3]
        /\ Len(rseen[p]) <= Len(log[rrun[p]])
    BY <1>1, <2>1, Histories DEF PrefixOf
  <2>4. ASSUME Len(rseen[p]) = 2, Len(log'[rrun[p]]) >= 3, log'[rrun[p]][3].event = "running"
        PROVE  owner[rrun[p]] # p
    <3>1. CASE Len(log[rrun[p]]) >= 3
      BY <1>1, <1>2, <2>3, <2>4, <3>1 DEF StartupSound
    <3>2. CASE Len(log[rrun[p]]) = 2
      BY <1>2, <2>4, <3>2 DEF Grows
    <3>3. Len(log[rrun[p]]) = 2 \/ Len(log[rrun[p]]) >= 3
      <4> DEFINE n == Len(log[rrun[p]])
      <4>1. n \in Nat /\ 2 <= n
        BY <2>3, <2>4
      <4> HIDE DEF n
      <4>2. n = 2 \/ n >= 3
        BY <4>1
      <4> QED
        BY <4>2 DEF n
    <3> QED
      BY <3>1, <3>2, <3>3
  <2> QED
    BY <2>2, <2>4
<1>3. rpc[p] \in {"read", "write"} => rrun[p] \in Runs /\ rrun[p] \in requests'
  BY <1>1 DEF StartupSound, Grows
<1> QED
  BY <1>1, <1>2, <1>3 DEF StartupSound, Grows

LEMMA SweptKept ==
  ASSUME Invariant, Grows, UNCHANGED swept
  PROVE  SweptIsSettled'
BY Parts DEF SweptIsSettled, Grows, Settled, ProcessType

-------------------------------------------------------------------------------
(* One thread moves                                                        *)

\* A worker goes to x, having read s and holding the claim c.
LEMMA WorkerMoves ==
  ASSUME Invariant, Grows, UNCHANGED <<hpc, hseen, startup, status, crashes>>,
         lock' \in [Procs -> BOOLEAN], faults' \in Nat,
         tracked' \subseteq Runs, failures' \subseteq Runs,
         NEW w \in Workers, wpc[w] \notin {"none", "done", "gone"},
         NEW x \in WorkerPoint \ {"none"}, wpc' = [wpc EXCEPT ![w] = x],
         NEW s \in Seq(Entry), wseen' = [wseen EXCEPT ![w] = s],
         PrefixOf(s, log'[RunOf(w)]),
         NEW c, claim' = [claim EXCEPT ![w] = c],
         c = claim[w] \/ (/\ Len(log'[RunOf(w)]) >= 3
                          /\ log'[RunOf(w)][3].event = "running"
                          /\ log'[RunOf(w)][3].by = w[2]
                          /\ c = Hash(log'[RunOf(w)][3]) /\ c # None
                          /\ c \in [event : Event, by : Writer]),
         x \in {"queued", "claim", "claiming"} => c = None,
         x \in Claimed => c # None,
         x = "claiming" => HasEvent(s, {"queued"}),
         x = "completing" => HasEvent(s, {"running"}),
         x = "failing" => HasEvent(s, {"queued", "running"}),
         x \in {"public", "complete", "completing"} => internal'[RunOf(w)] = w[2],
         x \in {"complete", "completing"} => public'[RunOf(w)] = w[2]
  PROVE  Invariant'
<1>1. /\ HandlerType /\ WorkerType /\ ProcessType
      /\ HandlerInvariant /\ WorkerInvariant /\ StartupInvariant
  BY Parts
<1>2. TypeOK'
  <2>1. WorkerType'
    BY <1>1 DEF WorkerType
  <2> QED
    BY <1>1, <2>1 DEF TypeOK, Grows, HandlerType, ProcessType, startup
<1>3. \A v \in Workers : v # w => wpc'[v] = wpc[v] /\ claim'[v] = claim[v] /\ wseen'[v] = wseen[v]
  BY <1>1 DEF WorkerType
<1>4. HandlerInvariant'
  <2> SUFFICES ASSUME NEW r \in Runs PROVE HandlerSound(r)'
    BY DEF HandlerInvariant
  <2>1. hpc[r] \in BeforeDispatch => \A v \in Workers : RunOf(v) = r => wpc'[v] = "none"
    BY <1>1, <1>3 DEF HandlerInvariant, HandlerSound
  <2> QED
    BY <2>1, HandlerKept
<1>5. WorkerInvariant'
  <2> SUFFICES ASSUME NEW v \in Workers PROVE WorkerSound(v)'
    BY DEF WorkerInvariant
  <2>1. CASE v = w
    <3>1. wpc'[v] = x /\ claim'[v] = c /\ wseen'[v] = s
      BY <1>1, <2>1 DEF WorkerType
    <3>2. WorkerSound(v) /\ RunOf(v) \in Runs
      BY <1>1, WorkerTypes DEF WorkerInvariant
    <3>3. /\ Len(log'[RunOf(v)]) >= Len(log[RunOf(v)])
          /\ log[RunOf(v)] \in Seq(Entry) /\ log'[RunOf(v)] \in Seq(Entry)
          /\ Len(log[RunOf(v)]) >= 3 => log'[RunOf(v)][3] = log[RunOf(v)][3]
      BY <3>2, Histories
    <3> QED
      BY <2>1, <3>1, <3>2, <3>3 DEF WorkerSound
  <2>2. CASE v # w
    BY <1>3, <2>2, WorkerKept
  <2> QED
    BY <2>1, <2>2
<1>6. StartupInvariant'
  <2> SUFFICES ASSUME NEW p \in Procs PROVE StartupSound(p)'
    BY DEF StartupInvariant
  <2>1. status[p] # "up" =>
          /\ \A r \in Runs : owner[r] = p => hpc'[r] \in Answered \cup {"gone"}
          /\ \A v \in Workers : owner[RunOf(v)] = p => wpc'[v] \in {"none", "done", "gone"}
    BY <1>1, <1>3 DEF StartupInvariant, StartupSound
  <2> QED
    BY <2>1, StartupKept DEF startup
<1>7. SweptIsSettled'
  BY SweptKept DEF startup
<1> QED
  BY <1>2, <1>4, <1>5, <1>6, <1>7 DEF Invariant, Grows

\* The handler of r goes to y, having read or written s.
LEMMA HandlerMoves ==
  ASSUME Invariant, Grows, UNCHANGED <<worker, pool, startup, status, crashes>>,
         lock' \in [Procs -> BOOLEAN], faults' \in Nat,
         NEW r \in Runs, hpc[r] \notin Answered \cup {"gone"},
         NEW y \in HandlerPoint \ {"idle", "mkdir", "gone"}, hpc' = [hpc EXCEPT ![r] = y],
         NEW s \in Seq(Entry), hseen' = [hseen EXCEPT ![r] = s],
         PrefixOf(s, log'[r]),
         y \in {"first", "second", "index", "dispatch", "rejected", "failing",
                "accepted"} => r \in requests',
         y \in {"index", "dispatch", "rejected", "failing", "accepted"} => Len(log'[r]) >= 2,
         y \in {"request", "first"} => s = <<>>,
         y = "second" => Len(s) = 1,
         y = "failing" => HasEvent(s, {"queued", "running"}),
         y \in BeforeDispatch => hpc[r] \in BeforeDispatch
  PROVE  Invariant'
<1>1. /\ HandlerType /\ WorkerType /\ ProcessType
      /\ HandlerInvariant /\ WorkerInvariant /\ StartupInvariant
  BY Parts
<1>2. TypeOK'
  <2>1. HandlerType'
    BY <1>1 DEF HandlerType, Grows
  <2> QED
    BY <1>1, <2>1 DEF TypeOK, Grows, WorkerType, ProcessType, startup, worker, pool
<1>3. \A q \in Runs : q # r => hpc'[q] = hpc[q] /\ hseen'[q] = hseen[q]
  BY <1>1 DEF HandlerType
<1>4. hpc'[r] = y /\ hseen'[r] = s
  BY <1>1 DEF HandlerType
<1>5. HandlerInvariant'
  <2> SUFFICES ASSUME NEW q \in Runs PROVE HandlerSound(q)'
    BY DEF HandlerInvariant
  <2>1. hpc[q] \in BeforeDispatch => \A v \in Workers : RunOf(v) = q => wpc'[v] = "none"
    BY <1>1 DEF HandlerInvariant, HandlerSound, worker
  <2>2. CASE q = r
    <3>1. owner'[r] \in Procs
      BY <1>1 DEF HandlerInvariant, HandlerSound, Grows, Answered
    <3> QED
      BY <1>4, <2>1, <2>2, <3>1 DEF HandlerSound
  <2>3. CASE q # r
    BY <1>3, <2>1, <2>3, HandlerKept
  <2> QED
    BY <2>2, <2>3
<1>6. WorkerInvariant'
  BY WorkerKept DEF WorkerInvariant, worker
<1>7. StartupInvariant'
  <2> SUFFICES ASSUME NEW p \in Procs PROVE StartupSound(p)'
    BY DEF StartupInvariant
  <2>1. status[p] # "up" =>
          /\ \A q \in Runs : owner[q] = p => hpc'[q] \in Answered \cup {"gone"}
          /\ \A v \in Workers : owner[RunOf(v)] = p => wpc'[v] \in {"none", "done", "gone"}
    BY <1>1, <1>3 DEF StartupInvariant, StartupSound, worker
  <2> QED
    BY <2>1, StartupKept DEF startup
<1>8. SweptIsSettled'
  BY SweptKept DEF startup
<1> QED
  BY <1>2, <1>5, <1>6, <1>7, <1>8 DEF Invariant, Grows

\* What a startup of p at x knows of the run q it is at and the history s it read.
Prepared(p, x, q, s) ==
  /\ x \in {"read", "write"} => q \in Runs /\ q \in requests'
  /\ x = "write" => /\ PrefixOf(s, log'[q]) /\ ~HasEvent(s, TerminalEvent)
                    /\ Len(s) = 2 /\ Len(log'[q]) >= 3 /\ log'[q][3].event = "running"
                         => owner[q] # p

\* The startup of p goes to x, at run q, having read s and visited sw; or p
\* stops or serves.
LEMMA StartupMoves ==
  ASSUME Invariant, Grows, UNCHANGED <<hpc, hseen, worker, pool, crashes>>,
         lock' \in [Procs -> BOOLEAN], faults' \in Nat, todo' \in [Procs -> SUBSET Runs],
         NEW p \in Procs, status[p] # "up",
         NEW st \in {"down", "starting", "up"}, status' = [status EXCEPT ![p] = st],
         NEW x \in {"none", "next", "read", "write"}, rpc' = [rpc EXCEPT ![p] = x],
         NEW q \in Runs \cup {None}, rrun' = [rrun EXCEPT ![p] = q],
         NEW s \in Seq(Entry), rseen' = [rseen EXCEPT ![p] = s],
         NEW sw \in SUBSET Runs, swept' = [swept EXCEPT ![p] = sw],
         x # "none" => st = "starting",
         Prepared(p, x, q, s),
         \A r \in sw : Settled(p, r)'
  PROVE  Invariant'
<1>1. /\ HandlerType /\ WorkerType /\ ProcessType
      /\ HandlerInvariant /\ WorkerInvariant /\ StartupInvariant /\ SweptIsSettled
  BY Parts
<1>2. TypeOK'
  <2>1. ProcessType'
    BY <1>1 DEF ProcessType
  <2> QED
    BY <1>1, <2>1 DEF TypeOK, Grows, WorkerType, HandlerType, worker, pool
<1>3. HandlerInvariant'
  <2> SUFFICES ASSUME NEW r \in Runs PROVE HandlerSound(r)'
    BY DEF HandlerInvariant
  <2>1. hpc[r] \in BeforeDispatch => \A v \in Workers : RunOf(v) = r => wpc'[v] = "none"
    BY <1>1 DEF HandlerInvariant, HandlerSound, worker
  <2> QED
    BY <2>1, HandlerKept
<1>4. WorkerInvariant'
  BY WorkerKept DEF WorkerInvariant, worker
<1>5. StartupInvariant'
  <2> SUFFICES ASSUME NEW o \in Procs PROVE StartupSound(o)'
    BY DEF StartupInvariant
  <2>1. status[o] # "up" =>
          /\ \A r \in Runs : owner[r] = o => hpc'[r] \in Answered \cup {"gone"}
          /\ \A v \in Workers : owner[RunOf(v)] = o => wpc'[v] \in {"none", "done", "gone"}
    BY <1>1 DEF StartupInvariant, StartupSound, worker
  <2>2. CASE o = p
    <3>1. status'[o] = st /\ rpc'[o] = x /\ rrun'[o] = q /\ rseen'[o] = s
      BY <1>1, <2>2 DEF ProcessType
    <3> QED
      BY <2>1, <2>2, <3>1 DEF StartupSound, Grows, worker, Prepared
  <2>3. CASE o # p
    <3>1. /\ status'[o] = status[o] /\ rpc'[o] = rpc[o] /\ rrun'[o] = rrun[o]
          /\ rseen'[o] = rseen[o]
      BY <1>1, <2>3 DEF ProcessType
    <3> QED
      BY <2>1, <3>1, StartupKept
  <2> QED
    BY <2>2, <2>3
<1>6. SweptIsSettled'
  <2> SUFFICES ASSUME NEW o \in Procs, NEW r \in swept'[o] PROVE Settled(o, r)'
    BY DEF SweptIsSettled, Settled
  <2>1. CASE o = p
    BY <1>1, <2>1 DEF ProcessType
  <2>2. CASE o # p
    BY <1>1, <2>2 DEF ProcessType, SweptIsSettled, Settled, Grows
  <2> QED
    BY <2>1, <2>2
<1> QED
  BY <1>2, <1>3, <1>4, <1>5, <1>6 DEF Invariant, Grows

-------------------------------------------------------------------------------
(* The steps of a worker                                                   *)

LEMMA SameStoreGrows ==
  ASSUME Invariant, UNCHANGED <<store, owner>>
  PROVE  Grows
<1>1. StoreType /\ UNCHANGED <<dirs, requests, log, indexed, internal, public, owner>>
  BY Parts DEF store
<1>2. dirs' \subseteq Runs /\ indexed' \subseteq Runs /\ requests' = requests /\ requests \subseteq Runs
  BY <1>1 DEF StoreType
<1> QED
  BY <1>1, <1>2, QuietGrows

\* A worker that reads and writes no file.
LEMMA WorkerGoesOn ==
  ASSUME Invariant, UNCHANGED <<store, handler, wseen, claim, startup, status, crashes>>,
         lock' \in [Procs -> BOOLEAN], faults' \in Nat,
         tracked' \subseteq Runs, failures' \subseteq Runs,
         NEW w \in Workers, wpc[w] \notin {"none", "done", "gone"},
         NEW x \in WorkerPoint \ {"none", "claiming", "public", "complete",
                                  "completing", "failing"},
         WorkerGoes(w, x),
         x \in {"queued", "claim"} => claim[w] = None,
         x \in Claimed => claim[w] # None
  PROVE  Invariant'
<1>1. Grows
  BY SameStoreGrows DEF handler
<1>2. WorkerSound(w) /\ wseen[w] \in Seq(Entry) /\ WorkerType /\ RunOf(w) \in Runs
  BY Parts, WorkerTypes DEF WorkerInvariant, WorkerType
<1>3. wseen' = [wseen EXCEPT ![w] = wseen[w]] /\ claim' = [claim EXCEPT ![w] = claim[w]]
  BY <1>2 DEF WorkerType
<1>4. PrefixOf(wseen[w], log'[RunOf(w)])
  BY <1>2 DEF WorkerSound, store
<1>5. UNCHANGED <<hpc, hseen, startup, status, crashes>>
  BY DEF handler
<1> QED
  BY <1>1, <1>2, <1>3, <1>4, <1>5, WorkerMoves DEF WorkerGoes

LEMMA FaultsCount ==
  ASSUME Invariant
  PROVE  /\ faults \in Nat /\ lock \in [Procs -> BOOLEAN]
         /\ tracked \subseteq Runs /\ failures \subseteq Runs
         /\ Fault => faults' \in Nat
         /\ \A p \in Procs : (Lock(p) \/ Unlock(p)) => lock' \in [Procs -> BOOLEAN]
<1>1. ProcessType /\ WorkerType
  BY Parts
<1>2. faults \in Nat /\ (Fault => faults' \in Nat)
  BY <1>1 DEF ProcessType, Fault
<1>3. ASSUME NEW p \in Procs, Lock(p) \/ Unlock(p)
      PROVE  lock' \in [Procs -> BOOLEAN]
  BY <1>1, <1>3 DEF ProcessType, Lock, Unlock
<1> QED
  BY <1>1, <1>2, <1>3 DEF ProcessType, WorkerType

LEMMA WorkerStartsInvariant ==
  ASSUME Invariant, NEW w \in Workers, WorkerStarts(w)
  PROVE  Invariant'
<1>1. WorkerSound(w)
  BY Parts DEF WorkerInvariant
<1> QED
  BY <1>1, FaultsCount, WorkerGoesOn
  DEF WorkerStarts, pool, WorkerPoint, Claimed, WorkerSound

LEMMA PhaseEndsInvariant ==
  ASSUME Invariant, NEW w \in Workers, PhaseEnds(w)
  PROVE  Invariant'
<1>1. WorkerSound(w)
  BY Parts DEF WorkerInvariant
<1>2. wpc[w] \in {"generate", "judge", "review"}
  BY DEF PhaseEnds, Phases, AfterPhase
<1>3. \E x \in {"generated", "judged", "reviewed", "fail"} : WorkerGoes(w, x)
  BY <1>2 DEF PhaseEnds, AfterPhase
<1>4. UNCHANGED <<store, handler, wseen, claim, pool, startup, status, lock, faults, crashes>>
  BY DEF PhaseEnds
<1> QED
  BY <1>1, <1>2, <1>3, <1>4, FaultsCount, WorkerGoesOn
  DEF pool, WorkerPoint, Claimed, WorkerSound

LEMMA CheckClaimInvariant ==
  ASSUME Invariant, NEW w \in Workers, CheckClaim(w)
  PROVE  Invariant'
<1>1. WorkerSound(w)
  BY Parts DEF WorkerInvariant
<1>2. wpc[w] \in {"generated", "judged", "reviewed"}
  BY DEF CheckClaim, NextPhase
<1>3. \E x \in {"judge", "review", "internal", "returned", "fail"} : WorkerGoes(w, x)
  BY <1>2 DEF CheckClaim, NextPhase
<1>4. UNCHANGED <<store, handler, wseen, claim, pool, startup, status, lock, crashes>>
  BY DEF CheckClaim
<1>5. faults' \in Nat
  BY FaultsCount DEF CheckClaim
<1> QED
  BY <1>1, <1>2, <1>3, <1>4, <1>5, FaultsCount, WorkerGoesOn
  DEF pool, WorkerPoint, Claimed, WorkerSound

LEMMA CheckOwnershipInvariant ==
  ASSUME Invariant, NEW w \in Workers, CheckOwnership(w)
  PROVE  Invariant'
<1>1. \E x \in {"owned", "returned", "raised"} : WorkerGoes(w, x)
  BY DEF CheckOwnership
<1>2. /\ wpc[w] = "fail"
      /\ UNCHANGED <<store, handler, wseen, claim, pool, startup, status, lock, crashes>>
  BY DEF CheckOwnership
<1>3. faults' \in Nat
  BY FaultsCount DEF CheckOwnership
<1> QED
  BY <1>1, <1>2, <1>3, FaultsCount, WorkerGoesOn DEF pool, WorkerPoint, Claimed

LEMMA TaskDoneInvariant ==
  ASSUME Invariant, NEW w \in Workers, TaskDone(w)
  PROVE  Invariant'
<1>1. failures' \subseteq Runs
  BY FaultsCount, WorkerTypes DEF TaskDone
<1> QED
  BY <1>1, FaultsCount, WorkerGoesOn DEF TaskDone, WorkerPoint, Claimed

\* The part of _append_event before the write.
LEMMA WorkerReadsInvariant ==
  ASSUME Invariant, NEW w \in Workers, NEW at, NEW event, NEW to, NEW onError,
         WorkerReads(w, at, event, to, onError),
         \/ at = "claim" /\ event = "running" /\ to = "claiming" /\ onError = "fail"
         \/ at = "complete" /\ event = "completed" /\ to = "completing" /\ onError = "fail"
         \/ at = "owned" /\ event = "failed" /\ to = "failing" /\ onError = "raised"
  PROVE  Invariant'
<1> DEFINE r == RunOf(w)
<1>1. WorkerSound(w) /\ WorkerType /\ r \in Runs /\ wpc[w] = at
  BY Parts, WorkerTypes DEF WorkerInvariant, WorkerReads
<1>2. UNCHANGED <<store, handler, claim, pool, startup, status, crashes>>
  BY DEF WorkerReads
<1>3. log[r] \in Seq(Entry) /\ Len(log[r]) >= 2
  BY <1>1, Parts DEF WorkerSound
<1>4. owner[r] \in Procs
  <2>1. hpc[r] # "idle"
    BY <1>1, Parts DEF HandlerInvariant, HandlerSound, BeforeDispatch
  <2> QED
    BY <1>1, <2>1, Parts DEF HandlerInvariant, HandlerSound
<1>5. CASE Appendable(w, event) /\ Lock(owner[r]) /\ wseen' = [wseen EXCEPT ![w] = log[r]]
           /\ WorkerGoes(w, to) /\ UNCHANGED faults
  <2>1. Grows
    BY <1>2, SameStoreGrows DEF handler
  <2>2. /\ to = "claiming" => HasEvent(log[r], {"queued"})
        /\ to = "completing" => HasEvent(log[r], {"running"})
        /\ to = "failing" => HasEvent(log[r], {"queued", "running"})
    BY <1>3, <1>5 DEF Appendable, AllowedNext, HasEvent
  <2>3. PrefixOf(log[r], log'[r])
    BY <1>2, <1>3, PrefixReflexive DEF store
  <2>4. claim' = [claim EXCEPT ![w] = claim[w]] /\ wpc' = [wpc EXCEPT ![w] = to]
    BY <1>1, <1>2, <1>5 DEF WorkerType, WorkerGoes
  <2>5. /\ to \in WorkerPoint \ {"none"} /\ wpc[w] \notin {"none", "done", "gone"}
        /\ to \in {"claiming", "completing", "failing"}
        /\ to = "claiming" => claim[w] = None
        /\ to = "completing" => claim[w] # None
        /\ to = "completing" => internal'[r] = w[2] /\ public'[r] = w[2]
    BY <1>1, <1>2 DEF WorkerPoint, WorkerSound, Claimed, store
  <2>6. lock' \in [Procs -> BOOLEAN] /\ faults' \in Nat
    BY <1>4, <1>5, FaultsCount
  <2> HIDE DEF r
  <2> QED
    BY <1>2, <1>3, <1>5, <2>1, <2>2, <2>3, <2>4, <2>5, <2>6, FaultsCount, WorkerMoves
    DEF r, handler, pool, Claimed
<1>6. CASE UNCHANGED <<wseen, lock>> /\ faults' \in Nat
           /\ \E x \in {"returned", "fail", "raised"} : WorkerGoes(w, x)
  BY <1>1, <1>2, <1>6, FaultsCount, WorkerGoesOn DEF pool, WorkerPoint, Claimed
<1> QED
  BY <1>5, <1>6, FaultsCount DEF WorkerReads

\* The write of a transition.
LEMMA WorkerWritesInvariant ==
  ASSUME Invariant, NEW w \in Workers, NEW at, NEW event, NEW report, NEW to, NEW onError,
         WorkerWrites(w, at, event, report, to, onError),
         \/ /\ at = "claiming" /\ event = "running" /\ report = None
            /\ to = "generate" /\ onError = "fail"
         \/ /\ at = "completing" /\ event = "completed" /\ report = w[2]
            /\ to = "returned" /\ onError = "fail"
         \/ /\ at = "failing" /\ event = "failed" /\ report = None
            /\ to = "returned" /\ onError = "raised"
  PROVE  Invariant'
<1> DEFINE r == RunOf(w)
           e == NewEntry(event, w[2], wseen[w], report)
<1>1. /\ WorkerSound(w) /\ WorkerType /\ r \in Runs /\ wpc[w] = at
      /\ wseen[w] \in Seq(Entry) /\ w[2] \in Writer /\ w[2] \in Deliveries
  BY Parts, WorkerTypes DEF WorkerInvariant, WorkerType, WorkerWrites
<1>2. UNCHANGED <<dirs, requests, indexed, internal, public, handler, wseen,
                  pool, startup, status, crashes>>
  BY DEF WorkerWrites
<1>3. event \in Event /\ report \in Deliveries \cup {None}
  BY <1>1 DEF Event
<1>4. hpc[r] # "idle" /\ owner[r] \in Procs
  <2>1. hpc[r] # "idle"
    BY <1>1, Parts DEF HandlerInvariant, HandlerSound, BeforeDispatch
  <2> QED
    BY <1>1, <2>1, Parts DEF HandlerInvariant, HandlerSound
<1>5. PrefixOf(wseen[w], log[r])
  BY <1>1 DEF WorkerSound
<1>6. /\ wseen[w] # <<>>
      /\ event \in AllowedNext(LastOf(wseen[w]).event)
      /\ event = "running" => LastOf(wseen[w]).event = "queued"
  BY <1>1 DEF WorkerSound, HasEvent, AllowedNext
<1>7. event = "running" => \A p \in Procs : rpc[p] = "write" => owner[r] # p
  BY <1>1, <1>4, Parts DEF StartupInvariant, StartupSound
<1>8. event = "completed" => report = log[r][3].by /\ internal[r] = log[r][3].by
                             /\ public[r] = log[r][3].by
  BY <1>1 DEF WorkerSound, Claimed
<1>9. lock' \in [Procs -> BOOLEAN] /\ (Fault => faults' \in Nat) /\ faults \in Nat
      /\ tracked' \subseteq Runs /\ failures' \subseteq Runs
  BY <1>2, <1>4, FaultsCount DEF WorkerWrites, pool
<1>10. Publish(r, wseen[w], e) =>
         /\ Grows /\ wseen[w] = log[r]
         /\ log' = [log EXCEPT ![r] = Append(@, e)]
         /\ Len(log'[r]) = Len(wseen[w]) + 1
         /\ LastOf(log'[r]) = e
  BY <1>1, <1>2, <1>3, <1>4, <1>5, <1>6, <1>7, <1>8, PublishGrows DEF handler
<1>11. UNCHANGED log => Grows
  BY <1>2, SameStoreGrows DEF handler, store
<1>12. ASSUME Grows PROVE PrefixOf(wseen[w], log'[r])
  BY <1>1, <1>5, <1>12, Histories, PrefixTransitive
<1>13. UNCHANGED <<hpc, hseen, startup, status, crashes>> /\ wseen' = [wseen EXCEPT ![w] = wseen[w]]
  BY <1>1, <1>2 DEF handler, WorkerType
<1>14. CASE /\ Publish(r, wseen[w], e) /\ WorkerGoes(w, to) /\ UNCHANGED faults
            /\ claim' = IF event = "running" THEN [claim EXCEPT ![w] = Hash(e)] ELSE claim
  <2>1. CASE event = "running"
    <3>1. LegalChain(wseen[w])
      BY <1>1, <1>10, <1>14, Parts
    <3>2. Len(wseen[w]) = 2
      BY <1>1, <1>6, <2>1, <3>1, QueuedLast
    <3>3. e \in Entry /\ e.event = "running" /\ e.by = w[2] /\ Hash(e) # None
          /\ Hash(e) \in [event : Event, by : Writer]
      <4>1. e \in Entry /\ e.event = "running" /\ e.by = w[2]
        BY <1>1, <1>3, <2>1, NewEntryType
      <4>2. Hash(e) \in [event : Event, by : Writer]
        BY <4>1, <1>1 DEF Hash, Event
      <4>3. Hash(e) # None
        BY <4>2, NoneIsNoHash
      <4> QED
        BY <4>1, <4>2, <4>3
    <3>4. Len(log'[r]) = 3 /\ log'[r][3] = e
      BY <1>10, <1>14, <3>2 DEF LastOf
    <3> HIDE DEF e, r
    <3>5. claim' = [claim EXCEPT ![w] = Hash(e)] /\ wpc' = [wpc EXCEPT ![w] = "generate"]
      BY <1>14, <2>1, <1>1 DEF WorkerGoes
    <3>6. Grows /\ PrefixOf(wseen[w], log'[r])
      BY <1>10, <1>12, <1>14
    <3>7. faults' \in Nat
      BY <1>9, <1>14
    <3>8. /\ Len(log'[r]) >= 3 /\ log'[r][3].event = "running" /\ log'[r][3].by = w[2]
          /\ Hash(e) = Hash(log'[r][3])
      BY <3>3, <3>4
    <3>9. "generate" \in WorkerPoint \ {"none"} /\ wpc[w] \notin {"none", "done", "gone"}
      BY <1>1, <2>1 DEF WorkerPoint
    <3> QED
      BY <1>1, <1>9, <1>13, <3>3, <3>5, <3>6, <3>7, <3>8, <3>9, WorkerMoves DEF r
  <2>2. CASE event # "running"
    <3>1. claim' = [claim EXCEPT ![w] = claim[w]] /\ wpc' = [wpc EXCEPT ![w] = "returned"]
      BY <1>1, <1>14, <2>2 DEF WorkerType, WorkerGoes
    <3>2. Grows /\ PrefixOf(wseen[w], log'[r])
      BY <1>10, <1>12, <1>14
    <3>3. faults' \in Nat
      BY <1>9, <1>14
    <3> HIDE DEF e, r
    <3> QED
      BY <1>1, <1>9, <1>13, <2>2, <3>1, <3>2, <3>3, WorkerMoves
      DEF r, WorkerPoint, Claimed
  <2> QED
    BY <2>1, <2>2
<1>15. CASE /\ Publish(r, wseen[w], e) \/ UNCHANGED log
            /\ faults' \in Nat /\ UNCHANGED claim
            /\ \E x \in {"returned", "fail", "raised"} : WorkerGoes(w, x)
  <2>1. Grows
    BY <1>10, <1>11, <1>15
  <2>2. claim' = [claim EXCEPT ![w] = claim[w]]
    BY <1>1, <1>15 DEF WorkerType
  <2>3. PICK x \in {"returned", "fail", "raised"} : wpc' = [wpc EXCEPT ![w] = x]
    BY <1>15 DEF WorkerGoes
  <2>4. x \in WorkerPoint \ {"none"} /\ x \notin Claimed
    BY DEF WorkerPoint, Claimed
  <2> HIDE DEF r, e
  <2> QED
    BY <1>1, <1>9, <1>12, <1>13, <1>15, <2>1, <2>2, <2>3, <2>4, WorkerMoves DEF r
<1> QED
  BY <1>9, <1>14, <1>15 DEF WorkerWrites, Taken, Broken

\* A report is created once; a completed run has both.
LEMMA ReportGrows ==
  ASSUME Invariant, UNCHANGED <<dirs, requests, log, indexed, owner>>,
         StoreType',
         NEW r \in Runs,
         \A q \in Runs : internal'[q] = internal[q] \/ internal[q] = None,
         \A q \in Runs : public'[q] = public[q] \/ public[q] = None
  PROVE  Grows
<1>1. FilesInvariant /\ HandlerInvariant
  BY Parts
<1>2. FilesInvariant'
  <2> SUFFICES ASSUME NEW q \in Runs PROVE FilesSound(q)'
    BY DEF FilesInvariant
  <2>1. FilesSound(q)
    BY <1>1 DEF FilesInvariant
  <2>2. ASSUME NEW i \in 1..Len(log[q]), log[q][i].event = "completed"
        PROVE  internal'[q] = log[q][3].by /\ public'[q] = log[q][3].by
    <3>1. /\ internal[q] = log[q][3].by /\ public[q] = log[q][3].by
          /\ log[q][3].by \in Deliveries
      <4>1. Len(log[q]) >= 4
        BY <2>2, Parts, ChainShape
      <4>2. log[q][3].event = "running" /\ 3 \in 1..Len(log[q])
        BY <4>1, Parts, ChainShape
      <4> QED
        BY <2>1, <2>2, <4>2 DEF FilesSound
    <3> QED
      BY <3>1, RunServiceAssumption
  <2> QED
    BY <2>1, <2>2 DEF FilesSound
<1>3. \A q \in Runs : PrefixOf(log[q], log'[q])
  BY Parts, PrefixReflexive
<1>4. \A p \in Procs, q \in Runs : Settled(p, q) => Settled(p, q)'
  BY DEF Settled, Terminal
<1> QED
  BY <1>1, <1>2, <1>3, <1>4 DEF Grows, HandlerInvariant, HandlerSound

LEMMA ReportInvariant ==
  ASSUME Invariant, NEW w \in Workers, WriteInternalReport(w) \/ WritePublicReport(w)
  PROVE  Invariant'
<1> DEFINE r == RunOf(w)
<1>1. /\ WorkerSound(w) /\ WorkerType /\ r \in Runs /\ StoreType
      /\ wseen[w] \in Seq(Entry) /\ w[2] \in Deliveries
  BY Parts, WorkerTypes DEF WorkerInvariant, WorkerType
<1>2. /\ wpc[w] \in {"internal", "public"}
      /\ UNCHANGED <<dirs, requests, log, indexed, handler, wseen, claim, pool,
                     startup, status, lock, crashes>>
  BY DEF WriteInternalReport, WritePublicReport
<1>3. /\ internal' = internal \/ (internal[r] = None /\ internal' = [internal EXCEPT ![r] = w[2]])
      /\ public' = public \/ (public[r] = None /\ public' = [public EXCEPT ![r] = w[2]])
      /\ faults' \in Nat
  BY FaultsCount DEF WriteInternalReport, WritePublicReport
<1>4. StoreType'
  BY <1>1, <1>2, <1>3 DEF StoreType
<1>5. Grows
  <2>1. /\ \A q \in Runs : internal'[q] = internal[q] \/ internal[q] = None
        /\ \A q \in Runs : public'[q] = public[q] \/ public[q] = None
    BY <1>1, <1>3 DEF StoreType
  <2> QED
    BY <1>1, <1>2, <1>4, <2>1, ReportGrows DEF handler
<1>6. PICK x \in {"public", "complete", "fail"} :
        /\ wpc' = [wpc EXCEPT ![w] = x]
        /\ x \in {"public", "complete"} => internal'[r] = w[2]
        /\ x = "complete" => public'[r] = w[2]
  BY <1>1 DEF WriteInternalReport, WritePublicReport, WorkerGoes, StoreType, WorkerSound
<1>7. wseen' = [wseen EXCEPT ![w] = wseen[w]] /\ claim' = [claim EXCEPT ![w] = claim[w]]
      /\ claim[w] # None /\ PrefixOf(wseen[w], log'[r])
  BY <1>1, <1>2 DEF WorkerType, WorkerSound, Claimed
<1>8. x \in WorkerPoint \ {"none"} /\ lock' \in [Procs -> BOOLEAN]
      /\ tracked' \subseteq Runs /\ failures' \subseteq Runs
      /\ UNCHANGED <<hpc, hseen, startup, status, crashes>>
  BY <1>2, FaultsCount DEF WorkerPoint, handler, pool
<1>9. /\ wpc[w] \notin {"none", "done", "gone"} /\ faults' \in Nat
      /\ x \notin {"queued", "claim", "claiming", "completing", "failing"}
  BY <1>2, <1>3
<1> HIDE DEF r
<1> QED
  BY <1>1, <1>5, <1>6, <1>7, <1>8, <1>9, WorkerMoves DEF r

LEMMA WorkerStepInvariant ==
  ASSUME Invariant, NEW w \in Workers, WorkerStep(w)
  PROVE  Invariant'
BY WorkerStartsInvariant, PhaseEndsInvariant, CheckClaimInvariant, CheckOwnershipInvariant,
   TaskDoneInvariant, WorkerReadsInvariant, WorkerWritesInvariant, ReportInvariant
DEF WorkerStep, ReadForClaim, WriteClaim, ReadForCompleted, WriteCompleted,
    ReadForFailed, WriteFailed

-------------------------------------------------------------------------------
(* The steps of a submission handler                                       *)

LEMMA SubmitInvariant ==
  ASSUME Invariant, NEW p \in Procs, NEW r \in Runs, Submit(p, r)
  PROVE  Invariant'
<1> USE RunServiceAssumption, Parts
    DEF Submit, store, worker, startup, pool, HandlerGoes, Lock
<1>1. TypeOK'
  <2>1. StoreType' /\ WorkerType'
    BY DEF StoreType, WorkerType
  <2>2. HandlerType'
    BY DEF HandlerType, HandlerPoint
  <2>3. ProcessType'
    BY DEF ProcessType
  <2> QED
    BY <2>1, <2>2, <2>3 DEF TypeOK
<1>2. FilesInvariant'
  BY DEF FilesInvariant, FilesSound
<1>3. HandlerInvariant'
  BY DEF HandlerType, HandlerInvariant, HandlerSound, BeforeDispatch
<1>4. WorkerInvariant'
  BY DEF WorkerInvariant, WorkerSound
<1>5. StartupInvariant'
  BY DEF HandlerType, StartupInvariant, StartupSound, Answered, HandlerInvariant,
         HandlerSound, BeforeDispatch
<1>6. SweptIsSettled'
  BY DEF HandlerType, ProcessType, SweptIsSettled, HandlerInvariant, HandlerSound,
         Terminal, HasEvent
<1> QED
  BY <1>1, <1>2, <1>3, <1>4, <1>5, <1>6 DEF Invariant

\* The facts every step of a handler at work starts from.
LEMMA HandlerAtWork ==
  ASSUME Invariant, NEW r \in Runs, hpc[r] \notin Answered \cup {"gone"}
  PROVE  /\ owner[r] \in Procs /\ HandlerSound(r) /\ hseen[r] \in Seq(Entry)
         /\ hpc[r] # "idle" /\ log[r] \in Seq(Entry) /\ LegalChain(log[r])
         /\ hpc \in [Runs -> HandlerPoint] /\ hseen \in [Runs -> Seq(Entry)]
         /\ hseen = [hseen EXCEPT ![r] = hseen[r]]
BY Parts DEF HandlerInvariant, HandlerSound, HandlerType, Answered

\* Steps that create the directory, the request or the index entry.
LEMMA CreateInvariant ==
  ASSUME Invariant, NEW r \in Runs,
         MakeRunDirectory(r) \/ WriteRequest(r) \/ WriteIndex(r)
  PROVE  Invariant'
<1> USE DEF MakeRunDirectory, WriteRequest, WriteIndex
<1>1. hpc[r] \in {"mkdir", "request", "index"}
  OBVIOUS
<1>2. hpc[r] \notin Answered \cup {"gone"} /\ hpc[r] \in BeforeDispatch
  BY <1>1 DEF Answered, BeforeDispatch
<1>3. UNCHANGED <<log, internal, public, owner, hseen, worker, pool, startup, status, crashes>>
  OBVIOUS
<1>4. PICK y \in {"request", "first", "dispatch", "error"} :
        /\ hpc' = [hpc EXCEPT ![r] = y]
        /\ y = "request" => hpc[r] = "mkdir"
        /\ y = "first" => hpc[r] = "request" /\ r \in requests'
        /\ y = "dispatch" => hpc[r] = "index"
  BY DEF HandlerGoes, HandlerRaises, Create
<1>5. /\ dirs' \subseteq Runs /\ indexed' \subseteq Runs /\ requests' \subseteq Runs
      /\ requests \subseteq requests' /\ requests' \subseteq requests \cup {r}
  BY Parts DEF StoreType, Create, CreateBroken
<1>6. Grows
  BY <1>2, <1>3, <1>5, HandlerAtWork, QuietGrows
<1>7. lock' \in [Procs -> BOOLEAN] /\ faults' \in Nat
  BY <1>2, HandlerAtWork, FaultsCount DEF HandlerRaises
<1>8. /\ hseen[r] \in Seq(Entry) /\ PrefixOf(hseen[r], log'[r])
      /\ y \in {"request", "first"} => hseen[r] = <<>>
      /\ y = "dispatch" => Len(log'[r]) >= 2 /\ r \in requests'
  BY <1>2, <1>3, <1>4, <1>5, HandlerAtWork DEF HandlerSound
<1>9. y \in HandlerPoint \ {"idle", "mkdir", "gone"}
  BY DEF HandlerPoint
<1>10. hseen' = [hseen EXCEPT ![r] = hseen[r]]
  BY <1>2, <1>3, HandlerAtWork
<1> HIDE DEF MakeRunDirectory, WriteRequest, WriteIndex
<1> QED
  BY <1>2, <1>3, <1>4, <1>6, <1>7, <1>8, <1>9, <1>10, HandlerMoves

\* The first two transitions: the handler extends what it wrote itself.
LEMMA HandlerWritesInvariant ==
  ASSUME Invariant, NEW r \in Runs, NEW at, NEW event, NEW to,
         HandlerWrites(r, at, event, to),
         \/ at = "first" /\ event = "request" /\ to = "second"
         \/ at = "second" /\ event = "queued" /\ to = "index"
  PROVE  Invariant'
<1> DEFINE e == NewEntry(event, "handler", hseen[r], None)
<1>1. /\ hpc[r] = at /\ hpc[r] # "idle" /\ event \notin {"running", "completed"}
      /\ hpc[r] \notin Answered \cup {"gone"} /\ hpc[r] \in BeforeDispatch
  BY DEF HandlerWrites, Answered, BeforeDispatch
<1>2. /\ owner[r] \in Procs /\ HandlerSound(r) /\ hseen[r] \in Seq(Entry)
      /\ log[r] \in Seq(Entry) /\ LegalChain(log[r]) /\ PrefixOf(hseen[r], log[r])
      /\ hseen = [hseen EXCEPT ![r] = hseen[r]] /\ r \in requests
      /\ hseen \in [Runs -> Seq(Entry)]
  BY <1>1, HandlerAtWork DEF HandlerSound
<1>3. UNCHANGED <<dirs, requests, indexed, internal, public, owner, worker, pool,
                  startup, status, crashes>>
  BY DEF HandlerWrites
<1>4. "handler" \in Writer /\ event \in Event
  BY DEF Writer, Event
<1>5. /\ hseen[r] = <<>> => event = "request"
      /\ hseen[r] # <<>> => event \in AllowedNext(LastOf(hseen[r]).event)
      /\ Len(hseen[r]) = IF event = "request" THEN 0 ELSE 1
  <2>1. CASE at = "first"
    BY <1>1, <1>2, <2>1 DEF HandlerSound
  <2>2. CASE at = "second"
    <3>1. Len(hseen[r]) = 1
      BY <1>1, <1>2, <2>2 DEF HandlerSound
    <3>2. hseen[r][1] = log[r][1] /\ log[r][1].event = "request"
      <4>1. hseen[r][1] = log[r][1] /\ Len(log[r]) >= 1
        BY <1>2, <3>1 DEF PrefixOf
      <4> QED
        BY <1>2, <4>1, ChainShape
    <3> QED
      BY <2>2, <3>1, <3>2 DEF LastOf, AllowedNext
  <2> QED
    BY <2>1, <2>2
<1>6. Publish(r, hseen[r], e) =>
        /\ Grows /\ hseen[r] = log[r]
        /\ log' = [log EXCEPT ![r] = Append(@, e)]
        /\ Len(log'[r]) = Len(hseen[r]) + 1
  <2>1. /\ hseen[r] \in Seq(Entry) /\ PrefixOf(hseen[r], log[r])
        /\ hseen[r] = <<>> => event = "request"
        /\ hseen[r] # <<>> => event \in AllowedNext(LastOf(hseen[r]).event)
        /\ hpc[r] # "idle" /\ event # "running" /\ event # "completed"
        /\ None \in Deliveries \cup {None}
        /\ UNCHANGED <<dirs, requests, indexed, internal, public, owner>>
    BY <1>1, <1>2, <1>3, <1>5
  <2> QED
    BY <1>4, <2>1, PublishGrows
<1>7. UNCHANGED log => Grows
  BY <1>3, SameStoreGrows DEF store
<1>8. lock' \in [Procs -> BOOLEAN] /\ faults' \in Nat
  <2> HIDE DEF e
  <2>1. UNCHANGED lock \/ Unlock(owner[r])
    BY DEF HandlerWrites, HandlerRaises
  <2>2. UNCHANGED faults \/ Fault
    BY DEF HandlerWrites, Broken
  <2> QED
    BY <1>2, <2>1, <2>2, FaultsCount
<1>9. CASE /\ Publish(r, hseen[r], e) /\ HandlerGoes(r, to)
           /\ hseen' = [hseen EXCEPT ![r] = Append(@, e)]
  <2>1. e \in Entry
    BY <1>2, <1>4, NewEntryType
  <2> HIDE DEF e
  <2>2. log'[r] = Append(log[r], e) /\ log'[r] \in Seq(Entry)
    <3>1. log \in [Runs -> Seq(Entry)] /\ log' = [log EXCEPT ![r] = Append(@, e)]
      BY <1>6, <1>9, Parts DEF StoreType
    <3> QED
      BY <2>1, <3>1
  <2>3. /\ hseen' = [hseen EXCEPT ![r] = log'[r]]
        /\ PrefixOf(log'[r], log'[r]) /\ Len(log'[r]) = Len(hseen[r]) + 1
    BY <1>2, <1>6, <1>9, <2>2, PrefixReflexive
  <2>4. to \in HandlerPoint \ {"idle", "mkdir", "gone"} /\ r \in requests'
    BY <1>2, <1>3 DEF HandlerPoint
  <2>5. /\ to = "second" => Len(log'[r]) = 1
        /\ to = "index" => Len(log'[r]) >= 2
    BY <1>5, <2>3
  <2>6. to \in {"second", "index"} /\ hpc' = [hpc EXCEPT ![r] = to]
    BY <1>9 DEF HandlerGoes
  <2>7. Grows
    BY <1>6, <1>9
  <2>8. CASE to = "second"
    BY <1>1, <1>3, <1>8, <2>2, <2>3, <2>4, <2>5, <2>6, <2>7, <2>8, HandlerMoves
  <2>9. CASE to = "index"
    BY <1>1, <1>3, <1>8, <2>2, <2>3, <2>4, <2>5, <2>6, <2>7, <2>9, HandlerMoves
  <2> QED
    BY <2>6, <2>8, <2>9
<1>10. CASE (Publish(r, hseen[r], e) \/ UNCHANGED log) /\ HandlerRaises(r) /\ UNCHANGED hseen
  <2>1. Grows /\ PrefixOf(hseen[r], log'[r])
    BY <1>2, <1>6, <1>7, <1>10, Histories, PrefixTransitive
  <2>2. "error" \in HandlerPoint \ {"idle", "mkdir", "gone"} /\ "error" \notin BeforeDispatch
    BY DEF HandlerPoint, BeforeDispatch
  <2>3. hpc' = [hpc EXCEPT ![r] = "error"] /\ hseen' = [hseen EXCEPT ![r] = hseen[r]]
    BY <1>2, <1>10 DEF HandlerRaises, HandlerGoes
  <2> HIDE DEF e
  <2> QED
    BY <1>1, <1>2, <1>3, <1>8, <2>1, <2>2, <2>3, HandlerMoves
<1> QED
  BY <1>9, <1>10 DEF HandlerWrites, Taken, Broken

LEMMA HandlerReadsInvariant ==
  ASSUME Invariant, NEW r \in Runs, HandlerReadsHistory(r)
  PROVE  Invariant'
<1>1. hpc[r] = "rejected" /\ hpc[r] \notin Answered \cup {"gone"}
  BY DEF HandlerReadsHistory, Answered
<1>2. UNCHANGED <<store, owner, worker, pool, startup, status, crashes>>
  BY DEF HandlerReadsHistory
<1>3. Grows
  BY <1>2, SameStoreGrows
<1>4. /\ owner[r] \in Procs /\ HandlerSound(r) /\ hseen[r] \in Seq(Entry)
      /\ log[r] \in Seq(Entry) /\ LegalChain(log[r]) /\ PrefixOf(hseen[r], log'[r])
      /\ hseen = [hseen EXCEPT ![r] = hseen[r]] /\ r \in requests' /\ Len(log[r]) >= 2
      /\ PrefixOf(log[r], log'[r]) /\ log'[r] = log[r]
  BY <1>1, <1>2, HandlerAtWork, PrefixReflexive DEF HandlerSound, store
<1>5. lock' \in [Procs -> BOOLEAN] /\ faults' \in Nat
  BY <1>4, FaultsCount DEF HandlerReadsHistory
<1>6. ~Terminal(r) => HasEvent(log[r], {"queued", "running"})
  <2> DEFINE n == Len(log[r])
  <2>1. n \in Nat /\ n >= 2 /\ n <= 4
    BY <1>4, ChainShape
  <2> HIDE DEF n
  <2>2. n = 2 \/ n = 3 \/ n = 4
    BY <2>1
  <2>3. LastOf(log[r]).event \in {"queued", "running", "completed", "failed"} /\ log[r] # <<>>
    BY <1>4, <2>2, ChainShape DEF LastOf, n
  <2> QED
    BY <2>3 DEF Terminal, HasEvent, TerminalEvent
<1>7. PICK y \in {"failing", "error"} : hpc' = [hpc EXCEPT ![r] = y] /\
        \/ y = "failing" /\ ~Terminal(r) /\ hseen' = [hseen EXCEPT ![r] = log[r]]
        \/ y = "error" /\ hseen' = [hseen EXCEPT ![r] = hseen[r]]
  BY <1>4 DEF HandlerReadsHistory, HandlerGoes
<1>8. y \in HandlerPoint \ {"idle", "mkdir", "gone"} /\ y \notin BeforeDispatch
  BY DEF HandlerPoint, BeforeDispatch
<1>9. PICK s \in {log[r], hseen[r]} : /\ hseen' = [hseen EXCEPT ![r] = s]
                                      /\ y = "failing" => s = log[r]
  BY <1>7
<1>10. y = "failing" => HasEvent(s, {"queued", "running"})
  BY <1>6, <1>7, <1>9
<1> QED
  BY <1>1, <1>2, <1>3, <1>4, <1>5, <1>7, <1>8, <1>9, <1>10, HandlerMoves

LEMMA HandlerWritesFailureInvariant ==
  ASSUME Invariant, NEW r \in Runs, HandlerWritesFailure(r)
  PROVE  Invariant'
<1> DEFINE e == NewEntry("failed", "handler", hseen[r], None)
<1>1. hpc[r] = "failing" /\ hpc[r] \notin Answered \cup {"gone"}
  BY DEF HandlerWritesFailure, Answered
<1>2. /\ owner[r] \in Procs /\ HandlerSound(r) /\ hseen[r] \in Seq(Entry)
      /\ log[r] \in Seq(Entry) /\ PrefixOf(hseen[r], log[r])
      /\ hseen = [hseen EXCEPT ![r] = hseen[r]] /\ r \in requests /\ Len(log[r]) >= 2
      /\ HasEvent(hseen[r], {"queued", "running"})
  BY <1>1, HandlerAtWork DEF HandlerSound
<1>3. UNCHANGED <<dirs, requests, indexed, internal, public, owner, hseen, worker,
                  pool, startup, status, crashes>>
  BY DEF HandlerWritesFailure
<1>4. "handler" \in Writer /\ "failed" \in Event
  BY DEF Writer, Event
<1>5. hseen[r] # <<>> /\ "failed" \in AllowedNext(LastOf(hseen[r]).event)
  BY <1>2 DEF HasEvent, AllowedNext
<1>6. Publish(r, hseen[r], e) => Grows
  BY <1>1, <1>2, <1>3, <1>4, <1>5, PublishGrows
<1>7. Grows
  <2>1. UNCHANGED log => Grows
    BY <1>3, SameStoreGrows DEF store
  <2> QED
    BY <1>6, <2>1 DEF HandlerWritesFailure, Taken, Broken
<1>8. lock' \in [Procs -> BOOLEAN] /\ faults' \in Nat
  BY <1>2, FaultsCount DEF HandlerWritesFailure, Broken
<1>9. PICK y \in {"accepted", "error"} : hpc' = [hpc EXCEPT ![r] = y]
  BY DEF HandlerWritesFailure, HandlerGoes
<1>10. y \in HandlerPoint \ {"idle", "mkdir", "gone"} /\ y \notin BeforeDispatch
  BY DEF HandlerPoint, BeforeDispatch
<1>11. /\ PrefixOf(hseen[r], log'[r]) /\ r \in requests' /\ Len(log'[r]) >= 2
       /\ hseen' = [hseen EXCEPT ![r] = hseen[r]]
  <2> DEFINE m == Len(log[r])
             n == Len(log'[r])
  <2>1. m \in Nat /\ n \in Nat /\ m >= 2 /\ m <= n
    BY <1>2, <1>7, Histories
  <2> HIDE DEF m, n
  <2>2. n >= 2
    BY <2>1
  <2> QED
    BY <1>2, <1>3, <1>7, <2>2, Histories, PrefixTransitive DEF n
<1> HIDE DEF e
<1> QED
  BY <1>1, <1>2, <1>3, <1>7, <1>8, <1>9, <1>10, <1>11, HandlerMoves

\* Dispatch enqueues all deliveries of a run that has no worker yet.
LEMMA DispatchInvariant ==
  ASSUME Invariant, NEW r \in Runs, Dispatch(r)
  PROVE  Invariant'
<1>1. hpc[r] = "dispatch" /\ hpc[r] \notin Answered \cup {"gone"} /\ hpc[r] \in BeforeDispatch
  BY DEF Dispatch, Answered, BeforeDispatch
<1>2. /\ owner[r] \in Procs /\ HandlerSound(r) /\ r \in requests /\ Len(log[r]) >= 2
      /\ \A w \in Workers : RunOf(w) = r => wpc[w] = "none"
  BY <1>1, HandlerAtWork DEF HandlerSound
<1>3. UNCHANGED <<store, owner, hseen, wseen, claim, failures, startup, status, lock, crashes>>
  BY DEF Dispatch
<1>4. PICK y \in {"accepted", "rejected"} : hpc' = [hpc EXCEPT ![r] = y]
  BY DEF Dispatch, HandlerGoes
<1>5. \A w \in Workers : wpc'[w] = wpc[w] \/ (RunOf(w) = r /\ wpc'[w] = "queued")
  BY DEF Dispatch, Enqueued
<1>6. Grows
  BY <1>3, SameStoreGrows
<1>7. faults' \in Nat /\ tracked' \subseteq Runs
  BY FaultsCount DEF Dispatch
<1>8. /\ hpc \in [Runs -> HandlerPoint] /\ wpc \in [Workers -> WorkerPoint]
      /\ wpc' \in [Workers -> WorkerPoint]
  BY Parts DEF Dispatch, Enqueued, HandlerType, WorkerType, WorkerPoint
<1>9. TypeOK'
  <2>1. HandlerType'
    BY <1>3, <1>4, <1>8, Parts DEF HandlerType, HandlerPoint
  <2>2. WorkerType'
    BY <1>3, <1>7, <1>8, Parts DEF WorkerType
  <2>3. ProcessType'
    BY <1>3, <1>7, Parts DEF ProcessType, startup
  <2> QED
    BY <1>6, <2>1, <2>2, <2>3 DEF TypeOK, Grows
<1>10. HandlerInvariant'
  <2> SUFFICES ASSUME NEW q \in Runs PROVE HandlerSound(q)'
    BY DEF HandlerInvariant
  <2>1. CASE q = r
    <3>1. hpc'[r] = y /\ y \notin BeforeDispatch
      BY <1>4, <1>8 DEF BeforeDispatch
    <3>2. UNCHANGED <<log, requests, owner, hseen>>
      BY <1>3 DEF store
    <3> QED
      BY <1>2, <2>1, <3>1, <3>2 DEF HandlerSound
  <2>2. CASE q # r
    <3>1. hpc'[q] = hpc[q] /\ hseen'[q] = hseen[q]
      BY <1>3, <1>4, <1>8, <2>2
    <3>2. hpc[q] \in BeforeDispatch => \A w \in Workers : RunOf(w) = q => wpc'[w] = "none"
      BY <1>5, <2>2, Parts DEF HandlerInvariant, HandlerSound
    <3> QED
      BY <1>6, <3>1, <3>2, HandlerKept
  <2> QED
    BY <2>1, <2>2
<1>11. WorkerInvariant'
  <2> SUFFICES ASSUME NEW w \in Workers PROVE WorkerSound(w)'
    BY DEF WorkerInvariant
  <2>1. UNCHANGED <<log, internal, public, wseen, claim>>
    BY <1>3 DEF store
  <2>2. CASE wpc'[w] = wpc[w]
    BY <1>6, <2>1, <2>2, WorkerKept
  <2>3. CASE RunOf(w) = r /\ wpc'[w] = "queued"
    <3>1. WorkerSound(w) /\ wpc[w] = "none"
      BY <1>2, <2>3, Parts DEF WorkerInvariant
    <3> QED
      BY <1>2, <2>1, <2>3, <3>1 DEF WorkerSound, Claimed
  <2> QED
    BY <1>5, <2>2, <2>3
<1>12. StartupInvariant'
  <2> SUFFICES ASSUME NEW p \in Procs PROVE StartupSound(p)'
    BY DEF StartupInvariant
  <2>1. StartupSound(p)
    BY Parts DEF StartupInvariant
  <2>2. status[p] # "up" => owner[r] # p
    BY <1>1, <2>1 DEF StartupSound
  <2>3. status[p] # "up" =>
          /\ \A q \in Runs : owner[q] = p => hpc'[q] \in Answered \cup {"gone"}
          /\ \A w \in Workers : owner[RunOf(w)] = p => wpc'[w] \in {"none", "done", "gone"}
    BY <1>4, <1>5, <1>8, <2>1, <2>2 DEF StartupSound
  <2> QED
    BY <1>3, <1>6, <2>3, StartupKept DEF startup
<1> QED
  BY <1>3, <1>6, <1>9, <1>10, <1>11, <1>12, SweptKept DEF Invariant, Grows, startup

LEMMA HandlerStepInvariant ==
  ASSUME Invariant, NEW r \in Runs, HandlerStep(r)
  PROVE  Invariant'
BY CreateInvariant, HandlerWritesInvariant, DispatchInvariant, HandlerReadsInvariant,
   HandlerWritesFailureInvariant
DEF HandlerStep, WriteFirstTransition, WriteQueuedTransition

-------------------------------------------------------------------------------
(* The steps of a process                                                  *)

LEMMA ProcessFacts ==
  ASSUME Invariant, NEW p \in Procs
  PROVE  /\ StartupSound(p) /\ rseen[p] \in Seq(Entry)
         /\ rrun[p] \in Runs \cup {None} /\ swept[p] \in SUBSET Runs
         /\ todo \in [Procs -> SUBSET Runs]
         /\ rrun = [rrun EXCEPT ![p] = rrun[p]] /\ rseen = [rseen EXCEPT ![p] = rseen[p]]
         /\ swept = [swept EXCEPT ![p] = swept[p]] /\ rpc = [rpc EXCEPT ![p] = rpc[p]]
         /\ status = [status EXCEPT ![p] = status[p]]
         /\ \A r \in swept[p] : Settled(p, r)
         /\ rpc[p] # "none" => status[p] = "starting"
BY Parts DEF StartupInvariant, StartupSound, ProcessType, SweptIsSettled, Settled

\* A startup that fails ends its process.
LEMMA StartupFails ==
  ASSUME Invariant, Grows, UNCHANGED <<hpc, hseen, worker, pool, crashes>>,
         NEW p \in Procs, rpc[p] # "none", Forget(p), faults' \in Nat
  PROVE  Invariant'
<1>1. lock' \in [Procs -> BOOLEAN] /\ todo' \in [Procs -> SUBSET Runs] /\ <<>> \in Seq(Entry)
  BY ProcessFacts, FaultsCount DEF Forget
<1>2. status[p] # "up"
  BY ProcessFacts
<1>3. /\ status' = [status EXCEPT ![p] = "down"] /\ rpc' = [rpc EXCEPT ![p] = "none"]
      /\ rrun' = [rrun EXCEPT ![p] = None] /\ rseen' = [rseen EXCEPT ![p] = <<>>]
      /\ swept' = [swept EXCEPT ![p] = {}]
  BY DEF Forget
<1>4. None \in Runs \cup {None} /\ {} \in SUBSET Runs /\ \A r \in {} : Settled(p, r)'
  OBVIOUS
<1>5. PICK st \in {"down", "starting", "up"}, x \in {"none", "next", "read", "write"},
           q \in Runs \cup {None}, s \in Seq(Entry), sw \in SUBSET Runs :
        /\ x = "none" /\ status' = [status EXCEPT ![p] = st] /\ rpc' = [rpc EXCEPT ![p] = x]
        /\ rrun' = [rrun EXCEPT ![p] = q] /\ rseen' = [rseen EXCEPT ![p] = s]
        /\ swept' = [swept EXCEPT ![p] = sw] /\ \A r \in sw : Settled(p, r)'
  BY <1>1, <1>3, <1>4
<1>6. Prepared(p, x, q, s)
  BY <1>5 DEF Prepared
<1> QED
  BY <1>1, <1>2, <1>5, <1>6, StartupMoves

LEMMA StartInvariant ==
  ASSUME Invariant, NEW p \in Procs, Start(p)
  PROVE  Invariant'
<1>1. UNCHANGED <<store, owner, hpc, hseen, worker, pool, crashes, faults, rrun, rseen, swept>>
  BY DEF Start, handler
<1>2. Grows
  BY <1>1, SameStoreGrows
<1>3. /\ lock' \in [Procs -> BOOLEAN] /\ faults' \in Nat /\ todo' \in [Procs -> SUBSET Runs]
  BY <1>1, ProcessFacts, FaultsCount, Parts DEF Start, StoreType
<1>4. /\ status[p] = "down" /\ status' = [status EXCEPT ![p] = "starting"]
      /\ rpc' = [rpc EXCEPT ![p] = "next"]
      /\ rrun' = [rrun EXCEPT ![p] = rrun[p]] /\ rseen' = [rseen EXCEPT ![p] = rseen[p]]
      /\ swept' = [swept EXCEPT ![p] = swept[p]]
  BY <1>1, ProcessFacts DEF Start
<1>5. \A r \in swept[p] : Settled(p, r)'
  BY <1>2, ProcessFacts DEF Grows
<1>6. Prepared(p, "next", rrun[p], rseen[p])
  BY DEF Prepared
<1> QED
  BY <1>1, <1>2, <1>3, <1>4, <1>5, <1>6, ProcessFacts, StartupMoves

LEMMA OpenRunInvariant ==
  ASSUME Invariant, NEW p \in Procs, NEW r \in Runs, OpenRun(p, r)
  PROVE  Invariant'
<1>1. UNCHANGED <<store, owner, hpc, hseen, worker, pool, crashes>> /\ rpc[p] = "next"
  BY DEF OpenRun, handler
<1>2. Grows
  BY <1>1, SameStoreGrows
<1>3. faults' \in Nat
  BY FaultsCount DEF OpenRun
<1>4. CASE Forget(p)
  BY <1>1, <1>2, <1>3, <1>4, StartupFails
<1>5. CASE /\ r \in requests
           /\ rrun' = [rrun EXCEPT ![p] = r]
           /\ rpc' = [rpc EXCEPT ![p] = "read"]
           /\ UNCHANGED <<rseen, todo, swept, status, lock, faults>>
  <2>1. /\ lock' \in [Procs -> BOOLEAN] /\ todo' \in [Procs -> SUBSET Runs]
        /\ status[p] = "starting" /\ status' = [status EXCEPT ![p] = "starting"]
        /\ rseen' = [rseen EXCEPT ![p] = rseen[p]]
        /\ swept' = [swept EXCEPT ![p] = swept[p]]
        /\ r \in requests'
    BY <1>1, <1>5, ProcessFacts, FaultsCount DEF store
  <2>2. \A q \in swept[p] : Settled(p, q)'
    BY <1>2, ProcessFacts DEF Grows
  <2>3. Prepared(p, "read", r, rseen[p])
    BY <2>1 DEF Prepared
  <2> QED
    BY <1>1, <1>2, <1>3, <1>5, <2>1, <2>2, <2>3, ProcessFacts, StartupMoves
<1> QED
  BY <1>4, <1>5 DEF OpenRun

\* Leaving a run that is settled.
LEMMA AdvanceInvariant ==
  ASSUME Invariant, Grows, UNCHANGED <<hpc, hseen, worker, pool, crashes, faults>>,
         NEW p \in Procs, rpc[p] \in {"read", "write"}, Advance(p),
         NEW r \in Runs, r = rrun[p], Settled(p, r)'
  PROVE  Invariant'
<1>1. rrun[p] \in Runs /\ status[p] = "starting"
  BY ProcessFacts DEF StartupSound
<1> DEFINE sw == swept[p] \cup {rrun[p]}
<1>2. /\ lock' \in [Procs -> BOOLEAN] /\ todo' \in [Procs -> SUBSET Runs] /\ faults' \in Nat
      /\ status' = [status EXCEPT ![p] = "starting"]
      /\ rpc' = [rpc EXCEPT ![p] = "next"]
      /\ rrun' = [rrun EXCEPT ![p] = None] /\ rseen' = [rseen EXCEPT ![p] = <<>>]
      /\ swept' = [swept EXCEPT ![p] = sw] /\ sw \in SUBSET Runs
  BY <1>1, ProcessFacts, FaultsCount DEF Advance
<1>3. \A q \in sw : Settled(p, q)'
  <2> SUFFICES ASSUME NEW q \in sw PROVE Settled(p, q)'
    OBVIOUS
  <2>1. CASE q \in swept[p]
    BY <2>1, <1>1, ProcessFacts DEF Grows
  <2>2. CASE q = rrun[p]
    BY <2>2
  <2> QED
    BY <2>1, <2>2
<1>4. None \in Runs \cup {None} /\ <<>> \in Seq(Entry) /\ status[p] # "up"
  BY <1>1
<1> HIDE DEF sw
<1>5. PICK st \in {"down", "starting", "up"}, x \in {"none", "next", "read", "write"},
           q \in Runs \cup {None}, s \in Seq(Entry) :
        /\ st = "starting" /\ status' = [status EXCEPT ![p] = st]
        /\ x = "next" /\ rpc' = [rpc EXCEPT ![p] = x]
        /\ rrun' = [rrun EXCEPT ![p] = q] /\ rseen' = [rseen EXCEPT ![p] = s]
  BY <1>2, <1>4
<1>6. /\ lock' \in [Procs -> BOOLEAN] /\ todo' \in [Procs -> SUBSET Runs] /\ faults' \in Nat
      /\ swept' = [swept EXCEPT ![p] = sw] /\ sw \in SUBSET Runs
  BY <1>2
<1>7. Prepared(p, x, q, s)
  BY <1>5 DEF Prepared
<1> QED
  BY <1>3, <1>4, <1>5, <1>6, <1>7, StartupMoves

LEMMA ReadRunInvariant ==
  ASSUME Invariant, NEW p \in Procs, ReadRun(p)
  PROVE  Invariant'
<1>1. UNCHANGED <<store, owner, hpc, hseen, worker, pool, crashes>> /\ rpc[p] = "read"
  BY DEF ReadRun, handler
<1>2. Grows
  BY <1>1, SameStoreGrows
<1>3. faults' \in Nat
  BY FaultsCount DEF ReadRun
<1>4. /\ rrun[p] \in Runs /\ rrun[p] \in requests' /\ status[p] = "starting"
      /\ log[rrun[p]] \in Seq(Entry) /\ log' = log
  BY <1>1, ProcessFacts, Parts DEF StartupSound, store
<1>5. CASE Forget(p)
  BY <1>1, <1>2, <1>3, <1>5, StartupFails
<1>6. CASE NeedsNothing(rrun[p]) /\ Advance(p) /\ UNCHANGED faults
  <2>1. PICK r \in Runs : r = rrun[p]
    BY <1>4
  <2>2. Settled(p, r)'
    BY <1>4, <1>6, <2>1 DEF NeedsNothing, Settled, Terminal
  <2> QED
    BY <1>1, <1>2, <1>6, <2>1, <2>2, AdvanceInvariant
<1>7. CASE /\ ~NeedsNothing(rrun[p])
           /\ rseen' = [rseen EXCEPT ![p] = log[rrun[p]]]
           /\ rpc' = [rpc EXCEPT ![p] = "write"]
           /\ UNCHANGED <<rrun, todo, swept, status, lock, faults>>
  <2>1. Prepared(p, "write", rrun[p], log[rrun[p]])
    <3>1. PrefixOf(log[rrun[p]], log'[rrun[p]])
      BY <1>4, PrefixReflexive
    <3>2. ~HasEvent(log[rrun[p]], TerminalEvent)
      BY <1>7 DEF NeedsNothing, Terminal
    <3>3. ~(Len(log[rrun[p]]) = 2 /\ Len(log'[rrun[p]]) >= 3)
      <4> DEFINE n == Len(log[rrun[p]])
      <4>1. Len(log'[rrun[p]]) = n
        BY <1>4
      <4> HIDE DEF n
      <4>2. ~(n = 2 /\ n >= 3)
        OBVIOUS
      <4> QED
        BY <4>1, <4>2 DEF n
    <3> QED
      BY <1>4, <3>1, <3>2, <3>3 DEF Prepared
  <2>2. /\ lock' \in [Procs -> BOOLEAN] /\ todo' \in [Procs -> SUBSET Runs]
        /\ status' = [status EXCEPT ![p] = "starting"]
        /\ rrun' = [rrun EXCEPT ![p] = rrun[p]]
        /\ swept' = [swept EXCEPT ![p] = swept[p]]
    BY <1>4, <1>7, ProcessFacts, FaultsCount
  <2>3. \A q \in swept[p] : Settled(p, q)'
    BY <1>2, ProcessFacts DEF Grows
  <2> QED
    BY <1>1, <1>2, <1>3, <1>4, <1>7, <2>1, <2>2, <2>3, ProcessFacts, StartupMoves
<1> QED
  BY <1>5, <1>6, <1>7 DEF ReadRun

\* A history that is longer than two entries runs or is over; one that is longer
\* than three, or fails at the third, is over.
LEMMA LongHistory ==
  ASSUME NEW s \in Seq(Entry), LegalChain(s), Len(s) >= 3
  PROVE  /\ HasEvent(s, {"running", "completed", "failed"})
         /\ Len(s) >= 4 \/ s[3].event = "failed" => HasEvent(s, {"completed", "failed"})
<1> DEFINE n == Len(s)
<1>1. n \in Nat /\ n >= 3 /\ n <= 4
  BY ChainShape
<1> HIDE DEF n
<1>2. n = 3 \/ n = 4
  BY <1>1
<1>3. CASE n = 3
  BY <1>3, ChainShape DEF n, HasEvent, LastOf
<1>4. CASE n = 4
  BY <1>4, ChainShape DEF n, HasEvent, LastOf
<1> QED
  BY <1>2, <1>3, <1>4

LEMMA WriteRunInvariant ==
  ASSUME Invariant, NEW p \in Procs, WriteRun(p)
  PROVE  Invariant'
<1>1. UNCHANGED <<dirs, requests, indexed, internal, public, owner, hpc, hseen,
                  worker, pool, crashes>> /\ rpc[p] = "write"
  BY DEF WriteRun, handler
<1>2. PICK r \in Runs : r = rrun[p]
  BY <1>1, ProcessFacts DEF StartupSound
<1> DEFINE seen == rseen[p]
           event == Repair(seen)
           e == NewEntry(event, p, seen, None)
<1>3. /\ seen \in Seq(Entry) /\ log[r] \in Seq(Entry) /\ LegalChain(log[r])
      /\ PrefixOf(seen, log[r]) /\ r \in requests /\ status[p] = "starting"
      /\ ~HasEvent(seen, TerminalEvent)
      /\ Len(seen) = 2 /\ Len(log[r]) >= 3 /\ log[r][3].event = "running" => owner[r] # p
  BY <1>1, <1>2, ProcessFacts, Parts DEF StartupSound
<1>4. event \in {"request", "queued", "failed"} /\ event \in Event /\ p \in Writer
  BY DEF Repair, Event, Writer
<1>5. hpc[r] # "idle"
  BY <1>3, Parts DEF HandlerInvariant, HandlerSound
<1>6. /\ Len(seen) \in Nat /\ Len(seen) <= Len(log[r])
      /\ \A i \in 1..Len(seen) : seen[i] = log[r][i]
  BY <1>3 DEF PrefixOf
<1>7. event = "failed" => Len(seen) >= 2
  <2> DEFINE n == Len(seen)
  <2>1. n \in Nat /\ (event = "failed" => n # 0 /\ n # 1)
    BY <1>6 DEF Repair
  <2> HIDE DEF n, event
  <2>2. event = "failed" => n >= 2
    BY <2>1
  <2> QED
    BY <2>2 DEF n, event
<1>8. /\ seen = <<>> => event = "request"
      /\ seen # <<>> => event \in AllowedNext(LastOf(seen).event)
  <2> DEFINE n == Len(seen)
  <2>1. n \in Nat /\ n <= 4
    BY <1>3, <1>6, ChainShape
  <2> HIDE DEF n
  <2>2. n = 0 \/ n = 1 \/ n = 2 \/ n = 3 \/ n = 4
    BY <2>1
  <2>3. CASE n = 0
    BY <1>3, <2>3 DEF n, Repair
  <2>4. CASE n = 1
    BY <1>3, <1>6, <2>4, ChainShape DEF n, Repair, LastOf, AllowedNext
  <2>5. CASE n = 2
    BY <1>3, <1>6, <2>5, ChainShape DEF n, Repair, LastOf, AllowedNext
  <2>6. CASE n = 3
    BY <1>3, <1>6, <2>6, ChainShape DEF n, Repair, LastOf, AllowedNext, HasEvent, TerminalEvent
  <2>7. CASE n = 4
    BY <1>3, <1>6, <2>7, ChainShape DEF n, LastOf, HasEvent, TerminalEvent
  <2> QED
    BY <2>2, <2>3, <2>4, <2>5, <2>6, <2>7
<1> HIDE DEF event, seen
<1>9. Publish(r, seen, e) =>
        Grows /\ LastOf(log'[r]) = e /\ Len(log'[r]) = Len(seen) + 1
  BY <1>1, <1>3, <1>4, <1>5, <1>8, PublishGrows
<1>10. UNCHANGED log => Grows
  BY <1>1, SameStoreGrows DEF store
<1>11. e.event = event
  BY <1>3, <1>4, NewEntryType
<1>12. faults' \in Nat /\ (UNCHANGED lock => lock' \in [Procs -> BOOLEAN])
  BY FaultsCount DEF WriteRun, Broken
<1>13. Grows
  BY <1>2, <1>9, <1>10 DEF WriteRun, Taken, Broken, event, seen
<1>14. CASE Forget(p)
  BY <1>1, <1>12, <1>13, <1>14, StartupFails
<1>15. CASE /\ Publish(r, seen, e) \/ Taken(r, seen)
            /\ event = "failed" /\ Advance(p) /\ UNCHANGED faults
  <2>1. CASE Publish(r, seen, e)
    <3>1. LastOf(log'[r]).event = "failed" /\ log'[r] # <<>>
      <4>1. Len(log'[r]) # 0
        BY <1>6, <1>9, <2>1 DEF seen
      <4> QED
        BY <1>9, <1>11, <1>15, <2>1, <4>1
    <3> QED
      BY <3>1, <1>1, <1>2, <1>13, <1>15, AdvanceInvariant
      DEF Settled, Terminal, HasEvent, TerminalEvent
  <2>2. CASE Taken(r, seen)
    <3>1. log' = log /\ Len(log[r]) > Len(seen)
      BY <2>2 DEF Taken
    <3>2. Len(log[r]) >= 3
      BY <1>3, <1>6, <1>7, <1>15, <3>1 DEF seen
    <3>3. Terminal(r) \/ (HasEvent(log[r], {"running"}) /\ owner[r] # p)
      <4>1. CASE Len(seen) = 2
        <5>1. log[r][3].event = "running" \/ log[r][3].event = "failed"
          BY <1>3, <3>2, ChainShape
        <5> QED
          BY <1>3, <3>2, <4>1, <5>1, LongHistory DEF Terminal, HasEvent, TerminalEvent
      <4>2. CASE Len(seen) # 2
        <5>1. Len(log[r]) >= 4
          <6> DEFINE m == Len(seen)
                     n == Len(log[r])
          <6>1. m \in Nat /\ n \in Nat /\ m >= 2 /\ m # 2 /\ n > m
            BY <1>3, <1>6, <1>7, <1>15, <3>1, <4>2 DEF seen
          <6> HIDE DEF m, n
          <6>2. n >= 4
            BY <6>1
          <6> QED
            BY <6>2 DEF n
        <5> QED
          BY <1>3, <3>2, <5>1, LongHistory DEF Terminal, HasEvent, TerminalEvent
      <4> QED
        BY <4>1, <4>2
    <3>4. Settled(p, r)'
      BY <1>1, <3>1, <3>3 DEF Settled, Terminal
    <3> QED
      BY <1>1, <1>2, <1>13, <1>15, <3>4, AdvanceInvariant
  <2> QED
    BY <1>15, <2>1, <2>2
<1>16. CASE /\ rpc' = [rpc EXCEPT ![p] = "read"]
            /\ UNCHANGED <<rrun, rseen, todo, swept, status, lock, faults>>
  <2>1. Prepared(p, "read", r, seen)
    BY <1>1, <1>3 DEF Prepared
  <2>2. /\ lock' \in [Procs -> BOOLEAN] /\ todo' \in [Procs -> SUBSET Runs]
        /\ status' = [status EXCEPT ![p] = "starting"]
        /\ rrun' = [rrun EXCEPT ![p] = r] /\ rseen' = [rseen EXCEPT ![p] = seen]
        /\ swept' = [swept EXCEPT ![p] = swept[p]]
    BY <1>2, <1>3, <1>12, <1>16, ProcessFacts DEF seen
  <2>3. \A q \in swept[p] : Settled(p, q)'
    BY <1>13, ProcessFacts DEF Grows
  <2> QED
    BY <1>1, <1>3, <1>12, <1>13, <1>16, <2>1, <2>2, <2>3, ProcessFacts, StartupMoves
<1> QED
  BY <1>2, <1>11, <1>14, <1>15, <1>16 DEF WriteRun, event, seen

LEMMA ServeInvariant ==
  ASSUME Invariant, NEW p \in Procs, Serve(p)
  PROVE  Invariant'
<1>1. /\ UNCHANGED <<store, owner, hpc, hseen, worker, pool, crashes, faults, todo>>
      /\ rpc[p] = "next" /\ status[p] = "starting"
  BY ProcessFacts DEF Serve, handler
<1>2. Grows
  BY <1>1, SameStoreGrows
<1>3. /\ lock' \in [Procs -> BOOLEAN] /\ todo' \in [Procs -> SUBSET Runs] /\ faults' \in Nat
      /\ status' = [status EXCEPT ![p] = "up"] /\ rpc' = [rpc EXCEPT ![p] = "none"]
      /\ rrun' = [rrun EXCEPT ![p] = rrun[p]] /\ rseen' = [rseen EXCEPT ![p] = rseen[p]]
      /\ swept' = [swept EXCEPT ![p] = swept[p]]
  BY <1>1, ProcessFacts, FaultsCount DEF Serve
<1>4. \A q \in swept[p] : Settled(p, q)'
  BY <1>2, ProcessFacts DEF Grows
<1>5. Prepared(p, "none", rrun[p], rseen[p])
  BY DEF Prepared
<1> QED
  BY <1>1, <1>2, <1>3, <1>4, <1>5, ProcessFacts, StartupMoves

LEMMA CrashInvariant ==
  ASSUME Invariant, NEW p \in Procs, Crash(p)
  PROVE  Invariant'
<1>1. UNCHANGED <<store, owner, hseen, wseen, claim, faults>>
  BY DEF Crash
<1>2. Grows
  BY <1>1, SameStoreGrows
<1>3. \A r \in Runs : hpc'[r] = IF owner[r] = p /\ hpc[r] \notin Answered THEN "gone" ELSE hpc[r]
  BY DEF Crash
<1>4. \A w \in Workers :
        wpc'[w] = IF owner[RunOf(w)] = p /\ wpc[w] \notin {"none", "done"} THEN "gone" ELSE wpc[w]
  BY DEF Crash
<1>5. TypeOK'
  <2>1. HandlerType'
    <3>1. hpc' \in [Runs -> HandlerPoint]
      BY Parts DEF Crash, HandlerType, HandlerPoint
    <3> QED
      BY <1>1, <3>1, Parts DEF HandlerType
  <2>2. WorkerType'
    <3>1. wpc' \in [Workers -> WorkerPoint]
      BY Parts DEF Crash, WorkerType, WorkerPoint
    <3>2. tracked' \subseteq Runs /\ failures' \subseteq Runs
      BY Parts DEF Crash, WorkerType
    <3> QED
      BY <1>1, <3>1, <3>2, Parts DEF WorkerType
  <2>3. ProcessType'
    BY <1>1, Parts DEF Crash, Forget, Unlock, ProcessType
  <2> QED
    BY <1>2, <2>1, <2>2, <2>3 DEF TypeOK, Grows
<1>6. HandlerInvariant'
  <2> SUFFICES ASSUME NEW r \in Runs PROVE HandlerSound(r)'
    BY DEF HandlerInvariant
  <2>1. HandlerSound(r) /\ UNCHANGED <<log, requests, owner, hseen>>
    BY <1>1, Parts DEF HandlerInvariant, store
  <2>2. hpc'[r] = hpc[r] \/ (hpc'[r] = "gone" /\ hpc[r] # "idle")
    BY <1>3 DEF Answered
  <2>3. hpc[r] \in BeforeDispatch => \A w \in Workers : RunOf(w) = r => wpc'[w] = "none"
    BY <1>4, <2>1 DEF HandlerSound
  <2> QED
    BY <2>1, <2>2, <2>3 DEF HandlerSound, BeforeDispatch
<1>7. WorkerInvariant'
  <2> SUFFICES ASSUME NEW w \in Workers PROVE WorkerSound(w)'
    BY DEF WorkerInvariant
  <2>1. WorkerSound(w) /\ UNCHANGED <<log, internal, public, wseen, claim>>
    BY <1>1, Parts DEF WorkerInvariant, store
  <2>2. wpc'[w] = wpc[w] \/ (wpc'[w] = "gone" /\ wpc[w] # "none")
    BY <1>4
  <2> QED
    BY <2>1, <2>2 DEF WorkerSound, Claimed
<1>8. StartupInvariant'
  <2> SUFFICES ASSUME NEW o \in Procs PROVE StartupSound(o)'
    BY DEF StartupInvariant
  <2>1. StartupSound(o)
    BY Parts DEF StartupInvariant
  <2>2. CASE o = p
    <3>1. rpc'[o] = "none"
      BY <2>2, Parts DEF Crash, Forget, ProcessType
    <3>2. \A r \in Runs : owner'[r] = o => hpc'[r] \in Answered \cup {"gone"}
      BY <1>1, <1>3, <2>2
    <3>3. \A w \in Workers : owner'[RunOf(w)] = o => wpc'[w] \in {"none", "done", "gone"}
      BY <1>1, <1>4, <2>2
    <3> QED
      BY <3>1, <3>2, <3>3 DEF StartupSound
  <2>3. CASE o # p
    <3>1. /\ status'[o] = status[o] /\ rpc'[o] = rpc[o] /\ rrun'[o] = rrun[o]
          /\ rseen'[o] = rseen[o]
      BY <2>3, Parts DEF Crash, Forget, ProcessType
    <3>2. status[o] # "up" =>
            /\ \A r \in Runs : owner[r] = o => hpc'[r] \in Answered \cup {"gone"}
            /\ \A w \in Workers : owner[RunOf(w)] = o => wpc'[w] \in {"none", "done", "gone"}
      BY <1>3, <1>4, <2>1, <2>3 DEF StartupSound
    <3> QED
      BY <1>2, <3>1, <3>2, StartupKept
  <2> QED
    BY <2>2, <2>3
<1>9. SweptIsSettled'
  BY <1>2, Parts DEF Crash, Forget, ProcessType, SweptIsSettled, Grows, Settled
<1> QED
  BY <1>2, <1>5, <1>6, <1>7, <1>8, <1>9 DEF Invariant, Grows

-------------------------------------------------------------------------------
(* The theorems                                                            *)

LEMMA NextInvariant == Invariant /\ [Next]_vars => Invariant'
<1> SUFFICES ASSUME Invariant, [Next]_vars PROVE Invariant'
  OBVIOUS
<1>1. CASE UNCHANGED vars
  <2>1. /\ UNCHANGED <<store, owner, hpc, hseen, wpc, wseen, claim, tracked, failures>>
        /\ UNCHANGED <<rpc, rrun, rseen, todo, swept, status, lock, faults, crashes>>
    BY <1>1 DEF vars, handler, worker, pool, startup
  <2>2. Grows
    BY <2>1, SameStoreGrows
  <2>3. TypeOK'
    BY <2>1, <2>2, Parts DEF TypeOK, Grows, HandlerType, WorkerType, ProcessType
  <2>4. HandlerInvariant'
    BY <2>1, <2>2, Parts, HandlerKept DEF HandlerInvariant, HandlerSound
  <2>5. WorkerInvariant'
    BY <2>1, <2>2, WorkerKept DEF WorkerInvariant
  <2>6. StartupInvariant'
    BY <2>1, <2>2, Parts, StartupKept DEF StartupInvariant, StartupSound
  <2> QED
    BY <2>1, <2>2, <2>3, <2>4, <2>5, <2>6, SweptKept DEF Invariant, Grows
<1>2. CASE \E p \in Procs, r \in Runs : Submit(p, r)
  BY <1>2, SubmitInvariant
<1>3. CASE \E r \in Runs : HandlerStep(r)
  BY <1>3, HandlerStepInvariant
<1>4. CASE \E w \in Workers : WorkerStep(w)
  BY <1>4, WorkerStepInvariant
<1>5. CASE \E p \in Procs : Start(p) \/ StartupStep(p) \/ Crash(p)
  BY <1>5, StartInvariant, OpenRunInvariant, ReadRunInvariant, WriteRunInvariant,
     ServeInvariant, CrashInvariant DEF StartupStep
<1> QED
  BY <1>1, <1>2, <1>3, <1>4, <1>5 DEF Next

\* The inductive invariant holds of every reachable state.
THEOREM Correctness == Spec => []Invariant
BY InitInvariant, NextInvariant, PTL DEF Spec

\* Every variable keeps its type.
THEOREM TypeCorrectness == Spec => []TypeOK
<1>1. Invariant => TypeOK
  BY DEF Invariant
<1> QED
  BY <1>1, Correctness, PTL

\* The transitions of a run form one legal hash chain, whoever races to write them.
THEOREM ChainsStayIntact == Spec => []ChainIntact
<1>1. Invariant => ChainIntact
  BY DEF Invariant, FilesInvariant, FilesSound, ChainIntact
<1> QED
  BY <1>1, Correctness, PTL

\* What a startup visited is over or runs in another process.
THEOREM StartupSettlesRuns == Spec => []SweptIsSettled
<1>1. Invariant => SweptIsSettled
  BY DEF Invariant
<1> QED
  BY <1>1, Correctness, PTL

\* One delivery of a task at most gets past the claim.
THEOREM OneWorkerClaims == Spec => []SingleClaim
<1>1. Invariant => SingleClaim
  <2> SUFFICES ASSUME Invariant, NEW v \in Workers, NEW w \in Workers,
                      RunOf(v) = RunOf(w), claim[v] # None, claim[w] # None
               PROVE  v = w
    BY DEF SingleClaim
  <2>1. WorkerSound(v) /\ WorkerSound(w)
    BY Parts DEF WorkerInvariant
  <2>2. v[2] = w[2]
    BY <2>1 DEF WorkerSound
  <2> QED
    BY <2>2, SameWorker
<1> QED
  BY <1>1, Correctness, PTL

\* Only the claim holder completes a run, with its own two reports.
THEOREM ClaimHolderCompletes == Spec => []CompletedByClaimHolder
<1>1. Invariant => CompletedByClaimHolder
  <2> SUFFICES ASSUME Invariant, NEW r \in Runs, HasEvent(log[r], {"completed"})
               PROVE  \E w \in Workers : /\ RunOf(w) = r
                                         /\ log[r][3].event = "running" /\ log[r][3].by = w[2]
                                         /\ internal[r] = w[2] /\ public[r] = w[2]
                                         /\ LastOf(log[r]).report = w[2]
    BY DEF CompletedByClaimHolder
  <2> DEFINE n == Len(log[r])
  <2>1. log[r] \in Seq(Entry) /\ LegalChain(log[r]) /\ FilesSound(r) /\ n \in Nat /\ n # 0 /\ n <= 4
    BY Parts, ChainShape DEF FilesInvariant, HasEvent
  <2>2. log[r][n].event = "completed" /\ n \in 1..n
    BY <2>1 DEF HasEvent, LastOf
  <2> HIDE DEF n
  <2>3. n = 1 \/ n = 2 \/ n = 3 \/ n = 4
    BY <2>1
  <2>4. n = 4
    BY <2>1, <2>2, <2>3, ChainShape DEF n
  <2>5. log[r][3].event = "running" /\ 3 \in 1..Len(log[r]) /\ 4 \in 1..Len(log[r])
    BY <2>1, <2>4, ChainShape DEF n
  <2>6. /\ log[r][3].by \in Deliveries
        /\ LastOf(log[r]).report = log[r][3].by
        /\ internal[r] = log[r][3].by /\ public[r] = log[r][3].by
    BY <2>1, <2>2, <2>4, <2>5 DEF FilesSound, LastOf, n
  <2>7. <<r, log[r][3].by>> \in Workers /\ RunOf(<<r, log[r][3].by>>) = r
    BY <2>6 DEF Workers, RunOf
  <2> QED
    BY <2>5, <2>6, <2>7
<1> QED
  BY <1>1, Correctness, PTL

\* A run whose submission was answered 202 can be read by every process.
THEOREM AcceptedRunsAreReadable == Spec => []AcceptedIsReadable
<1>1. Invariant => AcceptedIsReadable
  <2> SUFFICES ASSUME Invariant, NEW r \in Runs, NEW p \in Procs, hpc[r] = "accepted"
               PROVE  View(p, r) \notin {"missing", "invalid"}
    BY DEF AcceptedIsReadable
  <2>1. /\ HandlerSound(r) /\ FilesSound(r) /\ log[r] \in Seq(Entry)
        /\ public \in [Runs -> Deliveries \cup {None}]
    BY Parts DEF HandlerInvariant, FilesInvariant, StoreType
  <2>2. r \in requests /\ Len(log[r]) >= 2 /\ LegalChain(log[r])
    BY <2>1 DEF HandlerSound, FilesSound
  <2>3. LastOf(log[r]).event \in Event /\ Len(log[r]) \in 1..Len(log[r])
    <3>1. Len(log[r]) \in 1..Len(log[r])
      BY <2>1, <2>2
    <3>2. log[r][Len(log[r])] \in Entry
      BY <2>1, <3>1
    <3> QED
      BY <3>1, <3>2 DEF LastOf, Entry
  <2>4. LastOf(log[r]).event = "completed" =>
          public[r] # None /\ public[r] = LastOf(log[r]).report
    <3> SUFFICES ASSUME LastOf(log[r]).event = "completed"
                 PROVE  public[r] # None /\ public[r] = LastOf(log[r]).report
      OBVIOUS
    <3>1. LastOf(log[r]).report = log[r][3].by /\ public[r] = log[r][3].by
      BY <2>1, <2>3 DEF FilesSound, LastOf
    <3>2. Len(log[r]) >= 3
      <4> DEFINE n == Len(log[r])
      <4>1. n \in Nat /\ n >= 2 /\ n # 2
        BY <2>1, <2>2, ChainShape DEF LastOf
      <4> HIDE DEF n
      <4>2. n >= 3
        BY <4>1
      <4> QED
        BY <4>2 DEF n
    <3>3. log[r][3].event = "running"
      <4>1. log[r][3].event = "failed" => Len(log[r]) = 3
        <5> DEFINE n == Len(log[r])
        <5>1. n \in Nat /\ n >= 3 /\ (log[r][3].event = "failed" => ~(n >= 4))
          BY <2>1, <2>2, <3>2, ChainShape
        <5> HIDE DEF n
        <5>2. log[r][3].event = "failed" => n = 3
          BY <5>1
        <5> QED
          BY <5>2 DEF n
      <4> QED
        BY <2>1, <2>2, <3>2, <4>1, ChainShape DEF LastOf
    <3>4. log[r][3].by \in Deliveries
      BY <2>1, <3>2, <3>3 DEF FilesSound
    <3> QED
      BY <3>1, <3>4, RunServiceAssumption
  <2> QED
    BY <2>2, <2>3, <2>4 DEF View, Event
<1> QED
  BY <1>1, Correctness, PTL

-------------------------------------------------------------------------------
(* A worker whose run was ended by another stops                           *)

LEMMA StaleWorkerStep ==
  ASSUME Invariant, NEW v \in Workers, WorkerStep(v), NEW w \in Workers,
         Terminal(RunOf(w)), claim[w] # None, wpc'[w] # wpc[w]
  PROVE  wpc'[w] \notin Phases \cup {"internal", "completing", "owned", "failing"}
<1>1. wpc \in [Workers -> WorkerPoint] /\ WorkerSound(w)
  BY Parts DEF WorkerType, WorkerInvariant
<1>2. \E x : WorkerGoes(v, x)
  BY DEF WorkerStep, WorkerStarts, ReadForClaim, WriteClaim, WorkerReads, WorkerWrites,
         PhaseEnds, CheckClaim, WriteInternalReport, WritePublicReport,
         ReadForCompleted, WriteCompleted, CheckOwnership, ReadForFailed, WriteFailed,
         TaskDone
<1>3. v = w
  BY <1>1, <1>2 DEF WorkerGoes
<1>4. ~ClaimIsCurrent(w) /\ \A event : ~Appendable(w, event)
  BY DEF ClaimIsCurrent, Appendable, Terminal, HasEvent, TerminalEvent
<1>5. wpc[w] \notin {"none", "queued", "claim", "claiming"}
  BY <1>1 DEF WorkerSound
<1>6. Phases = {"generate", "judge", "review"}
  BY DEF Phases, AfterPhase
<1>7. CASE PhaseEnds(w)
  <2>1. wpc[w] \in {"generate", "judge", "review"}
    BY <1>6, <1>7 DEF PhaseEnds
  <2> QED
    BY <1>1, <1>6, <1>7, <2>1 DEF PhaseEnds, AfterPhase, WorkerGoes
<1>8. CASE CheckClaim(w)
  BY <1>1, <1>4, <1>6, <1>8 DEF CheckClaim, WorkerGoes
<1>9. CASE CheckOwnership(w)
  BY <1>1, <1>4, <1>6, <1>9 DEF CheckOwnership, WorkerGoes
<1>10. CASE ReadForCompleted(w) \/ ReadForFailed(w)
  BY <1>1, <1>4, <1>6, <1>10 DEF ReadForCompleted, ReadForFailed, WorkerReads, WorkerGoes
<1>11. CASE WriteCompleted(w) \/ WriteFailed(w)
  BY <1>1, <1>6, <1>11 DEF WriteCompleted, WriteFailed, WorkerWrites, WorkerGoes
<1>12. CASE WriteInternalReport(w) \/ WritePublicReport(w) \/ TaskDone(w)
  BY <1>1, <1>6, <1>12 DEF WriteInternalReport, WritePublicReport, TaskDone, WorkerGoes
<1>13. CASE WorkerStarts(w) \/ ReadForClaim(w) \/ WriteClaim(w)
  BY <1>5, <1>13 DEF WorkerStarts, ReadForClaim, WriteClaim, WorkerReads, WorkerWrites
<1> QED
  BY <1>3, <1>7, <1>8, <1>9, <1>10, <1>11, <1>12, <1>13 DEF WorkerStep

\* After its run was ended by another, a worker starts no phase and writes no
\* transition.
THEOREM StaleWorkersStop == Spec => StaleWorkerStops
<1> DEFINE A == \A w \in Workers :
                  Terminal(RunOf(w)) /\ claim[w] # None /\ wpc'[w] # wpc[w]
                  => wpc'[w] \notin Phases \cup {"internal", "completing", "owned", "failing"}
<1>1. Invariant /\ [Next]_vars => A
  <2> SUFFICES ASSUME Invariant, [Next]_vars, NEW w \in Workers,
                      Terminal(RunOf(w)), claim[w] # None, wpc'[w] # wpc[w]
               PROVE  wpc'[w] \notin Phases \cup {"internal", "completing", "owned", "failing"}
    OBVIOUS
  <2>1. CASE UNCHANGED vars
    BY <2>1 DEF vars, worker
  <2>2. CASE \E v \in Workers : WorkerStep(v)
    BY <2>2, StaleWorkerStep
  <2>3. CASE \E r \in Runs : HandlerStep(r)
    <3>1. wpc'[w] = "queued" \/ wpc'[w] = wpc[w]
      BY <2>3 DEF HandlerStep, MakeRunDirectory, WriteRequest, WriteFirstTransition,
         WriteQueuedTransition, HandlerWrites, WriteIndex, Dispatch, Enqueued,
         HandlerReadsHistory, HandlerWritesFailure, worker
    <3> QED
      BY <3>1 DEF Phases, AfterPhase
  <2>4. CASE \E p \in Procs : Crash(p)
    <3>1. wpc'[w] = "gone" \/ wpc'[w] = wpc[w]
      BY <2>4 DEF Crash
    <3> QED
      BY <3>1 DEF Phases, AfterPhase
  <2>5. CASE \/ \E p \in Procs, r \in Runs : Submit(p, r)
             \/ \E p \in Procs : Start(p) \/ StartupStep(p)
    BY <2>5 DEF Submit, Start, StartupStep, OpenRun, ReadRun, WriteRun, Serve, worker
  <2> QED
    BY <2>1, <2>2, <2>3, <2>4, <2>5 DEF Next
<1>2. Invariant /\ [Next]_vars => [A]_vars
  BY <1>1
<1> QED
  BY <1>2, Correctness, PTL DEF Spec, StaleWorkerStops

-------------------------------------------------------------------------------
(* Refinement of RunLifecycle                                              *)

\* A step appends to one history at most and replaces no public report.
Effect ==
  /\ UNCHANGED log \/ \E r \in Runs : \E e : log' = [log EXCEPT ![r] = Append(@, e)]
  /\ \A q \in Runs : public[q] # None => public'[q] = public[q]

LEMMA WorkerEffect ==
  ASSUME Invariant, NEW w \in Workers, WorkerStep(w)
  PROVE  Effect
<1>1. RunOf(w) \in Runs /\ public \in [Runs -> Deliveries \cup {None}]
  BY WorkerTypes, Parts DEF StoreType
<1>2. CASE WriteClaim(w) \/ WriteCompleted(w) \/ WriteFailed(w)
  BY <1>1, <1>2 DEF Effect, WriteClaim, WriteCompleted, WriteFailed, WorkerWrites,
     Publish, Taken, Broken
<1>3. CASE WriteInternalReport(w) \/ WritePublicReport(w)
  BY <1>1, <1>3 DEF Effect, WriteInternalReport, WritePublicReport
<1>4. CASE \/ WorkerStarts(w) \/ ReadForClaim(w) \/ PhaseEnds(w) \/ CheckClaim(w)
           \/ ReadForCompleted(w) \/ CheckOwnership(w) \/ ReadForFailed(w) \/ TaskDone(w)
  BY <1>4 DEF Effect, WorkerStarts, ReadForClaim, PhaseEnds, CheckClaim, ReadForCompleted,
     CheckOwnership, ReadForFailed, TaskDone, WorkerReads, store
<1> QED
  BY <1>2, <1>3, <1>4 DEF WorkerStep

LEMMA NextEffect ==
  ASSUME Invariant, [Next]_vars
  PROVE  Effect
<1>1. CASE UNCHANGED vars
  BY <1>1 DEF Effect, vars, store
<1>2. CASE \E w \in Workers : WorkerStep(w)
  BY <1>2, WorkerEffect
<1>3. ASSUME NEW r \in Runs, HandlerStep(r) PROVE Effect
  <2>1. CASE WriteFirstTransition(r) \/ WriteQueuedTransition(r) \/ HandlerWritesFailure(r)
    BY <2>1 DEF Effect, WriteFirstTransition, WriteQueuedTransition, HandlerWrites,
       HandlerWritesFailure, Publish, Taken, Broken
  <2>2. CASE ~(WriteFirstTransition(r) \/ WriteQueuedTransition(r) \/ HandlerWritesFailure(r))
    BY <1>3, <2>2 DEF Effect, HandlerStep, MakeRunDirectory, WriteRequest, WriteIndex,
       Dispatch, HandlerReadsHistory, store
  <2> QED
    BY <2>1, <2>2
<1>4. ASSUME NEW p \in Procs, Start(p) \/ StartupStep(p) \/ Crash(p) PROVE Effect
  <2>1. CASE WriteRun(p)
    <3>1. rrun[p] \in Runs
      BY <2>1, ProcessFacts DEF WriteRun, StartupSound
    <3> QED
      BY <2>1, <3>1 DEF Effect, WriteRun, Publish, Taken, Broken
  <2>2. CASE ~WriteRun(p)
    BY <1>4, <2>2 DEF Effect, Start, StartupStep, Crash, OpenRun, ReadRun, Serve, store
  <2> QED
    BY <2>1, <2>2
<1>5. ASSUME NEW p \in Procs, NEW r \in Runs, Submit(p, r) PROVE Effect
  BY <1>5 DEF Effect, Submit, store
<1> QED
  BY <1>1, <1>2, <1>3, <1>4, <1>5 DEF Next

\* What a client sees of a run, by the length of its history.
Shape(r) ==
  /\ Len(log[r]) \in {0, 1, 2, 3, 4}
  /\ Len(log[r]) \in {0, 1} =>
       PhaseOf(r) = "absent" /\ ClaimantOf(r) = None /\ ResultOf(r) = None
  /\ Len(log[r]) = 2 =>
       PhaseOf(r) = "queued" /\ ClaimantOf(r) = None /\ ResultOf(r) = None
  /\ Len(log[r]) = 3 =>
       /\ ResultOf(r) = None
       /\ \/ PhaseOf(r) = "running" /\ ClaimantOf(r) \in Deliveries
          \/ PhaseOf(r) = "failed" /\ ClaimantOf(r) = None
  /\ Len(log[r]) = 4 =>
       \/ PhaseOf(r) = "completed" /\ ResultOf(r) = ClaimantOf(r)
       \/ PhaseOf(r) = "failed" /\ ResultOf(r) = None
  /\ HasEvent(log[r], {"completed"}) => public[r] # None

Shaped == \A r \in Runs : Shape(r)

LEMMA ShapeOfRun ==
  ASSUME Invariant, NEW r \in Runs
  PROVE  Shape(r)
<1>1. FilesSound(r) /\ log[r] \in Seq(Entry) /\ LegalChain(log[r])
  BY Parts DEF FilesInvariant
<1>2. Len(log[r]) \in {0, 1, 2, 3, 4}
  <2> DEFINE n == Len(log[r])
  <2>1. n \in Nat /\ n <= 4
    BY <1>1, ChainShape
  <2> HIDE DEF n
  <2>2. n \in {0, 1, 2, 3, 4}
    BY <2>1
  <2> QED
    BY <2>2 DEF n
<1>3. CASE Len(log[r]) = 0
  BY <1>1, <1>3 DEF Shape, PhaseOf, ClaimantOf, ResultOf, HasEvent
<1>4. CASE Len(log[r]) = 1
  <2>1. log[r][1].event = "request"
    BY <1>1, <1>4, ChainShape
  <2> QED
    BY <1>4, <2>1 DEF Shape, PhaseOf, ClaimantOf, ResultOf, HasEvent, LastOf
<1>5. CASE Len(log[r]) = 2
  <2>1. log[r][2].event = "queued"
    BY <1>1, <1>5, ChainShape
  <2> QED
    BY <1>5, <2>1 DEF Shape, PhaseOf, ClaimantOf, ResultOf, HasEvent, LastOf
<1>6. CASE Len(log[r]) = 3
  <2>1. log[r][3].event \in {"running", "failed"}
    BY <1>1, <1>6, ChainShape
  <2>2. log[r][3].event = "running" => log[r][3].by \in Deliveries
    BY <1>1, <1>6 DEF FilesSound
  <2> QED
    BY <1>6, <2>1, <2>2 DEF Shape, PhaseOf, ClaimantOf, ResultOf, HasEvent, LastOf
<1>7. CASE Len(log[r]) = 4
  <2>1. log[r][3].event = "running" /\ log[r][4].event \in {"completed", "failed"}
    BY <1>1, <1>7, ChainShape
  <2>2. log[r][3].by \in Deliveries
    BY <1>1, <1>7, <2>1 DEF FilesSound
  <2>3. log[r][4].event = "completed" => public[r] = log[r][3].by
    BY <1>1, <1>7 DEF FilesSound
  <2>4. None \notin Deliveries
    BY RunServiceAssumption
  <2>5. /\ PhaseOf(r) = log[r][4].event /\ ClaimantOf(r) = log[r][3].by
        /\ HasEvent(log[r], {"completed"}) <=> log[r][4].event = "completed"
    BY <1>1, <1>7, <2>1 DEF PhaseOf, ClaimantOf, HasEvent, LastOf
  <2>6. ResultOf(r) = IF log[r][4].event = "completed" THEN public[r] ELSE None
    BY <2>5 DEF ResultOf
  <2> QED
    BY <1>7, <2>1, <2>2, <2>3, <2>4, <2>5, <2>6 DEF Shape
<1> QED
  BY <1>2, <1>3, <1>4, <1>5, <1>6, <1>7

LEMMA Observed == Invariant => Shaped
BY ShapeOfRun DEF Shaped

LEMMA ObservedNext == Invariant' => Shaped'
BY Observed, PTL

\* A run whose files do not change is seen as before.
LEMMA SameShape ==
  ASSUME NEW r \in Runs, Shape(r), Effect, log'[r] = log[r]
  PROVE  /\ PhaseOf(r)' = PhaseOf(r)
         /\ ClaimantOf(r)' = ClaimantOf(r)
         /\ ResultOf(r)' = ResultOf(r)
<1>1. HasEvent(log[r], {"completed"}) => public'[r] = public[r]
  BY DEF Shape, Effect
<1>2. HasEvent(log[r], {"completed"})' <=> HasEvent(log[r], {"completed"})
  BY DEF HasEvent, LastOf
<1> QED
  BY <1>1, <1>2 DEF PhaseOf, ClaimantOf, ResultOf, LastOf

\* An entry that moves a run on does what the life cycle allows next.
LEMMA AppendRefines ==
  ASSUME Invariant, Invariant', Effect,
         NEW r \in Runs, NEW e, log' = [log EXCEPT ![r] = Append(@, e)]
  PROVE  Lifecycle!Next \/ UNCHANGED Lifecycle!vars
<1>1. /\ log[r] \in Seq(Entry) /\ log'[r] \in Seq(Entry) /\ log'[r] = Append(log[r], e)
      /\ \A q \in Runs : q # r => log'[q] = log[q]
  BY Parts DEF Invariant, TypeOK, StoreType
<1>2. Shape(r) /\ Shape(r)'
  BY Observed, ObservedNext DEF Shaped
<1>3. ASSUME NEW q \in Runs, q # r
      PROVE  PhaseOf(q)' = PhaseOf(q) /\ ClaimantOf(q)' = ClaimantOf(q) /\ ResultOf(q)' = ResultOf(q)
  <2>1. Shape(q)
    BY Observed DEF Shaped
  <2> QED
    BY <1>1, <1>3, <2>1, SameShape
<1>4. \/ Len(log[r]) = 0 /\ Len(log'[r]) = 1
      \/ Len(log[r]) = 1 /\ Len(log'[r]) = 2
      \/ Len(log[r]) = 2 /\ Len(log'[r]) = 3
      \/ Len(log[r]) = 3 /\ Len(log'[r]) = 4
  <2>1. Len(log'[r]) = Len(log[r]) + 1
    BY <1>1
  <2>2. Len(log[r]) \in {0, 1, 2, 3, 4} /\ Len(log'[r]) \in {0, 1, 2, 3, 4}
    BY <1>2 DEF Shape
  <2>3. \A m \in Nat :
          /\ m = 0 + 1 => m = 1
          /\ m = 1 + 1 => m = 2
          /\ m = 2 + 1 => m = 3
          /\ m = 3 + 1 => m = 4
          /\ m = 4 + 1 => m \notin {0, 1, 2, 3, 4}
    OBVIOUS
  <2> QED
    BY <2>1, <2>2, <2>3
<1> DEFINE ph == [q \in Runs |-> PhaseOf(q)]
           cl == [q \in Runs |-> ClaimantOf(q)]
           re == [q \in Runs |-> ResultOf(q)]
<1>5. /\ ph' = [ph EXCEPT ![r] = PhaseOf(r)']
      /\ cl' = [cl EXCEPT ![r] = ClaimantOf(r)']
      /\ re' = [re EXCEPT ![r] = ResultOf(r)']
  BY <1>3
<1>6. /\ ph[r] = PhaseOf(r) /\ cl[r] = ClaimantOf(r) /\ re[r] = ResultOf(r)
      /\ PhaseOf(r)' = PhaseOf(r) => ph' = ph
      /\ ClaimantOf(r)' = ClaimantOf(r) => cl' = cl
      /\ ResultOf(r)' = ResultOf(r) => re' = re
  BY <1>5
<1>7. CASE Len(log[r]) = 0 /\ Len(log'[r]) = 1
  <2>1. /\ PhaseOf(r)' = PhaseOf(r) /\ ClaimantOf(r)' = ClaimantOf(r)
        /\ ResultOf(r)' = ResultOf(r)
    BY <1>2, <1>7 DEF Shape
  <2>2. ph' = ph /\ cl' = cl /\ re' = re
    BY <1>6, <2>1
  <2> QED
    BY <2>2 DEF Lifecycle!vars
<1>8. CASE Len(log[r]) = 1 /\ Len(log'[r]) = 2
  <2>1. /\ PhaseOf(r) = "absent" /\ PhaseOf(r)' = "queued"
        /\ ClaimantOf(r)' = ClaimantOf(r) /\ ResultOf(r)' = ResultOf(r)
    BY <1>2, <1>8 DEF Shape
  <2>2. ph[r] = "absent" /\ ph' = [ph EXCEPT ![r] = "queued"] /\ cl' = cl /\ re' = re
    BY <1>5, <1>6, <2>1
  <2>3. Lifecycle!Enqueue(r)
    BY <2>2 DEF Lifecycle!Enqueue
  <2> QED
    BY <2>3 DEF Lifecycle!Next
<1>9. CASE Len(log[r]) = 2 /\ Len(log'[r]) = 3
  <2>1. /\ PhaseOf(r) = "queued" /\ ResultOf(r)' = ResultOf(r)
        /\ \/ PhaseOf(r)' = "failed" /\ ClaimantOf(r)' = ClaimantOf(r)
           \/ PhaseOf(r)' = "running" /\ ClaimantOf(r)' \in Deliveries
    BY <1>2, <1>9 DEF Shape
  <2>2. CASE PhaseOf(r)' = "failed" /\ ClaimantOf(r)' = ClaimantOf(r)
    <3>1. ph[r] = "queued" /\ ph' = [ph EXCEPT ![r] = "failed"] /\ cl' = cl /\ re' = re
      BY <1>5, <1>6, <2>1, <2>2
    <3>2. Lifecycle!Fail(r)
      BY <3>1 DEF Lifecycle!Fail
    <3> QED
      BY <3>2 DEF Lifecycle!Next
  <2>3. CASE PhaseOf(r)' = "running" /\ ClaimantOf(r)' \in Deliveries
    <3>1. PICK d \in Deliveries : ClaimantOf(r)' = d
      BY <2>3
    <3>2. /\ ph[r] = "queued" /\ ph' = [ph EXCEPT ![r] = "running"]
          /\ cl' = [cl EXCEPT ![r] = d] /\ re' = re
      BY <1>5, <1>6, <2>1, <2>3, <3>1
    <3>3. Lifecycle!Claim(r, d)
      BY <3>2 DEF Lifecycle!Claim
    <3> QED
      BY <3>3 DEF Lifecycle!Next
  <2> QED
    BY <2>1, <2>2, <2>3
<1>10. CASE Len(log[r]) = 3 /\ Len(log'[r]) = 4
  <2>1. log'[r][3] = log[r][3] /\ Len(log[r]) >= 3 /\ Len(log'[r]) >= 3
    BY <1>1, <1>10
  <2>2. ClaimantOf(r)' = ClaimantOf(r)
    BY <2>1 DEF ClaimantOf
  <2>3. LegalChain(log'[r])
    BY DEF Invariant, FilesInvariant, FilesSound
  <2>4. log'[r][3].event = "running"
    BY <1>1, <1>10, <2>3, ChainShape
  <2>5. PhaseOf(r) = "running" /\ ResultOf(r) = None
    BY <1>2, <1>10, <2>1, <2>4 DEF Shape, PhaseOf, LastOf
  <2>6. CASE PhaseOf(r)' = "completed" /\ ResultOf(r)' = ClaimantOf(r)'
    <3>1. /\ ph[r] = "running" /\ ph' = [ph EXCEPT ![r] = "completed"]
          /\ re' = [re EXCEPT ![r] = cl[r]] /\ cl' = cl
      BY <1>5, <1>6, <2>2, <2>5, <2>6
    <3>2. Lifecycle!Complete(r)
      BY <3>1 DEF Lifecycle!Complete
    <3> QED
      BY <3>2 DEF Lifecycle!Next
  <2>7. CASE PhaseOf(r)' = "failed" /\ ResultOf(r)' = None
    <3>1. ph[r] = "running" /\ ph' = [ph EXCEPT ![r] = "failed"] /\ cl' = cl /\ re' = re
      BY <1>5, <1>6, <2>2, <2>5, <2>7
    <3>2. Lifecycle!Fail(r)
      BY <3>1 DEF Lifecycle!Fail
    <3> QED
      BY <3>2 DEF Lifecycle!Next
  <2> QED
    BY <1>2, <1>10, <2>6, <2>7 DEF Shape
<1> QED
  BY <1>4, <1>7, <1>8, <1>9, <1>10

\* Handlers, workers, startups and crashes implement the life cycle.
THEOREM LifecycleRefinement == Spec => LifecycleSpec
<1>1. Init => Lifecycle!Init
  BY DEF Init, Lifecycle!Init, PhaseOf, ClaimantOf, ResultOf, HasEvent
<1>2. Invariant /\ Invariant' /\ [Next]_vars => [Lifecycle!Next]_(Lifecycle!vars)
  <2> SUFFICES ASSUME Invariant, Invariant', [Next]_vars
               PROVE  Lifecycle!Next \/ UNCHANGED Lifecycle!vars
    OBVIOUS
  <2>1. Effect
    BY NextEffect
  <2>2. CASE UNCHANGED log
    <3>1. ASSUME NEW r \in Runs
          PROVE  /\ PhaseOf(r)' = PhaseOf(r) /\ ClaimantOf(r)' = ClaimantOf(r)
                 /\ ResultOf(r)' = ResultOf(r)
      <4>1. Shape(r) /\ log'[r] = log[r]
        BY <2>2, Observed DEF Shaped
      <4> QED
        BY <2>1, <4>1, SameShape
    <3> QED
      BY <3>1 DEF Lifecycle!vars
  <2>3. CASE \E r \in Runs : \E e : log' = [log EXCEPT ![r] = Append(@, e)]
    BY <2>1, <2>3, AppendRefines
  <2> QED
    BY <2>1, <2>2, <2>3 DEF Effect
<1> QED
  BY <1>1, <1>2, Correctness, PTL DEF Spec, LifecycleSpec, Lifecycle!Spec

-------------------------------------------------------------------------------
(* The files of the runs                                                   *)

Written == <<requests, indexed, internal, public, log>>

\* A step writes one file at most.
FileStep ==
  \/ UNCHANGED Written
  \/ \E r \in Runs : requests' = requests \cup {r} /\ UNCHANGED <<indexed, internal, public, log>>
  \/ \E r \in Runs : indexed' = indexed \cup {r} /\ UNCHANGED <<requests, internal, public, log>>
  \/ \E r \in Runs, d \in Deliveries :
       /\ internal[r] = None /\ internal' = [internal EXCEPT ![r] = d]
       /\ UNCHANGED <<requests, indexed, public, log>>
  \/ \E r \in Runs, d \in Deliveries :
       /\ public[r] = None /\ public' = [public EXCEPT ![r] = d]
       /\ UNCHANGED <<requests, indexed, internal, log>>
  \/ \E r \in Runs : \E e :
       /\ log' = [log EXCEPT ![r] = Append(@, e)]
       /\ UNCHANGED <<requests, indexed, internal, public>>

LEMMA HandlerWritesOneFile ==
  ASSUME NEW r \in Runs, HandlerStep(r)
  PROVE  FileStep
<1>1. CASE WriteRequest(r) \/ WriteIndex(r)
  BY <1>1 DEF FileStep, Written, WriteRequest, WriteIndex, Create, CreateBroken
<1>2. CASE WriteFirstTransition(r) \/ WriteQueuedTransition(r) \/ HandlerWritesFailure(r)
  BY <1>2 DEF FileStep, Written, WriteFirstTransition, WriteQueuedTransition, HandlerWrites,
     HandlerWritesFailure, Publish, Taken, Broken
<1>3. CASE MakeRunDirectory(r) \/ Dispatch(r) \/ HandlerReadsHistory(r)
  BY <1>3 DEF FileStep, Written, MakeRunDirectory, Dispatch, HandlerReadsHistory, store
<1> QED
  BY <1>1, <1>2, <1>3 DEF HandlerStep

LEMMA WorkerWritesOneFile ==
  ASSUME NEW w \in Workers, WorkerStep(w)
  PROVE  FileStep
<1>1. RunOf(w) \in Runs /\ w[2] \in Deliveries
  BY WorkerTypes
<1>2. CASE WriteClaim(w) \/ WriteCompleted(w) \/ WriteFailed(w)
  BY <1>1, <1>2 DEF FileStep, Written, WriteClaim, WriteCompleted, WriteFailed, WorkerWrites,
     Publish, Taken, Broken
<1>3. CASE WriteInternalReport(w) \/ WritePublicReport(w)
  BY <1>1, <1>3 DEF FileStep, Written, WriteInternalReport, WritePublicReport
<1>4. CASE \/ WorkerStarts(w) \/ ReadForClaim(w) \/ PhaseEnds(w) \/ CheckClaim(w)
           \/ ReadForCompleted(w) \/ CheckOwnership(w) \/ ReadForFailed(w) \/ TaskDone(w)
  BY <1>4 DEF FileStep, Written, WorkerStarts, ReadForClaim, PhaseEnds, CheckClaim,
     ReadForCompleted, CheckOwnership, ReadForFailed, TaskDone, WorkerReads, store
<1> QED
  BY <1>2, <1>3, <1>4 DEF WorkerStep

LEMMA NextWritesOneFile ==
  ASSUME Invariant, [Next]_vars
  PROVE  FileStep
<1>1. CASE UNCHANGED vars
  BY <1>1 DEF FileStep, Written, vars, store
<1>2. CASE \E w \in Workers : WorkerStep(w)
  BY <1>2, WorkerWritesOneFile
<1>3. CASE \E r \in Runs : HandlerStep(r)
  BY <1>3, HandlerWritesOneFile
<1>4. ASSUME NEW p \in Procs, WriteRun(p) PROVE FileStep
  <2>1. rrun[p] \in Runs
    BY <1>4, ProcessFacts DEF WriteRun, StartupSound
  <2> QED
    BY <1>4, <2>1 DEF FileStep, Written, WriteRun, Publish, Taken, Broken
<1>5. ASSUME NEW p \in Procs, Start(p) \/ StartupStep(p) \/ Crash(p), ~WriteRun(p)
      PROVE  FileStep
  BY <1>5 DEF FileStep, Written, Start, StartupStep, Crash, OpenRun, ReadRun, Serve, store
<1>6. ASSUME NEW p \in Procs, NEW r \in Runs, Submit(p, r) PROVE FileStep
  BY <1>6 DEF FileStep, Written, Submit, store
<1> QED
  BY <1>1, <1>2, <1>3, <1>4, <1>5, <1>6 DEF Next

\* What each file of a run holds.
Holds(f) ==
  /\ f[1] = "request" => ContentOf(f) = IF f[2] \in requests THEN f[2] ELSE None
  /\ f[1] = "index" => ContentOf(f) = IF f[2] \in indexed THEN f[2] ELSE None
  /\ f[1] = "internal" => ContentOf(f) = internal[f[2]]
  /\ f[1] = "public" => ContentOf(f) = public[f[2]]
  /\ f[1] = "transition" =>
       ContentOf(f) = IF f[3] <= Len(log[f[2]]) THEN log[f[2]][f[3]] ELSE None

LEMMA FilesHold == \A f \in RunFile : Holds(f)
<1> SUFFICES ASSUME NEW f \in RunFile PROVE Holds(f)
  OBVIOUS
<1>1. f[1] = "request" => ContentOf(f) = IF f[2] \in requests THEN f[2] ELSE None
  BY DEF ContentOf
<1>2. f[1] = "index" => ContentOf(f) = IF f[2] \in indexed THEN f[2] ELSE None
  BY DEF ContentOf
<1>3. f[1] = "internal" => ContentOf(f) = internal[f[2]]
  BY DEF ContentOf
<1>4. f[1] = "public" => ContentOf(f) = public[f[2]]
  BY DEF ContentOf
<1>5. f[1] = "transition" =>
        ContentOf(f) = IF f[3] <= Len(log[f[2]]) THEN log[f[2]][f[3]] ELSE None
  BY DEF ContentOf
<1> QED
  BY <1>1, <1>2, <1>3, <1>4, <1>5 DEF Holds

LEMMA FilesHoldNext == (\A f \in RunFile : Holds(f))'
BY FilesHold, PTL

LEMMA RunFiles ==
  ASSUME NEW f \in RunFile
  PROVE  /\ f[2] \in Runs /\ f = <<f[1], f[2], f[3]>>
         /\ \/ f[1] \in {"request", "index", "internal", "public"} /\ f[3] = 0
            \/ f[1] = "transition" /\ f[3] \in 1..4
BY DEF RunFile

LEMMA OneCreated ==
  ASSUME NEW f \in RunFile, NEW c \in RunContent, ContentOf(f) = None, ContentOf(f)' = c,
         \A g \in RunFile : g # f => ContentOf(g)' = ContentOf(g)
  PROVE  \E g \in RunFile, d \in RunContent : Store!Create(g, d)
<1>1. Store!Create(f, c)
  BY DEF Store!Create
<1> QED
  BY <1>1

LEMMA StepCreatesFile ==
  ASSUME Invariant, Invariant', FileStep
  PROVE  \/ \E f \in RunFile, c \in RunContent : Store!Create(f, c)
         \/ UNCHANGED [f \in RunFile |-> ContentOf(f)]
<1> DEFINE Same == \A g \in RunFile : ContentOf(g)' = ContentOf(g)
<1>1. Same => UNCHANGED [f \in RunFile |-> ContentOf(f)]
  OBVIOUS
<1> HIDE DEF Same
<1>2. ASSUME UNCHANGED Written PROVE Same
  BY <1>2, RunFiles, FilesHold, FilesHoldNext DEF Written, Same, Holds
<1>3. ASSUME NEW r \in Runs, requests' = requests \cup {r},
             UNCHANGED <<indexed, internal, public, log>>, r \notin requests
      PROVE  \E f \in RunFile, c \in RunContent : Store!Create(f, c)
  <2> DEFINE f == <<"request", r, 0>>
  <2>1. f \in RunFile /\ r \in RunContent /\ f[1] = "request" /\ f[2] = r
    BY DEF RunFile, RunContent
  <2>2. ContentOf(f) = None /\ ContentOf(f)' = r
    BY <1>3, <2>1, FilesHold, FilesHoldNext DEF Holds
  <2>3. ASSUME NEW g \in RunFile, g # f PROVE ContentOf(g)' = ContentOf(g)
    <3>1. g[1] # "request" \/ g[2] # r
      BY <2>3, RunFiles
    <3> QED
      BY <1>3, <3>1, RunFiles, FilesHold, FilesHoldNext DEF Holds
  <2> HIDE DEF f
  <2> QED
    BY <2>1, <2>2, <2>3, OneCreated
<1>4. ASSUME NEW r \in Runs, indexed' = indexed \cup {r},
             UNCHANGED <<requests, internal, public, log>>, r \notin indexed
      PROVE  \E f \in RunFile, c \in RunContent : Store!Create(f, c)
  <2> DEFINE f == <<"index", r, 0>>
  <2>1. f \in RunFile /\ r \in RunContent /\ f[1] = "index" /\ f[2] = r
    BY DEF RunFile, RunContent
  <2>2. ContentOf(f) = None /\ ContentOf(f)' = r
    BY <1>4, <2>1, FilesHold, FilesHoldNext DEF Holds
  <2>3. ASSUME NEW g \in RunFile, g # f PROVE ContentOf(g)' = ContentOf(g)
    <3>1. g[1] # "index" \/ g[2] # r
      BY <2>3, RunFiles
    <3> QED
      BY <1>4, <3>1, RunFiles, FilesHold, FilesHoldNext DEF Holds
  <2> HIDE DEF f
  <2> QED
    BY <2>1, <2>2, <2>3, OneCreated
<1>5. ASSUME NEW r \in Runs, NEW d \in Deliveries, internal[r] = None,
             internal' = [internal EXCEPT ![r] = d], UNCHANGED <<requests, indexed, public, log>>
      PROVE  \E f \in RunFile, c \in RunContent : Store!Create(f, c)
  <2> DEFINE f == <<"internal", r, 0>>
  <2>1. f \in RunFile /\ d \in RunContent /\ f[1] = "internal" /\ f[2] = r
    BY DEF RunFile, RunContent
  <2>2. internal'[r] = d /\ \A q \in Runs : q # r => internal'[q] = internal[q]
    BY <1>5, Parts DEF StoreType
  <2>3. ContentOf(f) = None /\ ContentOf(f)' = d
    BY <1>5, <2>1, <2>2, FilesHold, FilesHoldNext DEF Holds
  <2>4. ASSUME NEW g \in RunFile, g # f PROVE ContentOf(g)' = ContentOf(g)
    <3>1. g[1] # "internal" \/ g[2] # r
      BY <2>4, RunFiles
    <3> QED
      BY <1>5, <2>2, <3>1, RunFiles, FilesHold, FilesHoldNext DEF Holds
  <2> HIDE DEF f
  <2> QED
    BY <2>1, <2>3, <2>4, OneCreated
<1>6. ASSUME NEW r \in Runs, NEW d \in Deliveries, public[r] = None,
             public' = [public EXCEPT ![r] = d], UNCHANGED <<requests, indexed, internal, log>>
      PROVE  \E f \in RunFile, c \in RunContent : Store!Create(f, c)
  <2> DEFINE f == <<"public", r, 0>>
  <2>1. f \in RunFile /\ d \in RunContent /\ f[1] = "public" /\ f[2] = r
    BY DEF RunFile, RunContent
  <2>2. public'[r] = d /\ \A q \in Runs : q # r => public'[q] = public[q]
    BY <1>6, Parts DEF StoreType
  <2>3. ContentOf(f) = None /\ ContentOf(f)' = d
    BY <1>6, <2>1, <2>2, FilesHold, FilesHoldNext DEF Holds
  <2>4. ASSUME NEW g \in RunFile, g # f PROVE ContentOf(g)' = ContentOf(g)
    <3>1. g[1] # "public" \/ g[2] # r
      BY <2>4, RunFiles
    <3> QED
      BY <1>6, <2>2, <3>1, RunFiles, FilesHold, FilesHoldNext DEF Holds
  <2> HIDE DEF f
  <2> QED
    BY <2>1, <2>3, <2>4, OneCreated
<1>7. ASSUME NEW r \in Runs, NEW e, log' = [log EXCEPT ![r] = Append(@, e)],
             UNCHANGED <<requests, indexed, internal, public>>
      PROVE  \E f \in RunFile, c \in RunContent : Store!Create(f, c)
  <2>1. /\ log[r] \in Seq(Entry) /\ log'[r] \in Seq(Entry) /\ log'[r] = Append(log[r], e)
        /\ \A q \in Runs : q # r => log'[q] = log[q]
    BY <1>7, Parts DEF StoreType, Invariant, TypeOK
  <2>2. PICK n \in 1..4 : Len(log'[r]) = n /\ Len(log[r]) = n - 1
    <3>1. Len(log'[r]) = Len(log[r]) + 1 /\ Len(log[r]) \in Nat
      BY <2>1
    <3>2. LegalChain(log'[r])
      BY DEF Invariant, FilesInvariant, FilesSound
    <3>3. Len(log'[r]) <= 4
      BY <2>1, <3>2, ChainShape
    <3> QED
      BY <3>1, <3>3
  <2>3. e \in Entry /\ log'[r][n] = e /\ \A i \in 1..4 : i < n => log'[r][i] = log[r][i]
    <3>1. log'[r][n] = e
      BY <2>1, <2>2
    <3>2. log'[r][n] \in Entry
      BY <2>1, <2>2
    <3> QED
      BY <2>1, <2>2, <3>1, <3>2
  <2> DEFINE f == <<"transition", r, n>>
  <2>4. f \in RunFile /\ e \in RunContent /\ f[1] = "transition" /\ f[2] = r /\ f[3] = n
    BY <2>2, <2>3 DEF RunFile, RunContent
  <2>5. ContentOf(f) = None /\ ContentOf(f)' = e
    <3>1. ~(n <= Len(log[r])) /\ n <= Len(log'[r])
      BY <2>2
    <3> HIDE DEF f
    <3>2. ContentOf(f) = IF n <= Len(log[r]) THEN log[r][n] ELSE None
      BY <2>4, FilesHold DEF Holds
    <3>3. ContentOf(f)' = IF n <= Len(log'[r]) THEN log'[r][n] ELSE None
      BY <2>4, FilesHoldNext DEF Holds
    <3> QED
      BY <2>3, <3>1, <3>2, <3>3
  <2>6. ASSUME NEW g \in RunFile, g # f PROVE ContentOf(g)' = ContentOf(g)
    <3>1. CASE g[1] = "transition" /\ g[2] = r
      <4>1. g[3] # n /\ g[3] \in 1..4
        BY <2>6, <3>1, RunFiles
      <4>2. g[3] <= Len(log'[r]) <=> g[3] <= Len(log[r])
        BY <2>2, <4>1
      <4>3. g[3] <= Len(log[r]) => log'[r][g[3]] = log[r][g[3]]
        BY <2>2, <2>3, <4>1
      <4> QED
        BY <3>1, <4>2, <4>3, FilesHold, FilesHoldNext DEF Holds
    <3>2. CASE g[1] = "transition" /\ g[2] # r
      BY <2>1, <3>2, RunFiles, FilesHold, FilesHoldNext DEF Holds
    <3>3. CASE g[1] # "transition"
      BY <1>7, <3>3, RunFiles, FilesHold, FilesHoldNext DEF Holds
    <3> QED
      BY <3>1, <3>2, <3>3
  <2> HIDE DEF f
  <2>7. \A g \in RunFile : g # f => ContentOf(g)' = ContentOf(g)
    BY <2>6
  <2> QED
    BY <2>4, <2>5, <2>7, OneCreated
<1>8. ASSUME NEW r \in Runs, requests' = requests \cup {r},
             UNCHANGED <<indexed, internal, public, log>>, r \in requests
      PROVE  Same
  <2>1. requests' = requests
    BY <1>8
  <2> QED
    BY <1>2, <1>8, <2>1 DEF Written
<1>9. ASSUME NEW r \in Runs, indexed' = indexed \cup {r},
             UNCHANGED <<requests, internal, public, log>>, r \in indexed
      PROVE  Same
  <2>1. indexed' = indexed
    BY <1>9
  <2> QED
    BY <1>2, <1>9, <2>1 DEF Written
<1> QED
  BY <1>1, <1>2, <1>3, <1>4, <1>5, <1>6, <1>7, <1>8, <1>9 DEF FileStep

\* The files of the runs are those of a create-only store.
THEOREM RunFilesAreCreated == Spec => FilesAreCreated
<1>1. Invariant /\ Invariant' /\ [Next]_vars =>
        [\E f \in RunFile, c \in RunContent : Store!Create(f, c)]_[f \in RunFile |-> ContentOf(f)]
  BY NextWritesOneFile, StepCreatesFile
<1> QED
  BY <1>1, Correctness, PTL DEF Spec, FilesAreCreated

-------------------------------------------------------------------------------
(* An accepted run is attended to while it is active                       *)

\* Holders are at work in a process that serves.
LEMMA HolderFacts ==
  ASSUME Invariant
  PROVE  /\ \A r \in Runs : HandlerHolds(r) => owner[r] \in Procs /\ status[owner[r]] = "up"
         /\ \A w \in Workers : WorkerHolds(w) =>
              /\ owner[RunOf(w)] \in Procs /\ status[owner[RunOf(w)]] = "up"
              /\ hpc[RunOf(w)] \notin BeforeDispatch
              /\ Len(log[RunOf(w)]) >= 2
<1>1. HandlerInvariant /\ StartupInvariant /\ WorkerInvariant
  BY Parts
<1>2. ASSUME NEW r \in Runs, HandlerHolds(r)
      PROVE  owner[r] \in Procs /\ status[owner[r]] = "up"
  BY <1>1, <1>2 DEF HandlerHolds, HandlerInvariant, HandlerSound, StartupInvariant,
     StartupSound, Answered
<1>3. ASSUME NEW w \in Workers, WorkerHolds(w)
      PROVE  /\ owner[RunOf(w)] \in Procs /\ status[owner[RunOf(w)]] = "up"
             /\ hpc[RunOf(w)] \notin BeforeDispatch
             /\ Len(log[RunOf(w)]) >= 2
  <2>1. RunOf(w) \in Runs /\ wpc[w] \notin {"none", "done", "gone"}
    BY <1>3, WorkerTypes DEF WorkerHolds
  <2>2. hpc[RunOf(w)] \notin BeforeDispatch
    BY <1>1, <2>1 DEF HandlerInvariant, HandlerSound
  <2>3. owner[RunOf(w)] \in Procs
    BY <1>1, <2>1, <2>2 DEF HandlerInvariant, HandlerSound, BeforeDispatch
  <2> QED
    BY <1>1, <2>1, <2>2, <2>3 DEF StartupInvariant, StartupSound, WorkerInvariant, WorkerSound
<1> QED
  BY <1>2, <1>3

\* The last entry of an active run.
LEMMA ActiveShape ==
  ASSUME Invariant, NEW r \in Runs, Active(r)
  PROVE  /\ log[r] \in Seq(Entry) /\ log[r] # <<>> /\ ~Terminal(r)
         /\ Len(log[r]) \in {2, 3}
         /\ LastOf(log[r]).event = "queued" => Len(log[r]) = 2
         /\ LastOf(log[r]).event = "running" =>
              /\ Len(log[r]) = 3 /\ log[r][3].event = "running"
              /\ log[r][3] = LastOf(log[r]) /\ log[r][3].by \in Deliveries
<1>1. /\ log[r] \in Seq(Entry) /\ log[r] # <<>> /\ FilesSound(r) /\ LegalChain(log[r])
      /\ LastOf(log[r]).event \in {"queued", "running"}
  BY Parts DEF Active, HasEvent, FilesInvariant
<1>2. ~Terminal(r)
  BY <1>1 DEF Terminal, HasEvent, TerminalEvent
<1> DEFINE n == Len(log[r])
<1>3. n \in Nat /\ n # 0 /\ n <= 4
  BY <1>1, ChainShape
<1>4. n # 1 /\ n # 4
  BY <1>1, ChainShape DEF LastOf
<1>5. n = 2 => LastOf(log[r]).event = "queued"
  BY <1>1, ChainShape DEF LastOf
<1>6. n = 3 => /\ log[r][3] = LastOf(log[r]) /\ LastOf(log[r]).event # "queued"
               /\ (log[r][3].event = "running" => log[r][3].by \in Deliveries)
  BY <1>1, ChainShape DEF LastOf, FilesSound
<1> HIDE DEF n
<1>7. n = 2 \/ n = 3
  BY <1>3, <1>4
<1> QED
  BY <1>1, <1>2, <1>5, <1>6, <1>7 DEF n

\* While a run is active, a claim on it is current.
LEMMA ActiveClaim ==
  ASSUME Invariant, NEW w \in Workers, Active(RunOf(w)), claim[w] # None
  PROVE  /\ ClaimIsCurrent(w) /\ LastOf(log[RunOf(w)]).event = "running"
         /\ Hash(LastOf(log[RunOf(w)])) = claim[w]
<1>1. WorkerSound(w) /\ RunOf(w) \in Runs
  BY Parts, WorkerTypes DEF WorkerInvariant
<1>2. Len(log[RunOf(w)]) = 3
  BY <1>1, ActiveShape DEF WorkerSound
<1>3. LastOf(log[RunOf(w)]) = log[RunOf(w)][3] /\ log[RunOf(w)] # <<>>
  BY <1>1, <1>2, ActiveShape DEF LastOf
<1> QED
  BY <1>1, <1>3 DEF WorkerSound, ClaimIsCurrent, HasEvent

\* Histories before and after a step.
LEMMA Grown ==
  ASSUME Invariant, Invariant', Effect, NEW r \in Runs
  PROVE  /\ log[r] \in Seq(Entry) /\ log'[r] \in Seq(Entry) /\ LegalChain(log'[r])
         /\ PrefixOf(log[r], log'[r]) /\ Len(log[r]) <= Len(log'[r])
<1>1. log[r] \in Seq(Entry) /\ log \in [Runs -> Seq(Entry)]
  BY Parts DEF StoreType
<1>2. log'[r] \in Seq(Entry) /\ LegalChain(log'[r])
  BY DEF Invariant, TypeOK, StoreType, FilesInvariant, FilesSound
<1>3. log'[r] = log[r] \/ \E e : log'[r] = Append(log[r], e)
  BY <1>1 DEF Effect
<1>4. PrefixOf(log[r], log'[r])
  BY <1>1, <1>2, <1>3 DEF PrefixOf
<1> QED
  BY <1>1, <1>2, <1>4 DEF PrefixOf

\* A run that is over has its last transition.
LEMMA TerminalStays ==
  ASSUME Invariant, Invariant', Effect, NEW r \in Runs, Terminal(r)
  PROVE  log'[r] = log[r] /\ Terminal(r)'
<1>1. /\ log[r] \in Seq(Entry) /\ log'[r] \in Seq(Entry) /\ PrefixOf(log[r], log'[r])
      /\ Len(log[r]) <= Len(log'[r]) /\ LegalChain(log'[r])
  BY Grown
<1>2. log[r] # <<>> /\ log[r][Len(log[r])].event \in TerminalEvent
  BY DEF Terminal, HasEvent, LastOf
<1> DEFINE n == Len(log[r])
<1>3. n \in Nat /\ n >= 1
  BY <1>1, <1>2
<1>4. Len(log'[r]) = n
  <2>1. SUFFICES ASSUME Len(log'[r]) >= n + 1 PROVE FALSE
    BY <1>1, <1>3
  <2>2. log'[r][n] = log[r][n]
    BY <1>1, <1>3 DEF PrefixOf
  <2>3. n + 1 \in 2..Len(log'[r]) /\ (n + 1) - 1 = n
    BY <1>1, <1>3, <2>1
  <2>4. log'[r][n + 1].event \in AllowedNext(log'[r][n].event)
    BY <1>1, <2>3 DEF LegalChain
  <2> QED
    BY <1>2, <2>2, <2>4 DEF TerminalEvent, AllowedNext
<1>5. log'[r] = log[r]
  BY <1>1, <1>4, PrefixEqual
<1> QED
  BY <1>5 DEF Terminal

\* So a run that is active after a step was so before, if it had been queued.
LEMMA ActiveBefore ==
  ASSUME Invariant, Invariant', Effect, NEW r \in Runs, Len(log[r]) >= 2, Active(r)'
  PROVE  Active(r)
<1>1. ~Terminal(r)
  BY TerminalStays DEF Terminal, Active, HasEvent, TerminalEvent
<1>2. log[r] \in Seq(Entry) /\ LegalChain(log[r])
  BY Parts
<1> DEFINE n == Len(log[r])
<1>3. n \in Nat /\ n >= 2 /\ n <= 4
  BY <1>2, ChainShape
<1> HIDE DEF n
<1>4. n = 2 \/ n = 3 \/ n = 4
  BY <1>3
<1>5. LastOf(log[r]).event \in {"queued", "running", "completed", "failed"} /\ log[r] # <<>>
  BY <1>2, <1>4, ChainShape DEF LastOf, n
<1> QED
  BY <1>1, <1>5 DEF Terminal, Active, HasEvent, TerminalEvent

-------------------------------------------------------------------------------
(* What keeps the parts of AttendedInvariant                               *)

\* Nobody takes a lock.
LEMMA LockKept ==
  ASSUME LockSound,
         \A r \in Runs : HandlerHolds(r)' =>
           HandlerHolds(r) /\ owner'[r] = owner[r] /\ lock'[owner[r]] = lock[owner[r]],
         \A w \in Workers : WorkerHolds(w)' =>
           /\ WorkerHolds(w) /\ owner'[RunOf(w)] = owner[RunOf(w)]
           /\ lock'[owner[RunOf(w)]] = lock[owner[RunOf(w)]]
  PROVE  LockSound'
BY DEF LockSound

\* A handler takes a free lock.
LEMMA HandlerLocks ==
  ASSUME LockSound, NEW q \in Runs, NEW p, ~lock[p], owner'[q] = p, lock'[p],
         \A r \in Runs \ {q} : HandlerHolds(r)' =>
           HandlerHolds(r) /\ owner'[r] = owner[r] /\ (owner[r] # p => lock'[owner[r]] = lock[owner[r]]),
         \A w \in Workers : WorkerHolds(w)' =>
           /\ WorkerHolds(w) /\ owner'[RunOf(w)] = owner[RunOf(w)]
           /\ owner[RunOf(w)] # p => lock'[owner[RunOf(w)]] = lock[owner[RunOf(w)]]
  PROVE  LockSound'
<1>1. \A r \in Runs \ {q} : HandlerHolds(r)' => owner'[r] # p /\ lock'[owner'[r]]
  BY DEF LockSound
<1>2. \A w \in Workers : WorkerHolds(w)' => owner'[RunOf(w)] # p /\ lock'[owner'[RunOf(w)]]
  BY DEF LockSound
<1> QED
  BY <1>1, <1>2 DEF LockSound

\* A worker does.
LEMMA WorkerLocks ==
  ASSUME LockSound, NEW v \in Workers, NEW p, ~lock[p], owner'[RunOf(v)] = p, lock'[p],
         \A r \in Runs : HandlerHolds(r)' =>
           HandlerHolds(r) /\ owner'[r] = owner[r] /\ (owner[r] # p => lock'[owner[r]] = lock[owner[r]]),
         \A w \in Workers \ {v} : WorkerHolds(w)' =>
           /\ WorkerHolds(w) /\ owner'[RunOf(w)] = owner[RunOf(w)]
           /\ owner[RunOf(w)] # p => lock'[owner[RunOf(w)]] = lock[owner[RunOf(w)]]
  PROVE  LockSound'
<1>1. \A r \in Runs : HandlerHolds(r)' => owner'[r] # p /\ lock'[owner'[r]]
  BY DEF LockSound
<1>2. \A w \in Workers \ {v} : WorkerHolds(w)' => owner'[RunOf(w)] # p /\ lock'[owner'[RunOf(w)]]
  BY DEF LockSound
<1> QED
  BY <1>1, <1>2 DEF LockSound

\* Who still holds a lock sees its run extended by its end only.
LEMMA RacesKept ==
  ASSUME Invariant, Invariant', Effect, RacesSound,
         \A w \in Workers : WorkerHolds(w)' =>
           \/ wseen'[w] = log'[RunOf(w)]
           \/ /\ WorkerHolds(w) /\ wseen'[w] = wseen[w]
              /\ log'[RunOf(w)] = log[RunOf(w)] \/ Terminal(RunOf(w))',
         \A r \in Runs : hpc'[r] = "failing" =>
           \/ hseen'[r] = log'[r]
           \/ /\ hpc[r] = "failing" /\ hseen'[r] = hseen[r]
              /\ log'[r] = log[r] \/ Terminal(r)'
  PROVE  RacesSound'
<1>1. ASSUME NEW w \in Workers, WorkerHolds(w)', log'[RunOf(w)] # wseen'[w]
      PROVE  Terminal(RunOf(w))'
  BY <1>1, WorkerTypes, TerminalStays DEF RacesSound
<1>2. ASSUME NEW r \in Runs, hpc'[r] = "failing", log'[r] # hseen'[r]
      PROVE  Terminal(r)'
  BY <1>2, TerminalStays DEF RacesSound
<1> QED
  BY <1>1, <1>2 DEF RacesSound

\* A third transition is new only if it is no RUNNING, or its writer's claim.
LEMMA RunningKept ==
  ASSUME Invariant, Invariant', Effect, RunningSound,
         \A w \in Workers : wpc'[w] \in {"none", "queued", "claim"} =>
                              wpc[w] \in {"none", "queued", "claim"},
         \A w \in Workers :
           LET r == RunOf(w) IN
           \/ log'[r] = log[r]
           \/ /\ log[r] \in Seq(Entry)
              /\ \E e \in Entry :
                   /\ log'[r] = Append(log[r], e)
                   /\ e.event = "running" /\ e.by = w[2] =>
                        wpc'[w] \notin {"none", "queued", "claim"}
  PROVE  RunningSound'
<1> SUFFICES ASSUME NEW w \in Workers, Len(log'[RunOf(w)]) >= 3,
                    log'[RunOf(w)][3].event = "running", log'[RunOf(w)][3].by = w[2]
             PROVE  wpc'[w] \notin {"none", "queued", "claim"}
  BY DEF RunningSound
<1> DEFINE r == RunOf(w)
<1>1. CASE log'[r] = log[r]
  BY <1>1 DEF RunningSound
<1>2. CASE log'[r] # log[r]
  <2>1. PICK e \in Entry :
          /\ log[r] \in Seq(Entry) /\ log'[r] = Append(log[r], e)
          /\ e.event = "running" /\ e.by = w[2] => wpc'[w] \notin {"none", "queued", "claim"}
    BY <1>2
  <2> DEFINE n == Len(log[r])
  <2>2. n \in Nat /\ n >= 2 /\ log'[r][n + 1] = e
    BY <2>1
  <2>3. CASE n = 2
    BY <2>1, <2>2, <2>3
  <2>4. CASE n >= 3
    <3>1. log'[r][3] = log[r][3]
      BY <2>1, <2>4
    <3> QED
      BY <2>4, <3>1 DEF RunningSound
  <2> QED
    BY <2>2, <2>3, <2>4
<1> QED
  BY <1>1, <1>2

Minds(r) == hpc[r] = "accepted" /\ Active(r) /\ status[owner[r]] = "up" => Minded(r)

\* A bystander's run stays minded.
LEMMA MindedKept ==
  ASSUME NEW r \in Runs, Minds(r),
         hpc'[r] = "accepted" => hpc[r] = "accepted",
         owner'[r] = owner[r], status'[owner[r]] = "up" => status[owner[r]] = "up",
         log'[r] = log[r] \/ ~Active(r)',
         status'[owner[r]] = "up" =>
           /\ r \in tracked => r \in tracked'
           /\ r \in failures => r \in failures'
           /\ \A w \in Workers : RunOf(w) = r /\ Attends(w) => Attends(w)'
  PROVE  Minds(r)'
<1> SUFFICES ASSUME hpc'[r] = "accepted", Active(r)', status'[owner'[r]] = "up"
             PROVE  Minded(r)'
  BY DEF Minds
<1>1. log'[r] = log[r] /\ Minded(r)
  BY DEF Minds, Active
<1> QED
  BY <1>1 DEF Minded

-------------------------------------------------------------------------------
(* Workers                                                                 *)

\* A worker that holds the lock wrote what it had read, or nothing.
Extends(w) ==
  \/ UNCHANGED log
  \/ /\ log[RunOf(w)] = wseen[w]
     /\ \E e \in Entry :
          /\ log' = [log EXCEPT ![RunOf(w)] = Append(@, e)]
          /\ \/ e.event \in TerminalEvent
             \/ /\ wpc[w] = "claiming" /\ wpc'[w] \in {"generate", "fail"}
                /\ e.event = "running" /\ e.by = w[2]

\* What a step of a worker may do.
WorkerMove(w) ==
  /\ UNCHANGED <<dirs, handler, tracked, startup, status>>
  /\ failures \subseteq failures'
  /\ \A v \in Workers : v # w => wpc'[v] = wpc[v] /\ wseen'[v] = wseen[v]
  /\ wpc[w] \notin {"none", "done", "gone"} /\ wpc'[w] \notin {"none", "queued", "gone"}
  /\ wpc'[w] = "claim" => wpc[w] = "queued"
  /\ \/ ~WorkerHolds(w) /\ ~WorkerHolds(w)' /\ UNCHANGED <<lock, log>>
     \/ /\ ~WorkerHolds(w) /\ WorkerHolds(w)' /\ Lock(owner[RunOf(w)])
        /\ UNCHANGED log /\ wseen'[w] = log[RunOf(w)]
     \/ /\ WorkerHolds(w) /\ ~WorkerHolds(w)' /\ Unlock(owner[RunOf(w)])
        /\ Extends(w)

LEMMA WorkerReadsMove ==
  ASSUME Invariant, NEW w \in Workers, NEW at, NEW event, NEW to, NEW onError,
         WorkerReads(w, at, event, to, onError),
         at \in {"claim", "complete", "owned"},
         to \in {"claiming", "completing", "failing"}, onError \in {"fail", "raised"}
  PROVE  WorkerMove(w)
<1>1. wpc \in [Workers -> WorkerPoint] /\ wseen \in [Workers -> Seq(Entry)]
  BY Parts DEF WorkerType
<1>2. /\ wpc[w] = at
      /\ UNCHANGED <<store, handler, claim, pool, startup, status, crashes>>
  BY DEF WorkerReads
<1>3. CASE /\ Lock(owner[RunOf(w)]) /\ wseen' = [wseen EXCEPT ![w] = log[RunOf(w)]]
           /\ wpc' = [wpc EXCEPT ![w] = to]
  BY <1>1, <1>2, <1>3 DEF WorkerMove, WorkerHolds, store, pool
<1>4. CASE /\ UNCHANGED <<wseen, lock>>
           /\ \E x \in {"returned", "fail", "raised"} : wpc' = [wpc EXCEPT ![w] = x]
  BY <1>1, <1>2, <1>4 DEF WorkerMove, WorkerHolds, store, pool
<1> QED
  BY <1>3, <1>4 DEF WorkerReads, WorkerGoes

LEMMA WorkerWritesMove ==
  ASSUME Invariant, NEW w \in Workers, NEW at, NEW event, NEW report, NEW to, NEW onError,
         WorkerWrites(w, at, event, report, to, onError),
         \/ /\ at = "claiming" /\ event = "running" /\ report = None
            /\ to = "generate" /\ onError = "fail"
         \/ /\ at = "completing" /\ event = "completed" /\ report = w[2]
            /\ to = "returned" /\ onError = "fail"
         \/ /\ at = "failing" /\ event = "failed" /\ report = None
            /\ to = "returned" /\ onError = "raised"
  PROVE  WorkerMove(w)
<1> DEFINE e == NewEntry(event, w[2], wseen[w], report)
<1>1. /\ wpc \in [Workers -> WorkerPoint] /\ wseen[w] \in Seq(Entry) /\ WorkerSound(w)
      /\ RunOf(w) \in Runs /\ w[2] \in Writer /\ w[2] \in Deliveries
      /\ log[RunOf(w)] \in Seq(Entry)
  BY Parts, WorkerTypes DEF WorkerType, WorkerInvariant
<1>2. /\ wpc[w] = at /\ Unlock(owner[RunOf(w)])
      /\ UNCHANGED <<dirs, handler, wseen, pool, startup, status>>
  BY DEF WorkerWrites
<1>3. e \in Entry /\ e.event = event /\ e.by = w[2]
  BY <1>1, NewEntryType DEF Event
<1>4. Publish(RunOf(w), wseen[w], e) =>
        /\ log[RunOf(w)] = wseen[w]
        /\ log' = [log EXCEPT ![RunOf(w)] = Append(@, e)]
  BY <1>1, PrefixEqual DEF Publish, WorkerSound
<1>5. PICK x \in {to, "returned", onError} : wpc' = [wpc EXCEPT ![w] = x]
  BY DEF WorkerWrites, WorkerGoes
<1>6. UNCHANGED log \/ (Publish(RunOf(w), wseen[w], e) /\ x \in {to, onError})
  BY <1>5, <1>1 DEF WorkerWrites, WorkerGoes, Taken, Broken
<1> HIDE DEF e
<1>7. wpc'[w] = x
  BY <1>1, <1>5
<1>8. Extends(w)
  <2>1. CASE Publish(RunOf(w), wseen[w], e) /\ x \in {to, onError}
    BY <1>2, <1>3, <1>4, <1>7, <2>1 DEF Extends, TerminalEvent
  <2> QED
    BY <1>6, <2>1 DEF Extends
<1> QED
  BY <1>1, <1>2, <1>5, <1>8 DEF WorkerMove, WorkerHolds, pool

LEMMA WorkerStepMoves ==
  ASSUME Invariant, NEW w \in Workers, WorkerStep(w)
  PROVE  WorkerMove(w)
<1>1. wpc \in [Workers -> WorkerPoint]
  BY Parts DEF WorkerType
<1>2. CASE WorkerStarts(w)
  BY <1>1, <1>2 DEF WorkerStarts, WorkerGoes, WorkerMove, WorkerHolds, store, pool
<1>3. CASE PhaseEnds(w)
  <2>1. wpc[w] \in {"generate", "judge", "review"}
    BY <1>3 DEF PhaseEnds, Phases, AfterPhase
  <2>2. \E x \in {"generated", "judged", "reviewed", "fail"} : wpc' = [wpc EXCEPT ![w] = x]
    BY <1>3, <2>1 DEF PhaseEnds, AfterPhase, WorkerGoes
  <2> QED
    BY <1>1, <1>3, <2>1, <2>2 DEF PhaseEnds, WorkerMove, WorkerHolds, store, pool
<1>4. CASE CheckClaim(w)
  <2>1. wpc[w] \in {"generated", "judged", "reviewed"}
    BY <1>4 DEF CheckClaim, NextPhase
  <2>2. \E x \in {"judge", "review", "internal", "returned", "fail"} :
          wpc' = [wpc EXCEPT ![w] = x]
    BY <1>4, <2>1 DEF CheckClaim, NextPhase, WorkerGoes
  <2> QED
    BY <1>1, <1>4, <2>1, <2>2 DEF CheckClaim, WorkerMove, WorkerHolds, store, pool
<1>5. CASE WriteInternalReport(w)
  BY <1>1, <1>5 DEF WriteInternalReport, WorkerGoes, WorkerMove, WorkerHolds, pool
<1>6. CASE WritePublicReport(w)
  BY <1>1, <1>6 DEF WritePublicReport, WorkerGoes, WorkerMove, WorkerHolds, pool
<1>7. CASE CheckOwnership(w)
  BY <1>1, <1>7 DEF CheckOwnership, WorkerGoes, WorkerMove, WorkerHolds, store, pool
<1>8. CASE TaskDone(w)
  BY <1>1, <1>8 DEF TaskDone, WorkerGoes, WorkerMove, WorkerHolds, store
<1>9. CASE ReadForClaim(w) \/ ReadForCompleted(w) \/ ReadForFailed(w)
  BY <1>9, WorkerReadsMove DEF ReadForClaim, ReadForCompleted, ReadForFailed
<1>10. CASE WriteClaim(w) \/ WriteCompleted(w) \/ WriteFailed(w)
  BY <1>10, WorkerWritesMove DEF WriteClaim, WriteCompleted, WriteFailed
<1> QED
  BY <1>2, <1>3, <1>4, <1>5, <1>6, <1>7, <1>8, <1>9, <1>10 DEF WorkerStep

\* A worker leaves an active run with its failure on record, or to nobody's harm:
\* the claim it lost is another's.
LEMMA WorkerLeaves ==
  ASSUME Invariant, AttendedInvariant, NEW w \in Workers, WorkerStep(w),
         Attends(w), ~Attends(w)', Active(RunOf(w)), Active(RunOf(w))', RunOf(w) \in tracked,
         LastOf(log[RunOf(w)]).event = "running" => w[2] = LastOf(log[RunOf(w)]).by
  PROVE  RunOf(w) \in failures'
<1> DEFINE r == RunOf(w)
<1>1. /\ wpc \in [Workers -> WorkerPoint] /\ WorkerSound(w) /\ r \in Runs
      /\ log \in [Runs -> Seq(Entry)] /\ wseen[w] \in Seq(Entry)
  BY Parts, WorkerTypes DEF WorkerType, WorkerInvariant, StoreType
<1>2. wpc[w] \notin {"none", "done", "gone", "returned"} /\ wpc'[w] \in {"returned", "done"}
  BY WorkerStepMoves DEF Attends, WorkerMove
<1>3. ~Terminal(r) /\ ~Terminal(r)'
  BY DEF Terminal, Active, HasEvent, TerminalEvent
<1>4. claim[w] # None => ClaimIsCurrent(w) /\ LastOf(log[r]).event = "running"
                         /\ Hash(LastOf(log[r])) = claim[w]
  BY ActiveClaim
<1>5. LastOf(log[r]).event \in {"queued", "running"}
  BY DEF Active, HasEvent
<1>6. ASSUME TaskDone(w) PROVE r \in failures'
  BY <1>2, <1>6 DEF TaskDone, RecordsFailure
<1>7. ASSUME NEW at, NEW event, NEW to, NEW onError, WorkerReads(w, at, event, to, onError),
             to \in {"claiming", "completing", "failing"}, onError \in {"fail", "raised"}
      PROVE  ~Appendable(w, event)
  BY <1>1, <1>2, <1>7 DEF WorkerReads, WorkerGoes
<1>8. ~ReadForClaim(w)
  <2>1. SUFFICES ASSUME ReadForClaim(w) PROVE FALSE
    OBVIOUS
  <2>2. wpc[w] = "claim" /\ ~Appendable(w, "running")
    BY <1>7, <2>1 DEF ReadForClaim, WorkerReads
  <2>3. LastOf(log[r]).event = "running"
    BY <1>3, <1>4, <1>5, <2>2 DEF Appendable, AllowedNext
  <2>4. Len(log[r]) = 3 /\ log[r][3].event = "running" /\ log[r][3].by = w[2]
    BY <1>1, <2>3, ActiveShape
  <2> QED
    BY <2>2, <2>4 DEF AttendedInvariant, RunningSound
<1>9. ~ReadForCompleted(w)
  <2>1. SUFFICES ASSUME ReadForCompleted(w) PROVE FALSE
    OBVIOUS
  <2>2. wpc[w] = "complete" /\ ~Appendable(w, "completed")
    BY <1>7, <2>1 DEF ReadForCompleted, WorkerReads
  <2> QED
    BY <1>1, <1>3, <1>4, <2>2 DEF Appendable, AllowedNext, WorkerSound, Claimed
<1>10. ~ReadForFailed(w)
  <2>1. SUFFICES ASSUME ReadForFailed(w) PROVE FALSE
    OBVIOUS
  <2>2. ~Appendable(w, "failed")
    BY <1>7, <2>1 DEF ReadForFailed
  <2> QED
    BY <1>3, <1>4, <1>5, <2>2 DEF Appendable, AllowedNext
<1>11. ASSUME NEW event, NEW report, NEW to, NEW onError, NEW at,
              WorkerWrites(w, at, event, report, to, onError),
              at \in {"claiming", "completing", "failing"}, event \in Event,
              report \in Deliveries \cup {None},
              to # "returned" \/ event \in TerminalEvent, onError \in {"fail", "raised"},
              to \notin {"done"}
       PROVE  FALSE
  <2> DEFINE e == NewEntry(event, w[2], wseen[w], report)
  <2>1. CASE Taken(r, wseen[w])
    <3>1. wpc[w] = at /\ log[r] # wseen[w]
      BY <1>1, <1>11, <2>1 DEF Taken, WorkerWrites
    <3> QED
      BY <1>3, <1>11, <3>1 DEF AttendedInvariant, RacesSound, WorkerHolds
  <2>2. CASE Publish(r, wseen[w], e) /\ to = "returned"
    <3>1. e \in Entry /\ e.event = event
      BY <1>1, <1>11, NewEntryType, WorkerTypes
    <3> HIDE DEF e
    <3>2. log'[r] = Append(log[r], e)
      BY <1>1, <2>2 DEF Publish
    <3>3. log[r] \in Seq(Entry)
      BY <1>1
    <3>4. LastOf(log'[r]) = e /\ log'[r] # <<>>
      BY <3>1, <3>2, <3>3 DEF LastOf
    <3> QED
      BY <1>3, <1>11, <2>2, <3>1, <3>4 DEF Terminal, HasEvent
  <2>3. \E x \in {to, "returned", onError} : wpc' = [wpc EXCEPT ![w] = x] /\
          ((x = to /\ Publish(r, wseen[w], e)) \/ Taken(r, wseen[w]) \/ x = onError)
    BY <1>11 DEF WorkerWrites, WorkerGoes
  <2> QED
    BY <1>1, <1>2, <1>11, <2>1, <2>2, <2>3
<1>12. ~WriteClaim(w) /\ ~WriteCompleted(w) /\ ~WriteFailed(w)
  BY <1>11, WorkerTypes DEF WriteClaim, WriteCompleted, WriteFailed, Event, TerminalEvent
<1>13. ~CheckClaim(w)
  <2>1. SUFFICES ASSUME CheckClaim(w) PROVE FALSE
    OBVIOUS
  <2>2. wpc[w] \in {"generated", "judged", "reviewed"}
    BY <2>1 DEF CheckClaim, NextPhase
  <2>3. ClaimIsCurrent(w)
    BY <1>1, <1>4, <2>2 DEF WorkerSound, Claimed
  <2>4. \E x \in {"judge", "review", "internal", "fail"} : wpc' = [wpc EXCEPT ![w] = x]
    BY <2>1, <2>2, <2>3 DEF CheckClaim, NextPhase, WorkerGoes
  <2> QED
    BY <1>1, <1>2, <2>4
<1>14. ~CheckOwnership(w)
  BY <1>1, <1>2, <1>4 DEF CheckOwnership, WorkerGoes
<1>15. ~WorkerStarts(w) /\ ~WriteInternalReport(w) /\ ~WritePublicReport(w)
  BY <1>1, <1>2 DEF WorkerStarts, WriteInternalReport, WritePublicReport, WorkerGoes
<1>16. ~PhaseEnds(w)
  <2>1. SUFFICES ASSUME PhaseEnds(w) PROVE FALSE
    OBVIOUS
  <2>2. wpc[w] \in {"generate", "judge", "review"}
    BY <2>1 DEF PhaseEnds, Phases, AfterPhase
  <2>3. \E x \in {"generated", "judged", "reviewed", "fail"} : wpc' = [wpc EXCEPT ![w] = x]
    BY <2>1, <2>2 DEF PhaseEnds, AfterPhase, WorkerGoes
  <2> QED
    BY <1>1, <1>2, <2>3
<1> QED
  BY <1>6, <1>8, <1>9, <1>10, <1>12, <1>13, <1>14, <1>15, <1>16 DEF WorkerStep

LEMMA WorkerStepAttended ==
  ASSUME Invariant, Invariant', AttendedInvariant, NEW w \in Workers, WorkerStep(w), Effect
  PROVE  AttendedInvariant'
<1> DEFINE r == RunOf(w)
           p == owner[r]
<1>1. /\ LockSound /\ RacesSound /\ RunningSound /\ AttendedSound /\ VisitSound
      /\ WorkerMove(w) /\ r \in Runs
  BY WorkerStepMoves, WorkerTypes DEF AttendedInvariant
<1>2. /\ UNCHANGED <<dirs, owner, hpc, hseen, tracked, todo, swept, status>>
      /\ \A v \in Workers : v # w => wpc'[v] = wpc[v] /\ wseen'[v] = wseen[v]
  BY <1>1 DEF WorkerMove, handler, startup
<1>3. /\ \A q \in Runs : HandlerHolds(q)' <=> HandlerHolds(q)
      /\ \A v \in Workers : v # w => (WorkerHolds(v)' <=> WorkerHolds(v))
  BY <1>2 DEF HandlerHolds, WorkerHolds
<1>4. lock \in [Procs -> BOOLEAN] /\ log \in [Runs -> Seq(Entry)]
      /\ (WorkerHolds(w) \/ WorkerHolds(w)' => p \in Procs)
  <2>1. WorkerHolds(w)' => p \in Procs
    <3>1. wpc[w] # "none"
      BY <1>1 DEF WorkerMove
    <3>2. hpc[r] \notin BeforeDispatch
      BY <1>1, <3>1, Parts DEF HandlerInvariant, HandlerSound
    <3> QED
      BY <1>1, <3>2, Parts DEF HandlerInvariant, HandlerSound, BeforeDispatch
  <2> QED
    BY <2>1, HolderFacts, Parts DEF ProcessType, StoreType
<1> HIDE DEF r, p
<1>5. LockSound'
  <2>1. CASE ~WorkerHolds(w)' /\ (UNCHANGED lock \/ (WorkerHolds(w) /\ Unlock(p)))
    <3>1. ASSUME NEW q \in Runs, HandlerHolds(q)' PROVE lock'[owner[q]] = lock[owner[q]]
      BY <1>1, <1>3, <1>4, <2>1, <3>1, HolderFacts DEF LockSound, Unlock, r, p
    <3>2. ASSUME NEW v \in Workers, WorkerHolds(v)', v # w
          PROVE  lock'[owner[RunOf(v)]] = lock[owner[RunOf(v)]]
      BY <1>1, <1>3, <1>4, <2>1, <3>2, HolderFacts DEF LockSound, Unlock, r, p
    <3> QED
      BY <1>1, <1>2, <1>3, <2>1, <3>1, <3>2, LockKept
  <2>2. CASE ~WorkerHolds(w) /\ WorkerHolds(w)' /\ Lock(p)
    <3>1. /\ ~lock[p] /\ lock'[p] /\ owner'[RunOf(w)] = p
          /\ \A o \in Procs : o # p => lock'[o] = lock[o]
      BY <1>2, <1>4, <2>2 DEF Lock, r, p
    <3> QED
      BY <1>1, <1>2, <1>3, <3>1, WorkerLocks, HolderFacts
  <2> QED
    BY <1>1, <2>1, <2>2 DEF WorkerMove, r, p
<1>6. ASSUME NEW q \in Runs, log'[q] # log[q]
      PROVE  /\ q = r /\ WorkerHolds(w) /\ ~WorkerHolds(w)'
             /\ \E e \in Entry : /\ log'[q] = Append(log[q], e)
                                 /\ \/ e.event \in TerminalEvent /\ Terminal(q)'
                                    \/ /\ wpc'[w] \in {"generate", "fail"}
                                       /\ e.event = "running" /\ e.by = w[2]
  <2>1. WorkerHolds(w) /\ ~WorkerHolds(w)' /\ Extends(w)
    BY <1>1, <1>6 DEF WorkerMove
  <2>2. PICK e \in Entry :
          /\ log' = [log EXCEPT ![r] = Append(@, e)]
          /\ \/ e.event \in TerminalEvent
             \/ /\ wpc'[w] \in {"generate", "fail"}
                /\ e.event = "running" /\ e.by = w[2]
    BY <1>6, <2>1 DEF Extends, r
  <2>3. q = r /\ log'[q] = Append(log[q], e) /\ log[q] \in Seq(Entry)
    BY <1>4, <1>6, <2>2
  <2>4. LastOf(log'[q]) = e /\ log'[q] # <<>>
    BY <2>3 DEF LastOf
  <2> QED
    BY <2>1, <2>2, <2>3, <2>4 DEF Terminal, HasEvent
<1>7. RacesSound'
  <2>1. ASSUME NEW v \in Workers, WorkerHolds(v)'
        PROVE  \/ wseen'[v] = log'[RunOf(v)]
               \/ /\ WorkerHolds(v) /\ wseen'[v] = wseen[v]
                  /\ log'[RunOf(v)] = log[RunOf(v)] \/ Terminal(RunOf(v))'
    <3>1. CASE v = w
      BY <1>1, <2>1, <3>1 DEF WorkerMove
    <3>2. CASE v # w
      <4>1. WorkerHolds(v) /\ wseen'[v] = wseen[v] /\ RunOf(v) \in Runs
        BY <1>2, <1>3, <2>1, <3>2, WorkerTypes
      <4>2. log'[RunOf(v)] = log[RunOf(v)]
        BY <1>1, <1>6, <3>2, <4>1 DEF LockSound, r
      <4> QED
        BY <4>1, <4>2
    <3> QED
      BY <3>1, <3>2
  <2>2. ASSUME NEW q \in Runs, hpc'[q] = "failing"
        PROVE  hpc[q] = "failing" /\ hseen'[q] = hseen[q] /\ log'[q] = log[q]
    <3>1. hpc[q] = "failing" /\ hseen'[q] = hseen[q] /\ HandlerHolds(q)
      BY <1>2, <2>2 DEF HandlerHolds
    <3> QED
      BY <1>1, <1>6, <3>1 DEF LockSound, r
  <2> QED
    BY <1>1, <2>1, <2>2, RacesKept
<1>8. RunningSound'
  <2>1. \A v \in Workers : wpc'[v] \in {"none", "queued", "claim"} =>
                             wpc[v] \in {"none", "queued", "claim"}
    BY <1>1 DEF WorkerMove
  <2>2. ASSUME NEW v \in Workers, log'[RunOf(v)] # log[RunOf(v)]
        PROVE  /\ log[RunOf(v)] \in Seq(Entry)
               /\ \E e \in Entry :
                    /\ log'[RunOf(v)] = Append(log[RunOf(v)], e)
                    /\ e.event = "running" /\ e.by = v[2] =>
                         wpc'[v] \notin {"none", "queued", "claim"}
    <3>1. RunOf(v) \in Runs
      BY WorkerTypes
    <3>2. PICK e \in Entry :
            /\ RunOf(v) = r /\ log'[RunOf(v)] = Append(log[RunOf(v)], e)
            /\ \/ e.event \in TerminalEvent
               \/ wpc'[w] \in {"generate", "fail"} /\ e.event = "running" /\ e.by = w[2]
      BY <1>6, <2>2, <3>1
    <3>3. ASSUME e.event = "running", e.by = v[2]
          PROVE  wpc'[v] \notin {"none", "queued", "claim"}
      <4>1. v[2] = w[2] /\ wpc'[w] \in {"generate", "fail"}
        BY <3>2, <3>3 DEF TerminalEvent
      <4>2. v = w
        BY <3>2, <4>1, SameWorker DEF r
      <4> QED
        BY <4>1, <4>2
    <3> QED
      BY <1>4, <3>1, <3>2, <3>3
  <2> QED
    BY <1>1, <2>1, <2>2, RunningKept
<1>9. AttendedSound'
  <2> SUFFICES ASSUME NEW q \in Runs, hpc'[q] = "accepted", Active(q)', status'[owner'[q]] = "up"
               PROVE  Minded(q)'
    BY DEF AttendedSound
  <2>1. hpc[q] = "accepted" /\ status[owner[q]] = "up" /\ Len(log[q]) >= 2
    BY <1>2, Parts DEF HandlerInvariant, HandlerSound
  <2>2. Active(q)
    BY <2>1, ActiveBefore
  <2>3. Minded(q)
    BY <1>1, <2>1, <2>2 DEF AttendedSound
  <2>4. q \in tracked' /\ failures \subseteq failures'
    BY <1>1, <1>2, <2>3 DEF Minded, WorkerMove
  <2>5. CASE q \in failures
    BY <2>4, <2>5 DEF Minded
  <2>6. CASE log'[q] # log[q]
    <3>1. PICK e \in Entry :
            /\ q = r /\ log'[q] = Append(log[q], e)
            /\ \/ e.event \in TerminalEvent /\ Terminal(q)'
               \/ wpc'[w] \in {"generate", "fail"} /\ e.event = "running" /\ e.by = w[2]
      BY <1>6, <2>6
    <3>2. e.event \notin TerminalEvent
      BY <3>1 DEF Terminal, Active, HasEvent, TerminalEvent
    <3>3. LastOf(log'[q]) = e
      BY <1>4, <3>1 DEF LastOf
    <3>4. RunOf(w) = q /\ Attends(w)' /\ w[2] = LastOf(log'[q]).by
      BY <3>1, <3>2, <3>3 DEF Attends, r
    <3> QED
      BY <2>4, <3>4 DEF Minded
  <2>7. CASE q \notin failures /\ log'[q] = log[q]
    <3>1. PICK v \in Workers :
            /\ RunOf(v) = q /\ Attends(v)
            /\ LastOf(log[q]).event = "running" => v[2] = LastOf(log[q]).by
      BY <2>3, <2>7 DEF Minded
    <3>2. CASE Attends(v)'
      BY <2>4, <2>7, <3>1, <3>2 DEF Minded
    <3>3. CASE ~Attends(v)'
      <4>1. v = w
        BY <1>2, <3>1, <3>3 DEF Attends
      <4>2. q \in failures'
        BY <2>2, <2>3, <3>1, <3>3, <4>1, WorkerLeaves DEF Minded
      <4> QED
        BY <2>4, <4>2 DEF Minded
    <3> QED
      BY <3>2, <3>3
  <2> QED
    BY <2>5, <2>6, <2>7
<1>10. VisitSound'
  BY <1>1, <1>2 DEF VisitSound
<1> QED
  BY <1>5, <1>7, <1>8, <1>9, <1>10 DEF AttendedInvariant

-------------------------------------------------------------------------------
(* Handlers                                                                *)

\* What a step of a handler may do.
HandlerMove(r) ==
  /\ UNCHANGED <<owner, startup, status, failures, wseen>>
  /\ dirs \subseteq dirs' /\ tracked \subseteq tracked'
  /\ \A q \in Runs : q # r => hpc'[q] = hpc[q] /\ hseen'[q] = hseen[q]
  /\ hpc[r] \notin Answered \cup {"gone"} /\ hpc'[r] \notin {"idle", "mkdir", "gone"}
  /\ hpc[r] = "mkdir" /\ hpc'[r] # "error" => r \in dirs'
  /\ \A w \in Workers :
       wpc'[w] = wpc[w] \/ (RunOf(w) = r /\ wpc[w] = "none" /\ wpc'[w] = "queued")
                        \/ (hpc[r] = "dispatch" /\ RunOf(w) = r /\ wpc'[w] = "queued")
  /\ \/ ~HandlerHolds(r) /\ ~HandlerHolds(r)' /\ UNCHANGED <<lock, log>>
     \/ HandlerHolds(r) /\ HandlerHolds(r)' /\ UNCHANGED lock /\ hpc'[r] # "failing"
     \/ /\ ~HandlerHolds(r) /\ HandlerHolds(r)' /\ Lock(owner[r])
        /\ UNCHANGED log /\ hseen'[r] = log[r]
     \/ HandlerHolds(r) /\ ~HandlerHolds(r)' /\ Unlock(owner[r])
  /\ \/ UNCHANGED log
     \/ \E e : /\ log' = [log EXCEPT ![r] = Append(@, e)] /\ e \in Entry
               /\ e.event # "running"
               /\ hpc[r] = "failing" => e.event = "failed"
  /\ hpc'[r] = "accepted" =>
       \/ hpc[r] = "failing" /\ (UNCHANGED log => Taken(r, hseen[r]))
       \/ /\ hpc[r] = "dispatch" /\ r \in tracked' /\ UNCHANGED log
          /\ \A w \in Workers : RunOf(w) = r => wpc'[w] = "queued"

LEMMA HandlerStepMoves ==
  ASSUME Invariant, NEW r \in Runs, HandlerStep(r)
  PROVE  HandlerMove(r)
<1>1. /\ hpc \in [Runs -> HandlerPoint] /\ hseen \in [Runs -> Seq(Entry)]
      /\ wpc \in [Workers -> WorkerPoint] /\ log \in [Runs -> Seq(Entry)]
  BY Parts DEF HandlerType, WorkerType, StoreType
<1>2. CASE MakeRunDirectory(r)
  BY <1>1, <1>2 DEF MakeRunDirectory, Create, CreateBroken, HandlerGoes, HandlerRaises,
     HandlerMove, HandlerHolds, Answered, worker, pool
<1>3. CASE WriteRequest(r)
  BY <1>1, <1>3 DEF WriteRequest, HandlerGoes, HandlerRaises, HandlerMove, HandlerHolds,
     Answered, worker, pool
<1>4. ASSUME NEW at, NEW event \in {"request", "queued"}, NEW to, HandlerWrites(r, at, event, to),
             (at = "first" /\ to = "second") \/ (at = "second" /\ to = "index")
      PROVE  HandlerMove(r)
  <2> DEFINE e == NewEntry(event, "handler", hseen[r], None)
  <2>1. e \in Entry /\ e.event = event
    BY <1>1, NewEntryType DEF Writer, Event
  <2> HIDE DEF e
  <2>2. UNCHANGED log \/ log' = [log EXCEPT ![r] = Append(@, e)]
    BY <1>4 DEF HandlerWrites, Publish, Taken, Broken, e
  <2>3. hpc[r] = at /\ UNCHANGED <<dirs, owner, worker, pool, startup, status>>
    BY <1>4 DEF HandlerWrites
  <2>4. CASE hpc' = [hpc EXCEPT ![r] = to] /\ hseen' = [hseen EXCEPT ![r] = Append(@, e)]
             /\ UNCHANGED lock
    BY <1>1, <1>4, <2>1, <2>2, <2>3, <2>4
    DEF HandlerMove, HandlerHolds, Answered, worker, pool
  <2>5. CASE HandlerRaises(r) /\ UNCHANGED hseen
    BY <1>1, <1>4, <2>1, <2>2, <2>3, <2>5
    DEF HandlerMove, HandlerHolds, HandlerRaises, HandlerGoes, Answered, worker, pool
  <2> QED
    BY <1>4, <2>4, <2>5 DEF HandlerWrites, HandlerGoes, e
<1>5. CASE WriteFirstTransition(r) \/ WriteQueuedTransition(r)
  BY <1>4, <1>5 DEF WriteFirstTransition, WriteQueuedTransition
<1>6. CASE WriteIndex(r)
  BY <1>1, <1>6 DEF WriteIndex, HandlerGoes, HandlerRaises, HandlerMove, HandlerHolds,
     Answered, worker, pool
<1>7. CASE Dispatch(r)
  <2>1. hpc[r] = "dispatch" /\ wpc' \in {wpc, Enqueued(r)}
    BY <1>7 DEF Dispatch
  <2>2. \A w \in Workers : Enqueued(r)[w] = IF RunOf(w) = r THEN "queued" ELSE wpc[w]
    BY DEF Enqueued
  <2>3. CASE wpc' = Enqueued(r) /\ tracked' = tracked \cup {r} /\ HandlerGoes(r, "accepted")
    BY <1>1, <1>7, <2>1, <2>2, <2>3 DEF Dispatch, HandlerGoes, HandlerMove, HandlerHolds,
       Answered, store
  <2>4. CASE HandlerGoes(r, "rejected") /\ UNCHANGED tracked
    BY <1>1, <1>7, <2>1, <2>2, <2>4 DEF Dispatch, HandlerGoes, HandlerMove, HandlerHolds,
       Answered, store
  <2> QED
    BY <1>7, <2>3, <2>4 DEF Dispatch
<1>8. CASE HandlerReadsHistory(r)
  BY <1>1, <1>8 DEF HandlerReadsHistory, HandlerGoes, HandlerMove, HandlerHolds,
     Answered, store, worker, pool
<1>9. CASE HandlerWritesFailure(r)
  <2> DEFINE e == NewEntry("failed", "handler", hseen[r], None)
  <2>1. e \in Entry /\ e.event = "failed"
    BY <1>1, NewEntryType DEF Writer, Event
  <2> HIDE DEF e
  <2>2. /\ hpc[r] = "failing" /\ Unlock(owner[r])
        /\ UNCHANGED <<dirs, owner, hseen, worker, pool, startup, status>>
        /\ \/ HandlerGoes(r, "accepted") /\ (Publish(r, hseen[r], e) \/ Taken(r, hseen[r]))
           \/ HandlerGoes(r, "error") /\ (Publish(r, hseen[r], e) \/ UNCHANGED log)
    BY <1>9 DEF HandlerWritesFailure, Broken, e
  <2>3. Taken(r, hseen[r]) => UNCHANGED log
    BY DEF Taken
  <2>4. Publish(r, hseen[r], e) => log' = [log EXCEPT ![r] = Append(@, e)] /\ ~UNCHANGED log
    <3>1. SUFFICES ASSUME Publish(r, hseen[r], e)
                   PROVE  log' = [log EXCEPT ![r] = Append(@, e)] /\ ~UNCHANGED log
      OBVIOUS
    <3>2. log' = [log EXCEPT ![r] = Append(@, e)]
      BY <3>1 DEF Publish
    <3>3. Len(log'[r]) = Len(log[r]) + 1 /\ Len(log[r]) \in Nat
      BY <1>1, <2>1, <3>2
    <3>4. log'[r] # log[r]
      BY <3>3
    <3> QED
      BY <3>2, <3>4
  <2>5. CASE HandlerGoes(r, "accepted") /\ (Publish(r, hseen[r], e) \/ Taken(r, hseen[r]))
    BY <1>1, <2>1, <2>2, <2>3, <2>4, <2>5
    DEF HandlerGoes, HandlerMove, HandlerHolds, Answered, worker, pool
  <2>6. CASE HandlerGoes(r, "error") /\ (Publish(r, hseen[r], e) \/ UNCHANGED log)
    BY <1>1, <2>1, <2>2, <2>4, <2>6
    DEF HandlerGoes, HandlerMove, HandlerHolds, Answered, worker, pool
  <2> QED
    BY <2>2, <2>5, <2>6
<1> QED
  BY <1>2, <1>3, <1>5, <1>6, <1>7, <1>8, <1>9 DEF HandlerStep

LEMMA HandlerStepAttended ==
  ASSUME Invariant, Invariant', AttendedInvariant, Effect, NEW r \in Runs, HandlerStep(r)
  PROVE  AttendedInvariant'
<1> DEFINE p == owner[r]
<1>1. /\ LockSound /\ RacesSound /\ RunningSound /\ AttendedSound /\ VisitSound
      /\ HandlerMove(r) /\ HandlerSound(r)
  BY HandlerStepMoves, Parts DEF AttendedInvariant, HandlerInvariant
<1>2. /\ UNCHANGED <<owner, todo, swept, status, failures, wseen>>
      /\ dirs \subseteq dirs' /\ tracked \subseteq tracked'
      /\ \A q \in Runs : q # r => hpc'[q] = hpc[q] /\ hseen'[q] = hseen[q]
  BY <1>1 DEF HandlerMove, startup
<1>3. \A w \in Workers :
        wpc'[w] = wpc[w] \/ (RunOf(w) = r /\ wpc[w] = "none" /\ wpc'[w] = "queued")
  BY <1>1 DEF HandlerMove, HandlerSound, BeforeDispatch
<1>4. /\ \A q \in Runs : q # r => (HandlerHolds(q)' <=> HandlerHolds(q))
      /\ \A w \in Workers : WorkerHolds(w)' <=> WorkerHolds(w)
      /\ \A w \in Workers : Attends(w) => Attends(w)'
  BY <1>2, <1>3 DEF HandlerHolds, WorkerHolds, Attends
<1>5. p \in Procs /\ lock \in [Procs -> BOOLEAN] /\ log \in [Runs -> Seq(Entry)]
  BY <1>1, Parts DEF HandlerMove, HandlerSound, Answered, ProcessType, StoreType
<1> HIDE DEF p
<1>6. LockSound'
  <2>1. CASE UNCHANGED lock /\ (HandlerHolds(r)' => HandlerHolds(r))
    BY <1>1, <1>2, <1>4, <2>1, LockKept
  <2>2. CASE ~HandlerHolds(r) /\ HandlerHolds(r)' /\ Lock(p)
    <3>1. /\ ~lock[p] /\ lock'[p] /\ owner'[r] = p
          /\ \A o \in Procs : o # p => lock'[o] = lock[o]
      BY <1>2, <1>5, <2>2 DEF Lock, p
    <3> QED
      BY <1>1, <1>2, <1>4, <3>1, HandlerLocks, HolderFacts
  <2>3. CASE HandlerHolds(r) /\ ~HandlerHolds(r)' /\ Unlock(p)
    <3>1. ASSUME NEW q \in Runs, HandlerHolds(q)' PROVE lock'[owner[q]] = lock[owner[q]]
      BY <1>1, <1>4, <1>5, <2>3, <3>1, HolderFacts DEF LockSound, Unlock, p
    <3>2. ASSUME NEW w \in Workers, WorkerHolds(w)'
          PROVE  lock'[owner[RunOf(w)]] = lock[owner[RunOf(w)]]
      BY <1>1, <1>4, <1>5, <2>3, <3>2, HolderFacts DEF LockSound, Unlock, p
    <3> QED
      BY <1>1, <1>2, <1>4, <2>3, <3>1, <3>2, LockKept
  <2> QED
    BY <1>1, <2>1, <2>2, <2>3 DEF HandlerMove, p
<1>7. ASSUME NEW q \in Runs, log'[q] # log[q]
      PROVE  /\ q = r /\ HandlerHolds(r)
             /\ \E e \in Entry : /\ log'[q] = Append(log[q], e) /\ e.event # "running"
                                 /\ hpc[r] = "failing" => e.event = "failed"
  <2>1. HandlerHolds(r)
    BY <1>1, <1>7 DEF HandlerMove
  <2>2. PICK e \in Entry : /\ log' = [log EXCEPT ![r] = Append(@, e)]
                           /\ e.event # "running"
                           /\ hpc[r] = "failing" => e.event = "failed"
    BY <1>1, <1>7 DEF HandlerMove
  <2>3. q = r /\ log'[q] = Append(log[q], e)
    BY <1>5, <1>7, <2>2
  <2> QED
    BY <2>1, <2>2, <2>3
<1>8. RacesSound'
  <2>1. ASSUME NEW w \in Workers, WorkerHolds(w)'
        PROVE  WorkerHolds(w) /\ wseen'[w] = wseen[w] /\ log'[RunOf(w)] = log[RunOf(w)]
    BY <1>1, <1>2, <1>4, <1>7, <2>1, WorkerTypes DEF LockSound
  <2>2. ASSUME NEW q \in Runs, hpc'[q] = "failing"
        PROVE  \/ hseen'[q] = log'[q]
               \/ hpc[q] = "failing" /\ hseen'[q] = hseen[q] /\ log'[q] = log[q]
    <3>1. CASE q = r
      BY <1>1, <2>2, <3>1 DEF HandlerMove, HandlerHolds
    <3>2. CASE q # r
      BY <1>2, <1>7, <2>2, <3>2
    <3> QED
      BY <3>1, <3>2
  <2> QED
    BY <1>1, <2>1, <2>2, RacesKept
<1>9. RunningSound'
  <2>1. \A w \in Workers : wpc'[w] \in {"none", "queued", "claim"} =>
                             wpc[w] \in {"none", "queued", "claim"}
    BY <1>3
  <2>2. ASSUME NEW w \in Workers, log'[RunOf(w)] # log[RunOf(w)]
        PROVE  /\ log[RunOf(w)] \in Seq(Entry)
               /\ \E e \in Entry : log'[RunOf(w)] = Append(log[RunOf(w)], e) /\ e.event # "running"
    BY <1>5, <1>7, <2>2, WorkerTypes
  <2> QED
    BY <1>1, <2>1, <2>2, RunningKept
<1>10. AttendedSound'
  <2> SUFFICES ASSUME NEW q \in Runs PROVE Minds(q)'
    BY DEF AttendedSound, Minds
  <2>1. CASE q # r
    <3>1. Minds(q) /\ hpc'[q] = hpc[q] /\ log'[q] = log[q]
      BY <1>1, <1>2, <1>7, <2>1 DEF AttendedSound, Minds
    <3> QED
      BY <1>2, <1>4, <3>1, MindedKept
  <2>2. CASE q = r
    <3> SUFFICES ASSUME hpc'[r] = "accepted", Active(r)' PROVE Minded(r)'
      BY <2>2 DEF Minds
    <3>1. CASE hpc[r] = "failing" /\ (UNCHANGED log => Taken(r, hseen[r]))
      <4>1. CASE UNCHANGED log
        <5>1. Len(log[r]) > Len(hseen[r])
          BY <3>1, <4>1 DEF Taken
        <5>2. log[r] # hseen[r]
          BY <5>1, <1>5, Parts DEF HandlerType
        <5>3. Terminal(r)
          BY <1>1, <3>1, <5>2 DEF RacesSound
        <5> QED
          BY <4>1, <5>3 DEF Terminal, Active, HasEvent, TerminalEvent
      <4>2. CASE ~UNCHANGED log
        <5>1. PICK e \in Entry : log' = [log EXCEPT ![r] = Append(@, e)] /\ e.event = "failed"
          BY <1>1, <3>1, <4>2 DEF HandlerMove
        <5>2. log'[r] = Append(log[r], e) /\ log[r] \in Seq(Entry)
          BY <1>5, <5>1
        <5>3. LastOf(log'[r]) = e
          BY <5>2 DEF LastOf
        <5> QED
          BY <5>1, <5>3 DEF Active, HasEvent
      <4> QED
        BY <4>1, <4>2
    <3>2. CASE /\ hpc[r] = "dispatch" /\ r \in tracked' /\ UNCHANGED log
               /\ \A w \in Workers : RunOf(w) = r => wpc'[w] = "queued"
      <4>1. Active(r) /\ \A w \in Workers : RunOf(w) = r => wpc[w] = "none"
        BY <1>1, <3>2 DEF Active, HandlerSound, BeforeDispatch
      <4>2. LastOf(log[r]).event # "running"
        <5>1. SUFFICES ASSUME LastOf(log[r]).event = "running" PROVE FALSE
          OBVIOUS
        <5>2. /\ Len(log[r]) = 3 /\ log[r][3].event = "running"
              /\ log[r][3].by \in Deliveries
          BY <4>1, <5>1, ActiveShape
        <5> DEFINE w == <<r, log[r][3].by>>
        <5>3. w \in Workers /\ RunOf(w) = r /\ w[2] = log[r][3].by
          BY <5>2 DEF Workers, RunOf
        <5> HIDE DEF w
        <5> QED
          BY <1>1, <4>1, <5>2, <5>3 DEF RunningSound
      <4>3. PICK d \in Deliveries : TRUE
        BY RunServiceAssumption
      <4> DEFINE w == <<r, d>>
      <4>4. w \in Workers /\ RunOf(w) = r
        BY DEF Workers, RunOf
      <4> HIDE DEF w
      <4>5. Attends(w)' /\ LastOf(log'[r]).event # "running"
        BY <3>2, <4>2, <4>4 DEF Attends
      <4> QED
        BY <3>2, <4>4, <4>5 DEF Minded
    <3> QED
      BY <1>1, <3>1, <3>2 DEF HandlerMove
  <2> QED
    BY <2>1, <2>2
<1>11. VisitSound'
  <2>1. ASSUME NEW q \in Runs, hpc'[q] \notin {"idle", "mkdir", "error", "gone"}
        PROVE  q \in dirs'
    <3>1. CASE q = r /\ hpc[r] = "mkdir"
      BY <1>1, <2>1, <3>1 DEF HandlerMove
    <3>2. CASE q = r /\ hpc[r] # "mkdir"
      BY <1>1, <1>2, <3>2 DEF HandlerMove, Answered, VisitSound
    <3>3. CASE q # r
      BY <1>1, <1>2, <2>1, <3>3 DEF VisitSound
    <3> QED
      BY <3>1, <3>2, <3>3
  <2>2. ASSUME NEW o \in Procs, NEW q \in Runs,
               status'[o] = "starting", hpc'[q] = "accepted", owner'[q] = o
        PROVE  q \in todo'[o] \cup swept'[o]
    <3>1. status[o] = "starting" /\ owner[q] = o
      BY <1>2, <2>2
    <3>2. q # r
      BY <1>1, <3>1, Parts DEF StartupInvariant, StartupSound, HandlerMove
    <3> QED
      BY <1>1, <1>2, <2>2, <3>1, <3>2 DEF VisitSound
  <2> QED
    BY <2>1, <2>2 DEF VisitSound
<1> QED
  BY <1>6, <1>8, <1>9, <1>10, <1>11 DEF AttendedInvariant

LEMMA SubmitAttended ==
  ASSUME Invariant, Invariant', AttendedInvariant, Effect,
         NEW p \in Procs, NEW r \in Runs, Submit(p, r)
  PROVE  AttendedInvariant'
<1>1. /\ LockSound /\ RacesSound /\ RunningSound /\ AttendedSound /\ VisitSound
      /\ HandlerSound(r) /\ lock \in [Procs -> BOOLEAN]
      /\ owner \in [Runs -> Procs \cup {None}] /\ hpc \in [Runs -> HandlerPoint]
  BY Parts DEF AttendedInvariant, HandlerInvariant, ProcessType, HandlerType
<1>2. /\ hpc[r] = "idle" /\ ~lock[p] /\ lock' = [lock EXCEPT ![p] = TRUE]
      /\ owner' = [owner EXCEPT ![r] = p] /\ hpc' = [hpc EXCEPT ![r] = "mkdir"]
      /\ UNCHANGED <<dirs, log, hseen, wpc, wseen, tracked, failures, todo, swept, status>>
  BY DEF Submit, Lock, HandlerGoes, store, worker, pool, startup
<1>3. /\ hpc'[r] = "mkdir" /\ owner'[r] = p /\ lock'[p]
      /\ \A q \in Runs : q # r => hpc'[q] = hpc[q] /\ owner'[q] = owner[q]
      /\ \A o \in Procs : o # p => lock'[o] = lock[o]
  BY <1>1, <1>2
<1>4. \A w \in Workers : WorkerHolds(w)' => WorkerHolds(w) /\ RunOf(w) # r
  BY <1>1, <1>2 DEF WorkerHolds, HandlerSound, BeforeDispatch
<1>5. LockSound'
  <2>1. \A q \in Runs \ {r} : HandlerHolds(q)' => HandlerHolds(q)
    BY <1>3 DEF HandlerHolds
  <2>2. ASSUME NEW q \in Runs \ {r}, HandlerHolds(q)'
        PROVE  /\ HandlerHolds(q) /\ owner'[q] = owner[q]
               /\ owner[q] # p => lock'[owner[q]] = lock[owner[q]]
    BY <1>3, <2>1, <2>2, HolderFacts
  <2>3. ASSUME NEW w \in Workers, WorkerHolds(w)'
        PROVE  /\ WorkerHolds(w) /\ owner'[RunOf(w)] = owner[RunOf(w)]
               /\ owner[RunOf(w)] # p => lock'[owner[RunOf(w)]] = lock[owner[RunOf(w)]]
    BY <1>3, <1>4, <2>3, HolderFacts, WorkerTypes
  <2>4. LockSound /\ ~lock[p] /\ owner'[r] = p /\ lock'[p]
    BY <1>1, <1>2, <1>3
  <2> QED
    BY <2>2, <2>3, <2>4, HandlerLocks
<1>6. RacesSound'
  BY <1>1, <1>2, <1>3, <1>4, RacesKept
<1>7. RunningSound'
  BY <1>1, <1>2, RunningKept
<1>8. AttendedSound'
  <2> SUFFICES ASSUME NEW q \in Runs PROVE Minds(q)'
    BY DEF AttendedSound, Minds
  <2>1. CASE q = r
    BY <1>3, <2>1 DEF Minds
  <2>2. CASE q # r
    <3>1. Minds(q) /\ hpc'[q] = hpc[q] /\ owner'[q] = owner[q]
      BY <1>1, <1>3, <2>2 DEF AttendedSound, Minds
    <3>2. \A w \in Workers : Attends(w) => Attends(w)'
      BY <1>2 DEF Attends
    <3> QED
      BY <1>2, <3>1, <3>2, MindedKept
  <2> QED
    BY <2>1, <2>2
<1>9. VisitSound'
  <2>1. \A q \in Runs : hpc'[q] \notin {"idle", "mkdir", "error", "gone"} => q \in dirs'
    BY <1>1, <1>2, <1>3 DEF VisitSound
  <2>2. ASSUME NEW o \in Procs, NEW q \in Runs,
               status'[o] = "starting", hpc'[q] = "accepted", owner'[q] = o
        PROVE  q \in todo'[o] \cup swept'[o]
    <3>1. q # r
      BY <1>3, <2>2
    <3> QED
      BY <1>1, <1>2, <1>3, <2>2, <3>1 DEF VisitSound
  <2> QED
    BY <2>1, <2>2 DEF VisitSound
<1> QED
  BY <1>5, <1>6, <1>7, <1>8, <1>9 DEF AttendedInvariant

-------------------------------------------------------------------------------
(* Startups and crashes                                                    *)

\* What a step of a startup may do.
StartupMove(p) ==
  /\ UNCHANGED <<dirs, handler, worker, pool>>
  /\ status[p] # "up"
  /\ \A o \in Procs : o # p => /\ status'[o] = status[o] /\ lock'[o] = lock[o]
                              /\ todo'[o] = todo[o] /\ swept'[o] = swept[o]
  /\ status'[p] = "starting" =>
       \/ dirs \subseteq todo'[p]
       \/ status[p] = "starting" /\ todo[p] \cup swept[p] \subseteq todo'[p] \cup swept'[p]
  /\ status'[p] = "up" => status[p] = "starting" /\ todo[p] = {} /\ UNCHANGED log
  /\ \/ UNCHANGED log
     \/ \E e \in Entry :
          /\ rrun[p] \in Runs /\ log' = [log EXCEPT ![rrun[p]] = Append(@, e)]
          /\ e.event # "running"
          /\ Len(log[rrun[p]]) >= 2 => e.event \in TerminalEvent

LEMMA StartupStepMoves ==
  ASSUME Invariant, NEW p \in Procs, Start(p) \/ StartupStep(p)
  PROVE  StartupMove(p)
<1>1. ProcessType /\ StoreType /\ StartupSound(p)
  BY Parts DEF StartupInvariant
<1>2. CASE Start(p)
  BY <1>1, <1>2 DEF Start, Lock, StartupMove, ProcessType, store
<1>3. ASSUME Forget(p), UNCHANGED <<dirs, handler, worker, pool>>, status[p] # "up",
             \/ UNCHANGED log
             \/ \E e \in Entry :
                  /\ rrun[p] \in Runs /\ log' = [log EXCEPT ![rrun[p]] = Append(@, e)]
                  /\ e.event # "running"
                  /\ Len(log[rrun[p]]) >= 2 => e.event \in TerminalEvent
      PROVE  StartupMove(p)
  BY <1>1, <1>3 DEF Forget, Unlock, StartupMove, ProcessType
<1>4. ASSUME NEW r \in Runs, OpenRun(p, r) PROVE StartupMove(p)
  <2>1. status[p] = "starting" /\ UNCHANGED <<dirs, log, handler, worker, pool>>
    BY <1>1, <1>4 DEF OpenRun, StartupSound, store
  <2>2. CASE UNCHANGED <<todo, swept, status, lock>>
    BY <2>1, <2>2 DEF StartupMove
  <2> QED
    BY <1>3, <1>4, <2>1, <2>2 DEF OpenRun
<1>5. ASSUME Advance(p), UNCHANGED <<dirs, handler, worker, pool>>, status[p] = "starting",
             \/ UNCHANGED log
             \/ \E e \in Entry :
                  /\ rrun[p] \in Runs /\ log' = [log EXCEPT ![rrun[p]] = Append(@, e)]
                  /\ e.event # "running"
                  /\ Len(log[rrun[p]]) >= 2 => e.event \in TerminalEvent
      PROVE  StartupMove(p)
  BY <1>1, <1>5 DEF Advance, StartupMove, ProcessType
<1>6. CASE ReadRun(p)
  <2>1. status[p] = "starting" /\ UNCHANGED <<dirs, log, handler, worker, pool>>
    BY <1>1, <1>6 DEF ReadRun, StartupSound, store
  <2>2. CASE UNCHANGED <<todo, swept, status, lock>>
    BY <2>1, <2>2 DEF StartupMove
  <2> QED
    BY <1>3, <1>5, <1>6, <2>1, <2>2 DEF ReadRun
<1>7. CASE WriteRun(p)
  <2> DEFINE r == rrun[p]
             s == rseen[p]
             e == NewEntry(Repair(s), p, s, None)
  <2>1. /\ status[p] = "starting" /\ r \in Runs /\ s \in Seq(Entry)
        /\ UNCHANGED <<dirs, handler, worker, pool>>
    BY <1>1, <1>7 DEF WriteRun, StartupSound, ProcessType
  <2>2. Repair(s) \in {"request", "queued", "failed"} /\ (Len(s) >= 2 => Repair(s) = "failed")
    <3> DEFINE n == Len(s)
    <3>1. Repair(s) = CASE n = 0 -> "request" [] n = 1 -> "queued" [] OTHER -> "failed"
      BY DEF Repair
    <3>2. n \in Nat
      BY <2>1
    <3> HIDE DEF n
    <3>3. Repair(s) \in {"request", "queued", "failed"} /\ (n >= 2 => Repair(s) = "failed")
      BY <3>1, <3>2
    <3> QED
      BY <3>3 DEF n
  <2>3. e \in Entry /\ e.event = Repair(s)
    <3>1. Repair(s) \in Event /\ p \in Writer
      BY <2>2 DEF Writer, Event
    <3> HIDE DEF s
    <3> QED
      BY <2>1, <3>1, NewEntryType
  <2> HIDE DEF e
  <2>4. Publish(r, s, e) \/ UNCHANGED log
    BY <1>7 DEF WriteRun, Broken, Taken, e
  <2>5. \/ UNCHANGED log
        \/ /\ log' = [log EXCEPT ![r] = Append(@, e)] /\ e.event # "running"
           /\ Len(log[r]) >= 2 => e.event \in TerminalEvent
    BY <2>2, <2>3, <2>4 DEF Publish, TerminalEvent
  <2>6. CASE UNCHANGED <<todo, swept, status, lock>>
    BY <2>1, <2>3, <2>5, <2>6 DEF StartupMove
  <2>7. Advance(p) \/ Forget(p) \/ UNCHANGED <<todo, swept, status, lock>>
    BY <1>7 DEF WriteRun
  <2> QED
    BY <1>3, <1>5, <2>1, <2>3, <2>5, <2>6, <2>7
<1>8. CASE Serve(p)
  BY <1>1, <1>8 DEF Serve, Unlock, StartupMove, ProcessType, StartupSound, store
<1> QED
  BY <1>2, <1>4, <1>6, <1>7, <1>8 DEF StartupStep

LEMMA StartupStepAttended ==
  ASSUME Invariant, Invariant', AttendedInvariant, Effect,
         NEW p \in Procs, Start(p) \/ StartupStep(p)
  PROVE  AttendedInvariant'
<1>1. /\ LockSound /\ RacesSound /\ RunningSound /\ AttendedSound /\ VisitSound
      /\ StartupMove(p) /\ log \in [Runs -> Seq(Entry)]
      /\ HandlerInvariant /\ SweptIsSettled
  BY StartupStepMoves, Parts DEF AttendedInvariant, StoreType
<1>2. /\ UNCHANGED <<dirs, owner, hpc, hseen, wpc, wseen, tracked, failures>>
      /\ \A o \in Procs : o # p => /\ status'[o] = status[o] /\ lock'[o] = lock[o]
                                  /\ todo'[o] = todo[o] /\ swept'[o] = swept[o]
  BY <1>1 DEF StartupMove, handler, worker, pool
<1>3. /\ \A r \in Runs : HandlerHolds(r)' <=> HandlerHolds(r)
      /\ \A w \in Workers : (WorkerHolds(w)' <=> WorkerHolds(w)) /\ (Attends(w) => Attends(w)')
  BY <1>2 DEF HandlerHolds, WorkerHolds, Attends
<1>4. LockSound'
  <2>1. \A r \in Runs : HandlerHolds(r) => lock'[owner[r]] = lock[owner[r]]
    BY <1>1, <1>2, HolderFacts DEF StartupMove
  <2>2. \A w \in Workers : WorkerHolds(w) => lock'[owner[RunOf(w)]] = lock[owner[RunOf(w)]]
    BY <1>1, <1>2, HolderFacts DEF StartupMove
  <2> QED
    BY <1>1, <1>2, <1>3, <2>1, <2>2, LockKept
<1>5. ASSUME NEW r \in Runs, log'[r] # log[r]
      PROVE  \E e \in Entry : /\ log'[r] = Append(log[r], e) /\ e.event # "running"
                              /\ Len(log[r]) >= 2 => Terminal(r)'
  <2>1. PICK e \in Entry :
          /\ rrun[p] \in Runs /\ log' = [log EXCEPT ![rrun[p]] = Append(@, e)]
          /\ e.event # "running"
          /\ Len(log[rrun[p]]) >= 2 => e.event \in TerminalEvent
    BY <1>1, <1>5 DEF StartupMove
  <2>2. r = rrun[p] /\ log'[r] = Append(log[r], e) /\ log[r] \in Seq(Entry)
    BY <1>1, <1>5, <2>1
  <2>3. LastOf(log'[r]) = e /\ log'[r] # <<>>
    BY <2>2 DEF LastOf
  <2> QED
    BY <2>1, <2>2, <2>3 DEF Terminal, HasEvent
<1>6. RacesSound'
  <2>1. ASSUME NEW w \in Workers, WorkerHolds(w)'
        PROVE  /\ WorkerHolds(w) /\ wseen'[w] = wseen[w]
               /\ log'[RunOf(w)] = log[RunOf(w)] \/ Terminal(RunOf(w))'
    BY <1>2, <1>3, <1>5, <2>1, HolderFacts, WorkerTypes
  <2>2. ASSUME NEW r \in Runs, hpc'[r] = "failing"
        PROVE  /\ hpc[r] = "failing" /\ hseen'[r] = hseen[r]
               /\ log'[r] = log[r] \/ Terminal(r)'
    <3>1. hpc[r] = "failing" /\ Len(log[r]) >= 2
      BY <1>1, <1>2, <2>2 DEF HandlerInvariant, HandlerSound
    <3> QED
      BY <1>2, <1>5, <3>1
  <2> QED
    BY <1>1, <2>1, <2>2, RacesKept
<1>7. RunningSound'
  <2>1. ASSUME NEW w \in Workers, log'[RunOf(w)] # log[RunOf(w)]
        PROVE  /\ log[RunOf(w)] \in Seq(Entry)
               /\ \E e \in Entry : log'[RunOf(w)] = Append(log[RunOf(w)], e) /\ e.event # "running"
    BY <1>1, <1>5, <2>1, WorkerTypes
  <2> QED
    BY <1>1, <1>2, <2>1, RunningKept
<1>8. AttendedSound'
  <2> SUFFICES ASSUME NEW q \in Runs PROVE Minds(q)'
    BY DEF AttendedSound, Minds
  <2> SUFFICES ASSUME hpc[q] = "accepted" PROVE Minds(q)'
    BY <1>2 DEF Minds
  <2>1. owner[q] \in Procs /\ Len(log[q]) >= 2
    BY <1>1 DEF HandlerInvariant, HandlerSound
  <2>2. log'[q] = log[q] \/ ~Active(q)'
    BY <1>5, <2>1 DEF Terminal, Active, HasEvent, TerminalEvent
  <2>3. CASE owner[q] # p
    <3>1. status'[owner[q]] = status[owner[q]] /\ Minds(q)
      BY <1>1, <1>2, <2>1, <2>3 DEF AttendedSound, Minds
    <3> QED
      BY <1>2, <1>3, <2>2, <3>1, MindedKept
  <2>4. CASE owner[q] = p
    <3> SUFFICES ASSUME status'[p] = "up", Active(q)' PROVE FALSE
      BY <1>2, <2>4 DEF Minds
    <3>1. status[p] = "starting" /\ todo[p] = {} /\ UNCHANGED log
      BY <1>1 DEF StartupMove
    <3>2. q \in swept[p]
      BY <1>1, <2>4, <3>1 DEF VisitSound
    <3>3. Terminal(q)
      BY <1>1, <2>4, <3>2 DEF SweptIsSettled
    <3> QED
      BY <3>1, <3>3 DEF Terminal, Active, HasEvent, TerminalEvent
  <2> QED
    BY <2>3, <2>4
<1>9. VisitSound'
  <2>1. \A q \in Runs : hpc'[q] \notin {"idle", "mkdir", "error", "gone"} => q \in dirs'
    BY <1>1, <1>2 DEF VisitSound
  <2>2. ASSUME NEW o \in Procs, NEW q \in Runs,
               status'[o] = "starting", hpc[q] = "accepted", owner[q] = o
        PROVE  q \in todo'[o] \cup swept'[o]
    <3>1. CASE o # p
      BY <1>1, <1>2, <2>2, <3>1 DEF VisitSound
    <3>2. CASE o = p /\ dirs \subseteq todo'[p]
      BY <1>1, <2>2, <3>2 DEF VisitSound
    <3>3. CASE o = p /\ status[p] = "starting" /\ todo[p] \cup swept[p] \subseteq todo'[p] \cup swept'[p]
      BY <1>1, <2>2, <3>3 DEF VisitSound
    <3> QED
      BY <1>1, <2>2, <3>1, <3>2, <3>3 DEF StartupMove
  <2> QED
    BY <1>2, <2>1, <2>2 DEF VisitSound
<1> QED
  BY <1>4, <1>6, <1>7, <1>8, <1>9 DEF AttendedInvariant

LEMMA CrashAttended ==
  ASSUME Invariant, Invariant', AttendedInvariant, Effect, NEW p \in Procs, Crash(p)
  PROVE  AttendedInvariant'
<1>1. /\ LockSound /\ RacesSound /\ RunningSound /\ AttendedSound /\ VisitSound
      /\ ProcessType
  BY Parts DEF AttendedInvariant
<1>2. /\ UNCHANGED <<dirs, log, owner, hseen, wseen>>
      /\ status' = [status EXCEPT ![p] = "down"] /\ lock' = [lock EXCEPT ![p] = FALSE]
      /\ todo' = [todo EXCEPT ![p] = {}] /\ swept' = [swept EXCEPT ![p] = {}]
      /\ tracked' = {r \in tracked : owner[r] # p}
      /\ failures' = {r \in failures : owner[r] # p}
  BY DEF Crash, Forget, Unlock, store
<1>3. \A r \in Runs : /\ owner[r] # p => hpc'[r] = hpc[r]
                      /\ hpc'[r] \in {hpc[r], "gone"}
                      /\ HandlerHolds(r)' => HandlerHolds(r) /\ owner[r] # p
  BY DEF Crash, Answered, HandlerHolds
<1>4. \A w \in Workers : /\ owner[RunOf(w)] # p => wpc'[w] = wpc[w]
                         /\ wpc'[w] \in {wpc[w], "gone"}
                         /\ WorkerHolds(w)' => WorkerHolds(w) /\ owner[RunOf(w)] # p
  BY DEF Crash, WorkerHolds
<1>5. LockSound'
  <2>1. \A o \in Procs : o # p => lock'[o] = lock[o]
    BY <1>1, <1>2 DEF ProcessType
  <2> QED
    BY <1>1, <1>2, <1>3, <1>4, <2>1, LockKept, HolderFacts
<1>6. RacesSound'
  <2>1. \A r \in Runs : hpc'[r] = "failing" => hpc[r] = "failing"
    BY <1>3
  <2> QED
    BY <1>1, <1>2, <1>4, <2>1, RacesKept
<1>7. RunningSound'
  BY <1>1, <1>2, <1>4, RunningKept
<1>8. AttendedSound'
  <2> SUFFICES ASSUME NEW q \in Runs PROVE Minds(q)'
    BY DEF AttendedSound, Minds
  <2>1. CASE owner[q] = p
    <3>1. hpc'[q] = "accepted" => hpc[q] = "accepted"
      BY <1>3
    <3>2. hpc'[q] = "accepted" => p \in Procs /\ status'[p] = "down"
      BY <1>1, <1>2 DEF ProcessType
    <3> QED
      BY <1>2, <2>1, <3>2 DEF Minds
  <2>2. CASE owner[q] # p
    <3>1. Minds(q) /\ status'[owner[q]] = status[owner[q]]
      BY <1>1, <1>2, <2>2 DEF AttendedSound, Minds, ProcessType
    <3>2. \A w \in Workers : RunOf(w) = q /\ Attends(w) => Attends(w)'
      BY <1>4, <2>2 DEF Attends
    <3>3. hpc'[q] = hpc[q]
      BY <1>3, <2>2
    <3> QED
      BY <1>2, <2>2, <3>1, <3>2, <3>3, MindedKept
  <2> QED
    BY <2>1, <2>2
<1>9. VisitSound'
  <2>1. \A q \in Runs : hpc'[q] \notin {"idle", "mkdir", "error", "gone"} => q \in dirs'
    BY <1>1, <1>2, <1>3 DEF VisitSound
  <2>2. ASSUME NEW o \in Procs, NEW q \in Runs,
               status'[o] = "starting", hpc'[q] = "accepted", owner[q] = o
        PROVE  q \in todo'[o] \cup swept'[o]
    <3>1. o # p /\ hpc[q] = "accepted"
      BY <1>1, <1>2, <1>3, <2>2 DEF ProcessType
    <3>2. status'[o] = status[o] /\ todo'[o] = todo[o] /\ swept'[o] = swept[o]
      BY <1>1, <1>2, <3>1 DEF ProcessType
    <3> QED
      BY <1>1, <2>2, <3>1, <3>2 DEF VisitSound
  <2> QED
    BY <1>2, <2>1, <2>2 DEF VisitSound
<1> QED
  BY <1>5, <1>6, <1>7, <1>8, <1>9 DEF AttendedInvariant

-------------------------------------------------------------------------------
LEMMA AttendedInit == Init => AttendedInvariant
BY DEF Init, AttendedInvariant, LockSound, RacesSound, RunningSound, AttendedSound, VisitSound,
   HandlerHolds, WorkerHolds, Workers, RunOf

LEMMA AttendedNext == Invariant /\ AttendedInvariant /\ [Next]_vars => AttendedInvariant'
<1> SUFFICES ASSUME Invariant, AttendedInvariant, [Next]_vars PROVE AttendedInvariant'
  OBVIOUS
<1>1. Invariant' /\ Effect
  BY NextInvariant, NextEffect
<1>2. CASE UNCHANGED vars
  BY <1>2 DEF vars, store, handler, worker, pool, startup, AttendedInvariant, LockSound, RacesSound,
     RunningSound, AttendedSound, VisitSound, HandlerHolds, WorkerHolds, Terminal, Active,
     Minded, Attends
<1>3. CASE Next
  BY <1>1, <1>3, SubmitAttended, HandlerStepAttended, WorkerStepAttended,
     StartupStepAttended, CrashAttended DEF Next
<1> QED
  BY <1>2, <1>3

\* A live process never loses a run it accepted: whatever the other processes and
\* the deliveries of its task do, while the run is active one of its threads still
\* has work to do for it, or the executor has recorded its failure.
THEOREM AcceptedRunsAreAttended == Spec => []AttendedWhileActive
<1>1. Invariant /\ AttendedInvariant => AttendedWhileActive
  BY DEF AttendedInvariant, AttendedSound, AttendedWhileActive, Minded, Attends
<1> QED
  BY <1>1, InitInvariant, NextInvariant, AttendedInit, AttendedNext, PTL DEF Spec

===============================================================================
