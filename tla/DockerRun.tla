------------------------------- MODULE DockerRun -------------------------------
(***************************************************************************)
(* DockerCommandExecutor.run and what DockerCliBackend concludes from it:   *)
(* a container is created, started through an attached docker command whose *)
(* two pipes the host reads within bounds, stopped when it oversteps a      *)
(* bound, inspected and removed.  Program, docker command and host run at   *)
(* the same time; every docker call may fail.                               *)
(***************************************************************************)
EXTENDS Integers

CONSTANTS Limit,      \* bytes of a stream the host accepts
          Statuses,   \* exit statuses of the program
          MaxBytes,   \* bound: bytes a program writes to a stream
          MaxFaults,  \* bound: failing docker calls
          None

Stream == {"stdout", "stderr"}
Sigkill == 137
ExitStatus == 0..255
Killed == -9    \* return code of a docker command the host killed
Broken == 1     \* return code of a docker command that lost its daemon

ASSUME DockerRunAssumption ==
  /\ Limit \in Nat \ {0}
  /\ Statuses \subseteq ExitStatus
  /\ MaxBytes \in Nat /\ MaxFaults \in Nat
  /\ None \notin Int \cup BOOLEAN \cup {"own", "host", "memory"}
  /\ None \notin [running : BOOLEAN, error : BOOLEAN, oom : BOOLEAN, status : ExitStatus]

VARIABLES
  \* the container
  container,  \* none, created, running, exited, removed
  status,     \* its exit status
  oom,        \* whether one of its processes was killed for lack of memory
  error,      \* whether it could not be started
  ended,      \* who ended it: the program, the host, or the lack of memory
  wrote,      \* bytes the program has written to each stream
  \* docker start --attach
  cli,        \* none, attached, closed (its pipes), exited
  code,       \* its return code
  unread,     \* bytes in its pipes
  \* the host
  pc,
  late,       \* the deadline has passed
  open,       \* pipes not read to their end
  captured,   \* bytes kept of each stream
  timedOut, limited,  \* the bound that stopped the run: the deadline, or a stream
  stopped,    \* whether docker kill succeeded
  seen,       \* return code of the attached command
  inspected,  \* what docker inspect told
  cleaned,    \* whether docker rm succeeded
  faults

box  == <<container, status, oom, error, ended, wrote>>
tool == <<cli, code, unread>>
reading == <<open, captured, timedOut, limited, stopped>>
conclusion == <<seen, inspected, cleaned>>
vars == <<box, tool, pc, late, reading, conclusion, faults>>

Init ==
  /\ container = "none" /\ status = 0 /\ oom = FALSE /\ error = FALSE /\ ended = None
  /\ wrote = [s \in Stream |-> 0]
  /\ cli = "none" /\ code = None /\ unread = [s \in Stream |-> 0]
  /\ pc = "create" /\ late = FALSE
  /\ open = {} /\ captured = [s \in Stream |-> 0]
  /\ timedOut = FALSE /\ limited = {} /\ stopped = None
  /\ seen = None /\ inspected = None /\ cleaned = FALSE
  /\ faults = 0

Fault == faults < MaxFaults /\ faults' = faults + 1

-------------------------------------------------------------------------------
(* The program in its container                                            *)

Write(s) ==
  /\ container = "running"
  /\ wrote[s] < MaxBytes
  /\ wrote' = [wrote EXCEPT ![s] = @ + 1]
  /\ unread' = IF cli = "attached" THEN [unread EXCEPT ![s] = @ + 1] ELSE unread
  /\ UNCHANGED <<container, status, oom, error, ended, cli, code, pc, late,
                 reading, conclusion, faults>>

Exit ==
  /\ container = "running"
  /\ container' = "exited"
  /\ status' \in Statuses
  /\ ended' = "own"
  /\ UNCHANGED <<oom, error, wrote, tool, pc, late, reading, conclusion, faults>>

\* The kernel kills the program, or one of its children.
OutOfMemory ==
  /\ container = "running"
  /\ oom' = TRUE
  /\ \/ container' = "exited" /\ status' = Sigkill /\ ended' = "memory"
     \/ UNCHANGED <<container, status, ended>>
  /\ UNCHANGED <<error, wrote, tool, pc, late, reading, conclusion, faults>>

-------------------------------------------------------------------------------
(* docker start --attach                                                   *)

\* Bytes that were not in the pipes yet are lost with the command.
SomeAreLost == unread' \in {u \in [Stream -> 0..MaxBytes] : \A s \in Stream : u[s] <= unread[s]}

StartContainer ==
  /\ cli = "attached" /\ container = "created"
  /\ \/ /\ container' = "running"
        /\ UNCHANGED <<error, cli, code, faults>>
     \/ /\ Fault
        /\ error' = TRUE
        /\ cli' = "closed" /\ code' = Broken
        /\ UNCHANGED container
  /\ UNCHANGED <<status, oom, ended, wrote, unread, pc, late, reading, conclusion>>

\* It passes on all the output and the exit status of the container.
CliCloses ==
  /\ cli = "attached" /\ container \in {"exited", "removed"}
  /\ cli' = "closed" /\ code' = status
  /\ UNCHANGED <<box, unread, pc, late, reading, conclusion, faults>>

CliBreaks ==
  /\ cli = "attached"
  /\ Fault
  /\ cli' = "closed" /\ code' = Broken
  /\ SomeAreLost
  /\ UNCHANGED <<box, pc, late, reading, conclusion>>

CliExits ==
  /\ cli = "closed"
  /\ cli' = "exited"
  /\ UNCHANGED <<box, code, unread, pc, late, reading, conclusion, faults>>

-------------------------------------------------------------------------------
(* DockerCommandExecutor.run                                               *)

Goes(to) == pc' = to

\* A create that does not answer with an identity may have made a container.
Create ==
  /\ pc = "create"
  /\ \/ /\ container' = "created"
        /\ Goes("attach")
        /\ UNCHANGED faults
     \/ /\ Fault
        /\ container' \in {"none", "created"}
        /\ Goes("no_identity")
  /\ UNCHANGED <<status, oom, error, ended, wrote, tool, late, reading, conclusion>>

\* The command cannot be launched, or the thread that observes memory cannot.
Attach ==
  /\ pc = "attach"
  /\ \/ /\ cli' = "attached"
        /\ open' = Stream
        /\ Goes("capture")
        /\ UNCHANGED faults
     \/ /\ Fault
        /\ cli' \in {"none", "attached"}
        /\ Goes("inspect")
        /\ UNCHANGED open
  /\ UNCHANGED <<box, code, unread, late, captured, timedOut, limited, stopped, conclusion>>

\* time_limit_ms after the host asked for the start.
DeadlinePasses ==
  /\ pc = "capture" /\ ~late
  /\ late' = TRUE
  /\ UNCHANGED <<box, tool, pc, reading, conclusion, faults>>

\* A bound was overstepped: stopped_at is set.
Stopping == timedOut \/ limited # {}

CheckDeadline ==
  /\ pc = "capture" /\ open # {}
  /\ ~Stopping /\ late /\ cli # "exited"
  /\ timedOut' = TRUE
  /\ Goes("kill")
  /\ UNCHANGED <<box, tool, late, open, captured, limited, stopped, conclusion, faults>>

\* Mutant: the byte over the limit is kept after the stop, too.
RoomForOneMore(s) == Limit + 1 - captured[s]

\* Room for one byte over the limit, which shows that the limit was overstepped.
Room(s) == Limit + (IF Stopping THEN 0 ELSE 1) - captured[s]

Kept(s, n) == IF Room(s) <= 0 THEN 0 ELSE IF n <= Room(s) THEN n ELSE Room(s)

\* Mutant: a stream that fills its limit exactly has overstepped it.
OversteppedAtLimit(s, n) == n >= Room(s) \/ captured[s] + Kept(s, n) >= Limit

Overstepped(s, n) == n > Room(s) \/ captured[s] + Kept(s, n) > Limit

ReadChunk(s) ==
  /\ pc = "capture"
  /\ s \in open
  /\ \E n \in 1..unread[s] :
       /\ unread' = [unread EXCEPT ![s] = @ - n]
       /\ captured' = [captured EXCEPT ![s] = @ + Kept(s, n)]
       /\ IF Overstepped(s, n) /\ ~Stopping
          THEN limited' = {s} /\ Goes("kill")
          ELSE UNCHANGED <<limited, pc>>
  /\ UNCHANGED <<box, cli, code, late, open, timedOut, stopped, conclusion, faults>>

ReadEnd(s) ==
  /\ pc = "capture"
  /\ s \in open /\ unread[s] = 0 /\ cli \in {"closed", "exited"}
  /\ open' = open \ {s}
  /\ UNCHANGED <<box, tool, pc, late, captured, timedOut, limited, stopped,
                 conclusion, faults>>

\* docker kill: the program may end by itself at the moment the signal is sent.
KillHits ==
  /\ container = "running"
  /\ container' = "exited"
  /\ status' \in Statuses \cup {Sigkill}
  /\ ended' = "host"

Kill ==
  /\ pc = "kill"
  /\ \/ /\ KillHits
        /\ stopped' = TRUE
        /\ UNCHANGED faults
     \/ /\ container # "running"
        /\ stopped' = FALSE
        /\ UNCHANGED <<container, status, ended, faults>>
     \/ /\ Fault
        /\ stopped' = FALSE
        /\ \/ KillHits
           \/ UNCHANGED <<container, status, ended>>
  /\ Goes("capture")
  /\ UNCHANGED <<oom, error, wrote, tool, late, open, captured, timedOut, limited, conclusion>>

\* Mutant: only a run whose docker kill succeeded gets its command killed.
OverdueOnceKilled == Stopping /\ stopped = TRUE

Overdue == Stopping

\* Five seconds after the stop the attached command is killed.  It takes that long
\* because its container goes on, or because docker fails.
KillCli ==
  /\ pc = "capture"
  /\ Overdue
  /\ cli \in {"attached", "closed"}
  /\ \/ container # "exited" /\ UNCHANGED faults
     \/ container = "exited" /\ Fault
  /\ cli' = "exited" /\ code' = Killed
  /\ SomeAreLost
  /\ UNCHANGED <<box, pc, late, reading, conclusion>>

\* Both pipes have ended.  A command that does not exit is killed, and one that
\* cannot be reaped raises an exception that run does not catch.
Wait ==
  /\ pc = "capture" /\ open = {}
  /\ \/ /\ cli = "exited"
        /\ seen' = code
        /\ Goes("inspect")
        /\ UNCHANGED <<cli, code, faults>>
     \/ /\ cli = "closed"
        /\ Fault
        /\ cli' = "exited" /\ code' = Killed
        /\ \/ seen' = Killed /\ Goes("inspect")
           \/ UNCHANGED seen /\ Goes("raised")
  /\ UNCHANGED <<box, unread, late, reading, inspected, cleaned>>

Inspect ==
  /\ pc = "inspect"
  /\ \/ /\ inspected' = [running |-> container = "running", error |-> error,
                         oom |-> oom, status |-> status]
        /\ Goes("remove")
        /\ UNCHANGED faults
     \/ /\ Fault
        /\ pc' \in {"remove", "raised"}
        /\ UNCHANGED inspected
  /\ UNCHANGED <<box, tool, late, reading, seen, cleaned>>

\* docker rm --force, and once more when it fails.
Remove ==
  /\ pc = "remove"
  /\ \/ /\ container' = "removed"
        /\ cleaned' = TRUE
        /\ Goes("done")
        /\ UNCHANGED faults
     \/ /\ Fault
        /\ container' \in {container, "removed"}
        /\ Goes("remove_again")
        /\ UNCHANGED cleaned
  /\ UNCHANGED <<status, oom, error, ended, wrote, tool, late, reading, seen, inspected>>

\* Mutant: a failed removal is not tried again.
NoSecondRemoval == container

SecondRemoval == "removed"

RemoveAgain ==
  /\ pc = "remove_again"
  /\ \/ container' = SecondRemoval /\ UNCHANGED faults
     \/ container' \in {container, "removed"} /\ Fault
  /\ Goes("done")
  /\ UNCHANGED <<status, oom, error, ended, wrote, tool, late, reading, conclusion>>

Program == (\E s \in Stream : Write(s)) \/ Exit \/ OutOfMemory
Command == StartContainer \/ CliCloses \/ CliBreaks \/ CliExits
Capture ==
  \/ CheckDeadline \/ Kill \/ KillCli \/ Wait
  \/ \E s \in Stream : ReadChunk(s) \/ ReadEnd(s)
Next ==
  \/ Program \/ Command \/ DeadlinePasses
  \/ Create \/ Attach \/ Capture \/ Inspect \/ Remove \/ RemoveAgain

Spec == Init /\ [][Next]_vars

\* The host's threads run; a deadline passes; a docker command whose container
\* ended closes its pipes or is killed.  A program need not end.
Fairness ==
  /\ WF_vars(Create) /\ WF_vars(Attach) /\ WF_vars(DeadlinePasses)
  /\ WF_vars(CheckDeadline) /\ WF_vars(Kill) /\ WF_vars(KillCli) /\ WF_vars(Wait)
  /\ \A s \in Stream : WF_vars(ReadChunk(s)) /\ WF_vars(ReadEnd(s))
  /\ WF_vars(CliCloses) /\ WF_vars(CliExits)
  /\ WF_vars(Inspect) /\ WF_vars(Remove) /\ WF_vars(RemoveAgain)

FairSpec == Spec /\ Fairness

-------------------------------------------------------------------------------
(* What the backend concludes                                              *)

\* _trusted_process_observation: the host's own account is consistent, complete
\* and agrees with docker's.
StreamsFitMarkers ==
  /\ ~(timedOut /\ limited # {})
  /\ \A s, t \in limited : s = t
  /\ \A s \in Stream : IF s \in limited THEN captured[s] = Limit + 1 ELSE captured[s] <= Limit

Trusted ==
  /\ StreamsFitMarkers
  /\ inspected # None /\ cleaned
  /\ IF Stopping THEN stopped = TRUE ELSE stopped = None
  /\ ~inspected.error /\ ~inspected.running
  /\ seen = inspected.status
  /\ Stopping => ~inspected.oom /\ inspected.status = Sigkill

\* Mutant: lack of memory is not looked at.
OutcomeWithoutMemory ==
  CASE ~Trusted              -> "infrastructure_error"
    [] Trusted /\ timedOut   -> "tle"
    [] Trusted /\ limited # {} -> "output_limit"
    [] Trusted /\ ~Stopping  -> IF inspected.status = 0 THEN "ac" ELSE "runtime_error"

\* _execution_outcome_from_process
Outcome ==
  CASE ~Trusted              -> "infrastructure_error"
    [] Trusted /\ timedOut   -> "tle"
    [] Trusted /\ limited # {} -> "output_limit"
    [] Trusted /\ ~Stopping  ->
         CASE inspected.oom -> "mle"
           [] ~inspected.oom /\ inspected.status = 0 -> "ac"
           [] OTHER -> "runtime_error"

\* DockerCliBackend.compile
CompileOutcome ==
  IF Trusted /\ ~Stopping /\ ~inspected.oom
  THEN CASE inspected.status = 0 -> "ac"
         [] inspected.status = 1 -> "compile_error"
         [] OTHER -> "infrastructure_error"
  ELSE "infrastructure_error"

\* Every other way out of run ends as an infrastructure error.
Returned == pc = "done"
Ended == pc \in {"done", "no_identity", "raised"}

-------------------------------------------------------------------------------
(* Properties                                                              *)

PcPoint == {"create", "attach", "capture", "kill", "inspect", "remove", "remove_again",
            "done", "no_identity", "raised"}

Snapshot == [running : BOOLEAN, error : BOOLEAN, oom : BOOLEAN, status : ExitStatus]

\* Every part of the run has the shape the code and docker give it.
TypeOK ==
  /\ container \in {"none", "created", "running", "exited", "removed"}
  /\ status \in ExitStatus /\ oom \in BOOLEAN /\ error \in BOOLEAN
  /\ ended \in {None, "own", "host", "memory"}
  /\ wrote \in [Stream -> Nat] /\ unread \in [Stream -> Nat]
  /\ captured \in [Stream -> 0..(Limit + 1)]
  /\ cli \in {"none", "attached", "closed", "exited"}
  /\ code \in ExitStatus \cup {Killed, None}
  /\ pc \in PcPoint /\ late \in BOOLEAN
  /\ open \subseteq Stream /\ limited \subseteq Stream
  /\ timedOut \in BOOLEAN /\ stopped \in BOOLEAN \cup {None}
  /\ seen \in ExitStatus \cup {Killed, None}
  /\ inspected \in Snapshot \cup {None}
  /\ cleaned \in BOOLEAN
  /\ faults \in Nat

\* A verdict about the program is true of the program, whatever raced and failed:
\* an accepted run ended by itself with status zero and every byte it wrote was
\* compared; a runtime error is the program's own; one that is too slow ran on
\* after its deadline until the host killed it; one that wrote too much did; and
\* lack of memory was seen.
VerdictIsTrue ==
  Returned =>
    /\ Outcome = "ac" =>
         ended = "own" /\ status = 0 /\ ~oom /\ (\A s \in Stream : captured[s] = wrote[s])
    /\ Outcome = "runtime_error" => ended = "own" /\ status # 0 /\ ~oom
    /\ Outcome = "tle" => late /\ ended = "host" /\ ~oom
    /\ Outcome = "output_limit" => ended = "host" /\ \E s \in Stream : wrote[s] > Limit
    /\ Outcome = "mle" => oom
    /\ CompileOutcome = "compile_error" => ended = "own" /\ status = 1

\* The host's own account of the streams never is what makes a run untrusted: one
\* bound at most stopped it, and exactly one byte shows that a stream was too long.
CaptureIsConsistent == StreamsFitMarkers

\* Without a failing docker call a verdict is given, except after a stop by the host
\* that met no running program: one that ended by itself, or for lack of memory, at
\* that moment, or a container that was not yet started when the deadline passed.
NoVerdictHasACause ==
  Returned /\ Outcome = "infrastructure_error" /\ faults = 0 =>
    Stopping /\ (ended # "host" \/ status # Sigkill \/ oom)

\* One failing docker rm leaves no container behind.
LeftBehindNeedsTwoFaults ==
  Returned /\ container # "removed" => faults >= 2

\* run returns, even when the program never ends and docker kill fails.
RunReturns == <>Ended

\* docs/P1_LOCAL_VALIDATION_2026-09-13.md:5 and :7 say that the race is repaired in
\* which the deadline stops a run whose program has ended normally.
DeadlineSparesTheEnded ==
  Returned /\ timedOut /\ faults = 0 => ~(ended = "own" /\ status = 0)

-------------------------------------------------------------------------------
(* The inductive invariant behind these properties                         *)

BoxSound ==
  /\ pc = "create" => container = "none"
  /\ pc = "attach" => container = "created"
  /\ container \in {"none", "created"} => \A s \in Stream : wrote[s] = 0
  /\ container = "exited" => ended # None
  /\ ended # None => container \in {"exited", "removed"}
  /\ ended = "memory" => oom
  /\ ended = "host" => Stopping
  /\ status # 0 => ended # None
  /\ container = "removed" => pc \in {"remove_again", "done"}

\* Until the command ends, and after it ended well, no byte of the program is lost.
CommandSound ==
  /\ pc \in {"create", "attach"} => cli = "none"
  /\ cli = "none" => container # "running"
  /\ cli \in {"none", "attached"} <=> code = None
  /\ code = 0 => container \in {"exited", "removed"}
  /\ \A s \in Stream : captured[s] + unread[s] <= wrote[s]
  /\ ~Stopping /\ (cli = "attached" \/ code = 0) =>
       \A s \in Stream : captured[s] + unread[s] = wrote[s]

HostSound ==
  /\ StreamsFitMarkers
  /\ timedOut => late
  /\ pc \in {"create", "attach"} => ~Stopping
  /\ pc = "kill" => Stopping
  /\ stopped # None <=> Stopping /\ pc # "kill"
  /\ stopped = TRUE => ended = "host"
  /\ pc \in {"capture", "kill"} =>
       \A s \in Stream \ open : unread[s] = 0 /\ cli \in {"closed", "exited"}

\* What the host was told about a container that has ended stays true.
ConclusionSound ==
  /\ seen # None =>
       /\ pc \in {"inspect", "remove", "remove_again", "done", "raised"}
       /\ cli = "exited" /\ seen = code
       /\ \A s \in Stream : unread[s] = 0
  /\ seen = 0 => ended # None
  /\ inspected # None => pc \in {"remove", "remove_again", "done"}
  /\ inspected # None /\ seen # None =>
       inspected.running \/ /\ container # "running"
                            /\ inspected.status = status /\ inspected.oom = oom
  /\ pc = "remove_again" => faults >= 1
  /\ LeftBehindNeedsTwoFaults

\* A run in which no docker call has failed yet.
Faultless ==
  /\ ~error /\ pc \notin {"no_identity", "raised", "remove_again"}
  /\ pc \in {"inspect", "remove", "done"} => seen # None
  /\ pc \in {"remove", "done"} => inspected # None
  /\ pc = "done" => cleaned
  /\ inspected # None => ~inspected.error /\ (inspected.running => code = Killed)
  /\ code # None =>
       \/ code = status /\ container \in {"exited", "removed"}
       \/ code = Killed /\ stopped = FALSE
  /\ ended = "host" => stopped = TRUE

Invariant ==
  /\ TypeOK /\ BoxSound /\ CommandSound /\ HostSound /\ ConclusionSound
  /\ faults = 0 => Faultless

===============================================================================
