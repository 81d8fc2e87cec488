---------------------------- MODULE DockerRunProofs ----------------------------
(***************************************************************************)
(* Proofs about DockerRun, for every limit, every exit status and any       *)
(* number of failing docker calls.                                          *)
(***************************************************************************)
EXTENDS DockerRun, TLAPS

\* No step takes a part of the run out of its shape.
LEMMA TypeOKStep ==
  ASSUME DockerRunAssumption, Invariant, [Next]_vars
  PROVE  TypeOK'
<1> USE DEF DockerRunAssumption, Invariant, TypeOK, PcPoint, Snapshot, ExitStatus,
      Stream, Sigkill, Killed, Broken, vars, box, tool, reading, conclusion, Stopping,
      Goes, Fault
<1>1. ASSUME NEW s \in Stream, Write(s) PROVE TypeOK'
  BY <1>1 DEF Write
<1>2. CASE Exit
  BY <1>2 DEF Exit
<1>3. CASE OutOfMemory
  BY <1>3 DEF OutOfMemory
<1>4. CASE StartContainer
  <2>1. error' \in BOOLEAN
    BY <1>4, Zenon DEF StartContainer
  <2>2. QED
    BY <1>4, <2>1 DEF StartContainer
<1>5. CASE CliCloses
  BY <1>5 DEF CliCloses
<1>6. CASE CliBreaks
  BY <1>6 DEF CliBreaks, SomeAreLost
<1>7. CASE CliExits
  BY <1>7 DEF CliExits
<1>8. CASE DeadlinePasses
  BY <1>8 DEF DeadlinePasses
<1>9. CASE Create
  BY <1>9 DEF Create
<1>10. CASE Attach
  <2>1. open' \subseteq Stream
    BY <1>10, Zenon DEF Attach
  <2>2. QED
    BY <1>10, <2>1 DEF Attach
<1>11. CASE CheckDeadline
  BY <1>11 DEF CheckDeadline
<1>12. CASE Kill
  <2>1. stopped' \in BOOLEAN \cup {None}
    BY <1>12, Zenon DEF Kill
  <2>2. KillHits \/ UNCHANGED <<container, status, ended>>
    BY <1>12, Zenon DEF Kill
  <2>3. /\ status' \in ExitStatus /\ ended' \in {None, "own", "host", "memory"}
        /\ container' \in {"none", "created", "running", "exited", "removed"}
    <3>1. CASE KillHits
      BY <3>1 DEF KillHits
    <3>2. CASE UNCHANGED <<container, status, ended>>
      BY <3>2
    <3>3. QED
      BY <2>2, <3>1, <3>2
  <2>4. faults' \in Nat /\ pc' \in PcPoint
    BY <1>12 DEF Kill
  <2>5. QED
    BY <1>12, <2>1, <2>3, <2>4 DEF Kill
<1>13. CASE KillCli
  BY <1>13 DEF KillCli, SomeAreLost, Overdue
<1>14. CASE Wait
  BY <1>14 DEF Wait
<1>15. ASSUME NEW s \in Stream, ReadChunk(s) PROVE TypeOK'
  <2>1. PICK n \in 1..unread[s] :
          /\ unread' = [unread EXCEPT ![s] = @ - n]
          /\ captured' = [captured EXCEPT ![s] = @ + Kept(s, n)]
          /\ limited' \in {limited, {s}} /\ pc' \in {pc, "kill"}
    BY <1>15 DEF ReadChunk
  <2>2. captured[s] + Kept(s, n) \in 0..(Limit + 1) /\ unread[s] - n \in Nat
    BY DEF Kept, Room
  <2>3. captured' \in [Stream -> 0..(Limit + 1)] /\ unread' \in [Stream -> Nat]
    BY <2>1, <2>2
  <2>4. limited' \subseteq Stream /\ pc' \in PcPoint
    BY <2>1
  <2>5. QED
    BY <1>15, <2>3, <2>4 DEF ReadChunk
<1>16. ASSUME NEW s \in Stream, ReadEnd(s) PROVE TypeOK'
  BY <1>16 DEF ReadEnd
<1>17. CASE Inspect
  <2>1. inspected' \in Snapshot \cup {None}
    <3>1. [running |-> container = "running", error |-> error, oom |-> oom,
            status |-> status] \in Snapshot
      BY Zenon
    <3>2. QED
      BY <1>17, <3>1, Zenon DEF Inspect
  <2>2. QED
    BY <1>17, <2>1 DEF Inspect
<1>18. CASE Remove
  <2>1. cleaned' \in BOOLEAN
    BY <1>18, Zenon DEF Remove
  <2>2. QED
    BY <1>18, <2>1 DEF Remove
<1>19. CASE RemoveAgain
  BY <1>19 DEF RemoveAgain, SecondRemoval
<1>20. CASE UNCHANGED vars
  BY <1>20
<1> HIDE DEF Invariant, TypeOK
<1>21. QED
  BY <1>1, <1>2, <1>3, <1>4, <1>5, <1>6, <1>7, <1>8, <1>9, <1>10, <1>11, <1>12, <1>13,
     <1>14, <1>15, <1>16, <1>17, <1>18, <1>19, <1>20
     DEF Next, Program, Command, Capture

\* What is known of the container.
LEMMA BoxSoundStep ==
  ASSUME DockerRunAssumption, Invariant, [Next]_vars
  PROVE  BoxSound'
<1> USE DEF DockerRunAssumption, Invariant, TypeOK, PcPoint, Snapshot, ExitStatus,
      Stream, Sigkill, Killed, Broken, vars, box, tool, reading, conclusion, Stopping,
      Goes, Fault, BoxSound, CommandSound, HostSound, ConclusionSound
<1>1. ASSUME NEW s \in Stream, Write(s) PROVE BoxSound'
  BY <1>1 DEF Write
<1>2. CASE Exit
  BY <1>2 DEF Exit
<1>3. CASE OutOfMemory
  BY <1>3 DEF OutOfMemory
<1>4. CASE StartContainer
  BY <1>4 DEF StartContainer
<1>5. CASE CliCloses
  BY <1>5 DEF CliCloses
<1>6. CASE CliBreaks
  BY <1>6 DEF CliBreaks, SomeAreLost
<1>7. CASE CliExits
  BY <1>7 DEF CliExits
<1>8. CASE DeadlinePasses
  BY <1>8 DEF DeadlinePasses
<1>9. CASE Create
  BY <1>9 DEF Create
<1>10. CASE Attach
  BY <1>10 DEF Attach
<1>11. CASE CheckDeadline
  BY <1>11 DEF CheckDeadline
<1>12. CASE Kill
  BY <1>12 DEF Kill, KillHits
<1>13. CASE KillCli
  BY <1>13 DEF KillCli, SomeAreLost, Overdue
<1>14. CASE Wait
  BY <1>14 DEF Wait
<1>15. ASSUME NEW s \in Stream, ReadChunk(s) PROVE BoxSound'
  BY <1>15 DEF ReadChunk, Kept, Room, Overstepped
<1>16. ASSUME NEW s \in Stream, ReadEnd(s) PROVE BoxSound'
  BY <1>16 DEF ReadEnd
<1>17. CASE Inspect
  BY <1>17 DEF Inspect
<1>18. CASE Remove
  BY <1>18 DEF Remove
<1>19. CASE RemoveAgain
  BY <1>19 DEF RemoveAgain, SecondRemoval
<1>20. CASE UNCHANGED vars
  BY <1>20
<1> HIDE DEF Invariant, BoxSound
<1>21. QED
  BY <1>1, <1>2, <1>3, <1>4, <1>5, <1>6, <1>7, <1>8, <1>9, <1>10, <1>11, <1>12, <1>13,
     <1>14, <1>15, <1>16, <1>17, <1>18, <1>19, <1>20
     DEF Next, Program, Command, Capture

\* The bytes on their way through the attached command.
LEMMA CommandSoundStep ==
  ASSUME DockerRunAssumption, Invariant, [Next]_vars
  PROVE  CommandSound'
<1> USE DEF DockerRunAssumption, Invariant, TypeOK, PcPoint, Snapshot, ExitStatus,
      Stream, Sigkill, Killed, Broken, vars, box, tool, reading, conclusion, Stopping,
      Goes, Fault, BoxSound, CommandSound, HostSound, StreamsFitMarkers
<1>1. ASSUME NEW s \in Stream, Write(s) PROVE CommandSound'
  BY <1>1 DEF Write
<1>2. CASE Exit
  BY <1>2 DEF Exit
<1>3. CASE OutOfMemory
  BY <1>3 DEF OutOfMemory
<1>4. CASE StartContainer
  BY <1>4 DEF StartContainer
<1>5. CASE CliCloses
  BY <1>5 DEF CliCloses
<1>6. CASE CliBreaks
  BY <1>6 DEF CliBreaks, SomeAreLost
<1>7. CASE CliExits
  BY <1>7 DEF CliExits
<1>8. CASE DeadlinePasses
  BY <1>8 DEF DeadlinePasses
<1>9. CASE Create
  BY <1>9 DEF Create
<1>10. CASE Attach
  BY <1>10 DEF Attach
<1>11. CASE CheckDeadline
  BY <1>11 DEF CheckDeadline
<1>12. CASE Kill
  BY <1>12 DEF Kill, KillHits
<1>13. CASE KillCli
  BY <1>13 DEF KillCli, SomeAreLost, Overdue
<1>14. CASE Wait
  BY <1>14 DEF Wait
<1>15. ASSUME NEW s \in Stream, ReadChunk(s) PROVE CommandSound'
  BY <1>15 DEF ReadChunk, Kept, Room, Overstepped
<1>16. ASSUME NEW s \in Stream, ReadEnd(s) PROVE CommandSound'
  BY <1>16 DEF ReadEnd
<1>17. CASE Inspect
  BY <1>17 DEF Inspect
<1>18. CASE Remove
  BY <1>18 DEF Remove
<1>19. CASE RemoveAgain
  BY <1>19 DEF RemoveAgain, SecondRemoval
<1>20. CASE UNCHANGED vars
  BY <1>20
<1> HIDE DEF Invariant, CommandSound
<1>21. QED
  BY <1>1, <1>2, <1>3, <1>4, <1>5, <1>6, <1>7, <1>8, <1>9, <1>10, <1>11, <1>12, <1>13,
     <1>14, <1>15, <1>16, <1>17, <1>18, <1>19, <1>20
     DEF Next, Program, Command, Capture

\* The host's account of the streams and of the stop.
LEMMA HostSoundStep ==
  ASSUME DockerRunAssumption, Invariant, [Next]_vars
  PROVE  HostSound'
<1> USE DEF DockerRunAssumption, Invariant, TypeOK, PcPoint, Snapshot, ExitStatus,
      Stream, Sigkill, Killed, Broken, vars, box, tool, reading, conclusion, Stopping,
      Goes, Fault, BoxSound, CommandSound, HostSound, StreamsFitMarkers, ConclusionSound
<1>1. ASSUME NEW s \in Stream, Write(s) PROVE HostSound'
  BY <1>1 DEF Write
<1>2. CASE Exit
  BY <1>2 DEF Exit
<1>3. CASE OutOfMemory
  BY <1>3 DEF OutOfMemory
<1>4. CASE StartContainer
  BY <1>4 DEF StartContainer
<1>5. CASE CliCloses
  BY <1>5 DEF CliCloses
<1>6. CASE CliBreaks
  BY <1>6 DEF CliBreaks, SomeAreLost
<1>7. CASE CliExits
  BY <1>7 DEF CliExits
<1>8. CASE DeadlinePasses
  BY <1>8 DEF DeadlinePasses
<1>9. CASE Create
  BY <1>9 DEF Create
<1>10. CASE Attach
  BY <1>10 DEF Attach
<1>11. CASE CheckDeadline
  BY <1>11 DEF CheckDeadline
<1>12. CASE Kill
  BY <1>12 DEF Kill, KillHits
<1>13. CASE KillCli
  BY <1>13 DEF KillCli, SomeAreLost, Overdue
<1>14. CASE Wait
  BY <1>14 DEF Wait
<1>15. ASSUME NEW s \in Stream, ReadChunk(s) PROVE HostSound'
  BY <1>15 DEF ReadChunk, Kept, Room, Overstepped
<1>16. ASSUME NEW s \in Stream, ReadEnd(s) PROVE HostSound'
  BY <1>16 DEF ReadEnd
<1>17. CASE Inspect
  BY <1>17 DEF Inspect
<1>18. CASE Remove
  BY <1>18 DEF Remove
<1>19. CASE RemoveAgain
  BY <1>19 DEF RemoveAgain, SecondRemoval
<1>20. CASE UNCHANGED vars
  BY <1>20
<1> HIDE DEF Invariant, HostSound
<1>21. QED
  BY <1>1, <1>2, <1>3, <1>4, <1>5, <1>6, <1>7, <1>8, <1>9, <1>10, <1>11, <1>12, <1>13,
     <1>14, <1>15, <1>16, <1>17, <1>18, <1>19, <1>20
     DEF Next, Program, Command, Capture

\* What the host was told at the end.
LEMMA ConclusionSoundStep ==
  ASSUME DockerRunAssumption, Invariant, [Next]_vars
  PROVE  ConclusionSound'
<1> USE DEF DockerRunAssumption, Invariant, TypeOK, PcPoint, Snapshot, ExitStatus,
      Stream, Sigkill, Killed, Broken, vars, box, tool, reading, conclusion, Stopping,
      Goes, Fault, BoxSound, CommandSound, HostSound, ConclusionSound,
      LeftBehindNeedsTwoFaults, Returned
<1>1. ASSUME NEW s \in Stream, Write(s) PROVE ConclusionSound'
  BY <1>1 DEF Write
<1>2. CASE Exit
  BY <1>2 DEF Exit
<1>3. CASE OutOfMemory
  <2>1. inspected # None /\ seen # None => inspected.running
    BY <1>3 DEF OutOfMemory
  <2>2. UNCHANGED <<inspected, seen, pc, cli, code, unread, faults>>
    BY <1>3 DEF OutOfMemory
  <2>3. ended' # ended => ended' # None
    BY <1>3 DEF OutOfMemory
  <2>4. container' \in {"running", "exited"} /\ container = "running"
    BY <1>3 DEF OutOfMemory
  <2>5. QED
    BY <2>1, <2>2, <2>3, <2>4
<1>4. CASE StartContainer
  BY <1>4 DEF StartContainer
<1>5. CASE CliCloses
  BY <1>5 DEF CliCloses
<1>6. CASE CliBreaks
  BY <1>6 DEF CliBreaks, SomeAreLost
<1>7. CASE CliExits
  BY <1>7 DEF CliExits
<1>8. CASE DeadlinePasses
  BY <1>8 DEF DeadlinePasses
<1>9. CASE Create
  BY <1>9 DEF Create
<1>10. CASE Attach
  BY <1>10 DEF Attach
<1>11. CASE CheckDeadline
  BY <1>11 DEF CheckDeadline
<1>12. CASE Kill
  BY <1>12 DEF Kill, KillHits
<1>13. CASE KillCli
  BY <1>13 DEF KillCli, SomeAreLost, Overdue
<1>14. CASE Wait
  BY <1>14 DEF Wait
<1>15. ASSUME NEW s \in Stream, ReadChunk(s) PROVE ConclusionSound'
  BY <1>15 DEF ReadChunk, Kept, Room, Overstepped
<1>16. ASSUME NEW s \in Stream, ReadEnd(s) PROVE ConclusionSound'
  BY <1>16 DEF ReadEnd
<1>17. CASE Inspect
  <2> DEFINE told == [running |-> container = "running", error |-> error, oom |-> oom,
                      status |-> status]
  <2>1. pc = "inspect" /\ inspected = None
    BY <1>17 DEF Inspect
  <2>2. inspected' \in {told, None}
    BY <1>17, <2>1, Zenon DEF Inspect
  <2>3. told.running = (container = "running") /\ told.status = status
    OBVIOUS
  <2>4. told.oom = oom
    BY Zenon
  <2>5. UNCHANGED <<box, cli, code, unread, seen>> /\ pc' \in {"remove", "raised"}
    BY <1>17 DEF Inspect
  <2>6. (inspected # None)' => pc' = "remove"
    BY <1>17, <2>1 DEF Inspect
  <2> HIDE DEF told
  <2>7. QED
    BY <2>1, <2>2, <2>3, <2>4, <2>5, <2>6
<1>18. CASE Remove
  BY <1>18 DEF Remove
<1>19. CASE RemoveAgain
  BY <1>19 DEF RemoveAgain, SecondRemoval
<1>20. CASE UNCHANGED vars
  BY <1>20
<1> HIDE DEF Invariant, ConclusionSound
<1>21. QED
  BY <1>1, <1>2, <1>3, <1>4, <1>5, <1>6, <1>7, <1>8, <1>9, <1>10, <1>11, <1>12, <1>13,
     <1>14, <1>15, <1>16, <1>17, <1>18, <1>19, <1>20
     DEF Next, Program, Command, Capture

\* A run without a failing docker call.
LEMMA FaultlessStep ==
  ASSUME DockerRunAssumption, Invariant, [Next]_vars, faults' = 0
  PROVE  Faultless'
<1> USE DEF DockerRunAssumption, Invariant, TypeOK, PcPoint, Snapshot, ExitStatus,
      Stream, Sigkill, Killed, Broken, vars, box, tool, reading, conclusion, Stopping,
      Goes, Fault, BoxSound, CommandSound, HostSound, ConclusionSound, Faultless
<1>1. ASSUME NEW s \in Stream, Write(s) PROVE Faultless'
  BY <1>1 DEF Write
<1>2. CASE Exit
  BY <1>2 DEF Exit
<1>3. CASE OutOfMemory
  BY <1>3 DEF OutOfMemory
<1>4. CASE StartContainer
  BY <1>4 DEF StartContainer
<1>5. CASE CliCloses
  BY <1>5 DEF CliCloses
<1>6. CASE CliBreaks
  BY <1>6 DEF CliBreaks, SomeAreLost
<1>7. CASE CliExits
  BY <1>7 DEF CliExits
<1>8. CASE DeadlinePasses
  BY <1>8 DEF DeadlinePasses
<1>9. CASE Create
  BY <1>9 DEF Create
<1>10. CASE Attach
  BY <1>10 DEF Attach
<1>11. CASE CheckDeadline
  BY <1>11 DEF CheckDeadline
<1>12. CASE Kill
  BY <1>12 DEF Kill, KillHits
<1>13. CASE KillCli
  BY <1>13 DEF KillCli, SomeAreLost, Overdue
<1>14. CASE Wait
  BY <1>14 DEF Wait
<1>15. ASSUME NEW s \in Stream, ReadChunk(s) PROVE Faultless'
  BY <1>15 DEF ReadChunk, Kept, Room, Overstepped
<1>16. ASSUME NEW s \in Stream, ReadEnd(s) PROVE Faultless'
  BY <1>16 DEF ReadEnd
<1>17. CASE Inspect
  <2> DEFINE told == [running |-> container = "running", error |-> error, oom |-> oom,
                      status |-> status]
  <2>1. faults = 0 /\ inspected' = told /\ pc' = "remove" /\ pc = "inspect"
    <3>1. faults' # faults + 1
      OBVIOUS
    <3>2. faults' = faults
      BY <1>17, <3>1 DEF Inspect
    <3>3. QED
      BY <1>17, <3>1, <3>2, Zenon DEF Inspect
  <2>2. UNCHANGED <<box, tool, reading, seen>>
    BY <1>17 DEF Inspect
  <2>3. told.running = (container = "running")
    OBVIOUS
  <2>4. told.error = error
    BY Zenon
  <2>5. told # None
    <3>1. told \in [running : BOOLEAN, error : BOOLEAN, oom : BOOLEAN, status : ExitStatus]
      BY Zenon
    <3>2. QED
      BY <3>1, Zenon
  <2> HIDE DEF told
  <2>6. seen # None /\ seen = code
    BY <2>1
  <2>7. told.running => code = Killed
    BY <2>3, <2>1, <2>6
  <2>8. QED
    BY <2>1, <2>2, <2>4, <2>5, <2>6, <2>7
<1>18. CASE Remove
  BY <1>18 DEF Remove
<1>19. CASE RemoveAgain
  BY <1>19 DEF RemoveAgain, SecondRemoval
<1>20. CASE UNCHANGED vars
  BY <1>20
<1> HIDE DEF Invariant, Faultless
<1>21. QED
  BY <1>1, <1>2, <1>3, <1>4, <1>5, <1>6, <1>7, <1>8, <1>9, <1>10, <1>11, <1>12, <1>13,
     <1>14, <1>15, <1>16, <1>17, <1>18, <1>19, <1>20
     DEF Next, Program, Command, Capture

\* A run starts in a state the invariant allows.
LEMMA InitInvariant == ASSUME DockerRunAssumption, Init PROVE Invariant
<1> USE DEF DockerRunAssumption, Init, Stream, ExitStatus
<1>1. TypeOK
  <2>1. oom \in BOOLEAN /\ error \in BOOLEAN /\ late \in BOOLEAN
    BY Zenon
  <2>2. timedOut \in BOOLEAN /\ cleaned \in BOOLEAN
    BY Zenon
  <2>3. ended \in {None, "own", "host", "memory"} /\ code \in ExitStatus \cup {Killed, None}
    BY Zenon
  <2>4. /\ stopped \in BOOLEAN \cup {None} /\ seen \in ExitStatus \cup {Killed, None}
        /\ inspected \in Snapshot \cup {None}
    BY Zenon
  <2>5. captured \in [Stream -> 0..(Limit + 1)] /\ wrote \in [Stream -> Nat]
    OBVIOUS
  <2>6. QED
    BY <2>1, <2>2, <2>3, <2>4, <2>5 DEF TypeOK, PcPoint
<1>2. BoxSound /\ CommandSound
  BY DEF BoxSound, CommandSound, Stopping
<1>3. HostSound
  <2>1. stopped # TRUE /\ stopped = None /\ ~Stopping
    BY Zenon DEF Stopping
  <2>2. StreamsFitMarkers
    BY DEF StreamsFitMarkers
  <2>3. pc = "create" /\ (timedOut => late)
    BY Zenon
  <2>4. QED
    BY <2>1, <2>2, <2>3, Zenon DEF HostSound
<1>4. ConclusionSound /\ Faultless
  BY DEF ConclusionSound, LeftBehindNeedsTwoFaults, Returned, Faultless
<1>5. QED
  BY <1>1, <1>2, <1>3, <1>4 DEF Invariant

\* The invariant of a run: docker_judge.py keeps its account of the streams, of the
\* stop and of what docker told it in step with the container and its command.
THEOREM Correctness == Spec => []Invariant
<1>1. Invariant /\ [Next]_vars => Invariant'
  <2> SUFFICES ASSUME Invariant, [Next]_vars PROVE Invariant'
    OBVIOUS
  <2>1. TypeOK' /\ BoxSound' /\ CommandSound' /\ HostSound' /\ ConclusionSound'
    BY DockerRunAssumption, TypeOKStep, BoxSoundStep, CommandSoundStep, HostSoundStep,
       ConclusionSoundStep
  <2>2. faults' = 0 => Faultless'
    BY DockerRunAssumption, FaultlessStep
  <2>3. QED
    BY <2>1, <2>2 DEF Invariant
<1>2. Init => Invariant
  BY DockerRunAssumption, InitInvariant
<1>3. QED
  BY <1>1, <1>2, PTL DEF Spec

\* The four outcomes that are verdicts, taken apart.
LEMMA OutcomeMeaning ==
  ASSUME TypeOK, Outcome # "infrastructure_error"
  PROVE  /\ Trusted
         /\ Outcome = "tle" <=> timedOut
         /\ Outcome = "output_limit" <=> ~timedOut /\ limited # {}
         /\ Outcome = "mle" <=> ~Stopping /\ inspected.oom
         /\ Outcome = "ac" <=> ~Stopping /\ ~inspected.oom /\ inspected.status = 0
         /\ Outcome = "runtime_error" <=> ~Stopping /\ ~inspected.oom /\ inspected.status # 0
<1>1. Trusted
  BY DEF Outcome
<1>2. QED
  BY <1>1 DEF Outcome, Stopping, TypeOK, Trusted, StreamsFitMarkers

\* What run returns fits the state of the program it is about.
LEMMA ReturnedFacts ==
  ASSUME DockerRunAssumption, Invariant, Returned, Trusted
  PROVE  /\ inspected.status = status /\ inspected.oom = oom /\ container # "running"
         /\ seen = code /\ cli = "exited" /\ \A s \in Stream : unread[s] = 0
<1> USE DEF Invariant
<1>1. seen # None /\ inspected # None /\ ~inspected.running
  BY DEF Trusted, TypeOK, Snapshot, DockerRunAssumption, ExitStatus
<1>2. QED
  BY <1>1 DEF ConclusionSound

\* A verdict is true of the program it judges, whatever raced and failed.
LEMMA TrueVerdicts == ASSUME DockerRunAssumption, Invariant PROVE VerdictIsTrue
<1> SUFFICES ASSUME Returned PROVE VerdictIsTrue
  BY DEF VerdictIsTrue
<1> USE DEF Invariant
<1>1. Outcome # "infrastructure_error" =>
        Trusted /\ inspected.status = status /\ inspected.oom = oom
  BY OutcomeMeaning, ReturnedFacts
<1>2. Outcome = "ac" =>
        ended = "own" /\ status = 0 /\ ~oom /\ (\A s \in Stream : captured[s] = wrote[s])
  <2> SUFFICES ASSUME Outcome = "ac"
               PROVE  /\ ended = "own" /\ status = 0 /\ ~oom
                      /\ (\A s \in Stream : captured[s] = wrote[s])
    OBVIOUS
  <2>1. ~Stopping /\ ~oom /\ status = 0 /\ seen = 0 /\ code = 0
    BY <1>1, OutcomeMeaning, ReturnedFacts DEF Trusted
  <2>2. ended = "own"
    BY <2>1 DEF ConclusionSound, BoxSound, TypeOK
  <2>3. \A s \in Stream : captured[s] = wrote[s]
    BY <2>1, <1>1, ReturnedFacts DEF CommandSound, TypeOK
  <2>4. QED
    BY <2>1, <2>2, <2>3
<1>3. ~Stopping /\ ~oom /\ status # 0 => ended = "own"
  BY DEF BoxSound, TypeOK
<1>4. Outcome = "runtime_error" => ended = "own" /\ status # 0 /\ ~oom
  BY <1>1, <1>3, OutcomeMeaning
<1>5. Stopping /\ Trusted => ended = "host"
  BY DEF Trusted, HostSound
<1>6. Outcome = "tle" => late /\ ended = "host" /\ ~oom
  BY <1>1, <1>5, OutcomeMeaning DEF Trusted, HostSound, Stopping
<1>7. Outcome = "output_limit" => ended = "host" /\ \E s \in Stream : wrote[s] > Limit
  <2> SUFFICES ASSUME Outcome = "output_limit"
               PROVE  ended = "host" /\ \E s \in Stream : wrote[s] > Limit
    OBVIOUS
  <2>1. PICK s \in limited : TRUE
    BY OutcomeMeaning
  <2>2. s \in Stream /\ captured[s] = Limit + 1
    BY <2>1 DEF HostSound, StreamsFitMarkers, TypeOK
  <2>3. wrote[s] > Limit
    BY <2>2 DEF CommandSound, TypeOK, DockerRunAssumption
  <2>4. QED
    BY <1>1, <1>5, <2>1, <2>2, <2>3 DEF Stopping
<1>8. Outcome = "mle" => oom
  BY <1>1, OutcomeMeaning
<1>9. CompileOutcome = "compile_error" => ended = "own" /\ status = 1
  <2> SUFFICES ASSUME CompileOutcome = "compile_error" PROVE ended = "own" /\ status = 1
    OBVIOUS
  <2>1. Trusted /\ ~Stopping /\ ~inspected.oom /\ inspected.status = 1
    BY DEF CompileOutcome
  <2>2. QED
    BY <2>1, <1>3, ReturnedFacts
<1>10. QED
  BY <1>2, <1>4, <1>6, <1>7, <1>8, <1>9 DEF VerdictIsTrue

\* Without a failing docker call only a race at the stop keeps a verdict back.
LEMMA VerdictCause == ASSUME DockerRunAssumption, Invariant PROVE NoVerdictHasACause
<1> SUFFICES ASSUME Returned, faults = 0,
                    ~(Stopping /\ (ended # "host" \/ status # Sigkill \/ oom))
             PROVE  Outcome # "infrastructure_error"
  BY DEF NoVerdictHasACause
<1> USE DEF Invariant
<1>1. /\ pc = "done" /\ seen # None /\ inspected # None /\ cleaned /\ seen = code
      /\ ~inspected.error
  BY DEF Returned, Faultless, ConclusionSound
<1>2. Stopping => stopped = TRUE
  BY DEF Faultless
<1>3. code # Killed
  <2>1. stopped # FALSE
    <3>1. FALSE # None
      BY Zenon DEF DockerRunAssumption
    <3>2. stopped = FALSE => Stopping
      BY <3>1, Zenon DEF HostSound
    <3>3. QED
      BY <3>2, <1>2, Zenon
  <2>2. status # Killed
    BY DEF TypeOK, ExitStatus, Killed
  <2>3. QED
    BY <1>1, <2>1, <2>2, Zenon DEF Faultless
<1>4. code = status /\ ~inspected.running
  BY <1>1, <1>3 DEF Faultless
<1>5. inspected.status = status /\ inspected.oom = oom
  BY <1>1, <1>4 DEF ConclusionSound
<1>6. ~Stopping => stopped = None
  BY DEF HostSound
<1>7. Trusted
  BY <1>1, <1>2, <1>4, <1>5, <1>6 DEF Trusted, HostSound
<1>8. QED
  BY <1>7 DEF Outcome, Stopping

\* Every verdict of DockerCliBackend is true, whatever raced and failed.
THEOREM VerdictsAreTrue == Spec => []VerdictIsTrue
<1>1. Invariant => VerdictIsTrue
  BY DockerRunAssumption, TrueVerdicts
<1>2. QED
  BY <1>1, Correctness, PTL

\* The host's account of the two streams is consistent all along.
THEOREM CaptureConsistent == Spec => []CaptureIsConsistent
<1>1. Invariant => CaptureIsConsistent
  BY DEF Invariant, HostSound, CaptureIsConsistent
<1>2. QED
  BY <1>1, Correctness, PTL

\* A verdict is kept back for a failing docker call or a race at the stop only.
THEOREM VerdictsAreGiven == Spec => []NoVerdictHasACause
<1>1. Invariant => NoVerdictHasACause
  BY DockerRunAssumption, VerdictCause
<1>2. QED
  BY <1>1, Correctness, PTL

\* It takes two failing calls to leave a container behind a run that returned.
THEOREM NothingLeftBehind == Spec => []LeftBehindNeedsTwoFaults
<1>1. Invariant => LeftBehindNeedsTwoFaults
  BY DEF Invariant, ConclusionSound
<1>2. QED
  BY <1>1, Correctness, PTL

\* Every state of a run has the shape of the code's.
THEOREM TypeCorrectness == Spec => []TypeOK
<1>1. Invariant => TypeOK
  BY DEF Invariant
<1>2. QED
  BY <1>1, Correctness, PTL

===============================================================================
