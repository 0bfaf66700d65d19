--------------------------- MODULE RunProcessProofs ---------------------------
(* Proofs about RunProcess, for every set of descendants, pipe size, set   *)
(* of exit codes and choice of abilities and failing calls.                *)
EXTENDS RunProcess, TLAPS

(* A step that ends a process, whichever action it is of. *)
EndStep ==
  \E p \in Procs : \E how \in Statuses :
    /\ Alive(p) /\ End(p, how)
    /\ \/ p = Leader /\ proc[p] = "grouped" /\ how \in StartFailures
       \/ proc[p] = "running" /\ how \in Ends
       \/ p \in doomed /\ how = Killed(SIGKILL)

(* The three actions that end a process do so with a status in range. *)
LEMMA EndingSteps ==
  ASSUME StartFails \/ (\E p \in Procs : EndsItself(p) \/ Die(p))
  PROVE  EndStep
<1> USE OutcomeAssumption DEF EndStep, Statuses, Exited, Killed, Alive
<1>1. CASE StartFails
  <2>1. Leader \in Procs
    BY DEF Procs
  <2>2. \A how \in StartFailures : how \in Statuses
    BY DEF StartFailures
  <2> QED BY <1>1, <2>1, <2>2 DEF StartFails, Runs
<1>2. CASE \E p \in Procs : EndsItself(p)
  <2>1. \A how \in Ends : how \in Statuses
    BY DEF Ends
  <2> QED BY <1>2, <2>1 DEF EndsItself, Free, Runs
<1>3. CASE \E p \in Procs : Die(p)
  <2>1. Killed(SIGKILL) \in Statuses
    BY DEF SIGKILL
  <2> QED BY <1>3, <2>1 DEF Die
<1> QED BY <1>1, <1>2, <1>3

(* The cases of a step, the endings taken together. *)
LEMMA StepCases ==
  ASSUME [Next]_vars
  PROVE  \/ SetupFails \/ Fork \/ StartReading
         \/ LeaveLoop \/ SelectReady \/ SelectTimesOut \/ SelectFails \/ Kill
         \/ \E s \in Streams : ReadChunk(s) \/ ReadEof(s) \/ ReadWouldBlock(s) \/ ReadFails(s)
         \/ CloseReadEnds \/ Reap \/ WaitFails
         \/ SetPgid \/ Exec \/ EndStep
         \/ \E p \in Procs : \E s \in Streams : BeginWrite(p, s) \/ CloseStream(p, s)
         \/ \E p \in Procs : \E q \in Descendants : ForkChild(p, q)
         \/ \E p \in Procs : LeaveGroup(p) \/ EndWrite(p)
         \/ Expire
         \/ UNCHANGED vars
BY EndingSteps DEF Next, AnalyzerNext, Read, ChildNext, ProgramNext, KernelNext, Terminated

-----------------------------------------------------------------------------
(* Type correctness.                                                       *)

LEMMA TypeInit == Init => TypeOK
<1> SUFFICES ASSUME Init
             PROVE  TypeOK
  OBVIOUS
<1>1. [s \in Streams |-> 0] \in [Streams -> 0..PipeSize]
  BY ConstantsAssumption
<1>2. result \in [exit_code : 0..255, error : Errors, timed_out : BOOLEAN]
  BY DEF Init, Errors, Result
<1>3. status \in Statuses
  BY DEF Init, Statuses
<1>4. proc \in [Procs -> States]
  BY DEF Init, States
<1>5. pending \in [Procs -> Streams \cup {NoStream}]
  BY DEF Init
<1> QED
  BY <1>1, <1>2, <1>3, <1>4, <1>5 DEF Init, TypeOK

LEMMA TypeStep == TypeOK /\ [Next]_vars => TypeOK'
<1> SUFFICES ASSUME TypeOK, [Next]_vars
             PROVE  TypeOK'
  OBVIOUS
<1> USE ConstantsAssumption, OutcomeAssumption DEF TypeOK, analyzerVars, processVars
<1>1. CASE SetupFails
  BY <1>1 DEF SetupFails, Errors
<1>2. CASE Fork
  BY <1>2 DEF Fork, States, Procs
<1>3. CASE StartReading
  BY <1>3 DEF StartReading
<1>4. CASE LeaveLoop
  BY <1>4 DEF LeaveLoop
<1>5. CASE SelectReady
  BY <1>5 DEF SelectReady
<1>6. CASE SelectTimesOut
  BY <1>6 DEF SelectTimesOut
<1>7. CASE SelectFails
  BY <1>7 DEF SelectFails, Errors
<1>8. CASE Kill
  <2>1. doomed' \in SUBSET Procs /\ ready' \in SUBSET Streams
    BY <1>8 DEF Kill, KillWith
  <2>2. owed' \in [Streams -> 0..PipeSize]
    BY <1>8 DEF Kill, KillWith
  <2>3. result' \in [exit_code : 0..255, error : Errors, timed_out : BOOLEAN]
    <3>1. result' = [result EXCEPT !.timed_out = TRUE]
      BY <1>8 DEF Kill, KillWith
    <3> HIDE DEF TypeOK
    <3>2. result \in [exit_code : 0..255, error : Errors, timed_out : BOOLEAN]
      BY DEF TypeOK
    <3> QED BY ONLY <3>1, <3>2
  <2>4. pc' \in {"close", "read"}
    BY <1>8 DEF Kill, KillWith
  <2> QED BY <1>8, <2>1, <2>2, <2>3, <2>4 DEF Kill, KillWith
<1>9. ASSUME NEW s \in Streams, ReadChunk(s)
      PROVE  TypeOK'
  BY <1>9 DEF ReadChunk
<1>10. ASSUME NEW s \in Streams, ReadEof(s) \/ ReadWouldBlock(s) \/ ReadFails(s)
       PROVE  TypeOK'
  BY <1>10 DEF ReadEof, ReadWouldBlock, ReadFails, StopReading
<1>11. CASE CloseReadEnds
  BY <1>11 DEF CloseReadEnds
<1>12. CASE Reap
  <2>1. result'.exit_code \in 0..255
    BY <1>12 DEF Reap, ExitCode, Statuses, NoStatus
  <2> QED BY <1>12, <2>1 DEF Reap, States, Procs
<1>13. CASE WaitFails
  BY <1>13 DEF WaitFails, States, Errors, Procs
<1>14. CASE SetPgid
  BY <1>14 DEF SetPgid, States, Procs
<1>15. CASE Exec
  BY <1>15 DEF Exec, States, Procs
<1>16. CASE EndStep
  BY <1>16 DEF EndStep, End, States
<1>17. ASSUME NEW p \in Procs, NEW s \in Streams, BeginWrite(p, s) \/ CloseStream(p, s)
       PROVE  TypeOK'
  BY <1>17 DEF BeginWrite, CloseStream
<1>18. ASSUME NEW p \in Procs, NEW q \in Descendants, ForkChild(p, q)
       PROVE  TypeOK'
  BY <1>18 DEF ForkChild, States, Procs
<1>19. ASSUME NEW p \in Procs, LeaveGroup(p) \/ EndWrite(p)
       PROVE  TypeOK'
  BY <1>19 DEF LeaveGroup, EndWrite
<1>20. CASE Expire
  BY <1>20 DEF Expire
<1>21. CASE UNCHANGED vars
  BY <1>21 DEF vars
<1> QED
  BY StepCases, <1>1, <1>2, <1>3, <1>4, <1>5, <1>6, <1>7, <1>8, <1>9, <1>10, <1>11, <1>12,
     <1>13, <1>14, <1>15, <1>16, <1>17, <1>18, <1>19, <1>20, <1>21

(* Every variable of RunProcess keeps its type. *)
THEOREM TypeCorrect == Spec => []TypeOK
BY TypeInit, TypeStep, PTL DEF Spec

-----------------------------------------------------------------------------
(* Both streams are captured completely.  That a stream at end of file can *)
(* never get another chunk rests on WritesHeld: a process that is writing  *)
(* holds the write end, so that the end of file was not seen too early.    *)

WritesHeld ==
  \A p \in Procs : /\ pending[p] # NoStream => pending[p] \in holds[p]
                   /\ proc[p] = "none" => holds[p] = {}

EofIsFinal ==
  \A s \in Streams : end[s] = "eof" => pipe[s] = 0 /\ HungUp(s)

EndsFollowControl ==
  /\ pc = "start" => \A s \in Streams : end[s] = "unopened"
  /\ pc \in {"parent", "loop", "read", "kill", "close"}
       => \A s \in Streams : end[s] \in {"open", "eof", "error"}
  /\ pc \in {"close", "wait", "done"} /\ result.error = "none" /\ ~result.timed_out
       => \A s \in Streams : end[s] \in {"eof", "error"}

CaptureInv == WritesHeld /\ EofIsFinal /\ EndsFollowControl

LEMMA CaptureInit == Init => CaptureInv
BY DEF Init, CaptureInv, WritesHeld, EofIsFinal, EndsFollowControl

LEMMA CaptureStep == TypeOK /\ CaptureInv /\ [Next]_vars => CaptureInv'
<1> SUFFICES ASSUME TypeOK, CaptureInv, [Next]_vars
             PROVE  CaptureInv'
  OBVIOUS
<1> USE DEF CaptureInv, WritesHeld, EofIsFinal, EndsFollowControl,
            analyzerVars, processVars, Open, HungUp, NoStream
<1>1. CASE SetupFails
  BY <1>1, OutcomeAssumption DEF SetupFails, TypeOK
<1>2. CASE Fork
  BY <1>2 DEF Fork, TypeOK
<1>3. CASE StartReading
  BY <1>3 DEF StartReading
<1>4. CASE LeaveLoop
  BY <1>4 DEF LeaveLoop
<1>5. CASE SelectReady
  BY <1>5 DEF SelectReady
<1>6. CASE SelectTimesOut
  BY <1>6 DEF SelectTimesOut
<1>7. CASE SelectFails
  BY <1>7 DEF SelectFails, TypeOK
<1>8. CASE Kill
  BY <1>8 DEF Kill, KillWith, TypeOK
<1>9. ASSUME NEW s \in Streams, ReadChunk(s)
      PROVE  CaptureInv'
  BY <1>9 DEF ReadChunk, TypeOK
<1>10. ASSUME NEW s \in Streams, ReadEof(s) \/ ReadWouldBlock(s) \/ ReadFails(s)
       PROVE  CaptureInv'
  BY <1>10 DEF ReadEof, ReadWouldBlock, ReadFails, StopReading, Reading, TypeOK
<1>11. CASE CloseReadEnds
  BY <1>11 DEF CloseReadEnds, TypeOK
<1>12. CASE Reap
  BY <1>12 DEF Reap, TypeOK
<1>13. CASE WaitFails
  BY <1>13 DEF WaitFails, TypeOK
<1>14. CASE SetPgid
  BY <1>14 DEF SetPgid, Runs, TypeOK
<1>15. CASE Exec
  BY <1>15 DEF Exec, Runs, TypeOK
<1>16. CASE EndStep
  BY <1>16 DEF EndStep, End, TypeOK
<1>17. ASSUME NEW p \in Procs, NEW s \in Streams, BeginWrite(p, s) \/ CloseStream(p, s)
       PROVE  CaptureInv'
  BY <1>17 DEF BeginWrite, CloseStream, Free, Runs, TypeOK
<1>18. ASSUME NEW p \in Procs, NEW q \in Descendants, ForkChild(p, q)
       PROVE  CaptureInv'
  BY <1>18 DEF ForkChild, Free, Runs, Procs, TypeOK
<1>19. ASSUME NEW p \in Procs, LeaveGroup(p) \/ EndWrite(p)
       PROVE  CaptureInv'
  BY <1>19 DEF LeaveGroup, EndWrite, TypeOK
<1>20. CASE Expire
  BY <1>20 DEF Expire
<1>21. CASE UNCHANGED vars
  BY <1>21 DEF vars
<1> QED
  BY StepCases, <1>1, <1>2, <1>3, <1>4, <1>5, <1>6, <1>7, <1>8, <1>9, <1>10, <1>11, <1>12,
     <1>13, <1>14, <1>15, <1>16, <1>17, <1>18, <1>19, <1>20, <1>21

(* A run without error and timeout has captured both streams to their end, *)
(* whatever the program and its processes do meanwhile.                    *)
THEOREM CaptureIsComplete == Spec => []CompleteCapture
<1>1. TypeOK /\ CaptureInv => CompleteCapture
  BY DEF CaptureInv, EofIsFinal, EndsFollowControl, CompleteCapture
<1> QED
  BY <1>1, CaptureInit, CaptureStep, TypeCorrect, PTL DEF Spec

-----------------------------------------------------------------------------
(* What was in the pipes at the kill is read.  A chunk is owed only until  *)
(* the last read of its stream, and is still in the pipe until then.       *)

OwedIsInPipe ==
  \A s \in Streams : owed[s] <= pipe[s]

OwedIsStillRead ==
  \A s \in Streams : owed[s] > 0 => end[s] = "error" \/ (pc = "read" /\ s \in ready)

NothingOwedYet ==
  pc = "start" => \A s \in Streams : owed[s] = 0

OwedInv == OwedIsInPipe /\ OwedIsStillRead /\ NothingOwedYet

LEMMA OwedInit == Init => OwedInv
BY DEF Init, OwedInv, OwedIsInPipe, OwedIsStillRead, NothingOwedYet

LEMMA OwedStep == TypeOK /\ OwedInv /\ [Next]_vars => OwedInv'
<1> SUFFICES ASSUME TypeOK, OwedInv, [Next]_vars
             PROVE  OwedInv'
  OBVIOUS
<1> USE ConstantsAssumption, OutcomeAssumption DEF OwedInv, OwedIsInPipe, OwedIsStillRead, NothingOwedYet,
            analyzerVars, processVars, Open
<1>1. CASE SetupFails
  BY <1>1 DEF SetupFails
<1>2. CASE Fork
  BY <1>2 DEF Fork, TypeOK
<1>3. CASE StartReading
  BY <1>3 DEF StartReading
<1>4. CASE LeaveLoop
  BY <1>4 DEF LeaveLoop
<1>5. CASE SelectReady
  BY <1>5 DEF SelectReady
<1>6. CASE SelectTimesOut
  BY <1>6 DEF SelectTimesOut
<1>7. CASE SelectFails
  BY <1>7 DEF SelectFails, TypeOK
<1>8. CASE Kill
  BY <1>8 DEF Kill, KillWith, TypeOK
<1>9. ASSUME NEW s \in Streams, ReadChunk(s)
      PROVE  OwedInv'
  BY <1>9 DEF ReadChunk, TypeOK
<1>10. ASSUME NEW s \in Streams, ReadEof(s) \/ ReadWouldBlock(s) \/ ReadFails(s)
       PROVE  OwedInv'
  BY <1>10 DEF ReadEof, ReadWouldBlock, ReadFails, StopReading, Reading, TypeOK
<1>11. CASE CloseReadEnds
  BY <1>11 DEF CloseReadEnds, TypeOK
<1>12. CASE Reap
  BY <1>12 DEF Reap, TypeOK
<1>13. CASE WaitFails
  BY <1>13 DEF WaitFails, TypeOK
<1>14. CASE SetPgid
  BY <1>14 DEF SetPgid, Runs, TypeOK
<1>15. CASE Exec
  BY <1>15 DEF Exec, Runs, TypeOK
<1>16. CASE EndStep
  BY <1>16 DEF EndStep, End, TypeOK
<1>17. ASSUME NEW p \in Procs, NEW s \in Streams, BeginWrite(p, s) \/ CloseStream(p, s)
       PROVE  OwedInv'
  BY <1>17 DEF BeginWrite, CloseStream
<1>18. ASSUME NEW p \in Procs, NEW q \in Descendants, ForkChild(p, q)
       PROVE  OwedInv'
  BY <1>18 DEF ForkChild, Free, Runs, Procs, TypeOK
<1>19. ASSUME NEW p \in Procs, LeaveGroup(p) \/ EndWrite(p)
       PROVE  OwedInv'
  BY <1>19 DEF LeaveGroup, EndWrite, TypeOK
<1>20. CASE Expire
  BY <1>20 DEF Expire
<1>21. CASE UNCHANGED vars
  BY <1>21 DEF vars
<1> QED
  BY StepCases, <1>1, <1>2, <1>3, <1>4, <1>5, <1>6, <1>7, <1>8, <1>9, <1>10, <1>11, <1>12,
     <1>13, <1>14, <1>15, <1>16, <1>17, <1>18, <1>19, <1>20, <1>21

(* No chunk that was in a pipe at the kill is lost, unless the read fails. *)
THEOREM OutputIsKept == Spec => []OutputSoFarKept
<1>1. TypeOK /\ OwedInv => OutputSoFarKept
  BY ConstantsAssumption DEF OwedInv, OwedIsStillRead, OutputSoFarKept, TypeOK
<1> QED
  BY <1>1, OwedInit, OwedStep, TypeCorrect, PTL DEF Spec

-----------------------------------------------------------------------------
(* The whole group is killed, provided that the child is in its group when *)
(* the deadline passes: without that proviso the kill finds no group.      *)

ClockFollowsControl ==
  /\ pc = "start" => ~expired
  /\ pc = "kill" \/ result.timed_out => expired
  /\ expired => proc[Leader] # "forked"

MembersWereBorn ==
  \A p \in group : proc[p] # "none"

GroupInv == ClockFollowsControl /\ MembersWereBorn /\ GroupKilled

LEMMA GroupInit == Init => GroupInv
BY DEF Init, GroupInv, ClockFollowsControl, MembersWereBorn, GroupKilled, Result

LEMMA GroupStep == ~SlowStart /\ TypeOK /\ GroupInv /\ [Next]_vars => GroupInv'
<1> SUFFICES ASSUME ~SlowStart, TypeOK, GroupInv, [Next]_vars
             PROVE  GroupInv'
  OBVIOUS
<1> USE ConstantsAssumption, OutcomeAssumption DEF GroupInv, ClockFollowsControl, MembersWereBorn, GroupKilled,
            analyzerVars, processVars, Alive, Procs
<1>1. CASE SetupFails
  BY <1>1 DEF SetupFails, TypeOK
<1>2. CASE Fork
  BY <1>2 DEF Fork, TypeOK
<1>3. CASE StartReading
  BY <1>3 DEF StartReading
<1>4. CASE LeaveLoop
  BY <1>4 DEF LeaveLoop
<1>5. CASE SelectReady
  BY <1>5 DEF SelectReady
<1>6. CASE SelectTimesOut
  BY <1>6 DEF SelectTimesOut
<1>7. CASE SelectFails
  BY <1>7 DEF SelectFails, TypeOK
<1>8. CASE Kill
  BY <1>8 DEF Kill, KillWith, TypeOK
<1>9. ASSUME NEW s \in Streams, ReadChunk(s)
      PROVE  GroupInv'
  BY <1>9 DEF ReadChunk, TypeOK
<1>10. ASSUME NEW s \in Streams, ReadEof(s) \/ ReadWouldBlock(s) \/ ReadFails(s)
       PROVE  GroupInv'
  BY <1>10 DEF ReadEof, ReadWouldBlock, ReadFails, StopReading, Reading, TypeOK
<1>11. CASE CloseReadEnds
  BY <1>11 DEF CloseReadEnds, TypeOK
<1>12. CASE Reap
  BY <1>12 DEF Reap, TypeOK
<1>13. CASE WaitFails
  BY <1>13 DEF WaitFails, TypeOK
<1>14. CASE SetPgid
  BY <1>14 DEF SetPgid, Runs, TypeOK
<1>15. CASE Exec
  BY <1>15 DEF Exec, Runs, TypeOK
<1>16. CASE EndStep
  BY <1>16 DEF EndStep, End, TypeOK
<1>17. ASSUME NEW p \in Procs, NEW s \in Streams, BeginWrite(p, s) \/ CloseStream(p, s)
       PROVE  GroupInv'
  BY <1>17 DEF BeginWrite, CloseStream
<1>18. ASSUME NEW p \in Procs, NEW q \in Descendants, ForkChild(p, q)
       PROVE  GroupInv'
  BY <1>18 DEF ForkChild, Free, Runs, Procs, TypeOK
<1>19. ASSUME NEW p \in Procs, LeaveGroup(p) \/ EndWrite(p)
       PROVE  GroupInv'
  BY <1>19 DEF LeaveGroup, EndWrite, TypeOK
<1>20. CASE Expire
  BY <1>20 DEF Expire
<1>21. CASE UNCHANGED vars
  BY <1>21 DEF vars
<1> QED
  BY StepCases, <1>1, <1>2, <1>3, <1>4, <1>5, <1>6, <1>7, <1>8, <1>9, <1>10, <1>11, <1>12,
     <1>13, <1>14, <1>15, <1>16, <1>17, <1>18, <1>19, <1>20, <1>21

(* After a timeout every process of the group is dead or about to die.     *)
THEOREM GroupIsKilled ==
  ASSUME ~SlowStart
  PROVE  Spec => []GroupKilled
<1>1. GroupInv => GroupKilled
  BY DEF GroupInv
<1>2. TypeOK /\ GroupInv /\ [Next]_vars => GroupInv'
  BY GroupStep
<1> QED
  BY <1>1, <1>2, GroupInit, TypeCorrect, PTL DEF Spec

-----------------------------------------------------------------------------
(* Whoever has let go of both streams is not taken for late: LetGo stays   *)
(* true once it is, because no write end comes back, neither the           *)
(* analyzer's own nor one a process inherits, and an open stream without a *)
(* write end is readable.                                                  *)
NoEndKept == pc # "parent" => writeEnds = {}

LEMMA NoEndKeptInit == Init => NoEndKept
BY DEF Init, NoEndKept

LEMMA NoEndKeptStep == NoEndKept /\ [Next]_vars => NoEndKept'
<1> SUFFICES ASSUME NoEndKept, [Next]_vars
             PROVE  NoEndKept'
  OBVIOUS
<1>1. CASE Fork \/ StartReading
  BY <1>1 DEF Fork, StartReading, NoEndKept
<1>2. CASE ~Fork /\ ~StartReading
  <2>1. writeEnds' = writeEnds
    BY StepCases, <1>2
       DEF SetupFails, LeaveLoop, SelectReady, SelectTimesOut, SelectFails, Kill, KillWith,
           ReadChunk, ReadEof, ReadWouldBlock, ReadFails, StopReading, CloseReadEnds, Reap,
           WaitFails, SetPgid, Exec, EndStep, End, BeginWrite, CloseStream, ForkChild, LeaveGroup,
           EndWrite, Expire, vars, analyzerVars
  <2>2. pc = "parent" => pc' = pc
    BY StepCases, <1>2
       DEF SetupFails, LeaveLoop, SelectReady, SelectTimesOut, SelectFails, Kill, KillWith,
           ReadChunk, ReadEof, ReadWouldBlock, ReadFails, Reading, CloseReadEnds, Reap,
           WaitFails, SetPgid, Exec, EndStep, End, BeginWrite, CloseStream, ForkChild, LeaveGroup,
           EndWrite, Expire, vars, analyzerVars
  <2> QED BY <2>1, <2>2 DEF NoEndKept
<1> QED
  BY <1>1, <1>2

LEMMA LetGoStep == TypeOK /\ NoEndKept /\ LetGo /\ [Next]_vars => LetGo'
<1> SUFFICES ASSUME TypeOK, NoEndKept, LetGo, [Next]_vars
             PROVE  LetGo'
  OBVIOUS
<1>1. /\ ~SetupFails /\ ~Fork /\ ~Kill
      /\ \A p \in Procs, s \in Streams : ~CloseStream(p, s)
  BY DEF LetGo, SetupFails, Fork, Kill, KillWith, CloseStream
<1>2. ~SelectTimesOut
  BY DEF LetGo, NoEndKept, SelectTimesOut, Readable, HungUp
<1>3. /\ pc' \notin {"start", "kill"}
      /\ result' = result \/ result' = [result EXCEPT !.error = "select"]
           \/ result' = [result EXCEPT !.error = "waitpid"]
           \/ result' = [result EXCEPT !.exit_code = ExitCode(status)]
  BY StepCases, <1>1, <1>2
     DEF LetGo, StartReading, LeaveLoop, SelectReady, SelectFails, ReadChunk, ReadEof,
         ReadWouldBlock, ReadFails, StopReading, CloseReadEnds, Reap, WaitFails, SetPgid, Exec,
         EndStep, End, BeginWrite, ForkChild, LeaveGroup, EndWrite, Expire, vars, analyzerVars
<1>4. ~result'.timed_out
  BY <1>3 DEF LetGo, TypeOK
<1>5. \A p \in Procs : holds'[p] = {}
  <2>1. CASE holds' = holds
    BY <2>1 DEF LetGo
  <2>2. CASE EndStep
    BY <2>2 DEF EndStep, End, LetGo, TypeOK
  <2>3. ASSUME NEW p \in Procs, NEW q \in Descendants, ForkChild(p, q)
        PROVE  \A r \in Procs : holds'[r] = {}
    BY <2>3 DEF ForkChild, LetGo, TypeOK
  <2> QED
    BY StepCases, <1>1, <1>2, <2>1, <2>2, <2>3
       DEF StartReading, LeaveLoop, SelectReady, SelectFails, ReadChunk, ReadEof,
           ReadWouldBlock, ReadFails, StopReading, CloseReadEnds, Reap, WaitFails, SetPgid, Exec,
           BeginWrite, LeaveGroup, EndWrite, Expire, vars, processVars
<1> QED
  BY <1>3, <1>4, <1>5 DEF LetGo

(* A program without a write end left is never reported as timed out.      *)
THEOREM FinishedRunIsNotTimedOut == Spec => FinishedIsNotTimedOut
<1>1. LetGo => ~result.timed_out
  BY DEF LetGo
<1>2. Spec => []NoEndKept
  BY NoEndKeptInit, NoEndKeptStep, PTL DEF Spec
<1> QED
  BY <1>1, <1>2, TypeCorrect, LetGoStep, PTL DEF Spec, FinishedIsNotTimedOut

-----------------------------------------------------------------------------
(* RunProcess implements its contract.  LifeInv relates the life of the    *)
(* leader to where the analyzer is and to what its result says so far.     *)

LeaderFollowsControl ==
  /\ pc = "start" => proc[Leader] = "none"
  /\ pc \notin {"start", "done"} => proc[Leader] \in {"forked", "grouped", "running", "dead"}
  /\ pc = "done" => proc[Leader] \in {"none", "reaped"}
  /\ proc[Leader] \in {"none", "forked", "grouped"} => ~execed
  /\ proc[Leader] = "running" => execed

DoomFollowsKill ==
  \A p \in doomed : Alive(p) /\ result.timed_out

ResultFollowsControl ==
  /\ pc # "done" => result.exit_code = 1
  /\ pc \in {"start", "parent", "loop", "kill"} => result.error = "none" /\ ~result.timed_out
  /\ pc = "read" => result.error = "none"
  /\ pc \in {"close", "wait"} =>
       \/ result.error = "none"
       \/ "select" \in MayFail /\ result.error = "select" /\ ~result.timed_out
  /\ pc = "kill" => HasTimeout

LifeInv == LeaderFollowsControl /\ DoomFollowsKill /\ ResultFollowsControl

LEMMA LifeInit == Init => LifeInv
BY DEF Init, LifeInv, LeaderFollowsControl, DoomFollowsKill, ResultFollowsControl, Result, Procs

LEMMA LifeStep == TypeOK /\ LifeInv /\ [Next]_vars => LifeInv'
<1> SUFFICES ASSUME TypeOK, LifeInv, [Next]_vars
             PROVE  LifeInv'
  OBVIOUS
<1> USE ConstantsAssumption, OutcomeAssumption DEF LifeInv, LeaderFollowsControl, DoomFollowsKill,
        ResultFollowsControl, analyzerVars, processVars, Alive, Procs
<1>1. CASE SetupFails
  BY <1>1 DEF SetupFails, TypeOK
<1>2. CASE Fork
  BY <1>2 DEF Fork, TypeOK
<1>3. CASE StartReading
  BY <1>3 DEF StartReading
<1>4. CASE LeaveLoop
  BY <1>4 DEF LeaveLoop
<1>5. CASE SelectReady
  BY <1>5 DEF SelectReady
<1>6. CASE SelectTimesOut
  BY <1>6 DEF SelectTimesOut
<1>7. CASE SelectFails
  BY <1>7 DEF SelectFails, TypeOK
<1>8. CASE Kill
  BY <1>8 DEF Kill, KillWith, TypeOK
<1>9. ASSUME NEW s \in Streams, ReadChunk(s)
      PROVE  LifeInv'
  BY <1>9 DEF ReadChunk, TypeOK
<1>10. ASSUME NEW s \in Streams, ReadEof(s) \/ ReadWouldBlock(s) \/ ReadFails(s)
       PROVE  LifeInv'
  BY <1>10 DEF ReadEof, ReadWouldBlock, ReadFails, StopReading, Reading, TypeOK
<1>11. CASE CloseReadEnds
  BY <1>11 DEF CloseReadEnds, TypeOK
<1>12. CASE Reap
  BY <1>12 DEF Reap, TypeOK
<1>13. CASE WaitFails
  BY <1>13 DEF WaitFails, TypeOK
<1>14. CASE SetPgid
  BY <1>14 DEF SetPgid, Runs, TypeOK
<1>15. CASE Exec
  BY <1>15 DEF Exec, Runs, TypeOK
<1>16. CASE EndStep
  BY <1>16 DEF EndStep, End, TypeOK
<1>17. ASSUME NEW p \in Procs, NEW s \in Streams, BeginWrite(p, s) \/ CloseStream(p, s)
       PROVE  LifeInv'
  BY <1>17 DEF BeginWrite, CloseStream
<1>18. ASSUME NEW p \in Procs, NEW q \in Descendants, ForkChild(p, q)
       PROVE  LifeInv'
  BY <1>18 DEF ForkChild, Free, Runs, Procs, TypeOK
<1>19. ASSUME NEW p \in Procs, LeaveGroup(p) \/ EndWrite(p)
       PROVE  LifeInv'
  BY <1>19 DEF LeaveGroup, EndWrite, TypeOK
<1>20. CASE Expire
  BY <1>20 DEF Expire
<1>21. CASE UNCHANGED vars
  BY <1>21 DEF vars
<1> QED
  BY StepCases, <1>1, <1>2, <1>3, <1>4, <1>5, <1>6, <1>7, <1>8, <1>9, <1>10, <1>11, <1>12,
     <1>13, <1>14, <1>15, <1>16, <1>17, <1>18, <1>19, <1>20, <1>21

LEMMA ContractInit == Init => Contract!Init
BY DEF Init, Contract!Init, Contract!NoResult, Contract!Result, Contract!NoStatus, Result, NoStatus, Alive

(* Every step is a step of the contract or leaves its state alone. *)
LEMMA ContractStep ==
  TypeOK /\ LifeInv /\ [Next]_vars => [Contract!Next]_(Contract!contractVars)
<1> SUFFICES ASSUME TypeOK, LifeInv, [Next]_vars
             PROVE  Contract!Next \/ UNCHANGED Contract!contractVars
  OBVIOUS
<1> USE DEF LifeInv, LeaderFollowsControl, Contract!contractVars, analyzerVars, processVars, Alive
<1>1. CASE SetupFails
  <2>1. PICK call \in MayFail \cap {"pipe", "fork"} : result' = [result EXCEPT !.error = call]
    BY <1>1 DEF SetupFails
  <2>2. pc = "start" /\ pc' = "done" /\ UNCHANGED <<proc, status, execed>>
    BY <1>1 DEF SetupFails
  <2>3. result' = Contract!Result(1, call, FALSE)
    BY <2>1, <2>2 DEF Contract!Result, ResultFollowsControl, TypeOK
  <2>4. result'.timed_out = FALSE /\ result.timed_out = FALSE
    BY <2>2, <2>3 DEF Contract!Result, ResultFollowsControl, TypeOK
  <2>5. Contract!Refuse
    BY <2>2, <2>3, <2>4 DEF Contract!Refuse, Contract!Refusals
  <2> QED BY <2>5 DEF Contract!Next
<1>2. CASE Fork
  <2>1. Contract!Begin
    BY <1>2 DEF Fork, Contract!Begin, TypeOK, Procs
  <2> QED BY <2>1 DEF Contract!Next
<1>3. CASE StartReading
  BY <1>3 DEF StartReading
<1>4. CASE LeaveLoop
  BY <1>4 DEF LeaveLoop
<1>5. CASE SelectReady
  BY <1>5 DEF SelectReady
<1>6. CASE SelectTimesOut
  BY <1>6 DEF SelectTimesOut
<1>7. CASE SelectFails
  BY <1>7 DEF SelectFails, TypeOK
<1>8. CASE Kill
  <2>1. Contract!TimeOut
    BY <1>8 DEF Kill, KillWith, Contract!TimeOut, ResultFollowsControl, TypeOK
  <2> QED BY <2>1 DEF Contract!Next
<1>9. ASSUME NEW s \in Streams, ReadChunk(s)
      PROVE  UNCHANGED Contract!contractVars
  BY <1>9 DEF ReadChunk
<1>10. ASSUME NEW s \in Streams, ReadEof(s) \/ ReadWouldBlock(s) \/ ReadFails(s)
       PROVE  UNCHANGED Contract!contractVars
  BY <1>10 DEF ReadEof, ReadWouldBlock, ReadFails, StopReading, Reading
<1>11. CASE CloseReadEnds
  BY <1>11 DEF CloseReadEnds
<1>12. CASE Reap
  <2>1. Contract!Return
    <3>1. result' = Contract!Result(Contract!ExitCode(status), result.error, result.timed_out)
      BY <1>12 DEF Reap, ExitCode, Contract!ExitCode, Contract!Result, TypeOK
    <3>2. result' \in Contract!ResultsOf(status, result.timed_out)
      <4>1. \/ result.error = "none"
            \/ result.error \in MayFail \cap {"select"} /\ ~result.timed_out
        BY <1>12 DEF Reap, ResultFollowsControl
      <4>2. ~result.timed_out => result.timed_out = FALSE
        BY DEF TypeOK
      <4> QED BY <3>1, <4>1, <4>2 DEF Contract!ResultsOf
    <3> QED BY <1>12, <3>2 DEF Reap, Contract!Return, TypeOK
  <2> QED BY <2>1 DEF Contract!Next
<1>13. CASE WaitFails
  <2>1. Contract!Return
    BY <1>13 DEF WaitFails, Contract!Return, Contract!ResultsOf, Contract!Result,
                ResultFollowsControl, TypeOK
  <2> QED BY <2>1 DEF Contract!Next
<1>14. CASE SetPgid
  BY <1>14 DEF SetPgid, Runs, TypeOK, Procs
<1>15. CASE Exec
  <2>1. Contract!Start
    BY <1>15 DEF Exec, Runs, Contract!Start, TypeOK, Procs
  <2> QED BY <2>1 DEF Contract!Next
<1>16. CASE EndStep
  <2>1. PICK p \in Procs, how \in Statuses :
           /\ Alive(p) /\ End(p, how)
           /\ \/ p = Leader /\ proc[p] = "grouped" /\ how \in StartFailures
              \/ proc[p] = "running" /\ how \in Ends
              \/ p \in doomed /\ how = Killed(SIGKILL)
    BY <1>16 DEF EndStep
  <2>2. CASE p # Leader
    BY <2>1, <2>2 DEF End, TypeOK, Procs
  <2>3. CASE p = Leader
    <3>1. how \in Contract!EndsOf(execed, result.timed_out)
      <4>1. Contract!EndsOf(execed, result.timed_out) = EndsOf(execed, result.timed_out)
        BY DEF EndsOf, Contract!EndsOf, StartFailures, Contract!StartFailures, Ends, Contract!Ends,
               Exited, Contract!Exited, Killed, Contract!Killed, SIGKILL, Contract!SIGKILL
      <4> QED BY <2>1, <2>3, <4>1 DEF DoomFollowsKill, EndsOf
    <3>2. Contract!EndChild
      BY <2>1, <2>3, <3>1 DEF End, Contract!EndChild, TypeOK, Procs
    <3> QED BY <3>2 DEF Contract!Next
  <2> QED BY <2>2, <2>3
<1>17. ASSUME NEW p \in Procs, NEW s \in Streams, BeginWrite(p, s) \/ CloseStream(p, s)
       PROVE  UNCHANGED Contract!contractVars
  BY <1>17 DEF BeginWrite, CloseStream
<1>18. ASSUME NEW p \in Procs, NEW q \in Descendants, ForkChild(p, q)
       PROVE  UNCHANGED Contract!contractVars
  BY <1>18, ConstantsAssumption DEF ForkChild, TypeOK, Procs
<1>19. ASSUME NEW p \in Procs, LeaveGroup(p) \/ EndWrite(p)
       PROVE  UNCHANGED Contract!contractVars
  BY <1>19 DEF LeaveGroup, EndWrite
<1>20. CASE Expire
  BY <1>20 DEF Expire
<1>21. CASE UNCHANGED vars
  BY <1>21 DEF vars
<1> QED
  BY StepCases, <1>1, <1>2, <1>3, <1>4, <1>5, <1>6, <1>7, <1>8, <1>9, <1>10, <1>11, <1>12,
     <1>13, <1>14, <1>15, <1>16, <1>17, <1>18, <1>19, <1>20, <1>21

(* RunProcess returns once, only after the child it started has ended, and *)
(* returns how that child ended; the refinement mapping is Contract's.     *)
THEOREM ContractIsKept == Spec => ImplementsContract
<1>1. Spec => [](TypeOK /\ LifeInv)
  BY TypeCorrect, LifeInit, LifeStep, PTL DEF Spec
<1> QED
  BY <1>1, ContractInit, ContractStep, PTL DEF Spec, ImplementsContract, Contract!Spec
=============================================================================
