------------------------------ MODULE RunProcess ------------------------------
(***************************************************************************)
(* RunProcess (src/src/process.cpp): the analyzer forks the instrumented   *)
(* program into a process group of its own, reads its stdout and stderr    *)
(* from two pipes until both are at end of file or the deadline passes,    *)
(* kills the group at the deadline, and waits for the program.             *)
(*                                                                         *)
(* Three actors interleave: the analyzer (the parent after fork), the      *)
(* forked child until it calls execv, and the program with the processes   *)
(* it forks.  The last one and the kernel are external: what they may do   *)
(* is what process.cpp has to cope with.                                   *)
(*                                                                         *)
(* A chunk is what one write puts into a pipe and one read takes out.  The *)
(* captured text is not kept: every property about it is about the chunks  *)
(* that are still unread.                                                  *)
(***************************************************************************)
EXTENDS RunOutcome

CONSTANTS
  Leader,       \* the forked child; its pid is the id of the process group
  Descendants,  \* the other processes the program may fork
  PipeSize,     \* chunks a pipe holds before a writer blocks
  ProgramMay,   \* what the program does besides running and ending
  SlowStart     \* the deadline may pass before the child calls setpgid

Streams == {"stdout", "stderr"}
Procs == {Leader} \cup Descendants

ASSUME ConstantsAssumption ==
  /\ Leader \notin Descendants
  /\ SlowStart \in BOOLEAN
  /\ PipeSize \in Nat \ {0}
  /\ ProgramMay \subseteq {"write", "close", "fork", "leave"}

VARIABLES
  (* the analyzer *)
  pc,        \* where RunProcess is
  end,       \* per stream, its read end: "unopened", "open", "eof", "error" or "closed"
  writeEnds, \* the write ends the analyzer itself still holds
  ready,     \* the streams still to be read after a select, or after the kill
  result,    \* the ProcessResult without its texts
  (* the clock *)
  expired,   \* the deadline has passed
  (* the child, the program and the kernel *)
  proc,      \* per process, its state
  group,     \* the members of the process group named by the leader's pid
  doomed,    \* the processes with a SIGKILL pending
  holds,     \* per process, the write ends it holds
  pending,   \* per process, the stream its current write goes to
  pipe,      \* per stream, the chunks in the pipe
  status,    \* how the leader ended
  (* what the properties observe *)
  execed,    \* execv succeeded
  owed       \* per stream, the unread chunks that were in the pipe at the kill

analyzerVars == <<pc, end, writeEnds, ready, result>>
processVars == <<proc, group, doomed, holds, pending, status>>
vars == <<analyzerVars, expired, processVars, pipe, execed, owed>>

NoStream == "none"

Open(s) == end[s] = "open"
Alive(p) == proc[p] \in {"forked", "grouped", "running"}
(* No process holds a write end any more: a read of an empty pipe returns 0. *)
HungUp(s) == s \notin writeEnds /\ \A p \in Procs : s \notin holds[p]
Readable(s) == Open(s) /\ (pipe[s] > 0 \/ HungUp(s))

Init ==
  /\ pc = "start"
  /\ end = [s \in Streams |-> "unopened"]
  /\ writeEnds = {}
  /\ ready = {}
  /\ result = Result(1, "none", FALSE)
  /\ expired = FALSE
  /\ proc = [p \in Procs |-> "none"]
  /\ group = {}
  /\ doomed = {}
  /\ holds = [p \in Procs |-> {}]
  /\ pending = [p \in Procs |-> NoStream]
  /\ pipe = [s \in Streams |-> 0]
  /\ status = NoStatus
  /\ execed = FALSE
  /\ owed = [s \in Streams |-> 0]

-----------------------------------------------------------------------------
(* The analyzer.                                                           *)

(* A pipe or the fork fails: everything opened is closed and the error     *)
(* returned (descriptor by descriptor in module Descriptors).              *)
SetupFails ==
  /\ pc = "start"
  /\ \E call \in MayFail \cap {"pipe", "fork"} :
        result' = [result EXCEPT !.error = call]
  /\ pc' = "done"
  /\ UNCHANGED <<end, writeEnds, ready, expired, processVars, pipe, execed, owed>>

Fork ==
  /\ pc = "start"
  /\ pc' = "parent"
  /\ end' = [s \in Streams |-> "open"]
  /\ writeEnds' = Streams
  /\ proc' = [proc EXCEPT ![Leader] = "forked"]
  /\ holds' = [holds EXCEPT ![Leader] = Streams]
  /\ UNCHANGED <<ready, result, expired, group, doomed, pending, pipe, status, execed, owed>>

(* The parent drops its own write ends and starts the clock. *)
StartReadingMutKeepsWriteEnds ==
  /\ pc = "parent"
  /\ pc' = "loop"
  /\ UNCHANGED <<end, writeEnds, ready, result, expired, processVars, pipe, execed, owed>>

StartReading ==
  /\ pc = "parent"
  /\ pc' = "loop"
  /\ writeEnds' = {}
  /\ UNCHANGED <<end, ready, result, expired, processVars, pipe, execed, owed>>

(* while (stdout_open || stderr_open) *)
LeaveLoopMutAnyClosed ==
  /\ pc = "loop"
  /\ \E s \in Streams : ~Open(s)
  /\ pc' = "close"
  /\ UNCHANGED <<end, writeEnds, ready, result, expired, processVars, pipe, execed, owed>>

LeaveLoop ==
  /\ pc = "loop"
  /\ \A s \in Streams : ~Open(s)
  /\ pc' = "close"
  /\ UNCHANGED <<end, writeEnds, ready, result, expired, processVars, pipe, execed, owed>>

(* select returns the streams that are readable now, whatever the time.    *)
(* It blocks until there is one; an EINTR only repeats the loop.           *)
SelectReadyMutOneStream ==
  /\ pc = "loop"
  /\ LET watched == IF Open("stdout") THEN {"stdout"} ELSE Streams
     IN  /\ ready' = {s \in watched : Readable(s)}
         /\ ready' # {}
  /\ pc' = "read"
  /\ UNCHANGED <<end, writeEnds, result, expired, processVars, pipe, execed, owed>>

SelectReady ==
  /\ pc = "loop"
  /\ ready' = {s \in Streams : Readable(s)}
  /\ ready' # {}
  /\ pc' = "read"
  /\ UNCHANGED <<end, writeEnds, result, expired, processVars, pipe, execed, owed>>

(* select returns 0: nothing is readable and no time is left. *)
SelectTimesOut ==
  /\ pc = "loop"
  /\ HasTimeout /\ expired
  /\ \E s \in Streams : Open(s)
  /\ \A s \in Streams : ~Readable(s)
  /\ pc' = "kill"
  /\ UNCHANGED <<end, writeEnds, ready, result, expired, processVars, pipe, execed, owed>>

SelectFails ==
  /\ pc = "loop"
  /\ "select" \in MayFail
  /\ \E s \in Streams : Open(s)
  /\ result' = [result EXCEPT !.error = "select"]
  /\ pc' = "close"
  /\ UNCHANGED <<end, writeEnds, ready, expired, processVars, pipe, execed, owed>>

(* kill(-pid, SIGKILL), its result ignored; then both streams are read one *)
(* last time.                                                              *)
KillWith(victims, streams) ==
  /\ pc = "kill"
  /\ doomed' = doomed \cup victims
  /\ result' = [result EXCEPT !.timed_out = TRUE]
  /\ ready' = streams
  /\ owed' = [s \in Streams |-> IF Open(s) THEN pipe[s] ELSE 0]
  /\ pc' = IF streams = {} THEN "close" ELSE "read"
  /\ UNCHANGED <<end, writeEnds, expired, proc, group, holds, pending, pipe, status, execed>>

KillMutLeaderOnly ==
  KillWith({p \in {Leader} : Alive(p)}, {s \in Streams : Open(s)})
KillMutNobody ==
  KillWith({}, {s \in Streams : Open(s)})
KillMutNoLastRead ==
  KillWith({p \in group : Alive(p)}, {})

Kill ==
  KillWith({p \in group : Alive(p)}, {s \in Streams : Open(s)})

(* AppendFromFd on the first ready stream, one read at a time. *)
Current == IF "stdout" \in ready THEN "stdout" ELSE "stderr"

Reading(s) == pc = "read" /\ s = Current

(* AppendFromFd returns: the next ready stream, or the end of the turn.    *)
StopReading(s) ==
  /\ ready' = ready \ {s}
  /\ pc' = IF ready' # {} THEN "read"
           ELSE IF result.timed_out THEN "close" ELSE "loop"
  /\ UNCHANGED <<writeEnds, result, expired, processVars, pipe, execed, owed>>

ReadChunk(s) ==
  /\ Reading(s)
  /\ pipe[s] > 0
  /\ pipe' = [pipe EXCEPT ![s] = @ - 1]
  /\ owed' = [owed EXCEPT ![s] = IF @ > 0 THEN @ - 1 ELSE 0]
  /\ UNCHANGED <<analyzerVars, expired, processVars, execed>>

ReadEof(s) ==
  /\ Reading(s)
  /\ pipe[s] = 0
  /\ HungUp(s)
  /\ end' = [end EXCEPT ![s] = "eof"]
  /\ StopReading(s)

(* EAGAIN: the pipe is empty and some process still holds its write end.   *)
ReadWouldBlock(s) ==
  /\ Reading(s)
  /\ pipe[s] = 0
  /\ ~HungUp(s)
  /\ UNCHANGED end
  /\ StopReading(s)

ReadFails(s) ==
  /\ Reading(s)
  /\ "read" \in MayFail
  /\ end' = [end EXCEPT ![s] = "error"]
  /\ StopReading(s)

CloseReadEnds ==
  /\ pc = "close"
  /\ end' = [s \in Streams |-> IF Open(s) THEN "closed" ELSE end[s]]
  /\ pc' = "wait"
  /\ UNCHANGED <<writeEnds, ready, result, expired, processVars, pipe, execed, owed>>

ReapMutNegativeSignal ==
  /\ pc = "wait"
  /\ proc[Leader] = "dead"
  /\ proc' = [proc EXCEPT ![Leader] = "reaped"]
  /\ result' = [result EXCEPT !.exit_code = IF status.how = "exited" THEN status.n ELSE -status.n]
  /\ pc' = "done"
  /\ UNCHANGED <<end, writeEnds, ready, expired, group, doomed, holds, pending, status,
                 pipe, execed, owed>>
ReapMutNoHang ==
  /\ pc = "wait"
  /\ proc' = [proc EXCEPT ![Leader] = "reaped"]
  /\ result' = [result EXCEPT !.exit_code = ExitCode(status)]
  /\ pc' = "done"
  /\ UNCHANGED <<end, writeEnds, ready, expired, group, doomed, holds, pending, status,
                 pipe, execed, owed>>

(* waitpid blocks, without any deadline, until the leader has ended. *)
Reap ==
  /\ pc = "wait"
  /\ proc[Leader] = "dead"
  /\ proc' = [proc EXCEPT ![Leader] = "reaped"]
  /\ result' = [result EXCEPT !.exit_code = ExitCode(status)]
  /\ pc' = "done"
  /\ UNCHANGED <<end, writeEnds, ready, expired, group, doomed, holds, pending, status,
                 pipe, execed, owed>>

(* ECHILD: SIGCHLD is ignored, so the kernel has already reaped the leader. *)
WaitFails ==
  /\ pc = "wait"
  /\ "waitpid" \in MayFail
  /\ proc[Leader] = "dead"
  /\ proc' = [proc EXCEPT ![Leader] = "reaped"]
  /\ result' = [result EXCEPT !.error = "waitpid"]
  /\ pc' = "done"
  /\ UNCHANGED <<end, writeEnds, ready, expired, group, doomed, holds, pending, status,
                 pipe, execed, owed>>

Read ==
  \E s \in Streams : ReadChunk(s) \/ ReadEof(s) \/ ReadWouldBlock(s) \/ ReadFails(s)

AnalyzerNext ==
  \/ SetupFails \/ Fork \/ StartReading
  \/ LeaveLoop \/ SelectReady \/ SelectTimesOut \/ SelectFails
  \/ Kill
  \/ Read
  \/ CloseReadEnds \/ Reap \/ WaitFails

-----------------------------------------------------------------------------
(* The forked child, up to execv.                                          *)

(* A process ends: its write ends are closed and its status kept. *)
End(p, how) ==
  /\ proc' = [proc EXCEPT ![p] = "dead"]
  /\ doomed' = doomed \ {p}
  /\ holds' = [holds EXCEPT ![p] = {}]
  /\ pending' = [pending EXCEPT ![p] = NoStream]
  /\ status' = IF p = Leader THEN how ELSE status
  /\ UNCHANGED <<analyzerVars, expired, group, pipe, execed, owed>>

Runs(p, state) == proc[p] = state /\ p \notin doomed

SetPgid ==
  /\ Runs(Leader, "forked")
  /\ proc' = [proc EXCEPT ![Leader] = "grouped"]
  /\ group' = group \cup {Leader}
  /\ UNCHANGED <<analyzerVars, expired, doomed, holds, pending, status, pipe, execed, owed>>

(* chdir or execv fails. *)
StartFails ==
  /\ Runs(Leader, "grouped")
  /\ \E how \in StartFailures : End(Leader, how)

Exec ==
  /\ Runs(Leader, "grouped")
  /\ proc' = [proc EXCEPT ![Leader] = "running"]
  /\ execed' = TRUE
  /\ UNCHANGED <<analyzerVars, expired, group, doomed, holds, pending, status, pipe, owed>>

ChildNext == SetPgid \/ StartFails \/ Exec

-----------------------------------------------------------------------------
(* The program and its processes (external).                               *)

Free(p) == Runs(p, "running") /\ pending[p] = NoStream

(* A write starts; it blocks the process until the pipe has room. *)
BeginWrite(p, s) ==
  /\ "write" \in ProgramMay
  /\ Free(p)
  /\ s \in holds[p]
  /\ pending' = [pending EXCEPT ![p] = s]
  /\ UNCHANGED <<analyzerVars, expired, proc, group, doomed, holds, status, pipe, execed, owed>>

(* The process closes a stream, or redirects it elsewhere. *)
CloseStream(p, s) ==
  /\ "close" \in ProgramMay
  /\ Free(p)
  /\ s \in holds[p]
  /\ holds' = [holds EXCEPT ![p] = @ \ {s}]
  /\ UNCHANGED <<analyzerVars, expired, proc, group, doomed, pending, status, pipe, execed, owed>>

(* The child inherits the streams and the group. *)
ForkChild(p, q) ==
  /\ "fork" \in ProgramMay
  /\ Free(p)
  /\ proc[q] = "none"
  /\ proc' = [proc EXCEPT ![q] = "running"]
  /\ holds' = [holds EXCEPT ![q] = holds[p]]
  /\ group' = IF p \in group THEN group \cup {q} ELSE group
  /\ UNCHANGED <<analyzerVars, expired, doomed, pending, status, pipe, execed, owed>>

(* setsid: refused to a group leader. *)
LeaveGroup(p) ==
  /\ "leave" \in ProgramMay
  /\ Free(p)
  /\ p \in group \ {Leader}
  /\ group' = group \ {p}
  /\ UNCHANGED <<analyzerVars, expired, proc, doomed, holds, pending, status, pipe, execed, owed>>

EndsItself(p) == Free(p) /\ \E how \in Ends : End(p, how)

ProgramNext ==
  \E p \in Procs :
    \/ \E s \in Streams : BeginWrite(p, s) \/ CloseStream(p, s)
    \/ \E q \in Descendants : ForkChild(p, q)
    \/ LeaveGroup(p)
    \/ EndsItself(p)

-----------------------------------------------------------------------------
(* The kernel and the clock (external).                                    *)

(* A write whose reader is gone ends with EPIPE; the SIGPIPE that comes    *)
(* with it is EndsItself.                                                  *)
EndWrite(p) ==
  /\ Alive(p)
  /\ \E s \in Streams :
        /\ pending[p] = s
        /\ IF Open(s) THEN /\ pipe[s] < PipeSize
                           /\ pipe' = [pipe EXCEPT ![s] = @ + 1]
                      ELSE UNCHANGED pipe
  /\ pending' = [pending EXCEPT ![p] = NoStream]
  /\ UNCHANGED <<analyzerVars, expired, proc, group, doomed, holds, status, execed, owed>>

(* A pending SIGKILL takes effect; a write under way may still end before. *)
Die(p) == Alive(p) /\ p \in doomed /\ End(p, Killed(SIGKILL))

(* The clock is only read before a select, so the deadline is seen there.  *)
Expire ==
  /\ HasTimeout /\ ~expired
  /\ pc \in {"loop", "read"}
  /\ SlowStart \/ proc[Leader] # "forked"
  /\ expired' = TRUE
  /\ UNCHANGED <<analyzerVars, processVars, pipe, execed, owed>>

KernelNext == Expire \/ \E p \in Procs : EndWrite(p) \/ Die(p)

(* The run has returned. *)
Terminated == pc = "done" /\ UNCHANGED vars

Next == AnalyzerNext \/ ChildNext \/ ProgramNext \/ KernelNext \/ Terminated

Spec == Init /\ [][Next]_vars

(* The analyzer and the forked child are scheduled, the kernel delivers    *)
(* signals and ends writes.  Nothing is assumed of the program, nor that   *)
(* the deadline passes (a run in which it never does is also one without a *)
(* timeout), nor that select, which waits, fails.                          *)
Fairness ==
  /\ WF_vars(AnalyzerNext /\ ~SelectFails)
  /\ WF_vars(ChildNext)
  /\ \A p \in Procs : WF_vars(EndWrite(p)) /\ WF_vars(Die(p))

FairSpec == Spec /\ Fairness
-----------------------------------------------------------------------------
(* Properties.                                                             *)

States == {"none", "forked", "grouped", "running", "dead", "reaped"}
Errors == {"none", "pipe", "fork", "select", "waitpid"}
Statuses == {NoStatus} \cup [how : {"exited"}, n : 0..255] \cup [how : {"signaled"}, n : 1..127]

(* Every variable has its type.                                            *)
TypeOK ==
  /\ pc \in {"start", "parent", "loop", "read", "kill", "close", "wait", "done"}
  /\ end \in [Streams -> {"unopened", "open", "eof", "error", "closed"}]
  /\ writeEnds \in SUBSET Streams
  /\ ready \in SUBSET Streams
  /\ result \in [exit_code : 0..255, error : Errors, timed_out : BOOLEAN]
  /\ expired \in BOOLEAN
  /\ proc \in [Procs -> States]
  /\ group \in SUBSET Procs
  /\ doomed \in SUBSET Procs
  /\ holds \in [Procs -> SUBSET Streams]
  /\ pending \in [Procs -> Streams \cup {NoStream}]
  /\ pipe \in [Streams -> 0..PipeSize]
  /\ status \in Statuses
  /\ execed \in BOOLEAN
  /\ owed \in [Streams -> 0..PipeSize]

(* A run that returns without an error and without a timeout has read both *)
(* streams to their end: no chunk is left in a pipe and no process can     *)
(* still write one, however the writes of the program and the processes it *)
(* forked interleave with select and read (process.cpp:178-250).           *)
CompleteCapture ==
  pc = "done" /\ result.error = "none" /\ ~result.timed_out
    => \A s \in Streams : end[s] = "error" \/ (end[s] = "eof" /\ pipe[s] = 0 /\ HungUp(s))

(* What was in a pipe when the group was killed is read before RunProcess  *)
(* returns: "the output captured so far is kept" (process.hpp:30-31), the  *)
(* last chunks included.                                                   *)
OutputSoFarKept ==
  pc = "done" => \A s \in Streams : owed[s] = 0 \/ end[s] = "error"

(* When a run has timed out, no process of the group outlives it: each one *)
(* is dead or has its SIGKILL pending, a process forked during the kill or *)
(* by a process that is already gone included (process.hpp:30).            *)
GroupKilled ==
  result.timed_out => \A p \in group : Alive(p) => p \in doomed

(* The run is under way or over, not taken for late so far, and the        *)
(* program has let go of its streams: no process of it holds a write end.  *)
LetGo == pc \notin {"start", "kill"} /\ ~result.timed_out /\ \A p \in Procs : holds[p] = {}

(* A program that has let go of both streams, itself and all it forked,    *)
(* before a select has returned 0, is never reported as timed out, however *)
(* late after the deadline the analyzer is scheduled: no write end is left *)
(* or comes back, so the streams stay readable to their end, and select    *)
(* tells readable streams before it tells the time (process.cpp:168-169    *)
(* and 207-217).                                                           *)
FinishedIsNotTimedOut == [](LetGo => []~result.timed_out)

(* RunProcess keeps the contract its caller relies on (RunContract).       *)
Contract == INSTANCE RunContract WITH
  phase <- IF pc = "start" THEN "ready"
           ELSE IF pc = "done" THEN "returned"
           ELSE IF Alive(Leader) THEN "running" ELSE "ended",
  started <- execed,
  late <- result.timed_out,
  how <- status,
  outcome <- IF pc = "done" THEN result ELSE Result(1, "none", FALSE)

ImplementsContract == Contract!Spec

(* The clock goes on: a run that keeps reading reaches its deadline.       *)
DeadlinePasses == pc \in {"loop", "read"} ~> expired \/ pc \notin {"loop", "read"}

(* A run with a timeout returns: "No program can keep runtime-analyzer     *)
(* waiting past --timeout." (test/timeout/check_timeout.py:3)              *)
BoundedByTimeout == DeadlinePasses => (pc = "parent" ~> pc = "done")

(* While the leader lives, the analyzer has nothing left to read: the      *)
(* program has let go of both streams, or reading them has failed.         *)
Detached == Alive(Leader) /\ \A s \in Streams : HungUp(s) \/ end[s] = "error"

(* A run with a timeout returns, whatever its processes do (hang, fork,    *)
(* leave the group and keep the streams open), provided that they stop     *)
(* writing at some point, that the leader does not live on without a       *)
(* stream, and that select works: the three ways into a wait that no       *)
(* deadline ends (process.cpp:54, :253 and :209).                          *)
BoundedWhenQuiet ==
  (/\ <>[][\A p \in Procs : pending[p] = NoStream => pending'[p] = NoStream]_vars
   /\ []<>~Detached
   /\ [](result.error = "none"))
    => BoundedByTimeout

(* Once every process is gone RunProcess returns, also when no deadline    *)
(* passes or none was set: no forgotten write end keeps a read from ending *)
(* (process.cpp:168-169).                                                  *)
ReturnsOnceGone ==
  (pc # "start" /\ \A p \in Procs : ~Alive(p)) ~> pc = "done"

(* A process that fills the pipe of one stream is not left blocked: the    *)
(* analyzer drains both streams, also while the other one is silent        *)
(* (process.cpp:185-194).  Only another process that writes without end    *)
(* may keep it waiting, by filling the pipe first or by being read first.  *)
(* No deadline is needed for it.                                           *)
OthersFallSilent(p) ==
  <>[][\A q \in Procs \ {p} : pending[q] = NoStream => pending'[q] = NoStream]_vars

WriterReleased ==
  \A p \in Procs : OthersFallSilent(p) =>
    \A s \in Streams : pending[p] = s ~> pending[p] # s
=============================================================================
