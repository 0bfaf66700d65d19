------------------------------ MODULE RunOutcome ------------------------------
(***************************************************************************)
(* How a program ends and what RunProcess reports of it: the vocabulary    *)
(* that RunProcess, its contract and its caller Run share (process.hpp,    *)
(* process.cpp:262-275).                                                   *)
(***************************************************************************)
EXTENDS Integers

CONSTANTS
  HasTimeout,   \* spec.timeout > 0
  ExitCodes,    \* the exit codes the program may end with
  CrashSignals, \* the signals it may die of by itself
  MayFail       \* the system calls that may fail

ASSUME OutcomeAssumption ==
  /\ HasTimeout \in BOOLEAN
  /\ ExitCodes \subseteq 0..255
  /\ CrashSignals \subseteq 1..127
  /\ MayFail \subseteq {"pipe", "fork", "exec", "select", "read", "waitpid"}

SIGKILL == 9
NoStatus == [how |-> "running", n |-> 0]
Exited(n) == [how |-> "exited", n |-> n]
Killed(n) == [how |-> "signaled", n |-> n]

(* The ways the program may end by itself. *)
Ends == {Exited(n) : n \in ExitCodes} \cup {Killed(n) : n \in CrashSignals}

(* The way the child ends when chdir fails (126), or execv does (127       *)
(* without the file, 126 otherwise).                                       *)
StartFailures == IF "exec" \in MayFail THEN {Exited(126), Exited(127)} ELSE {}

(* WEXITSTATUS, or 128 + WTERMSIG. *)
ExitCode(how) == IF how.how = "exited" THEN how.n ELSE 128 + how.n

(* A ProcessResult without its texts; an error names the call that failed. *)
Result(code, error, late) == [exit_code |-> code, error |-> error, timed_out |-> late]

(* Nothing was forked. *)
Refusals == {Result(1, call, FALSE) : call \in MayFail \cap {"pipe", "fork"}}

(* The ways a forked child may have ended, given whether execv succeeded   *)
(* and whether the group was killed.                                       *)
EndsOf(started, late) ==
  (IF started THEN Ends ELSE StartFailures) \cup (IF late THEN {Killed(SIGKILL)} ELSE {})

(* What is reported of a child that ended in a given way.  A select that   *)
(* failed ended the loop, so no deadline was seen after it; waitpid that   *)
(* failed leaves the code at its initial 1.                                *)
ResultsOf(how, late) ==
  {Result(ExitCode(how), "none", late)}
  \cup {Result(ExitCode(how), call, FALSE) :
          call \in IF late THEN {} ELSE MayFail \cap {"select"}}
  \cup {Result(1, call, late) : call \in MayFail \cap {"waitpid"}}
=============================================================================
