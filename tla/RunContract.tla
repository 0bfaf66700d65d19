----------------------------- MODULE RunContract ------------------------------
(***************************************************************************)
(* What RunProcess promises its caller, without descriptors, streams or    *)
(* groups: one child is started at most once; RunProcess returns once, and *)
(* only after that child has ended; what it returns is how the child       *)
(* really ended; and the child dies of the analyzer's SIGKILL only in a    *)
(* run that is reported as timed out.  RunProcess is shown to implement it *)
(* (RunProcess!ImplementsContract).                                        *)
(***************************************************************************)
EXTENDS RunOutcome

VARIABLES
  phase,    \* "ready", "running", "ended" or "returned"
  started,  \* execv succeeded
  late,     \* the deadline passed and the group was killed
  how,      \* how the child ended
  outcome   \* the ProcessResult, once returned

contractVars == <<phase, started, late, how, outcome>>

NoResult == Result(1, "none", FALSE)

Init ==
  /\ phase = "ready"
  /\ started = FALSE
  /\ late = FALSE
  /\ how = NoStatus
  /\ outcome = NoResult

Refuse ==
  /\ phase = "ready"
  /\ outcome' \in Refusals
  /\ phase' = "returned"
  /\ UNCHANGED <<started, late, how>>

Begin ==
  /\ phase = "ready"
  /\ phase' = "running"
  /\ UNCHANGED <<started, late, how, outcome>>

Start ==
  /\ phase = "running" /\ ~started
  /\ started' = TRUE
  /\ UNCHANGED <<phase, late, how, outcome>>

(* The deadline may pass after the child has ended: a process it forked    *)
(* may still hold a stream.                                                *)
TimeOut ==
  /\ HasTimeout
  /\ phase \in {"running", "ended"} /\ ~late
  /\ late' = TRUE
  /\ UNCHANGED <<phase, started, how, outcome>>

EndChild ==
  /\ phase = "running"
  /\ how' \in EndsOf(started, late)
  /\ phase' = "ended"
  /\ UNCHANGED <<started, late, outcome>>

Return ==
  /\ phase = "ended"
  /\ outcome' \in ResultsOf(how, late)
  /\ phase' = "returned"
  /\ UNCHANGED <<started, late, how>>

Next == Refuse \/ Begin \/ Start \/ TimeOut \/ EndChild \/ Return

Spec == Init /\ [][Next]_contractVars
=============================================================================
