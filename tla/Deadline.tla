------------------------------- MODULE Deadline -------------------------------
(***************************************************************************)
(* The way of a timeout from --timeout to select: seconds become           *)
(* milliseconds (src/src/cli_args.cpp:311-337), a deadline on the steady   *)
(* clock (process.cpp:171-176), and the wait of each round of the loop, in *)
(* whole microseconds (process.cpp:198-204).  Every integer is signed and  *)
(* wraps around at its width.                                              *)
(*                                                                         *)
(* Time is counted in nanoseconds and passes between any two steps.  Of    *)
(* the streams only whether select finds something to read is kept.        *)
(***************************************************************************)
EXTENDS Integers

CONSTANTS
  MaxInt,       \* the largest 64-bit integer
  MsPerSecond, MicrosPerMs, NsPerMicro,
  Timeouts,     \* the values given to --timeout
  MaxStart,     \* bound on the clock when the analyzer starts
  MaxNow        \* bound on the clock

Positive == Nat \ {0}

ASSUME DeadlineAssumption ==
  /\ MaxInt \in Nat
  /\ MsPerSecond \in Positive /\ MicrosPerMs \in Positive /\ NsPerMicro \in Positive
  /\ Timeouts \subseteq Nat
  /\ MaxStart \in Nat /\ MaxNow \in Nat

VARIABLES
  seconds,   \* --timeout
  timeout,   \* ProcessSpec::timeout, in milliseconds
  now,       \* the steady clock
  start,     \* when RunProcess read it first
  limited,   \* deadline has a value
  deadline,
  remaining, \* the timeval given to select
  read,      \* when it was computed
  due,       \* when the select under way times out
  noisy,     \* the program may still write
  ready,     \* select finds something to read, or a signal interrupts it
  pc

vars == <<seconds, timeout, now, start, limited, deadline, remaining, read, due, noisy,
          ready, pc>>

NsPerMs == MicrosPerMs * NsPerMicro
NsPerSecond == MsPerSecond * NsPerMs
MicrosPerSecond == MsPerSecond * MicrosPerMs

Wrap(x) ==
  IF x \in -(MaxInt + 1)..MaxInt THEN x
  ELSE ((x + MaxInt + 1) % (2 * (MaxInt + 1))) - (MaxInt + 1)

NoWait == [sec |-> 0, usec |-> 0]
Duration(t) == (t.sec * MicrosPerSecond + t.usec) * NsPerMicro

Init ==
  /\ seconds \in Timeouts
  /\ timeout = 0
  /\ now \in 0..MaxStart
  /\ start = 0
  /\ limited = FALSE
  /\ deadline = 0
  /\ remaining = NoWait
  /\ read = 0
  /\ due = 0
  /\ noisy = TRUE
  /\ ready = FALSE
  /\ pc = "parse"

-----------------------------------------------------------------------------
(* The analyzer.                                                           *)

(* std::chrono::seconds to std::chrono::milliseconds. *)
ParseTimeout ==
  /\ pc = "parse"
  /\ timeout' = Wrap(seconds * MsPerSecond)
  /\ pc' = "run"
  /\ UNCHANGED <<seconds, now, start, limited, deadline, remaining, read, due, noisy, ready>>

StartClockMutOverOne ==
  /\ pc = "run"
  /\ start' = now
  /\ limited' = (timeout > MsPerSecond)
  /\ deadline' = IF timeout > 0 THEN Wrap(now + Wrap(timeout * NsPerMs)) ELSE deadline
  /\ pc' = "loop"
  /\ UNCHANGED <<seconds, timeout, now, remaining, read, due, noisy, ready>>

StartClockMutZeroIsNow ==
  /\ pc = "run"
  /\ start' = now
  /\ limited' = TRUE
  /\ deadline' = Wrap(now + Wrap(timeout * NsPerMs))
  /\ pc' = "loop"
  /\ UNCHANGED <<seconds, timeout, now, remaining, read, due, noisy, ready>>

StartClock ==
  /\ pc = "run"
  /\ start' = now
  /\ limited' = (timeout > 0)
  /\ deadline' = IF timeout > 0 THEN Wrap(now + Wrap(timeout * NsPerMs)) ELSE deadline
  /\ pc' = "loop"
  /\ UNCHANGED <<seconds, timeout, now, remaining, read, due, noisy, ready>>

LeftMutNoZero == Wrap(deadline - now)

Left == LET left == Wrap(deadline - now) IN IF left > 0 THEN left ELSE 0

ToTimeval(ns) ==
  LET micros == ns \div NsPerMicro
  IN  [sec |-> micros \div MicrosPerSecond, usec |-> micros % MicrosPerSecond]

ComputeWaitMutRestarts ==
  /\ pc = "loop"
  /\ remaining' = IF limited THEN ToTimeval(timeout * NsPerMs) ELSE NoWait
  /\ read' = now
  /\ pc' = "select"
  /\ UNCHANGED <<seconds, timeout, now, start, limited, deadline, due, noisy, ready>>

ComputeWait ==
  /\ pc = "loop"
  /\ remaining' = IF limited THEN ToTimeval(Left) ELSE NoWait
  /\ read' = now
  /\ pc' = "select"
  /\ UNCHANGED <<seconds, timeout, now, start, limited, deadline, due, noisy, ready>>

(* select counts from when it is called. *)
Select ==
  /\ pc = "select"
  /\ due' = now + Duration(remaining)
  /\ pc' = "wait"
  /\ UNCHANGED <<seconds, timeout, now, start, limited, deadline, remaining, read, noisy, ready>>

(* Something is read, to the end of both streams or not, or select is      *)
(* interrupted.                                                            *)
Wake ==
  /\ pc = "wait" /\ ready
  /\ ready' = FALSE
  /\ pc' \in {"loop", "ended"}
  /\ UNCHANGED <<seconds, timeout, now, start, limited, deadline, remaining, read, due, noisy>>

(* select prefers what can be read; it returns 0 and the group is killed. *)
TimeOut ==
  /\ pc = "wait" /\ ~ready /\ limited /\ now >= due
  /\ pc' = "killed"
  /\ UNCHANGED <<seconds, timeout, now, start, limited, deadline, remaining, read, due, noisy,
                 ready>>

AnalyzerNext == ParseTimeout \/ StartClock \/ ComputeWait \/ Select \/ Wake \/ TimeOut

(* The program and the clock. *)
Write ==
  /\ noisy /\ ~ready /\ pc \in {"loop", "select", "wait"}
  /\ ready' = TRUE
  /\ UNCHANGED <<seconds, timeout, now, start, limited, deadline, remaining, read, due, noisy, pc>>

BeQuiet ==
  /\ noisy
  /\ noisy' = FALSE
  /\ UNCHANGED <<seconds, timeout, now, start, limited, deadline, remaining, read, due, ready, pc>>

Tick ==
  /\ now < MaxNow
  /\ now' = now + 1
  /\ UNCHANGED <<seconds, timeout, start, limited, deadline, remaining, read, due, noisy, ready,
                 pc>>

Next == AnalyzerNext \/ Write \/ BeQuiet \/ Tick

Spec == Init /\ [][Next]_vars

(* The analyzer and the clock go on; the program does what it wants. *)
FairSpec == Spec /\ WF_vars(AnalyzerNext) /\ WF_vars(Tick)

-----------------------------------------------------------------------------
(* Properties.                                                             *)

TypeOK ==
  /\ seconds \in Timeouts
  /\ {timeout, deadline} \subseteq -(MaxInt + 1)..MaxInt
  /\ {now, start, read, due} \subseteq Nat
  /\ {limited, noisy, ready} \subseteq BOOLEAN
  /\ remaining \in [sec : Nat, usec : 0..(MicrosPerSecond - 1)]
  /\ pc \in {"parse", "run", "loop", "select", "wait", "killed", "ended"}

(* --timeout: "kill the binary after this long; [...] 0 disables the       *)
(* limit" (README.md:173).  No program is killed before its time, less     *)
(* than the microsecond that select cannot tell, is over, and none without *)
(* a limit, however often select returned before.                          *)
NotKilledEarly ==
  pc = "killed" => seconds > 0 /\ now + NsPerMicro > start + seconds * NsPerSecond

(* Every round of the loop waits for what is left of the time, to the      *)
(* microsecond: interrupted and resumed waits do not add up to more.       *)
WaitsForWhatIsLeft ==
  pc \in {"select", "wait"} /\ limited =>
    LET left == start + seconds * NsPerSecond - read
        wait == Duration(remaining)
    IN  /\ wait + NsPerMicro > left
        /\ wait <= IF left > 0 THEN left ELSE 0

(* "Each run is bounded by --timeout" (README.md:198): a run that was      *)
(* given a limit ends or is killed once the program writes no more,        *)
(* whatever happened between two looks at the clock.  (Unless the clock    *)
(* has reached its bound.)  The code keeps this for a timeout that is      *)
(* still positive in milliseconds; one whose milliseconds wrap around to   *)
(* zero or less is taken for no limit at all (process.cpp:173).            *)
EndsWhenDue ==
  (<>(seconds > 0 /\ ~noisy)) /\ [](pc = "wait" => due <= MaxNow)
    => <>(pc \in {"killed", "ended"})
=============================================================================
