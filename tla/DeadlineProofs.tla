---------------------------- MODULE DeadlineProofs ----------------------------
(***************************************************************************)
(* Theorems about Deadline, for every width of the integers, every clock   *)
(* unit and every timeout.                                                 *)
(***************************************************************************)
EXTENDS Deadline, TLAPS

Ints == -(MaxInt + 1)..MaxInt

(* Division with remainder. *)
LEMMA DivisionSum ==
  ASSUME NEW a \in Int, NEW b \in Int, b > 0
  PROVE  a = b * (a \div b) + (a % b)
  OBVIOUS

LEMMA Division ==
  ASSUME NEW a \in Int, NEW b \in Positive
  PROVE  /\ a \div b \in Int
         /\ a % b \in 0..(b - 1)
         /\ a = b * (a \div b) + (a % b)
<1>1. b \in Int /\ b > 0
  BY DEF Positive
<1>2. a \div b \in Int
  BY <1>1
<1>3. a % b \in 0..(b - 1)
  BY <1>1
<1> QED BY <1>1, <1>2, <1>3, DivisionSum

LEMMA DivisionNat ==
  ASSUME NEW a \in Nat, NEW b \in Positive
  PROVE  a \div b \in Nat
  BY DEF Positive

LEMMA Products ==
  ASSUME NEW a \in Positive, NEW b \in Positive
  PROVE  a * b \in Positive
  BY DEF Positive

LEMMA UnitsArePositive ==
  /\ NsPerMs \in Positive /\ MicrosPerSecond \in Positive /\ NsPerSecond \in Positive
  /\ NsPerSecond = MsPerSecond * NsPerMs
  /\ NsPerSecond = MicrosPerSecond * NsPerMicro
<1>1. NsPerMs \in Positive /\ MicrosPerSecond \in Positive
  BY Products, DeadlineAssumption DEF NsPerMs, MicrosPerSecond
<1>2. NsPerSecond \in Positive /\ NsPerSecond = MsPerSecond * NsPerMs
  BY <1>1, Products, DeadlineAssumption DEF NsPerSecond
<1>3. NsPerSecond = MicrosPerSecond * NsPerMicro
  BY DeadlineAssumption DEF NsPerSecond, NsPerMs, MicrosPerSecond, Positive
<1> QED BY <1>1, <1>2, <1>3

LEMMA WrapType ==
  ASSUME NEW x \in Int
  PROVE  Wrap(x) \in Ints
<1>1. 2 * (MaxInt + 1) \in Positive /\ x + MaxInt + 1 \in Int
  BY DeadlineAssumption DEF Positive
<1>2. (x + MaxInt + 1) % (2 * (MaxInt + 1)) \in 0..(2 * (MaxInt + 1) - 1)
  BY <1>1, Division
<1> QED BY <1>2, DeadlineAssumption DEF Wrap, Ints

(* The timeval of a wait has its fields in range, and is the wait to the   *)
(* microsecond below.                                                      *)
LEMMA TimevalIsExact ==
  ASSUME NEW ns \in Nat
  PROVE  /\ ToTimeval(ns) \in [sec : Nat, usec : 0..(MicrosPerSecond - 1)]
         /\ Duration(ToTimeval(ns)) \in Nat
         /\ Duration(ToTimeval(ns)) <= ns
         /\ ns < Duration(ToTimeval(ns)) + NsPerMicro
<1> DEFINE micros == ns \div NsPerMicro
           sec == micros \div MicrosPerSecond
           usec == micros % MicrosPerSecond
<1>1. NsPerMicro \in Positive /\ MicrosPerSecond \in Positive
  BY DeadlineAssumption, UnitsArePositive
<1>2. /\ micros \in Nat
      /\ ns % NsPerMicro \in 0..(NsPerMicro - 1)
      /\ ns = NsPerMicro * micros + (ns % NsPerMicro)
  <2>1. micros \in Nat
    BY <1>1, DivisionNat
  <2>2. /\ ns % NsPerMicro \in 0..(NsPerMicro - 1)
        /\ ns = NsPerMicro * micros + (ns % NsPerMicro)
    BY <1>1, Division, ns \in Int
  <2> QED BY <2>1, <2>2
<1> HIDE DEF micros
<1>3. /\ sec \in Nat
      /\ usec \in 0..(MicrosPerSecond - 1)
      /\ micros = MicrosPerSecond * sec + usec
  <2>1. micros \in Int
    BY <1>2
  <2>2. /\ usec \in 0..(MicrosPerSecond - 1)
        /\ micros = MicrosPerSecond * sec + usec
    BY <1>1, <2>1, Division
  <2>3. sec \in Nat
    BY <1>1, <1>2, DivisionNat
  <2> QED BY <2>2, <2>3
<1>4. ToTimeval(ns) = [sec |-> sec, usec |-> usec]
  BY DEF ToTimeval, micros
<1> HIDE DEF sec, usec
<1>5. MicrosPerSecond * sec = sec * MicrosPerSecond
  BY <1>1, <1>3 DEF Positive
<1>6. Duration(ToTimeval(ns)) = micros * NsPerMicro
  BY <1>3, <1>4, <1>5 DEF Duration
<1>7. micros * NsPerMicro = NsPerMicro * micros /\ NsPerMicro * micros \in Nat
  BY <1>1, <1>2 DEF Positive
<1>8. ToTimeval(ns) \in [sec : Nat, usec : 0..(MicrosPerSecond - 1)]
  BY <1>3, <1>4
<1>9. Duration(ToTimeval(ns)) \in Nat
  BY <1>6, <1>7
<1>10. ns = Duration(ToTimeval(ns)) + (ns % NsPerMicro)
  BY <1>2, <1>6, <1>7
<1>11. NsPerMicro \in Nat
  BY <1>1 DEF Positive
<1>12. \A d, r, n \in Nat : r \in 0..(n - 1) => d <= d + r /\ d + r < d + n
  OBVIOUS
<1> HIDE DEF ToTimeval
<1>13. /\ Duration(ToTimeval(ns)) <= Duration(ToTimeval(ns)) + (ns % NsPerMicro)
       /\ Duration(ToTimeval(ns)) + (ns % NsPerMicro) < Duration(ToTimeval(ns)) + NsPerMicro
  <2> DEFINE d == Duration(ToTimeval(ns))
             r == ns % NsPerMicro
  <2>1. d \in Nat /\ r \in Nat /\ r \in 0..(NsPerMicro - 1)
    BY <1>2, <1>9
  <2> HIDE DEF d, r
  <2>2. d <= d + r /\ d + r < d + NsPerMicro
    BY <1>11, <1>12, <2>1
  <2> QED BY <2>2 DEF d, r
<1> QED BY <1>8, <1>9, <1>10, <1>13, Zenon

LEMMA ProductType ==
  ASSUME NEW a \in Int, NEW b \in Positive
  PROVE  a * b \in Int
  BY DEF Positive

-----------------------------------------------------------------------------
(* Types.                                                                  *)

LEMMA TypeIsInductive == TypeOK /\ [Next]_vars => TypeOK'
<1> SUFFICES ASSUME TypeOK, [Next]_vars PROVE TypeOK'
  OBVIOUS
<1> USE DEF TypeOK
<1>0. seconds \in Nat /\ timeout \in Int /\ deadline \in Int /\ now \in Int
  BY DeadlineAssumption
<1>1. CASE ParseTimeout
  <2>1. seconds * MsPerSecond \in Int
    BY <1>0, ProductType, DeadlineAssumption
  <2>2. timeout' \in Ints
    BY <1>1, <2>1, WrapType DEF ParseTimeout
  <2> QED BY <1>1, <2>2 DEF ParseTimeout, Ints
<1>2. CASE StartClock
  <2>1. timeout * NsPerMs \in Int
    BY <1>0, ProductType, UnitsArePositive
  <2>2. now + Wrap(timeout * NsPerMs) \in Int
    BY <1>0, <2>1, WrapType, DeadlineAssumption DEF Ints
  <2>3. Wrap(now + Wrap(timeout * NsPerMs)) \in Ints
    BY <2>2, WrapType
  <2>4. deadline' \in Ints
    BY <1>2, <2>3 DEF StartClock, Ints
  <2> QED BY <1>2, <2>4 DEF StartClock, Ints
<1>3. CASE ComputeWait
  <2>1. Wrap(deadline - now) \in Int
    BY <1>0, WrapType, DeadlineAssumption DEF Ints
  <2>2. Left \in Nat
    BY <2>1 DEF Left
  <2>3. NoWait \in [sec : Nat, usec : 0..(MicrosPerSecond - 1)]
    BY UnitsArePositive DEF NoWait, Positive
  <2>4. remaining' \in [sec : Nat, usec : 0..(MicrosPerSecond - 1)]
    BY <1>3, <2>2, <2>3, TimevalIsExact DEF ComputeWait
  <2> QED BY <1>3, <2>4 DEF ComputeWait
<1>4. CASE Select
  <2>1. remaining.sec \in Nat /\ remaining.usec \in Nat
    BY UnitsArePositive DEF Positive
  <2>2. Duration(remaining) \in Nat
    <3>1. remaining.sec * MicrosPerSecond \in Nat
      BY <2>1, UnitsArePositive DEF Positive
    <3>2. remaining.sec * MicrosPerSecond + remaining.usec \in Nat
      BY <2>1, <3>1
    <3> HIDE DEF TypeOK
    <3> QED BY <3>2, DeadlineAssumption DEF Duration, Positive
  <2>3. due' \in Nat
    BY <1>4, <2>2 DEF Select
  <2> QED BY <1>4, <2>3 DEF Select
<1>5. CASE Wake
  BY <1>5 DEF Wake
<1>6. CASE TimeOut
  BY <1>6 DEF TimeOut
<1>7. CASE Write
  BY <1>7 DEF Write
<1>8. CASE BeQuiet
  BY <1>8 DEF BeQuiet
<1>9. CASE Tick
  BY <1>9 DEF Tick
<1>10. CASE UNCHANGED vars
  BY <1>10 DEF vars
<1> QED BY <1>1, <1>2, <1>3, <1>4, <1>5, <1>6, <1>7, <1>8, <1>9, <1>10
        DEF Next, AnalyzerNext

LEMMA TypeInitially == Init => TypeOK
<1> SUFFICES ASSUME Init PROVE TypeOK
  OBVIOUS
<1>1. NoWait \in [sec : Nat, usec : 0..(MicrosPerSecond - 1)]
  BY UnitsArePositive DEF NoWait, Positive
<1>2. 0 \in -(MaxInt + 1)..MaxInt
  BY DeadlineAssumption
<1>3. now \in Nat
  BY DeadlineAssumption DEF Init
<1>4. {now, start, read, due} \subseteq Nat
  BY <1>3 DEF Init
<1>5. {timeout, deadline} \subseteq -(MaxInt + 1)..MaxInt
  BY <1>2 DEF Init
<1> QED BY <1>1, <1>4, <1>5 DEF Init, TypeOK

(* Every variable has its type: no value leaves its width, and no timeval  *)
(* is negative or has a full second in its microseconds, for any --timeout *)
(* at all, the ones whose deadline overflows included.                     *)
THEOREM DeadlineTypeCorrect == Spec => []TypeOK
<1> QED BY TypeInitially, TypeIsInductive, PTL DEF Spec

-----------------------------------------------------------------------------
(* What --timeout asks for is kept, as long as its deadlines fit.          *)

(* The deadline of every timeout that may be given, from every moment the  *)
(* clock can show, fits the width of the integers.                         *)
Fits ==
  /\ MaxStart <= MaxNow
  /\ \A s \in Timeouts : MaxNow + s * NsPerSecond <= MaxInt

ClockInBound == now <= MaxNow
TimeoutIsAsked == pc # "parse" => timeout = seconds * MsPerSecond
DeadlineIsAsked ==
  pc \notin {"parse", "run"} =>
    /\ limited <=> seconds > 0
    /\ limited => start <= MaxNow /\ deadline = start + seconds * NsPerSecond
WaitIsLeft ==
  pc \in {"select", "wait"} =>
    /\ read <= now
    /\ Duration(remaining) \in Nat
    /\ limited => /\ Duration(remaining) + NsPerMicro > deadline - read
                  /\ \/ Duration(remaining) <= deadline - read
                     \/ Duration(remaining) = 0 /\ deadline < read
DueIsLater == pc = "wait" => due >= read + Duration(remaining)
KilledLate == pc = "killed" => limited /\ now + NsPerMicro > deadline

IInv == /\ TypeOK /\ ClockInBound /\ TimeoutIsAsked /\ DeadlineIsAsked /\ WaitIsLeft
        /\ DueIsLater /\ KilledLate

LEMMA WrapKeeps ==
  ASSUME NEW x \in -(MaxInt + 1)..MaxInt
  PROVE  Wrap(x) = x
  BY DEF Wrap

LEMMA Grows ==
  ASSUME NEW a \in Nat, NEW b \in Positive
  PROVE  a * b \in Nat /\ a <= a * b
  BY DEF Positive

LEMMA Associates ==
  ASSUME NEW a \in Nat, NEW b \in Positive, NEW c \in Positive
  PROVE  (a * b) * c = a * (b * c)
  BY DEF Positive

(* Neither product leaves the width. *)
LEMMA ConversionsAreExact ==
  ASSUME Fits, NEW s \in Timeouts
  PROVE  /\ Wrap(s * MsPerSecond) = s * MsPerSecond
         /\ Wrap((s * MsPerSecond) * NsPerMs) = s * NsPerSecond
         /\ s * NsPerSecond \in Nat
         /\ s > 0 <=> s * MsPerSecond > 0
<1>1. s \in Nat /\ s * MsPerSecond \in Nat /\ s <= s * MsPerSecond
  BY Grows, DeadlineAssumption
<1>2. (s * MsPerSecond) * NsPerMs = s * NsPerSecond
  BY <1>1, Associates, UnitsArePositive, DeadlineAssumption
<1>3. s * MsPerSecond <= s * NsPerSecond /\ s * NsPerSecond \in Nat
  BY <1>1, <1>2, Grows, UnitsArePositive
<1>4. s * NsPerSecond <= MaxInt
  BY <1>3, DeadlineAssumption DEF Fits
<1>5. /\ s * MsPerSecond \in -(MaxInt + 1)..MaxInt
      /\ s * NsPerSecond \in -(MaxInt + 1)..MaxInt
  BY <1>1, <1>3, <1>4, DeadlineAssumption
<1>6. s = 0 => s * MsPerSecond = 0
  BY DeadlineAssumption DEF Positive
<1>7. s > 0 <=> s * MsPerSecond > 0
  BY <1>1, <1>6
<1> QED BY <1>2, <1>3, <1>5, <1>7, WrapKeeps

LEMMA ExactInitially == Fits /\ Init => IInv
<1> SUFFICES ASSUME Fits, Init PROVE IInv
  OBVIOUS
<1>1. TypeOK
  BY TypeInitially
<1>2. ClockInBound
  BY DeadlineAssumption DEF Init, ClockInBound, Fits
<1> QED BY <1>1, <1>2
        DEF Init, IInv, TimeoutIsAsked, DeadlineIsAsked, WaitIsLeft, DueIsLater, KilledLate

LEMMA ExactIsInductive == Fits /\ IInv /\ [Next]_vars => IInv'
<1> SUFFICES ASSUME Fits, IInv, [Next]_vars PROVE IInv'
  OBVIOUS
<1> USE DEF IInv
<1>t. TypeOK'
  BY TypeIsInductive
<1>n. /\ seconds \in Timeouts /\ seconds \in Nat /\ seconds * NsPerSecond \in Nat
      /\ {now, start, read, due, MaxNow, MaxInt, NsPerMicro} \subseteq Nat
      /\ deadline \in Int
  BY ConversionsAreExact, DeadlineAssumption DEF TypeOK, Positive
<1>d. UNCHANGED remaining => Duration(remaining)' = Duration(remaining)
  BY DEF Duration
<1>1. CASE ParseTimeout
  <2>1. TimeoutIsAsked'
    BY <1>1, <1>n, ConversionsAreExact DEF ParseTimeout, TimeoutIsAsked
  <2> QED BY <1>1, <1>t, <2>1
          DEF ParseTimeout, ClockInBound, DeadlineIsAsked, WaitIsLeft, DueIsLater, KilledLate
<1>2. CASE StartClock
  <2>1. timeout = seconds * MsPerSecond
    BY <1>2 DEF StartClock, TimeoutIsAsked
  <2>2. Wrap(timeout * NsPerMs) = seconds * NsPerSecond /\ (timeout > 0 <=> seconds > 0)
    BY <1>n, <2>1, ConversionsAreExact
  <2>3. now + seconds * NsPerSecond <= MaxInt
    BY <1>n DEF Fits, ClockInBound
  <2>4. Wrap(now + seconds * NsPerSecond) = now + seconds * NsPerSecond
    BY <1>n, <2>3, WrapKeeps
  <2>5. DeadlineIsAsked'
    BY <1>2, <1>n, <2>2, <2>4 DEF StartClock, DeadlineIsAsked, ClockInBound
  <2> QED BY <1>2, <1>t, <2>5
          DEF StartClock, ClockInBound, TimeoutIsAsked, WaitIsLeft, DueIsLater, KilledLate
<1>3. CASE ComputeWait
  <2>1. Duration(NoWait) \in Nat
    <3>1. NoWait.sec = 0 /\ NoWait.usec = 0 /\ MicrosPerSecond \in Nat /\ NsPerMicro \in Nat
      BY <1>n, UnitsArePositive DEF NoWait, Positive
    <3> QED BY <3>1 DEF Duration
  <2>2. ASSUME limited
        PROVE  /\ Left \in Nat
               /\ Left = IF deadline > now THEN deadline - now ELSE 0
    <3>1. deadline = start + seconds * NsPerSecond /\ start <= MaxNow
      BY <1>3, <2>2 DEF ComputeWait, DeadlineIsAsked
    <3>2. MaxNow + seconds * NsPerSecond <= MaxInt
      BY <1>n DEF Fits
    <3>3. deadline - now \in -(MaxInt + 1)..MaxInt
      BY <1>n, <3>1, <3>2 DEF ClockInBound
    <3>4. Wrap(deadline - now) = deadline - now
      BY <3>3, WrapKeeps
    <3> QED BY <1>n, <3>4 DEF Left
  <2>3. ASSUME limited
        PROVE  /\ Duration(ToTimeval(Left)) \in Nat
               /\ Duration(ToTimeval(Left)) <= Left
               /\ Left < Duration(ToTimeval(Left)) + NsPerMicro
    BY <2>2, <2>3, TimevalIsExact
  <2>4. Duration(remaining)' = IF limited THEN Duration(ToTimeval(Left)) ELSE Duration(NoWait)
    BY <1>3 DEF ComputeWait, Duration
  <2>5. WaitIsLeft'
    <3>1. CASE limited
      BY <1>3, <1>n, <2>2, <2>3, <2>4, <3>1 DEF ComputeWait, WaitIsLeft
    <3>2. CASE ~limited
      BY <1>3, <1>n, <2>1, <2>4, <3>2 DEF ComputeWait, WaitIsLeft
    <3> QED BY <3>1, <3>2
  <2> QED BY <1>3, <1>t, <2>5
          DEF ComputeWait, ClockInBound, TimeoutIsAsked, DeadlineIsAsked, DueIsLater, KilledLate
<1>4. CASE Select
  <2>1. Duration(remaining)' = Duration(remaining)
    BY <1>4, <1>d DEF Select
  <2>2. WaitIsLeft'
    BY <1>4, <2>1 DEF Select, WaitIsLeft
  <2>3. DueIsLater'
    BY <1>4, <1>n, <2>1 DEF Select, WaitIsLeft, DueIsLater
  <2> QED BY <1>4, <1>t, <2>2, <2>3
          DEF Select, ClockInBound, TimeoutIsAsked, DeadlineIsAsked, KilledLate
<1>5. CASE Wake
  BY <1>5, <1>t
     DEF Wake, ClockInBound, TimeoutIsAsked, DeadlineIsAsked, WaitIsLeft, DueIsLater, KilledLate
<1>6. CASE TimeOut
  <2>1. KilledLate'
    BY <1>6, <1>n DEF TimeOut, WaitIsLeft, DueIsLater, KilledLate
  <2> QED BY <1>6, <1>t, <2>1
          DEF TimeOut, ClockInBound, TimeoutIsAsked, DeadlineIsAsked, WaitIsLeft, DueIsLater
<1>7. CASE Tick
  <2>1. Duration(remaining)' = Duration(remaining)
    BY <1>7, <1>d DEF Tick
  <2>2. ClockInBound'
    BY <1>7, <1>n DEF Tick, ClockInBound
  <2>3. WaitIsLeft' /\ DueIsLater'
    BY <1>7, <1>n, <2>1 DEF Tick, WaitIsLeft, DueIsLater
  <2>4. KilledLate'
    BY <1>7, <1>n DEF Tick, KilledLate
  <2> QED BY <1>7, <1>t, <2>2, <2>3, <2>4 DEF Tick, TimeoutIsAsked, DeadlineIsAsked
<1>8. CASE Write \/ BeQuiet \/ UNCHANGED vars
  <2>1. UNCHANGED <<seconds, timeout, now, start, limited, deadline, remaining, read, due, pc>>
    BY <1>8 DEF Write, BeQuiet, vars
  <2>2. Duration(remaining)' = Duration(remaining)
    BY <1>d, <2>1
  <2> QED BY <1>t, <2>1, <2>2
          DEF ClockInBound, TimeoutIsAsked, DeadlineIsAsked, WaitIsLeft, DueIsLater, KilledLate
<1> QED BY <1>1, <1>2, <1>3, <1>4, <1>5, <1>6, <1>7, <1>8 DEF Next, AnalyzerNext

LEMMA ExactImplies == Fits /\ IInv => NotKilledEarly /\ WaitsForWhatIsLeft
<1> SUFFICES ASSUME Fits, IInv PROVE NotKilledEarly /\ WaitsForWhatIsLeft
  OBVIOUS
<1>n. /\ seconds * NsPerSecond \in Nat
      /\ {now, start, read, NsPerMicro} \subseteq Nat
  BY ConversionsAreExact, DeadlineAssumption DEF IInv, TypeOK, Positive
<1>1. NotKilledEarly
  BY <1>n DEF IInv, NotKilledEarly, DeadlineIsAsked, KilledLate
<1>2. WaitsForWhatIsLeft
  <2>1. CASE pc \in {"select", "wait"} /\ limited
    BY <1>n, <2>1 DEF IInv, WaitsForWhatIsLeft, DeadlineIsAsked, WaitIsLeft
  <2>2. CASE ~(pc \in {"select", "wait"} /\ limited)
    BY <2>2 DEF WaitsForWhatIsLeft
  <2> QED BY <2>1, <2>2
<1> QED BY <1>1, <1>2

(* When the deadline of every timeout fits into 64 bits, no program is     *)
(* killed before the time it was given is over, less one microsecond, and  *)
(* none at all with --timeout 0: for every width, unit and timeout, and    *)
(* however the reads, the interruptions and the clock interleave.          *)
THEOREM NobodyIsKilledEarly == Fits => (Spec => []NotKilledEarly)
<1> SUFFICES ASSUME Fits PROVE Spec => []NotKilledEarly
  OBVIOUS
<1>1. Init => IInv
  BY ExactInitially
<1>2. IInv /\ [Next]_vars => IInv'
  BY ExactIsInductive
<1>3. IInv => NotKilledEarly
  BY ExactImplies
<1> QED BY <1>1, <1>2, <1>3, PTL DEF Spec

(* Under the same condition every select waits for what is left of the     *)
(* time, to the microsecond: interrupted waits do not add up to more.      *)
THEOREM EveryWaitIsExact == Fits => (Spec => []WaitsForWhatIsLeft)
<1> SUFFICES ASSUME Fits PROVE Spec => []WaitsForWhatIsLeft
  OBVIOUS
<1>1. Init => IInv
  BY ExactInitially
<1>2. IInv /\ [Next]_vars => IInv'
  BY ExactIsInductive
<1>3. IInv => WaitsForWhatIsLeft
  BY ExactImplies
<1> QED BY <1>1, <1>2, <1>3, PTL DEF Spec
=============================================================================
