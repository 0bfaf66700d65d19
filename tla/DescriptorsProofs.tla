--------------------------- MODULE DescriptorsProofs ---------------------------
(* Proofs about the descriptors of RunProcess, for any number of runs at   *)
(* once, every table the analyzer may have before them, every limit on     *)
(* descriptors and every choice of failing calls.                          *)
EXTENDS Descriptors, FiniteSetTheorems, SequenceTheorems, WellFoundedInduction, TLAPS

-----------------------------------------------------------------------------
(* The invariant.                                                          *)

(* Where a run is, by what it has done: the child exists once Fork was     *)
(* made, ends wait to be closed only in "close", each once, and the read   *)
(* ends stay open until the write ends are closed.                         *)
Forked(r) == cpc[r] # "none"

Values(s) == {s[i] : i \in DOMAIN s}
Injective(s) == \A i, j \in DOMAIN s : s[i] = s[j] => i = j

Phase ==
  \A r \in Runs :
    /\ pc[r] \in {"pipe out", "pipe err", "cloexec out", "cloexec err", "fork"} => ~Forked(r)
    /\ pc[r] = "read" => Forked(r)
    /\ pc[r] = "close" <=> closing[r] # <<>>
    /\ Injective(closing[r])
    /\ Forked(r) => Values(closing[r]) \subseteq WriteEnds
    /\ pc[r] # "read" => reading[r] = {}

(* The ends in use have descriptors, which refer to them, ...              *)
UsedAreOwn ==
  \A r \in Runs : \A end \in InUse(r) : fds[r][end] \in Fds /\ table[fds[r][end]] = <<r, end>>

(* ... and every other descriptor is as it was before the first run.       *)
OthersUntouched ==
  \A fd \in Fds :
    \/ table[fd] = before[fd]
    \/ before[fd] = Closed /\ \E r \in Runs : \E end \in InUse(r) : fds[r][end] = fd

(* The read ends a run keeps over its fork are close-on-exec. *)
Kept(r) ==
  CASE pc[r] = "cloexec err" -> {"out read"}
    [] pc[r] = "fork" -> ReadEnds
    [] pc[r] = "close" -> IF Forked(r) THEN ReadEnds ELSE {}
    [] OTHER -> reading[r]

KeptAreCloexec == \A r \in Runs : \A end \in Kept(r) : fds[r][end] \in cloexec

TableInv == Phase /\ UsedAreOwn /\ OthersUntouched /\ KeptAreCloexec

(* The child.  Its run's ends have one descriptor each ...                 *)
OneEach(r) ==
  \A end \in Ends :
    fds[r][end] \in Fds /\ \A other \in Ends : fds[r][end] = fds[r][other] => end = other

(* ... which it closes one after the other, until the two write ends are   *)
(* left, on stdout and stderr.                                             *)
Clear(r) == \A end \in WriteEnds : fds[r][end] \notin {STDOUT_FILENO, STDERR_FILENO}

HeldFirst(r, ends) ==
  \A fd \in Fds : \A end \in Ends : ctable[r][fd] = <<r, end>> <=> end \in ends /\ fd = fds[r][end]

Attached(r, fd, end) == ctable[r][fd] = <<r, end>> /\ fd \notin ccloexec[r]

Beside(r, S, ends) ==
  \A fd \in Fds \ S : \A end \in Ends :
    ctable[r][fd] = <<r, end>> => end \in ends /\ fd = fds[r][end]

BothWired(r, ends) ==
  Clear(r) => /\ Attached(r, STDOUT_FILENO, "out write")
              /\ Attached(r, STDERR_FILENO, "err write")
              /\ Beside(r, {STDOUT_FILENO, STDERR_FILENO}, ends)

Wired(r) ==
  CASE cpc[r] = "none" -> TRUE
    [] cpc[r] = "close out read" -> HeldFirst(r, Ends)
    [] cpc[r] = "close err read" -> HeldFirst(r, Ends \ {"out read"})
    [] cpc[r] = "dup2 stdout" -> HeldFirst(r, WriteEnds)
    [] cpc[r] = "dup2 stderr" ->
         /\ \/ ctable[r][fds[r]["err write"]] = <<r, "err write">>
            \/ ctable[r][fds[r]["err write"]] = <<r, "out write">>
         /\ Clear(r) => /\ Attached(r, STDOUT_FILENO, "out write")
                        /\ ctable[r][fds[r]["err write"]] = <<r, "err write">>
                        /\ Beside(r, {STDOUT_FILENO}, WriteEnds)
    [] OTHER -> BothWired(r, IF cpc[r] = "close write ends" THEN WriteEnds ELSE {})

(* Its stdin is /dev/null from the dup2 on. *)
NullIsOpen(r) == null_fd[r] \in Fds /\ ctable[r][null_fd[r]] = Null

NullIsStdin(r) ==
  null_fd[r] \notin {NoFd, STDIN_FILENO} =>
    ctable[r][STDIN_FILENO] = Null /\ STDIN_FILENO \notin ccloexec[r]

Stdin(r) ==
  CASE cpc[r] = "dup2 stdin" -> NullIsOpen(r)
    [] cpc[r] = "close null" -> NullIsOpen(r) /\ NullIsStdin(r)
    [] cpc[r] \in {"exec", "program"} -> NullIsStdin(r)
    [] OTHER -> null_fd[r] = NoFd

(* The ends of other runs it was given go away with execv, unless their    *)
(* runs were starting.                                                     *)
OthersGoAway(r) ==
  \A fd \in Fds : \A q \in Runs \ {r} :
    ctable[r][fd] \in {q} \X Ends /\ q \notin starting[r] =>
      cpc[r] # "program" /\ fd \in ccloexec[r]

ChildIsRight(r) == (Forked(r) => OneEach(r) /\ OthersGoAway(r)) /\ Wired(r) /\ Stdin(r)

ChildInv == \A r \in Runs : ChildIsRight(r)

IInv == TypeOK /\ TableInv /\ ChildInv
-----------------------------------------------------------------------------
(* The descriptors the kernel gives.                                       *)

LEMMA FdsAreNaturals == Fds \subseteq Nat /\ IsFiniteSet(Fds) /\ Stdio \subseteq Fds /\ NoFd \notin Fds
<1>1. MaxFd \in Nat /\ MaxFd >= 2
  BY DescriptorsAssumption
<1>2. IsFiniteSet(0..MaxFd)
  BY <1>1, FS_Interval
<1> QED BY <1>1, <1>2 DEF Fds, Stdio, STDIN_FILENO, STDOUT_FILENO, STDERR_FILENO, NoFd

(* A nonempty set of descriptors has a lowest one. *)
LEMMA LowestIsThere ==
  ASSUME NEW S, S \subseteq Fds, S # {}
  PROVE  Lowest(S) \in S
<1>1. S \subseteq Nat
  BY FdsAreNaturals
<1>2. PICK n \in S : \A m \in S : ~ (<<m, n>> \in OpToRel(<, Nat))
  BY <1>1, NatLessThanWellFounded, WFMin
<1>3. \A m \in S : ~ (m < n)
  BY <1>1, <1>2 DEF OpToRel
<1>4. \A m \in S : n <= m
  BY <1>1, <1>3
<1> QED BY <1>4 DEF Lowest

(* pipe gives two different descriptors that were free. *)
LEMMA PipeGivesTwo ==
  ASSUME NEW t, Cardinality(Free(t)) >= 2
  PROVE  LET low == Lowest(Free(t))
             high == Lowest(Free(t) \ {low})
         IN  low \in Free(t) /\ high \in Free(t) /\ low # high
<1> DEFINE low == Lowest(Free(t))
<1>1. Free(t) \subseteq Fds /\ IsFiniteSet(Free(t))
  BY FdsAreNaturals, FS_Subset DEF Free
<1>2. Free(t) # {}
  BY FS_EmptySet
<1>3. low \in Free(t)
  BY <1>1, <1>2, LowestIsThere
<1>4. Cardinality(Free(t)) \in Nat
  BY <1>1, FS_CardinalityType
<1>5. IsFiniteSet(Free(t) \ {low}) /\ Cardinality(Free(t) \ {low}) = Cardinality(Free(t)) - 1
  BY <1>1, <1>3, FS_RemoveElement
<1>6. Free(t) \ {low} # {}
  BY <1>4, <1>5, FS_EmptySet
<1>7. Lowest(Free(t) \ {low}) \in Free(t) \ {low}
  BY <1>1, <1>6, LowestIsThere
<1> QED BY <1>3, <1>7

(* Different ends are different files, and none is a file of the analyzer. *)
LEMMA FilesDiffer ==
  /\ \A r \in Runs, end \in Ends : <<r, end>> \in Files /\ <<r, end>> \notin {Own, Null, Closed}
  /\ Own \in Files /\ Null \in Files /\ Closed \in Files
  /\ Own # Null /\ Own # Closed /\ Null # Closed
BY DescriptorsAssumption DEF Files, Own, Null, Closed, Nobody

LEMMA EndNames ==
  /\ Ends = {"out read", "out write", "err read", "err write"}
  /\ ReadEnds = {"out read", "err read"} /\ WriteEnds = {"out write", "err write"}
BY DEF Ends, ReadEnds, WriteEnds
-----------------------------------------------------------------------------
(* Type correctness.                                                       *)

LEMMA TypeInit == Init => TypeOK
<1> SUFFICES ASSUME Init
             PROVE  TypeOK
  OBVIOUS
<1>1. table \in [Fds -> {Own, Closed}] /\ before = table
  BY DescriptorsAssumption DEF Init
<1>2. table \in [Fds -> Files]
  BY <1>1, FilesDiffer
<1>3. ctable \in [Runs -> [Fds -> Files]]
  BY FilesDiffer DEF Init
<1>4. closing \in [Runs -> Seq(Ends)]
  BY EmptySeq DEF Init
<1> QED BY <1>1, <1>2, <1>3, <1>4 DEF Init, TypeOK

LEMMA PipeIsTyped ==
  ASSUME TypeOK, NEW r \in Runs, NEW read \in Ends, NEW write \in Ends,
         NEW there \in {"pipe err", "cloexec out"}, Pipe(r, read, write, there)
  PROVE  TypeOK'
<1> DEFINE low == Lowest(Free(table))
           high == Lowest(Free(table) \ {low})
<1>1. low \in Free(table) /\ high \in Free(table)
  BY PipeGivesTwo DEF Pipe
<1>2. low \in Fds /\ high \in Fds
  BY <1>1 DEF Free
<1>3. table' = Point(Point(table, low, <<r, read>>), high, <<r, write>>)
  BY DEF Pipe
<1>4. fds' = [fds EXCEPT ![r][read] = low, ![r][write] = high]
  BY DEF Pipe
<1> HIDE DEF low, high
<1>5. table' \in [Fds -> Files]
  BY <1>2, <1>3, FilesDiffer DEF TypeOK, Point
<1>6. fds' \in [Runs -> [Ends -> Fds \cup {NoFd}]]
  BY <1>2, <1>4 DEF TypeOK
<1> QED BY <1>5, <1>6 DEF Pipe, Goto, TypeOK, childVars, observed

LEMMA CloseNextIsTyped ==
  ASSUME TypeOK, NEW r \in Runs, NEW ends \in Seq(Ends), CloseNext(r, ends)
  PROVE  /\ closing' \in [Runs -> Seq(Ends)] /\ UNCHANGED <<tableVars, fds, reading>>
         /\ pc' \in [Runs -> {"pipe out", "pipe err", "cloexec out", "cloexec err", "fork",
                              "close", "read", "returned"}]
BY DEF TypeOK, CloseNext, Goto

LEMMA CloseIsTyped ==
  ASSUME NEW t \in [Fds -> Files], NEW S
  PROVE  Close(t, S) \in [Fds -> Files]
BY FilesDiffer DEF Close

LEMMA EndSequences ==
  /\ <<>> \in Seq(Ends)
  /\ <<"out read", "out write">> \in Seq(Ends)
  /\ <<"out write", "err write">> \in Seq(Ends)
  /\ <<"out read", "out write", "err read", "err write">> \in Seq(Ends)
<1>1. "out read" \in Ends /\ "out write" \in Ends /\ "err read" \in Ends /\ "err write" \in Ends
  BY EndNames
<1>2. \A a, b \in Ends : <<a, b>> \in Seq(Ends)
  OBVIOUS
<1>3. \A a, b, c, d \in Ends : <<a, b, c, d>> \in Seq(Ends)
  OBVIOUS
<1>4. <<>> \in Seq(Ends)
  OBVIOUS
<1> QED BY <1>1, <1>2, <1>3, <1>4

(* The invariant tells that what is marked, closed and read has a number. *)
LEMMA ParentIsTyped ==
  ASSUME TypeOK, TableInv, NEW r \in Runs, ParentNext(r)
  PROVE  TypeOK'
<1> USE EndNames
<1>1. CASE PipeOut(r)
  BY <1>1, PipeIsTyped DEF PipeOut
<1>2. CASE PipeErr(r)
  BY <1>2, PipeIsTyped DEF PipeErr
<1>3. ASSUME NEW ends \in Seq(Ends), CloseNext(r, ends), UNCHANGED <<childVars, observed>>
      PROVE  TypeOK'
  BY <1>3, CloseNextIsTyped DEF TypeOK, childVars, observed, tableVars
<1>4. CASE PipeOutFails(r)
  BY <1>3, <1>4, EndSequences DEF PipeOutFails
<1>5. CASE PipeErrFails(r)
  BY <1>3, <1>5, EndSequences DEF PipeErrFails, GiveUpErr
<1>6. CASE ForkFails(r)
  BY <1>3, <1>6, EndSequences DEF ForkFails
<1>7. CASE SetOutCloseOnExec(r) \/ SetErrCloseOnExec(r)
  <2>1. PICK end \in InUse(r), there \in {"cloexec err", "fork"}, here \in {"cloexec out", "cloexec err"} :
          SetCloseOnExec(r, here, end, there)
    BY <1>7 DEF SetOutCloseOnExec, SetErrCloseOnExec, SetCloseOnExec, At, InUse
  <2>2. fds[r][end] \in Fds
    BY DEF TableInv, UsedAreOwn
  <2> QED BY <2>1, <2>2 DEF SetCloseOnExec, Goto, TypeOK, childVars, observed
<1>8. CASE Fork(r)
  <2>1. closing' \in [Runs -> Seq(Ends)] /\ UNCHANGED <<tableVars, fds, reading>>
        /\ pc' \in [Runs -> {"pipe out", "pipe err", "cloexec out", "cloexec err", "fork",
                              "close", "read", "returned"}]
    BY <1>8, CloseNextIsTyped, EndSequences DEF Fork
  <2> QED BY <1>8, <2>1 DEF Fork, TypeOK, tableVars
<1>9. ASSUME NEW end, CloseEnd(r, end)
      PROVE  table' \in [Fds -> Files] /\ cloexec' \in SUBSET Fds
  BY <1>9, CloseIsTyped DEF CloseEnd, TypeOK
<1>10. CASE CloseFirst(r)
  <2>1. closing[r] \in Seq(Ends) /\ closing[r] # <<>>
    BY <1>10 DEF CloseFirst, At, TableInv, Phase, TypeOK
  <2>2. Tail(closing[r]) \in Seq(Ends)
    BY <2>1, HeadTailProperties
  <2>3. closing' \in [Runs -> Seq(Ends)]
    BY <1>10, <2>2 DEF CloseFirst, TypeOK
  <2>4. /\ table' \in [Fds -> Files] /\ cloexec' \in SUBSET Fds
        /\ UNCHANGED <<fds, childVars, observed>>
        /\ pc' = pc \/ \E there \in {"returned", "read"} : Goto(r, there)
        /\ \/ reading' = reading
           \/ reading' = [reading EXCEPT ![r] = {}]
           \/ reading' = [reading EXCEPT ![r] = ReadEnds]
    BY <1>9, <1>10 DEF CloseFirst
  <2>5. pc' \in [Runs -> {"pipe out", "pipe err", "cloexec out", "cloexec err", "fork",
                          "close", "read", "returned"}]
    BY <2>4 DEF Goto, TypeOK
  <2>6. reading' \in [Runs -> SUBSET ReadEnds]
    BY <2>4 DEF TypeOK
  <2> QED BY <2>3, <2>4, <2>5, <2>6 DEF TypeOK, childVars, observed
<1>11. CASE CloseReadEnd(r)
  <2>1. PICK end \in reading[r] : CloseEnd(r, end) /\ reading' = [reading EXCEPT ![r] = @ \ {end}]
    BY <1>11 DEF CloseReadEnd
  <2>2. reading' \in [Runs -> SUBSET ReadEnds]
    BY <2>1 DEF TypeOK
  <2>3. pc' \in [Runs -> {"pipe out", "pipe err", "cloexec out", "cloexec err", "fork",
                          "close", "read", "returned"}]
    BY <1>11 DEF CloseReadEnd, Goto, TypeOK
  <2>4. table' \in [Fds -> Files] /\ cloexec' \in SUBSET Fds
    BY <1>9, <2>1
  <2> QED BY <1>11, <2>2, <2>3, <2>4 DEF CloseReadEnd, TypeOK, childVars, observed
<1> QED BY <1>1, <1>2, <1>4, <1>5, <1>6, <1>7, <1>8, <1>10, <1>11 DEF ParentNext

LEMMA ChildStepIsTyped ==
  ASSUME TypeOK, NEW r \in Runs, NEW here, ChildStep(r, here, cpc'[r]),
         cpc'[r] \in {"close err read", "dup2 stdout", "dup2 stderr", "close write ends",
                      "open null", "dup2 stdin", "close null", "exec", "program"},
         ctable' \in [Runs -> [Fds -> Files]], ccloexec' \in [Runs -> SUBSET Fds],
         null_fd' \in [Runs -> Fds \cup {NoFd}]
  PROVE  TypeOK'
<1> DEFINE Stages == {"none", "close out read", "close err read", "dup2 stdout", "dup2 stderr",
                      "close write ends", "open null", "dup2 stdin", "close null", "exec",
                      "program"}
<1>1. cpc \in [Runs -> Stages] /\ cpc'[r] \in Stages
  BY DEF TypeOK
<1>2. cpc' = [cpc EXCEPT ![r] = cpc'[r]]
  BY DEF ChildStep
<1> HIDE DEF Stages
<1>3. cpc' \in [Runs -> Stages]
  BY ONLY <1>1, <1>2
<1>4. UNCHANGED <<table, cloexec, pc, fds, closing, reading, before, starting>>
  BY DEF ChildStep, tableVars, runVars, observed
<1> USE DEF Stages
<1> QED BY <1>3, <1>4 DEF TypeOK

LEMMA ChildIsTyped ==
  ASSUME TypeOK, ChildInv, NEW r \in Runs, ChildNext(r)
  PROVE  TypeOK'
<1> USE EndNames
<1>1. ASSUME NEW S, ChildCloses(r, S)
      PROVE  /\ ctable' \in [Runs -> [Fds -> Files]] /\ ccloexec' \in [Runs -> SUBSET Fds]
             /\ null_fd' \in [Runs -> Fds \cup {NoFd}]
  <2>1. Close(ctable[r], S) \in [Fds -> Files]
    BY CloseIsTyped DEF TypeOK
  <2> QED BY <1>1, <2>1 DEF ChildCloses, TypeOK
<1>2. ASSUME NEW fd \in Fds, NEW onto \in Fds, ChildDup2(r, fd, onto)
      PROVE  /\ ctable' \in [Runs -> [Fds -> Files]] /\ ccloexec' \in [Runs -> SUBSET Fds]
             /\ null_fd' \in [Runs -> Fds \cup {NoFd}]
  BY <1>2 DEF ChildDup2, TypeOK
<1>3. STDIN_FILENO \in Fds /\ STDOUT_FILENO \in Fds /\ STDERR_FILENO \in Fds
  BY FdsAreNaturals DEF Stdio
<1>4. CASE ChildCloseOutRead(r) \/ ChildCloseErrRead(r) \/ ChildCloseWriteEnds(r)
           \/ ChildCloseNull(r) \/ Exec(r)
  <2>1. /\ \E S : ChildCloses(r, S)
        /\ \E here : ChildStep(r, here, cpc'[r])
        /\ cpc'[r] \in {"close err read", "dup2 stdout", "open null", "exec", "program"}
    BY <1>4 DEF ChildCloseOutRead, ChildCloseErrRead, ChildCloseWriteEnds, ChildCloseNull, Exec,
                ChildStep, TypeOK
  <2> QED BY <1>1, <2>1, ChildStepIsTyped
<1>5. CASE ChildDup2Stdout(r) \/ ChildDup2Stderr(r)
  <2>1. cpc[r] # "none"
    BY <1>5 DEF ChildDup2Stdout, ChildDup2Stderr, ChildStep
  <2>2. fds[r]["out write"] \in Fds /\ fds[r]["err write"] \in Fds
    BY <2>1, EndNames DEF ChildInv, ChildIsRight, OneEach, Forked
  <2>3. /\ \E fd \in Fds, onto \in Fds : ChildDup2(r, fd, onto)
        /\ \E here : ChildStep(r, here, cpc'[r])
        /\ cpc'[r] \in {"dup2 stderr", "close write ends"}
    BY <1>3, <1>5, <2>2 DEF ChildDup2Stdout, ChildDup2Stderr, ChildStep, TypeOK
  <2> QED BY <1>2, <2>3, ChildStepIsTyped
<1>6. CASE ChildDup2Stdin(r)
  <2>1. null_fd[r] \in Fds
    BY <1>6 DEF ChildDup2Stdin, ChildStep, ChildInv, ChildIsRight, Stdin, NullIsOpen
  <2>2. /\ ChildDup2(r, null_fd[r], STDIN_FILENO) /\ cpc'[r] = "close null"
        /\ ChildStep(r, "dup2 stdin", cpc'[r])
    BY <1>6 DEF ChildDup2Stdin, ChildStep, TypeOK
  <2> QED BY <1>2, <1>3, <2>1, <2>2, ChildStepIsTyped
<1>7. CASE OpenNull(r)
  <2>1. null_fd'[r] \in Fds
    <3>1. Lowest(Free(ctable[r])) \in Free(ctable[r]) /\ Free(ctable[r]) \subseteq Fds
      BY <1>7, LowestIsThere DEF OpenNull, Free
    <3> QED BY <1>7, <3>1 DEF OpenNull, TypeOK
  <2>2. ctable' \in [Runs -> [Fds -> Files]]
    BY <1>7, <2>1, FilesDiffer DEF OpenNull, TypeOK
  <2>3. null_fd' \in [Runs -> Fds \cup {NoFd}] /\ ccloexec' \in [Runs -> SUBSET Fds]
    BY <1>7, <2>1 DEF OpenNull, TypeOK
  <2>4. cpc'[r] = "dup2 stdin" /\ ChildStep(r, "open null", cpc'[r])
    BY <1>7 DEF OpenNull, ChildStep, TypeOK
  <2> QED BY <2>2, <2>3, <2>4, ChildStepIsTyped
<1>8. CASE OpenNullFails(r)
  <2>1. cpc'[r] = "exec" /\ ChildStep(r, "open null", cpc'[r])
    BY <1>8 DEF OpenNullFails, ChildStep, TypeOK
  <2>2. UNCHANGED <<ctable, ccloexec, null_fd>>
    BY <1>8 DEF OpenNullFails
  <2>3. /\ ctable' \in [Runs -> [Fds -> Files]] /\ ccloexec' \in [Runs -> SUBSET Fds]
        /\ null_fd' \in [Runs -> Fds \cup {NoFd}]
    BY <2>2 DEF TypeOK
  <2> QED BY <2>1, <2>3, ChildStepIsTyped
<1> QED BY <1>4, <1>5, <1>6, <1>7, <1>8 DEF ChildNext

LEMMA TypeStep == IInv /\ [Next]_vars => TypeOK'
<1> SUFFICES ASSUME IInv, [Next]_vars
             PROVE  TypeOK'
  OBVIOUS
<1>1. CASE UNCHANGED vars
  BY <1>1 DEF vars, tableVars, runVars, childVars, observed, IInv, TypeOK
<1>2. CASE \E r \in Runs : ParentNext(r) \/ ChildNext(r)
  BY <1>2, ParentIsTyped, ChildIsTyped DEF IInv
<1> QED BY <1>1, <1>2 DEF Next, Returned

-----------------------------------------------------------------------------
(* The analyzer's table.                                                   *)

(* A step of one run leaves what the others keep alone. *)
Same(q) ==
  /\ pc'[q] = pc[q] /\ fds'[q] = fds[q] /\ closing'[q] = closing[q] /\ reading'[q] = reading[q]
  /\ cpc'[q] = cpc[q]

LEMMA ParentKeepsOthers ==
  ASSUME TypeOK, NEW r \in Runs, ParentNext(r), NEW q \in Runs, q # r
  PROVE  Same(q) /\ ctable'[q] = ctable[q] /\ ccloexec'[q] = ccloexec[q]
         /\ null_fd'[q] = null_fd[q] /\ starting'[q] = starting[q]
<1> USE DEF TypeOK, Same, Goto, childVars, observed, tableVars
<1>1. CASE PipeOut(r) \/ PipeErr(r)
  BY <1>1 DEF PipeOut, PipeErr, Pipe
<1>2. CASE PipeOutFails(r) \/ PipeErrFails(r) \/ ForkFails(r)
  BY <1>2 DEF PipeOutFails, PipeErrFails, GiveUpErr, ForkFails, CloseNext
<1>3. CASE SetOutCloseOnExec(r) \/ SetErrCloseOnExec(r)
  BY <1>3 DEF SetOutCloseOnExec, SetErrCloseOnExec, SetCloseOnExec
<1>4. CASE Fork(r)
  BY <1>4 DEF Fork, CloseNext
<1>5. CASE CloseFirst(r)
  BY <1>5 DEF CloseFirst
<1>6. CASE CloseReadEnd(r)
  BY <1>6 DEF CloseReadEnd
<1> QED BY <1>1, <1>2, <1>3, <1>4, <1>5, <1>6 DEF ParentNext

LEMMA SameUse ==
  ASSUME NEW q \in Runs, Same(q)
  PROVE  /\ InUse(q)' = InUse(q) /\ Kept(q)' = Kept(q) /\ Forked(q)' = Forked(q)
         /\ IsStarting(q)' = IsStarting(q)
BY DEF Same, InUse, Kept, Forked, IsStarting

(* What is kept over the fork is in use. *)
LEMMA KeptIsUsed ==
  ASSUME TypeOK, Phase, NEW r \in Runs
  PROVE  Kept(r) \subseteq InUse(r) /\ InUse(r) \subseteq Ends
<1>1. closing[r] \in Seq(Ends) /\ reading[r] \subseteq ReadEnds
  BY DEF TypeOK
<1>2. \A i \in DOMAIN closing[r] : closing[r][i] \in Ends
  BY <1>1, ElementOfSeq, LenProperties
<1>3. ReadEnds \subseteq Ends
  BY DEF Ends
<1>4. CASE pc[r] = "pipe err"
  BY <1>4, EndNames DEF Kept, InUse, Phase
<1>5. CASE pc[r] \in {"cloexec out", "cloexec err", "fork"}
  BY <1>1, <1>3, <1>5, EndNames DEF Kept, InUse, Phase
<1>6. CASE pc[r] = "close"
  BY <1>2, <1>3, <1>6 DEF Kept, InUse, Forked
<1>7. CASE pc[r] \notin {"pipe err", "cloexec out", "cloexec err", "fork", "close"}
  BY <1>1, <1>3, <1>7 DEF Kept, InUse
<1> QED BY <1>4, <1>5, <1>6, <1>7

(* Two ends in use never have one number. *)
LEMMA NumbersDiffer ==
  ASSUME UsedAreOwn, NEW r \in Runs, NEW end \in InUse(r), NEW q \in Runs, NEW other \in InUse(q),
         fds[r][end] = fds[q][other]
  PROVE  r = q /\ end = other
BY DEF UsedAreOwn

(* The three effects a step has on the table and the ends in use: none,    *)
(* two more of both, or one less.                                          *)
LEMMA UseKept ==
  ASSUME UsedAreOwn, OthersUntouched, UNCHANGED <<table, before>>,
         \A q \in Runs : InUse(q)' = InUse(q) /\ fds'[q] = fds[q]
  PROVE  UsedAreOwn' /\ OthersUntouched'
BY DEF UsedAreOwn, OthersUntouched

LEMMA UseShrinks ==
  ASSUME TypeOK, Phase, UsedAreOwn, OthersUntouched, NEW r \in Runs, NEW end \in InUse(r),
         CloseEnd(r, end), UNCHANGED before,
         InUse(r)' = InUse(r) \ {end}, fds'[r] = fds[r],
         \A q \in Runs \ {r} : InUse(q)' = InUse(q) /\ fds'[q] = fds[q]
  PROVE  UsedAreOwn' /\ OthersUntouched'
<1> DEFINE gone == fds[r][end]
<1>1. gone \in Fds /\ \A fd \in Fds : table'[fd] = IF fd = gone THEN Closed ELSE table[fd]
  BY DEF CloseEnd, Close, UsedAreOwn
<1>2. \A q \in Runs : \A other \in InUse(q)' :
        other \in InUse(q) /\ fds'[q][other] = fds[q][other] /\ fds[q][other] # gone
  BY NumbersDiffer
<1>3. UsedAreOwn'
  BY <1>1, <1>2 DEF UsedAreOwn
<1>4. table[gone] = <<r, end>> /\ end \in Ends
  BY KeptIsUsed DEF UsedAreOwn
<1>5. before[gone] \in {Own, Closed}
  BY <1>1 DEF TypeOK
<1>6. before[gone] = Closed
  <2>1. table[gone] \notin {Own, Closed}
    BY <1>4, FilesDiffer
  <2>2. table[gone] # before[gone]
    BY <1>5, <2>1
  <2> QED BY <1>1, <2>2 DEF OthersUntouched
<1>7. ASSUME NEW fd \in Fds, fd # gone, NEW q \in Runs, NEW other \in InUse(q),
             fds[q][other] = fd
      PROVE  other \in InUse(q)' /\ fds'[q][other] = fd
  BY <1>7
<1>8. ASSUME NEW fd \in Fds
      PROVE  \/ table'[fd] = before[fd]
             \/ before[fd] = Closed /\ \E q \in Runs : \E other \in InUse(q)' : fds'[q][other] = fd
  <2>1. CASE fd = gone
    BY <1>1, <1>6, <2>1
  <2>2. CASE fd # gone /\ table[fd] = before[fd]
    BY <1>1, <2>2
  <2>3. CASE fd # gone /\ table[fd] # before[fd]
    BY <1>7, <2>3 DEF OthersUntouched
  <2> QED BY <2>1, <2>2, <2>3
<1>9. OthersUntouched'
  BY <1>8 DEF OthersUntouched
<1> QED BY <1>3, <1>9

LEMMA UseGrows ==
  ASSUME TypeOK, Phase, UsedAreOwn, OthersUntouched, NEW r \in Runs,
         NEW read \in Ends, NEW write \in Ends, read # write, NEW there, Pipe(r, read, write, there),
         InUse(r)' = InUse(r) \cup {read, write}, {read, write} \cap InUse(r) = {},
         \A q \in Runs \ {r} : InUse(q)' = InUse(q) /\ fds'[q] = fds[q]
  PROVE  UsedAreOwn' /\ OthersUntouched'
<1> DEFINE low == Lowest(Free(table))
           high == Lowest(Free(table) \ {low})
<1>1. low \in Free(table) /\ high \in Free(table) /\ low # high
  BY PipeGivesTwo DEF Pipe
<1>2. /\ low \in Fds /\ high \in Fds
      /\ table[low] = Closed /\ table[high] = Closed
  BY <1>1 DEF Free
<1>3. /\ table' = Point(Point(table, low, <<r, read>>), high, <<r, write>>)
      /\ fds' = [fds EXCEPT ![r][read] = low, ![r][write] = high]
      /\ before' = before
  BY DEF Pipe, observed
<1> HIDE DEF low, high
<1>4. /\ table'[low] = <<r, read>> /\ table'[high] = <<r, write>>
      /\ \A fd \in Fds \ {low, high} : table'[fd] = table[fd]
  BY <1>1, <1>2, <1>3 DEF TypeOK, Point
<1>5. /\ fds'[r][read] = low /\ fds'[r][write] = high
      /\ \A end \in Ends \ {read, write} : fds'[r][end] = fds[r][end]
  BY <1>3 DEF TypeOK
<1>6. ASSUME NEW q \in Runs, NEW end \in InUse(q)
      PROVE  /\ end \in InUse(q)' /\ fds'[q][end] = fds[q][end]
             /\ fds'[q][end] \in Fds /\ table'[fds'[q][end]] = <<q, end>>
             /\ fds[q][end] \notin {low, high}
  <2>1. fds[q][end] \in Fds /\ table[fds[q][end]] = <<q, end>> /\ end \in Ends
    BY KeptIsUsed DEF UsedAreOwn
  <2>2. fds[q][end] \notin {low, high}
    BY <1>2, <2>1, FilesDiffer
  <2>3. end \in InUse(q)' /\ fds'[q][end] = fds[q][end]
    BY <1>5, <2>1
  <2> QED BY <1>4, <2>1, <2>2, <2>3
<1>7. UsedAreOwn'
  <2>1. ASSUME NEW q \in Runs, NEW end \in InUse(q)'
        PROVE  fds'[q][end] \in Fds /\ table'[fds'[q][end]] = <<q, end>>
    BY <1>2, <1>4, <1>5, <1>6
  <2> QED BY <2>1 DEF UsedAreOwn
<1>8. ASSUME NEW fd \in Fds
      PROVE  \/ table'[fd] = before[fd]
             \/ before[fd] = Closed /\ \E q \in Runs : \E end \in InUse(q)' : fds'[q][end] = fd
  <2>1. CASE fd \in {low, high}
    <3>1. before[fd] = Closed
      <4>1. \A q \in Runs : \A end \in InUse(q) : fds[q][end] # fd
        BY <1>6, <2>1
      <4> QED BY <1>2, <2>1, <4>1 DEF OthersUntouched
    <3> QED BY <1>5, <2>1, <3>1
  <2>2. CASE fd \notin {low, high}
    BY <1>4, <1>6, <2>2 DEF OthersUntouched
  <2> QED BY <2>1, <2>2
<1>9. OthersUntouched'
  BY <1>3, <1>8 DEF OthersUntouched
<1> QED BY <1>7, <1>9

(* The phases of a run. *)
LEMMA PhaseAlone ==
  ASSUME TypeOK, Phase, NEW r \in Runs, ParentNext(r),
         /\ pc'[r] \in {"pipe out", "pipe err", "cloexec out", "cloexec err", "fork"} => ~Forked(r)'
         /\ pc'[r] = "read" => Forked(r)'
         /\ pc'[r] = "close" <=> closing'[r] # <<>>
         /\ Injective(closing'[r])
         /\ Forked(r)' => Values(closing'[r]) \subseteq WriteEnds
         /\ pc'[r] # "read" => reading'[r] = {}
  PROVE  Phase'
<1> DEFINE P(q) ==
      /\ pc[q] \in {"pipe out", "pipe err", "cloexec out", "cloexec err", "fork"} => ~Forked(q)
      /\ pc[q] = "read" => Forked(q)
      /\ pc[q] = "close" <=> closing[q] # <<>>
      /\ Injective(closing[q])
      /\ Forked(q) => Values(closing[q]) \subseteq WriteEnds
      /\ pc[q] # "read" => reading[q] = {}
<1>1. ASSUME NEW q \in Runs, q # r
      PROVE  P(q)'
  <2>1. P(q)
    BY DEF Phase
  <2>2. Same(q)
    BY <1>1, ParentKeepsOthers
  <2> QED BY <2>1, <2>2 DEF Same, Forked, Injective, Values
<1>2. P(r)'
  BY DEF Injective, Values
<1> QED BY <1>1, <1>2 DEF Phase

LEMMA PairOfEnds ==
  ASSUME NEW a, NEW b, a # b
  PROVE  Injective(<<a, b>>) /\ Values(<<a, b>>) = {a, b} /\ <<a, b>> # <<>>
<1>1. DOMAIN <<a, b>> = {1, 2} /\ <<a, b>>[1] = a /\ <<a, b>>[2] = b
  OBVIOUS
<1> QED BY <1>1 DEF Injective, Values

LEMMA AllFourEnds ==
  LET s == <<"out read", "out write", "err read", "err write">>
  IN  Injective(s) /\ Values(s) = Ends /\ s # <<>>
<1> DEFINE s == <<"out read", "out write", "err read", "err write">>
<1>1. /\ DOMAIN s = {1, 2, 3, 4}
      /\ s[1] = "out read" /\ s[2] = "out write" /\ s[3] = "err read" /\ s[4] = "err write"
      /\ s # <<>>
  OBVIOUS
<1> HIDE DEF s
<1>2. Injective(s)
  BY <1>1 DEF Injective
<1>3. Values(s) = {"out read", "out write", "err read", "err write"}
  BY <1>1 DEF Values
<1>4. Injective(s) /\ Values(s) = Ends /\ s # <<>>
  BY <1>1, <1>2, <1>3, EndNames
<1> QED BY <1>4 DEF s

(* The rest of an injective sequence has all but its first element. *)
LEMMA RestOfSequence ==
  ASSUME NEW s \in Seq(Ends), s # <<>>, Injective(s)
  PROVE  Values(Tail(s)) = Values(s) \ {Head(s)} /\ Injective(Tail(s)) /\ Head(s) \in Values(s)
<1> USE DEF Injective, Values
<1>1. Len(s) \in Nat \ {0} /\ DOMAIN s = 1..Len(s)
  BY LenProperties, EmptySeq
<1>2. /\ Tail(s) \in Seq(Ends) /\ Len(Tail(s)) = Len(s) - 1
      /\ \A i \in 1..Len(Tail(s)) : Tail(s)[i] = s[i + 1]
  BY HeadTailProperties
<1>3. DOMAIN Tail(s) = 1..(Len(s) - 1)
  BY <1>2, LenProperties
<1>4. Head(s) = s[1] /\ 1 \in DOMAIN s
  BY <1>1
<1>5. ASSUME NEW i \in DOMAIN Tail(s)
      PROVE  i + 1 \in DOMAIN s /\ Tail(s)[i] = s[i + 1] /\ i + 1 # 1 /\ i \in Int
  BY <1>1, <1>2, <1>3
<1>6. ASSUME NEW i \in DOMAIN s, i # 1
      PROVE  i - 1 \in DOMAIN Tail(s) /\ Tail(s)[i - 1] = s[i]
  <2>1. i - 1 \in 1..(Len(s) - 1)
    BY <1>1, <1>6
  <2> QED BY <1>1, <1>2, <1>3, <2>1
<1>7. \A i \in DOMAIN Tail(s) : Tail(s)[i] # Head(s)
  BY <1>4, <1>5
<1>8. {Tail(s)[i] : i \in DOMAIN Tail(s)} = {s[i] : i \in DOMAIN s} \ {Head(s)}
  BY <1>4, <1>5, <1>6, <1>7
<1>9. ASSUME NEW i \in DOMAIN Tail(s), NEW j \in DOMAIN Tail(s), Tail(s)[i] = Tail(s)[j]
      PROVE  i = j
  <2>1. i + 1 = j + 1
    BY <1>5, <1>9
  <2> QED BY <1>5, <2>1
<1> QED BY <1>4, <1>8, <1>9

LEMMA KeptStay ==
  ASSUME KeptAreCloexec, NEW r \in Runs, \A q \in Runs \ {r} : Same(q),
         cloexec \subseteq cloexec', \A end \in Kept(r)' : fds'[r][end] \in cloexec'
  PROVE  KeptAreCloexec'
<1>1. ASSUME NEW q \in Runs, q # r
      PROVE  Kept(q)' = Kept(q) /\ fds'[q] = fds[q]
  BY <1>1, SameUse DEF Same
<1> QED BY <1>1 DEF KeptAreCloexec

LEMMA KeptStayWhenOneIsClosed ==
  ASSUME TypeOK, Phase, UsedAreOwn, KeptAreCloexec, NEW r \in Runs, NEW end \in InUse(r),
         CloseEnd(r, end), \A q \in Runs \ {r} : Same(q), fds'[r] = fds[r],
         Kept(r)' \subseteq InUse(r) \ {end}, \A k \in Kept(r)' : fds[r][k] \in cloexec
  PROVE  KeptAreCloexec'
<1>1. cloexec' = cloexec \ {fds[r][end]}
  BY DEF CloseEnd
<1>2. ASSUME NEW q \in Runs, NEW k \in Kept(q)'
      PROVE  fds'[q][k] \in cloexec'
  <2>1. CASE q = r
    <3>1. k \in InUse(r) /\ k # end /\ fds[r][k] \in cloexec
      BY <1>2, <2>1
    <3> QED BY <1>1, <2>1, <3>1, NumbersDiffer
  <2>2. CASE q # r
    <3>1. k \in Kept(q) /\ fds'[q] = fds[q]
      BY <1>2, <2>2, SameUse DEF Same
    <3>2. k \in InUse(q) /\ fds[q][k] \in cloexec
      BY <3>1, KeptIsUsed DEF KeptAreCloexec
    <3>3. fds[q][k] # fds[r][end]
      BY <2>2, <3>2, NumbersDiffer
    <3> QED BY <1>1, <3>1, <3>2, <3>3
  <2> QED BY <2>1, <2>2
<1> QED BY <1>2 DEF KeptAreCloexec

LEMMA ParentKeepsTable ==
  ASSUME TypeOK, TableInv, NEW r \in Runs, ParentNext(r)
  PROVE  TableInv'
<1> USE DEF TableInv
<1>1. \A q \in Runs \ {r} : Same(q)
  BY ParentKeepsOthers
<1>2. \A q \in Runs \ {r} : InUse(q)' = InUse(q) /\ fds'[q] = fds[q]
  BY <1>1, SameUse DEF Same
<1>3. /\ Phase /\ UsedAreOwn /\ OthersUntouched /\ KeptAreCloexec
      /\ pc \in [Runs -> {"pipe out", "pipe err", "cloexec out", "cloexec err", "fork", "close",
                          "read", "returned"}]
      /\ closing \in [Runs -> Seq(Ends)] /\ reading \in [Runs -> SUBSET ReadEnds]
      /\ cpc \in [Runs -> {"none", "close out read", "close err read", "dup2 stdout", "dup2 stderr",
                           "close write ends", "open null", "dup2 stdin", "close null", "exec",
                           "program"}]
      /\ fds \in [Runs -> [Ends -> Fds \cup {NoFd}]]
  BY DEF TypeOK
<1>4. CASE PipeOut(r)
  <2>1. /\ pc[r] = "pipe out" /\ pc'[r] = "pipe err" /\ closing'[r] = closing[r]
        /\ reading'[r] = reading[r] /\ cpc'[r] = cpc[r] /\ cloexec' = cloexec
    BY <1>3, <1>4 DEF PipeOut, Pipe, At, Goto, childVars
  <2>2. cpc[r] = "none" /\ closing[r] = <<>> /\ reading[r] = {}
    BY <1>3, <2>1 DEF Phase, Forked
  <2>3. InUse(r) = {} /\ InUse(r)' = {"out read", "out write"} /\ Kept(r)' = {}
    BY <2>1, <2>2 DEF InUse, Kept
  <2>4. Phase'
    BY <1>3, <2>1, <2>2, PhaseAlone DEF Forked, Phase
  <2>5. Pipe(r, "out read", "out write", "pipe err")
    BY <1>4 DEF PipeOut
  <2>6. UsedAreOwn' /\ OthersUntouched'
    BY <1>2, <1>3, <2>3, <2>5, UseGrows, EndNames
  <2>7. KeptAreCloexec'
    BY <1>1, <1>3, <2>1, <2>3, KeptStay
  <2> QED BY <2>4, <2>6, <2>7
<1>5. CASE PipeErr(r)
  <2>1. /\ pc[r] = "pipe err" /\ pc'[r] = "cloexec out" /\ closing'[r] = closing[r]
        /\ reading'[r] = reading[r] /\ cpc'[r] = cpc[r] /\ cloexec' = cloexec
    BY <1>3, <1>5 DEF PipeErr, Pipe, At, Goto, childVars
  <2>2. cpc[r] = "none" /\ closing[r] = <<>> /\ reading[r] = {}
    BY <1>3, <2>1 DEF Phase, Forked
  <2>3. InUse(r) = {"out read", "out write"} /\ InUse(r)' = Ends /\ Kept(r)' = {}
    BY <2>1, <2>2 DEF InUse, Kept
  <2>4. Phase'
    BY <1>3, <2>1, <2>2, PhaseAlone DEF Forked, Phase
  <2>5. Pipe(r, "err read", "err write", "cloexec out")
    BY <1>5 DEF PipeErr
  <2>6. UsedAreOwn' /\ OthersUntouched'
    BY <1>2, <1>3, <2>3, <2>5, UseGrows, EndNames
  <2>7. KeptAreCloexec'
    BY <1>1, <1>3, <2>1, <2>3, KeptStay
  <2> QED BY <2>4, <2>6, <2>7
<1>6. CASE PipeOutFails(r)
  <2>1. /\ pc[r] = "pipe out" /\ pc'[r] = "returned" /\ closing'[r] = <<>>
        /\ reading'[r] = reading[r] /\ cpc'[r] = cpc[r] /\ cloexec' = cloexec
        /\ table' = table /\ before' = before /\ fds' = fds
    BY <1>3, <1>6 DEF PipeOutFails, CloseNext, At, Goto, childVars, tableVars, observed
  <2>2. cpc[r] = "none" /\ closing[r] = <<>> /\ reading[r] = {}
    BY <1>3, <2>1 DEF Phase, Forked
  <2>3. InUse(r) = {} /\ InUse(r)' = {} /\ Kept(r)' = {}
    BY <2>1, <2>2 DEF InUse, Kept
  <2>4. Phase'
    BY <1>3, <2>1, <2>2, PhaseAlone DEF Forked, Phase
  <2>5. UsedAreOwn' /\ OthersUntouched'
    BY <1>2, <1>3, <2>1, <2>3, UseKept
  <2>6. KeptAreCloexec'
    BY <1>1, <1>3, <2>1, <2>3, KeptStay
  <2> QED BY <2>4, <2>5, <2>6
<1>7. CASE PipeErrFails(r)
  <2>1. /\ pc[r] = "pipe err" /\ pc'[r] = "close" /\ closing'[r] = <<"out read", "out write">>
        /\ reading'[r] = reading[r] /\ cpc'[r] = cpc[r] /\ cloexec' = cloexec
        /\ table' = table /\ before' = before /\ fds' = fds
    BY <1>3, <1>7, PairOfEnds
    DEF PipeErrFails, GiveUpErr, CloseNext, At, Goto, childVars, tableVars, observed
  <2>2. cpc[r] = "none" /\ closing[r] = <<>> /\ reading[r] = {}
    BY <1>3, <2>1 DEF Phase, Forked
  <2>3. InUse(r) = {"out read", "out write"} /\ InUse(r)' = Values(closing'[r]) /\ Kept(r)' = {}
    BY <2>1, <2>2 DEF InUse, Kept, Values, Forked
  <2>4. Injective(closing'[r]) /\ Values(closing'[r]) = InUse(r) /\ closing'[r] # <<>>
    <3> DEFINE pair == <<"out read", "out write">>
    <3>1. Injective(pair) /\ Values(pair) = {"out read", "out write"} /\ pair # <<>>
      BY ONLY PairOfEnds
    <3>2. closing'[r] = pair /\ InUse(r) = {"out read", "out write"}
      BY <2>1, <2>3
    <3> HIDE DEF pair
    <3> QED BY ONLY <3>1, <3>2
  <2>5. Phase'
    BY <1>3, <2>1, <2>2, <2>4, PhaseAlone DEF Forked
  <2>6. UsedAreOwn' /\ OthersUntouched'
    BY <1>2, <1>3, <2>1, <2>3, <2>4, UseKept
  <2>7. KeptAreCloexec'
    BY <1>1, <1>3, <2>1, <2>3, KeptStay
  <2> QED BY <2>5, <2>6, <2>7
<1>8. CASE SetOutCloseOnExec(r)
  <2>1. /\ pc[r] = "cloexec out" /\ pc'[r] = "cloexec err" /\ closing'[r] = closing[r]
        /\ reading'[r] = reading[r] /\ cpc'[r] = cpc[r]
        /\ cloexec' = cloexec \cup {fds[r]["out read"]}
        /\ table' = table /\ before' = before /\ fds' = fds
    BY <1>3, <1>8 DEF SetOutCloseOnExec, SetCloseOnExec, At, Goto, childVars, observed
  <2>2. cpc[r] = "none" /\ closing[r] = <<>> /\ reading[r] = {}
    BY <1>3, <2>1 DEF Phase, Forked
  <2>3. InUse(r) = Ends /\ InUse(r)' = Ends /\ Kept(r)' = {"out read"}
    BY <2>1, <2>2 DEF InUse, Kept
  <2>4. Phase'
    BY <1>3, <2>1, <2>2, PhaseAlone DEF Forked, Phase
  <2>5. UsedAreOwn' /\ OthersUntouched'
    BY <1>2, <1>3, <2>1, <2>3, UseKept
  <2>6. KeptAreCloexec'
    BY <1>1, <1>3, <2>1, <2>3, KeptStay
  <2> QED BY <2>4, <2>5, <2>6
<1>9. CASE SetErrCloseOnExec(r)
  <2>1. /\ pc[r] = "cloexec err" /\ pc'[r] = "fork" /\ closing'[r] = closing[r]
        /\ reading'[r] = reading[r] /\ cpc'[r] = cpc[r]
        /\ cloexec' = cloexec \cup {fds[r]["err read"]}
        /\ table' = table /\ before' = before /\ fds' = fds
    BY <1>3, <1>9 DEF SetErrCloseOnExec, SetCloseOnExec, At, Goto, childVars, observed
  <2>2. cpc[r] = "none" /\ closing[r] = <<>> /\ reading[r] = {}
    BY <1>3, <2>1 DEF Phase, Forked
  <2>3. /\ InUse(r) = Ends /\ InUse(r)' = Ends
        /\ Kept(r) = {"out read"} /\ Kept(r)' = {"out read", "err read"}
    BY <2>1, <2>2, EndNames DEF InUse, Kept
  <2>4. Phase'
    BY <1>3, <2>1, <2>2, PhaseAlone DEF Forked, Phase
  <2>5. UsedAreOwn' /\ OthersUntouched'
    BY <1>2, <1>3, <2>1, <2>3, UseKept
  <2>6. \A end \in Kept(r)' : fds'[r][end] \in cloexec'
    BY <1>3, <2>1, <2>3 DEF KeptAreCloexec
  <2>7. KeptAreCloexec'
    BY <1>1, <1>3, <2>1, <2>6, KeptStay
  <2> QED BY <2>4, <2>5, <2>7
<1>10. CASE ForkFails(r)
  <2> DEFINE all == <<"out read", "out write", "err read", "err write">>
  <2>1. Injective(all) /\ Values(all) = Ends /\ all # <<>>
    BY AllFourEnds
  <2>2. CloseNext(r, all)
    BY <1>10 DEF ForkFails
  <2> HIDE DEF all
  <2>3. /\ pc[r] = "fork" /\ pc'[r] = "close" /\ closing'[r] = all
        /\ reading'[r] = reading[r] /\ cpc'[r] = cpc[r] /\ cloexec' = cloexec
        /\ table' = table /\ before' = before /\ fds' = fds
    BY <1>3, <1>10, <2>1, <2>2
    DEF ForkFails, CloseNext, At, Goto, childVars, tableVars, observed
  <2>4. cpc[r] = "none" /\ closing[r] = <<>> /\ reading[r] = {}
    BY <1>3, <2>3 DEF Phase, Forked
  <2>5. InUse(r) = Ends /\ InUse(r)' = Values(all) /\ Kept(r)' = {}
    BY <2>3, <2>4 DEF InUse, Kept, Values, Forked
  <2>6. Phase'
    BY <1>3, <2>1, <2>3, <2>4, PhaseAlone DEF Forked
  <2>7. UsedAreOwn' /\ OthersUntouched'
    BY <1>2, <1>3, <2>1, <2>3, <2>5, UseKept
  <2>8. KeptAreCloexec'
    BY <1>1, <1>3, <2>3, <2>5, KeptStay
  <2> QED BY <2>6, <2>7, <2>8
<1>11. CASE Fork(r)
  <2> DEFINE writes == <<"out write", "err write">>
  <2>1. Injective(writes) /\ Values(writes) = WriteEnds /\ writes # <<>>
    BY PairOfEnds, EndNames
  <2>2. CloseNext(r, writes)
    BY <1>11 DEF Fork
  <2> HIDE DEF writes
  <2>3. /\ pc[r] = "fork" /\ pc'[r] = "close" /\ closing'[r] = writes
        /\ reading'[r] = reading[r] /\ cpc'[r] = "close out read" /\ cloexec' = cloexec
        /\ table' = table /\ before' = before /\ fds' = fds
    BY <1>3, <1>11, <2>1, <2>2 DEF Fork, CloseNext, At, Goto, tableVars
  <2>4. reading[r] = {}
    BY <1>3, <2>3 DEF Phase
  <2>5. InUse(r) = Ends /\ InUse(r)' = WriteEnds \cup ReadEnds /\ Kept(r) = ReadEnds
        /\ Kept(r)' = ReadEnds
    BY <2>1, <2>3, <2>4 DEF InUse, Kept, Values, Forked
  <2>6. Phase'
    BY <1>3, <2>1, <2>3, <2>4, PhaseAlone DEF Forked
  <2>7. InUse(r)' = InUse(r)
    BY <2>5 DEF Ends
  <2>8. UsedAreOwn' /\ OthersUntouched'
    BY <1>2, <1>3, <2>3, <2>7, UseKept
  <2>9. KeptAreCloexec'
    BY <1>1, <1>3, <2>3, <2>5, KeptStay DEF KeptAreCloexec
  <2> QED BY <2>6, <2>8, <2>9
<1>12. CASE CloseFirst(r)
  <2> DEFINE end == Head(closing[r])
             rest == Tail(closing[r])
  <2>1. pc[r] = "close" /\ closing[r] # <<>> /\ closing[r] \in Seq(Ends) /\ Injective(closing[r])
        /\ reading[r] = {} /\ (Forked(r) => Values(closing[r]) \subseteq WriteEnds)
    BY <1>3, <1>12 DEF CloseFirst, At, Phase
  <2>2. /\ Values(rest) = Values(closing[r]) \ {end} /\ Injective(rest)
        /\ end \in Values(closing[r])
    BY <2>1, RestOfSequence
  <2>3. /\ CloseEnd(r, end) /\ closing'[r] = rest /\ cpc' = cpc
        /\ before' = before /\ fds' = fds
    BY <1>3, <1>12 DEF CloseFirst, childVars, observed
  <2>4. /\ rest # <<>> => pc'[r] = "close" /\ reading'[r] = {}
        /\ rest = <<>> /\ Forked(r) => pc'[r] = "read" /\ reading'[r] = ReadEnds
        /\ rest = <<>> /\ ~Forked(r) => pc'[r] = "returned" /\ reading'[r] = {}
    BY <1>3, <1>12, <2>1, <2>3 DEF CloseFirst, Goto, Forked
  <2> HIDE DEF end, rest
  <2>5. InUse(r) = Values(closing[r]) \cup (IF Forked(r) THEN ReadEnds ELSE {})
    BY <2>1 DEF InUse, Values, Forked
  <2>6. rest = <<>> => Values(rest) = {}
    BY DEF Values
  <2>7. InUse(r)' = Values(rest) \cup (IF Forked(r) THEN ReadEnds ELSE {})
    BY <2>3, <2>4, <2>6 DEF InUse, Values, Forked
  <2>8. ReadEnds \cap WriteEnds = {}
    BY EndNames
  <2>9. end \in InUse(r) /\ InUse(r)' = InUse(r) \ {end}
    BY <2>1, <2>2, <2>5, <2>7, <2>8
  <2>10. Phase'
    BY <1>3, <2>1, <2>2, <2>3, <2>4, PhaseAlone DEF Forked
  <2>11. UsedAreOwn' /\ OthersUntouched'
    BY <1>2, <1>3, <2>3, <2>9, UseShrinks
  <2>12. Kept(r)' = Kept(r) /\ Kept(r) = IF Forked(r) THEN ReadEnds ELSE {}
    BY <2>1, <2>3, <2>4 DEF Kept, Forked
  <2>13. Kept(r)' \subseteq InUse(r) \ {end} /\ \A k \in Kept(r)' : fds[r][k] \in cloexec
    BY <1>3, <2>1, <2>2, <2>5, <2>8, <2>12 DEF KeptAreCloexec
  <2>14. KeptAreCloexec'
    BY <1>1, <1>3, <2>3, <2>9, <2>13, KeptStayWhenOneIsClosed
  <2> QED BY <2>10, <2>11, <2>14
<1>13. CASE CloseReadEnd(r)
  <2>1. PICK end \in reading[r] : CloseEnd(r, end) /\ reading' = [reading EXCEPT ![r] = @ \ {end}]
    BY <1>13 DEF CloseReadEnd
  <2>2. /\ pc[r] = "read" /\ closing' = closing /\ cpc' = cpc /\ before' = before /\ fds' = fds
        /\ reading'[r] = reading[r] \ {end}
        /\ pc'[r] = IF reading'[r] = {} THEN "returned" ELSE "read"
    BY <1>3, <1>13, <2>1 DEF CloseReadEnd, At, Goto, childVars, observed
  <2>3. closing[r] = <<>> /\ Forked(r) /\ Injective(closing[r])
        /\ Values(closing[r]) \subseteq WriteEnds
    BY <1>3, <2>2 DEF Phase
  <2>4. InUse(r) = reading[r] /\ InUse(r)' = reading'[r]
        /\ Kept(r) = reading[r] /\ Kept(r)' = reading'[r]
    BY <2>2 DEF InUse, Kept
  <2>5. Phase'
    BY <1>3, <2>2, <2>3, PhaseAlone DEF Forked
  <2>6. UsedAreOwn' /\ OthersUntouched'
    BY <1>2, <1>3, <2>1, <2>2, <2>4, UseShrinks
  <2>7. KeptAreCloexec'
    BY <1>1, <1>3, <2>1, <2>2, <2>4, KeptStayWhenOneIsClosed DEF KeptAreCloexec
  <2> QED BY <2>5, <2>6, <2>7
<1> QED
  BY <1>4, <1>5, <1>6, <1>7, <1>8, <1>9, <1>10, <1>11, <1>12, <1>13 DEF ParentNext

(* The calls of a child leave the analyzer alone. *)
LEMMA ChildKeepsAnalyzer ==
  ASSUME TypeOK, NEW r \in Runs, ChildNext(r)
  PROVE  /\ table' = table /\ before' = before /\ cloexec' = cloexec /\ starting' = starting
         /\ Forked(r) /\ Forked(r)' /\ \A q \in Runs : Forked(q)' = Forked(q)
         /\ pc' = pc /\ closing' = closing /\ reading' = reading /\ fds' = fds
         /\ \A q \in Runs \ {r} : /\ cpc'[q] = cpc[q] /\ ctable'[q] = ctable[q]
                                  /\ ccloexec'[q] = ccloexec[q] /\ null_fd'[q] = null_fd[q]
<1>1. \E here, there : /\ ChildStep(r, here, there) /\ here # "none" /\ there # "none"
  BY DEF ChildNext, ChildCloseOutRead, ChildCloseErrRead, ChildDup2Stdout, ChildDup2Stderr,
         ChildCloseWriteEnds, OpenNull, OpenNullFails, ChildDup2Stdin, ChildCloseNull, Exec
<1>2. \A q \in Runs \ {r} : /\ ctable'[q] = ctable[q] /\ ccloexec'[q] = ccloexec[q]
                            /\ null_fd'[q] = null_fd[q]
  BY DEF TypeOK, ChildNext, ChildCloseOutRead, ChildCloseErrRead, ChildDup2Stdout,
         ChildDup2Stderr, ChildCloseWriteEnds, OpenNull, OpenNullFails, ChildDup2Stdin,
         ChildCloseNull, Exec, ChildCloses, ChildDup2
<1> QED BY <1>1, <1>2 DEF ChildStep, TypeOK, Forked, tableVars, runVars, observed

LEMMA TableKept ==
  ASSUME TableInv, UNCHANGED <<tableVars, runVars, before>>,
         \A q \in Runs : Forked(q)' = Forked(q)
  PROVE  TableInv'
<1>1. /\ table' = table /\ before' = before /\ cloexec' = cloexec
      /\ pc' = pc /\ closing' = closing /\ reading' = reading /\ fds' = fds
  BY DEF tableVars, runVars
<1>2. \A q \in Runs : (cpc'[q] = "none") = (cpc[q] = "none")
  BY DEF Forked
<1>3. \A q \in Runs : InUse(q)' = InUse(q) /\ Kept(q)' = Kept(q)
  BY <1>1, <1>2 DEF InUse, Kept, Forked
<1>4. UsedAreOwn' /\ OthersUntouched'
  BY <1>1, <1>3, UseKept DEF TableInv
<1>5. KeptAreCloexec'
  BY <1>1, <1>3 DEF TableInv, KeptAreCloexec
<1>6. Phase'
  BY <1>1 DEF TableInv, Phase, Values, Injective
<1> QED BY <1>4, <1>5, <1>6 DEF TableInv

LEMMA TableInit == Init => TableInv
<1> SUFFICES ASSUME Init
             PROVE  TableInv
  OBVIOUS
<1>1. \A r \in Runs : /\ pc[r] = "pipe out" /\ closing[r] = <<>> /\ reading[r] = {}
                      /\ cpc[r] = "none"
  BY DEF Init
<1>2. \A r \in Runs : InUse(r) = {} /\ Kept(r) = {}
  BY <1>1 DEF InUse, Kept
<1>3. Phase
  <2>1. Values(<<>>) = {} /\ Injective(<<>>)
    BY DOMAIN <<>> = {} DEF Values, Injective
  <2> QED BY <1>1, <2>1 DEF Phase, Forked
<1>4. UsedAreOwn /\ OthersUntouched /\ KeptAreCloexec
  BY <1>2 DEF UsedAreOwn, OthersUntouched, KeptAreCloexec, Init
<1> QED BY <1>3, <1>4 DEF TableInv

LEMMA TableStep == IInv /\ [Next]_vars => TableInv'
<1> SUFFICES ASSUME IInv, [Next]_vars
             PROVE  TableInv'
  OBVIOUS
<1>1. ASSUME NEW r \in Runs, ParentNext(r)
      PROVE  TableInv'
  BY <1>1, ParentKeepsTable DEF IInv
<1>2. ASSUME NEW r \in Runs, ChildNext(r)
      PROVE  TableInv'
  <2>1. TypeOK /\ TableInv
    BY DEF IInv
  <2> QED BY <1>2, <2>1, ChildKeepsAnalyzer, TableKept DEF tableVars, runVars
<1>3. CASE UNCHANGED vars
  <2>1. UNCHANGED <<tableVars, runVars, before>> /\ cpc' = cpc
    BY <1>3 DEF vars, tableVars, runVars, childVars, observed
  <2>2. \A q \in Runs : Forked(q)' = Forked(q)
    BY <2>1 DEF Forked
  <2> QED BY <2>1, <2>2, TableKept DEF IInv
<1> QED BY <1>1, <1>2, <1>3 DEF Next, Returned
-----------------------------------------------------------------------------
(* The children.                                                           *)

LEMMA ChildInit == Init => ChildInv
<1> SUFFICES ASSUME Init, NEW r \in Runs
             PROVE  ChildIsRight(r)
  BY DEF ChildInv
<1>1. cpc[r] = "none" /\ null_fd[r] = NoFd
  BY DEF Init
<1> QED BY <1>1 DEF ChildIsRight, Forked, Wired, Stdin

(* What the invariant says of a child is about its own variables.          *)
LEMMA ChildUntouched ==
  ASSUME NEW q \in Runs, ChildIsRight(q), cpc'[q] = cpc[q], Forked(q) => fds'[q] = fds[q],
         ctable'[q] = ctable[q], ccloexec'[q] = ccloexec[q], null_fd'[q] = null_fd[q],
         starting'[q] = starting[q]
  PROVE  ChildIsRight(q)'
<1>1. CASE cpc[q] = "none"
  BY <1>1 DEF ChildIsRight, Forked, Wired, Stdin
<1>2. CASE cpc[q] # "none"
  <2>1. fds'[q] = fds[q]
    BY <1>2 DEF Forked
  <2>2. Wired(q)'
    <3>1. \A ends : HeldFirst(q, ends)' = HeldFirst(q, ends)
      BY <2>1 DEF HeldFirst
    <3>2. \A S, ends : Beside(q, S, ends)' = Beside(q, S, ends)
      BY <2>1 DEF Beside
    <3>3. \A fd, end : Attached(q, fd, end)' = Attached(q, fd, end)
      BY DEF Attached
    <3>4. Clear(q)' = Clear(q)
      BY <2>1 DEF Clear
    <3> QED BY <2>1, <3>1, <3>2, <3>3, <3>4 DEF ChildIsRight, Wired, BothWired
  <2>3. Stdin(q)'
    BY DEF ChildIsRight, Stdin, NullIsOpen, NullIsStdin
  <2>4. OneEach(q)' /\ OthersGoAway(q)'
    BY <1>2, <2>1 DEF ChildIsRight, Forked, OneEach, OthersGoAway
  <2> QED BY <2>2, <2>3, <2>4 DEF ChildIsRight
<1> QED BY <1>1, <1>2

(* Who an end in the analyzer's table belongs to. *)
LEMMA EndInTable ==
  ASSUME TypeOK, Phase, UsedAreOwn, OthersUntouched, NEW fd \in Fds, NEW q \in Runs, NEW end \in Ends,
         table[fd] = <<q, end>>
  PROVE  end \in InUse(q) /\ fds[q][end] = fd
<1>1. table[fd] # before[fd]
  <2>1. table[fd] \notin {Own, Closed}
    BY FilesDiffer
  <2> QED BY <2>1 DEF TypeOK
<1>2. PICK p \in Runs : \E other \in InUse(p) : fds[p][other] = fd
  BY <1>1 DEF OthersUntouched
<1>3. PICK other \in InUse(p) : fds[p][other] = fd
  BY <1>2
<1>4. table[fd] = <<p, other>>
  BY <1>3 DEF UsedAreOwn
<1> QED BY <1>3, <1>4

(* The copy a child begins with. *)
LEMMA ForkMakesChildRight ==
  ASSUME TypeOK, TableInv, NEW r \in Runs, ChildIsRight(r), Fork(r)
  PROVE  ChildIsRight(r)'
<1>1. /\ pc[r] = "fork" /\ fds' = fds /\ cpc'[r] = "close out read"
      /\ ctable'[r] = table /\ ccloexec'[r] = cloexec /\ null_fd'[r] = null_fd[r]
      /\ starting'[r] = {q \in Runs \ {r} : IsStarting(q)}
  BY DEF Fork, At, CloseNext, TypeOK
<1>2. cpc[r] = "none" /\ null_fd[r] = NoFd /\ InUse(r) = Ends
  BY <1>1 DEF TableInv, Phase, Forked, ChildIsRight, Stdin, InUse
<1>3. \A end \in Ends : fds[r][end] \in Fds /\ table[fds[r][end]] = <<r, end>>
  BY <1>2 DEF TableInv, UsedAreOwn
<1>4. OneEach(r)'
  <2>1. ASSUME NEW end \in Ends, NEW other \in Ends, fds[r][end] = fds[r][other]
        PROVE  end = other
    <3>1. <<r, end>> = <<r, other>>
      BY <1>3, <2>1
    <3> QED BY <3>1
  <2> QED BY <1>1, <1>3, <2>1 DEF OneEach
<1>5. Stdin(r)'
  BY <1>1, <1>2 DEF Stdin
<1>6. Wired(r)'
  <2>1. ASSUME NEW fd \in Fds, NEW end \in Ends
        PROVE  table[fd] = <<r, end>> <=> fd = fds[r][end]
    BY <1>3, EndInTable DEF TableInv
  <2> QED BY <1>1, <2>1 DEF Wired, HeldFirst
<1>7. OthersGoAway(r)'
  <2>1. ASSUME NEW fd \in Fds, NEW q \in Runs \ {r}, table[fd] \in {q} \X Ends, ~IsStarting(q)
        PROVE  fd \in cloexec
    <3>1. PICK end \in Ends : table[fd] = <<q, end>>
      BY <2>1
    <3>2. end \in InUse(q) /\ fds[q][end] = fd
      BY <3>1, EndInTable DEF TableInv
    <3>3. pc[q] \notin {"pipe err", "cloexec out", "cloexec err", "fork", "close"}
      BY <2>1 DEF IsStarting, TableInv, Phase
    <3>4. end \in Kept(q)
      BY <3>2, <3>3 DEF InUse, Kept
    <3> QED BY <3>2, <3>4 DEF TableInv, KeptAreCloexec
  <2> QED BY <1>1, <2>1 DEF OthersGoAway
<1> QED BY <1>4, <1>5, <1>6, <1>7 DEF ChildIsRight

LEMMA ParentKeepsChild ==
  ASSUME IInv, NEW r \in Runs, ParentNext(r)
  PROVE  ChildInv'
<1>1. TypeOK /\ TableInv /\ \A q \in Runs : ChildIsRight(q)
  BY DEF IInv, ChildInv
<1>2. ASSUME NEW q \in Runs, q # r
      PROVE  ChildIsRight(q)'
  BY <1>1, <1>2, ParentKeepsOthers, ChildUntouched DEF Same
<1>3. ASSUME Fork(r)
      PROVE  ChildIsRight(r)'
  BY <1>1, <1>3, ForkMakesChildRight
<1>4. ASSUME ~Fork(r)
      PROVE  ChildIsRight(r)'
  <2>1. UNCHANGED <<childVars, observed>>
    BY <1>4 DEF ParentNext, PipeOut, PipeOutFails, PipeErr, PipeErrFails, Pipe, GiveUpErr,
                SetOutCloseOnExec, SetErrCloseOnExec, SetCloseOnExec, ForkFails, CloseFirst,
                CloseReadEnd
  <2>2. Forked(r) => pc[r] \in {"close", "read", "returned"}
    BY <1>1 DEF TableInv, Phase, TypeOK
  <2>3. Forked(r) => fds' = fds
    BY <1>4, <2>2 DEF ParentNext, PipeOut, PipeOutFails, PipeErr, PipeErrFails, GiveUpErr, At,
                      SetOutCloseOnExec, SetErrCloseOnExec, SetCloseOnExec, ForkFails, CloseNext,
                      CloseFirst, CloseReadEnd
  <2> QED BY <1>1, <2>1, <2>3, ChildUntouched DEF childVars, observed
<1> QED BY <1>2, <1>3, <1>4 DEF ChildInv

(* The ends of others after a close and after a dup2. *)
LEMMA OthersAfterClose ==
  ASSUME TypeOK, NEW r \in Runs, OthersGoAway(r), NEW S, ChildCloses(r, S),
         starting' = starting, cpc'[r] # "program" \/ ccloexec[r] \subseteq S
  PROVE  OthersGoAway(r)'
<1>1. /\ \A fd \in Fds : ctable'[r][fd] = IF fd \in S THEN Closed ELSE ctable[r][fd]
      /\ ccloexec'[r] = ccloexec[r] \ S
  BY DEF ChildCloses, Close, TypeOK
<1>2. ASSUME NEW fd \in Fds, NEW q \in Runs \ {r}, ctable'[r][fd] \in {q} \X Ends, q \notin starting[r]
      PROVE  cpc'[r] # "program" /\ fd \in ccloexec'[r]
  <2>1. fd \notin S /\ ctable[r][fd] \in {q} \X Ends
    BY <1>1, <1>2, FilesDiffer
  <2>2. fd \in ccloexec[r]
    BY <1>2, <2>1 DEF OthersGoAway
  <2> QED BY <1>1, <2>1, <2>2
<1> QED BY <1>2 DEF OthersGoAway

LEMMA OthersAfterDup2 ==
  ASSUME TypeOK, NEW r \in Runs, OthersGoAway(r), NEW fd \in Fds, NEW onto \in Fds,
         ChildDup2(r, fd, onto), starting' = starting, cpc'[r] # "program",
         \A q \in Runs \ {r} : ctable[r][fd] \notin {q} \X Ends
  PROVE  OthersGoAway(r)'
<1>1. /\ \A n \in Fds : ctable'[r][n] = IF n = onto THEN ctable[r][fd] ELSE ctable[r][n]
      /\ ccloexec[r] \ {onto} \subseteq ccloexec'[r]
  BY DEF ChildDup2, TypeOK
<1>2. ASSUME NEW n \in Fds, NEW q \in Runs \ {r}, ctable'[r][n] \in {q} \X Ends, q \notin starting[r]
      PROVE  n \in ccloexec'[r]
  <2>1. n # onto /\ ctable[r][n] \in {q} \X Ends
    BY <1>1, <1>2
  <2> QED BY <1>1, <1>2, <2>1 DEF OthersGoAway
<1> QED BY <1>2 DEF OthersGoAway

(* One end less in the child. *)
LEMMA HeldAfterClose ==
  ASSUME TypeOK, NEW r \in Runs, OneEach(r), NEW ends, ends \subseteq Ends, HeldFirst(r, ends),
         NEW end \in Ends, ChildCloses(r, {fds[r][end]}), fds' = fds
  PROVE  HeldFirst(r, ends \ {end})'
<1>1. \A fd \in Fds : ctable'[r][fd] = IF fd = fds[r][end] THEN Closed ELSE ctable[r][fd]
  BY DEF ChildCloses, Close, TypeOK
<1>2. ASSUME NEW fd \in Fds, NEW k \in Ends
      PROVE  ctable'[r][fd] = <<r, k>> <=> k \in ends \ {end} /\ fd = fds[r][k]
  <2>1. CASE fd = fds[r][end]
    BY <1>1, <2>1, FilesDiffer DEF OneEach
  <2>2. CASE fd # fds[r][end]
    BY <1>1, <2>2 DEF HeldFirst
  <2> QED BY <2>1, <2>2
<1> QED BY <1>2 DEF HeldFirst

LEMMA StdioDiffer ==
  /\ STDIN_FILENO \in Fds /\ STDOUT_FILENO \in Fds /\ STDERR_FILENO \in Fds
  /\ STDIN_FILENO # STDOUT_FILENO /\ STDIN_FILENO # STDERR_FILENO
  /\ STDOUT_FILENO # STDERR_FILENO
BY FdsAreNaturals DEF Stdio, STDIN_FILENO, STDOUT_FILENO, STDERR_FILENO

LEMMA NotAnothers ==
  ASSUME NEW r \in Runs, NEW end, NEW q \in Runs \ {r}
  PROVE  <<r, end>> \notin {q} \X Ends
BY DEF Ends, ReadEnds, WriteEnds

LEMMA WiredAfterClose ==
  ASSUME TypeOK, NEW r \in Runs, NEW S, ChildCloses(r, S), fds' = fds, BothWired(r, {}),
         Clear(r) => S \cap {STDOUT_FILENO, STDERR_FILENO} = {}
  PROVE  BothWired(r, {})'
<1>1. /\ \A fd \in Fds : ctable'[r][fd] = IF fd \in S THEN Closed ELSE ctable[r][fd]
      /\ ccloexec'[r] = ccloexec[r] \ S
  BY DEF ChildCloses, Close, TypeOK
<1>2. Clear(r)' = Clear(r)
  BY DEF Clear
<1>3. ASSUME Clear(r)
      PROVE  /\ Attached(r, STDOUT_FILENO, "out write")' /\ Attached(r, STDERR_FILENO, "err write")'
             /\ Beside(r, {STDOUT_FILENO, STDERR_FILENO}, {})'
  <2>1. Attached(r, STDOUT_FILENO, "out write")' /\ Attached(r, STDERR_FILENO, "err write")'
    BY <1>1, <1>3, StdioDiffer DEF BothWired, Attached
  <2>2. Beside(r, {STDOUT_FILENO, STDERR_FILENO}, {})'
    BY <1>1, <1>3, FilesDiffer DEF BothWired, Beside
  <2> QED BY <2>1, <2>2
<1> QED BY <1>2, <1>3 DEF BothWired

LEMMA ChildKeepsRight ==
  ASSUME TypeOK, NEW r \in Runs, ChildIsRight(r), ChildNext(r)
  PROVE  ChildIsRight(r)'
<1>1. /\ Forked(r) /\ Forked(r)' /\ fds' = fds /\ starting' = starting
      /\ OneEach(r) /\ OthersGoAway(r) /\ Wired(r) /\ Stdin(r)
      /\ ctable[r] \in [Fds -> Files]
      /\ \A end \in WriteEnds : fds[r][end] \in Fds
  BY ChildKeepsAnalyzer, EndNames DEF ChildIsRight, TypeOK, OneEach
<1>2. OneEach(r)'
  BY <1>1 DEF OneEach
<1>3. CASE ChildCloseOutRead(r)
  <2>1. /\ cpc[r] = "close out read" /\ cpc'[r] = "close err read" /\ null_fd' = null_fd
        /\ ChildCloses(r, {fds[r]["out read"]})
    BY <1>3 DEF ChildCloseOutRead, ChildStep, ChildCloses, TypeOK
  <2>2. HeldFirst(r, Ends \ {"out read"})'
    BY <1>1, <2>1, HeldAfterClose, EndNames DEF Wired
  <2>3. OthersGoAway(r)'
    BY <1>1, <2>1, OthersAfterClose
  <2> QED BY <1>1, <1>2, <2>1, <2>2, <2>3 DEF ChildIsRight, Wired, Stdin
<1>4. CASE ChildCloseErrRead(r)
  <2>1. /\ cpc[r] = "close err read" /\ cpc'[r] = "dup2 stdout" /\ null_fd' = null_fd
        /\ ChildCloses(r, {fds[r]["err read"]})
    BY <1>4 DEF ChildCloseErrRead, ChildStep, ChildCloses, TypeOK
  <2>2. HeldFirst(r, (Ends \ {"out read"}) \ {"err read"})'
    BY <1>1, <2>1, HeldAfterClose, EndNames DEF Wired
  <2>3. (Ends \ {"out read"}) \ {"err read"} = WriteEnds
    BY EndNames
  <2>4. OthersGoAway(r)'
    BY <1>1, <2>1, OthersAfterClose
  <2> QED BY <1>1, <1>2, <2>1, <2>2, <2>3, <2>4 DEF ChildIsRight, Wired, Stdin
<1>5. CASE ChildDup2Stdout(r)
  <2> DEFINE out == fds[r]["out write"]
             err == fds[r]["err write"]
  <2>1. /\ cpc[r] = "dup2 stdout" /\ cpc'[r] = "dup2 stderr" /\ null_fd' = null_fd
        /\ ChildDup2(r, out, STDOUT_FILENO)
    BY <1>5 DEF ChildDup2Stdout, ChildStep, ChildDup2, TypeOK
  <2>2. HeldFirst(r, WriteEnds) /\ out \in Fds /\ err \in Fds
    BY <1>1, <2>1, EndNames DEF Wired
  <2>3. ctable[r][out] = <<r, "out write">> /\ ctable[r][err] = <<r, "err write">>
    BY <2>2, EndNames DEF HeldFirst
  <2>4. /\ \A fd \in Fds : ctable'[r][fd] = IF fd = STDOUT_FILENO THEN ctable[r][out]
                                            ELSE ctable[r][fd]
        /\ out # STDOUT_FILENO => ccloexec'[r] = ccloexec[r] \ {STDOUT_FILENO}
    BY <2>1 DEF ChildDup2, TypeOK
  <2>5. OthersGoAway(r)'
    <3>1. \A q \in Runs \ {r} : ctable[r][out] \notin {q} \X Ends
      <4> HIDE DEF out
      <4> QED BY <2>3, NotAnothers
    <3>2. cpc'[r] # "program"
      BY <2>1
    <3> HIDE DEF out, err
    <3> QED BY <1>1, <2>1, <2>2, <3>1, <3>2, StdioDiffer, OthersAfterDup2
  <2>6. \/ ctable'[r][err] = <<r, "err write">>
        \/ ctable'[r][err] = <<r, "out write">>
    BY <2>2, <2>3, <2>4
  <2>7. ASSUME Clear(r)
        PROVE  /\ Attached(r, STDOUT_FILENO, "out write")' /\ ctable'[r][err] = <<r, "err write">>
               /\ Beside(r, {STDOUT_FILENO}, WriteEnds)'
    <3>1. out # STDOUT_FILENO /\ err # STDOUT_FILENO
      BY <2>7, EndNames DEF Clear
    <3>2. Attached(r, STDOUT_FILENO, "out write")'
      BY <2>3, <2>4, <3>1, StdioDiffer DEF Attached
    <3>3. Beside(r, {STDOUT_FILENO}, WriteEnds)'
      <4>1. ASSUME NEW fd \in Fds \ {STDOUT_FILENO}, NEW end \in Ends, ctable'[r][fd] = <<r, end>>
            PROVE  end \in WriteEnds /\ fd = fds[r][end]
        BY <2>2, <2>4, <4>1 DEF HeldFirst
      <4> QED BY <1>1, <4>1 DEF Beside
    <3> QED BY <2>2, <2>3, <2>4, <3>1, <3>2, <3>3
  <2>8. Clear(r)' = Clear(r) /\ fds'[r]["err write"] = err
    BY <1>1 DEF Clear
  <2>9. Wired(r)'
    BY <2>1, <2>6, <2>7, <2>8 DEF Wired
  <2> QED BY <1>1, <1>2, <2>1, <2>5, <2>9 DEF ChildIsRight, Stdin
<1>6. CASE ChildDup2Stderr(r)
  <2> DEFINE err == fds[r]["err write"]
  <2>1. /\ cpc[r] = "dup2 stderr" /\ cpc'[r] = "close write ends" /\ null_fd' = null_fd
        /\ ChildDup2(r, err, STDERR_FILENO)
    BY <1>6 DEF ChildDup2Stderr, ChildStep, ChildDup2, TypeOK
  <2>2. /\ err \in Fds /\ \E end \in WriteEnds : ctable[r][err] = <<r, end>>
        /\ Clear(r) => /\ Attached(r, STDOUT_FILENO, "out write")
                       /\ ctable[r][err] = <<r, "err write">>
                       /\ Beside(r, {STDOUT_FILENO}, WriteEnds)
    BY <1>1, <2>1, EndNames DEF Wired
  <2>3. /\ \A fd \in Fds : ctable'[r][fd] = IF fd = STDERR_FILENO THEN ctable[r][err]
                                            ELSE ctable[r][fd]
        /\ err # STDERR_FILENO => ccloexec'[r] = ccloexec[r] \ {STDERR_FILENO}
    BY <2>1 DEF ChildDup2, TypeOK
  <2>4. OthersGoAway(r)'
    <3>1. \A q \in Runs \ {r} : ctable[r][err] \notin {q} \X Ends
      <4>1. PICK end \in WriteEnds : ctable[r][err] = <<r, end>>
        BY <2>2
      <4> HIDE DEF err
      <4> QED BY <4>1, NotAnothers
    <3>2. cpc'[r] # "program"
      BY <2>1
    <3> HIDE DEF err
    <3> QED BY <1>1, <2>1, <2>2, <3>1, <3>2, StdioDiffer, OthersAfterDup2
  <2>5. ASSUME Clear(r)
        PROVE  /\ Attached(r, STDOUT_FILENO, "out write")'
               /\ Attached(r, STDERR_FILENO, "err write")'
               /\ Beside(r, {STDOUT_FILENO, STDERR_FILENO}, WriteEnds)'
    <3>1. err # STDERR_FILENO
      BY <2>5, EndNames DEF Clear
    <3>2. Attached(r, STDOUT_FILENO, "out write")'
      BY <2>2, <2>3, <2>5, <3>1, StdioDiffer DEF Attached
    <3>3. Attached(r, STDERR_FILENO, "err write")'
      BY <2>2, <2>3, <2>5, <3>1, StdioDiffer DEF Attached
    <3>4. Beside(r, {STDOUT_FILENO, STDERR_FILENO}, WriteEnds)'
      <4>1. ASSUME NEW fd \in Fds \ {STDOUT_FILENO, STDERR_FILENO}, NEW end \in Ends,
                   ctable'[r][fd] = <<r, end>>
            PROVE  end \in WriteEnds /\ fd = fds[r][end]
        <5>1. fd \in Fds \ {STDOUT_FILENO} /\ fd # STDERR_FILENO /\ fd \in Fds
          OBVIOUS
        <5>2. ctable[r][fd] = <<r, end>>
          BY <2>3, <4>1, <5>1
        <5>3. Beside(r, {STDOUT_FILENO}, WriteEnds)
          BY <2>2, <2>5
        <5> QED BY <5>1, <5>2, <5>3 DEF Beside
      <4> QED BY <1>1, <4>1 DEF Beside
    <3> QED BY <3>2, <3>3, <3>4
  <2>6. Clear(r)' = Clear(r)
    BY <1>1 DEF Clear
  <2>7. Wired(r)'
    BY <2>1, <2>5, <2>6 DEF Wired, BothWired
  <2> QED BY <1>1, <1>2, <2>1, <2>4, <2>7 DEF ChildIsRight, Stdin
<1>7. CASE ChildCloseWriteEnds(r)
  <2> DEFINE S == {fds[r][end] : end \in WriteEnds}
  <2>1. /\ cpc[r] = "close write ends" /\ cpc'[r] = "open null" /\ null_fd' = null_fd
        /\ ChildCloses(r, S)
    BY <1>7 DEF ChildCloseWriteEnds, ChildStep, ChildCloses, TypeOK
  <2>2. BothWired(r, WriteEnds)
    BY <1>1, <2>1 DEF Wired
  <2>3. /\ \A fd \in Fds : ctable'[r][fd] = IF fd \in S THEN Closed ELSE ctable[r][fd]
        /\ ccloexec'[r] = ccloexec[r] \ S
    BY <2>1 DEF ChildCloses, Close, TypeOK
  <2>4. OthersGoAway(r)'
    <3> HIDE DEF S
    <3> QED BY <1>1, <2>1, OthersAfterClose
  <2>5. ASSUME Clear(r)
        PROVE  /\ Attached(r, STDOUT_FILENO, "out write")'
               /\ Attached(r, STDERR_FILENO, "err write")'
               /\ Beside(r, {STDOUT_FILENO, STDERR_FILENO}, {})'
    <3>1. STDOUT_FILENO \notin S /\ STDERR_FILENO \notin S
      BY <2>5 DEF Clear
    <3>2. Attached(r, STDOUT_FILENO, "out write")' /\ Attached(r, STDERR_FILENO, "err write")'
      BY <2>2, <2>3, <2>5, <3>1, StdioDiffer DEF BothWired, Attached
    <3>3. ASSUME NEW fd \in Fds \ {STDOUT_FILENO, STDERR_FILENO}, NEW end \in Ends,
                 ctable'[r][fd] = <<r, end>>
          PROVE  FALSE
      <4>1. fd \notin S /\ ctable[r][fd] = <<r, end>>
        BY <2>3, <3>3, FilesDiffer
      <4>2. end \in WriteEnds /\ fd = fds[r][end]
        BY <2>2, <2>5, <4>1 DEF BothWired, Beside
      <4> QED BY <4>1, <4>2
    <3> QED BY <3>2, <3>3 DEF Beside
  <2>6. BothWired(r, {})'
    BY <1>1, <2>5 DEF BothWired, Clear
  <2>7. Wired(r)'
    BY <2>1, <2>6 DEF Wired
  <2> QED BY <1>1, <1>2, <2>1, <2>4, <2>7 DEF ChildIsRight, Stdin
<1>8. CASE OpenNull(r)
  <2> DEFINE null == Lowest(Free(ctable[r]))
  <2>1. /\ cpc[r] = "open null" /\ cpc'[r] = "dup2 stdin" /\ null_fd'[r] = null
        /\ ctable' = [ctable EXCEPT ![r][null] = Null] /\ ccloexec' = ccloexec
    BY <1>8 DEF OpenNull, ChildStep, TypeOK
  <2>2. null \in Fds /\ ctable[r][null] = Closed
    <3>1. null \in Free(ctable[r])
      BY <1>8, LowestIsThere DEF OpenNull, Free
    <3> QED BY <3>1 DEF Free
  <2> HIDE DEF null
  <2>3. \A fd \in Fds : ctable'[r][fd] = IF fd = null THEN Null ELSE ctable[r][fd]
    BY <2>1 DEF TypeOK
  <2>4. BothWired(r, {})
    BY <1>1, <2>1 DEF Wired
  <2>5. ASSUME Clear(r)
        PROVE  /\ Attached(r, STDOUT_FILENO, "out write")'
               /\ Attached(r, STDERR_FILENO, "err write")'
               /\ Beside(r, {STDOUT_FILENO, STDERR_FILENO}, {})'
    <3>1. /\ ctable[r][STDOUT_FILENO] = <<r, "out write">>
          /\ ctable[r][STDERR_FILENO] = <<r, "err write">>
      BY <2>4, <2>5 DEF BothWired, Attached
    <3>2. null # STDOUT_FILENO /\ null # STDERR_FILENO
      BY <2>2, <3>1, FilesDiffer, EndNames
    <3>3. Attached(r, STDOUT_FILENO, "out write")' /\ Attached(r, STDERR_FILENO, "err write")'
      BY <2>1, <2>3, <2>4, <2>5, <3>2, StdioDiffer DEF BothWired, Attached
    <3>4. Beside(r, {STDOUT_FILENO, STDERR_FILENO}, {})'
      BY <2>3, <2>4, <2>5, FilesDiffer DEF BothWired, Beside
    <3> QED BY <3>3, <3>4
  <2>6. BothWired(r, {})'
    BY <1>1, <2>5 DEF BothWired, Clear
  <2>7. Wired(r)'
    BY <2>1, <2>6 DEF Wired
  <2>8. NullIsOpen(r)'
    BY <2>1, <2>2, <2>3 DEF NullIsOpen
  <2>9. OthersGoAway(r)'
    <3>1. ASSUME NEW fd \in Fds, NEW q \in Runs \ {r}, ctable'[r][fd] \in {q} \X Ends,
                 q \notin starting[r]
          PROVE  fd \in ccloexec'[r]
      <4>1. ctable[r][fd] \in {q} \X Ends
        BY <2>3, <3>1, FilesDiffer
      <4> QED BY <1>1, <2>1, <3>1, <4>1 DEF OthersGoAway
    <3> QED BY <1>1, <2>1, <3>1 DEF OthersGoAway
  <2> QED BY <1>1, <1>2, <2>1, <2>7, <2>8, <2>9 DEF ChildIsRight, Stdin
<1>9. CASE OpenNullFails(r)
  <2>1. /\ cpc[r] = "open null" /\ cpc'[r] = "exec" /\ null_fd' = null_fd
        /\ ctable' = ctable /\ ccloexec' = ccloexec
    BY <1>9 DEF OpenNullFails, ChildStep, TypeOK
  <2>2. BothWired(r, {}) /\ null_fd[r] = NoFd
    BY <1>1, <2>1 DEF Wired, Stdin
  <2>3. BothWired(r, {})'
    BY <1>1, <2>1, <2>2 DEF BothWired, Clear, Attached, Beside
  <2>4. OthersGoAway(r)'
    BY <1>1, <2>1 DEF OthersGoAway
  <2> QED BY <1>1, <1>2, <2>1, <2>2, <2>3, <2>4 DEF ChildIsRight, Wired, Stdin, NullIsStdin
<1>10. CASE ChildDup2Stdin(r)
  <2> DEFINE null == null_fd[r]
  <2>1. /\ cpc[r] = "dup2 stdin" /\ cpc'[r] = "close null" /\ null_fd' = null_fd
        /\ ChildDup2(r, null, STDIN_FILENO)
    BY <1>10 DEF ChildDup2Stdin, ChildStep, ChildDup2, TypeOK
  <2>2. null \in Fds /\ ctable[r][null] = Null /\ BothWired(r, {})
    BY <1>1, <2>1 DEF Wired, Stdin, NullIsOpen
  <2>3. /\ \A fd \in Fds : ctable'[r][fd] = IF fd = STDIN_FILENO THEN Null ELSE ctable[r][fd]
        /\ null # STDIN_FILENO => ccloexec'[r] = ccloexec[r] \ {STDIN_FILENO}
        /\ ccloexec'[r] \subseteq ccloexec[r]
    BY <2>1, <2>2 DEF ChildDup2, TypeOK
  <2>4. ASSUME Clear(r)
        PROVE  /\ Attached(r, STDOUT_FILENO, "out write")'
               /\ Attached(r, STDERR_FILENO, "err write")'
               /\ Beside(r, {STDOUT_FILENO, STDERR_FILENO}, {})'
    <3>1. Attached(r, STDOUT_FILENO, "out write")' /\ Attached(r, STDERR_FILENO, "err write")'
      BY <2>2, <2>3, <2>4, StdioDiffer DEF BothWired, Attached
    <3>2. Beside(r, {STDOUT_FILENO, STDERR_FILENO}, {})'
      BY <2>2, <2>3, <2>4, FilesDiffer DEF BothWired, Beside
    <3> QED BY <3>1, <3>2
  <2>5. BothWired(r, {})'
    BY <1>1, <2>4 DEF BothWired, Clear
  <2>6. NullIsOpen(r)' /\ NullIsStdin(r)'
    BY <2>1, <2>2, <2>3, StdioDiffer DEF NullIsOpen, NullIsStdin
  <2>7. OthersGoAway(r)'
    <3>1. \A q \in Runs \ {r} : ctable[r][null] \notin {q} \X Ends
      BY <2>2, FilesDiffer
    <3>2. cpc'[r] # "program"
      BY <2>1
    <3> HIDE DEF null
    <3> QED BY <1>1, <2>1, <2>2, <3>1, <3>2, StdioDiffer, OthersAfterDup2
  <2> QED BY <1>1, <1>2, <2>1, <2>5, <2>6, <2>7 DEF ChildIsRight, Wired, Stdin
<1>11. CASE ChildCloseNull(r)
  <2>1. /\ cpc[r] = "close null" /\ cpc'[r] = "exec" /\ null_fd' = null_fd
        /\ ChildCloses(r, {null_fd[r]})
    BY <1>11 DEF ChildCloseNull, ChildStep, ChildCloses, TypeOK
  <2>2. NullIsOpen(r) /\ NullIsStdin(r) /\ BothWired(r, {})
    BY <1>1, <2>1 DEF Wired, Stdin
  <2>3. Clear(r) => {null_fd[r]} \cap {STDOUT_FILENO, STDERR_FILENO} = {}
    BY <2>2, FilesDiffer, EndNames DEF BothWired, Attached, NullIsOpen
  <2>4. BothWired(r, {})'
    BY <1>1, <2>1, <2>2, <2>3, WiredAfterClose
  <2>5. NullIsStdin(r)'
    BY <2>1, <2>2, StdioDiffer DEF NullIsStdin, ChildCloses, Close, TypeOK
  <2>6. OthersGoAway(r)'
    BY <1>1, <2>1, OthersAfterClose
  <2> QED BY <1>1, <1>2, <2>1, <2>4, <2>5, <2>6 DEF ChildIsRight, Wired, Stdin
<1>12. CASE Exec(r)
  <2>1. /\ cpc[r] = "exec" /\ cpc'[r] = "program" /\ null_fd' = null_fd
        /\ ChildCloses(r, ccloexec[r])
    BY <1>12 DEF Exec, ChildStep, ChildCloses, TypeOK
  <2>2. NullIsStdin(r) /\ BothWired(r, {})
    BY <1>1, <2>1 DEF Wired, Stdin
  <2>3. BothWired(r, {})'
    BY <1>1, <2>1, <2>2, WiredAfterClose DEF BothWired, Attached
  <2>4. NullIsStdin(r)'
    BY <2>1, <2>2, StdioDiffer DEF NullIsStdin, ChildCloses, Close, TypeOK
  <2>5. OthersGoAway(r)'
    BY <1>1, <2>1, OthersAfterClose
  <2> QED BY <1>1, <1>2, <2>1, <2>3, <2>4, <2>5 DEF ChildIsRight, Wired, Stdin
<1> QED
  BY <1>3, <1>4, <1>5, <1>6, <1>7, <1>8, <1>9, <1>10, <1>11, <1>12 DEF ChildNext

LEMMA ChildStepKeeps == IInv /\ [Next]_vars => ChildInv'
<1> SUFFICES ASSUME IInv, [Next]_vars
             PROVE  ChildInv'
  OBVIOUS
<1>1. ASSUME NEW r \in Runs, ParentNext(r)
      PROVE  ChildInv'
  BY <1>1, ParentKeepsChild
<1>2. ASSUME NEW r \in Runs, ChildNext(r)
      PROVE  ChildInv'
  <2>1. TypeOK /\ \A q \in Runs : ChildIsRight(q)
    BY DEF IInv, ChildInv
  <2>2. ASSUME NEW q \in Runs, q # r
        PROVE  ChildIsRight(q)'
    BY <1>2, <2>1, <2>2, ChildKeepsAnalyzer, ChildUntouched
  <2>3. ChildIsRight(r)'
    BY <1>2, <2>1, ChildKeepsRight
  <2> QED BY <2>2, <2>3 DEF ChildInv
<1>3. CASE UNCHANGED vars
  BY <1>3, ChildUntouched DEF IInv, ChildInv, vars, runVars, childVars, observed
<1> QED BY <1>1, <1>2, <1>3 DEF Next, Returned

-----------------------------------------------------------------------------
(* The theorems.                                                           *)

LEMMA IInvHolds == Spec => []IInv
<1>1. Init => IInv
  BY TypeInit, TableInit, ChildInit DEF IInv
<1>2. IInv /\ [Next]_vars => IInv'
  BY TypeStep, TableStep, ChildStepKeeps DEF IInv
<1> QED BY <1>1, <1>2, PTL DEF Spec

(* Every variable keeps its type.                                          *)
THEOREM DescriptorsTypeCorrect == Spec => []TypeOK
<1>1. IInv => TypeOK
  BY DEF IInv
<1> QED BY <1>1, IInvHolds, PTL

(* No run ever closes, marks or reads a descriptor that has become         *)
(* another's, however the calls of the runs interleave and fail.           *)
THEOREM NumbersStayOwn == Spec => []NumbersAreOwn
<1>1. IInv => NumbersAreOwn
  BY DEF IInv, TableInv, UsedAreOwn, NumbersAreOwn
<1> QED BY <1>1, IInvHolds, PTL

(* When all runs have returned, with errors or without, the analyzer has   *)
(* exactly the descriptors it had before them.                             *)
THEOREM NoDescriptorLeaks == Spec => []NothingLeaks
<1>1. IInv => NothingLeaks
  <2> SUFFICES ASSUME IInv, AllReturned
               PROVE  table = before
    BY DEF NothingLeaks
  <2>1. \A r \in Runs : InUse(r) = {}
    BY DEF AllReturned, IInv, TableInv, Phase, InUse
  <2>2. \A fd \in Fds : table[fd] = before[fd]
    BY <2>1 DEF IInv, TableInv, OthersUntouched
  <2>3. table \in [Fds -> Files] /\ before \in [Fds -> {Own, Closed}]
    BY DEF IInv, TypeOK
  <2> QED BY <2>2, <2>3
<1> QED BY <1>1, IInvHolds, PTL

(* A program's stdout and stderr are the pipes of its own run, and it      *)
(* holds no other end of them.                                             *)
THEOREM ProgramsAreWired == Spec => []OutputIsWired
<1>1. IInv => OutputIsWired
  <2> SUFFICES ASSUME IInv, NEW r \in Runs, cpc[r] = "program", Clear(r)
               PROVE  /\ ctable[r][STDOUT_FILENO] = <<r, "out write">>
                      /\ ctable[r][STDERR_FILENO] = <<r, "err write">>
                      /\ \A fd \in Fds \ {STDOUT_FILENO, STDERR_FILENO} :
                           ctable[r][fd] \notin {r} \X Ends
    BY DEF OutputIsWired, Clear
  <2>1. BothWired(r, {})
    BY DEF IInv, ChildInv, ChildIsRight, Wired
  <2>2. ASSUME NEW fd \in Fds \ {STDOUT_FILENO, STDERR_FILENO}, ctable[r][fd] \in {r} \X Ends
        PROVE  FALSE
    <3>1. PICK end \in Ends : ctable[r][fd] = <<r, end>>
      BY <2>2
    <3> QED BY <2>1, <3>1 DEF BothWired, Beside
  <2> QED BY <2>1, <2>2 DEF BothWired, Attached
<1> QED BY <1>1, IInvHolds, PTL

(* A program's stdin is /dev/null, if that was opened as another           *)
(* descriptor than 0.                                                      *)
THEOREM ProgramsReadNothing == Spec => []StdinIsNull
<1>1. IInv => StdinIsNull
  <2> SUFFICES ASSUME IInv, NEW r \in Runs, cpc[r] = "program"
               PROVE  NullIsStdin(r)
    BY DEF StdinIsNull, NullIsStdin
  <2> QED BY DEF IInv, ChildInv, ChildIsRight, Stdin
<1> QED BY <1>1, IInvHolds, PTL

(* A program holds ends of another run only if that run was starting its   *)
(* own child at its fork.                                                  *)
THEOREM OtherRunsAreKeptOut == Spec => []OthersAreKeptOut
<1>1. IInv => OthersAreKeptOut
  BY DEF IInv, ChildInv, ChildIsRight, Forked, OthersGoAway, OthersAreKeptOut
<1> QED BY <1>1, IInvHolds, PTL
=============================================================================
