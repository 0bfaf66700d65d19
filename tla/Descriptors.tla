------------------------------ MODULE Descriptors ------------------------------
(***************************************************************************)
(* The descriptors of RunProcess (src/src/process.cpp:84-133 and 164-250), *)
(* system call by system call, in a process in which several threads call  *)
(* Run at once (src/include/runtime_analyzer.hpp): the runs share the      *)
(* descriptor table of the analyzer, and each forked child begins with a   *)
(* copy of it, whatever the other runs have opened so far.  A table says   *)
(* what each descriptor refers to; the kernel (external) gives the lowest  *)
(* free descriptor.                                                        *)
(***************************************************************************)
EXTENDS Integers, Sequences, FiniteSets

CONSTANTS
  Runs,      \* the runs in progress, each in a thread of its own
  MaxFd,     \* the highest descriptor a process may have (RLIMIT_NOFILE - 1)
  Tables,    \* the tables the analyzer may have before the first run
  CallsFail  \* which of "pipe", "fork" and "null" (the open of /dev/null) may fail by themselves

Fds == 0..MaxFd

STDIN_FILENO == 0
STDOUT_FILENO == 1
STDERR_FILENO == 2
Stdio == {STDIN_FILENO, STDOUT_FILENO, STDERR_FILENO}

(* What a descriptor may refer to: a read or a write end of one of the two *)
(* pipes of a run, /dev/null, or a file of the analyzer's own.             *)
ReadEnds == {"out read", "err read"}
WriteEnds == {"out write", "err write"}
Ends == ReadEnds \cup WriteEnds
Nobody == "nobody"
Own == <<Nobody, "own">>
Null == <<Nobody, "null">>
Closed == <<Nobody, "closed">>
Files == (Runs \X Ends) \cup {Own, Null, Closed}
NoFd == -1

ASSUME DescriptorsAssumption ==
  /\ MaxFd \in Nat /\ MaxFd >= 2
  /\ Tables \subseteq [Fds -> {Own, Closed}]
  /\ Nobody \notin Runs
  /\ CallsFail \subseteq {"pipe", "fork", "null"}

VARIABLES
  table,    \* what the analyzer's descriptors refer to
  cloexec,  \* its descriptors that execv closes
  pc,       \* per run, the analyzer's next call
  fds,      \* per run, stdout_pipe and stderr_pipe: the descriptor of each end, or NoFd
  closing,  \* per run, the ends it is about to close, in order
  reading,  \* per run, stdout_open and stderr_open: the read ends not closed yet
  cpc,      \* per run, the child's next call, "none" before fork
  ctable,   \* per run, the child's table
  ccloexec, \* per run, the child's close-on-exec descriptors
  null_fd,  \* per run, the child's descriptor of /dev/null, or NoFd
  (* what the properties observe *)
  before,   \* the analyzer's table before the first run
  starting  \* per run, the runs that were between pipe and their last close of a write
            \* end when its child was forked

tableVars == <<table, cloexec>>
runVars == <<pc, fds, closing, reading>>
childVars == <<cpc, ctable, ccloexec, null_fd>>
observed == <<before, starting>>
vars == <<tableVars, runVars, childVars, observed>>

Free(t) == {fd \in Fds : t[fd] = Closed}
Lowest(S) == CHOOSE fd \in S : \A other \in S : fd <= other
Close(t, S) == [fd \in Fds |-> IF fd \in S THEN Closed ELSE t[fd]]
Point(t, fd, file) == [t EXCEPT ![fd] = file]

Init ==
  /\ table \in Tables
  /\ cloexec \in {{}, {fd \in Fds \ Stdio : table[fd] = Own}}
  /\ pc = [r \in Runs |-> "pipe out"]
  /\ fds = [r \in Runs |-> [end \in Ends |-> NoFd]]
  /\ closing = [r \in Runs |-> <<>>]
  /\ reading = [r \in Runs |-> {}]
  /\ cpc = [r \in Runs |-> "none"]
  /\ ctable = [r \in Runs |-> [fd \in Fds |-> Closed]]
  /\ ccloexec = [r \in Runs |-> {}]
  /\ null_fd = [r \in Runs |-> NoFd]
  /\ before = table
  /\ starting = [r \in Runs |-> {}]

-----------------------------------------------------------------------------
(* The analyzer.                                                           *)

At(r, here) == pc[r] = here
Goto(r, there) == pc' = [pc EXCEPT ![r] = there]

(* pipe(): two descriptors, the read end first; neither is close-on-exec.  *)
Pipe(r, read, write, there) ==
  LET low == Lowest(Free(table))
      high == Lowest(Free(table) \ {low})
  IN  /\ Cardinality(Free(table)) >= 2
      /\ table' = Point(Point(table, low, <<r, read>>), high, <<r, write>>)
      /\ fds' = [fds EXCEPT ![r][read] = low, ![r][write] = high]
      /\ Goto(r, there)
      /\ UNCHANGED <<cloexec, closing, reading, childVars, observed>>

PipeFails == Cardinality(Free(table)) < 2 \/ "pipe" \in CallsFail

(* close() of some ends, one after the other, before anything else. *)
CloseNext(r, ends) ==
  /\ closing' = [closing EXCEPT ![r] = ends]
  /\ Goto(r, IF ends = <<>> THEN "returned" ELSE "close")
  /\ UNCHANGED <<tableVars, fds, reading>>

PipeOut(r) == At(r, "pipe out") /\ Pipe(r, "out read", "out write", "pipe err")
PipeOutFails(r) ==
  At(r, "pipe out") /\ PipeFails /\ CloseNext(r, <<>>) /\ UNCHANGED <<childVars, observed>>

PipeErr(r) == At(r, "pipe err") /\ Pipe(r, "err read", "err write", "cloexec out")

GiveUpErr(r, ends) ==
  At(r, "pipe err") /\ PipeFails /\ CloseNext(r, ends) /\ UNCHANGED <<childVars, observed>>
PipeErrFailsMutForgets(r) == GiveUpErr(r, <<"out read">>)
PipeErrFailsMutIgnored(r) ==
  /\ At(r, "pipe err") /\ PipeFails
  /\ Goto(r, "cloexec out")
  /\ UNCHANGED <<tableVars, fds, closing, reading, childVars, observed>>
PipeErrFails(r) == GiveUpErr(r, <<"out read", "out write">>)

SetCloseOnExec(r, here, end, there) ==
  /\ At(r, here)
  /\ cloexec' = cloexec \cup {fds[r][end]}
  /\ Goto(r, there)
  /\ UNCHANGED <<table, fds, closing, reading, childVars, observed>>

SetOutCloseOnExec(r) == SetCloseOnExec(r, "cloexec out", "out read", "cloexec err")
SetErrCloseOnExecMutWriteEnd(r) == SetCloseOnExec(r, "cloexec err", "err write", "fork")
SetErrCloseOnExec(r) == SetCloseOnExec(r, "cloexec err", "err read", "fork")

ForkFails(r) ==
  /\ At(r, "fork") /\ "fork" \in CallsFail
  /\ CloseNext(r, <<"out read", "out write", "err read", "err write">>)
  /\ UNCHANGED <<childVars, observed>>

(* A run whose write ends, or whose read ends without close-on-exec, are   *)
(* in the table.                                                           *)
IsStarting(r) ==
  \/ pc[r] \in {"pipe err", "cloexec out", "cloexec err", "fork"}
  \/ closing[r] # <<>>

Fork(r) ==
  /\ At(r, "fork")
  /\ CloseNext(r, <<"out write", "err write">>)
  /\ cpc' = [cpc EXCEPT ![r] = "close out read"]
  /\ ctable' = [ctable EXCEPT ![r] = table]
  /\ ccloexec' = [ccloexec EXCEPT ![r] = cloexec]
  /\ starting' = [starting EXCEPT ![r] = {q \in Runs \ {r} : IsStarting(q)}]
  /\ UNCHANGED <<null_fd, before>>

(* close() of one end. *)
CloseEnd(r, end) ==
  /\ table' = Close(table, {fds[r][end]})
  /\ cloexec' = cloexec \ {fds[r][end]}

CloseFirst(r) ==
  /\ At(r, "close")
  /\ CloseEnd(r, Head(closing[r]))
  /\ closing' = [closing EXCEPT ![r] = Tail(@)]
  /\ IF closing'[r] # <<>> THEN UNCHANGED <<pc, reading>>
     ELSE /\ Goto(r, IF cpc[r] = "none" THEN "returned" ELSE "read")
          /\ reading' = [reading EXCEPT ![r] = IF cpc[r] = "none" THEN {} ELSE ReadEnds]
  /\ UNCHANGED <<fds, childVars, observed>>

(* A read end is closed at its end of file, or after the loop: once, in    *)
(* either order.                                                           *)
CloseReadEndMutTwice(r) ==
  /\ At(r, "read")
  /\ \E end \in ReadEnds :
       /\ CloseEnd(r, end)
       /\ reading' = [reading EXCEPT ![r] = @ \ {end}]
  /\ Goto(r, IF reading'[r] = {} THEN "returned" ELSE "read")
  /\ UNCHANGED <<fds, closing, childVars, observed>>

CloseReadEnd(r) ==
  /\ At(r, "read")
  /\ \E end \in reading[r] :
       /\ CloseEnd(r, end)
       /\ reading' = [reading EXCEPT ![r] = @ \ {end}]
  /\ Goto(r, IF reading'[r] = {} THEN "returned" ELSE "read")
  /\ UNCHANGED <<fds, closing, childVars, observed>>

ParentNext(r) ==
  \/ PipeOut(r) \/ PipeOutFails(r) \/ PipeErr(r) \/ PipeErrFails(r)
  \/ SetOutCloseOnExec(r) \/ SetErrCloseOnExec(r)
  \/ ForkFails(r) \/ Fork(r)
  \/ CloseFirst(r) \/ CloseReadEnd(r)

-----------------------------------------------------------------------------
(* The child, up to execv.  Its table is its own.                          *)

ChildStep(r, here, there) ==
  cpc[r] = here /\ cpc' = [cpc EXCEPT ![r] = there] /\ UNCHANGED <<tableVars, runVars, observed>>

ChildCloses(r, S) ==
  /\ ctable' = [ctable EXCEPT ![r] = Close(@, S)]
  /\ ccloexec' = [ccloexec EXCEPT ![r] = @ \ S]
  /\ UNCHANGED null_fd

(* dup2() of a descriptor onto itself changes nothing, the flag included.  *)
ChildDup2(r, fd, onto) ==
  /\ ctable' = [ctable EXCEPT ![r][onto] = ctable[r][fd]]
  /\ ccloexec' = [ccloexec EXCEPT ![r] = IF fd = onto THEN @ ELSE @ \ {onto}]
  /\ UNCHANGED null_fd

ChildCloseOutRead(r) ==
  ChildStep(r, "close out read", "close err read") /\ ChildCloses(r, {fds[r]["out read"]})
ChildCloseErrRead(r) ==
  ChildStep(r, "close err read", "dup2 stdout") /\ ChildCloses(r, {fds[r]["err read"]})

ChildDup2Stdout(r) ==
  /\ ChildStep(r, "dup2 stdout", "dup2 stderr")
  /\ ChildDup2(r, fds[r]["out write"], STDOUT_FILENO)
ChildDup2Stderr(r) ==
  /\ ChildStep(r, "dup2 stderr", "close write ends")
  /\ ChildDup2(r, fds[r]["err write"], STDERR_FILENO)

ChildCloseWriteEndsMutForgets(r) ==
  ChildStep(r, "close write ends", "open null") /\ ChildCloses(r, {fds[r]["out write"]})
ChildCloseWriteEnds(r) ==
  /\ ChildStep(r, "close write ends", "open null")
  /\ ChildCloses(r, {fds[r][end] : end \in WriteEnds})

OpenNullMutKept(r) ==
  /\ ChildStep(r, "open null", "exec")
  /\ Free(ctable[r]) # {}
  /\ null_fd' = [null_fd EXCEPT ![r] = Lowest(Free(ctable[r]))]
  /\ ctable' = [ctable EXCEPT ![r][null_fd'[r]] = Null]
  /\ UNCHANGED ccloexec

OpenNull(r) ==
  /\ ChildStep(r, "open null", "dup2 stdin")
  /\ Free(ctable[r]) # {}
  /\ null_fd' = [null_fd EXCEPT ![r] = Lowest(Free(ctable[r]))]
  /\ ctable' = [ctable EXCEPT ![r][null_fd'[r]] = Null]
  /\ UNCHANGED ccloexec

(* Without /dev/null the program keeps the analyzer's stdin. *)
OpenNullFails(r) ==
  /\ ChildStep(r, "open null", "exec")
  /\ Free(ctable[r]) = {} \/ "null" \in CallsFail
  /\ UNCHANGED <<ctable, ccloexec, null_fd>>

ChildDup2Stdin(r) ==
  ChildStep(r, "dup2 stdin", "close null") /\ ChildDup2(r, null_fd[r], STDIN_FILENO)
ChildCloseNull(r) == ChildStep(r, "close null", "exec") /\ ChildCloses(r, {null_fd[r]})

Exec(r) == ChildStep(r, "exec", "program") /\ ChildCloses(r, ccloexec[r])

ChildNext(r) ==
  \/ ChildCloseOutRead(r) \/ ChildCloseErrRead(r)
  \/ ChildDup2Stdout(r) \/ ChildDup2Stderr(r) \/ ChildCloseWriteEnds(r)
  \/ OpenNull(r) \/ OpenNullFails(r) \/ ChildDup2Stdin(r) \/ ChildCloseNull(r) \/ Exec(r)

AllReturned == \A r \in Runs : pc[r] = "returned"

Returned == AllReturned /\ (\A r \in Runs : cpc[r] \in {"none", "program"}) /\ UNCHANGED vars

Next == (\E r \in Runs : ParentNext(r) \/ ChildNext(r)) \/ Returned

Spec == Init /\ [][Next]_vars

-----------------------------------------------------------------------------
(* Properties.                                                             *)

(* Every variable has its type.                                            *)
TypeOK ==
  /\ table \in [Fds -> Files]
  /\ cloexec \subseteq Fds
  /\ pc \in [Runs -> {"pipe out", "pipe err", "cloexec out", "cloexec err", "fork", "close",
                      "read", "returned"}]
  /\ fds \in [Runs -> [Ends -> Fds \cup {NoFd}]]
  /\ closing \in [Runs -> Seq(Ends)]
  /\ reading \in [Runs -> SUBSET ReadEnds]
  /\ cpc \in [Runs -> {"none", "close out read", "close err read", "dup2 stdout", "dup2 stderr",
                       "close write ends", "open null", "dup2 stdin", "close null", "exec",
                       "program"}]
  /\ ctable \in [Runs -> [Fds -> Files]]
  /\ ccloexec \in [Runs -> SUBSET Fds]
  /\ null_fd \in [Runs -> Fds \cup {NoFd}]
  /\ before \in [Fds -> {Own, Closed}]
  /\ starting \in [Runs -> SUBSET Runs]

(* The program's stdout and stderr are the two pipes of its own run and it *)
(* holds no other end of either (a second write end would put off the end  *)
(* of file, a read end would hide it), whichever descriptors the analyzer  *)
(* and the other runs have open, and with however few of them left, unless *)
(* a write end was given number 1 or 2 (process.cpp:124-127), which takes  *)
(* an analyzer started without them.                                       *)
OutputIsWired ==
  \A r \in Runs :
    cpc[r] = "program" /\ (\A end \in WriteEnds : fds[r][end] \notin {STDOUT_FILENO, STDERR_FILENO})
      => /\ ctable[r][STDOUT_FILENO] = <<r, "out write">>
         /\ ctable[r][STDERR_FILENO] = <<r, "err write">>
         /\ \A fd \in Fds \ {STDOUT_FILENO, STDERR_FILENO} : ctable[r][fd] \notin {r} \X Ends

(* "The program starts [...] with its stdin on /dev/null"                  *)
(* (README.md:198-199), unless /dev/null could not be opened or was opened *)
(* as descriptor 0, which the close after dup2 closes again                *)
(* (process.cpp:131-132).                                                  *)
StdinIsNull ==
  \A r \in Runs :
    cpc[r] = "program" /\ null_fd[r] \notin {NoFd, STDIN_FILENO}
      => ctable[r][STDIN_FILENO] = Null

(* However the runs return, with an error at any call or without, the      *)
(* analyzer has the descriptors it had before: none leaks from one run of  *)
(* a batch into the next, and none of its own is closed.                   *)
NothingLeaks == AllReturned => table = before

(* The ends a run is still going to use. *)
InUse(r) ==
  CASE pc[r] = "pipe err" -> {"out read", "out write"}
    [] pc[r] \in {"cloexec out", "cloexec err", "fork"} -> Ends
    [] pc[r] = "close" -> {closing[r][i] : i \in DOMAIN closing[r]}
                            \cup (IF cpc[r] = "none" THEN {} ELSE ReadEnds)
    [] OTHER -> reading[r]

(* A descriptor number is only closed, marked or read by a run while it is *)
(* that run's own: a number closed a second time might by then be an end   *)
(* of another run, which would lose its output (process.cpp:59, :71 and    *)
(* :243-250 close the same numbers on different paths).                    *)
NumbersAreOwn ==
  \A r \in Runs : \A end \in InUse(r) :
    fds[r][end] # NoFd => table[fds[r][end]] = <<r, end>>

(* A program holds ends of another run only if that run was starting its   *)
(* own child when this one was forked: the read ends are close-on-exec and *)
(* the write ends closed from then on (process.cpp:102-103 and 168-169).   *)
OthersAreKeptOut ==
  \A r \in Runs : cpc[r] = "program" =>
    \A fd \in Fds : \A q \in Runs \ {r} : ctable[r][fd] \in {q} \X Ends => q \in starting[r]
=============================================================================
