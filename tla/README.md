# Verification of coretrace-runtime-analyzer

`runtime-analyzer` compiles a C or C++ source with the CoreTrace instrumentation, runs the
program under a timeout, reads the reports of the CoreTrace runtime out of the program's output,
and exits with a verdict. This directory holds TLA+ models of that code, the TLC configurations
that check them on small instances, and TLAPS proofs of what matters most for every instance.

Paths such as `process.cpp:207` are relative to `src/src/`; `README.md` and `test/...` named
beside a line number are the repository's own, under `src/`.

## 1. The system

| Component | State it keeps | Operations | Modelled by |
|---|---|---|---|
| Process runner (`process.cpp`) | two pipes, the child's pid, the deadline, the `ProcessResult` under construction | `RunProcess`, `AppendFromFd`, `SetCloseOnExec`, `SetNonBlocking` | `RunProcess`, `Descriptors`, `Deadline`, `RunContract`, `RunOutcome` |
| `Main`, `RunBatch`, `Run`, `Verdict` (`runtime_analyzer.cpp`, `events.cpp:119-131`) | the options, the `AnalyzerResult` of a source, the `BatchResult`, the programs on the disk | parse arguments, discover sources, compile, execute, parse, count, decide | `Analyzer`, `Invocation` |
| Command line (`cli_args.cpp`) | the options read so far | `ParseArgs`; compiler arguments, artifact paths | `CommandLine`, `CompilerArguments` |
| Source discovery (`runtime_analyzer.cpp:45-86`) | the sources found | walk, sort, unique | `CompilerArguments`, `Invocation` |
| Report parser (`findings.cpp`) | the findings, an open box, `in_bounds_report` | one turn of the loop per line; `DiagnosticBox::AddRow`, `ToFinding`; `ParseSite` | `ParseFindings`, `ReadOutput` |
| Event summary (`events.cpp:1-118`) | nine counters | `CollectEvents`, `MergeSummaries` | `ReadOutput`, without `StripAnsi` |
| SARIF writer (`sarif.cpp`) | the rules listed so far | one log per invocation | `ReadOutput` |
| Shipped toolchain (`shipped_toolchain.cpp`) | one environment variable | set at start-up | its link words in `CompilerArguments` |
| coretrace-compiler and its runtime (external) | – | compiles; logs reports | as nondeterminism |

How they interact. `Main` parses the command line and calls `RunBatch` with `--test-dir`, else
`Run`. `RunBatch` finds the sources, removes what is at the path of each program and calls `Run`
for one source after the other. `Run` calls the compiler, then `RunProcess`, and if that returns
no error hands the captured text to the event summary and to `ParseFindings`, one stream after the
other. `Verdict` reduces an `AnalyzerResult` to 0, 1 or 2; the status of a batch is the largest of
these, and `--strict-test-exit` raises it. The findings go to the text output or to the SARIF log.
Everything is called synchronously; the concurrency is between the analyzer, the child it forks,
the program and whatever that forks, and, in a library client, between runs in several threads,
which share one descriptor table.

What is hard about it:

- *Concurrency.* The program writes, closes and passes on its streams, forks, leaves its group
  and ends between any two system calls of the analyzer; the child calls `setpgid` at its own
  time; another thread's run opens and closes descriptors in between.
- *Timeouts.* The deadline races the end of the program, the last output and the child's start;
  it is computed through three units in integers of a fixed width.
- *Resource bounds.* A pipe fills up; a forgotten write end puts the end of file off; the
  descriptor table fills up in the middle of the setup.
- *Partial failure.* Every call of the setup, `select`, `read` and `waitpid` may fail; one test
  of a batch may fail in any way before or after others that pass; a directory may be missing or
  unreadable.
- *Stale state.* An earlier invocation may have left a program where the next one will be built.
- *Ordering.* Reports come in any order, mixed with the program's own lines, and may be cut off
  when a process is killed; `findings.back()` rests on a flag kept right by every branch. Words of
  a command line mean what the words before them make of them.

What makes each component correct is what the properties below state; `PROJECT.json` lists the
hazards at their lines with the properties that cover them.

## 2. The modules

**`RunOutcome`** – the vocabulary shared by the modules about a run: how a program may end, what
exit code `RunProcess` makes of that (`128 + signal`), which results it may return.

**`RunContract`** – the abstract specification of `RunProcess` towards its caller: one child is
started at most once; the call returns once, only after that child has ended; the result is how
that child really ended; `SIGKILL` comes from the analyzer only in a run reported as timed out.
No streams, groups or descriptors.

**`RunProcess`** – the detailed specification. `pc` follows `RunProcess` from the setup
(`start`) over `parent`, the `select` loop (`loop`, `read`, one `read` call per step), the kill
(`kill`) and the closing (`close`) to `waitpid` (`wait`) and `done`. `end[s]` is the state of
the read end of a stream: `stdout_open` and `stderr_open` of the code together with why it was
closed. Beside the analyzer run the forked child (`SetPgid`, `StartFails`, `Exec`), the program
and its descendants (`BeginWrite`, `CloseStream`, `ForkChild`, `LeaveGroup`, `EndsItself`) and
the kernel and clock (`EndWrite`, `Die`, `Expire`). A write is two steps, so that a process can
be blocked in it, and a signal is two steps, so that a process can still write or be found alive
between `kill` and its death. Text is abstracted to chunks: only how many of them are unread
matters to any property. `owed` and `execed` only observe.

`select` is modelled as the code uses it: it reports the streams that are readable now, whatever
the time, and a timeout only if there are none (`SelectReady`, `SelectTimesOut`); `EINTR` repeats
the loop and is a stutter here (`Deadline` models what it does to the wait). `AppendFromFd` reads
until `EAGAIN`, end of file or an error.

**`Descriptors`** – the same function as a sequence of calls on descriptor tables, for several
runs at once in the threads of one process: `pipe`, `fcntl`, `fork`, each `close`, and in the child
`close`, `dup2`, `open` and `execv`, with the kernel's rule that the lowest free descriptor is
given. The initial table is any of a set, so `pipe` runs out of descriptors at every possible call.
`starting` only observes which other runs were between their `pipe` and the `close` of their write
ends at a fork.

**`Deadline`** – the way of `--timeout` from seconds to milliseconds (cli_args.cpp:335), to a
deadline on the steady clock (process.cpp:175), to what is left and to the `timeval` of each
`select` (process.cpp:200-203), in signed integers that wrap around at `MaxInt`. The clock goes on
between any two steps; `select` counts from when it is called, and returns early for output and
for signals.

**`Analyzer`** – `Main` after argument parsing, `RunBatch`, `Run` and `Verdict`. The command line
and the file system are chosen in `Init`; a run is its contract, in one step (`Execute`,
`ExecuteRefused`). Beside each `AnalyzerResult` the model keeps the *facts* of its test (was the
program built, really started, late, how did it end, did it report), which the code cannot see;
the properties compare the exit status with the facts, not with the fields computed from them.

**`Selection`** – the elements of a sequence at some of its places, in their order: what is left by
a loop that passes over some (`--instrument`, `unique`, a rule that is listed already), and what is
read by position.

**`CommandLine`** – `ParseArgs` word after word, with the state the code has: reading options, the
value of an option, or the compiler's words. Beside it stands a reading of the same line by position
(`IsValue`, `Separator`, `ValuesOf`, `Mistake`), which the properties compare it with. A word is
atomic; two spellings of one option stand for each other.

**`CompilerArguments`** – operators for what the compiler is called with: the first output a list
of words names, `BuildCompilerArguments`, the compatibility words of a source, the path of its
program; and for `DiscoverSourceFiles`: the orders in which a walk may meet the files, sorting and
`unique`.

**`Invocation`** – `Analyzer` composed with both: the same actions, with the words, the sources,
the compiler calls and the programs on the disk. The facts `Analyzer` chose freely (`options`,
`todo`) are computed here from the command line and the directories. A program is known by the
number of the `Run` call that built it, so that one left by an earlier invocation, or built from
another source, can be told from the test's own.

**`ParseFindings`** – the loop of `ParseFindings` and `DiagnosticBox`, one turn per line. A line
is its kind, the report it belongs to and, for a row of a box, the index of the rule its warning
matches in `kVtableRules` and how many rows without a label its value goes on in. The parser never
looks ahead, so a line is parsed in the step that logs it. The texts (external) are whole or cut
reports in any order, with lines of the program's own, plain or indented, anywhere between; with
`Mixed` also lines of two reports mixed. A site is the sequence of the lines its text came from.

**`ReadOutput`** – `ParseFindings` composed with its users: the two streams are parsed one after
the other, `CollectEvents` counts the same lines by the markers they contain, and the findings of
both become the SARIF log, with `ParseSite` on the parts of each site's text. Between the lines of
reports come others, with any of the marker sets in `Besides` (`ReadBeside`): the runtime's traces of
every allocation and call, and what a program prints. `CollectEvents` counts them; `ParseFindings`
makes nothing of them. `beside` and `naming` only observe how many there were.

`MCRunProcess`, `MCDescriptors`, `MCDeadline`, `MCAnalyzer`, `MCInvocation`, `MCParseFindings` and
`MCReadOutput` instantiate them for TLC. `RunProcessProofs`, `DescriptorsProofs`, `DeadlineProofs`,
`AnalyzerProofs`, `InvocationProofs` (which builds on it), `ParseFindingsProofs` and
`ReadOutputProofs` (which builds on that) hold the proofs, `SelectionProofs` the lemmas about
numbers and selections that the last three share. Definitions with `Mut` in their name are plausible
bugs of the code, placed before the definition they deform: each property has one that violates it.

## 3. The runs

| Run | Shows |
|---|---|
| `run_process` | One leader and one descendant, two streams, every ability of the program, every failing call. `CompleteCapture`: a run without error and timeout has read both streams to their end, and nobody can write any more. `OutputSoFarKept`: the chunks in the pipes at the kill are read before the return. `GroupKilled`: no process of the group survives a timeout, one forked during the kill included. `FinishedIsNotTimedOut`: a program that has let go of both streams before `select` returned 0, itself and all it forked, is never reported as timed out, however late the analyzer comes. `ImplementsContract`: refinement of `RunContract`. `BoundedWhenQuiet`: `RunProcess` returns provided that the program stops writing at some point, also when it hangs and when a descendant that keeps the streams open has left the group. Also when no deadline ever passes, which is a run without a timeout, it returns once all processes are gone (`ReturnsOnceGone`), and a process blocked on a full pipe is released unless another one writes without end (`WriterReleased`). |
| `descriptors_wired` | Two runs at once. `OutputIsWired`: each program has exactly one write end of its own run on each of stdout and stderr and no other end of it. `StdinIsNull`. `NothingLeaks`: whatever fails, the analyzer ends with the table it began with. `NumbersAreOwn`: a run never closes or reads a number that is another's by then. `OthersAreKeptOut`: a program holds ends of the other run only if that was starting its own child just then. |
| `deadline_exact` | Timeouts whose deadlines fit. `NotKilledEarly`: nobody is killed before the time asked for, and nobody with `--timeout 0`. `WaitsForWhatIsLeft`: however often `select` was interrupted. `EndsWhenDue`: a run with such a limit ends or is killed once its program writes no more. |
| `analyzer_verdict` | All 256 combinations of options, batches of up to two sources, every fate of each, failing `pipe` and `waitpid`: status 0 and 1 are given only for what README.md:187-191 says, no test masks another, and the counters of the batch summary are the marks of the per-test lines. |
| `invocations` | Every command line of up to four words and longer ones for batches, over directories that overlap, do not exist or cannot be read to their end, old programs on the disk, a compiler that may write nothing. `LineIsReadAsMeant`, `LineIsRefusedForAReason`: the parser agrees with the reading by position. `EverySourceOnce`, `ProgramsAreSeparate`, `ProgramIsOwnBuild`: each source is tested once, with a program of its own, built just before. `RunsWhatIsWritten`: the file that is run is the one the compiler was told to write, if only one output is named. `ZeroSpeaksForEverySource`: status 0 of a batch means that each source that was given was built, and that what ran of it was its own program, in time and without a finding. |
| `parse_reports` | A bounds report, two boxes with warnings in different orders and wrapped rows, a double free, a leak and the count of the leaks, on two streams in every order, whole or cut, with lines of the program and a trace of the runtime's anywhere between. `OneFindingPerReport`, `BoxRuleIsMostSpecific`, `SitesAreOwn`, `BackIsBoundsReport`: the findings are the reports, with their own rules and sites. `SummaryAgrees`: what `CollectEvents` counts is what `ParseFindings` found, the count of the leaks, and no more than the lines beside the reports account for; a box cut off hides findings, never events. `LogIsValid`: rules listed once, regions a SARIF consumer accepts. |

Six runs show where the code and what the repository says of it disagree; each checks one
property and TLC finds it violated.

| Run | Shows |
|---|---|
| `run_closed_streams` | A program that closes or redirects both streams and lives on is waited for in `waitpid` (process.cpp:253) without a deadline. |
| `run_slow_start` | Only the child calls `setpgid`; if the deadline passes first, `kill(-pid)` finds no group, its failure is ignored, and the program runs on unkilled although the result says `timed_out`. |
| `deadline_overflow` | The nanoseconds of a very long timeout (from about 9.2e9 seconds) do not fit 64 bits: the deadline wraps into the past and the program is killed at once. |
| `deadline_none` | The milliseconds of the largest timeouts do not fit either: 9223372036854775807 seconds become -1000 ms, which is taken for no limit, and a program that hangs without output is never killed (`EndsWhenDue`; README.md:198 bounds each run). |
| `analyzer_not_started` | A child in which `chdir` or `execv` fails exits with 126 or 127, `error` stays empty, and the verdict is 0: built, ran, no finding. |
| `parse_cut_box` | A box whose process dies before its last line takes the lines of the next box for its own rows: two boxes become one finding. |

Met while modelling, and not given a run of their own:

- A program that writes as fast as it is read keeps the analyzer past the deadline: `select`
  prefers readable streams to the time, and `AppendFromFd` reads until the pipe is empty. That is
  why `BoundedWhenQuiet` and `EndsWhenDue` ask the program to stop writing.
- Started with descriptors 0 and 1 closed, the write end of the stdout pipe *is* descriptor 1, and
  the child closes it after `dup2` onto itself: the program has no stdout. Started with only
  descriptor 0 closed, the same happens to `/dev/null` and stdin. These are the premises of
  `OutputIsWired` and `StdinIsNull`; the other properties of `descriptors_wired` hold there too.
- The wait is rounded down to microseconds, so a program may be killed up to one microsecond early.
- With `SIGCHLD` ignored `waitpid` fails with `ECHILD` after the program has run; the run is then
  one that was not executed, and its findings are not parsed (status 2).
- A run whose `select` failed while its program exits with 0 is marked `[RUNTIME]` and not
  counted; `analyzer_verdict` therefore lets `pipe` and `waitpid` fail, and not `select`.
- With several `--test-dir`, one that does not exist leaves only a diagnostic, and the status is
  the verdict on the others; test/cli/check_cli.py:160-163 checks a missing directory alone.
- Of several `-o` among the compiler's arguments the analyzer takes the first and clang the last;
  a `-o` that ends the command line takes the link word an installed analyzer appends as its value.
  `RunsWhatIsWritten` is about lines that name one output.
- Only `RunBatch` removes an old program before it builds, and it does not look at whether that
  succeeded: `ProgramIsOwnBuild` is about batches whose directory can be written to.
- A file that is given under two spellings (`t/a.c`, `./t/a.c`) is tested twice, into one path.
- The boxes of the runtime are logged as `[VTABLE]` and `[VCALL]`, while `vtable_events` counts
  lines with `[VTABLE-DIAG]`; and `leak_reports` counts the line that totals the leaks as one more.
  `SummaryAgrees` states what holds.
- The counters are of events, not of findings: `allocation_events` also counts every allocation the
  runtime traces (test/events_test.cpp:35), and any CoreTrace line of the program's own that names
  a bounds error or leaks is counted as one. `SummaryAgrees` therefore bounds the difference by the
  number of such lines.

### Bounds

- *Processes.* One leader and one descendant. Two are what a property can tell apart: the process
  that is waited for and one that is not, in the group or out of it. The safety properties are
  proved for any number.
- *`PipeSize`.* Two chunks: full, partly full, empty and blocked all occur. Any size in the proofs.
- *Exit codes and signals.* 0, 1 and `SIGABRT`: zero, not zero, killed. `SIGKILL` comes from the
  timeout. Any codes and signals in the proofs.
- *Runs at once, `MaxFd`.* Two symmetric runs, descriptors 0 to 10: stdio and eight pipe ends.
  `MCTables` leaves room for both, for one and a half and for less, with and without stdio. Any
  number of runs, any limit and any table in the proofs.
- *Time.* A second of eight nanoseconds and integers of seven bits: units of two keep the roundings
  and the carry from microseconds to seconds, and the clock's bound (`MaxNow`) lies past every
  deadline. `EndsWhenDue` is about behaviours that do not reach that bound first. `deadline_exact`
  has the timeouts whose deadlines fit, `deadline_overflow` and `deadline_none` those that do not.
  Any widths and units in the proofs.
- *`MaxSources`.* Two in `analyzer_verdict`: one test that masks and one that is masked, in both
  orders; three in `invocations`, as many as the overlapping directories hold. Any number in the
  proofs.
- *Lines.* All lines of up to four of twelve words, and all of two or three options (`Groups`)
  whose values look like options and ends; batches over one to three directories. `invocations`
  checks no timeout and no failing call but `exec`; `analyzer_verdict` covers those. Any lines of
  any words in the proofs.
- *Files.* Two sources whose names become one when sanitized, one directory inside another, one
  under two names. The 64-bit hash of a path is taken to be injective (an ASSUME). Any files and
  directories in the proofs.
- *Reports.* Six, with at most one cut off, so that a box meets another box, a report that went on,
  and one that is none. Any reports, and boxes of any rows, in the proofs. The sites in
  `MCReadOutput` are of every form. No run of `ReadOutput` has a box at `INFO`, which is no finding;
  the proofs have it.
- *`MaxBeside`.* One CoreTrace line beside the reports, a trace of an allocation: it comes before,
  between and inside all reports, in either stream. Lines of the program's own are not bounded. A
  line of the program that names a bounds error or leaks, and a bounds error in the stack beside one
  in the heap, are in the proofs, which have any number of lines with any markers.

### Fairness

`FairSpec` of `RunProcess` assumes that the analyzer is scheduled, that the forked child is
scheduled until it calls `execv`, that a signal delivered takes effect, and that the kernel
completes a write that stays possible. Nothing is assumed of the program: it need not write, end,
or close anything. Nor is it assumed that a waiting `select` fails (`~SelectFails`), which would
end a wait that nothing else ends, or that the deadline passes, since it need not: a behaviour in
which it never does is also that of a run without a timeout. What is about a timeout has it as a
premise (`DeadlinePasses`: the clock goes on while the analyzer reads). These are weak fairness
conditions of what the operating system does with runnable threads and pending signals; the
analyzer's own calls are either non-blocking or listed as blocking in their guards (`SelectReady`,
`Reap`). `FairSpec` of `Deadline` assumes that the analyzer is scheduled and the clock goes on,
nothing of the program.

`run_process` has `SlowStart = FALSE`: the child has called `setpgid` when the deadline passes.
The shortest timeout is a second, so this is the normal case; `run_slow_start` drops it.
`deadline_exact` does not check for deadlocks: its clock stops at `MaxNow`, and a run that has
ended has no further step.

## 4. The proofs

TLAPS proves every invariant that a passing run checks, and the two safety properties of whole
behaviours (`FinishedIsNotTimedOut`, `ImplementsContract`), for every number of processes, runs,
sources and reports, every command line, tree of directories, pipe size, descriptor table, integer
width, clock unit, set of exit codes and choice of failing calls:

| Theorem | Module | Assumes |
|---|---|---|
| `TypeCorrect`, `CaptureIsComplete`, `OutputIsKept`, `FinishedRunIsNotTimedOut` | `RunProcessProofs` | – |
| `GroupIsKilled` | `RunProcessProofs` | `~SlowStart` |
| `ContractIsKept` (`Spec => Contract!Spec`) | `RunProcessProofs` | – |
| `DescriptorsTypeCorrect`, `NumbersStayOwn`, `NoDescriptorLeaks`, `ProgramsAreWired`, `ProgramsReadNothing`, `OtherRunsAreKeptOut` | `DescriptorsProofs` | – |
| `DeadlineTypeCorrect` | `DeadlineProofs` | – |
| `NobodyIsKilledEarly`, `EveryWaitIsExact` | `DeadlineProofs` | `Fits` |
| `AnalyzerTypeCorrect`, `OneStatusIsReported`, `NoTestIsMasked` | `AnalyzerProofs` | – |
| `ZeroStatusIsClean` | `AnalyzerProofs` | `"exec" \notin MayFail` |
| `CountersAreMarks` | `AnalyzerProofs` | `"select" \notin MayFail` |
| `ParserTypeCorrect`, `BackIsAlwaysBoundsReport` | `ParseFindingsProofs` | – |
| `FindingsAreReports`, `BoxRulesAreMostSpecific`, `FindingsKeepTheirSites`: one text | `ParseFindingsProofs` | `~Mixed` |
| `FindingsAreReportsOfTheText`, `BoxRulesOfTheText`, `SitesOfTheText`: the same for each of two texts | `ReadOutputProofs` | `~Mixed` |
| `SummaryAlwaysAgrees` | `ReadOutputProofs` | `~Mixed` |
| `RegionsAreValid`, `LogIsAlwaysValid` | `ReadOutputProofs` | – |
| `InvocationIsAnalyzer` (`InvocationSpec => Spec` of `Analyzer`) | `InvocationProofs` | `~Parsed.help` |
| `LineReadAsMeant`, `LineRefusedForAReason`, `WhatIsWrittenRuns`, `OwnProgramRuns`, `ProgramsStayApart`, `EachSourceIsTestedOnce`, `ZeroIsAboutEverySource` | `InvocationProofs` | – |

Each assumption excludes something the code really does not cope with. `~SlowStart`, `Fits` and
`"exec" \notin MayFail` are the findings `run_slow_start`, `deadline_overflow` and
`analyzer_not_started`: without them TLC refutes the property. `Fits` says that the latest clock
plus any timeout given is at most the largest integer. A failing `select` breaks the counting as
described in section 3. `~Mixed` says that a report's lines follow each other but for lines of the
program's own: the parser knows one report at a time, and of two threads that log at once one may
get the other's sites (findings.cpp:383-388). `ParserTypeCorrect`, `BackIsAlwaysBoundsReport` and
`LogIsAlwaysValid` hold with mixed lines too. `~Parsed.help` is no failure of the code: a request for
help ends an invocation before anything `Analyzer` models.

The named assumptions on the constants (`OutcomeAssumption`, `ConstantsAssumption`,
`DescriptorsAssumption`, `DeadlineAssumption`, `AnalyzerAssumption`, `InvocationAssumption`,
`ReportsAssumption`, `OutputAssumption`) say what kind of value each is; `CommandLineAssumption` also
that a word which holds an option and its value is no option itself. `CompilerArgumentsAssumption`
says more: the names of the programs of two files differ, which is the injectivity of the hash, and
no path of a source or a program reads as an option of the compiler. (It would if a directory were
called `--output=…`: clang would then take the source for the output.) `RowsAssumption` is about the
boxes of the runtime (external): a box that is a finding has a site and a warning, begins with a row
that has a label, and a value that needs rows without a label is followed by them, a site by exactly
as many. TLC evaluates each on every run of a module that has it.

The arguments:

- *`RunProcess`.* None of its properties is inductive. `CompleteCapture` needs that whoever is in
  the middle of a write still holds that write end, that an end of file, once seen, is final (nobody
  holds the end and nobody can get it back, since a fork only passes on what its parent holds), and
  that the loop is only left with both streams done, an error or a timeout. `OutputSoFarKept` needs
  that between the kill and the closing every stream that still owes chunks is among those to be
  read, and that it owes no more than its pipe holds. `GroupKilled` needs that a fork is only made
  by a process without a pending `SIGKILL`, and that the group is not joined after the deadline.
  `FinishedIsNotTimedOut` needs that the analyzer has kept no write end since it dropped its own
  (`NoEndKept`): then, once no process holds one, none comes back, since a fork only passes on what
  its parent holds, every stream still open is readable, and `select` never gets to tell the time
  (`LetGoStep`). The refinement adds the life of the leader: it is `dead` exactly when its status is
  set, and a status of `SIGKILL` that is not its own implies the kill.
- *`Descriptors`.* The invariant ties the table to the runs (`TableInv`): an end in use has a
  descriptor, the table has that end there, and every descriptor that is no run's is as it was
  before the first run. Since an entry names one end only, no two ends share a number, which is
  what `NumbersAreOwn` is about; and with nothing in use the table is the old one. What is in use
  follows from how far a run is (`Phase`). For the children (`ChildInv`): the ends the child was
  given are those its run had at the fork, one number each; from there its own table is followed
  call by call, first both read ends closed, then stdout, then stderr, then the write ends
  (`Wired`), and apart from that its stdin (`Stdin`). An end of another run in the child's table is
  close-on-exec unless that run was starting (`OthersGoAway`), because the analyzer marks its read
  ends before it forks and closes the write ends after (`KeptAreCloexec`).
- *`Deadline`.* The fields of a `timeval` come from two divisions: `TimevalIsExact` shows that they
  are in range and that the wait is what was left, to the microsecond below. The invariant keeps
  that the milliseconds are those asked for, the deadline is the start plus the timeout (the
  wrap-around is the identity where `Fits` holds), that a wait never outlasts the deadline by the
  clock it was computed from, and that the clock only grows, so a `select` that times out does so
  less than a microsecond before the deadline or after it.
- *`Analyzer`.* A result *tells* the facts of its test from the moment `RunProcess` has returned
  (`Taken`, `Told`); every finished test is told by its result (`Past`); the verdict so far is an
  upper bound of the verdicts and one of them, and the runtime failures are counted iff there is
  one (`BatchTells`); the status is that of one test or of the batch (`StatusTells`). For the
  counters a result must be *consistent* (`Consistent`): a program that was built and executed
  succeeded iff it exited with 0, so `success` and the mark say the same unless `select` failed.
  Each test then adds itself to exactly the sets of marked tests whose counter it increments.
- *`ParseFindings`.* On any line of any kind the flag is only set together with a bounds report
  appended, and reset by whatever appends anything else or opens a box. For types a box has a
  most specific rule and a last site; both follow from the well-foundedness of `<` on `Nat`.
  For the findings, only the last report of the text is under way (`TextInv`). As long as no box has
  been cut off, the open box is that report: its rows are the report's rows read so far, with the
  rows without a label joined to the one before (`BoxInv`, `BoxTells`); the findings are the
  reports of the text that are findings, but for the box under way (`OneEach`); and each of them
  tells its own rule and sites, complete once its lines are (`FindingsTell`). A box that was cut off
  stays open and takes the lines of the next (`parse_cut_box`), so nothing of this is claimed from
  then on. The heart is `BoxAtEnd`: a box's last row has been read, so each warning's rows are
  joined up to where they tell its rule, and `MostSpecific` is the least of them.
- *`ReadOutput`.* A second text begins with no open box and no bounds report, so the invariant of
  one text begins anew (`NextStreamKeeps`). For the summary, `Agreement` says that it agrees after
  every *line*, and not only at the end: a line of a report that is counted is the first one of a
  report of the same rule, which `ParseLine` appends in that very step, since no box that could take
  it is open unless one was cut off (`NoBoxHides`); no other line of a report is counted or appends a
  finding with a rule that is; and a line beside the reports appends nothing and adds at most one to
  a counter, for which `beside` or `naming` grows as well (`BesideAgrees`). Appending one finding adds
  one element to the set `FindingsNaming` counts, or none. A cut box can swallow such a finding but
  not make one, which leaves the lower bounds.
  For the log, that a sequence without the elements that occurred before lists each element once
  (`RulesAreListed`), and that the site of a finding, mixed or not, is made of parts of texts
  (`ReadParsesParts`), on which `RegionsAreValid` rests.
- *`Selection`.* Sequences are compared by counting instead of by induction: the `k`-th place of a
  set is the one up to which there are `k` (`Nth`), and since the count grows by one at each place
  of the set and nowhere else, a selection has the elements at these places, in their order, and
  nothing else.
- *`Invocation`, the line.* `Reading` ties the state of `ParseArgs` after `i` words to the reading
  by position up to `i`: as long as options are read, no separator has been passed and everything
  gathered is what the analyzer's own words up to there give (`Gathered`); in a value the same holds
  up to the word before; in the compiler's words the separator is behind and the rest is a part of
  the line; at an end one of these words was a mistake or a request for help (`Stopped`). It holds
  after every word because the least one after which it did not would contradict the step before
  it. The same argument shows that the recursive functions exist at all (`ReadWordsByWord`).
- *`Invocation`, the compiler.* Dropping `--instrument` and adding link and compatibility words
  neither adds nor removes an output, so there is either no output and the added `-o` is the only
  one, or the one found in what is left is the one clang takes. With a path that reads as no output
  option that also holds of every test of a batch (`PlainCall`).
- *`Invocation`, the batch.* `Calls` says that the call under way and all recorded ones are made of
  the line and their source; `Progress`, how many sources, calls and tests there are in each place
  of the code. On these rest the rest: `Own`, that between the removal of an old program and the
  `execv` nothing but this call's own program is at its path; `Apart`, that what was written stays
  there until a later test of the same file begins (`Replaced`), since other files have other paths;
  `InOrder`, that the sources tested, under way and left are what sorting and `unique` made of the
  files met, in this order. Sorting keeps the paths it is given and puts equal ones side by side
  (`WhereInOrder`), so `unique` leaves each once, and a walk that does not fail meets every file.
  `ZeroSpeaksForEverySource` puts these together with `NothingIsMasked` of `Analyzer` and the fact
  that a program which was started was there (`Executed`).

Only model-checked: the liveness properties (`BoundedWhenQuiet`, `ReturnsOnceGone`, `WriterReleased`,
`EndsWhenDue`). They rest on fairness, which is stated with ENABLED, and the provers know neither.
What recursive functions compute is proved where an argument by a least counterexample does, as
above; the modules with theorems have no RECURSIVE operator.

## 5. Not modelled

- The text itself: bytes, line splitting, `StripAnsi`, the columns of a row, the messages, CWEs and
  catalogue texts of findings, JSON. No property is about their form, and strings taken apart
  character by character are what the unit tests cover well.
- The arguments, the working directory and the environment of the child beyond whether they are
  read from the command line as meant.
- Printing, except for the marks of the per-test lines.
- Whether the analyzer's working directory still exists (`std::filesystem::relative` and
  `absolute` then fail, and the code takes the file's name).
- Descriptors past `FD_SETSIZE` (undefined behaviour), and two invocations of the analyzer at once
  on one artifact directory.
- `shipped_toolchain.cpp` except for the words it has `Main` append: paths and one `setenv` at
  start-up.
- The compiler, its runtime and the program: external, present as the choices they can make.
- The Windows branch of `process.cpp`, which returns an error, and build, packaging and test
  scripts.

## 6. What is left

1. Two hazards have no property. Of two threads that report a bounds error at the same time one may
   get the other's sites (findings.cpp:383-388): nothing in the repository promises otherwise, and
   the theorems that exclude it say so. `FD_SET` on a descriptor of 1024 or more (process.cpp:187)
   is undefined; the repository bounds the descriptors of a library client nowhere.
2. `StripAnsi` (events.cpp), on which only the text output and the form of a line depend, could join
   `ReadOutput`.
3. The liveness properties, should the prover learn to reason about ENABLED: their arguments are in
   section 3, and the invariants they need are proved.
