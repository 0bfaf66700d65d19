------------------------------- MODULE Analyzer -------------------------------
(***************************************************************************)
(* Main, RunBatch, Run and Verdict (src/src/runtime_analyzer.cpp and       *)
(* events.cpp:119-131): sources are built and run one after the other,     *)
(* and the exit status of the analyzer is its verdict on all of them.      *)
(*                                                                         *)
(* The command line and the file system are chosen once, in Init.  The     *)
(* compiler is external: it builds a source or does not.  RunProcess is    *)
(* its contract (RunOutcome, RunContract).  Of the findings of a test only *)
(* whether there are any is kept (ParseFindings models the rest), and      *)
(* beside each result the facts of its test, which the code cannot see.    *)
(***************************************************************************)
EXTENDS RunOutcome, Sequences, FiniteSets

CONSTANTS
  MaxSources \* bound on the sources found under the test directories

ASSUME AnalyzerAssumption == MaxSources \in Nat

VARIABLES
  options, \* the command line and the directories
  pc,      \* where Main is
  todo,    \* the sources left
  result,  \* the AnalyzerResult under construction
  fact,    \* what happened to the current source
  tests,   \* the finished tests, each with its result and its facts
  batch,   \* the BatchResult without its texts, and the verdict so far
  status   \* the exit status of the analyzer

vars == <<options, pc, todo, result, fact, tests, batch, status>>

kExitNoFindings == 0
kExitFindings == 1
kExitNotAnalyzed == 2

Larger(a, b) == IF a > b THEN a ELSE b

Options == [
  args_ok : BOOLEAN,         \* ParseArgs accepts the command line
  test_dir : BOOLEAN,        \* --test-dir is given
  output_dir_ok : BOOLEAN,   \* the artifact directory can be created
  compile_only : BOOLEAN,    \* a compiler flag stops before linking
  forwarded_output : BOOLEAN,\* the compiler arguments name an output
  explicit_output : BOOLEAN, \* so does the analyzer's own -o
  run_program : BOOLEAN,     \* no --no-run
  strict_test_exit : BOOLEAN]

FreshResult == [success |-> FALSE, compile_success |-> FALSE, executed |-> FALSE,
                timed_out |-> FALSE, exit_code |-> 1, findings |-> FALSE]
FreshFact == [built |-> FALSE, started |-> FALSE, late |-> FALSE, how |-> NoStatus,
              reported |-> FALSE]
FreshBatch == [success |-> FALSE, exit_code |-> kExitNotAnalyzed, verdict |-> kExitNoFindings,
               compile_failures |-> 0, runtime_failures |-> 0, timeouts |-> 0]

Init ==
  /\ options \in Options
  /\ todo \in IF options.test_dir THEN 0..MaxSources ELSE {1}
  /\ pc = "main"
  /\ result = FreshResult
  /\ fact = FreshFact
  /\ tests = <<>>
  /\ batch = FreshBatch
  /\ status = kExitNotAnalyzed

-----------------------------------------------------------------------------
(* Main and the beginning of RunBatch.                                     *)

Exit(code) ==
  /\ status' = code
  /\ pc' = "exited"
  /\ UNCHANGED <<options, todo, result, fact, tests, batch>>

CompileOnlyRun == options.compile_only /\ options.run_program

RejectArguments == pc = "main" /\ ~options.args_ok /\ Exit(kExitNotAnalyzed)

(* RunBatch returns its initial result.                                    *)
RefuseBatch ==
  /\ pc = "main" /\ options.args_ok /\ options.test_dir
  /\ CompileOnlyRun \/ ~options.output_dir_ok \/ todo = 0
  /\ Exit(batch.exit_code)

BeginTests ==
  /\ pc = "main" /\ options.args_ok
  /\ options.test_dir => ~CompileOnlyRun /\ options.output_dir_ok /\ todo > 0
  /\ pc' = "run"
  /\ UNCHANGED <<options, todo, result, fact, tests, batch, status>>

-----------------------------------------------------------------------------
(* Run: one source.                                                        *)

(* A batch always names the output itself. *)
OutputTwice == options.forwarded_output /\ (options.test_dir \/ options.explicit_output)

Returns(r, f) ==
  /\ pc' = "ran"
  /\ result' = r
  /\ fact' = f
  /\ UNCHANGED <<options, todo, tests, batch, status>>

RefuseRun ==
  /\ pc = "run"
  /\ CompileOnlyRun \/ OutputTwice
  /\ Returns(FreshResult, FreshFact)

Compiling == pc = "run" /\ ~CompileOnlyRun /\ ~OutputTwice

CompileFails == Compiling /\ Returns(FreshResult, FreshFact)

CompileOnly ==
  /\ Compiling
  /\ ~options.run_program
  /\ Returns([FreshResult EXCEPT !.compile_success = TRUE, !.success = TRUE, !.exit_code = 0],
             [FreshFact EXCEPT !.built = TRUE])

Compile ==
  /\ Compiling
  /\ options.run_program
  /\ pc' = "execute"
  /\ result' = [FreshResult EXCEPT !.compile_success = TRUE]
  /\ fact' = [FreshFact EXCEPT !.built = TRUE]
  /\ UNCHANGED <<options, todo, tests, batch, status>>

(* RunProcess returns r.  An error ends Run before the output is parsed.   *)
Take(r, started, late, how, reported) ==
  /\ result' = [result EXCEPT !.exit_code = r.exit_code, !.executed = r.error = "none",
                              !.timed_out = r.timed_out]
  /\ fact' = [fact EXCEPT !.started = started, !.late = late, !.how = how,
                          !.reported = reported]
  /\ pc' = IF r.error = "none" THEN "parse" ELSE "ran"
  /\ UNCHANGED <<options, todo, tests, batch, status>>

ExecuteRefused ==
  /\ pc = "execute"
  /\ \E r \in Refusals : Take(r, FALSE, FALSE, NoStatus, FALSE)

Execute ==
  /\ pc = "execute"
  /\ \E started \in BOOLEAN, late \in BOOLEAN :
       /\ late => HasTimeout
       /\ \E how \in EndsOf(started, late) : \E r \in ResultsOf(how, late) :
            \E reported \in BOOLEAN :
              /\ reported => started
              /\ Take(r, started, late, how, reported)

ParseOutput ==
  /\ pc = "parse"
  /\ Returns([result EXCEPT !.findings = fact.reported, !.success = result.exit_code = 0], fact)

-----------------------------------------------------------------------------
(* The verdict.                                                            *)

VerdictMutProgramStatus(r) == r.exit_code
VerdictMutCrashIsFinding(r) ==
  IF ~r.compile_success \/ (options.run_program /\ ~r.executed) THEN kExitNotAnalyzed
  ELSE IF r.findings \/ r.exit_code > 128 THEN kExitFindings
  ELSE IF r.timed_out THEN kExitNotAnalyzed ELSE kExitNoFindings

Verdict(r) ==
  IF ~r.compile_success \/ (options.run_program /\ ~r.executed) THEN kExitNotAnalyzed
  ELSE IF r.findings THEN kExitFindings
  ELSE IF r.timed_out THEN kExitNotAnalyzed ELSE kExitNoFindings

Finished == [result |-> result, fact |-> fact]

ReturnVerdict ==
  /\ pc = "ran" /\ ~options.test_dir
  /\ pc' = "exited"
  /\ status' = Verdict(result)
  /\ tests' = Append(tests, Finished)
  /\ UNCHANGED <<options, todo, result, fact, batch>>

CountMutTimeoutLast(r, b) ==
  IF ~r.compile_success THEN [b EXCEPT !.compile_failures = @ + 1]
  ELSE IF r.exit_code # 0 THEN [b EXCEPT !.runtime_failures = @ + 1]
  ELSE IF r.timed_out THEN [b EXCEPT !.timeouts = @ + 1] ELSE b

(* The rest of RunBatch's loop body. *)
Count(r, b) ==
  IF ~r.compile_success THEN [b EXCEPT !.compile_failures = @ + 1]
  ELSE IF r.timed_out THEN [b EXCEPT !.timeouts = @ + 1]
  ELSE IF r.exit_code # 0 THEN [b EXCEPT !.runtime_failures = @ + 1] ELSE b

CountTestMutLastVerdict ==
  /\ pc = "ran" /\ options.test_dir
  /\ batch' = [Count(result, batch) EXCEPT !.verdict = Verdict(result)]
  /\ tests' = Append(tests, Finished)
  /\ todo' = todo - 1
  /\ pc' = IF todo' > 0 THEN "run" ELSE "finish"
  /\ UNCHANGED <<options, result, fact, status>>

CountTest ==
  /\ pc = "ran" /\ options.test_dir
  /\ batch' = [Count(result, batch) EXCEPT !.verdict = Larger(@, Verdict(result))]
  /\ tests' = Append(tests, Finished)
  /\ todo' = todo - 1
  /\ pc' = IF todo' > 0 THEN "run" ELSE "finish"
  /\ UNCHANGED <<options, result, fact, status>>

(* The end of RunBatch; Main returns its exit code. *)
FinishBatchMutStrictReplaces ==
  /\ pc = "finish"
  /\ LET runtime_ok == options.strict_test_exit => batch.runtime_failures = 0
         code == IF runtime_ok THEN batch.verdict ELSE kExitFindings
     IN  /\ batch' = [batch EXCEPT !.success = batch.compile_failures = 0 /\ runtime_ok,
                                   !.exit_code = code]
         /\ status' = code
  /\ pc' = "exited"
  /\ UNCHANGED <<options, todo, result, fact, tests>>

FinishBatch ==
  /\ pc = "finish"
  /\ LET runtime_ok == options.strict_test_exit => batch.runtime_failures = 0
         code == IF runtime_ok THEN batch.verdict ELSE Larger(batch.verdict, kExitFindings)
     IN  /\ batch' = [batch EXCEPT !.success = batch.compile_failures = 0 /\ runtime_ok,
                                   !.exit_code = code]
         /\ status' = code
  /\ pc' = "exited"
  /\ UNCHANGED <<options, todo, result, fact, tests>>

Done == pc = "exited" /\ UNCHANGED vars

Next ==
  \/ RejectArguments \/ RefuseBatch \/ BeginTests
  \/ RefuseRun \/ CompileFails \/ CompileOnly \/ Compile
  \/ ExecuteRefused \/ Execute \/ ParseOutput
  \/ ReturnVerdict \/ CountTest \/ FinishBatch
  \/ Done

Spec == Init /\ [][Next]_vars

-----------------------------------------------------------------------------
(* Properties.                                                             *)

AnalyzerResults == [success : BOOLEAN, compile_success : BOOLEAN, executed : BOOLEAN,
                    timed_out : BOOLEAN, exit_code : 0..255, findings : BOOLEAN]
Facts == [built : BOOLEAN, started : BOOLEAN, late : BOOLEAN,
          how : {NoStatus} \cup {Exited(n) : n \in 0..255} \cup {Killed(n) : n \in 1..127},
          reported : BOOLEAN]

(* Every variable has its type.                                            *)
TypeOK ==
  /\ options \in Options
  /\ pc \in {"main", "run", "execute", "parse", "ran", "finish", "exited"}
  /\ todo \in 0..(MaxSources + 1)
  /\ result \in AnalyzerResults
  /\ fact \in Facts
  /\ tests \in Seq([result : AnalyzerResults, fact : Facts])
  /\ batch \in [success : BOOLEAN, exit_code : 0..2, verdict : 0..2, compile_failures : Nat,
                runtime_failures : Nat, timeouts : Nat]
  /\ status \in 0..2

TestFacts == {tests[i].fact : i \in DOMAIN tests}

(* The table of exit statuses (README.md:187-191), about what happened.    *)
RanClean(f) ==
  f.built /\ (options.run_program => f.started /\ ~f.late /\ ~f.reported)

(* Status 0 is only given when there was something to analyze and every    *)
(* program was built, was really started, ran to its end and reported no   *)
(* finding, whatever the other tests of the batch did before and after it. *)
ZeroMeansRanClean ==
  pc = "exited" /\ status = 0 => TestFacts # {} /\ \A f \in TestFacts : RanClean(f)

(* Status 1 is only given when a program reported a finding, or under      *)
(* --strict-test-exit when one did not exit with 0.                        *)
OneMeansReported ==
  pc = "exited" /\ status = 1 =>
    \E f \in TestFacts : f.reported \/ (options.strict_test_exit /\ f.how # Exited(0))

(* The status of a batch is at least that of each of its tests alone (a    *)
(* source that was not built, or that ran into the timeout without a       *)
(* finding, gives 2), also when --strict-test-exit raises it.              *)
NothingIsMasked ==
  pc = "exited" =>
    \A f \in TestFacts :
      /\ ~f.built \/ (f.late /\ ~f.reported) => status = 2
      /\ f.reported => status >= 1
      /\ options.test_dir /\ options.strict_test_exit /\ f.started /\ f.how # Exited(0)
           => status >= 1

(* The mark PrintBatchResult puts on the line of a test. *)
Mark(r) ==
  IF ~r.compile_success THEN "COMPILE"
  ELSE IF r.timed_out THEN "TIMEOUT"
  ELSE IF ~r.success THEN "RUNTIME" ELSE "PASS"

Marked(m) == Cardinality({i \in DOMAIN tests : Mark(tests[i].result) = m})

(* Batch mode marks compile failures, runtime failures and timeouts "in    *)
(* the per-test lines [...] and counts them in the batch summary"          *)
(* (README.md:222-224): at every moment the counters are the marks.        *)
CountsMatchMarks ==
  options.test_dir =>
    /\ batch.compile_failures = Marked("COMPILE")
    /\ batch.timeouts = Marked("TIMEOUT")
    /\ batch.runtime_failures = Marked("RUNTIME")
=============================================================================
