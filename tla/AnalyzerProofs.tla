---------------------------- MODULE AnalyzerProofs ----------------------------
(* Proofs about the verdict, for every number of sources and every command *)
(* line, fate of a source, exit code and choice of failing calls; those of *)
(* the status 0 assume that execv and chdir succeed (see the run           *)
(* analyzer_not_started for what happens when they do not).                *)
EXTENDS Analyzer, FiniteSetTheorems, SequenceTheorems, TLAPS

-----------------------------------------------------------------------------
(* Type correctness.                                                       *)

Hows == {NoStatus} \cup {Exited(n) : n \in 0..255} \cup {Killed(n) : n \in 1..127}

LEMMA EndsAreTyped ==
  ASSUME NEW started \in BOOLEAN, NEW late \in BOOLEAN, NEW how \in EndsOf(started, late)
  PROVE  how \in Hows /\ ExitCode(how) \in 0..255
<1>1. \/ \E n \in 0..255 : how = Exited(n)
      \/ \E n \in 1..127 : how = Killed(n)
  <2>1. CASE how \in Ends
    BY <2>1, OutcomeAssumption DEF Ends
  <2>2. CASE how \in StartFailures
    BY <2>2 DEF StartFailures
  <2>3. CASE how = Killed(SIGKILL)
    BY <2>3 DEF SIGKILL
  <2> QED BY <2>1, <2>2, <2>3 DEF EndsOf
<1> QED BY <1>1 DEF Hows, ExitCode, Exited, Killed

LEMMA RefusalsAreTyped ==
  ASSUME NEW r \in Refusals
  PROVE  r.exit_code \in 0..255 /\ r.timed_out \in BOOLEAN /\ r.error # "none"
<1>1. PICK call \in MayFail \cap {"pipe", "fork"} : r = Result(1, call, FALSE)
  BY DEF Refusals
<1>2. r = [exit_code |-> 1, error |-> call, timed_out |-> FALSE]
  BY <1>1 DEF Result
<1>3. call # "none"
  OBVIOUS
<1> QED BY <1>2, <1>3

LEMMA ResultsAreTyped ==
  ASSUME NEW how, ExitCode(how) \in 0..255, NEW late \in BOOLEAN, NEW r \in ResultsOf(how, late)
  PROVE  /\ r.exit_code \in 0..255
         /\ r.timed_out = late
         /\ r.error = "none" => r.exit_code = ExitCode(how)
<1>1. CASE r = Result(ExitCode(how), "none", late)
  BY <1>1 DEF Result
<1>2. CASE ~late /\ r = Result(ExitCode(how), "select", FALSE)
  BY <1>2 DEF Result
<1>3. CASE r = Result(1, "waitpid", late)
  BY <1>3 DEF Result
<1> QED BY <1>1, <1>2, <1>3 DEF ResultsOf

(* There is a source left while one is under way. *)
Remaining ==
  /\ pc = "main" /\ ~options.test_dir => todo = 1
  /\ pc \in {"run", "execute", "parse", "ran"} => todo >= 1

TypeInv == TypeOK /\ Remaining

LEMMA TypeInit == Init => TypeInv
<1> SUFFICES ASSUME Init
             PROVE  TypeInv
  OBVIOUS
<1>1. result \in AnalyzerResults
  BY DEF Init, FreshResult, AnalyzerResults
<1>2. fact \in Facts
  BY DEF Init, FreshFact, Facts
<1>3. tests \in Seq([result : AnalyzerResults, fact : Facts])
  BY DEF Init
<1>4. batch \in [success : BOOLEAN, exit_code : 0..2, verdict : 0..2, compile_failures : Nat,
                 runtime_failures : Nat, timeouts : Nat]
  BY DEF Init, FreshBatch, kExitNotAnalyzed, kExitNoFindings
<1>5. todo \in 0..(MaxSources + 1) /\ status \in 0..2
  BY AnalyzerAssumption DEF Init, kExitNotAnalyzed
<1> QED BY <1>1, <1>2, <1>3, <1>4, <1>5 DEF Init, TypeInv, TypeOK, Remaining

LEMMA VerdictIsTyped == \A r : Verdict(r) \in 0..2
BY DEF Verdict, kExitNoFindings, kExitFindings, kExitNotAnalyzed

LEMMA RemainingStep == TypeInv /\ [Next]_vars => Remaining'
<1> SUFFICES ASSUME TypeInv, [Next]_vars
             PROVE  Remaining'
  OBVIOUS
<1>1. todo \in Nat
  BY AnalyzerAssumption DEF TypeInv, TypeOK
<1> USE <1>1 DEF TypeInv, Remaining
<1>2. CASE RejectArguments \/ RefuseBatch
  BY <1>2 DEF RejectArguments, RefuseBatch, Exit
<1>3. CASE BeginTests
  BY <1>3 DEF BeginTests
<1>4. CASE RefuseRun \/ CompileFails \/ CompileOnly \/ Compile
  BY <1>4 DEF RefuseRun, CompileFails, CompileOnly, Compile, Compiling, Returns
<1>5. CASE ExecuteRefused \/ Execute \/ ParseOutput
  BY <1>5 DEF ExecuteRefused, Execute, ParseOutput, Take, Returns
<1>6. CASE ReturnVerdict \/ CountTest \/ FinishBatch
  BY <1>6 DEF ReturnVerdict, CountTest, FinishBatch
<1>7. CASE UNCHANGED vars
  BY <1>7 DEF vars
<1> QED BY <1>2, <1>3, <1>4, <1>5, <1>6, <1>7 DEF Next, Done

LEMMA TypeStep == TypeInv /\ [Next]_vars => TypeOK'
<1> SUFFICES ASSUME TypeInv, [Next]_vars
             PROVE  TypeOK'
  OBVIOUS
<1> USE DEF TypeInv, TypeOK
<1>1. CASE RejectArguments \/ RefuseBatch
  <2>1. status' \in 0..2
    BY <1>1 DEF RejectArguments, RefuseBatch, Exit, kExitNotAnalyzed
  <2> QED BY <1>1, <2>1 DEF RejectArguments, RefuseBatch, Exit
<1>2. CASE BeginTests
  BY <1>2 DEF BeginTests
<1>3. FreshResult \in AnalyzerResults /\ FreshFact \in Facts
  BY DEF FreshResult, AnalyzerResults, FreshFact, Facts
<1>4. CASE RefuseRun \/ CompileFails
  BY <1>3, <1>4 DEF RefuseRun, CompileFails, Returns
<1>5. CASE CompileOnly \/ Compile
  <2>1. result' \in AnalyzerResults
    <3>1. CASE CompileOnly
      <4>1. result' = [FreshResult EXCEPT !.compile_success = TRUE, !.success = TRUE,
                                          !.exit_code = 0]
        BY <3>1 DEF CompileOnly, Returns
      <4>2. 0 \in 0..255
        OBVIOUS
      <4> QED BY ONLY <1>3, <4>1, <4>2 DEF AnalyzerResults
    <3>2. CASE Compile
      BY <1>3, <3>2 DEF Compile, AnalyzerResults
    <3> QED BY <1>5, <3>1, <3>2
  <2>2. fact' \in Facts
    <3>1. fact' = [FreshFact EXCEPT !.built = TRUE]
      BY <1>5 DEF CompileOnly, Compile, Returns
    <3>2. Facts = [built : BOOLEAN, started : BOOLEAN, late : BOOLEAN, how : Hows,
                   reported : BOOLEAN]
      BY DEF Facts, Hows
    <3> QED BY ONLY <1>3, <3>1, <3>2
  <2> QED BY <1>5, <2>1, <2>2 DEF CompileOnly, Compile, Returns
<1>6. ASSUME NEW r, NEW started \in BOOLEAN, NEW late \in BOOLEAN, NEW how \in Hows,
             NEW reported \in BOOLEAN, r.exit_code \in 0..255, r.timed_out \in BOOLEAN,
             Take(r, started, late, how, reported)
      PROVE  TypeOK'
  <2>1. result' \in AnalyzerResults
    BY <1>6 DEF Take, AnalyzerResults
  <2>2. fact' \in Facts
    <3>1. fact' = [fact EXCEPT !.started = started, !.late = late, !.how = how,
                               !.reported = reported]
      BY <1>6 DEF Take
    <3>2. fact \in [built : BOOLEAN, started : BOOLEAN, late : BOOLEAN, how : Hows,
                    reported : BOOLEAN]
      BY DEF Facts, Hows
    <3>3. fact' \in [built : BOOLEAN, started : BOOLEAN, late : BOOLEAN, how : Hows,
                     reported : BOOLEAN]
      BY <1>6, <3>1, <3>2
    <3> QED BY <3>3 DEF Facts, Hows
  <2> QED BY <1>6, <2>1, <2>2 DEF Take
<1>7. CASE ExecuteRefused
  <2>1. PICK r \in Refusals : Take(r, FALSE, FALSE, NoStatus, FALSE)
    BY <1>7 DEF ExecuteRefused
  <2>2. r.exit_code \in 0..255 /\ r.timed_out \in BOOLEAN
    BY RefusalsAreTyped
  <2>3. NoStatus \in Hows
    BY DEF Hows
  <2> QED BY <1>6, <2>1, <2>2, <2>3
<1>8. CASE Execute
  <2>1. PICK started \in BOOLEAN, late \in BOOLEAN :
          \E how \in EndsOf(started, late) : \E r \in ResultsOf(how, late) :
            \E reported \in BOOLEAN : Take(r, started, late, how, reported)
    BY <1>8 DEF Execute
  <2>2. PICK how \in EndsOf(started, late) : \E r \in ResultsOf(how, late) :
               \E reported \in BOOLEAN : Take(r, started, late, how, reported)
    BY <2>1
  <2>3. how \in Hows /\ ExitCode(how) \in 0..255
    BY EndsAreTyped
  <2>4. PICK r \in ResultsOf(how, late), reported \in BOOLEAN : Take(r, started, late, how, reported)
    BY <2>2
  <2>5. r.exit_code \in 0..255 /\ r.timed_out \in BOOLEAN
    BY <2>3, ResultsAreTyped
  <2>6. started \in BOOLEAN /\ late \in BOOLEAN /\ reported \in BOOLEAN
    OBVIOUS
  <2>7. Take(r, started, late, how, reported)
    BY <2>4
  <2> HIDE DEF TypeOK, TypeInv
  <2> QED BY ONLY <1>6, <2>3, <2>5, <2>6, <2>7
<1>9. CASE ParseOutput
  <2>1. result' \in AnalyzerResults
    <3> DEFINE success == result.exit_code = 0
    <3>1. fact.reported \in BOOLEAN
      BY DEF Facts
    <3>2. result' = [result EXCEPT !.findings = fact.reported, !.success = success]
      BY <1>9 DEF ParseOutput, Returns
    <3>3. success \in BOOLEAN
      OBVIOUS
    <3> HIDE DEF success
    <3> QED BY <3>1, <3>2, <3>3 DEF AnalyzerResults
  <2> QED BY <1>9, <2>1 DEF ParseOutput, Returns
<1>10. Finished \in [result : AnalyzerResults, fact : Facts]
  BY DEF Finished
<1>11. CASE ReturnVerdict
  <2>1. tests' \in Seq([result : AnalyzerResults, fact : Facts])
    BY <1>10, <1>11 DEF ReturnVerdict
  <2> QED BY <1>11, <2>1, VerdictIsTyped DEF ReturnVerdict
<1>12. CASE CountTest
  <2>1. tests' \in Seq([result : AnalyzerResults, fact : Facts])
    BY <1>10, <1>12 DEF CountTest
  <2>2. batch' \in [success : BOOLEAN, exit_code : 0..2, verdict : 0..2, compile_failures : Nat,
                    runtime_failures : Nat, timeouts : Nat]
    <3>1. Larger(batch.verdict, Verdict(result)) \in 0..2
      BY VerdictIsTyped DEF Larger
    <3>2. Count(result, batch) \in [success : BOOLEAN, exit_code : 0..2, verdict : 0..2,
                     compile_failures : Nat, runtime_failures : Nat, timeouts : Nat]
      <4>1. \/ Count(result, batch) = [batch EXCEPT !.compile_failures = @ + 1]
            \/ Count(result, batch) = [batch EXCEPT !.timeouts = @ + 1]
            \/ Count(result, batch) = [batch EXCEPT !.runtime_failures = @ + 1]
            \/ Count(result, batch) = batch
        BY DEF Count
      <4> QED BY <4>1
    <3>3. batch' = [Count(result, batch) EXCEPT !.verdict = Larger(batch.verdict, Verdict(result))]
      BY <1>12 DEF CountTest, Count
    <3> QED BY <3>1, <3>2, <3>3
  <2>3. todo' \in 0..(MaxSources + 1)
    BY <1>12, AnalyzerAssumption DEF CountTest, Remaining
  <2> QED BY <1>12, <2>1, <2>2, <2>3 DEF CountTest
<1>13. CASE FinishBatch
  <2> DEFINE ok == options.strict_test_exit => batch.runtime_failures = 0
             success == batch.compile_failures = 0 /\ ok
             code == IF ok THEN batch.verdict ELSE Larger(batch.verdict, kExitFindings)
  <2>1. code \in 0..2 /\ success \in BOOLEAN
    BY DEF Larger, kExitFindings
  <2>2. status' = code /\ batch' = [batch EXCEPT !.success = success, !.exit_code = code]
    BY <1>13 DEF FinishBatch
  <2> HIDE DEF ok, success, code
  <2>3. batch' \in [success : BOOLEAN, exit_code : 0..2, verdict : 0..2, compile_failures : Nat,
                    runtime_failures : Nat, timeouts : Nat]
    BY <2>1, <2>2
  <2> QED BY <1>13, <2>1, <2>2, <2>3 DEF FinishBatch
<1>14. CASE UNCHANGED vars
  BY <1>14 DEF vars
<1> QED
  BY <1>1, <1>2, <1>4, <1>5, <1>7, <1>8, <1>9, <1>11, <1>12, <1>13, <1>14 DEF Next, Done

(* Every variable keeps its type, for every batch.                         *)
THEOREM AnalyzerTypeCorrect == Spec => []TypeOK
<1>1. Init => TypeInv
  BY TypeInit
<1>2. TypeInv /\ [Next]_vars => TypeInv'
  BY TypeStep, RemainingStep DEF TypeInv
<1>3. TypeInv => TypeOK
  BY DEF TypeInv
<1> QED BY <1>1, <1>2, <1>3, PTL DEF Spec

-----------------------------------------------------------------------------
(* A result tells the facts of its test.                                   *)

(* What holds from the return of RunProcess on, before the output is       *)
(* parsed.                                                                 *)
Taken(r, f) ==
  /\ r.compile_success = f.built
  /\ ~f.built \/ ~options.run_program =>
       ~f.reported /\ ~f.late /\ ~f.started /\ ~r.findings /\ ~r.timed_out
  /\ f.built /\ ~options.run_program => r.exit_code = 0
  /\ r.executed => /\ options.run_program
                   /\ r.timed_out = f.late
                   /\ r.exit_code = ExitCode(f.how)
                   /\ f.how \in Hows
                   /\ "exec" \in MayFail \/ f.started \/ f.late

Told(r, f) == Taken(r, f) /\ (r.executed => r.findings = f.reported)
                          /\ (~r.executed => ~r.findings)

Current ==
  /\ pc = "execute" => options.run_program /\ fact.built /\ result.compile_success
                       /\ ~result.findings
  /\ pc = "parse" => Taken(result, fact) /\ result.executed /\ ~result.findings
  /\ pc = "ran" => Told(result, fact)

Past == \A i \in 1..Len(tests) : Told(tests[i].result, tests[i].fact)

LEMMA CurrentStep ==
  ASSUME TypeInv, Current, [Next]_vars
  PROVE  Current'
<1> USE DEF Current
<1>1. CASE RejectArguments \/ RefuseBatch \/ BeginTests
  BY <1>1 DEF RejectArguments, RefuseBatch, Exit, BeginTests
<1>2. CASE RefuseRun \/ CompileFails
  <2>1. result' = FreshResult /\ fact' = FreshFact /\ pc' = "ran"
    BY <1>2 DEF RefuseRun, CompileFails, Returns
  <2>2. /\ ~result'.compile_success /\ ~result'.executed /\ ~result'.findings
        /\ ~result'.timed_out /\ ~fact'.built /\ ~fact'.reported /\ ~fact'.late
        /\ ~fact'.started /\ result'.compile_success = fact'.built
    BY <2>1 DEF FreshResult, FreshFact
  <2> QED BY <2>1, <2>2 DEF Told, Taken
<1>3. CASE CompileOnly
  BY <1>3 DEF CompileOnly, Returns, FreshResult, FreshFact, Told, Taken
<1>4. CASE Compile
  BY <1>4 DEF Compile, FreshResult, FreshFact
<1>5. CASE ExecuteRefused
  <2>1. PICK r \in Refusals : Take(r, FALSE, FALSE, NoStatus, FALSE)
    BY <1>5 DEF ExecuteRefused
  <2>2. r.error # "none"
    BY RefusalsAreTyped
  <2>3. pc = "execute" /\ pc' = "ran"
    BY <1>5, <2>1, <2>2 DEF ExecuteRefused, Take
  <2>4. /\ result'.compile_success = result.compile_success /\ result'.findings = result.findings
        /\ result'.executed = FALSE
    BY <2>1, <2>2 DEF Take, TypeInv, TypeOK, AnalyzerResults
  <2>5. fact'.built = fact.built
    BY <2>1 DEF Take, TypeInv, TypeOK, Facts
  <2> QED BY <2>1, <2>3, <2>4, <2>5 DEF Told, Taken, Take
<1>6. CASE Execute
  <2>1. PICK started \in BOOLEAN, late \in BOOLEAN :
          \E how \in EndsOf(started, late) : \E r \in ResultsOf(how, late) :
            \E reported \in BOOLEAN : Take(r, started, late, how, reported)
    BY <1>6 DEF Execute
  <2>2. PICK how \in EndsOf(started, late) : \E r \in ResultsOf(how, late) :
               \E reported \in BOOLEAN : Take(r, started, late, how, reported)
    BY <2>1
  <2>3. how \in Hows /\ ExitCode(how) \in 0..255
    BY EndsAreTyped
  <2>4. PICK r \in ResultsOf(how, late), reported \in BOOLEAN : Take(r, started, late, how, reported)
    BY <2>2
  <2>5. r.timed_out = late /\ (r.error = "none" => r.exit_code = ExitCode(how))
    BY <2>3, ResultsAreTyped
  <2>6. "exec" \in MayFail \/ started \/ late
    BY DEF EndsOf, StartFailures
  <2>7. /\ result'.compile_success = result.compile_success /\ result'.findings = result.findings
        /\ result'.executed = (r.error = "none") /\ result'.timed_out = late
        /\ result'.exit_code = r.exit_code
    BY <2>4, <2>5 DEF Take, TypeInv, TypeOK, AnalyzerResults
  <2>8. /\ fact'.built = fact.built /\ fact'.started = started /\ fact'.late = late
        /\ fact'.how = how
    BY <2>4 DEF Take, TypeInv, TypeOK, Facts
  <2>9. /\ pc = "execute" /\ pc' = IF r.error = "none" THEN "parse" ELSE "ran"
        /\ UNCHANGED options
    BY <1>6, <2>4 DEF Execute, Take
  <2> QED BY <2>3, <2>5, <2>6, <2>7, <2>8, <2>9 DEF Told, Taken
<1>7. CASE ParseOutput
  <2>1. result' = [result EXCEPT !.findings = fact.reported, !.success = result.exit_code = 0]
    BY <1>7 DEF ParseOutput, Returns
  <2>2. /\ result'.compile_success = result.compile_success /\ result'.findings = fact.reported
        /\ result'.executed = result.executed /\ result'.timed_out = result.timed_out
        /\ result'.exit_code = result.exit_code
    BY <2>1 DEF TypeInv, TypeOK, AnalyzerResults
  <2>3. pc = "parse" /\ pc' = "ran" /\ UNCHANGED <<options, fact>>
    BY <1>7 DEF ParseOutput, Returns
  <2> QED BY <2>2, <2>3 DEF Told, Taken
<1>8. CASE ReturnVerdict \/ CountTest \/ FinishBatch
  BY <1>8 DEF ReturnVerdict, CountTest, FinishBatch
<1>9. CASE UNCHANGED vars
  BY <1>9 DEF vars, Told, Taken
<1> QED
  BY <1>1, <1>2, <1>3, <1>4, <1>5, <1>6, <1>7, <1>8, <1>9 DEF Next, Done

(* The steps that finish a test, and the others. *)
LEMMA TestsGrow ==
  ASSUME TypeInv, [Next]_vars
  PROVE  \/ /\ ReturnVerdict \/ CountTest
            /\ pc = "ran"
            /\ tests' = Append(tests, Finished)
            /\ Len(tests') = Len(tests) + 1
            /\ \A i \in 1..Len(tests) : tests'[i] = tests[i]
            /\ tests'[Len(tests')].result = result
            /\ tests'[Len(tests')].fact = fact
            /\ UNCHANGED options
         \/ UNCHANGED <<tests, options>>
<1>1. CASE ReturnVerdict \/ CountTest
  <2>1. tests' = Append(tests, Finished) /\ pc = "ran" /\ UNCHANGED options
    BY <1>1 DEF ReturnVerdict, CountTest
  <2>2. tests \in Seq([result : AnalyzerResults, fact : Facts])
    BY DEF TypeInv, TypeOK
  <2>3. Finished \in [result : AnalyzerResults, fact : Facts]
    BY DEF Finished, TypeInv, TypeOK
  <2>4. /\ Len(tests') = Len(tests) + 1 /\ tests'[Len(tests')] = Finished
        /\ \A i \in 1..Len(tests) : tests'[i] = tests[i]
    BY <2>1, <2>2, <2>3, AppendProperties
  <2>5. Finished.result = result /\ Finished.fact = fact
    BY DEF Finished
  <2> QED BY <1>1, <2>1, <2>4, <2>5
<1>2. CASE ~(ReturnVerdict \/ CountTest)
  BY <1>2 DEF Next, Done, vars, RejectArguments, RefuseBatch, Exit, BeginTests, RefuseRun,
              CompileFails, CompileOnly, Compile, Returns, ExecuteRefused, Execute, Take,
              ParseOutput, FinishBatch
<1> QED BY <1>1, <1>2

LEMMA PastStep ==
  ASSUME TypeInv, Current, Past, [Next]_vars
  PROVE  Past'
<1>1. CASE /\ pc = "ran"
           /\ Len(tests') = Len(tests) + 1
           /\ \A i \in 1..Len(tests) : tests'[i] = tests[i]
           /\ tests'[Len(tests')].result = result
           /\ tests'[Len(tests')].fact = fact
           /\ UNCHANGED options
  <2>1. Len(tests) \in Nat
    BY DEF TypeInv, TypeOK
  <2>3. Told(result, fact)
    BY <1>1 DEF Current
  <2>4. ASSUME NEW i \in 1..Len(tests')
        PROVE  Told(tests'[i].result, tests'[i].fact)
    BY <1>1, <2>1, <2>3, <2>4 DEF Past
  <2> QED BY <1>1, <2>4 DEF Past, Told, Taken
<1>2. CASE UNCHANGED <<tests, options>>
  BY <1>2 DEF Past, Told, Taken
<1> QED BY <1>1, <1>2, TestsGrow

-----------------------------------------------------------------------------
(* The verdict and the counters tell the results.                          *)

Fails(r) == r.compile_success /\ ~r.timed_out /\ r.exit_code # 0

BatchTells ==
  /\ \A i \in 1..Len(tests) : Verdict(tests[i].result) <= batch.verdict
  /\ batch.verdict # 0 => \E i \in 1..Len(tests) : Verdict(tests[i].result) = batch.verdict
  /\ batch.runtime_failures # 0 <=> \E i \in 1..Len(tests) : Fails(tests[i].result)

FinalCode ==
  IF options.strict_test_exit => batch.runtime_failures = 0 THEN batch.verdict
  ELSE Larger(batch.verdict, kExitFindings)

StatusTells ==
  \/ tests = <<>> /\ status = 2
  \/ ~options.test_dir /\ Len(tests) = 1 /\ status = Verdict(tests[1].result)
  \/ options.test_dir /\ tests # <<>> /\ status = FinalCode

Verdicts ==
  /\ pc = "main" => tests = <<>> /\ batch = FreshBatch
  /\ ~options.test_dir /\ pc # "exited" => tests = <<>>
  /\ pc = "finish" => options.test_dir /\ tests # <<>>
  /\ options.test_dir => BatchTells
  /\ pc = "exited" => StatusTells

LEMMA VerdictsInit == Init => Verdicts
BY DEF Init, Verdicts, BatchTells, FreshBatch, kExitNoFindings

LEMMA VerdictsStep ==
  ASSUME TypeInv, Verdicts, [Next]_vars
  PROVE  Verdicts'
<1> USE DEF Verdicts
<1>0. /\ tests \in Seq([result : AnalyzerResults, fact : Facts])
      /\ Len(tests) \in Nat
      /\ batch.verdict \in 0..2 /\ batch.runtime_failures \in Nat
  BY DEF TypeInv, TypeOK
<1>1. CASE RejectArguments \/ RefuseBatch
  <2>1. /\ pc = "main" /\ pc' = "exited" /\ status' = 2
        /\ UNCHANGED <<tests, batch, options>>
    BY <1>1 DEF RejectArguments, RefuseBatch, Exit, kExitNotAnalyzed, FreshBatch
  <2> QED BY <2>1 DEF StatusTells, BatchTells, Verdict, Fails
<1>2. CASE BeginTests
  BY <1>2 DEF BeginTests, BatchTells, Verdict, Fails
<1>3. CASE RefuseRun \/ CompileFails \/ CompileOnly \/ Compile \/ ExecuteRefused \/ Execute \/ ParseOutput
  <2>1. /\ pc' \in {"execute", "parse", "ran"}
        /\ pc # "exited"
        /\ UNCHANGED <<tests, batch, options>>
    BY <1>3 DEF RefuseRun, CompileFails, CompileOnly, Compile, Compiling, ExecuteRefused, Execute,
                ParseOutput, Returns, Take
  <2> QED BY <2>1 DEF BatchTells, Verdict, Fails
<1>4. CASE ReturnVerdict
  <2>1. tests' = Append(tests, Finished) /\ tests = <<>> /\ ~options.test_dir
    BY <1>4 DEF ReturnVerdict
  <2>2. Len(tests') = 1 /\ tests'[1] = Finished
    BY <2>1
  <2>3. status' = Verdict(tests'[1].result)
    BY <1>4, <2>2 DEF ReturnVerdict, Finished
  <2> QED BY <1>4, <2>1, <2>2, <2>3 DEF ReturnVerdict, StatusTells, Verdict
<1>5. CASE CountTest
  <2>1. /\ Len(tests') = Len(tests) + 1
        /\ \A i \in 1..Len(tests) : tests'[i] = tests[i]
        /\ tests'[Len(tests) + 1].result = result
        /\ UNCHANGED options
        /\ options.test_dir
    <3>1. Finished \in [result : AnalyzerResults, fact : Facts] /\ Finished.result = result
      BY DEF Finished, TypeInv, TypeOK
    <3> QED BY <1>5, <3>1, <1>0, AppendProperties DEF CountTest
  <2>2. batch'.verdict = Larger(batch.verdict, Verdict(result))
    BY <1>5 DEF CountTest, Count, TypeInv, TypeOK
  <2>3. batch'.runtime_failures = IF Fails(result) THEN batch.runtime_failures + 1
                                  ELSE batch.runtime_failures
    BY <1>5 DEF CountTest, Count, TypeInv, TypeOK, Fails
  <2>4. Verdict(result) \in 0..2
    BY VerdictIsTyped
  <2>5. \A i \in 1..Len(tests') : Verdict(tests'[i].result) <= batch'.verdict
    BY <2>1, <2>2, <2>4, <1>0, VerdictIsTyped DEF BatchTells, Larger
  <2>6. batch'.verdict # 0 =>
          \E i \in 1..Len(tests') : Verdict(tests'[i].result) = batch'.verdict
    BY <2>1, <2>2, <2>4, <1>0 DEF BatchTells, Larger
  <2>7. batch'.runtime_failures # 0 <=> \E i \in 1..Len(tests') : Fails(tests'[i].result)
    BY <2>1, <2>3, <1>0 DEF BatchTells
  <2>8. BatchTells'
    BY <2>1, <2>5, <2>6, <2>7 DEF BatchTells, Verdict, Fails
  <2>9. pc' \in {"run", "finish"} /\ tests' # <<>>
    BY <1>5, <2>1, <1>0 DEF CountTest
  <2> QED BY <2>1, <2>8, <2>9
<1>6. CASE FinishBatch
  <2>1. /\ pc' = "exited" /\ UNCHANGED <<tests, options>>
        /\ options.test_dir /\ tests # <<>>
        /\ status' = FinalCode
    BY <1>6 DEF FinishBatch, FinalCode
  <2>2. UNCHANGED <<batch.verdict, batch.runtime_failures>>
    BY <1>6 DEF FinishBatch, TypeInv, TypeOK
  <2>3. FinalCode' = FinalCode
    BY <2>1, <2>2 DEF FinalCode
  <2> QED BY <2>1, <2>2, <2>3 DEF StatusTells, BatchTells, Verdict, Fails
<1>7. CASE UNCHANGED vars
  BY <1>7 DEF vars, BatchTells, StatusTells, FinalCode, Verdict, Fails
<1> QED
  BY <1>1, <1>2, <1>3, <1>4, <1>5, <1>6, <1>7 DEF Next, Done

-----------------------------------------------------------------------------
(* The exit status.                                                        *)

IInv == TypeInv /\ Current /\ Past /\ Verdicts

LEMMA IInvHolds == Spec => []IInv
<1>1. Init => IInv
  BY TypeInit, VerdictsInit DEF IInv, Init, Current, Past
<1>2. IInv /\ [Next]_vars => IInv'
  BY TypeStep, RemainingStep, CurrentStep, PastStep, VerdictsStep DEF IInv, TypeInv
<1> QED BY <1>1, <1>2, PTL DEF Spec

LEMMA ZeroExitCode == \A how \in Hows : ExitCode(how) = 0 => how = Exited(0)
BY DEF Hows, ExitCode, Exited, Killed, NoStatus

(* The status is at least the verdict on each test, and at least 1 when a  *)
(* test of a batch fails under --strict-test-exit.                         *)
LEMMA StatusIsWorst ==
  ASSUME IInv, pc = "exited", NEW i \in 1..Len(tests)
  PROVE  /\ Verdict(tests[i].result) <= status
         /\ options.test_dir /\ options.strict_test_exit /\ Fails(tests[i].result) => status >= 1
         /\ status \in 0..2
<1>1. batch.verdict \in 0..2 /\ status \in 0..2 /\ Len(tests) \in Nat /\ tests # <<>>
  BY DEF IInv, TypeInv, TypeOK
<1>2. CASE ~options.test_dir /\ Len(tests) = 1 /\ status = Verdict(tests[1].result)
  BY <1>1, <1>2, VerdictIsTyped
<1>3. CASE options.test_dir /\ status = FinalCode
  <2>1. BatchTells
    BY <1>3 DEF IInv, Verdicts
  <2>2. Verdict(tests[i].result) <= batch.verdict /\ Verdict(tests[i].result) \in 0..2
    BY <2>1, VerdictIsTyped DEF BatchTells
  <2> QED BY <1>1, <1>3, <2>1, <2>2 DEF BatchTells, FinalCode, Larger, kExitFindings
<1> QED BY <1>1, <1>2, <1>3 DEF IInv, Verdicts, StatusTells

(* Status 0 is only given when every program was built, really started,    *)
(* ran to its end and reported nothing, for every batch.                   *)
THEOREM ZeroStatusIsClean ==
  ASSUME "exec" \notin MayFail
  PROVE  Spec => []ZeroMeansRanClean
<1>1. ASSUME IInv, pc = "exited", status = 0
      PROVE  TestFacts # {} /\ \A f \in TestFacts : RanClean(f)
  <2>1. Len(tests) \in Nat /\ DOMAIN tests = 1..Len(tests)
    BY <1>1 DEF IInv, TypeInv, TypeOK
  <2>2. tests # <<>>
    BY <1>1, <2>1 DEF IInv, Verdicts, StatusTells
  <2>3. TestFacts # {}
    <3>1. tests \in Seq([result : AnalyzerResults, fact : Facts])
      BY <1>1 DEF IInv, TypeInv, TypeOK
    <3>2. Len(tests) # 0
      BY <2>2, <3>1, EmptySeq
    <3>3. 1 \in DOMAIN tests
      BY <2>1, <3>2
    <3>4. tests[1].fact \in TestFacts
      BY <3>3 DEF TestFacts
    <3> QED BY <3>4
  <2>4. ASSUME NEW i \in 1..Len(tests)
        PROVE  RanClean(tests[i].fact)
    <3>1. Verdict(tests[i].result) = 0
      BY <1>1, StatusIsWorst, VerdictIsTyped
    <3>2. Told(tests[i].result, tests[i].fact)
      BY <1>1 DEF IInv, Past
    <3> QED
      BY <3>1, <3>2 DEF Verdict, Told, Taken, RanClean, kExitNoFindings, kExitFindings,
                        kExitNotAnalyzed
  <2> QED BY <2>1, <2>3, <2>4 DEF TestFacts
<1>2. IInv => ZeroMeansRanClean
  BY <1>1 DEF ZeroMeansRanClean
<1> QED BY <1>2, IInvHolds, PTL

(* Status 1 is only given when a program reported a finding, or did not    *)
(* exit with 0 under --strict-test-exit, for every batch.                  *)
THEOREM OneStatusIsReported == Spec => []OneMeansReported
<1>1. ASSUME IInv, pc = "exited", status = 1
      PROVE  \E f \in TestFacts : f.reported \/ (options.strict_test_exit /\ f.how # Exited(0))
  <2>1. Len(tests) \in Nat /\ DOMAIN tests = 1..Len(tests) /\ batch.verdict \in 0..2
    BY <1>1 DEF IInv, TypeInv, TypeOK
  <2>2. \A i \in 1..Len(tests) : Told(tests[i].result, tests[i].fact)
    BY <1>1 DEF IInv, Past
  <2>3. ASSUME NEW i \in 1..Len(tests), Verdict(tests[i].result) = 1
        PROVE  tests[i].fact.reported
    BY <2>2, <2>3 DEF Verdict, Told, kExitNoFindings, kExitFindings, kExitNotAnalyzed
  <2>4. ASSUME NEW i \in 1..Len(tests), Verdict(tests[i].result) = 0, Fails(tests[i].result)
        PROVE  tests[i].fact.how # Exited(0)
    <3>1. Told(tests[i].result, tests[i].fact)
      BY <2>2
    <3>2. tests[i].result.executed
      BY <2>4, <3>1 DEF Verdict, Told, Taken, Fails, kExitNoFindings, kExitFindings,
                        kExitNotAnalyzed
    <3>3. ExitCode(tests[i].fact.how) # 0
      BY <2>4, <3>1, <3>2 DEF Told, Taken, Fails
    <3> QED BY <3>3 DEF ExitCode, Exited
  <2>5. CASE ~options.test_dir
    <3>1. Len(tests) = 1 /\ Verdict(tests[1].result) = 1
      BY <1>1, <2>5 DEF IInv, Verdicts, StatusTells
    <3> QED BY <2>1, <2>3, <3>1 DEF TestFacts
  <2>6. CASE options.test_dir
    <3>1. BatchTells /\ FinalCode = 1
      BY <1>1, <2>6 DEF IInv, Verdicts, StatusTells
    <3>2. CASE batch.verdict = 1
      BY <2>1, <2>3, <3>1, <3>2 DEF BatchTells, TestFacts
    <3>3. CASE batch.verdict # 1
      <4>1. options.strict_test_exit /\ batch.runtime_failures # 0 /\ batch.verdict = 0
        BY <2>1, <3>1, <3>3 DEF FinalCode, Larger, kExitFindings
      <4>2. PICK i \in 1..Len(tests) : Fails(tests[i].result)
        BY <3>1, <4>1 DEF BatchTells
      <4>3. Verdict(tests[i].result) = 0
        BY <3>1, <4>1, VerdictIsTyped DEF BatchTells
      <4> QED BY <2>1, <2>4, <4>1, <4>2, <4>3 DEF TestFacts
    <3> QED BY <3>2, <3>3
  <2> QED BY <2>5, <2>6
<1>2. IInv => OneMeansReported
  BY <1>1 DEF OneMeansReported
<1> QED BY <1>2, IInvHolds, PTL

(* The status of a batch is at least that of each of its tests, for every  *)
(* batch.                                                                  *)
THEOREM NoTestIsMasked == Spec => []NothingIsMasked
<1>1. ASSUME IInv, pc = "exited", NEW i \in 1..Len(tests)
      PROVE  LET f == tests[i].fact IN
             /\ ~f.built \/ (f.late /\ ~f.reported) => status = 2
             /\ f.reported => status >= 1
             /\ options.test_dir /\ options.strict_test_exit /\ f.started /\ f.how # Exited(0)
                  => status >= 1
  <2> DEFINE f == tests[i].fact
             r == tests[i].result
  <2>1. Told(r, f)
    BY <1>1 DEF IInv, Past
  <2>2. /\ Verdict(r) <= status /\ status \in 0..2 /\ Verdict(r) \in 0..2
        /\ options.test_dir /\ options.strict_test_exit /\ Fails(r) => status >= 1
    BY <1>1, StatusIsWorst, VerdictIsTyped
  <2> HIDE DEF f, r
  <2>3. ~f.built \/ (f.late /\ ~f.reported) => Verdict(r) = 2
    BY <2>1 DEF Told, Taken, Verdict, kExitNotAnalyzed
  <2>4. f.reported => Verdict(r) \in {1, 2}
    BY <2>1 DEF Told, Taken, Verdict, kExitNotAnalyzed, kExitFindings
  <2>5. f.started /\ f.how # Exited(0) => Fails(r) \/ Verdict(r) \in {1, 2}
    <3> SUFFICES ASSUME f.started, f.how # Exited(0), r.executed
                 PROVE  Fails(r) \/ Verdict(r) \in {1, 2}
      BY <2>1 DEF Told, Taken, Verdict, kExitNotAnalyzed
    <3>1. r.exit_code # 0
      BY <2>1, ZeroExitCode DEF Told, Taken
    <3> QED BY <2>1, <3>1 DEF Told, Taken, Fails, Verdict, kExitNotAnalyzed, kExitFindings
  <2>6. /\ ~f.built \/ (f.late /\ ~f.reported) => status = 2
        /\ f.reported => status >= 1
        /\ options.test_dir /\ options.strict_test_exit /\ f.started /\ f.how # Exited(0)
             => status >= 1
    BY <2>2, <2>3, <2>4, <2>5
  <2> QED BY <2>6 DEF f
<1>2. ASSUME IInv, pc = "exited", NEW f \in TestFacts
      PROVE  \E i \in 1..Len(tests) : f = tests[i].fact
  BY <1>2 DEF TestFacts, IInv, TypeInv, TypeOK
<1>3. IInv => NothingIsMasked
  BY <1>1, <1>2 DEF NothingIsMasked
<1> QED BY <1>3, IInvHolds, PTL
-----------------------------------------------------------------------------
(* The counters of a batch are its marks.                                  *)

(* A test that was built succeeded just if its exit code is 0.             *)
Consistent(r) == r.compile_success => (r.success <=> r.exit_code = 0)

Marking ==
  /\ pc = "execute" => ~result.success
  /\ pc = "ran" => Consistent(result)

CountInv == Marking /\ CountsMatchMarks

LEMMA NoTestIsMarked ==
  ASSUME tests = <<>>, NEW m
  PROVE  Marked(m) = 0
<1>1. {i \in DOMAIN tests : Mark(tests[i].result) = m} = {}
  OBVIOUS
<1> QED BY <1>1, FS_EmptySet DEF Marked

(* One more test is one more of its mark and no more of another.           *)
LEMMA OneMoreIsMarked ==
  ASSUME TypeInv, tests' = Append(tests, Finished), NEW m
  PROVE  Marked(m) \in Nat /\ Marked(m)' = Marked(m) + (IF Mark(result) = m THEN 1 ELSE 0)
<1> DEFINE n == Len(tests)
           M == {i \in 1..n : Mark(tests[i].result) = m}
           N == {i \in 1..(n + 1) : Mark(tests'[i].result) = m}
<1>1. tests \in Seq([result : AnalyzerResults, fact : Facts]) /\ n \in Nat
  BY DEF TypeInv, TypeOK
<1>2. Finished \in [result : AnalyzerResults, fact : Facts] /\ Finished.result = result
  BY DEF Finished, TypeInv, TypeOK
<1>3. /\ DOMAIN tests = 1..n /\ DOMAIN tests' = 1..(n + 1)
      /\ \A i \in 1..n : tests'[i] = tests[i]
      /\ tests'[n + 1] = Finished
  BY <1>1, <1>2, AppendProperties
<1>4. Marked(m) = Cardinality(M) /\ Marked(m)' = Cardinality(N)
  BY <1>3 DEF Marked, Mark
<1>5. IsFiniteSet(M) /\ Cardinality(M) \in Nat
  <2>1. IsFiniteSet(1..n)
    BY <1>1, FS_Interval
  <2>2. M \in SUBSET (1..n)
    OBVIOUS
  <2> HIDE DEF M
  <2> QED BY <2>1, <2>2, FS_Subset, FS_CardinalityType
<1>6. n + 1 \notin M
  BY <1>1
<1>7. CASE Mark(result) = m
  <2>1. N = M \cup {n + 1}
    BY <1>1, <1>2, <1>3, <1>7 DEF Mark
  <2> HIDE DEF M, N, n
  <2> QED BY <1>4, <1>5, <1>6, <1>7, <2>1, FS_AddElement
<1>8. CASE Mark(result) # m
  <2>1. N = M
    BY <1>1, <1>2, <1>3, <1>8 DEF Mark
  <2> HIDE DEF M, N, n
  <2> QED BY <1>4, <1>5, <1>8, <2>1
<1> QED BY <1>7, <1>8

LEMMA CountInit == Init => CountInv
<1> SUFFICES ASSUME Init
             PROVE  CountInv
  OBVIOUS
<1>1. Marked("COMPILE") = 0 /\ Marked("TIMEOUT") = 0 /\ Marked("RUNTIME") = 0
  BY NoTestIsMarked DEF Init
<1> QED BY <1>1 DEF Init, FreshBatch, CountInv, Marking, CountsMatchMarks

LEMMA MarkingStep ==
  ASSUME "select" \notin MayFail, TypeInv, Marking, [Next]_vars
  PROVE  Marking'
<1> USE DEF Marking
<1>1. CASE RejectArguments \/ RefuseBatch \/ BeginTests
  BY <1>1 DEF RejectArguments, RefuseBatch, Exit, BeginTests
<1>2. CASE RefuseRun \/ CompileFails \/ CompileOnly
  <2>1. /\ pc' = "ran"
        /\ \/ result' = FreshResult
           \/ result' = [FreshResult EXCEPT !.compile_success = TRUE, !.success = TRUE,
                                            !.exit_code = 0]
    BY <1>2 DEF RefuseRun, CompileFails, CompileOnly, Returns
  <2>2. result'.compile_success = FALSE \/ (result'.success = TRUE /\ result'.exit_code = 0)
    <3>1. FreshResult.compile_success = FALSE
      BY DEF FreshResult
    <3>2. LET r == [FreshResult EXCEPT !.compile_success = TRUE, !.success = TRUE, !.exit_code = 0]
          IN  r.success = TRUE /\ r.exit_code = 0
      BY DEF FreshResult
    <3> QED BY <2>1, <3>1, <3>2
  <2> QED BY <2>1, <2>2 DEF Consistent
<1>3. CASE Compile
  BY <1>3 DEF Compile, FreshResult
<1>4. CASE ExecuteRefused \/ Execute
  <2>1. PICK r, started, late, how, reported :
          /\ Take(r, started, late, how, reported)
          /\ r \in Refusals \/ r \in ResultsOf(how, late)
    BY <1>4 DEF ExecuteRefused, Execute
  <2>2. r.error = "none" \/ r.exit_code = 1
    BY <2>1 DEF Refusals, ResultsOf, Result
  <2>3. /\ result'.success = result.success /\ result'.exit_code = r.exit_code
        /\ pc' = IF r.error = "none" THEN "parse" ELSE "ran"
    BY <2>1 DEF Take, TypeInv, TypeOK, AnalyzerResults
  <2>4. ~result.success
    BY <1>4 DEF ExecuteRefused, Execute
  <2> QED BY <2>2, <2>3, <2>4 DEF Consistent
<1>5. CASE ParseOutput
  <2>1. result' = [result EXCEPT !.findings = fact.reported, !.success = result.exit_code = 0]
        /\ pc' = "ran"
    BY <1>5 DEF ParseOutput, Returns
  <2>2. result'.success = (result.exit_code = 0) /\ result'.exit_code = result.exit_code
    BY <2>1 DEF TypeInv, TypeOK, AnalyzerResults
  <2> QED BY <2>1, <2>2 DEF Consistent
<1>6. CASE ReturnVerdict \/ CountTest \/ FinishBatch
  BY <1>6 DEF ReturnVerdict, CountTest, FinishBatch
<1>7. CASE UNCHANGED vars
  BY <1>7 DEF vars, Consistent
<1> QED BY <1>1, <1>2, <1>3, <1>4, <1>5, <1>6, <1>7 DEF Next, Done

LEMMA CountsStep ==
  ASSUME TypeInv, Verdicts, CountInv, [Next]_vars
  PROVE  CountsMatchMarks'
<1> USE DEF CountInv
<1>1. CASE CountTest
  <2>1. /\ tests' = Append(tests, Finished) /\ options' = options /\ options.test_dir
        /\ batch' = [Count(result, batch) EXCEPT !.verdict = Larger(@, Verdict(result))]
        /\ Consistent(result)
    BY <1>1 DEF CountTest, Marking
  <2>2. /\ batch.compile_failures = Marked("COMPILE")
        /\ batch.timeouts = Marked("TIMEOUT")
        /\ batch.runtime_failures = Marked("RUNTIME")
    BY <2>1 DEF CountsMatchMarks
  <2>3. \A m \in {"COMPILE", "TIMEOUT", "RUNTIME"} :
          Marked(m) \in Nat /\ Marked(m)' = Marked(m) + (IF Mark(result) = m THEN 1 ELSE 0)
    BY <2>1, OneMoreIsMarked
  <2>4. /\ batch'.compile_failures = batch.compile_failures
                                       + (IF Mark(result) = "COMPILE" THEN 1 ELSE 0)
        /\ batch'.timeouts = batch.timeouts + (IF Mark(result) = "TIMEOUT" THEN 1 ELSE 0)
        /\ batch'.runtime_failures = batch.runtime_failures
                                       + (IF Mark(result) = "RUNTIME" THEN 1 ELSE 0)
    BY <2>1 DEF Count, Mark, Consistent, TypeInv, TypeOK
  <2> QED BY <2>1, <2>2, <2>3, <2>4 DEF CountsMatchMarks
<1>2. CASE ReturnVerdict
  BY <1>2 DEF ReturnVerdict, CountsMatchMarks
<1>3. CASE FinishBatch
  <2>1. /\ batch'.compile_failures = batch.compile_failures
        /\ batch'.timeouts = batch.timeouts
        /\ batch'.runtime_failures = batch.runtime_failures
        /\ UNCHANGED <<options, tests>>
    BY <1>3 DEF FinishBatch, TypeInv, TypeOK
  <2> QED BY <2>1 DEF CountsMatchMarks, Marked, Mark
<1>4. CASE ~(CountTest \/ ReturnVerdict \/ FinishBatch)
  <2>1. UNCHANGED <<options, tests, batch>>
    BY <1>4 DEF Next, Done, vars, RejectArguments, RefuseBatch, Exit, BeginTests, RefuseRun,
                CompileFails, CompileOnly, Compile, Returns, ExecuteRefused, Execute, Take,
                ParseOutput
  <2> QED BY <2>1 DEF CountsMatchMarks, Marked, Mark
<1> QED BY <1>1, <1>2, <1>3, <1>4

(* The counters of the summary are the marks on the lines, after any       *)
(* number of tests; a select that failed is set aside, for a program that  *)
(* then exits with 0 is marked and not counted.                            *)
THEOREM CountersAreMarks ==
  ASSUME "select" \notin MayFail
  PROVE  Spec => []CountsMatchMarks
<1>1. Init => CountInv
  BY CountInit
<1>2. IInv /\ CountInv /\ [Next]_vars => CountInv'
  BY MarkingStep, CountsStep DEF IInv, CountInv
<1>3. CountInv => CountsMatchMarks
  BY DEF CountInv
<1> QED BY <1>1, <1>2, <1>3, IInvHolds, PTL DEF Spec
=============================================================================
