------------------------------ MODULE Invocation ------------------------------
(***************************************************************************)
(* One invocation of the analyzer from its command line to its exit: Main, *)
(* RunBatch and Run of Analyzer, with the words they are given, the        *)
(* sources they find, the compiler they call and the programs on the disk  *)
(* (src/src/runtime_analyzer.cpp:45-86, 259-300, 348-427, 429-507).        *)
(*                                                                         *)
(* The compiler is external.  It may fail, write the program where the     *)
(* last output of its arguments says, or succeed without writing any (it   *)
(* has more actions that do not link than HasCompileOnlyAction knows).     *)
(***************************************************************************)
EXTENDS Analyzer, CommandLine, CompilerArguments

CONSTANTS
  Lines \* the command lines

ASSUME InvocationAssumption == Lines \subseteq Seq(STRING)

VARIABLES
  argv,     \* the command line
  sources,  \* the sources that are left, in order
  writable, \* the directory of the programs may be written to
  disk,     \* the program at each path
  command,  \* the call of the compiler under way
  builds    \* the calls of Run so far, and the program each executed

invocationVars == <<vars, argv, sources, writable, disk, command, builds>>

(* A program is known by the number of the call that built it; an earlier  *)
(* invocation may have left one anywhere.                                  *)
NoFile == 0
Earlier == -1

Call(source, built) == [source |-> source, args |-> built.args, output |-> built.output]
NoCommand == Call("", [args |-> <<>>, output |-> ""])
Parsed == ParseArgs(argv)
Directories == Parsed.given["--test-dir"]

(* Main adds its words before it looks at the result of ParseArgs. *)
CompilerArgs == AddLinkWords(Parsed.compiler_args)
OutputPath == IF Parsed.given["-o"] = <<>> THEN "" ELSE Parsed.given["-o"][1]

Paths ==
  {"", kDefaultOutputPath, OutputPath} \cup ToSet(CompilerArgs)
    \cup {JoinedOutput[w] : w \in DOMAIN JoinedOutput}
    \cup {MakeTestOutputPath(f) : f \in SourceFiles}

InvocationInit ==
  /\ argv \in Lines
  /\ \E output_dir_ok \in BOOLEAN :
       options = [args_ok |-> Parsed.ok,
                  test_dir |-> Directories # <<>>,
                  output_dir_ok |-> output_dir_ok,
                  compile_only |-> HasCompileOnlyAction(CompilerArgs),
                  forwarded_output |-> FindOutputArgument(CompilerArgs).present,
                  explicit_output |-> Parsed.given["-o"] # <<>>,
                  run_program |-> "--no-run" \notin Parsed.flags,
                  strict_test_exit |-> "--strict-test-exit" \in Parsed.flags]
  /\ sources \in {SourcesOf(found) : found \in Walked(Directories)}
  /\ Init
  /\ options.test_dir => todo = Len(sources)
  /\ writable \in BOOLEAN
  /\ ~options.test_dir => options.output_dir_ok /\ writable \* else CompileFails
  /\ disk \in {[p \in Paths |-> NoFile], [p \in Paths |-> IF p = "" THEN NoFile ELSE Earlier]}
  /\ command = NoCommand
  /\ builds = <<>>

Input == <<argv, writable>>

-----------------------------------------------------------------------------

(* --help and --version. *)
PrintHelp ==
  /\ pc = "main" /\ Parsed.help
  /\ Exit(0)
  /\ UNCHANGED <<Input, sources, disk, command, builds>>

Begin ==
  /\ ~Parsed.help
  /\ RejectArguments \/ RefuseBatch \/ BeginTests
  /\ UNCHANGED <<Input, sources, disk, command, builds>>

PrepareTestMutKeepsFile ==
  /\ pc = "run" /\ command = NoCommand /\ options.test_dir
  /\ LET source == Head(sources)
         output == MakeTestOutputPath(source)
         args == Append(AddPerSourceCompatibilityArgs(source, CompilerArgs), source)
     IN  command' = Call(source, BuildCompilerArguments(args, output))
  /\ sources' = Tail(sources)
  /\ UNCHANGED <<vars, Input, disk, builds>>

(* The head of RunBatch's loop and of Run: the options of the test.  The   *)
(* result of remove is not looked at.                                      *)
PrepareTest ==
  /\ pc = "run" /\ command = NoCommand /\ options.test_dir
  /\ LET source == Head(sources)
         output == MakeTestOutputPath(source)
         args == Append(AddPerSourceCompatibilityArgs(source, CompilerArgs), source)
     IN  /\ command' = Call(source, BuildCompilerArguments(args, output))
         /\ disk' = IF writable THEN [disk EXCEPT ![output] = NoFile] ELSE disk
  /\ sources' = Tail(sources)
  /\ UNCHANGED <<vars, Input, builds>>

PrepareRun ==
  /\ pc = "run" /\ command = NoCommand /\ ~options.test_dir
  /\ command' = Call("", BuildCompilerArguments(CompilerArgs, OutputPath))
  /\ UNCHANGED <<vars, Input, sources, disk, builds>>

(* The compiler takes the last output of its arguments.                    *)
CompilerOutput(args) == OutputAt(args, Max({i \in DOMAIN args : args[i] \in OutputWords}))

(* The call is recorded; program is what Run executes.                     *)
Record(written) ==
  builds' = Append(builds, [source |-> command.source, args |-> command.args,
                            output |-> command.output, written |-> written, program |-> NoFile])

Writes ==
  LET path == CompilerOutput(command.args)
  IN  /\ writable /\ path # ""
      /\ disk' = [disk EXCEPT ![path] = Len(builds) + 1]
      /\ Record(TRUE)

WritesNothing == UNCHANGED disk /\ Record(FALSE)

Refused ==
  /\ command # NoCommand
  /\ RefuseRun \/ CompileFails
  /\ WritesNothing
  /\ UNCHANGED <<Input, sources, command>>

Compiled ==
  /\ command # NoCommand
  /\ CompileOnly \/ Compile
  /\ Writes \/ WritesNothing
  /\ UNCHANGED <<Input, sources, command>>

(* RunProcess: execv fails where there is no program. *)
Run ==
  /\ ExecuteRefused \/ Execute
  /\ fact'.started => disk[command.output] # NoFile
  /\ builds' = IF fact'.started
               THEN [builds EXCEPT ![Len(builds)].program = disk[command.output]]
               ELSE builds
  /\ UNCHANGED <<Input, sources, disk, command>>

Return ==
  /\ ParseOutput
  /\ UNCHANGED <<Input, sources, disk, command, builds>>

Conclude ==
  /\ ReturnVerdict \/ CountTest \/ FinishBatch
  /\ command' = NoCommand
  /\ UNCHANGED <<Input, sources, disk, builds>>

Stay == Done /\ UNCHANGED invocationVars

InvocationNext ==
  \/ PrintHelp \/ Begin \/ PrepareTest \/ PrepareRun
  \/ Refused \/ Compiled \/ Run \/ Return \/ Conclude
  \/ Stay

InvocationSpec == InvocationInit /\ [][InvocationNext]_invocationVars

-----------------------------------------------------------------------------
(* Properties.                                                             *)

(* The command line of this invocation is read as it is meant (see         *)
(* CommandLine), and refused exactly when it has to be.                    *)
LineIsReadAsMeant == pc = "main" => ReadAsMeant(argv)
LineIsRefusedForAReason == pc = "main" => RefusedForAReason(argv)

(* The program a batch runs for a source is the one it built for it just   *)
(* before: never one that an earlier invocation, or the build of another   *)
(* source, left at the path, also when the compiler reports success and    *)
(* writes nothing.  (Run alone does not remove what is there.)             *)
ProgramIsOwnBuild ==
  options.test_dir /\ writable =>
    \A n \in DOMAIN builds : builds[n].program \in {NoFile, n}

(* "Each source is compiled and executed as a separate instrumented        *)
(* binary" (README.md:218): when a batch ends, the path that is reported   *)
(* for a source holds the program built from it, whatever the other        *)
(* sources are called.  (A file that is given under two names is tested    *)
(* twice, and the later program stays.)                                    *)
ProgramsAreSeparate ==
  options.test_dir /\ pc = "exited" =>
    \A n \in DOMAIN builds :
      builds[n].written =>
        \/ disk[builds[n].output] = n
        \/ \E m \in DOMAIN builds : m > n /\ Relative[builds[m].source] = Relative[builds[n].source]

GivenSources == UNION {Tree[d] \cap SourceFiles : d \in ToSet(Directories) \cap DOMAIN Tree}
AllReadable == ToSet(Directories) \cap Unreadable = {}

(* A batch goes on after every failure until each source that is under one *)
(* of the directories was tested once, however often the directories that  *)
(* are given contain it.                                                   *)
EverySourceOnce ==
  options.test_dir /\ pc = "exited" /\ Len(tests) > 0 =>
    LET tested == [n \in DOMAIN builds |-> builds[n].source]
    IN  /\ Len(tests) = Len(tested)
        /\ IsInjective(tested)
        /\ ToSet(tested) \subseteq GivenSources
        /\ AllReadable => ToSet(tested) = GivenSources

(* Status 0 of a batch speaks for every source that is under one of the    *)
(* directories: each was built, and the program that ran, to its end and   *)
(* without a finding, is the one this invocation built from it.  (A        *)
(* program that is not started at all may go unnoticed, see                *)
(* ZeroMeansRanClean and the run analyzer_not_started.)                    *)
ZeroSpeaksForEverySource ==
  /\ options.test_dir /\ options.run_program /\ ~Parsed.help
  /\ writable /\ AllReadable
  /\ pc = "exited" /\ status = 0
  => \A source \in GivenSources : \E n \in DOMAIN builds :
       /\ builds[n].source = source
       /\ LET test == tests[n].fact
          IN  /\ test.built /\ ~test.late /\ ~test.reported
              /\ test.started => builds[n].program = n

(* The analyzer runs the file that the compiler was told to write, as long *)
(* as the user names at most one output: the words it drops, adds and      *)
(* searches do not shift the one that -o belongs to.                       *)
RunsWhatIsWritten ==
  \A n \in DOMAIN builds :
    LET args == builds[n].args
    IN  Cardinality({i \in DOMAIN args : args[i] \in OutputWords}) = 1 =>
          builds[n].output = CompilerOutput(args)
=============================================================================
