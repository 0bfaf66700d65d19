-------------------------- MODULE CompilerArguments --------------------------
(***************************************************************************)
(* What the compiler is called with and where the program is built         *)
(* (src/src/cli_args.cpp:20-222, runtime_analyzer.cpp:27-86 and 449-454):  *)
(* sequences of words, and the paths that are derived from them.           *)
(***************************************************************************)
EXTENDS Naturals, Sequences, SequencesExt, FiniteSetsExt, Selection

CONSTANTS
  JoinedOutput,  \* the words "-o=<path>" and "--output=<path>", and the path
  Tree,          \* the directories there are, and the files under each
  Unreadable,    \* those whose walk may fail at any file
  SourceFiles,   \* the files IsSourceFile accepts
  Sorted,        \* all of them, in the order of their paths
  Relative,      \* the path of a file relative to where the analyzer is
  Sanitized,     \* SanitizeArtifactName of such a path without its extension
  Hash,          \* its digest
  LanguageWords, \* the words that begin with "-x"
  LooksCxx,      \* the .c files whose text looks like C++
  NeedsDebug,    \* the files that test for DEBUG
  LinkWords      \* ShippedLinkArguments: empty in a build tree

kDefaultOutputPath == "runtime-analyzer.out"
CompileOnlyFlags == {"-c", "-S", "-E", "-emit-llvm", "--precompile", "-fsyntax-only"}

HasCompileOnlyAction(args) == \E i \in DOMAIN args : args[i] \in CompileOnlyFlags

(* Main: -L and -rpath of the C++ runtime beside an installed analyzer. *)
AddLinkWords(args) == IF HasCompileOnlyAction(args) THEN args ELSE args \o LinkWords

OutputWords == {"-o", "--output"} \cup DOMAIN JoinedOutput

(* The name of a program in the artifact directory. *)
ArtifactName(path) == Sanitized[path] \o "_" \o Hash[path]

(* Two digests of the 64-bit hash are taken to differ.  No source and no   *)
(* program has a path that the compiler reads as an output option.         *)
ASSUME CompilerArgumentsAssumption ==
  /\ Sorted \in Seq(STRING) /\ SourceFiles = ToSet(Sorted)
  /\ SourceFiles \subseteq DOMAIN Relative /\ Unreadable \subseteq DOMAIN Tree
  /\ LET paths == {Relative[f] : f \in SourceFiles}
     IN  /\ \A p, q \in paths : p # q => ArtifactName(p) # ArtifactName(q)
         /\ \A p \in paths : ArtifactName(p) \notin OutputWords \cup {"", "--instrument"}
  /\ SourceFiles \cap (OutputWords \cup {"--instrument"}) = {}
  /\ {"-o", "--output", "-x", "c++", "-DDEBUG", "--instrument"} \cap DOMAIN JoinedOutput = {}
  /\ LinkWords \in Seq(STRING)

OutputAt(args, i) ==
  IF args[i] \in DOMAIN JoinedOutput THEN JoinedOutput[args[i]]
  ELSE IF i < Len(args) THEN args[i + 1] ELSE ""

(* The first output the compiler's arguments name. *)
FindOutputArgument(args) ==
  LET places == {i \in DOMAIN args : args[i] \in OutputWords}
  IN  IF places = {} THEN [present |-> FALSE, path |-> ""]
      ELSE [present |-> TRUE, path |-> OutputAt(args, Min(places))]

Without(args, word) == Selected(args, {i \in DOMAIN args : args[i] # word})

BuildCompilerArgumentsMutFindsFirst(args, path) ==
  LET kept == Without(args, "--instrument")
      own == FindOutputArgument(args)
      output == IF path = "" THEN kDefaultOutputPath ELSE path
  IN  IF own.present THEN [args |-> kept, output |-> own.path]
      ELSE [args |-> kept \o <<"-o", output>>, output |-> output]

(* The arguments of the compiler, and the path of the program. *)
BuildCompilerArguments(args, path) ==
  LET kept == Without(args, "--instrument")
      own == FindOutputArgument(kept)
      output == IF path = "" THEN kDefaultOutputPath ELSE path
  IN  IF own.present THEN [args |-> kept, output |-> own.path]
      ELSE [args |-> kept \o <<"-o", output>>, output |-> output]

HasLanguageOverride(args) == \E i \in DOMAIN args : args[i] \in LanguageWords

AddPerSourceCompatibilityArgs(source, args) ==
  LET cxx == IF source \in LooksCxx /\ ~HasLanguageOverride(args)
             THEN <<"-x", "c++">> ELSE <<>>
      debug == IF source \in NeedsDebug /\ ToSet(args) \cap {"-DDEBUG", "-DDEBUG=1"} = {}
               THEN <<"-DDEBUG">> ELSE <<>>
  IN  args \o cxx \o debug

MakeTestOutputPathMutStemHash(source) ==
  Sanitized[Relative[source]] \o "_" \o Hash[Relative[CHOOSE f \in SourceFiles :
    Sanitized[Relative[f]] = Sanitized[Relative[source]]]]

(* The extension is only in the hash, and so is what sanitizing loses. *)
MakeTestOutputPath(source) == ArtifactName(Relative[source])

-----------------------------------------------------------------------------
(* DiscoverSourceFiles.                                                    *)

(* The orders in which the files under a directory may be met: none of one *)
(* that does not exist or is a file; a walk that fails stops where it is.  *)
Walks(directory) ==
  LET whole == SetToSeqs(Tree[directory] \cap SourceFiles)
  IN  CASE directory \notin DOMAIN Tree -> {<<>>}
        [] directory \in Unreadable -> UNION {Prefixes(w) : w \in whole}
        [] OTHER -> whole

(* What the walks of all the directories push back, one after the other. *)
Walked(directories) ==
  LET found[i \in 0..Len(directories)] ==
        IF i = 0 THEN {<<>>} ELSE {w \o v : w \in found[i - 1], v \in Walks(directories[i])}
  IN  found[Len(directories)]

Rank(file) == CHOOSE i \in DOMAIN Sorted : Sorted[i] = file

(* std::ranges::sort: the k-th path is the first one that k of the paths   *)
(* are not after.                                                          *)
SortPaths(s) ==
  LET NotAfter(i) == {j \in DOMAIN s : Rank(s[j]) <= i}
  IN  [k \in DOMAIN s |-> Sorted[Min({i \in DOMAIN Sorted : Cardinality(NotAfter(i)) >= k})]]

(* std::ranges::unique: only neighbours are compared. *)
Unique(s) == Selected(s, {i \in DOMAIN s : i > 1 => s[i - 1] # s[i]})

SourcesOfMutUniqueFirst(found) == SortPaths(Unique(found))

SourcesOf(found) == Unique(SortPaths(found))
=============================================================================
