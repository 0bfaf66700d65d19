----------------------------- MODULE CommandLine -----------------------------
(***************************************************************************)
(* ParseArgs (src/src/cli_args.cpp:224-414): the words of a command line   *)
(* are read from left to right, and what follows "--" is for the compiler. *)
(* A word is atomic; the spellings "-h" and "--output" stand with "--help" *)
(* and "-o".  The text of an error is not kept.                            *)
(***************************************************************************)
EXTENDS Naturals, Sequences, FiniteSetsExt, Selection

CONSTANTS
  Joined,      \* the words that hold an option and its value, and both
  Assignments, \* the words IsValidEnvironmentAssignment accepts
  Seconds      \* the words stoll reads to their end as a number >= 0

Formats == {"text", "sarif"}
Stops == {"--help", "--version"}
Flags == {"--strict-test-exit", "--no-run", "--show-output", "--show-events"}
Repeatable == {"--run-arg", "--env", "--test-dir"}
ValueOptions == Repeatable \cup {"-o", "--cwd", "--timeout", "--output-dir", "--format"}

ASSUME CommandLineAssumption ==
  /\ \A w \in DOMAIN Joined : Joined[w].option \in {"-o", "--format"} /\ Joined[w].value \in STRING
  /\ DOMAIN Joined \cap (Stops \cup Flags \cup ValueOptions \cup {"--"}) = {}

(* What the options hold before the first word: nothing given. *)
Start == [at |-> "options", option |-> "", ok |-> TRUE, help |-> FALSE, flags |-> {},
          given |-> [o \in ValueOptions |-> <<>>], compiler_args |-> <<>>]

Reject(p) == [p EXCEPT !.at = "end", !.ok = FALSE]

AcceptsValue(o, v) ==
  /\ o = "--env" => v \in Assignments
  /\ o = "--timeout" => v \in Seconds
  /\ o = "--format" => v \in Formats

AssignMutFirst(p, o, v) ==
  IF ~AcceptsValue(o, v) THEN Reject(p)
  ELSE [p EXCEPT !.at = "options",
                 !.given[o] = IF o \in Repeatable \/ @ = <<>> THEN Append(@, v) ELSE @]

(* A repeatable option keeps every value, another one the last. *)
Assign(p, o, v) ==
  IF ~AcceptsValue(o, v) THEN Reject(p)
  ELSE [p EXCEPT !.at = "options",
                 !.given[o] = IF o \in Repeatable THEN Append(@, v) ELSE <<v>>]

ReadOption(p, w) ==
  CASE w = "--" -> [p EXCEPT !.at = "compiler"]
    [] w \in Stops -> [p EXCEPT !.at = "end", !.help = TRUE]
    [] w \in ValueOptions -> [p EXCEPT !.at = "value", !.option = w]
    [] w \in Flags -> [p EXCEPT !.flags = @ \cup {w}]
    [] w \in DOMAIN Joined -> Assign(p, Joined[w].option, Joined[w].value)
    [] OTHER -> Reject(p)

(* One word.  The value of an option is any word, "--" and options too. *)
ReadWord(p, w) ==
  CASE p.at = "options" -> ReadOption(p, w)
    [] p.at = "value" -> Assign(p, p.option, w)
    [] p.at = "compiler" -> [p EXCEPT !.compiler_args = Append(@, w)]
    [] p.at = "end" -> p

HasWork(p) == p.compiler_args # <<>> \/ p.given["--test-dir"] # <<>>

(* What has been read after each word.                                     *)
ReadWords(argv) ==
  LET state[i \in 0..Len(argv)] == IF i = 0 THEN Start ELSE ReadWord(state[i - 1], argv[i])
  IN  state

ParseArgsMutNoPending(argv) ==
  LET p == ReadWords(argv)[Len(argv)]
  IN  IF p.at # "end" /\ ~HasWork(p) THEN Reject(p) ELSE p

(* The end of the line: an option without its value, or nothing to do. *)
ParseArgs(argv) ==
  LET p == ReadWords(argv)[Len(argv)]
  IN  IF p.at = "value" \/ (p.at # "end" /\ ~HasWork(p)) THEN Reject(p) ELSE p

-----------------------------------------------------------------------------
(* The reading of a line by position, without the reader's state: a word   *)
(* is a value when an option that is not a value itself stands before it,  *)
(* and the compiler's words begin after the first "--" that is no value.   *)

IsValue(argv) ==
  LET value[i \in 0..Len(argv)] ==
        i > 1 /\ argv[i - 1] \in ValueOptions /\ ~value[i - 1]
  IN  value

Separator(argv) ==
  Min({i \in DOMAIN argv : argv[i] = "--" /\ ~IsValue(argv)[i]} \cup {Len(argv) + 1})

(* The places of the analyzer's own words that are no values.              *)
OwnWords(argv) == {i \in 1..(Separator(argv) - 1) : ~IsValue(argv)[i]}

(* The options given at a place: itself and its value, "" when none is left. *)
GivenAt(argv, i) ==
  IF argv[i] \in DOMAIN Joined THEN Joined[argv[i]]
  ELSE [option |-> argv[i], value |-> IF i < Len(argv) THEN argv[i + 1] ELSE ""]

ValuesOf(argv, o) ==
  LET places == {i \in OwnWords(argv) : GivenAt(argv, i).option = o}
      all == Selected([i \in DOMAIN argv |-> GivenAt(argv, i).value], places)
  IN  IF o \in Repeatable \/ all = <<>> THEN all ELSE <<all[Len(all)]>>

Mistake(argv, i) ==
  \/ argv[i] \notin Stops \cup Flags \cup ValueOptions \cup DOMAIN Joined
  \/ argv[i] \in ValueOptions /\ i = Len(argv)
  \/ LET g == GivenAt(argv, i) IN g.option \in ValueOptions /\ ~AcceptsValue(g.option, g.value)

(* A line is read as it is meant: every option has the value, or the       *)
(* values in their order, that stand after it, the last one counting where *)
(* only one can, and the compiler gets everything behind the first "--"    *)
(* that is no value, unchanged.                                            *)
ReadAsMeant(argv) ==
  LET p == ParseArgs(argv)
  IN  p.ok /\ ~p.help =>
        /\ \A o \in ValueOptions : p.given[o] = ValuesOf(argv, o)
        /\ p.flags = {argv[i] : i \in OwnWords(argv)} \cap Flags
        /\ p.compiler_args = SubSeq(argv, Separator(argv) + 1, Len(argv))

(* A line is refused exactly when it has a mistake or leaves nothing to    *)
(* do; a request for help counts when it comes before the first mistake.   *)
RefusedForAReason(argv) ==
  LET p == ParseArgs(argv)
      mistakes == {i \in OwnWords(argv) : Mistake(argv, i)}
      stops == {i \in OwnWords(argv) : argv[i] \in Stops}
      helps == stops # {} /\ \A i \in mistakes : Min(stops) < i
      idle == Separator(argv) >= Len(argv) /\ ValuesOf(argv, "--test-dir") = <<>>
  IN  /\ p.help <=> helps
      /\ p.ok <=> helps \/ (mistakes = {} /\ ~idle)
=============================================================================
