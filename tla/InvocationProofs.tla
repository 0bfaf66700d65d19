--------------------------- MODULE InvocationProofs ---------------------------
(* Proofs about an invocation: for every command line, every set of files  *)
(* and directories and every behaviour of the compiler.                    *)
EXTENDS Invocation, AnalyzerProofs, SelectionProofs

-----------------------------------------------------------------------------
(* The invocation is one of Analyzer's.                                    *)

(* No step changes the command line, the options or what may be written.   *)
LEMMA LineStays == [InvocationNext]_invocationVars => UNCHANGED <<argv, writable, options>>
<1> USE DEF Input
<1>1. InvocationNext => UNCHANGED <<argv, writable>>
  BY DEF InvocationNext, PrintHelp, Begin, PrepareTest, PrepareRun, Refused, Compiled, Run,
         Return, Conclude, Stay, invocationVars
<1>2. InvocationNext => UNCHANGED options
  <2>1. PrintHelp \/ Begin => UNCHANGED options
    BY DEF PrintHelp, Begin, RejectArguments, RefuseBatch, BeginTests, Exit
  <2>2. PrepareTest \/ PrepareRun \/ Stay => UNCHANGED options
    BY DEF PrepareTest, PrepareRun, Stay, vars, invocationVars
  <2>3. Refused \/ Compiled => UNCHANGED options
    BY DEF Refused, Compiled, RefuseRun, CompileFails, CompileOnly, Compile, Returns
  <2>4. Run => UNCHANGED options
    BY DEF Run, ExecuteRefused, Execute, Take
  <2>5. Return \/ Conclude => UNCHANGED options
    BY DEF Return, Conclude, ParseOutput, Returns, ReturnVerdict, CountTest, FinishBatch
  <2> QED BY <2>1, <2>2, <2>3, <2>4, <2>5 DEF InvocationNext
<1> QED BY <1>1, <1>2 DEF invocationVars, vars

(* A step is one of Analyzer, or leaves its variables alone.               *)
LEMMA StepOfAnalyzer == ~Parsed.help /\ [InvocationNext]_invocationVars => [Next]_vars
<1>1. PrintHelp => Parsed.help
  BY DEF PrintHelp
<1>2. Begin \/ Refused \/ Compiled \/ Run \/ Return \/ Conclude => Next
  BY DEF Begin, Refused, Compiled, Run, Return, Conclude, Next
<1>3. PrepareTest \/ PrepareRun \/ Stay => UNCHANGED vars
  BY DEF PrepareTest, PrepareRun, Stay, Done
<1> QED BY <1>1, <1>2, <1>3 DEF InvocationNext, invocationVars

(* An invocation that does not ask for help is a behaviour of Analyzer:    *)
(* the words, the files and the compiler only choose among its options and *)
(* the fates of its sources, and what is proved of its verdict holds here. *)
THEOREM InvocationIsAnalyzer == InvocationSpec /\ ~Parsed.help => Spec
<1>1. InvocationInit => Init
  BY DEF InvocationInit
<1>2. ~Parsed.help /\ [InvocationNext]_invocationVars => (~Parsed.help)'
  BY LineStays DEF Parsed
<1> QED BY <1>1, <1>2, StepOfAnalyzer, PTL DEF InvocationSpec, Spec
-----------------------------------------------------------------------------
(* The functions of a line that are defined by recursion over its words.   *)

(* The recursive function exists, and so is what its equation says.        *)
LEMMA ReadWordsByWord ==
  ASSUME NEW line \in Seq(STRING)
  PROVE  /\ ReadWords(line)[0] = Start
         /\ \A i \in 1..Len(line) :
              ReadWords(line)[i] = ReadWord(ReadWords(line)[i - 1], line[i])
<1> DEFINE len == Len(line)
           From(g, n) == g = [i \in 0..n |-> IF i = 0 THEN Start ELSE ReadWord(g[i - 1], line[i])]
           missing == {n \in 0..len : ~ \E g : From(g, n)}
<1>0. len \in Nat
  BY LenProperties
<1> HIDE DEF len
<1>1. missing = {}
  <2> SUFFICES ASSUME missing # {}
               PROVE  FALSE
    OBVIOUS
  <2>0. missing \subseteq Nat
    BY <1>0
  <2>1. PICK n \in missing : \A m \in missing : n <= m
    BY <2>0, LeastNumber
  <2>2. n # 0
    <3> DEFINE g == [i \in 0..0 |-> Start]
    <3>1. g = [i \in 0..0 |-> IF i = 0 THEN Start ELSE ReadWord(g[i - 1], line[i])]
      OBVIOUS
    <3>2. From(g, 0)
      BY <3>1
    <3> QED BY <3>2
  <2>3. n - 1 \in 0..len /\ n - 1 \notin missing /\ n \in 1..len
    BY <1>0, <2>1, <2>2
  <2>4. PICK g : From(g, n - 1)
    BY <2>3
  <2> DEFINE h == [i \in 0..n |-> IF i = n THEN ReadWord(g[n - 1], line[n]) ELSE g[i]]
  <2>5. ASSUME NEW i \in 0..n
        PROVE  h[i] = IF i = 0 THEN Start ELSE ReadWord(h[i - 1], line[i])
    <3>1. CASE i = 0
      BY <2>3, <2>4, <3>1
    <3>2. CASE i \in 1..(n - 1)
      <4>1. h[i] = g[i] /\ h[i - 1] = g[i - 1] /\ i \in 0..(n - 1) /\ i # 0
        BY <2>3, <3>2
      <4> QED BY <2>4, <4>1
    <3>3. CASE i = n
      BY <2>3, <3>3
    <3> QED BY <2>3, <3>1, <3>2, <3>3
  <2>6. From(h, n)
    BY <2>5
  <2> QED BY <2>1, <2>6
<1>2. PICK g : From(g, len)
  BY <1>0, <1>1
<1>3. ReadWords(line) = CHOOSE p : From(p, len)
  BY DEF ReadWords, len
<1>4. From(ReadWords(line), len)
  BY <1>2, <1>3
<1> QED BY <1>0, <1>4 DEF len

(* So does the one that tells the values from the options.                 *)
LEMMA IsValueByWord ==
  ASSUME NEW line \in Seq(STRING)
  PROVE  \A i \in 0..Len(line) :
           /\ IsValue(line)[i] \in BOOLEAN
           /\ IsValue(line)[i] <=> i > 1 /\ line[i - 1] \in ValueOptions /\ ~IsValue(line)[i - 1]
<1> DEFINE len == Len(line)
           From(g, n) == g = [i \in 0..n |-> i > 1 /\ line[i - 1] \in ValueOptions /\ ~g[i - 1]]
           missing == {n \in 0..len : ~ \E g : From(g, n)}
<1>0. len \in Nat
  BY LenProperties
<1> HIDE DEF len
<1>1. missing = {}
  <2> SUFFICES ASSUME missing # {}
               PROVE  FALSE
    OBVIOUS
  <2>0. missing \subseteq Nat
    BY <1>0
  <2>1. PICK n \in missing : \A m \in missing : n <= m
    BY <2>0, LeastNumber
  <2>2. n # 0
    <3> DEFINE g == [i \in 0..0 |-> FALSE]
    <3>1. \A i \in 0..0 : (i > 1 /\ line[i - 1] \in ValueOptions /\ ~g[i - 1]) = FALSE
      OBVIOUS
    <3>2. From(g, 0)
      BY <3>1
    <3> QED BY <3>2
  <2>3. n - 1 \in 0..len /\ n - 1 \notin missing /\ n \in 1..len
    BY <1>0, <2>1, <2>2
  <2>4. PICK g : From(g, n - 1)
    BY <2>3
  <2> DEFINE h == [i \in 0..n |-> IF i = n
                                  THEN n > 1 /\ line[n - 1] \in ValueOptions /\ ~g[n - 1]
                                  ELSE g[i]]
  <2>5. ASSUME NEW i \in 0..n
        PROVE  h[i] = (i > 1 /\ line[i - 1] \in ValueOptions /\ ~h[i - 1])
    <3>1. CASE i = 0
      BY <2>3, <2>4, <3>1
    <3>2. CASE i \in 1..(n - 1)
      <4>1. h[i] = g[i] /\ h[i - 1] = g[i - 1] /\ i \in 0..(n - 1) /\ i # 0
        BY <2>3, <3>2
      <4> QED BY <2>4, <4>1
    <3>3. CASE i = n
      BY <2>3, <3>3
    <3> QED BY <2>3, <3>1, <3>2, <3>3
  <2>6. From(h, n)
    BY <2>5
  <2> QED BY <2>1, <2>6
<1>2. PICK g : From(g, len)
  BY <1>0, <1>1
<1>3. IsValue(line) = CHOOSE p : From(p, len)
  BY DEF IsValue, len
<1>4. From(IsValue(line), len)
  <2> HIDE DEF From
  <2> QED BY <1>2, <1>3
<1>5. \A i \in 0..len : IsValue(line)[i] =
        (i > 1 /\ line[i - 1] \in ValueOptions /\ ~IsValue(line)[i - 1])
  BY <1>4
<1> QED BY <1>0, <1>5 DEF len

-----------------------------------------------------------------------------
(* The words of a command line.                                            *)

(* The provers do not know that a literal is in STRING. *)
Text == STRING \cup {"", "-o", "--format", "-x", "c++", "-DDEBUG", kDefaultOutputPath}

LEMMA OneWord == \A T : \A v \in T : <<v>> \in Seq(T) /\ Len(<<v>>) = 1 /\ <<v>>[1] = v
<1> SUFFICES ASSUME NEW T, NEW v \in T
             PROVE  <<v>> \in Seq(T) /\ Len(<<v>>) = 1 /\ <<v>>[1] = v
  OBVIOUS
<1> QED OBVIOUS

(* What the reader may have read.                                          *)
States == [at : {"options", "value", "compiler", "end"}, option : Text, ok : BOOLEAN,
           help : BOOLEAN, flags : SUBSET Text, given : [ValueOptions -> Seq(Text)],
           compiler_args : Seq(Text)]

LEMMA StartIsState == Start \in States
<1>1. <<>> \in Seq(Text)
  BY EmptySeq
<1>2. [o \in ValueOptions |-> <<>>] \in [ValueOptions -> Seq(Text)]
  BY <1>1
<1>3. "" \in Text /\ {} \in SUBSET Text
  BY DEF Text
<1> HIDE DEF ValueOptions
<1>4. Start = [at |-> "options", option |-> "", ok |-> TRUE, help |-> FALSE, flags |-> {},
               given |-> [o \in ValueOptions |-> <<>>], compiler_args |-> <<>>]
  BY DEF Start
<1> QED BY <1>1, <1>2, <1>3, <1>4 DEF States

(* The result of Assign and its parts.                                     *)
LEMMA AssignGives ==
  ASSUME NEW p \in States, NEW o \in Text, NEW v \in Text
  PROVE  LET q == Assign(p, o, v)
         IN  /\ q \in States
             /\ ~AcceptsValue(o, v) => q.at = "end" /\ ~q.ok /\ q.help = p.help
             /\ AcceptsValue(o, v) =>
                  /\ q.at = "options" /\ q.ok = p.ok /\ q.help = p.help /\ q.flags = p.flags
                  /\ q.compiler_args = p.compiler_args
                  /\ \A x \in ValueOptions :
                       q.given[x] = IF x # o THEN p.given[x]
                                    ELSE IF o \in Repeatable THEN Append(p.given[o], v) ELSE <<v>>
<1> DEFINE q == Assign(p, o, v)
<1>1. CASE ~AcceptsValue(o, v)
  <2>1. q = [p EXCEPT !.at = "end", !.ok = FALSE]
    BY <1>1 DEF Assign, Reject
  <2> QED BY <1>1, <2>1 DEF States
<1>2. CASE AcceptsValue(o, v)
  <2> DEFINE value == IF o \in Repeatable THEN Append(p.given[o], v) ELSE <<v>>
             given == [p.given EXCEPT ![o] = value]
  <2>1. q = [p EXCEPT !.at = "options", !.given = given]
    BY <1>2 DEF Assign, States
  <2>2. \A x \in ValueOptions : given[x] = IF x = o THEN value ELSE p.given[x]
    BY DEF States
  <2>3. o \in ValueOptions => value \in Seq(Text)
    <3>1. ASSUME o \in ValueOptions
          PROVE  Append(p.given[o], v) \in Seq(Text)
      <4>1. p.given[o] \in Seq(Text)
        BY <3>1 DEF States
      <4> QED BY <4>1, AppendProperties
    <3>2. <<v>> \in Seq(Text)
      BY OneWord
    <3> QED BY <3>1, <3>2
  <2>4. given \in [ValueOptions -> Seq(Text)]
    <3>1. p.given \in [ValueOptions -> Seq(Text)]
      BY DEF States
    <3> HIDE DEF value
    <3> QED BY <2>3, <3>1
  <2> HIDE DEF given, q
  <2>5. /\ q \in States /\ q.given = given
        /\ q.at = "options" /\ q.ok = p.ok /\ q.help = p.help /\ q.flags = p.flags
        /\ q.compiler_args = p.compiler_args
    BY <2>1, <2>4 DEF States
  <2> QED BY <1>2, <2>2, <2>5 DEF q
<1> QED BY <1>1, <1>2

(* What an option word that is no value does.                              *)
LEMMA ReadOptionGives ==
  ASSUME NEW p \in States, NEW w
  PROVE  /\ w = "--" => ReadOption(p, w) = [p EXCEPT !.at = "compiler"]
         /\ w \in Stops => ReadOption(p, w) = [p EXCEPT !.at = "end", !.help = TRUE]
         /\ w \in ValueOptions => ReadOption(p, w) = [p EXCEPT !.at = "value", !.option = w]
         /\ w \in Flags => ReadOption(p, w) = [p EXCEPT !.flags = @ \cup {w}]
         /\ w \in DOMAIN Joined => ReadOption(p, w) = Assign(p, Joined[w].option, Joined[w].value)
         /\ w \notin {"--"} \cup Stops \cup ValueOptions \cup Flags \cup DOMAIN Joined
              => ReadOption(p, w) = Reject(p)
<1>1. w = "--" => w \notin Stops \cup ValueOptions \cup Flags \cup DOMAIN Joined
  BY CommandLineAssumption DEF Stops, ValueOptions, Repeatable, Flags
<1>2. w \in Stops => w \notin {"--"} \cup ValueOptions \cup Flags \cup DOMAIN Joined
  BY CommandLineAssumption DEF Stops, ValueOptions, Repeatable, Flags
<1>3. w \in ValueOptions => w \notin {"--"} \cup Stops \cup Flags \cup DOMAIN Joined
  BY CommandLineAssumption DEF Stops, ValueOptions, Repeatable, Flags
<1>4. w \in Flags => w \notin {"--"} \cup Stops \cup ValueOptions \cup DOMAIN Joined
  BY CommandLineAssumption DEF Stops, ValueOptions, Repeatable, Flags
<1>5. w \in DOMAIN Joined => w \notin {"--"} \cup Stops \cup ValueOptions \cup Flags
  BY CommandLineAssumption DEF Stops, ValueOptions, Repeatable, Flags
<1> HIDE DEF Stops, ValueOptions, Flags
<1>6. w = "--" => ReadOption(p, w) = [p EXCEPT !.at = "compiler"]
  BY <1>1 DEF ReadOption
<1>7. w \in Stops => ReadOption(p, w) = [p EXCEPT !.at = "end", !.help = TRUE]
  BY <1>2 DEF ReadOption
<1>8. w \in ValueOptions => ReadOption(p, w) = [p EXCEPT !.at = "value", !.option = w]
  BY <1>3 DEF ReadOption
<1>9. w \in Flags => ReadOption(p, w) = [p EXCEPT !.flags = @ \cup {w}]
  BY <1>4 DEF ReadOption
<1>10. w \in DOMAIN Joined => ReadOption(p, w) = Assign(p, Joined[w].option, Joined[w].value)
  BY <1>5 DEF ReadOption
<1>11. w \notin {"--"} \cup Stops \cup ValueOptions \cup Flags \cup DOMAIN Joined
         => ReadOption(p, w) = Reject(p)
  BY DEF ReadOption
<1> QED BY <1>6, <1>7, <1>8, <1>9, <1>10, <1>11

(* Separator is the first "--" that is no value, or the end of the line.   *)
LEMMA SeparatorIsFirst ==
  ASSUME NEW line \in Seq(STRING)
  PROVE  /\ Separator(line) \in 1..(Len(line) + 1)
         /\ Separator(line) <= Len(line) =>
              line[Separator(line)] = "--" /\ ~IsValue(line)[Separator(line)]
         /\ \A i \in 1..Len(line) : line[i] = "--" /\ ~IsValue(line)[i] => Separator(line) <= i
<1> DEFINE len == Len(line)
           ends == {i \in DOMAIN line : line[i] = "--" /\ ~IsValue(line)[i]} \cup {len + 1}
<1>0. len \in Nat /\ DOMAIN line = 1..len
  BY LenProperties
<1>1. ends \subseteq Nat /\ ends # {}
  BY <1>0
<1>2. \E n \in ends : \A m \in ends : n <= m
  BY <1>1, LeastNumber
<1>3. Separator(line) = CHOOSE n \in ends : \A m \in ends : n <= m
  BY DEF Separator, Min
<1> HIDE DEF ends
<1>4. Separator(line) \in ends /\ \A m \in ends : Separator(line) <= m
  BY <1>2, <1>3
<1> QED BY <1>0, <1>4 DEF ends

(* A word of the analyzer that is no value is before the separator.        *)
LEMMA OwnWordsAre ==
  ASSUME NEW line \in Seq(STRING)
  PROVE  \A k \in OwnWords(line) :
           /\ k \in 1..Len(line) /\ k < Separator(line) /\ ~IsValue(line)[k]
           /\ line[k] # "--" /\ line[k] \in Text
<1>1. Len(line) \in Nat
  BY LenProperties
<1>2. ASSUME NEW k \in OwnWords(line)
      PROVE  /\ k \in 1..Len(line) /\ k < Separator(line) /\ ~IsValue(line)[k]
             /\ line[k] # "--" /\ line[k] \in Text
  <2>1. k \in 1..(Separator(line) - 1) /\ ~IsValue(line)[k]
    BY <1>2 DEF OwnWords
  <2>2. k \in 1..Len(line) /\ k < Separator(line)
    BY <1>1, <2>1, SeparatorIsFirst
  <2>3. line[k] # "--"
    BY <1>1, <2>1, <2>2, SeparatorIsFirst
  <2>4. line[k] \in STRING
    BY <2>2, ElementOfSeq
  <2> QED BY <2>1, <2>2, <2>3, <2>4 DEF Text
<1> QED BY <1>2

(* The places of C that give option o, what they give it, and what counts. *)
PlacesOf(line, C, o) == {k \in C : GivenAt(line, k).option = o}
GivenBy(line, C, o) ==
  Selected([k \in DOMAIN line |-> GivenAt(line, k).value], PlacesOf(line, C, o))
Counting(o, all) == IF o \in Repeatable \/ all = <<>> THEN all ELSE <<all[Len(all)]>>

LEMMA GivenIsText ==
  ASSUME NEW line \in Seq(STRING), NEW k \in 1..Len(line)
  PROVE  GivenAt(line, k).option \in Text /\ GivenAt(line, k).value \in Text
<1>0. Len(line) \in Nat
  BY LenProperties
<1>1. \A i \in 1..Len(line) : line[i] \in Text
  BY ElementOfSeq DEF Text
<1>2. "" \in Text /\ "-o" \in Text
  BY DEF Text
<1>3. CASE line[k] \in DOMAIN Joined
  <2>1. GivenAt(line, k) = Joined[line[k]]
    BY <1>3 DEF GivenAt
  <2>2. Joined[line[k]].option \in {"-o", "--format"} /\ Joined[line[k]].value \in STRING
    BY <1>3, CommandLineAssumption
  <2> QED BY <2>1, <2>2 DEF Text
<1>4. CASE line[k] \notin DOMAIN Joined
  <2> DEFINE v == IF k < Len(line) THEN line[k + 1] ELSE ""
  <2>1. GivenAt(line, k) = [option |-> line[k], value |-> v]
    BY <1>4 DEF GivenAt
  <2>2. v \in Text
    <3>1. k < Len(line) => k + 1 \in 1..Len(line)
      BY <1>0
    <3> QED BY <1>1, <1>2, <3>1
  <2> HIDE DEF v
  <2>3. GivenAt(line, k).option = line[k] /\ GivenAt(line, k).value = v
    BY <2>1
  <2> QED BY <1>1, <2>2, <2>3
<1> QED BY <1>3, <1>4

(* One place more gives one value more to its option and none to another.  *)
LEMMA OneMorePlace ==
  ASSUME NEW line \in Seq(STRING), NEW C, NEW k \in 1..Len(line), NEW o,
         \A i \in C : i \in 1..(k - 1)
  PROVE  /\ GivenAt(line, k).option # o => GivenBy(line, C \cup {k}, o) = GivenBy(line, C, o)
         /\ GivenAt(line, k).option = o =>
              /\ GivenBy(line, C \cup {k}, o) = Append(GivenBy(line, C, o), GivenAt(line, k).value)
              /\ Counting(o, GivenBy(line, C \cup {k}, o)) =
                   IF o \in Repeatable
                   THEN Append(Counting(o, GivenBy(line, C, o)), GivenAt(line, k).value)
                   ELSE <<GivenAt(line, k).value>>
<1>0. Len(line) \in Nat /\ DOMAIN line = 1..Len(line)
  BY LenProperties
<1>1. ASSUME GivenAt(line, k).option # o
      PROVE  GivenBy(line, C \cup {k}, o) = GivenBy(line, C, o)
  <2>1. PlacesOf(line, C \cup {k}, o) = PlacesOf(line, C, o)
    BY <1>1 DEF PlacesOf
  <2> QED BY <2>1 DEF GivenBy
<1>2. ASSUME GivenAt(line, k).option = o
      PROVE  /\ GivenBy(line, C \cup {k}, o) = Append(GivenBy(line, C, o), GivenAt(line, k).value)
             /\ Counting(o, GivenBy(line, C \cup {k}, o)) =
                  IF o \in Repeatable
                  THEN Append(Counting(o, GivenBy(line, C, o)), GivenAt(line, k).value)
                  ELSE <<GivenAt(line, k).value>>
  <2> DEFINE S == PlacesOf(line, C, o)
             s == [i \in DOMAIN line |-> GivenAt(line, i).value]
             v == GivenAt(line, k).value
  <2>1. PlacesOf(line, C \cup {k}, o) = S \cup {k}
    BY <1>2 DEF PlacesOf
  <2>2. /\ k - 1 \in Nat /\ k \in Nat /\ k - 1 < k
        /\ \A i \in S : i \in 1..(k - 1)
    BY <1>0 DEF PlacesOf
  <2>3. s[k] = v /\ v \in Text /\ \A i \in S : s[i] \in Text
    <3>1. \A i \in 1..Len(line) : s[i] = GivenAt(line, i).value
      BY <1>0
    <3>2. \A i \in S : i \in 1..Len(line)
      BY <1>0, <2>2
    <3> QED BY <3>1, <3>2, GivenIsText
  <2> HIDE DEF S, s, v
  <2>4. Selected(s, S \cup {k}) = Extended(Selected(s, S), s[k])
    <3> DEFINE len == k - 1
    <3>1. len \in Nat /\ len < k /\ \A i \in S : i \in 1..len
      BY <2>2
    <3> HIDE DEF len
    <3>2. k \in Nat /\ s[k] \in Text /\ \A i \in S : s[i] \in Text
      BY <2>2, <2>3
    <3> QED BY ONLY <3>1, <3>2, SelectedOneMore
  <2> DEFINE all == GivenBy(line, C, o)
  <2>5. GivenBy(line, C \cup {k}, o) = Append(all, v)
    BY <2>1, <2>3, <2>4 DEF GivenBy, s, S, Extended
  <2>6. all \in Seq(Text)
    <3>1. all = Selected(s, S)
      BY DEF GivenBy, s, S
    <3>2. Selected(s, S) \in Seq(Text)
      BY <2>2, <2>3, SelectedIsSequence
    <3> QED BY <3>1, <3>2
  <2> HIDE DEF all
  <2>7. /\ Len(Append(all, v)) = Len(all) + 1 /\ Append(all, v)[Len(all) + 1] = v
        /\ Append(all, v) \in Seq(Text) /\ Len(all) \in Nat
    BY <2>3, <2>6, AppendProperties, LenProperties
  <2>8. Append(all, v) # <<>>
    BY <2>7, EmptySeq
  <2>9. Counting(o, Append(all, v)) =
          IF o \in Repeatable THEN Append(Counting(o, all), v) ELSE <<v>>
    BY <2>7, <2>8 DEF Counting
  <2> QED BY <2>5, <2>9 DEF all, v
<1> QED BY <1>1, <1>2

(* What the reader holds when the places of C are behind it.               *)
Gathered(line, C, p) ==
  /\ p.ok /\ ~p.help
  /\ \A k \in C : ~Mistake(line, k) /\ line[k] \notin Stops
  /\ \A o \in ValueOptions : p.given[o] = Counting(o, GivenBy(line, C, o))
  /\ p.flags = {line[k] : k \in C} \cap Flags

(* The option at a place, by the kind of its word.                         *)
LEMMA GivenAtIs ==
  ASSUME NEW line \in Seq(STRING), NEW k \in OwnWords(line)
  PROVE  /\ line[k] \in Stops \cup Flags =>
              GivenAt(line, k).option = line[k] /\ GivenAt(line, k).option \notin ValueOptions
         /\ line[k] \in ValueOptions => GivenAt(line, k).option = line[k] /\ line[k] \notin DOMAIN Joined
         /\ line[k] \in ValueOptions /\ k < Len(line) => GivenAt(line, k).value = line[k + 1]
         /\ line[k] \in DOMAIN Joined =>
              /\ GivenAt(line, k) = Joined[line[k]]
              /\ GivenAt(line, k).option \in ValueOptions /\ line[k] \notin ValueOptions
         /\ line[k] \in ValueOptions \cup DOMAIN Joined => line[k] \notin Stops \cup Flags
         /\ Stops \cap Flags = {}
<1>1. line[k] \in Stops \cup Flags \cup ValueOptions => line[k] \notin DOMAIN Joined
  BY CommandLineAssumption
<1>2. line[k] \in Stops \cup Flags => line[k] \notin ValueOptions
  BY DEF Stops, Flags, ValueOptions, Repeatable
<1>3. \A w \in DOMAIN Joined : Joined[w].option \in ValueOptions
  BY CommandLineAssumption DEF ValueOptions
<1>4. Stops \cap Flags = {}
  BY DEF Stops, Flags
<1>5. line[k] \notin DOMAIN Joined => GivenAt(line, k).option = line[k]
  BY DEF GivenAt
<1>6. line[k] \notin DOMAIN Joined /\ k < Len(line) => GivenAt(line, k).value = line[k + 1]
  BY DEF GivenAt
<1>7. line[k] \in DOMAIN Joined => GivenAt(line, k) = Joined[line[k]]
  BY DEF GivenAt
<1> HIDE DEF Stops, Flags, ValueOptions
<1> QED BY <1>1, <1>2, <1>3, <1>4, <1>5, <1>6, <1>7

(* A stop is no mistake; nor is an option with a value it accepts.         *)
LEMMA MistakesAre ==
  ASSUME NEW line \in Seq(STRING), NEW k \in OwnWords(line)
  PROVE  /\ line[k] \in Stops \cup Flags => ~Mistake(line, k)
         /\ line[k] \in ValueOptions /\ k = Len(line) => Mistake(line, k)
         /\ line[k] \notin Stops \cup Flags \cup ValueOptions \cup DOMAIN Joined => Mistake(line, k)
         /\ line[k] \in DOMAIN Joined \/ (line[k] \in ValueOptions /\ k < Len(line)) =>
              (Mistake(line, k) <=> ~AcceptsValue(GivenAt(line, k).option, GivenAt(line, k).value))
<1> HIDE DEF Stops, Flags, ValueOptions
<1>0. Len(line) \in Nat /\ k \in 1..Len(line)
  BY OwnWordsAre, LenProperties
<1>1. Mistake(line, k) <=>
        \/ line[k] \notin Stops \cup Flags \cup ValueOptions \cup DOMAIN Joined
        \/ line[k] \in ValueOptions /\ k = Len(line)
        \/ /\ GivenAt(line, k).option \in ValueOptions
           /\ ~AcceptsValue(GivenAt(line, k).option, GivenAt(line, k).value)
  BY DEF Mistake
<1>2. line[k] \in Stops \cup Flags =>
        /\ GivenAt(line, k).option \notin ValueOptions
        /\ line[k] \notin ValueOptions
  BY GivenAtIs
<1>3. line[k] \in DOMAIN Joined =>
        GivenAt(line, k).option \in ValueOptions /\ line[k] \notin ValueOptions
  BY GivenAtIs
<1>4. line[k] \in ValueOptions => GivenAt(line, k).option \in ValueOptions
  BY GivenAtIs
<1> QED BY <1>0, <1>1, <1>2, <1>3, <1>4

(* An option that is given at place k, with its value there.               *)
LEMMA OptionIsGathered ==
  ASSUME NEW line \in Seq(STRING), NEW k \in OwnWords(line), NEW C, NEW p \in States,
         \A i \in C : i \in 1..(k - 1),
         line[k] \in DOMAIN Joined \/ (line[k] \in ValueOptions /\ k < Len(line)),
         Gathered(line, C, p)
  PROVE  LET g == GivenAt(line, k)
             q == Assign(p, g.option, g.value)
         IN  /\ q \in States
             /\ Mistake(line, k) => q.at = "end" /\ ~q.ok /\ ~q.help
             /\ ~Mistake(line, k) =>
                  /\ q.at = "options" /\ q.compiler_args = p.compiler_args
                  /\ Gathered(line, C \cup {k}, q)
<1> DEFINE o == GivenAt(line, k).option
           v == GivenAt(line, k).value
           q == Assign(p, o, v)
           more == C \cup {k}
<1>0. k \in 1..Len(line)
  BY OwnWordsAre
<1>1. o \in Text /\ v \in Text
  BY <1>0, GivenIsText
<1>2. o \in ValueOptions /\ line[k] \notin Stops \cup Flags
  BY GivenAtIs
<1>3. Mistake(line, k) <=> ~AcceptsValue(o, v)
  BY MistakesAre
<1> HIDE DEF o, v, ValueOptions, Stops, Flags
<1>4. /\ q \in States
      /\ ~AcceptsValue(o, v) => q.at = "end" /\ ~q.ok /\ q.help = p.help
      /\ AcceptsValue(o, v) =>
           /\ q.at = "options" /\ q.ok = p.ok /\ q.help = p.help /\ q.flags = p.flags
           /\ q.compiler_args = p.compiler_args
           /\ \A x \in ValueOptions :
                q.given[x] = IF x # o THEN p.given[x]
                             ELSE IF o \in Repeatable THEN Append(p.given[o], v) ELSE <<v>>
  BY <1>1, AssignGives
<1> HIDE DEF q, more
<1>5. ASSUME AcceptsValue(o, v)
      PROVE  Gathered(line, more, q)
  <2>1. q.ok /\ ~q.help
    BY <1>4, <1>5 DEF Gathered
  <2>2. \A i \in more : ~Mistake(line, i) /\ line[i] \notin Stops
    BY <1>2, <1>3, <1>5 DEF Gathered, more
  <2>3. q.flags = {line[i] : i \in more} \cap Flags
    <3>1. q.flags = {line[i] : i \in C} \cap Flags
      BY <1>4, <1>5 DEF Gathered
    <3> QED BY <1>2, <3>1 DEF more
  <2>4. ASSUME NEW x \in ValueOptions
        PROVE  q.given[x] = Counting(x, GivenBy(line, more, x))
    <3>0. p.given[x] = Counting(x, GivenBy(line, C, x))
      BY DEF Gathered
    <3>1. CASE x # o
      <4>1. GivenBy(line, more, x) = GivenBy(line, C, x)
        BY <1>0, <3>1, OneMorePlace DEF o, more
      <4>2. q.given[x] = p.given[x]
        BY <1>4, <1>5, <3>1
      <4> QED BY <3>0, <4>1, <4>2
    <3>2. CASE x = o
      <4>1. Counting(x, GivenBy(line, more, x)) =
              IF x \in Repeatable THEN Append(Counting(x, GivenBy(line, C, x)), v) ELSE <<v>>
        BY <1>0, <3>2, OneMorePlace DEF o, v, more
      <4>2. q.given[x] = IF x \in Repeatable THEN Append(p.given[x], v) ELSE <<v>>
        BY <1>4, <1>5, <3>2
      <4> QED BY <3>0, <4>1, <4>2
    <3> QED BY <3>1, <3>2
  <2> QED BY <2>1, <2>2, <2>3, <2>4 DEF Gathered
<1>6. ~p.help
  BY DEF Gathered
<1> QED BY <1>3, <1>4, <1>5, <1>6 DEF o, v, q, more

(* The word at i is an option that waits for its value. *)
Pending(line, i) == i >= 1 /\ line[i] \in ValueOptions /\ ~IsValue(line)[i]

(* Why the reader has stopped: at the first request for help, with no      *)
(* mistake before it, or at a mistake with no such request before it.      *)
Stopped(line, p) ==
  \E k \in OwnWords(line) :
    \/ /\ p.ok /\ p.help /\ line[k] \in Stops
       /\ \A j \in OwnWords(line) : j < k => ~Mistake(line, j) /\ line[j] \notin Stops
    \/ /\ ~p.ok /\ ~p.help /\ Mistake(line, k)
       /\ \A j \in OwnWords(line) : j < k => line[j] \notin Stops

(* What the reader holds after the i-th word.                              *)
Reading(line, p, i) ==
  /\ p \in States
  /\ p.at = "options" =>
       /\ i < Separator(line) /\ ~Pending(line, i) /\ p.compiler_args = <<>>
       /\ Gathered(line, Upto(OwnWords(line), i), p)
  /\ p.at = "value" =>
       /\ i < Separator(line) /\ Pending(line, i) /\ p.compiler_args = <<>>
       /\ p.option = line[i]
       /\ Gathered(line, Upto(OwnWords(line), i - 1), p)
  /\ p.at = "compiler" =>
       /\ Separator(line) <= i /\ p.compiler_args = SubSeq(line, Separator(line) + 1, i)
       /\ Gathered(line, OwnWords(line), p)
  /\ p.at = "end" => Stopped(line, p)

(* Nothing has been read before the first word.                            *)
LEMMA ReadingStarts ==
  ASSUME NEW line \in Seq(STRING)
  PROVE  Reading(line, Start, 0)
<1>1. /\ Start.at = "options" /\ Start.ok /\ ~Start.help /\ Start.flags = {}
      /\ Start.compiler_args = <<>> /\ \A o \in ValueOptions : Start.given[o] = <<>>
  BY DEF Start
<1>2. 0 < Separator(line) /\ ~Pending(line, 0)
  <2>1. Len(line) \in Nat
    BY LenProperties
  <2> QED BY <2>1, SeparatorIsFirst DEF Pending
<1>3. Upto(OwnWords(line), 0) = {}
  BY OwnWordsAre DEF Upto
<1>4. \A o : GivenBy(line, {}, o) = <<>>
  BY SelectedNone DEF GivenBy, PlacesOf
<1>5. \A o : Counting(o, <<>>) = <<>>
  BY DEF Counting
<1>6. Gathered(line, {}, Start)
  BY <1>1, <1>4, <1>5 DEF Gathered
<1> HIDE DEF Start
<1> QED BY <1>1, <1>2, <1>3, <1>6, StartIsState DEF Reading

(* The step of the reader that waits for an option.                        *)
LEMMA ReadingOptions ==
  ASSUME NEW line \in Seq(STRING), NEW i \in 1..Len(line), NEW p,
         Reading(line, p, i - 1), p.at = "options"
  PROVE  Reading(line, ReadWord(p, line[i]), i)
<1> DEFINE w == line[i]
           q == ReadOption(p, w)
           own == OwnWords(line)
<1> HIDE DEF Stops, Flags, ValueOptions
<1>0. /\ Len(line) \in Nat /\ i - 1 \in 0..Len(line) /\ i \in Nat /\ w \in Text
      /\ Separator(line) \in 1..(Len(line) + 1)
  <2>1. Len(line) \in Nat
    BY LenProperties
  <2>2. w \in STRING
    BY ElementOfSeq
  <2>3. Separator(line) \in 1..(Len(line) + 1)
    BY SeparatorIsFirst
  <2>4. i - 1 \in 0..Len(line) /\ i \in Nat
    BY <2>1
  <2> QED BY <2>1, <2>2, <2>3, <2>4 DEF Text
<1>1. /\ p \in States /\ i - 1 < Separator(line) /\ ~Pending(line, i - 1)
      /\ p.compiler_args = <<>> /\ Gathered(line, Upto(own, i - 1), p)
  BY DEF Reading
<1>2. ~IsValue(line)[i]
  BY <1>0, <1>1, IsValueByWord DEF Pending
<1>3. ReadWord(p, line[i]) = q
  BY DEF ReadWord
<1> HIDE DEF q, own
<1>4. CASE w = "--"
  <2>1. Separator(line) = i
    BY <1>0, <1>1, <1>2, <1>4, SeparatorIsFirst
  <2>2. Upto(own, i - 1) = own
    BY <1>0, <2>1, OwnWordsAre DEF Upto, own
  <2>3. q = [p EXCEPT !.at = "compiler"]
    BY <1>1, <1>4, ReadOptionGives DEF q
  <2>4. /\ q \in States /\ q.at = "compiler" /\ q.ok = p.ok /\ q.help = p.help
        /\ q.flags = p.flags /\ q.given = p.given /\ q.compiler_args = p.compiler_args
    BY <1>1, <2>3 DEF States
  <2>5. SubSeq(line, Separator(line) + 1, i) = <<>>
    BY <1>0, <2>1, SubSeqEmpty
  <2>6. Gathered(line, own, q)
    BY <1>1, <2>2, <2>4 DEF Gathered
  <2> QED BY <1>0, <1>1, <1>3, <2>1, <2>4, <2>5, <2>6 DEF Reading, own
<1>5. ASSUME w # "--"
      PROVE  /\ i < Separator(line) /\ i \in own
             /\ Upto(own, i) = Upto(own, i - 1) \cup {i} /\ i \notin Upto(own, i - 1)
             /\ \A j \in Upto(own, i - 1) : j \in 1..(i - 1)
             /\ \A j \in own : j < i => ~Mistake(line, j) /\ line[j] \notin Stops
  <2>1. Separator(line) # i
    BY <1>0, <1>5, SeparatorIsFirst
  <2>2. i < Separator(line) /\ i \in own
    BY <1>0, <1>1, <1>2, <2>1 DEF OwnWords, own
  <2>3. \A j \in own : j \in 1..Len(line)
    BY OwnWordsAre DEF own
  <2>4. /\ Upto(own, i) = Upto(own, i - 1) \cup {i} /\ i \notin Upto(own, i - 1)
        /\ \A j \in Upto(own, i - 1) : j \in 1..(i - 1)
    <3>1. \A j \in own : j <= i <=> j <= i - 1 \/ j = i
      BY <1>0, <2>3
    <3>2. Upto(own, i) = Upto(own, i - 1) \cup {i}
      BY <2>2, <3>1 DEF Upto
    <3>3. \A j \in Upto(own, i - 1) : j \in 1..(i - 1)
      BY <1>0, <2>3 DEF Upto
    <3> QED BY <1>0, <3>2, <3>3
  <2>5. \A j \in own : j < i => j \in Upto(own, i - 1)
    BY <1>0, <2>3 DEF Upto
  <2> QED BY <1>1, <2>2, <2>4, <2>5 DEF Gathered
<1>6. CASE w \in Stops
  <2>0. w # "--"
    BY <1>6 DEF Stops
  <2>1. q = [p EXCEPT !.at = "end", !.help = TRUE]
    BY <1>1, <1>6, ReadOptionGives DEF q
  <2>2. q \in States /\ q.at = "end" /\ q.ok /\ q.help
    BY <1>1, <2>1 DEF States, Gathered
  <2>3. Stopped(line, q)
    BY <1>5, <1>6, <2>0, <2>2 DEF Stopped, own
  <2> QED BY <1>3, <2>2, <2>3 DEF Reading
<1>7. CASE w \in ValueOptions
  <2>0. w # "--"
    BY <1>7 DEF ValueOptions, Repeatable
  <2>1. q = [p EXCEPT !.at = "value", !.option = w]
    BY <1>1, <1>7, ReadOptionGives DEF q
  <2>2. /\ q \in States /\ q.at = "value" /\ q.ok = p.ok /\ q.help = p.help /\ q.option = w
        /\ q.flags = p.flags /\ q.given = p.given /\ q.compiler_args = p.compiler_args
    BY <1>0, <1>1, <2>1 DEF States
  <2>3. Gathered(line, Upto(own, i - 1), q)
    BY <1>1, <2>2 DEF Gathered
  <2>4. Pending(line, i)
    BY <1>0, <1>2, <1>7 DEF Pending
  <2> QED BY <1>1, <1>3, <1>5, <2>0, <2>2, <2>3, <2>4 DEF Reading, own
<1>8. CASE w \in Flags
  <2>0. w # "--" /\ w \notin ValueOptions /\ w \notin Stops
    BY <1>8 DEF Flags, ValueOptions, Repeatable, Stops
  <2>1. q = [p EXCEPT !.flags = @ \cup {w}]
    BY <1>1, <1>8, ReadOptionGives DEF q
  <2>2. /\ q \in States /\ q.at = "options" /\ q.ok = p.ok /\ q.help = p.help
        /\ q.flags = p.flags \cup {w} /\ q.given = p.given /\ q.compiler_args = p.compiler_args
    BY <1>0, <1>1, <2>1 DEF States
  <2>3. Gathered(line, Upto(own, i), q)
    <3> DEFINE before == Upto(own, i - 1)
    <3>1. Upto(own, i) = before \cup {i} /\ i \in own /\ \A j \in before : j \in 1..(i - 1)
      BY <1>5, <2>0
    <3>2. ~Mistake(line, i)
      BY <1>8, <3>1, MistakesAre DEF own
    <3>3. ASSUME NEW o \in ValueOptions
          PROVE  GivenBy(line, before \cup {i}, o) = GivenBy(line, before, o)
      <4>1. GivenAt(line, i).option \notin ValueOptions
        BY <1>8, <3>1, GivenAtIs DEF own
      <4>2. GivenAt(line, i).option # o
        BY <4>1
      <4> HIDE DEF before
      <4> QED BY <3>1, <4>2, OneMorePlace
    <3>4. Gathered(line, before, p)
      BY <1>1
    <3>5. {line[k] : k \in before \cup {i}} \cap Flags = ({line[k] : k \in before} \cap Flags) \cup {w}
      BY <1>8
    <3> HIDE DEF before
    <3>6. Gathered(line, before \cup {i}, q)
      BY <2>0, <2>2, <3>2, <3>3, <3>4, <3>5 DEF Gathered
    <3> QED BY <3>1, <3>6
  <2>4. ~Pending(line, i)
    BY <2>0 DEF Pending
  <2> QED BY <1>1, <1>3, <1>5, <2>0, <2>2, <2>3, <2>4 DEF Reading, own
<1>9. CASE w \in DOMAIN Joined
  <2>0. w # "--" /\ w \notin ValueOptions
    BY <1>9, CommandLineAssumption
  <2>1. i \in own
    BY <1>5, <2>0
  <2>2. q = Assign(p, GivenAt(line, i).option, GivenAt(line, i).value)
    <3>1. q = Assign(p, Joined[w].option, Joined[w].value)
      BY <1>1, <1>9, ReadOptionGives DEF q
    <3>2. GivenAt(line, i) = Joined[w]
      BY <1>9 DEF GivenAt
    <3> QED BY <3>1, <3>2
  <2>3. /\ q \in States
        /\ Mistake(line, i) => q.at = "end" /\ ~q.ok /\ ~q.help
        /\ ~Mistake(line, i) =>
             /\ q.at = "options" /\ q.compiler_args = p.compiler_args
             /\ Gathered(line, Upto(own, i - 1) \cup {i}, q)
    <3> DEFINE before == Upto(own, i - 1)
    <3>1. (\A j \in before : j \in 1..(i - 1)) /\ Gathered(line, before, p) /\ p \in States
      BY <1>1, <1>5, <2>0
    <3>2. i \in OwnWords(line)
      BY <2>1 DEF own
    <3> HIDE DEF before
    <3> QED BY <1>9, <2>2, <3>1, <3>2, OptionIsGathered DEF before
  <2>4. CASE Mistake(line, i)
    <3>1. Stopped(line, q)
      BY <1>5, <2>0, <2>1, <2>3, <2>4 DEF Stopped, own
    <3> QED BY <1>3, <2>3, <2>4, <3>1 DEF Reading
  <2>5. CASE ~Mistake(line, i)
    <3>1. ~Pending(line, i)
      BY <2>0 DEF Pending
    <3>2. Gathered(line, Upto(own, i), q)
      BY <1>5, <2>0, <2>3, <2>5
    <3> QED BY <1>1, <1>3, <1>5, <2>0, <2>3, <2>5, <3>1, <3>2 DEF Reading, own
  <2> QED BY <2>4, <2>5
<1>10. CASE w \notin {"--"} \cup Stops \cup ValueOptions \cup Flags \cup DOMAIN Joined
  <2>1. q = Reject(p)
    BY <1>1, <1>10, ReadOptionGives DEF q
  <2>2. q \in States /\ q.at = "end" /\ ~q.ok /\ ~q.help
    BY <1>1, <2>1 DEF States, Gathered, Reject
  <2>3. Mistake(line, i)
    BY <1>5, <1>10, MistakesAre DEF own
  <2>4. Stopped(line, q)
    BY <1>5, <1>10, <2>2, <2>3 DEF Stopped, own
  <2> QED BY <1>3, <2>2, <2>4 DEF Reading
<1> QED BY <1>4, <1>6, <1>7, <1>8, <1>9, <1>10

(* The step of the reader that has an option and waits for its value.      *)
LEMMA ReadingValue ==
  ASSUME NEW line \in Seq(STRING), NEW i \in 1..Len(line), NEW p,
         Reading(line, p, i - 1), p.at = "value"
  PROVE  Reading(line, ReadWord(p, line[i]), i)
<1> DEFINE k == i - 1
           own == OwnWords(line)
           before == Upto(own, k - 1)
           q == Assign(p, GivenAt(line, k).option, GivenAt(line, k).value)
<1> HIDE DEF Stops, Flags, ValueOptions
<1>0. /\ Len(line) \in Nat /\ k \in 0..Len(line) /\ i \in Nat /\ i = k + 1
      /\ Separator(line) \in 1..(Len(line) + 1)
  <2>1. Len(line) \in Nat
    BY LenProperties
  <2>2. Separator(line) \in 1..(Len(line) + 1)
    BY SeparatorIsFirst
  <2> QED BY <2>1, <2>2
<1>1. /\ p \in States /\ k < Separator(line) /\ Pending(line, k) /\ p.compiler_args = <<>>
      /\ p.option = line[k] /\ Gathered(line, before, p)
  BY DEF Reading
<1> HIDE DEF k, own, before, q
<1>2. k \in 1..Len(line) /\ k < Len(line) /\ k \in own /\ line[k] \in ValueOptions
  BY <1>0, <1>1 DEF Pending, OwnWords, own
<1>3. IsValue(line)[i]
  BY <1>0, <1>1, <1>2, IsValueByWord DEF Pending
<1>4. ~Pending(line, i)
  BY <1>3 DEF Pending
<1>5. i < Separator(line)
  <2>1. Separator(line) # i
    BY <1>0, <1>3, SeparatorIsFirst
  <2> QED BY <1>0, <1>1, <2>1
<1>6. /\ Upto(own, i) = before \cup {k} /\ \A j \in before : j \in 1..(k - 1)
      /\ \A j \in own : j < k => j \in before
  <2>1. \A j \in own : j \in 1..Len(line) /\ j # i
    BY <1>3, OwnWordsAre DEF own
  <2>2. \A j \in own : j <= i <=> j <= k - 1 \/ j = k
    BY <1>0, <2>1
  <2>3. \A j \in own : j < k => j <= k - 1
    BY <1>0, <2>1
  <2>4. \A j \in before : j \in 1..(k - 1)
    BY <1>0, <2>1 DEF Upto, before
  <2> QED BY <1>2, <2>2, <2>3, <2>4 DEF Upto, before
<1>7. ReadWord(p, line[i]) = q
  <2>1. GivenAt(line, k).option = line[k] /\ GivenAt(line, k).value = line[k + 1]
    BY <1>2, GivenAtIs DEF own
  <2> QED BY <1>0, <1>1, <2>1 DEF ReadWord, q
<1>8. /\ q \in States
      /\ Mistake(line, k) => q.at = "end" /\ ~q.ok /\ ~q.help
      /\ ~Mistake(line, k) =>
           /\ q.at = "options" /\ q.compiler_args = p.compiler_args
           /\ Gathered(line, before \cup {k}, q)
  BY <1>1, <1>2, <1>6, OptionIsGathered DEF own, q
<1>9. CASE Mistake(line, k)
  <2>1. Stopped(line, q)
    BY <1>1, <1>2, <1>6, <1>8, <1>9 DEF Stopped, own, Gathered
  <2> QED BY <1>7, <1>8, <1>9, <2>1 DEF Reading
<1>10. CASE ~Mistake(line, k)
  BY <1>1, <1>4, <1>5, <1>6, <1>7, <1>8, <1>10 DEF Reading, own
<1> QED BY <1>9, <1>10

(* The step behind the separator, where words are passed on unchanged.     *)
LEMMA ReadingCompiler ==
  ASSUME NEW line \in Seq(STRING), NEW i \in 1..Len(line), NEW p,
         Reading(line, p, i - 1), p.at = "compiler"
  PROVE  Reading(line, ReadWord(p, line[i]), i)
<1> DEFINE q == ReadWord(p, line[i])
           first == Separator(line) + 1
<1>0. /\ Len(line) \in Nat /\ line[i] \in STRING /\ Separator(line) \in 1..(Len(line) + 1)
  BY LenProperties, ElementOfSeq, SeparatorIsFirst
<1>1. /\ p \in States /\ Separator(line) <= i - 1 /\ p.compiler_args = SubSeq(line, first, i - 1)
      /\ Gathered(line, OwnWords(line), p)
  BY DEF Reading
<1>2. q = [p EXCEPT !.compiler_args = Append(@, line[i])]
  BY DEF ReadWord
<1>3. SubSeq(line, first, i) = Append(SubSeq(line, first, i - 1), line[i])
  <2>1. first \in 1..(Len(line) + 1) /\ first <= i /\ i \in 1..Len(line)
    BY <1>0, <1>1
  <2> HIDE DEF first
  <2> QED BY <1>0, <2>1, SubSeqRecursiveSecond
<1>4. Append(p.compiler_args, line[i]) \in Seq(Text)
  <2>1. p.compiler_args \in Seq(Text) /\ line[i] \in Text
    BY <1>0, <1>1 DEF States, Text
  <2> QED BY <2>1, AppendProperties
<1> DEFINE args == Append(p.compiler_args, line[i])
<1>5. q = [p EXCEPT !.compiler_args = args] /\ args \in Seq(Text)
  BY <1>2, <1>4
<1> HIDE DEF args, q
<1>6. /\ q \in States /\ q.at = "compiler" /\ q.compiler_args = args /\ q.ok = p.ok
      /\ q.help = p.help /\ q.flags = p.flags /\ q.given = p.given
  BY <1>1, <1>5 DEF States
<1>7. Gathered(line, OwnWords(line), q)
  BY <1>1, <1>6 DEF Gathered
<1>8. args = SubSeq(line, Separator(line) + 1, i)
  BY <1>1, <1>3 DEF args
<1> QED BY <1>0, <1>1, <1>6, <1>7, <1>8 DEF Reading, q

(* The state after the last word is the one Reading describes: the first   *)
(* word after which it were not would contradict the step before it.       *)
LEMMA LineIsRead ==
  ASSUME NEW line \in Seq(STRING)
  PROVE  Reading(line, ReadWords(line)[Len(line)], Len(line))
<1> DEFINE len == Len(line)
           other == {i \in 0..len : ~Reading(line, ReadWords(line)[i], i)}
<1>0. len \in Nat
  BY LenProperties
<1> HIDE DEF len
<1>1. other = {}
  <2> SUFFICES ASSUME other # {}
               PROVE  FALSE
    OBVIOUS
  <2>0. other \subseteq Nat
    BY <1>0
  <2>1. PICK i \in other : \A j \in other : i <= j
    BY <2>0, LeastNumber
  <2>2. i # 0
    BY <1>0, ReadWordsByWord, ReadingStarts
  <2>3. i - 1 \in 0..len /\ i - 1 \notin other /\ i \in 1..Len(line)
    BY <1>0, <2>1, <2>2 DEF len
  <2> DEFINE p == ReadWords(line)[i - 1]
  <2>4. Reading(line, p, i - 1)
    BY <2>3
  <2>5. ReadWords(line)[i] = ReadWord(p, line[i])
    BY <2>3, ReadWordsByWord
  <2> HIDE DEF p
  <2>6. CASE p.at = "options"
    BY <2>1, <2>3, <2>4, <2>5, <2>6, ReadingOptions
  <2>7. CASE p.at = "value"
    BY <2>1, <2>3, <2>4, <2>5, <2>7, ReadingValue
  <2>8. CASE p.at = "compiler"
    BY <2>1, <2>3, <2>4, <2>5, <2>8, ReadingCompiler
  <2>9. CASE p.at = "end"
    <3>1. ReadWord(p, line[i]) = p
      BY <2>9 DEF ReadWord
    <3>2. Reading(line, p, i)
      BY <2>4, <2>9 DEF Reading
    <3> QED BY <2>1, <2>5, <3>1, <3>2
  <2>10. p.at \in {"options", "value", "compiler", "end"}
    BY <2>4 DEF Reading, States
  <2> QED BY <2>6, <2>7, <2>8, <2>9, <2>10
<1> QED BY <1>0, <1>1 DEF len

(* The values by position, in the words of the proof.                      *)
LEMMA ValuesOfAre ==
  ASSUME NEW line, NEW o
  PROVE  ValuesOf(line, o) = Counting(o, GivenBy(line, OwnWords(line), o))
BY DEF ValuesOf, Counting, GivenBy, PlacesOf

(* At the end of a line that is not cut short, everything is behind.       *)
LEMMA LineIsBehind ==
  ASSUME NEW line \in Seq(STRING), NEW p, p = ReadWords(line)[Len(line)],
         p.at \in {"options", "compiler"}
  PROVE  /\ Gathered(line, OwnWords(line), p)
         /\ p.compiler_args = SubSeq(line, Separator(line) + 1, Len(line))
         /\ p.compiler_args = <<>> <=> Separator(line) >= Len(line)
<1>0. Len(line) \in Nat /\ Separator(line) \in 1..(Len(line) + 1)
  BY LenProperties, SeparatorIsFirst
<1>1. Reading(line, p, Len(line))
  BY LineIsRead
<1>2. CASE p.at = "options"
  <2>1. Separator(line) = Len(line) + 1
    BY <1>0, <1>1, <1>2 DEF Reading
  <2>2. Upto(OwnWords(line), Len(line)) = OwnWords(line)
    BY <1>0, OwnWordsAre DEF Upto
  <2>3. SubSeq(line, Separator(line) + 1, Len(line)) = <<>>
    BY <1>0, <2>1, SubSeqEmpty
  <2>4. Separator(line) >= Len(line)
    BY <1>0, <2>1
  <2>5. p.compiler_args = <<>> /\ Gathered(line, Upto(OwnWords(line), Len(line)), p)
    BY <1>1, <1>2 DEF Reading
  <2> QED BY <2>2, <2>3, <2>4, <2>5
<1>3. CASE p.at = "compiler"
  <2>1. /\ Separator(line) <= Len(line)
        /\ p.compiler_args = SubSeq(line, Separator(line) + 1, Len(line))
        /\ Gathered(line, OwnWords(line), p)
    BY <1>1, <1>3 DEF Reading
  <2>2. Separator(line) = Len(line) => p.compiler_args = <<>>
    BY <1>0, <2>1, SubSeqEmpty
  <2>3. Separator(line) < Len(line) => p.compiler_args # <<>>
    <3> SUFFICES ASSUME Separator(line) < Len(line)
                 PROVE  p.compiler_args # <<>>
      OBVIOUS
    <3> DEFINE first == Separator(line) + 1
               rest == SubSeq(line, first, Len(line))
    <3>1. first \in 1..Len(line) /\ Len(line) \in first..Len(line)
      BY <1>0
    <3>2. Len(rest) = Len(line) - first + 1
      BY <1>0, <3>1, SubSeqProperties
    <3>3. Len(rest) # 0
      BY <1>0, <3>1, <3>2
    <3>4. p.compiler_args = rest
      BY <2>1
    <3> HIDE DEF rest
    <3> QED BY <3>3, <3>4, EmptySeq
  <2> QED BY <1>0, <2>1, <2>2, <2>3
<1> QED BY <1>2, <1>3

LEMMA EveryLineAsMeant == \A line \in Seq(STRING) : ReadAsMeant(line)
<1> SUFFICES ASSUME NEW line \in Seq(STRING), ParseArgs(line).ok, ~ParseArgs(line).help
             PROVE  LET p == ParseArgs(line)
                    IN  /\ \A o \in ValueOptions : p.given[o] = ValuesOf(line, o)
                        /\ p.flags = {line[i] : i \in OwnWords(line)} \cap Flags
                        /\ p.compiler_args = SubSeq(line, Separator(line) + 1, Len(line))
  BY DEF ReadAsMeant
<1> DEFINE p == ReadWords(line)[Len(line)]
<1>1. Reading(line, p, Len(line)) /\ p \in States
  BY LineIsRead DEF Reading
<1>2. ParseArgs(line) = p \/ ParseArgs(line) = Reject(p)
  BY DEF ParseArgs
<1> HIDE DEF p
<1>3. ~Reject(p).ok
  BY <1>1 DEF Reject, States
<1>4. ParseArgs(line) = p
  BY <1>2, <1>3
<1>5. p.at \in {"options", "compiler"}
  <2>1. p.at # "end"
    BY <1>1, <1>4 DEF Reading, Stopped
  <2>2. p.at # "value"
    <3>1. p.at = "value" => ParseArgs(line) = Reject(p)
      BY DEF ParseArgs, p
    <3> QED BY <1>3, <3>1
  <2> QED BY <1>1, <2>1, <2>2 DEF States
<1>6. /\ Gathered(line, OwnWords(line), p)
      /\ p.compiler_args = SubSeq(line, Separator(line) + 1, Len(line))
  BY <1>5, LineIsBehind DEF p
<1> QED BY <1>4, <1>6, ValuesOfAre DEF Gathered

LEMMA EveryRefusalHasAReason == \A line \in Seq(STRING) : RefusedForAReason(line)
<1> SUFFICES ASSUME NEW line \in Seq(STRING)
             PROVE  RefusedForAReason(line)
  OBVIOUS
<1> DEFINE p == ReadWords(line)[Len(line)]
           r == ParseArgs(line)
           mistakes == {i \in OwnWords(line) : Mistake(line, i)}
           stops == {i \in OwnWords(line) : line[i] \in Stops}
           helps == stops # {} /\ \A i \in mistakes : Min(stops) < i
           idle == Separator(line) >= Len(line) /\ ValuesOf(line, "--test-dir") = <<>>
<1> SUFFICES (r.help <=> helps) /\ (r.ok <=> helps \/ (mistakes = {} /\ ~idle))
  BY DEF RefusedForAReason
<1>0. Len(line) \in Nat /\ \A k \in OwnWords(line) : k \in Nat
  BY OwnWordsAre, LenProperties
<1>1. Reading(line, p, Len(line)) /\ p \in States
  BY LineIsRead DEF Reading
<1>2. r = IF p.at = "value" \/ (p.at # "end" /\ ~HasWork(p)) THEN Reject(p) ELSE p
  BY DEF ParseArgs
<1> HIDE DEF p, r, Stops, Flags, ValueOptions
<1>3. ~Reject(p).ok /\ Reject(p).help = p.help
  BY <1>1 DEF Reject, States
<1>4. stops # {} => Min(stops) \in stops /\ \A i \in stops : Min(stops) <= i
  <2> SUFFICES ASSUME stops # {}
               PROVE  Min(stops) \in stops /\ \A i \in stops : Min(stops) <= i
    OBVIOUS
  <2>1. stops \subseteq Nat
    BY <1>0
  <2> HIDE DEF stops
  <2>2. \E n \in stops : \A m \in stops : n <= m
    BY <2>1, LeastNumber
  <2> QED BY <2>2 DEF Min
<1>5. CASE p.at = "end"
  <2>0. r = p
    BY <1>2, <1>5
  <2>1. PICK k \in OwnWords(line) :
          \/ /\ p.ok /\ p.help /\ line[k] \in Stops
             /\ \A j \in OwnWords(line) : j < k => ~Mistake(line, j) /\ line[j] \notin Stops
          \/ /\ ~p.ok /\ ~p.help /\ Mistake(line, k)
             /\ \A j \in OwnWords(line) : j < k => line[j] \notin Stops
    BY <1>1, <1>5 DEF Reading, Stopped
  <2>2. \A i \in OwnWords(line) : Mistake(line, i) => line[i] \notin Stops
    BY MistakesAre
  <2>3. CASE p.ok
    <3>1. /\ p.help /\ k \in stops
          /\ \A j \in OwnWords(line) : j < k => ~Mistake(line, j) /\ line[j] \notin Stops
      BY <2>1, <2>3
    <3>2. Min(stops) = k
      <4>1. Min(stops) \in OwnWords(line) /\ line[Min(stops)] \in Stops /\ Min(stops) <= k
        BY <1>4, <3>1
      <4> QED BY <1>0, <3>1, <4>1
    <3>3. \A i \in mistakes : Min(stops) < i
      BY <1>0, <2>2, <3>1, <3>2
    <3> QED BY <2>0, <2>3, <3>1, <3>3
  <2>4. CASE ~p.ok
    <3>1. /\ ~p.help /\ k \in mistakes
          /\ \A j \in OwnWords(line) : j < k => line[j] \notin Stops
      BY <2>1, <2>4
    <3>2. stops # {} => ~(Min(stops) < k)
      BY <1>0, <1>4, <3>1
    <3> QED BY <2>0, <2>4, <3>1, <3>2
  <2> QED BY <2>3, <2>4
<1>6. CASE p.at = "value"
  <2>1. /\ Len(line) < Separator(line) /\ Pending(line, Len(line))
        /\ Gathered(line, Upto(OwnWords(line), Len(line) - 1), p)
    BY <1>1, <1>6 DEF Reading
  <2>2. Len(line) \in OwnWords(line) /\ line[Len(line)] \in ValueOptions
    BY <1>0, <2>1, SeparatorIsFirst DEF Pending, OwnWords
  <2>3. Len(line) \in mistakes
    BY <2>2, MistakesAre
  <2>4. \A j \in OwnWords(line) : line[j] \notin Stops
    <3>1. line[Len(line)] \notin Stops
      BY <2>2, GivenAtIs
    <3>2. \A j \in OwnWords(line) : j = Len(line) \/ j <= Len(line) - 1
      BY <1>0, OwnWordsAre
    <3>3. \A j \in OwnWords(line) : j <= Len(line) - 1 => line[j] \notin Stops
      BY <2>1 DEF Gathered, Upto
    <3> QED BY <3>1, <3>2, <3>3
  <2>5. ~r.ok /\ ~r.help
    BY <1>2, <1>3, <1>6, <2>1 DEF Gathered
  <2> QED BY <2>3, <2>4, <2>5
<1>7. CASE p.at \in {"options", "compiler"}
  <2>1. /\ Gathered(line, OwnWords(line), p)
        /\ p.compiler_args = <<>> <=> Separator(line) >= Len(line)
    BY <1>7, LineIsBehind DEF p
  <2>2. mistakes = {} /\ stops = {}
    BY <2>1 DEF Gathered
  <2>3. p.given["--test-dir"] = ValuesOf(line, "--test-dir")
    <3>1. "--test-dir" \in ValueOptions
      BY DEF ValueOptions, Repeatable
    <3> QED BY <2>1, <3>1, ValuesOfAre DEF Gathered
  <2>4. HasWork(p) <=> ~idle
    BY <2>1, <2>3 DEF HasWork
  <2>5. p.ok /\ ~p.help
    BY <2>1 DEF Gathered
  <2> HIDE DEF idle, mistakes, stops
  <2>6. r = IF ~HasWork(p) THEN Reject(p) ELSE p
    BY <1>2, <1>7
  <2>7. (r.ok <=> ~idle) /\ ~r.help
    BY <1>3, <2>4, <2>5, <2>6
  <2> QED BY <2>2, <2>7
<1> QED BY <1>1, <1>5, <1>6, <1>7 DEF States

LEMMA LineIsALine == InvocationSpec => [](argv \in Seq(STRING))
<1>1. InvocationInit => argv \in Seq(STRING)
  BY InvocationAssumption DEF InvocationInit
<1>2. argv \in Seq(STRING) /\ [InvocationNext]_invocationVars => (argv \in Seq(STRING))'
  BY LineStays
<1> QED BY <1>1, <1>2, PTL DEF InvocationSpec

(* Every command line is read as it is meant, of whatever words: each      *)
(* option has the values that stand after it, and the compiler gets what   *)
(* stands behind the first "--" that is no value.                          *)
THEOREM LineReadAsMeant == InvocationSpec => []LineIsReadAsMeant
<1>1. argv \in Seq(STRING) => LineIsReadAsMeant
  BY EveryLineAsMeant DEF LineIsReadAsMeant
<1> QED BY <1>1, LineIsALine, PTL

(* Every command line is refused exactly when it has a mistake that no     *)
(* request for help comes before, or leaves nothing to do.                 *)
THEOREM LineRefusedForAReason == InvocationSpec => []LineIsRefusedForAReason
<1>1. argv \in Seq(STRING) => LineIsRefusedForAReason
  BY EveryRefusalHasAReason DEF LineIsRefusedForAReason
<1> QED BY <1>1, LineIsALine, PTL

-----------------------------------------------------------------------------
(* The words of the compiler.                                              *)

OutputPlaces(args) == {i \in DOMAIN args : args[i] \in OutputWords}

(* What is left without a word are the other words, all of them.           *)
LEMMA WithoutWord ==
  ASSUME NEW T, NEW args \in Seq(T), NEW word
  PROVE  /\ Without(args, word) \in Seq(T)
         /\ \A k \in DOMAIN Without(args, word) :
              \E i \in DOMAIN args : args[i] # word /\ Without(args, word)[k] = args[i]
         /\ \A i \in DOMAIN args : args[i] # word =>
              \E k \in DOMAIN Without(args, word) : Without(args, word)[k] = args[i]
<1> DEFINE S == {i \in DOMAIN args : args[i] # word}
           kept == Selected(args, S)
           len == Len(args)
<1>0. len \in Nat /\ DOMAIN args = 1..len /\ \A i \in 1..len : args[i] \in T
  BY LenProperties, ElementOfSeq
<1>1. (\A i \in S : i \in 1..len) /\ \A i \in S : args[i] \in T
  BY <1>0
<1>2. Without(args, word) = kept
  BY DEF Without
<1> HIDE DEF S, len
<1>3. kept \in Seq(T)
  BY <1>0, <1>1, SelectedIsSequence
<1>4. /\ DOMAIN kept = 1..Cardinality(S)
      /\ \A k \in 1..Cardinality(S) : Nth(S, k) \in S /\ kept[k] = args[Nth(S, k)]
  BY <1>0, <1>1, SelectedValues
<1> HIDE DEF kept
<1>5. \A k \in DOMAIN kept : \E i \in S : kept[k] = args[i]
  BY <1>4
<1>6. \A i \in S : \E k \in DOMAIN kept : kept[k] = args[i]
  <2>1. \A i \in S : Below(S, i) \in 1..Cardinality(S) /\ Nth(S, Below(S, i)) = i
    BY <1>0, <1>1, NthOfElement
  <2> QED BY <1>4, <2>1
<1> QED BY <1>2, <1>3, <1>5, <1>6 DEF S

(* Concatenation under a name the provers do not look into.                *)
Joint(s, t) == s \o t

(* The words of two sequences joined are those of either.                  *)
LEMMA ConcatWords ==
  ASSUME NEW T, NEW s \in Seq(T), NEW t \in Seq(T), NEW u, u = Joint(s, t)
  PROVE  /\ u \in Seq(T)
         /\ \A i \in DOMAIN s : \E k \in DOMAIN u : u[k] = s[i]
         /\ \A i \in DOMAIN t : \E k \in DOMAIN u : u[k] = t[i]
         /\ \A k \in DOMAIN u :
              (\E i \in DOMAIN s : u[k] = s[i]) \/ (\E i \in DOMAIN t : u[k] = t[i])
<1>0. /\ Len(s) \in Nat /\ Len(t) \in Nat /\ DOMAIN s = 1..Len(s) /\ DOMAIN t = 1..Len(t)
  BY LenProperties
<1>1. /\ u \in Seq(T) /\ Len(u) = Len(s) + Len(t)
      /\ \A i \in 1..(Len(s) + Len(t)) : u[i] = IF i <= Len(s) THEN s[i] ELSE t[i - Len(s)]
  BY ConcatProperties DEF Joint
<1>2. DOMAIN u = 1..(Len(s) + Len(t))
  BY <1>1, LenProperties
<1>3. \A i \in 1..Len(s) : i \in DOMAIN u /\ u[i] = s[i]
  BY ONLY <1>0, <1>1, <1>2
<1>4. ASSUME NEW i \in 1..Len(t)
      PROVE  Len(s) + i \in DOMAIN u /\ u[Len(s) + i] = t[i]
  <2>1. Len(s) + i \in 1..(Len(s) + Len(t)) /\ ~(Len(s) + i <= Len(s)) /\ (Len(s) + i) - Len(s) = i
    BY <1>0
  <2> QED BY ONLY <1>1, <1>2, <2>1
<1>5. ASSUME NEW k \in DOMAIN u
      PROVE  (\E i \in DOMAIN s : u[k] = s[i]) \/ (\E i \in DOMAIN t : u[k] = t[i])
  <2>1. CASE k <= Len(s)
    BY <1>0, <1>1, <1>2, <2>1
  <2>2. CASE ~(k <= Len(s))
    <3>1. k - Len(s) \in 1..Len(t) /\ u[k] = t[k - Len(s)]
      BY <1>0, <1>1, <1>2, <2>2
    <3> QED BY <1>0, <3>1
  <2> QED BY <2>1, <2>2
<1> QED BY <1>0, <1>1, <1>3, <1>4, <1>5

LEMMA TwoWords ==
  ASSUME NEW T, NEW a \in T, NEW b \in T
  PROVE  <<a, b>> \in Seq(T) /\ Len(<<a, b>>) = 2 /\ <<a, b>>[1] = a /\ <<a, b>>[2] = b
OBVIOUS

(* The first and the last output place are the same where there is one. *)
LEMMA OneOutput ==
  ASSUME NEW T, NEW args \in Seq(T), NEW i \in Nat, OutputPlaces(args) = {i}
  PROVE  /\ Min(OutputPlaces(args)) = i
         /\ CompilerOutput(args) = OutputAt(args, i)
<1>1. Min({i}) = i /\ Max({i}) = i
  BY DEF Min, Max
<1> QED BY <1>1 DEF CompilerOutput, OutputPlaces

(* The output added to arguments that name none is the only one, or the    *)
(* last.                                                                   *)
LEMMA OutputAdded ==
  ASSUME NEW T, NEW kept \in Seq(T), OutputPlaces(kept) = {}, NEW output
  PROVE  LET args == kept \o <<"-o", output>>
             place == Len(kept) + 1
         IN  /\ place \in Nat /\ place \in OutputPlaces(args) /\ args # <<>>
             /\ args \in Seq(T \cup {"-o", output})
             /\ OutputAt(args, place) = output
             /\ Cardinality(OutputPlaces(args)) = 1 \/ output \notin OutputWords =>
                  OutputPlaces(args) = {place}
<1> DEFINE U == T \cup {"-o", output}
           end == <<"-o", output>>
           args == kept \o end
           n == Len(kept)
<1>0. n \in Nat /\ kept \in Seq(U) /\ DOMAIN kept = 1..n
  BY LenProperties, SeqMonotonic
<1>1. end \in Seq(U) /\ Len(end) = 2 /\ end[1] = "-o" /\ end[2] = output
  BY TwoWords
<1> HIDE DEF U, end
<1>2. /\ args \in Seq(U) /\ DOMAIN args = 1..(n + 2) /\ Len(args) = n + 2
      /\ \A i \in 1..n : args[i] = kept[i]
      /\ \A i \in 1..2 : args[n + i] = end[i]
  <2>1. args \in Seq(U) /\ Len(args) = n + Len(end)
    BY <1>0, <1>1, ConcatProperties
  <2>2. DOMAIN args = 1..Len(args)
    BY <2>1, LenProperties
  <2>3. \A i \in 1..(n + Len(end)) : args[i] = IF i <= n THEN kept[i] ELSE end[i - n]
    BY <1>0, <1>1, ConcatProperties
  <2> HIDE DEF args, n
  <2>4. \A i \in 1..n : args[i] = kept[i]
    BY <1>0, <1>1, <2>3
  <2>5. ASSUME NEW i \in 1..2
        PROVE  args[n + i] = end[i]
    <3>1. n + i \in 1..(n + Len(end)) /\ ~(n + i <= n) /\ (n + i) - n = i
      BY <1>0, <1>1
    <3> QED BY <2>3, <3>1
  <2> QED BY <1>1, <2>1, <2>2, <2>4, <2>5
<1> HIDE DEF args, n
<1>3. args[n + 1] = "-o" /\ args[n + 2] = output
  BY <1>1, <1>2
<1>4. "-o" \in OutputWords /\ "-o" \notin DOMAIN JoinedOutput
  BY CompilerArgumentsAssumption DEF OutputWords
<1>5. \A i \in 1..n : args[i] \notin OutputWords
  BY <1>0, <1>2 DEF OutputPlaces
<1>6. n + 1 \in OutputPlaces(args) /\ args # <<>>
  <2>1. n + 1 \in DOMAIN args
    BY <1>0, <1>2
  <2>2. Len(args) # 0
    BY <1>0, <1>2
  <2> QED BY <1>3, <1>4, <2>1, <2>2, EmptySeq, <1>2 DEF OutputPlaces
<1>7. \A i \in OutputPlaces(args) : i = n + 1 \/ i = n + 2
  <2>1. \A i \in 1..(n + 2) : i \in 1..n \/ i = n + 1 \/ i = n + 2
    BY <1>0
  <2> QED BY <1>2, <1>5, <2>1 DEF OutputPlaces
<1>8. OutputAt(args, n + 1) = output
  <2>1. n + 1 < Len(args) /\ (n + 1) + 1 = n + 2
    BY <1>0, <1>2
  <2> QED BY <1>3, <1>4, <2>1 DEF OutputAt
<1>9. ASSUME Cardinality(OutputPlaces(args)) = 1 \/ output \notin OutputWords
      PROVE  OutputPlaces(args) = {n + 1}
  <2>1. CASE output \notin OutputWords
    BY <1>3, <1>6, <1>7, <2>1 DEF OutputPlaces
  <2>2. CASE Cardinality(OutputPlaces(args)) = 1
    <3>1. IsFiniteSet(OutputPlaces(args))
      <4>1. IsFiniteSet({n + 1, n + 2})
        <5>1. IsFiniteSet({n + 1} \cup {n + 2})
          BY FS_Singleton, FS_AddElement
        <5>2. {n + 1, n + 2} = {n + 1} \cup {n + 2}
          OBVIOUS
        <5> QED BY <5>1, <5>2
      <4>2. OutputPlaces(args) \subseteq {n + 1, n + 2}
        BY <1>7
      <4> QED BY <4>1, <4>2, FS_Subset
    <3>2. PICK x : OutputPlaces(args) = {x}
      BY <2>2, <3>1, FS_Singleton
    <3> QED BY <1>6, <3>2
  <2> QED BY <1>9, <2>1, <2>2
<1>10. n + 1 \in Nat
  BY <1>0
<1> QED BY <1>2, <1>6, <1>8, <1>9, <1>10 DEF args, n, U, end

(* The two cases of BuildCompilerArguments, by the places of outputs.      *)
LEMMA BuiltIs ==
  ASSUME NEW args, NEW path
  PROVE  LET b == BuildCompilerArguments(args, path)
             kept == Without(args, "--instrument")
             output == IF path = "" THEN kDefaultOutputPath ELSE path
         IN  /\ OutputPlaces(kept) # {} =>
                  b.args = kept /\ b.output = OutputAt(kept, Min(OutputPlaces(kept)))
             /\ OutputPlaces(kept) = {} => b.args = kept \o <<"-o", output>> /\ b.output = output
             /\ FindOutputArgument(kept).present <=> OutputPlaces(kept) # {}
BY DEF BuildCompilerArguments, FindOutputArgument, OutputPlaces

(* Where only one output is named, the compiler and Run mean the same; and *)
(* a call has arguments.                                                   *)
LEMMA BuiltFits ==
  ASSUME NEW T, NEW args \in Seq(T), NEW path
  PROVE  LET b == BuildCompilerArguments(args, path)
         IN  /\ b.args # <<>>
             /\ Cardinality(OutputPlaces(b.args)) = 1 => b.output = CompilerOutput(b.args)
<1> DEFINE b == BuildCompilerArguments(args, path)
           kept == Without(args, "--instrument")
           output == IF path = "" THEN kDefaultOutputPath ELSE path
<1>0. kept \in Seq(T)
  BY WithoutWord
<1>1. /\ OutputPlaces(kept) # {} =>
           b.args = kept /\ b.output = OutputAt(kept, Min(OutputPlaces(kept)))
      /\ OutputPlaces(kept) = {} => b.args = kept \o <<"-o", output>> /\ b.output = output
  BY BuiltIs
<1> HIDE DEF b, kept, output
<1>2. CASE OutputPlaces(kept) # {}
  <2>1. kept # <<>>
    BY <1>2, EmptySeq DEF OutputPlaces
  <2>2. DOMAIN kept = 1..Len(kept) /\ Len(kept) \in Nat
    BY <1>0, LenProperties
  <2>3. ASSUME Cardinality(OutputPlaces(kept)) = 1
        PROVE  OutputAt(kept, Min(OutputPlaces(kept))) = CompilerOutput(kept)
    <3>1. IsFiniteSet(OutputPlaces(kept)) /\ OutputPlaces(kept) \subseteq Nat
      <4>1. IsFiniteSet(1..Len(kept))
        BY <2>2, FS_Interval
      <4>2. OutputPlaces(kept) \subseteq 1..Len(kept)
        BY <2>2 DEF OutputPlaces
      <4> QED BY <4>1, <4>2, <2>2, FS_Subset
    <3>2. PICK x : OutputPlaces(kept) = {x}
      BY <2>3, <3>1, FS_Singleton
    <3>3. x \in Nat
      BY <3>1, <3>2
    <3> QED BY <1>0, <3>2, <3>3, OneOutput
  <2> QED BY <1>1, <1>2, <2>1, <2>3 DEF b
<1>3. CASE OutputPlaces(kept) = {}
  <2> DEFINE all == kept \o <<"-o", output>>
             place == Len(kept) + 1
  <2>1. /\ place \in Nat /\ all # <<>> /\ all \in Seq(T \cup {"-o", output})
        /\ OutputAt(all, place) = output
        /\ Cardinality(OutputPlaces(all)) = 1 => OutputPlaces(all) = {place}
    BY <1>0, <1>3, OutputAdded
  <2>2. b.args = all /\ b.output = output
    BY <1>1, <1>3
  <2> HIDE DEF all, place
  <2>3. Cardinality(OutputPlaces(all)) = 1 => CompilerOutput(all) = output
    BY <2>1, OneOutput
  <2> QED BY <2>1, <2>2, <2>3 DEF b
<1> QED BY <1>2, <1>3

(* Words that name no output may be added to the arguments.                *)
LEMMA PlainAdded ==
  ASSUME NEW s \in Seq(Text), NEW t \in Seq(Text), \A i \in DOMAIN t : t[i] \notin OutputWords,
         NEW u, u = Joint(s, t)
  PROVE  /\ u \in Seq(Text)
         /\ \A i \in DOMAIN s : \E k \in DOMAIN u : u[k] = s[i]
         /\ \A k \in DOMAIN u : u[k] \in OutputWords => \E i \in DOMAIN s : s[i] = u[k]
<1>1. /\ u \in Seq(Text)
      /\ \A i \in DOMAIN s : \E k \in DOMAIN u : u[k] = s[i]
      /\ \A k \in DOMAIN u :
           (\E i \in DOMAIN s : u[k] = s[i]) \/ (\E i \in DOMAIN t : u[k] = t[i])
  BY ConcatWords
<1> QED BY ONLY <1>1, \A i \in DOMAIN t : t[i] \notin OutputWords

(* What a batch adds for a source is no output option.                     *)
TestArgs(source, args) == Append(AddPerSourceCompatibilityArgs(source, args), source)

(* What a batch adds for a source names no output.                         *)
LEMMA TestArgsAre ==
  ASSUME NEW args \in Seq(Text), NEW source \in SourceFiles
  PROVE  /\ TestArgs(source, args) \in Seq(Text)
         /\ \A k \in DOMAIN TestArgs(source, args) :
              TestArgs(source, args)[k] \in OutputWords =>
                \E i \in DOMAIN args : args[i] \in OutputWords
         /\ \A i \in DOMAIN args :
              \E k \in DOMAIN TestArgs(source, args) : TestArgs(source, args)[k] = args[i]
<1> DEFINE cxx == IF source \in LooksCxx /\ ~HasLanguageOverride(args) THEN <<"-x", "c++">> ELSE <<>>
           debug == IF source \in NeedsDebug /\ ToSet(args) \cap {"-DDEBUG", "-DDEBUG=1"} = {}
                    THEN <<"-DDEBUG">> ELSE <<>>
           own == <<source>>
           some == args \o cxx
           more == some \o debug
           all == more \o own
           Plain(s) == s \in Seq(Text) /\ \A i \in DOMAIN s : s[i] \notin OutputWords
<1>1. source \in Text /\ source \notin OutputWords
  <2>1. \A i \in DOMAIN Sorted : Sorted[i] \in STRING
    <3>1. Sorted \in Seq(STRING)
      BY CompilerArgumentsAssumption
    <3> QED BY <3>1, ElementOfSeq, LenProperties
  <2>2. source \in STRING
    BY <2>1, CompilerArgumentsAssumption DEF ToSet
  <2> QED BY <2>2, CompilerArgumentsAssumption DEF Text
<1>2. Plain(<<>>)
  BY EmptySeq
<1>3. {"-x", "c++", "-DDEBUG"} \cap OutputWords = {}
  BY CompilerArgumentsAssumption DEF OutputWords
<1>4. Plain(cxx)
  <2>1. <<"-x", "c++">> \in Seq(Text)
    BY TwoWords DEF Text
  <2>2. \A i \in DOMAIN <<"-x", "c++">> : <<"-x", "c++">>[i] \in {"-x", "c++"}
    OBVIOUS
  <2>3. Plain(<<"-x", "c++">>)
    BY <1>3, <2>1, <2>2
  <2> QED BY <1>2, <2>3
<1>5. Plain(debug)
  <2>1. <<"-DDEBUG">> \in Seq(Text)
    BY OneWord DEF Text
  <2>2. \A i \in DOMAIN <<"-DDEBUG">> : <<"-DDEBUG">>[i] = "-DDEBUG"
    OBVIOUS
  <2>3. Plain(<<"-DDEBUG">>)
    BY <1>3, <2>1, <2>2
  <2> QED BY <1>2, <2>3
<1>6. Plain(own)
  BY <1>1, OneWord
<1> HIDE DEF cxx, debug, own
<1>7. /\ some \in Seq(Text)
      /\ \A i \in DOMAIN args : \E k \in DOMAIN some : some[k] = args[i]
      /\ \A k \in DOMAIN some : some[k] \in OutputWords => \E i \in DOMAIN args : args[i] = some[k]
  <2>1. /\ args \in Seq(Text) /\ cxx \in Seq(Text) /\ some = Joint(args, cxx)
        /\ \A i \in DOMAIN cxx : cxx[i] \notin OutputWords
    BY <1>4 DEF Joint
  <2> HIDE DEF some
  <2> QED BY ONLY <2>1, PlainAdded
<1> HIDE DEF some
<1>8. /\ more \in Seq(Text)
      /\ \A i \in DOMAIN some : \E k \in DOMAIN more : more[k] = some[i]
      /\ \A k \in DOMAIN more : more[k] \in OutputWords => \E i \in DOMAIN some : some[i] = more[k]
  <2>1. /\ some \in Seq(Text) /\ debug \in Seq(Text) /\ more = Joint(some, debug)
        /\ \A i \in DOMAIN debug : debug[i] \notin OutputWords
    BY <1>5, <1>7 DEF Joint
  <2> HIDE DEF more
  <2> QED BY ONLY <2>1, PlainAdded
<1> HIDE DEF more
<1>9. /\ all \in Seq(Text)
      /\ \A i \in DOMAIN more : \E k \in DOMAIN all : all[k] = more[i]
      /\ \A k \in DOMAIN all : all[k] \in OutputWords => \E i \in DOMAIN more : more[i] = all[k]
  <2>1. /\ more \in Seq(Text) /\ own \in Seq(Text) /\ all = Joint(more, own)
        /\ \A i \in DOMAIN own : own[i] \notin OutputWords
    BY <1>6, <1>8 DEF Joint
  <2> HIDE DEF all
  <2> QED BY ONLY <2>1, PlainAdded
<1>10. TestArgs(source, args) = all
  <2>1. Append(more, source) = more \o <<source>>
    BY <1>1, <1>8, AppendIsConcat
  <2> QED BY <2>1 DEF TestArgs, AddPerSourceCompatibilityArgs, more, some, cxx, debug, own
<1> HIDE DEF all
<1>11. \A i \in DOMAIN args : \E k \in DOMAIN all : all[k] = args[i]
  BY <1>7, <1>8, <1>9
<1>12. \A k \in DOMAIN all : all[k] \in OutputWords => \E i \in DOMAIN args : args[i] \in OutputWords
  BY <1>7, <1>8, <1>9
<1> QED BY <1>9, <1>10, <1>11, <1>12

(* In a batch whose words name no output, both mean the path of the test.  *)
LEMMA BatchCall ==
  ASSUME NEW args \in Seq(Text), NEW source \in SourceFiles, OutputPlaces(args) = {}
  PROVE  LET path == MakeTestOutputPath(source)
             b == BuildCompilerArguments(TestArgs(source, args), path)
         IN  b.output = path /\ CompilerOutput(b.args) = path
<1> DEFINE path == MakeTestOutputPath(source)
           all == TestArgs(source, args)
           kept == Without(all, "--instrument")
           b == BuildCompilerArguments(all, path)
<1>1. path \notin OutputWords /\ path # ""
  BY CompilerArgumentsAssumption DEF MakeTestOutputPath
<1>2. all \in Seq(Text) /\ \A k \in DOMAIN all : all[k] \notin OutputWords
  BY TestArgsAre DEF OutputPlaces
<1> HIDE DEF all, path
<1>3. kept \in Seq(Text) /\ OutputPlaces(kept) = {}
  BY <1>2, WithoutWord DEF OutputPlaces
<1>4. b.args = kept \o <<"-o", path>> /\ b.output = path
  BY <1>1, <1>3, BuiltIs
<1> DEFINE args2 == kept \o <<"-o", path>>
           place == Len(kept) + 1
<1> HIDE DEF kept
<1>5. /\ place \in Nat /\ args2 \in Seq(Text \cup {"-o", path}) /\ OutputAt(args2, place) = path
      /\ OutputPlaces(args2) = {place}
  BY <1>1, <1>3, OutputAdded
<1> HIDE DEF args2, place
<1>6. CompilerOutput(args2) = path
  BY <1>5, OneOutput
<1> QED BY <1>4, <1>6 DEF args2, all, path, kept

LEMMA LineIsTyped ==
  ASSUME NEW line \in Seq(STRING)
  PROVE  ParseArgs(line) \in States
<1> DEFINE p == ReadWords(line)[Len(line)]
<1>1. p \in States
  BY LineIsRead DEF Reading
<1>2. ParseArgs(line) = p \/ ParseArgs(line) = Reject(p)
  BY DEF ParseArgs
<1> HIDE DEF p
<1>3. Reject(p) \in States
  BY <1>1 DEF Reject, States
<1> QED BY <1>1, <1>2, <1>3

LEMMA CompilerArgsAreTyped == argv \in Seq(STRING) => CompilerArgs \in Seq(Text)
<1> SUFFICES ASSUME argv \in Seq(STRING)
             PROVE  CompilerArgs \in Seq(Text)
  OBVIOUS
<1> DEFINE args == Parsed.compiler_args
<1>1. args \in Seq(Text)
  BY LineIsTyped DEF Parsed, States
<1>2. LinkWords \in Seq(Text)
  <2>1. LinkWords \in Seq(STRING)
    BY CompilerArgumentsAssumption
  <2>2. STRING \subseteq Text
    BY DEF Text
  <2> QED BY <2>1, <2>2, SeqMonotonic
<1> HIDE DEF args
<1>3. args \o LinkWords \in Seq(Text)
  BY <1>1, <1>2, ConcatProperties
<1>4. CompilerArgs = args \/ CompilerArgs = args \o LinkWords
  BY DEF CompilerArgs, AddLinkWords, args
<1> QED BY <1>1, <1>3, <1>4

-----------------------------------------------------------------------------
(* The sources.                                                            *)

(* Every source file has a rank, and stands there.                         *)
LEMMA FilesAreSorted ==
  /\ Sorted \in Seq(SourceFiles) /\ Len(Sorted) \in Nat /\ DOMAIN Sorted = 1..Len(Sorted)
  /\ \A f \in SourceFiles : Rank(f) \in 1..Len(Sorted) /\ Sorted[Rank(f)] = f
  /\ IsFiniteSet(SourceFiles)
<1>1. Sorted \in Seq(STRING) /\ SourceFiles = {Sorted[i] : i \in DOMAIN Sorted}
  BY CompilerArgumentsAssumption DEF ToSet
<1>2. Len(Sorted) \in Nat /\ DOMAIN Sorted = 1..Len(Sorted) /\ Sorted \in [1..Len(Sorted) -> STRING]
  BY <1>1, LenProperties
<1>3. Sorted \in [1..Len(Sorted) -> SourceFiles]
  BY <1>1, <1>2
<1>4. Sorted \in Seq(SourceFiles)
  BY <1>2, <1>3, SeqDef
<1>5. ASSUME NEW f \in SourceFiles
      PROVE  Rank(f) \in 1..Len(Sorted) /\ Sorted[Rank(f)] = f
  <2>1. \E i \in DOMAIN Sorted : Sorted[i] = f
    BY <1>1
  <2> QED BY <1>2, <2>1 DEF Rank
<1>6. IsFiniteSet(SourceFiles)
  <2>1. Sorted \in Surjection(1..Len(Sorted), SourceFiles)
    BY <1>1, <1>2, <1>3 DEF Surjection
  <2>2. IsFiniteSet(1..Len(Sorted))
    BY <1>2, FS_Interval
  <2> QED BY <2>1, <2>2, FS_Surjection
<1> QED BY <1>2, <1>4, <1>5, <1>6

(* The sources under a directory.                                          *)
Under(d) == {f \in SourceFiles : d \in DOMAIN Tree /\ f \in Tree[d]}

(* A sequence of all the elements of a set, each once, has them all.       *)
LEMMA EveryOrderIsWhole ==
  ASSUME NEW S, IsFiniteSet(S), NEW w \in SetToSeqs(S)
  PROVE  w \in Seq(S) /\ \A f \in S : \E i \in DOMAIN w : w[i] = f
<1> DEFINE n == Cardinality(S)
<1>1. n \in Nat
  BY FS_CardinalityType
<1>2. w \in [1..n -> S] /\ \A i, j \in 1..n : i # j => w[i] # w[j]
  BY DEF SetToSeqs
<1> HIDE DEF n
<1>3. w \in Injection(1..n, S)
  BY <1>2 DEF Injection, IsInjective
<1>4. IsFiniteSet(1..n) /\ Cardinality(1..n) = n
  BY <1>1, FS_Interval
<1>5. w \in Surjection(1..n, S)
  BY <1>3, <1>4, FS_Injection DEF n
<1>6. w \in Seq(S)
  BY <1>1, <1>2, SeqDef
<1> QED BY <1>2, <1>5, <1>6 DEF Surjection

(* A walk meets files under its directory, all of them unless it fails.    *)
LEMMA WalksAre ==
  ASSUME NEW d, NEW w \in Walks(d)
  PROVE  /\ w \in Seq(SourceFiles) /\ \A i \in DOMAIN w : w[i] \in Under(d)
         /\ d \notin Unreadable => \A f \in Under(d) : \E i \in DOMAIN w : w[i] = f
<1> DEFINE S == Tree[d] \cap SourceFiles
           whole == SetToSeqs(S)
<1>0. S \subseteq SourceFiles /\ IsFiniteSet(S)
  BY FilesAreSorted, FS_Subset
<1>1. Unreadable \subseteq DOMAIN Tree
  BY CompilerArgumentsAssumption
<1>2. CASE d \notin DOMAIN Tree
  <2>1. Walks(d) = {<<>>}
    BY <1>1, <1>2 DEF Walks
  <2>2. Under(d) = {}
    BY <1>2 DEF Under
  <2> QED BY <2>1, <2>2, EmptySeq
<1>3. CASE d \in DOMAIN Tree
  <2>1. Under(d) = S
    BY <1>3 DEF Under
  <2> HIDE DEF S
  <2>2. ASSUME NEW v \in whole
        PROVE  v \in Seq(SourceFiles) /\ (\A i \in DOMAIN v : v[i] \in S)
                 /\ \A f \in S : \E i \in DOMAIN v : v[i] = f
    <3>1. v \in Seq(S) /\ \A f \in S : \E i \in DOMAIN v : v[i] = f
      BY <1>0, EveryOrderIsWhole
    <3>2. \A i \in DOMAIN v : v[i] \in S
      BY <3>1, ElementOfSeq, LenProperties
    <3> QED BY <1>0, <3>1, <3>2, SeqMonotonic
  <2> HIDE DEF whole
  <2>3. CASE d \in Unreadable
    <3>1. Walks(d) = UNION {Prefixes(v) : v \in whole}
      BY <1>1, <2>3 DEF Walks, whole, S
    <3>2. PICK v \in whole : w \in Prefixes(v)
      BY <3>1
    <3>3. PICK l \in 0..Len(v) : w = SubSeq(v, 1, l)
      BY <3>2 DEF Prefixes
    <3>4. v \in Seq(SourceFiles) /\ Len(v) \in Nat /\ DOMAIN v = 1..Len(v)
      BY <2>2, LenProperties
    <3>5. \A i \in 1..l : v[i] \in S
      BY <2>2, <3>3, <3>4
    <3>6. l \in Nat /\ 1 \in Int /\ l \in Int
      BY <3>3, <3>4
    <3>7. SubSeq(v, 1, l) \in Seq(S)
      BY <3>5, <3>6, SubSeqProperties
    <3>8. w \in Seq(S)
      BY <3>3, <3>7
    <3>9. \A i \in DOMAIN w : w[i] \in S
      BY <3>8, ElementOfSeq, LenProperties
    <3>10. w \in Seq(SourceFiles)
      BY <1>0, <3>8, SeqMonotonic
    <3> QED BY <2>1, <2>3, <3>9, <3>10
  <2>4. CASE d \notin Unreadable
    <3>1. Walks(d) = whole
      BY <1>3, <2>4 DEF Walks, whole, S
    <3> QED BY <2>1, <2>2, <3>1
  <2> QED BY <2>3, <2>4
<1> QED BY <1>2, <1>3

(* The sequences of F, each continued by a walk of d.                      *)
Continued(F, d) == {Joint(w, v) : w \in F, v \in Walks(d)}

(* The recursive function over the directories exists.                     *)
LEMMA WalkedByDirectory ==
  ASSUME NEW T, NEW dirs \in Seq(T)
  PROVE  \E found : /\ Walked(dirs) = found[Len(dirs)] /\ found[0] = {<<>>}
                    /\ \A i \in 1..Len(dirs) : found[i] = Continued(found[i - 1], dirs[i])
<1> DEFINE len == Len(dirs)
           From(g, n) == g = [i \in 0..n |-> IF i = 0 THEN {<<>>} ELSE Continued(g[i - 1], dirs[i])]
           missing == {n \in 0..len : ~ \E g : From(g, n)}
<1>0. len \in Nat
  BY LenProperties
<1> HIDE DEF len, From
<1>1. missing = {}
  <2> SUFFICES ASSUME missing # {}
               PROVE  FALSE
    OBVIOUS
  <2>0. missing \subseteq Nat
    BY <1>0
  <2>1. PICK n \in missing : \A m \in missing : n <= m
    BY <2>0, LeastNumber
  <2>2. n # 0
    <3> DEFINE g == [i \in 0..0 |-> {<<>>}]
    <3>1. g = [i \in 0..0 |-> IF i = 0 THEN {<<>>} ELSE Continued(g[i - 1], dirs[i])]
      OBVIOUS
    <3>2. From(g, 0)
      BY <3>1 DEF From
    <3> QED BY <3>2
  <2>3. n - 1 \in 0..len /\ n - 1 \notin missing /\ n \in 1..len
    BY <1>0, <2>1, <2>2
  <2>4. PICK g : From(g, n - 1)
    BY <2>3
  <2> DEFINE h == [i \in 0..n |-> IF i = n THEN Continued(g[n - 1], dirs[n]) ELSE g[i]]
  <2>5. ASSUME NEW i \in 0..n
        PROVE  h[i] = IF i = 0 THEN {<<>>} ELSE Continued(h[i - 1], dirs[i])
    <3>1. CASE i = 0
      BY <2>3, <2>4, <3>1 DEF From
    <3>2. CASE i \in 1..(n - 1)
      <4>1. h[i] = g[i] /\ h[i - 1] = g[i - 1] /\ i \in 0..(n - 1) /\ i # 0
        BY <2>3, <3>2
      <4> QED BY <2>4, <4>1 DEF From
    <3>3. CASE i = n
      BY <2>3, <3>3
    <3> QED BY <2>3, <3>1, <3>2, <3>3
  <2>6. From(h, n)
    BY <2>5 DEF From
  <2> QED BY <2>1, <2>6
<1>2. PICK g : From(g, len)
  <2>1. len \in 0..len
    BY <1>0
  <2> QED BY <1>1, <2>1
<1> DEFINE found == CHOOSE p : From(p, len)
<1>3. Walked(dirs) = found[len]
  BY DEF Walked, len, Continued, From, Joint
<1>4. From(found, len)
  BY <1>2
<1> HIDE DEF found
<1>5. \A i \in 0..len : found[i] = IF i = 0 THEN {<<>>} ELSE Continued(found[i - 1], dirs[i])
  BY <1>4 DEF From
<1>6. found[0] = {<<>>}
  BY <1>0, <1>5
<1>7. \A i \in 1..len : found[i] = Continued(found[i - 1], dirs[i])
  BY <1>0, <1>5
<1> QED BY <1>3, <1>6, <1>7 DEF len

(* What was found in the directories up to the n-th.                       *)
FoundIn(dirs, n, s) ==
  /\ s \in Seq(SourceFiles)
  /\ \A i \in DOMAIN s : \E j \in 1..n : s[i] \in Under(dirs[j])
  /\ (\A j \in 1..n : dirs[j] \notin Unreadable) =>
       \A j \in 1..n : \A f \in Under(dirs[j]) : \E i \in DOMAIN s : s[i] = f

(* One directory more.                                                     *)
LEMMA FoundMore ==
  ASSUME NEW T, NEW dirs \in Seq(T), NEW n \in 1..Len(dirs), NEW w, FoundIn(dirs, n - 1, w),
         NEW v \in Walks(dirs[n])
  PROVE  FoundIn(dirs, n, Joint(w, v))
<1> DEFINE s == Joint(w, v)
<1>0. w \in Seq(SourceFiles) /\ v \in Seq(SourceFiles) /\ s = Joint(w, v)
  BY WalksAre DEF FoundIn
<1> HIDE DEF s
<1>1. /\ s \in Seq(SourceFiles)
      /\ \A i \in DOMAIN w : \E k \in DOMAIN s : s[k] = w[i]
      /\ \A i \in DOMAIN v : \E k \in DOMAIN s : s[k] = v[i]
      /\ \A k \in DOMAIN s :
           (\E i \in DOMAIN w : s[k] = w[i]) \/ (\E i \in DOMAIN v : s[k] = v[i])
  <2>1. w \in Seq(SourceFiles) /\ v \in Seq(SourceFiles) /\ s = Joint(w, v)
    BY <1>0
  <2> QED BY ONLY <2>1, ConcatWords
<1>2. n \in Nat /\ \A j \in 1..n : j \in 1..(n - 1) \/ j = n
  BY LenProperties
<1>3. \A j \in 1..(n - 1) : j \in 1..n
  BY <1>2
<1>4. (\A i \in DOMAIN v : v[i] \in Under(dirs[n]))
        /\ (dirs[n] \notin Unreadable => \A f \in Under(dirs[n]) : \E i \in DOMAIN v : v[i] = f)
  BY WalksAre
<1>5. \A i \in DOMAIN w : \E j \in 1..(n - 1) : w[i] \in Under(dirs[j])
  BY DEF FoundIn
<1>6. ASSUME NEW k \in DOMAIN s
      PROVE  \E j \in 1..n : s[k] \in Under(dirs[j])
  <2>1. CASE \E i \in DOMAIN w : s[k] = w[i]
    BY <1>3, <1>5, <2>1
  <2>2. CASE \E i \in DOMAIN v : s[k] = v[i]
    <3>1. s[k] \in Under(dirs[n])
      BY <1>4, <2>2
    <3>2. n \in 1..n
      BY <1>2
    <3> QED BY <3>1, <3>2
  <2> QED BY <1>1, <2>1, <2>2
<1>7. ASSUME \A j \in 1..n : dirs[j] \notin Unreadable, NEW j \in 1..n, NEW f \in Under(dirs[j])
      PROVE  \E k \in DOMAIN s : s[k] = f
  <2>1. CASE j \in 1..(n - 1)
    <3>1. \E i \in DOMAIN w : w[i] = f
      BY <1>3, <1>7, <2>1 DEF FoundIn
    <3> QED BY <1>1, <3>1
  <2>2. CASE j = n
    <3>1. dirs[n] \notin Unreadable /\ f \in Under(dirs[n])
      BY <1>7, <2>2
    <3>2. \E i \in DOMAIN v : v[i] = f
      BY <1>4, <3>1
    <3> QED BY <1>1, <3>2
  <2> QED BY <1>2, <2>1, <2>2
<1> QED BY <1>0, <1>1, <1>6, <1>7 DEF FoundIn

(* What all the walks find is under the directories.                       *)
LEMMA WalkedAre ==
  ASSUME NEW T, NEW dirs \in Seq(T), NEW s \in Walked(dirs)
  PROVE  FoundIn(dirs, Len(dirs), s)
<1> DEFINE len == Len(dirs)
<1>0. len \in Nat
  BY LenProperties
<1>1. PICK found : /\ Walked(dirs) = found[len] /\ found[0] = {<<>>}
                   /\ \A i \in 1..len : found[i] = Continued(found[i - 1], dirs[i])
  BY WalkedByDirectory
<1> DEFINE other == {i \in 0..len : ~ \A w \in found[i] : FoundIn(dirs, i, w)}
<1> HIDE DEF len
<1>2. other = {}
  <2> SUFFICES ASSUME other # {}
               PROVE  FALSE
    OBVIOUS
  <2>0. other \subseteq Nat
    BY <1>0
  <2>1. PICK n \in other : \A m \in other : n <= m
    BY <2>0, LeastNumber
  <2>2. n # 0
    <3>1. FoundIn(dirs, 0, <<>>)
      <4>1. <<>> \in Seq(SourceFiles) /\ DOMAIN <<>> = {} /\ 1..0 = {}
        BY EmptySeq
      <4> QED BY <4>1 DEF FoundIn
    <3> QED BY <1>1, <2>1, <3>1
  <2>3. n - 1 \in 0..len /\ n - 1 \notin other /\ n \in 1..len
    BY <1>0, <2>1, <2>2
  <2>4. \A w \in found[n - 1] : FoundIn(dirs, n - 1, w)
    BY <2>3
  <2>5. ASSUME NEW u \in found[n]
        PROVE  FoundIn(dirs, n, u)
    <3>1. PICK w \in found[n - 1], v \in Walks(dirs[n]) : u = Joint(w, v)
      <4>1. u \in Continued(found[n - 1], dirs[n])
        BY <1>1, <2>3 DEF len
      <4> QED BY <4>1 DEF Continued
    <3>2. FoundIn(dirs, n, Joint(w, v))
      BY <2>3, <2>4, FoundMore DEF len
    <3> QED BY <3>1, <3>2
  <2> QED BY <2>1, <2>5
<1> QED BY <1>0, <1>1, <1>2 DEF len

(* The places of the paths that are not after the i-th of all, and where   *)
(* the k-th path of s is among all.                                        *)
NotAfter(s, i) == {j \in DOMAIN s : Rank(s[j]) <= i}
Reaching(s, k) == {i \in DOMAIN Sorted : Cardinality(NotAfter(s, i)) >= k}
Where(s, k) == Min(Reaching(s, k))

(* How many of the paths are not after one in the order of all files.      *)
LEMMA NotAfterGrows ==
  ASSUME NEW s \in Seq(SourceFiles), NEW i \in Nat
  PROVE  /\ IsFiniteSet(NotAfter(s, i)) /\ Cardinality(NotAfter(s, i)) \in Nat
         /\ Cardinality(NotAfter(s, i)) <= Len(s)
         /\ i >= Len(Sorted) => Cardinality(NotAfter(s, i)) = Len(s)
         /\ i = 0 => Cardinality(NotAfter(s, i)) = 0
<1> DEFINE len == Len(s)
<1>0. /\ len \in Nat /\ DOMAIN s = 1..len /\ IsFiniteSet(1..len) /\ Cardinality(1..len) = len
  <2>1. len \in Nat /\ DOMAIN s = 1..len
    BY LenProperties
  <2> HIDE DEF len
  <2> QED BY <2>1, FS_Interval
<1>1. \A j \in 1..len : Rank(s[j]) \in 1..Len(Sorted)
  BY ElementOfSeq, FilesAreSorted
<1>2. Len(Sorted) \in Nat
  BY FilesAreSorted
<1> HIDE DEF len
<1>3. NotAfter(s, i) \subseteq 1..len
  BY <1>0 DEF NotAfter
<1>4. /\ IsFiniteSet(NotAfter(s, i)) /\ Cardinality(NotAfter(s, i)) \in Nat
      /\ Cardinality(NotAfter(s, i)) <= len
  BY <1>0, <1>3, FS_Subset, FS_CardinalityType
<1>5. i >= Len(Sorted) => NotAfter(s, i) = 1..len
  BY <1>0, <1>1, <1>2 DEF NotAfter
<1>6. i = 0 => NotAfter(s, i) = {}
  BY <1>0, <1>1, <1>2 DEF NotAfter
<1> QED BY <1>0, <1>4, <1>5, <1>6, FS_EmptySet DEF len

(* The k-th path is one of s.                                              *)
LEMMA WhereIs ==
  ASSUME NEW s \in Seq(SourceFiles), NEW k \in 1..Len(s)
  PROVE  /\ Where(s, k) \in 1..Len(Sorted) /\ Where(s, k) \in Reaching(s, k)
         /\ \A i \in Reaching(s, k) : Where(s, k) <= i
         /\ \E j \in DOMAIN s : Rank(s[j]) = Where(s, k) /\ Sorted[Where(s, k)] = s[j]
<1> DEFINE len == Len(Sorted)
           R == Reaching(s, k)
           m == Where(s, k)
<1>0. /\ len \in Nat /\ DOMAIN Sorted = 1..len /\ k \in Nat /\ k >= 1 /\ Len(s) \in Nat
      /\ DOMAIN s = 1..Len(s)
  BY FilesAreSorted, LenProperties
<1>1. \A i \in Nat : Cardinality(NotAfter(s, i)) \in Nat
  BY NotAfterGrows
<1>2. Cardinality(NotAfter(s, 0)) = 0 /\ Cardinality(NotAfter(s, len)) = Len(s)
  BY <1>0, NotAfterGrows
<1> HIDE DEF len
<1>3. len \in R
  <2>1. len # 0
    BY <1>0, <1>2
  <2>2. len \in 1..len
    BY <1>0, <2>1
  <2> QED BY <1>0, <1>2, <2>2 DEF Reaching
<1>4. R \subseteq Nat /\ \A i \in R : i \in 1..len
  BY <1>0 DEF Reaching
<1>5. m \in R /\ \A i \in R : m <= i
  <2>1. R # {}
    BY <1>3
  <2> HIDE DEF R
  <2>2. \E n \in R : \A i \in R : n <= i
    BY <1>4, <2>1, LeastNumber
  <2>3. m = CHOOSE n \in R : \A i \in R : n <= i
    BY DEF Where, Min, R
  <2> HIDE DEF m
  <2> QED BY <2>2, <2>3
<1> HIDE DEF m
<1>6. m \in 1..len /\ m - 1 \in Nat /\ Cardinality(NotAfter(s, m)) >= k
  BY <1>0, <1>4, <1>5 DEF Reaching
<1>7. Cardinality(NotAfter(s, m - 1)) < k
  <2>1. CASE m = 1
    BY <1>0, <1>2, <2>1
  <2>2. CASE m # 1
    <3>1. m - 1 \in DOMAIN Sorted /\ ~(m <= m - 1)
      BY <1>0, <1>6, <2>2
    <3>2. m - 1 \notin R
      BY <1>5, <3>1
    <3> QED BY <1>0, <1>1, <1>6, <3>1, <3>2 DEF Reaching
  <2> QED BY <2>1, <2>2
<1>8. PICK j \in DOMAIN s : Rank(s[j]) <= m /\ ~(Rank(s[j]) <= m - 1)
  <2>1. NotAfter(s, m) # NotAfter(s, m - 1)
    BY <1>0, <1>1, <1>6, <1>7
  <2>2. \A j \in DOMAIN s : Rank(s[j]) <= m - 1 => Rank(s[j]) <= m
    <3>1. \A j \in 1..Len(s) : Rank(s[j]) \in 1..Len(Sorted)
      BY ElementOfSeq, FilesAreSorted
    <3> QED BY <1>0, <1>6, <3>1 DEF len
  <2> QED BY <2>1, <2>2 DEF NotAfter
<1>9. s[j] \in SourceFiles
  BY <1>0, <1>8, ElementOfSeq
<1>10. Rank(s[j]) = m /\ Sorted[m] = s[j]
  BY <1>0, <1>6, <1>8, <1>9, FilesAreSorted DEF len
<1> QED BY <1>5, <1>6, <1>8, <1>10 DEF m, len

(* A later place in the sorted sequence holds no earlier path.             *)
LEMMA WhereInOrder ==
  ASSUME NEW s \in Seq(SourceFiles), NEW k \in 1..Len(s), NEW l \in 1..Len(s), k <= l
  PROVE  Where(s, k) <= Where(s, l)
<1>1. Where(s, l) \in Reaching(s, l) /\ \A i \in Reaching(s, k) : Where(s, k) <= i
  BY WhereIs
<1>2. Where(s, l) \in Reaching(s, k)
  <2> DEFINE c == Cardinality(NotAfter(s, Where(s, l)))
  <2>1. Where(s, l) \in Nat /\ Where(s, l) \in DOMAIN Sorted /\ c >= l
    BY <1>1, FilesAreSorted DEF Reaching
  <2>2. c \in Nat
    BY <2>1, NotAfterGrows
  <2>3. k \in Nat /\ l \in Nat
    BY LenProperties
  <2> HIDE DEF c
  <2>4. c >= k
    BY <2>1, <2>2, <2>3
  <2> QED BY <2>1, <2>4 DEF Reaching, c
<1> QED BY <1>1, <1>2

(* Each path of s is the k-th for some k. *)
LEMMA EveryPathIsThere ==
  ASSUME NEW s \in Seq(SourceFiles), NEW j \in 1..Len(s)
  PROVE  \E k \in 1..Len(s) : Where(s, k) = Rank(s[j])
<1> DEFINE r == Rank(s[j])
           k == Cardinality(NotAfter(s, r))
<1>0. /\ Len(s) \in Nat /\ DOMAIN s = 1..Len(s) /\ r \in 1..Len(Sorted) /\ r \in Nat
      /\ Len(Sorted) \in Nat /\ DOMAIN Sorted = 1..Len(Sorted)
      /\ \A i \in 1..Len(s) : Rank(s[i]) \in Nat
  BY ElementOfSeq, FilesAreSorted, LenProperties
<1>1. j \in NotAfter(s, r)
  BY <1>0 DEF NotAfter
<1> HIDE DEF r
<1>2. k \in 1..Len(s) /\ IsFiniteSet(NotAfter(s, r))
  <2>1. /\ k \in Nat /\ k <= Len(s) /\ IsFiniteSet(NotAfter(s, r))
    BY <1>0, NotAfterGrows
  <2>2. k # 0
    BY <1>1, <2>1, FS_EmptySet
  <2> QED BY <1>0, <2>1, <2>2
<1>3. r \in Reaching(s, k)
  BY <1>0, <1>2 DEF Reaching
<1> DEFINE m == Where(s, k)
<1>4. m \in 1..Len(Sorted) /\ m \in Reaching(s, k) /\ m <= r
  BY <1>2, <1>3, WhereIs
<1>5. Cardinality(NotAfter(s, m)) >= k
  BY <1>4 DEF Reaching
<1> HIDE DEF m
<1>6. ASSUME m < r
      PROVE  FALSE
  <2>1. j \notin NotAfter(s, m) /\ NotAfter(s, m) \subseteq NotAfter(s, r)
    <3>1. Rank(s[j]) = r
      BY DEF r
    <3>2. m \in Nat
      BY <1>4
    <3>3. ~(r <= m)
      BY <1>0, <1>6, <3>2
    <3>4. \A i \in 1..Len(s) : Rank(s[i]) <= m => Rank(s[i]) <= r
      BY <1>0, <1>6, <3>2
    <3> QED BY <1>0, <3>1, <3>3, <3>4 DEF NotAfter
  <2>2. NotAfter(s, m) # NotAfter(s, r)
    BY <1>1, <2>1
  <2>3. Cardinality(NotAfter(s, m)) <= k /\ Cardinality(NotAfter(s, m)) # k
    BY <1>2, <2>1, <2>2, FS_Subset
  <2>4. Cardinality(NotAfter(s, m)) \in Nat
    BY <1>4, NotAfterGrows
  <2> HIDE DEF k
  <2> QED BY <1>2, <1>5, <2>3, <2>4
<1>7. m = r
  BY <1>0, <1>4, <1>6
<1> HIDE DEF k
<1> QED BY <1>2, <1>7 DEF m, r

(* The sorted paths: those of s, equal ones side by side.                  *)
LEMMA SortedAre ==
  ASSUME NEW s \in Seq(SourceFiles), NEW t, t = SortPaths(s)
  PROVE  /\ t \in Seq(SourceFiles) /\ Len(t) = Len(s)
         /\ \A k \in 1..Len(s) : \E j \in 1..Len(s) : t[k] = s[j]
         /\ \A j \in 1..Len(s) : \E k \in 1..Len(s) : t[k] = s[j]
         /\ \A k \in 1..Len(s), l \in 1..Len(s) : k < l /\ t[k] = t[l] => t[l - 1] = t[l]
<1> DEFINE len == Len(s)
<1>0. len \in Nat /\ DOMAIN s = 1..len
  BY LenProperties
<1>1. \A k \in 1..len : /\ Where(s, k) \in 1..Len(Sorted)
                        /\ \E j \in DOMAIN s : /\ Rank(s[j]) = Where(s, k)
                                               /\ Sorted[Where(s, k)] = s[j]
  BY WhereIs
<1>2. t = [k \in 1..len |-> Sorted[Where(s, k)]]
  BY <1>0 DEF SortPaths, Where, Reaching, NotAfter
<1>3. \A j \in 1..len : s[j] \in SourceFiles
  BY ElementOfSeq
<1> HIDE DEF len
<1>4. \A k \in 1..len : t[k] = Sorted[Where(s, k)]
  BY <1>2
<1>5. \A k \in 1..len : \E j \in 1..len : t[k] = s[j] /\ Rank(t[k]) = Where(s, k)
  BY <1>0, <1>1, <1>4
<1>6. t \in Seq(SourceFiles) /\ Len(t) = len
  <2>1. t \in [1..len -> SourceFiles]
    BY <1>2, <1>3, <1>5
  <2> QED BY <1>0, <2>1, SeqDef, LenProperties
<1>7. \A j \in 1..len : \E k \in 1..len : t[k] = s[j]
  <2> SUFFICES ASSUME NEW j \in 1..len
               PROVE  \E k \in 1..len : t[k] = s[j]
    OBVIOUS
  <2>1. PICK k \in 1..len : Where(s, k) = Rank(s[j])
    BY EveryPathIsThere DEF len
  <2>2. Sorted[Rank(s[j])] = s[j]
    BY <1>3, FilesAreSorted
  <2> QED BY <1>4, <2>1, <2>2
<1>8. ASSUME NEW k \in 1..len, NEW l \in 1..len, k < l, t[k] = t[l]
      PROVE  t[l - 1] = t[l]
  <2>1. Where(s, k) = Where(s, l)
    BY <1>5, <1>8
  <2>2. l - 1 \in 1..len /\ k <= l - 1 /\ l - 1 <= l
    BY <1>0, <1>8
  <2>3. Where(s, k) <= Where(s, l - 1) /\ Where(s, l - 1) <= Where(s, l)
    BY <2>2, WhereInOrder DEF len
  <2>4. /\ Where(s, k) \in 1..Len(Sorted) /\ Where(s, l - 1) \in 1..Len(Sorted)
        /\ Len(Sorted) \in Nat
    BY <1>1, <2>2, FilesAreSorted
  <2>5. Where(s, l - 1) = Where(s, l)
    BY <2>1, <2>3, <2>4
  <2> QED BY <1>4, <2>2, <2>5
<1> QED BY <1>5, <1>6, <1>7, <1>8 DEF len

(* The sources: those that were met, each once.                            *)
LEMMA SourcesAre ==
  ASSUME NEW s \in Seq(SourceFiles)
  PROVE  /\ SourcesOf(s) \in Seq(SourceFiles)
         /\ \A k, l \in DOMAIN SourcesOf(s) : SourcesOf(s)[k] = SourcesOf(s)[l] => k = l
         /\ \A k \in DOMAIN SourcesOf(s) : \E j \in DOMAIN s : SourcesOf(s)[k] = s[j]
         /\ \A j \in DOMAIN s : \E k \in DOMAIN SourcesOf(s) : SourcesOf(s)[k] = s[j]
<1> DEFINE t == SortPaths(s)
           len == Len(s)
           S == {i \in DOMAIN t : i > 1 => t[i - 1] # t[i]}
           u == Selected(t, S)
<1>0. len \in Nat /\ DOMAIN s = 1..len
  BY LenProperties
<1>1. /\ t \in Seq(SourceFiles) /\ Len(t) = len
      /\ \A k \in 1..len : \E j \in 1..len : t[k] = s[j]
      /\ \A j \in 1..len : \E k \in 1..len : t[k] = s[j]
      /\ \A k \in 1..len, l \in 1..len : k < l /\ t[k] = t[l] => t[l - 1] = t[l]
  BY SortedAre
<1>2. SourcesOf(s) = u
  BY DEF SourcesOf, Unique
<1> HIDE DEF t, len
<1>3. DOMAIN t = 1..len /\ \A k \in 1..len : t[k] \in SourceFiles
  BY <1>1, LenProperties, ElementOfSeq
<1>4. \A i \in S : i \in 1..len
  BY <1>3
<1>5. \A i \in S : t[i] \in SourceFiles
  BY <1>3
<1>6. \A i, j \in S : i < j => t[i] # t[j]
  <2> SUFFICES ASSUME NEW i \in S, NEW j \in S, i < j, t[i] = t[j]
               PROVE  FALSE
    OBVIOUS
  <2>1. t[j - 1] = t[j]
    BY <1>1, <1>4
  <2>2. j > 1
    BY <1>0, <1>4
  <2> QED BY <2>1, <2>2
<1>7. ASSUME NEW k \in 1..len
      PROVE  \E i \in S : t[i] = t[k]
  <2> DEFINE same == {i \in 1..len : t[i] = t[k]}
  <2>1. same \subseteq Nat /\ same # {}
    BY <1>0
  <2>2. PICK i \in same : \A j \in same : i <= j
    BY <2>1, LeastNumber
  <2>3. i > 1 => i - 1 \in 1..len /\ i - 1 \notin same
    BY <1>0, <2>2
  <2>4. i > 1 => t[i - 1] # t[i]
    BY <2>2, <2>3
  <2> QED BY <1>3, <2>2, <2>4
<1> HIDE DEF S
<1>8. u \in Seq(SourceFiles)
  BY <1>0, <1>4, <1>5, SelectedIsSequence
<1>9. \A k, l \in DOMAIN u : u[k] = u[l] => k = l
  BY <1>0, <1>4, <1>6, SelectedApart
<1>10. /\ DOMAIN u = 1..Cardinality(S)
       /\ \A k \in 1..Cardinality(S) : Nth(S, k) \in S /\ u[k] = t[Nth(S, k)]
  <2>1. \A k \in 1..Cardinality(S) : Nth(S, k) \in S
    BY <1>0, <1>4, NthIsThere
  <2> QED BY <2>1 DEF Selected
<1>11. \A i \in S : Below(S, i) \in 1..Cardinality(S) /\ Nth(S, Below(S, i)) = i
  BY <1>0, <1>4, NthOfElement
<1> HIDE DEF u
<1>12. \A k \in DOMAIN u : \E j \in DOMAIN s : u[k] = s[j]
  <2> SUFFICES ASSUME NEW k \in DOMAIN u
               PROVE  \E j \in DOMAIN s : u[k] = s[j]
    OBVIOUS
  <2>1. Nth(S, k) \in 1..len /\ u[k] = t[Nth(S, k)]
    BY <1>4, <1>10
  <2> QED BY <1>0, <1>1, <2>1
<1>13. \A i \in S : \E k \in DOMAIN u : u[k] = t[i]
  BY <1>10, <1>11
<1>14. \A j \in DOMAIN s : \E k \in DOMAIN u : u[k] = s[j]
  <2> SUFFICES ASSUME NEW j \in DOMAIN s
               PROVE  \E k \in DOMAIN u : u[k] = s[j]
    OBVIOUS
  <2>1. PICK k \in 1..len : t[k] = s[j]
    BY <1>0, <1>1
  <2>2. PICK i \in S : t[i] = t[k]
    BY <1>7
  <2> QED BY <1>13, <2>1, <2>2
<1> QED BY <1>2, <1>8, <1>9, <1>12, <1>14

-----------------------------------------------------------------------------
(* The calls of the compiler and of Run.                                   *)

(* What a call of this invocation is made of.                              *)
Made(test_dir, words, path, source, args, output) ==
  \/ /\ test_dir /\ source \in SourceFiles
     /\ LET b == BuildCompilerArguments(TestArgs(source, words), MakeTestOutputPath(source))
        IN  args = b.args /\ output = b.output
  \/ /\ ~test_dir
     /\ LET b == BuildCompilerArguments(words, path)
        IN  args = b.args /\ output = b.output

IsCall(source, args, output) ==
  Made(options.test_dir, CompilerArgs, OutputPath, source, args, output)

IsBuild(b) == b = [source |-> b.source, args |-> b.args, output |-> b.output,
                   written |-> b.written, program |-> b.program]

UnderWay == command # NoCommand

(* The options are those of the line, the call under way is one of this    *)
(* invocation, and so are the recorded ones; the last of them is the one   *)
(* under way when the compiler has returned.                               *)
Line ==
  /\ argv \in Seq(STRING)
  /\ options.test_dir <=> Directories # <<>>
  /\ options.forwarded_output = FindOutputArgument(CompilerArgs).present

Recorded ==
  /\ \E T : builds \in Seq(T)
  /\ \A n \in 1..Len(builds) :
       IsBuild(builds[n]) /\ IsCall(builds[n].source, builds[n].args, builds[n].output)

Calls ==
  /\ Line
  /\ Recorded
  /\ sources \in Seq(SourceFiles)
  /\ UnderWay => IsCall(command.source, command.args, command.output)
  /\ pc \in {"execute", "parse", "ran"} =>
       /\ UnderWay /\ Len(builds) > 0
       /\ builds[Len(builds)].source = command.source
       /\ builds[Len(builds)].args = command.args
       /\ builds[Len(builds)].output = command.output
  /\ pc \in {"main", "finish", "exited"} => ~UnderWay

(* In a batch, todo counts the source that is under way and those that are *)
(* left, and the finished tests are the recorded calls without the one     *)
(* whose program is still to run.                                          *)
Progress ==
  options.test_dir =>
    /\ todo = Len(sources) + (IF UnderWay THEN 1 ELSE 0)
    /\ \E T : tests \in Seq(T)
    /\ Len(tests) = Len(builds) - (IF pc \in {"execute", "parse", "ran"} THEN 1 ELSE 0)
    /\ pc = "main" => tests = <<>>
    /\ pc = "run" => todo > 0
    /\ pc = "finish" => todo = 0
    /\ pc = "exited" => todo = 0 \/ tests = <<>>

(* The effect of the actions on the calls.                                 *)
LEMMA MainMoves ==
  PrintHelp \/ Begin =>
    /\ pc = "main" /\ pc' \in {"run", "exited"}
    /\ UNCHANGED <<todo, tests, sources, disk, command, builds>>
    /\ pc' = "run" /\ options.test_dir => todo > 0
BY DEF PrintHelp, Begin, RejectArguments, RefuseBatch, BeginTests, Exit

(* What the steps of the compiler change.                                  *)
LEMMA CompilerMoves ==
  /\ Refused => /\ pc = "run" /\ pc' = "ran" /\ UnderWay /\ WritesNothing
                /\ UNCHANGED <<todo, tests, sources, command>>
  /\ Compiled => /\ pc = "run" /\ pc' \in {"execute", "ran"} /\ UnderWay /\ ~OutputTwice
                 /\ Writes \/ WritesNothing
                 /\ UNCHANGED <<todo, tests, sources, command>>
<1>1. Refused => /\ pc = "run" /\ pc' = "ran" /\ UnderWay /\ WritesNothing
                 /\ UNCHANGED <<todo, tests, sources, command>>
  BY DEF Refused, RefuseRun, CompileFails, Compiling, Returns, UnderWay
<1>2. Compiled => /\ pc = "run" /\ pc' \in {"execute", "ran"} /\ UnderWay /\ ~OutputTwice
                  /\ Writes \/ WritesNothing
                  /\ UNCHANGED <<todo, tests, sources, command>>
  BY DEF Compiled, CompileOnly, Compile, Compiling, Returns, UnderWay
<1> QED BY <1>1, <1>2

(* What the steps of the program change.                                   *)
LEMMA ProgramMoves ==
  /\ Run => /\ pc = "execute" /\ pc' \in {"parse", "ran"}
            /\ UNCHANGED <<todo, tests, sources, disk, command>>
            /\ \/ UNCHANGED builds
               \/ builds' = [builds EXCEPT ![Len(builds)].program = disk[command.output]]
  /\ Return => /\ pc = "parse" /\ pc' = "ran"
               /\ UNCHANGED <<todo, tests, sources, disk, command, builds>>
<1>1. Run => /\ pc = "execute" /\ pc' \in {"parse", "ran"} /\ UNCHANGED <<todo, tests>>
  BY DEF Run, ExecuteRefused, Execute, Take
<1>2. Run => /\ UNCHANGED <<sources, disk, command>>
             /\ \/ UNCHANGED builds
                \/ builds' = [builds EXCEPT ![Len(builds)].program = disk[command.output]]
  BY DEF Run
<1>3. Return => /\ pc = "parse" /\ pc' = "ran"
                /\ UNCHANGED <<todo, tests, sources, disk, command, builds>>
  BY DEF Return, ParseOutput, Returns
<1> QED BY <1>1, <1>2, <1>3

(* What the ends of a test and of a batch change.                          *)
LEMMA EndMoves ==
  Conclude =>
    /\ command' = NoCommand /\ UNCHANGED <<sources, disk, builds>>
    /\ \/ pc = "ran" /\ ~options.test_dir /\ pc' = "exited" /\ UNCHANGED todo
       \/ /\ pc = "ran" /\ options.test_dir /\ todo' = todo - 1
          /\ pc' = IF todo' > 0 THEN "run" ELSE "finish"
          /\ tests' = Append(tests, Finished)
       \/ pc = "finish" /\ pc' = "exited" /\ UNCHANGED <<todo, tests>>
BY DEF Conclude, ReturnVerdict, CountTest, FinishBatch

(* A call that is recorded, and a program that is.                         *)
LEMMA OneMore ==
  ASSUME NEW T, NEW s \in Seq(T), NEW e, NEW u, u = Extended(s, e)
  PROVE  /\ \E X : u \in Seq(X)
         /\ Len(u) = Len(s) + 1 /\ u[Len(u)] = e
         /\ \A n \in 1..Len(s) : u[n] = s[n]
<1> DEFINE X == T \cup {e}
<1>1. s \in Seq(X) /\ e \in X
  <2>1. \A i \in 1..Len(s) : s[i] \in X
    BY ElementOfSeq
  <2>2. s \in Seq(X)
    BY <2>1, LenProperties, SeqDef
  <2> QED BY <2>2
<1> HIDE DEF X
<1>2. u \in Seq(X) /\ Len(u) = Len(s) + 1
  BY <1>1, AppendProperties DEF Extended
<1>3. u[Len(s) + 1] = e
  BY <1>1, AppendProperties DEF Extended
<1>4. \A n \in 1..Len(s) : u[n] = s[n]
  BY <1>1, AppendProperties DEF Extended
<1> QED BY <1>2, <1>3, <1>4

(* A call is added to those recorded.                                      *)
LEMMA CallIsRecorded ==
  ASSUME Recorded, NEW w, Record(w)
  PROVE  /\ \E T : builds' \in Seq(T)
         /\ Len(builds) \in Nat /\ Len(builds') = Len(builds) + 1
         /\ builds'[Len(builds')] =
              [source |-> command.source, args |-> command.args, output |-> command.output,
               written |-> w, program |-> NoFile]
         /\ \A n \in 1..Len(builds) : builds'[n] = builds[n]
<1>1. PICK T : builds \in Seq(T)
  BY DEF Recorded
<1> DEFINE e == [source |-> command.source, args |-> command.args, output |-> command.output,
                 written |-> w, program |-> NoFile]
<1>2. builds' = Extended(builds, e)
  BY DEF Record, Extended
<1>3. Len(builds) \in Nat
  BY <1>1, LenProperties
<1> HIDE DEF e
<1>4. /\ \E X : builds' \in Seq(X)
      /\ Len(builds') = Len(builds) + 1 /\ builds'[Len(builds')] = e
      /\ \A n \in 1..Len(builds) : builds'[n] = builds[n]
  BY <1>1, <1>2, OneMore
<1> QED BY <1>3, <1>4 DEF e

(* The program executed is noted with the last of them.                    *)
LEMMA ProgramIsRecorded ==
  ASSUME Recorded, Len(builds) > 0, NEW x,
         builds' = [builds EXCEPT ![Len(builds)].program = x]
  PROVE  /\ \E T : builds' \in Seq(T)
         /\ Len(builds) \in Nat /\ Len(builds') = Len(builds)
         /\ \A n \in 1..Len(builds) :
              /\ builds'[n].source = builds[n].source /\ builds'[n].args = builds[n].args
              /\ builds'[n].output = builds[n].output /\ builds'[n].written = builds[n].written
              /\ builds'[n].program = IF n = Len(builds) THEN x ELSE builds[n].program
              /\ IsBuild(builds'[n])
<1>1. PICK T : builds \in Seq(T)
  BY DEF Recorded
<1>2. Len(builds) \in Nat /\ DOMAIN builds = 1..Len(builds)
  BY <1>1, LenProperties
<1> DEFINE last == [builds[Len(builds)] EXCEPT !.program = x]
           X == T \cup {last}
<1>3. builds' = [builds EXCEPT ![Len(builds)] = last]
  OBVIOUS
<1>4. Len(builds) \in 1..Len(builds)
  BY <1>2
<1>5. IsBuild(builds[Len(builds)])
  BY <1>4 DEF Recorded
<1>6. /\ last.source = builds[Len(builds)].source /\ last.args = builds[Len(builds)].args
      /\ last.output = builds[Len(builds)].output /\ last.written = builds[Len(builds)].written
      /\ last.program = x /\ IsBuild(last)
  BY <1>5 DEF IsBuild
<1> HIDE DEF last
<1>7. builds = [n \in 1..Len(builds) |-> builds[n]]
  BY <1>1, <1>2
<1>8. builds' = [n \in 1..Len(builds) |-> IF n = Len(builds) THEN last ELSE builds[n]]
  BY <1>3, <1>7
<1>9. \A n \in 1..Len(builds) : builds[n] \in X /\ last \in X
  BY <1>1, ElementOfSeq
<1>10. builds' \in [1..Len(builds) -> X]
  BY <1>8, <1>9
<1>11. builds' \in Seq(X)
  BY <1>10, <1>2, SeqDef
<1>12. Len(builds') = Len(builds)
  BY <1>2, <1>8, <1>11, LenProperties
<1>13. \A n \in 1..Len(builds) : builds'[n] = IF n = Len(builds) THEN last ELSE builds[n]
  BY <1>8
<1>14. ASSUME NEW n \in 1..Len(builds)
       PROVE  /\ builds'[n].source = builds[n].source /\ builds'[n].args = builds[n].args
              /\ builds'[n].output = builds[n].output /\ builds'[n].written = builds[n].written
              /\ builds'[n].program = IF n = Len(builds) THEN x ELSE builds[n].program
              /\ IsBuild(builds'[n])
  <2>1. CASE n = Len(builds)
    BY <1>6, <1>13, <2>1
  <2>2. CASE n # Len(builds)
    <3>1. builds'[n] = builds[n] /\ IsBuild(builds[n])
      BY <1>13, <2>2 DEF Recorded
    <3> QED BY <3>1, <2>2
  <2> QED BY <2>1, <2>2
<1> QED BY <1>2, <1>11, <1>12, <1>14

LEMMA CallStays ==
  ASSUME UNCHANGED <<argv, options>>
  PROVE  UNCHANGED <<options.test_dir, CompilerArgs, OutputPath>>
BY DEF CompilerArgs, OutputPath, Parsed

LEMMA NoCommandIsEmpty == NoCommand.args = <<>>
<1> DEFINE built == [args |-> <<>>, output |-> ""]
<1>1. built.args = <<>>
  OBVIOUS
<1>2. NoCommand = Call("", built)
  BY DEF NoCommand
<1> HIDE DEF built
<1> QED BY <1>1, <1>2 DEF Call

(* What is prepared is a call.                                             *)
LEMMA BatchIsPrepared ==
  ASSUME Calls, Progress, PrepareTest
  PROVE  /\ pc = "run" /\ ~UnderWay /\ options.test_dir
         /\ sources # <<>> /\ command'.source = Head(sources) /\ sources' = Tail(sources)
         /\ IsCall(command'.source, command'.args, command'.output)
         /\ command' # NoCommand
         /\ disk' = IF writable
                    THEN [disk EXCEPT ![MakeTestOutputPath(command'.source)] = NoFile] ELSE disk
         /\ UNCHANGED <<vars, builds>>
<1>1. pc = "run" /\ ~UnderWay /\ options.test_dir /\ UNCHANGED <<vars, builds>>
  BY DEF PrepareTest, UnderWay
<1>2. sources \in Seq(SourceFiles) /\ Len(sources) \in Nat
  BY LenProperties DEF Calls
<1>3. sources # <<>>
  <2>1. Len(sources) > 0
    BY <1>1, <1>2 DEF Progress
  <2> QED BY <2>1, <1>2, EmptySeq
<1>4. Head(sources) \in SourceFiles
  BY <1>2, <1>3
<1> DEFINE source == Head(sources)
           b == BuildCompilerArguments(TestArgs(source, CompilerArgs), MakeTestOutputPath(source))
<1>5. /\ command' = Call(source, b) /\ sources' = Tail(sources)
      /\ disk' = IF writable THEN [disk EXCEPT ![MakeTestOutputPath(source)] = NoFile] ELSE disk
  BY DEF PrepareTest, TestArgs
<1>6. command'.source = source /\ command'.args = b.args /\ command'.output = b.output
  BY <1>5 DEF Call
<1>7. b.args # <<>>
  <2>1. TestArgs(source, CompilerArgs) \in Seq(Text)
    BY <1>4, CompilerArgsAreTyped, TestArgsAre DEF Calls, Line
  <2> QED BY <2>1, BuiltFits
<1> HIDE DEF b, source
<1>8. command' # NoCommand
  BY <1>6, <1>7, NoCommandIsEmpty
<1>9. IsCall(command'.source, command'.args, command'.output)
  BY <1>1, <1>4, <1>6 DEF IsCall, Made, b, source
<1> QED BY <1>1, <1>3, <1>5, <1>6, <1>8, <1>9 DEF source

LEMMA RunIsPrepared ==
  ASSUME Calls, PrepareRun
  PROVE  /\ pc = "run" /\ ~UnderWay /\ ~options.test_dir
         /\ IsCall(command'.source, command'.args, command'.output)
         /\ command' # NoCommand
         /\ UNCHANGED <<vars, sources, disk, builds>>
<1> DEFINE b == BuildCompilerArguments(CompilerArgs, OutputPath)
<1>1. command' = Call("", b) /\ pc = "run" /\ ~UnderWay /\ ~options.test_dir
  BY DEF PrepareRun, UnderWay
<1>2. command'.args = b.args /\ command'.output = b.output
  BY <1>1 DEF Call
<1>3. b.args # <<>>
  BY CompilerArgsAreTyped, BuiltFits DEF Calls, Line
<1>4. IsCall(command'.source, command'.args, command'.output)
  BY <1>1, <1>2 DEF IsCall, Made
<1> HIDE DEF b
<1>5. command' # NoCommand
  BY <1>2, <1>3, NoCommandIsEmpty
<1>6. UNCHANGED <<vars, sources, disk, builds>>
  BY DEF PrepareRun
<1> QED BY <1>1, <1>4, <1>5, <1>6

LEMMA DirectoriesAreWords == argv \in Seq(STRING) => Directories \in Seq(Text)
<1>1. argv \in Seq(STRING) => Parsed.given \in [ValueOptions -> Seq(Text)]
  BY LineIsTyped DEF Parsed, States
<1>2. "--test-dir" \in ValueOptions
  BY DEF ValueOptions, Repeatable
<1> QED BY <1>1, <1>2 DEF Directories

LEMMA SourcesAtStart ==
  ASSUME InvocationInit
  PROVE  /\ argv \in Seq(STRING) /\ Directories \in Seq(Text)
         /\ \E found \in Seq(SourceFiles) :
              FoundIn(Directories, Len(Directories), found) /\ sources = SourcesOf(found)
<1>1. argv \in Seq(STRING)
  BY InvocationAssumption DEF InvocationInit
<1>2. Directories \in Seq(Text)
  BY <1>1, DirectoriesAreWords
<1>3. PICK found \in Walked(Directories) : sources = SourcesOf(found)
  BY DEF InvocationInit
<1>4. FoundIn(Directories, Len(Directories), found)
  BY <1>2, WalkedAre
<1>5. found \in Seq(SourceFiles)
  BY <1>4 DEF FoundIn
<1> QED BY <1>1, <1>2, <1>3, <1>4, <1>5

LEMMA CallsStart ==
  ASSUME InvocationInit
  PROVE  Calls /\ Progress
<1>1. /\ argv \in Seq(STRING) /\ builds = <<>> /\ command = NoCommand /\ pc = "main"
      /\ tests = <<>> /\ (options.test_dir => todo = Len(sources))
  BY SourcesAtStart DEF InvocationInit, Init
<1>2. sources \in Seq(SourceFiles)
  BY SourcesAtStart, SourcesAre
<1>3. /\ options.test_dir <=> Directories # <<>>
      /\ options.forwarded_output = FindOutputArgument(CompilerArgs).present
  <2> DEFINE d == Directories # <<>>
             c == HasCompileOnlyAction(CompilerArgs)
             f == FindOutputArgument(CompilerArgs).present
             e == Parsed.given["-o"] # <<>>
             r == "--no-run" \notin Parsed.flags
             x == "--strict-test-exit" \in Parsed.flags
  <2>1. PICK o \in BOOLEAN :
          options = [args_ok |-> Parsed.ok, test_dir |-> d, output_dir_ok |-> o,
                     compile_only |-> c, forwarded_output |-> f, explicit_output |-> e,
                     run_program |-> r, strict_test_exit |-> x]
    BY DEF InvocationInit
  <2> HIDE DEF d, c, f, e, r, x
  <2>2. options.test_dir = d /\ options.forwarded_output = f
    BY <2>1
  <2> QED BY <2>2 DEF d, f
<1>4. Len(builds) = 0 /\ Len(tests) = 0 /\ Len(sources) \in Nat
  BY <1>1, <1>2, EmptySeq, LenProperties
<1>5. Recorded
  BY <1>1, <1>4 DEF Recorded
<1>6. Calls
  BY <1>1, <1>2, <1>3, <1>5 DEF Calls, Line, UnderWay
<1>7. Progress
  BY <1>1, <1>4 DEF Progress, UnderWay
<1> QED BY <1>6, <1>7

(* The facts about the line depend on nothing that changes.                *)
LEMMA LineIsKept ==
  ASSUME Line, UNCHANGED <<argv, options>>
  PROVE  Line'
BY DEF Line, Directories, Parsed, CompilerArgs

LEMMA RecordedIsKept ==
  ASSUME Recorded, UNCHANGED <<argv, options, builds>>
  PROVE  Recorded'
<1>1. /\ \E T : builds' \in Seq(T)
      /\ \A n \in 1..Len(builds) :
           IsBuild(builds[n]) /\ IsCall(builds[n].source, builds[n].args, builds[n].output)
  BY DEF Recorded
<1> QED BY <1>1, CallStays DEF Recorded, IsBuild, IsCall

LEMMA RecordedGrows ==
  ASSUME Recorded, UNCHANGED <<argv, options>>, NEW w, Record(w),
         IsCall(command.source, command.args, command.output)
  PROVE  Recorded'
<1> DEFINE last == [source |-> command.source, args |-> command.args, output |-> command.output,
                    written |-> w, program |-> NoFile]
<1>1. /\ \E T : builds' \in Seq(T)
      /\ Len(builds) \in Nat /\ Len(builds') = Len(builds) + 1 /\ builds'[Len(builds')] = last
      /\ \A n \in 1..Len(builds) : builds'[n] = builds[n]
  BY CallIsRecorded
<1>2. /\ IsBuild(last) /\ last.source = command.source /\ last.args = command.args
      /\ last.output = command.output
  BY DEF IsBuild
<1> HIDE DEF last
<1>3. \A n \in 1..Len(builds') : n \in 1..Len(builds) \/ n = Len(builds')
  BY <1>1
<1>4. \A n \in 1..Len(builds') :
        IsBuild(builds'[n]) /\ IsCall(builds'[n].source, builds'[n].args, builds'[n].output)
  BY <1>1, <1>2, <1>3 DEF Recorded
<1> QED BY <1>1, <1>4, CallStays DEF Recorded, IsBuild, IsCall

LEMMA RecordedFills ==
  ASSUME Recorded, UNCHANGED <<argv, options>>, Len(builds) > 0, NEW x,
         builds' = [builds EXCEPT ![Len(builds)].program = x]
  PROVE  Recorded'
<1>1. /\ \E T : builds' \in Seq(T)
      /\ Len(builds) \in Nat /\ Len(builds') = Len(builds)
      /\ \A n \in 1..Len(builds) :
           /\ builds'[n].source = builds[n].source /\ builds'[n].args = builds[n].args
           /\ builds'[n].output = builds[n].output /\ IsBuild(builds'[n])
  BY ProgramIsRecorded
<1>2. \A n \in 1..Len(builds') :
        IsBuild(builds'[n]) /\ IsCall(builds'[n].source, builds'[n].args, builds'[n].output)
  BY <1>1 DEF Recorded
<1> QED BY <1>1, <1>2, CallStays DEF Recorded, IsBuild, IsCall

LEMMA CallsNext == Calls /\ Progress /\ [InvocationNext]_invocationVars => Calls'
<1> SUFFICES ASSUME Calls, Progress, [InvocationNext]_invocationVars
             PROVE  Calls'
  OBVIOUS
<1>1. UNCHANGED <<argv, options>> /\ Line'
  BY LineStays, LineIsKept DEF Calls
<1>2. Recorded /\ sources \in Seq(SourceFiles)
  BY DEF Calls
<1>3. CASE PrintHelp \/ Begin
  <2>1. /\ UNCHANGED <<sources, command, builds>> /\ pc = "main" /\ pc' \in {"run", "exited"}
    BY <1>3, MainMoves
  <2>2. Recorded'
    BY <1>1, <1>2, <2>1, RecordedIsKept
  <2> QED BY <1>1, <1>2, <2>1, <2>2 DEF Calls, UnderWay
<1>4. CASE PrepareTest
  <2>1. /\ pc = "run" /\ sources # <<>> /\ sources' = Tail(sources)
        /\ IsCall(command'.source, command'.args, command'.output)
        /\ UNCHANGED <<vars, builds>>
    BY <1>4, BatchIsPrepared
  <2>2. sources' \in Seq(SourceFiles)
    BY <1>2, <2>1
  <2>3. Recorded'
    BY <1>1, <1>2, <2>1, RecordedIsKept
  <2>4. pc' = "run"
    BY <2>1 DEF vars
  <2> QED BY <1>1, <2>1, <2>2, <2>3, <2>4, CallStays DEF Calls, IsCall
<1>5. CASE PrepareRun
  <2>1. /\ pc = "run" /\ IsCall(command'.source, command'.args, command'.output)
        /\ UNCHANGED <<vars, sources, builds>>
    BY <1>5, RunIsPrepared
  <2>2. Recorded'
    BY <1>1, <1>2, <2>1, RecordedIsKept
  <2>3. pc' = "run"
    BY <2>1 DEF vars
  <2> QED BY <1>1, <1>2, <2>1, <2>2, <2>3, CallStays DEF Calls, IsCall
<1>6. CASE Refused \/ Compiled
  <2>1. /\ pc' \in {"execute", "ran"} /\ UnderWay /\ UNCHANGED <<sources, command>>
        /\ \E w : Record(w)
    BY <1>6, CompilerMoves DEF Writes, WritesNothing
  <2>2. PICK w : Record(w)
    BY <2>1
  <2>3. IsCall(command.source, command.args, command.output)
    BY <2>1 DEF Calls
  <2>4. Recorded'
    BY <1>1, <1>2, <2>2, <2>3, RecordedGrows
  <2>5. /\ Len(builds') > 0 /\ builds'[Len(builds')].source = command.source
        /\ builds'[Len(builds')].args = command.args
        /\ builds'[Len(builds')].output = command.output
    <3> DEFINE last(w_) == [source |-> command.source, args |-> command.args,
                            output |-> command.output, written |-> w_, program |-> NoFile]
    <3>1. /\ Len(builds) \in Nat /\ Len(builds') = Len(builds) + 1
          /\ builds'[Len(builds')] = last(w)
      BY <1>2, <2>2, CallIsRecorded
    <3>2. /\ last(w).source = command.source /\ last(w).args = command.args
          /\ last(w).output = command.output
      OBVIOUS
    <3> HIDE DEF last
    <3> QED BY <3>1, <3>2
  <2>6. IsCall(command.source, command.args, command.output)'
    BY <1>1, <2>1, <2>3, CallStays DEF IsCall
  <2> QED BY <1>1, <1>2, <2>1, <2>4, <2>5, <2>6 DEF Calls, UnderWay
<1>7. CASE Run
  <2>1. /\ pc = "execute" /\ pc' \in {"parse", "ran"} /\ UNCHANGED <<sources, command>>
        /\ \/ UNCHANGED builds
           \/ builds' = [builds EXCEPT ![Len(builds)].program = disk[command.output]]
    BY <1>7, ProgramMoves
  <2>2. /\ UnderWay /\ Len(builds) > 0 /\ builds[Len(builds)].source = command.source
        /\ builds[Len(builds)].args = command.args
        /\ builds[Len(builds)].output = command.output
        /\ IsCall(command.source, command.args, command.output)
    BY <2>1 DEF Calls
  <2>3. /\ Recorded' /\ Len(builds') > 0 /\ builds'[Len(builds')].source = command.source
        /\ builds'[Len(builds')].args = command.args
        /\ builds'[Len(builds')].output = command.output
    <3>1. CASE UNCHANGED builds
      BY <1>1, <1>2, <2>2, <3>1, RecordedIsKept
    <3>2. CASE builds' = [builds EXCEPT ![Len(builds)].program = disk[command.output]]
      <4>1. Recorded'
        BY <1>1, <1>2, <2>2, <3>2, RecordedFills
      <4>2. /\ Len(builds) \in Nat /\ Len(builds') = Len(builds)
            /\ \A n \in 1..Len(builds) :
                 /\ builds'[n].source = builds[n].source /\ builds'[n].args = builds[n].args
                 /\ builds'[n].output = builds[n].output
        BY <1>2, <2>2, <3>2, ProgramIsRecorded
      <4>3. Len(builds) \in 1..Len(builds)
        BY <2>2, <4>2
      <4> QED BY <2>2, <4>1, <4>2, <4>3
    <3> QED BY <2>1, <3>1, <3>2
  <2>4. IsCall(command.source, command.args, command.output)'
    BY <1>1, <2>1, <2>2, CallStays DEF IsCall
  <2> QED BY <1>1, <1>2, <2>1, <2>2, <2>3, <2>4 DEF Calls, UnderWay
<1>8. CASE Return
  <2>1. /\ pc = "parse" /\ pc' = "ran" /\ UNCHANGED <<sources, command, builds>>
    BY <1>8, ProgramMoves
  <2>2. Recorded'
    BY <1>1, <1>2, <2>1, RecordedIsKept
  <2>3. UnderWay => IsCall(command.source, command.args, command.output)'
    BY <1>1, <2>1, CallStays DEF Calls, IsCall
  <2> QED BY <1>1, <1>2, <2>1, <2>2, <2>3 DEF Calls, UnderWay
<1>9. CASE Conclude
  <2>1. /\ command' = NoCommand /\ UNCHANGED <<sources, builds>>
        /\ pc' \in {"exited", "run", "finish"}
    BY <1>9, EndMoves
  <2>2. Recorded'
    BY <1>1, <1>2, <2>1, RecordedIsKept
  <2> QED BY <1>1, <1>2, <2>1, <2>2 DEF Calls, UnderWay
<1>10. CASE UNCHANGED invocationVars
  <2>1. UNCHANGED <<pc, sources, command, builds>>
    BY <1>10 DEF invocationVars, vars
  <2>2. Recorded'
    BY <1>1, <1>2, <2>1, RecordedIsKept
  <2>3. UnderWay => IsCall(command.source, command.args, command.output)'
    BY <1>1, <2>1, CallStays DEF Calls, IsCall
  <2> QED BY <1>1, <1>2, <2>1, <2>2, <2>3 DEF Calls, UnderWay
<1> QED BY <1>3, <1>4, <1>5, <1>6, <1>7, <1>8, <1>9, <1>10 DEF InvocationNext, Stay

LEMMA TestIsAdded ==
  ASSUME NEW T, NEW s \in Seq(T), NEW e
  PROVE  /\ \E X : Append(s, e) \in Seq(X)
         /\ Len(Append(s, e)) = Len(s) + 1
<1>1. Extended(s, e) = Append(s, e)
  BY DEF Extended
<1>2. (\E X : Extended(s, e) \in Seq(X)) /\ Len(Extended(s, e)) = Len(s) + 1
  BY OneMore
<1> QED BY <1>1, <1>2

LEMMA ProgressNext == Calls /\ Progress /\ [InvocationNext]_invocationVars => Progress'
<1> SUFFICES ASSUME Calls, Progress, [InvocationNext]_invocationVars, options.test_dir
             PROVE  /\ todo' = Len(sources') + (IF UnderWay' THEN 1 ELSE 0)
                    /\ \E T : tests' \in Seq(T)
                    /\ Len(tests') = Len(builds')
                                       - (IF pc' \in {"execute", "parse", "ran"} THEN 1 ELSE 0)
                    /\ pc' = "main" => tests' = <<>>
                    /\ pc' = "run" => todo' > 0
                    /\ pc' = "finish" => todo' = 0
                    /\ pc' = "exited" => todo' = 0 \/ tests' = <<>>
  BY LineStays DEF Progress
<1>1. /\ Len(sources) \in Nat /\ todo = Len(sources) + (IF UnderWay THEN 1 ELSE 0)
      /\ \E T : tests \in Seq(T)
      /\ Len(tests) = Len(builds) - (IF pc \in {"execute", "parse", "ran"} THEN 1 ELSE 0)
      /\ pc = "main" => tests = <<>>
      /\ pc = "run" => todo > 0
      /\ pc = "finish" => todo = 0
      /\ pc = "exited" => todo = 0 \/ tests = <<>>
  BY LenProperties DEF Progress, Calls
<1>2. /\ Recorded /\ sources \in Seq(SourceFiles)
      /\ pc \in {"execute", "parse", "ran"} => UnderWay /\ Len(builds) > 0
      /\ pc \in {"main", "finish", "exited"} => ~UnderWay
  BY DEF Calls
<1>3. CASE PrintHelp \/ Begin
  <2>1. /\ UNCHANGED <<todo, tests, sources, command, builds>>
        /\ pc = "main" /\ pc' \in {"run", "exited"} /\ (pc' = "run" => todo > 0)
    BY <1>3, MainMoves
  <2> QED BY <1>1, <1>2, <2>1 DEF UnderWay
<1>4. CASE PrepareTest
  <2>1. /\ pc = "run" /\ ~UnderWay /\ sources # <<>> /\ sources' = Tail(sources) /\ UnderWay'
        /\ UNCHANGED <<pc, todo, tests, builds>>
    BY <1>4, BatchIsPrepared DEF vars, UnderWay
  <2>2. Len(sources') = Len(sources) - 1
    BY <1>2, <2>1
  <2> QED BY <1>1, <2>1, <2>2
<1>5. ~PrepareRun
  BY DEF PrepareRun
<1>6. CASE Refused \/ Compiled
  <2>1. /\ pc = "run" /\ pc' \in {"execute", "ran"} /\ UNCHANGED <<todo, tests, sources, command>>
        /\ \E w : Record(w)
    BY <1>6, CompilerMoves DEF Writes, WritesNothing
  <2>2. Len(builds) \in Nat /\ Len(builds') = Len(builds) + 1
    BY <1>2, <2>1, CallIsRecorded
  <2> QED BY <1>1, <2>1, <2>2 DEF UnderWay
<1>7. CASE Run
  <2>1. /\ pc = "execute" /\ pc' \in {"parse", "ran"} /\ UNCHANGED <<todo, tests, sources, command>>
        /\ \/ UNCHANGED builds
           \/ builds' = [builds EXCEPT ![Len(builds)].program = disk[command.output]]
    BY <1>7, ProgramMoves
  <2>2. Len(builds') = Len(builds)
    BY <1>2, <2>1, ProgramIsRecorded
  <2> QED BY <1>1, <2>1, <2>2 DEF UnderWay
<1>8. CASE Return
  <2>1. /\ pc = "parse" /\ pc' = "ran" /\ UNCHANGED <<todo, tests, sources, command, builds>>
    BY <1>8, ProgramMoves
  <2> QED BY <1>1, <2>1 DEF UnderWay
<1>9. CASE Conclude
  <2>1. command' = NoCommand /\ UNCHANGED <<sources, builds>> /\ ~UnderWay'
    BY <1>9, EndMoves DEF UnderWay
  <2>2. CASE /\ pc = "ran" /\ todo' = todo - 1 /\ pc' = IF todo' > 0 THEN "run" ELSE "finish"
             /\ tests' = Append(tests, Finished)
    <3>1. (\E T : tests' \in Seq(T)) /\ Len(tests') = Len(tests) + 1
      BY <1>1, <2>2, TestIsAdded
    <3>2. todo' = Len(sources')
      BY <1>1, <1>2, <2>1, <2>2
    <3>3. pc' = "run" => todo' > 0
      BY <2>2
    <3>4. pc' = "finish" => todo' = 0
      BY <1>1, <2>1, <2>2, <3>2
    <3>5. Len(builds) \in Nat
      BY <1>2, LenProperties DEF Recorded
    <3>6. Len(tests') = Len(builds')
      BY <1>1, <2>1, <2>2, <3>1, <3>5
    <3>7. pc' \in {"run", "finish"}
      BY <2>2
    <3> QED BY <2>1, <3>1, <3>2, <3>3, <3>4, <3>6, <3>7
  <2>3. CASE pc = "finish" /\ pc' = "exited" /\ UNCHANGED <<todo, tests>>
    BY <1>1, <1>2, <2>1, <2>3
  <2> QED BY <1>9, <2>2, <2>3, EndMoves
<1>10. CASE UNCHANGED invocationVars
  <2>1. UNCHANGED <<pc, todo, tests, sources, command, builds>>
    BY <1>10 DEF invocationVars, vars
  <2> QED BY <1>1, <2>1 DEF UnderWay
<1> QED BY <1>3, <1>4, <1>5, <1>6, <1>7, <1>8, <1>9, <1>10 DEF InvocationNext, Stay

(* The inductive invariant of the calls and of the progress of a batch.    *)
LEMMA CallsHold == InvocationSpec => [](Calls /\ Progress)
<1>1. InvocationInit => Calls /\ Progress
  BY CallsStart
<1>2. Calls /\ Progress /\ [InvocationNext]_invocationVars => (Calls /\ Progress)'
  BY CallsNext, ProgressNext
<1> QED BY <1>1, <1>2, PTL DEF InvocationSpec

(* Whatever words the compiler gets: where they name one output, the       *)
(* program that Run executes is the one the compiler was told to write.    *)
THEOREM WhatIsWrittenRuns == InvocationSpec => []RunsWhatIsWritten
<1>1. ASSUME Calls, NEW n \in DOMAIN builds,
             Cardinality({i \in DOMAIN builds[n].args : builds[n].args[i] \in OutputWords}) = 1
      PROVE  builds[n].output = CompilerOutput(builds[n].args)
  <2>1. n \in 1..Len(builds) /\ Cardinality(OutputPlaces(builds[n].args)) = 1
    BY <1>1, LenProperties DEF Calls, Recorded, OutputPlaces
  <2>2. Made(options.test_dir, CompilerArgs, OutputPath,
             builds[n].source, builds[n].args, builds[n].output)
    BY <1>1, <2>1 DEF Calls, Recorded, IsCall
  <2>3. CompilerArgs \in Seq(Text)
    BY <1>1, CompilerArgsAreTyped DEF Calls, Line
  <2>4. \A source \in SourceFiles : TestArgs(source, CompilerArgs) \in Seq(Text)
    BY <2>3, TestArgsAre
  <2>5. \A words \in Seq(Text) : \A path :
          LET b == BuildCompilerArguments(words, path)
          IN  Cardinality(OutputPlaces(b.args)) = 1 => b.output = CompilerOutput(b.args)
    BY BuiltFits
  <2> QED BY <2>1, <2>2, <2>3, <2>4, <2>5 DEF Made
<1>2. Calls => RunsWhatIsWritten
  BY <1>1 DEF RunsWhatIsWritten
<1> QED BY <1>2, CallsHold, PTL

-----------------------------------------------------------------------------
(* The programs on the disk.                                               *)

(* In a batch whose arguments name no output, the compiler is told to      *)
(* write to the path of the source.                                        *)
LEMMA PlainCall ==
  ASSUME Line, options.test_dir, ~options.forwarded_output,
         NEW source, NEW args, NEW output, IsCall(source, args, output)
  PROVE  /\ source \in SourceFiles /\ output = MakeTestOutputPath(source)
         /\ CompilerOutput(args) = output
<1>1. Made(options.test_dir, CompilerArgs, OutputPath, source, args, output)
  BY DEF IsCall
<1>2. /\ source \in SourceFiles
      /\ LET b == BuildCompilerArguments(TestArgs(source, CompilerArgs),
                                         MakeTestOutputPath(source))
         IN  args = b.args /\ output = b.output
  BY <1>1 DEF Made
<1>3. CompilerArgs \in Seq(Text)
  BY CompilerArgsAreTyped DEF Line
<1>4. OutputPlaces(CompilerArgs) = {}
  <2>1. ~FindOutputArgument(CompilerArgs).present
    BY DEF Line
  <2> QED BY <2>1 DEF FindOutputArgument, OutputPlaces
<1>5. LET b == BuildCompilerArguments(TestArgs(source, CompilerArgs), MakeTestOutputPath(source))
      IN  b.output = MakeTestOutputPath(source) /\ CompilerOutput(b.args) = MakeTestOutputPath(source)
  BY <1>2, <1>3, <1>4, BatchCall
<1> QED BY <1>2, <1>5

(* Two sources with one path are one file: the digest tells others apart.  *)
LEMMA SamePathSameFile ==
  ASSUME NEW f \in SourceFiles, NEW g \in SourceFiles,
         MakeTestOutputPath(f) = MakeTestOutputPath(g)
  PROVE  Relative[f] = Relative[g]
BY CompilerArgumentsAssumption DEF MakeTestOutputPath

PathsAreThere == \A f \in SourceFiles : MakeTestOutputPath(f) \in DOMAIN disk

LEMMA PathsAtStart == InvocationInit => PathsAreThere
<1> SUFFICES ASSUME InvocationInit, NEW f \in SourceFiles
             PROVE  MakeTestOutputPath(f) \in DOMAIN disk
  BY DEF PathsAreThere
<1>1. DOMAIN disk = Paths
  BY DEF InvocationInit
<1>2. MakeTestOutputPath(f) \in Paths
  BY DEF Paths
<1> QED BY <1>1, <1>2

LEMMA PathsStay == PathsAreThere /\ [InvocationNext]_invocationVars => PathsAreThere'
<1> SUFFICES ASSUME PathsAreThere, [InvocationNext]_invocationVars
             PROVE  DOMAIN disk' = DOMAIN disk
  BY DEF PathsAreThere
<1>1. CASE PrintHelp \/ Begin \/ Run \/ Return \/ Conclude \/ UNCHANGED invocationVars
  BY <1>1, MainMoves, ProgramMoves, EndMoves DEF invocationVars
<1>2. CASE PrepareTest \/ PrepareRun
  BY <1>2 DEF PrepareTest, PrepareRun
<1>3. CASE Refused \/ Compiled
  BY <1>3, CompilerMoves DEF Writes, WritesNothing
<1> QED BY <1>1, <1>2, <1>3 DEF InvocationNext, Stay

(* While the compiler is called, the path of a test is empty; when it has  *)
(* returned, there is what this call wrote or nothing.                     *)
Own ==
  options.test_dir /\ writable =>
    /\ \A n \in 1..Len(builds) : builds[n].program \in {NoFile, n}
    /\ pc = "run" /\ UnderWay /\ ~options.forwarded_output => disk[command.output] = NoFile
    /\ pc = "execute" => disk[command.output] \in {NoFile, Len(builds)}

LEMMA OwnNext ==
  Calls /\ Progress /\ PathsAreThere /\ Own /\ [InvocationNext]_invocationVars => Own'
<1> SUFFICES ASSUME Calls, Progress, PathsAreThere, Own, [InvocationNext]_invocationVars,
                    options.test_dir, writable
             PROVE  /\ \A n \in 1..Len(builds') : builds'[n].program \in {NoFile, n}
                    /\ pc' = "run" /\ UnderWay' /\ ~options.forwarded_output =>
                         disk'[command'.output] = NoFile
                    /\ pc' = "execute" => disk'[command'.output] \in {NoFile, Len(builds')}
  BY LineStays DEF Own
<1>1. /\ \A n \in 1..Len(builds) : builds[n].program \in {NoFile, n}
      /\ pc = "run" /\ UnderWay /\ ~options.forwarded_output => disk[command.output] = NoFile
      /\ pc = "execute" => disk[command.output] \in {NoFile, Len(builds)}
  BY DEF Own
<1>2. Line /\ Recorded
  BY DEF Calls
<1>3. CASE PrintHelp \/ Begin
  <2>1. /\ UNCHANGED <<disk, command, builds>> /\ pc = "main" /\ pc' \in {"run", "exited"}
    BY <1>3, MainMoves
  <2> QED BY <1>1, <2>1 DEF Calls, UnderWay
<1>4. CASE PrepareTest
  <2>1. /\ pc = "run" /\ IsCall(command'.source, command'.args, command'.output)
        /\ disk' = [disk EXCEPT ![MakeTestOutputPath(command'.source)] = NoFile]
        /\ UNCHANGED <<pc, builds>>
    BY <1>4, BatchIsPrepared DEF vars
  <2>2. ASSUME ~options.forwarded_output
        PROVE  disk'[command'.output] = NoFile
    <3>1. command'.source \in SourceFiles /\ command'.output = MakeTestOutputPath(command'.source)
      BY <1>2, <2>1, <2>2, PlainCall
    <3> QED BY <2>1, <3>1 DEF PathsAreThere
  <2> QED BY <1>1, <2>1, <2>2
<1>5. ~PrepareRun
  BY DEF PrepareRun
<1>6. CASE Refused \/ Compiled
  <2>1. /\ pc = "run" /\ UnderWay /\ pc' \in {"execute", "ran"} /\ UNCHANGED command
        /\ \E w : Record(w)
    BY <1>6, CompilerMoves DEF Writes, WritesNothing
  <2>2. PICK w : Record(w)
    BY <2>1
  <2>3. /\ Len(builds) \in Nat /\ Len(builds') = Len(builds) + 1
        /\ \A n \in 1..Len(builds) : builds'[n] = builds[n]
        /\ builds'[Len(builds')].program = NoFile
    <3> DEFINE last == [source |-> command.source, args |-> command.args,
                        output |-> command.output, written |-> w, program |-> NoFile]
    <3>1. /\ Len(builds) \in Nat /\ Len(builds') = Len(builds) + 1
          /\ \A n \in 1..Len(builds) : builds'[n] = builds[n]
          /\ builds'[Len(builds')] = last
      BY <1>2, <2>2, CallIsRecorded
    <3>2. last.program = NoFile
      OBVIOUS
    <3> HIDE DEF last
    <3> QED BY <3>1, <3>2
  <2>4. \A n \in 1..Len(builds') : n \in 1..Len(builds) \/ n = Len(builds')
    BY <2>3
  <2>5. \A n \in 1..Len(builds') : builds'[n].program \in {NoFile, n}
    BY <1>1, <2>3, <2>4
  <2>6. ASSUME pc' = "execute"
        PROVE  disk'[command'.output] \in {NoFile, Len(builds')}
    <3>1. ~options.forwarded_output /\ (Writes \/ WritesNothing)
      BY <1>6, <2>6, CompilerMoves DEF OutputTwice
    <3>2. /\ command.source \in SourceFiles /\ command.output = MakeTestOutputPath(command.source)
          /\ CompilerOutput(command.args) = command.output
      BY <1>2, <2>1, <3>1, PlainCall DEF Calls
    <3>3. CASE Writes
      <4>1. disk' = [disk EXCEPT ![command.output] = Len(builds) + 1]
        BY <3>2, <3>3 DEF Writes
      <4> QED BY <2>1, <2>3, <3>2, <4>1 DEF PathsAreThere
    <3>4. CASE WritesNothing
      BY <1>1, <2>1, <3>1, <3>4 DEF WritesNothing
    <3> QED BY <3>1, <3>3, <3>4
  <2> QED BY <2>1, <2>5, <2>6
<1>7. CASE Run
  <2>1. /\ pc = "execute" /\ pc' \in {"parse", "ran"}
        /\ \/ UNCHANGED builds
           \/ builds' = [builds EXCEPT ![Len(builds)].program = disk[command.output]]
    BY <1>7, ProgramMoves
  <2>2. CASE builds' = [builds EXCEPT ![Len(builds)].program = disk[command.output]]
    <3>1. Len(builds) > 0
      BY <2>1 DEF Calls
    <3>2. /\ Len(builds') = Len(builds)
          /\ \A n \in 1..Len(builds) :
               builds'[n].program = IF n = Len(builds) THEN disk[command.output]
                                    ELSE builds[n].program
      BY <1>2, <2>2, <3>1, ProgramIsRecorded
    <3> QED BY <1>1, <2>1, <3>2
  <2> QED BY <1>1, <2>1, <2>2
<1>8. CASE Return \/ Conclude
  <2>1. /\ UNCHANGED <<disk, builds>> /\ pc' # "execute"
        /\ pc' = "run" => ~UnderWay'
    BY <1>8, ProgramMoves, EndMoves DEF UnderWay
  <2> QED BY <1>1, <2>1
<1>9. CASE UNCHANGED invocationVars
  <2>1. UNCHANGED <<pc, disk, command, builds>>
    BY <1>9 DEF invocationVars, vars
  <2> QED BY <1>1, <2>1 DEF UnderWay
<1> QED BY <1>3, <1>4, <1>5, <1>6, <1>7, <1>8, <1>9 DEF InvocationNext, Stay

(* In a batch whose directory can be written to, a source never runs what  *)
(* an earlier invocation or another source left at its path.               *)
THEOREM OwnProgramRuns == InvocationSpec => []ProgramIsOwnBuild
<1>1. InvocationInit => Own
  <2>1. InvocationInit => builds = <<>> /\ pc = "main"
    BY DEF InvocationInit, Init
  <2> QED BY <2>1, EmptySeq DEF Own
<1>2. Calls /\ Own => ProgramIsOwnBuild
  <2>1. Calls => DOMAIN builds = 1..Len(builds)
    BY LenProperties DEF Calls, Recorded
  <2> QED BY <2>1 DEF Own, ProgramIsOwnBuild
<1> QED BY <1>1, <1>2, CallsHold, PathsAtStart, PathsStay, OwnNext, PTL DEF InvocationSpec

(* What was written for a file is at its path until the same file is       *)
(* tested again.                                                           *)
Replaced(n) ==
  \/ \E m \in 1..Len(builds) : m > n /\ Relative[builds[m].source] = Relative[builds[n].source]
  \/ pc = "run" /\ UnderWay /\ Relative[command.source] = Relative[builds[n].source]

Apart ==
  options.test_dir =>
    \A n \in 1..Len(builds) :
      builds[n].written =>
        /\ ~options.forwarded_output
        /\ disk[builds[n].output] = n \/ Replaced(n)

(* A program of a batch was only written where no output was forwarded.    *)
LEMMA WrittenIsPlain ==
  ASSUME Calls, Apart, options.test_dir, NEW n \in 1..Len(builds), builds[n].written
  PROVE  /\ ~options.forwarded_output /\ builds[n].source \in SourceFiles
         /\ builds[n].output = MakeTestOutputPath(builds[n].source)
<1>1. ~options.forwarded_output
  BY DEF Apart
<1>2. IsCall(builds[n].source, builds[n].args, builds[n].output) /\ Line
  BY DEF Calls, Recorded
<1> QED BY <1>1, <1>2, PlainCall

LEMMA ApartNext ==
  Calls /\ Progress /\ PathsAreThere /\ Apart /\ [InvocationNext]_invocationVars => Apart'
<1> SUFFICES ASSUME Calls, Progress, PathsAreThere, Apart, [InvocationNext]_invocationVars,
                    options.test_dir, NEW n \in 1..Len(builds'), builds'[n].written
             PROVE  /\ ~options.forwarded_output
                    /\ disk'[builds'[n].output] = n \/ Replaced(n)'
  BY LineStays DEF Apart
<1>1. /\ n \in 1..Len(builds) /\ builds[n].written =>
           /\ ~options.forwarded_output
           /\ disk[builds[n].output] = n \/ Replaced(n)
           /\ builds[n].source \in SourceFiles
           /\ builds[n].output = MakeTestOutputPath(builds[n].source)
      /\ Line /\ Recorded
  BY WrittenIsPlain DEF Apart, Calls
<1>2. CASE PrintHelp \/ Begin
  <2>1. /\ UNCHANGED <<disk, command, builds>> /\ pc = "main"
    BY <1>2, MainMoves
  <2> QED BY <1>1, <2>1 DEF Calls, UnderWay, Replaced
<1>3. CASE PrepareTest
  <2>1. /\ pc = "run" /\ ~UnderWay /\ UnderWay'
        /\ IsCall(command'.source, command'.args, command'.output)
        /\ disk' = IF writable
                   THEN [disk EXCEPT ![MakeTestOutputPath(command'.source)] = NoFile] ELSE disk
        /\ UNCHANGED <<pc, builds>>
    BY <1>3, BatchIsPrepared DEF vars, UnderWay
  <2>2. /\ ~options.forwarded_output /\ builds[n].source \in SourceFiles
        /\ builds[n].output = MakeTestOutputPath(builds[n].source)
        /\ disk[builds[n].output] = n \/ Replaced(n)
    BY <1>1, <2>1
  <2>3. command'.source \in SourceFiles
    BY <1>1, <2>1, <2>2, PlainCall
  <2>4. CASE MakeTestOutputPath(command'.source) = builds[n].output
    <3>1. Relative[command'.source] = Relative[builds[n].source]
      BY <2>2, <2>3, <2>4, SamePathSameFile
    <3> QED BY <2>1, <2>2, <3>1 DEF Replaced
  <2>5. CASE MakeTestOutputPath(command'.source) # builds[n].output
    <3>1. disk[builds[n].output] = n => disk'[builds[n].output] = n
      BY <2>1, <2>2, <2>5 DEF PathsAreThere
    <3>2. Replaced(n) => Replaced(n)'
      BY <2>1 DEF Replaced
    <3> QED BY <2>1, <2>2, <3>1, <3>2
  <2> QED BY <2>4, <2>5
<1>4. ~PrepareRun
  BY DEF PrepareRun
<1>5. CASE Refused \/ Compiled
  <2>1. /\ pc = "run" /\ UnderWay /\ pc' \in {"execute", "ran"} /\ UNCHANGED command
        /\ WritesNothing \/ (~OutputTwice /\ Writes)
    BY <1>5, CompilerMoves
  <2>2. PICK w : Record(w) /\ (w => ~OutputTwice /\ Writes) /\ (~w => UNCHANGED disk)
    BY <2>1 DEF Writes, WritesNothing
  <2>3. /\ Len(builds) \in Nat /\ Len(builds') = Len(builds) + 1
        /\ \A i \in 1..Len(builds) : builds'[i] = builds[i]
        /\ builds'[Len(builds')].written = w
        /\ builds'[Len(builds')].source = command.source
        /\ builds'[Len(builds')].output = command.output
    <3> DEFINE last == [source |-> command.source, args |-> command.args,
                        output |-> command.output, written |-> w, program |-> NoFile]
    <3>1. /\ Len(builds) \in Nat /\ Len(builds') = Len(builds) + 1
          /\ \A i \in 1..Len(builds) : builds'[i] = builds[i]
          /\ builds'[Len(builds')] = last
      BY <1>1, <2>2, CallIsRecorded
    <3>2. last.written = w /\ last.source = command.source /\ last.output = command.output
      OBVIOUS
    <3> HIDE DEF last
    <3> QED BY <3>1, <3>2
  <2>4. n \in 1..Len(builds) \/ n = Len(builds')
    BY <2>3
  <2>5. ASSUME ~options.forwarded_output
        PROVE  /\ command.source \in SourceFiles
               /\ command.output = MakeTestOutputPath(command.source)
               /\ w => disk' = [disk EXCEPT ![command.output] = Len(builds')]
    <3>1. /\ command.source \in SourceFiles
          /\ command.output = MakeTestOutputPath(command.source)
          /\ CompilerOutput(command.args) = command.output
      BY <1>1, <2>1, <2>5, PlainCall DEF Calls
    <3>2. w => disk' = [disk EXCEPT ![command.output] = Len(builds) + 1]
      BY <2>2, <3>1 DEF Writes
    <3> QED BY <2>3, <3>1, <3>2
  <2>6. CASE n \in 1..Len(builds)
    <3>1. /\ ~options.forwarded_output /\ builds[n].source \in SourceFiles
          /\ builds[n].output = MakeTestOutputPath(builds[n].source)
          /\ disk[builds[n].output] = n \/ Replaced(n)
      BY <1>1, <2>3, <2>6
    <3>2. Len(builds') \in 1..Len(builds') /\ Len(builds') > n
      BY <2>3, <2>6
    <3>3. CASE Relative[command.source] = Relative[builds[n].source]
      BY <2>3, <2>6, <3>1, <3>2, <3>3 DEF Replaced
    <3>4. CASE Relative[command.source] # Relative[builds[n].source]
      <4>1. command.output # builds[n].output
        BY <2>5, <3>1, <3>4, SamePathSameFile
      <4>2. disk'[builds[n].output] = disk[builds[n].output]
        BY <2>2, <2>5, <3>1, <4>1 DEF PathsAreThere
      <4>3. Replaced(n) => Replaced(n)'
        <5>1. \A m \in 1..Len(builds) : m \in 1..Len(builds') /\ builds'[m] = builds[m]
          BY <2>3
        <5> QED BY <2>3, <2>6, <3>4, <5>1 DEF Replaced
      <4> QED BY <2>3, <2>6, <3>1, <4>2, <4>3
    <3> QED BY <3>3, <3>4
  <2>7. CASE n = Len(builds')
    <3>1. w /\ ~options.forwarded_output
      BY <2>2, <2>3, <2>7 DEF OutputTwice
    <3>2. disk'[command.output] = Len(builds')
      BY <2>5, <3>1 DEF PathsAreThere
    <3> QED BY <2>3, <2>7, <3>1, <3>2
  <2> QED BY <2>4, <2>6, <2>7
<1>6. CASE Run
  <2>1. /\ pc = "execute" /\ UNCHANGED disk
        /\ \/ UNCHANGED builds
           \/ builds' = [builds EXCEPT ![Len(builds)].program = disk[command.output]]
    BY <1>6, ProgramMoves
  <2>2. /\ Len(builds') = Len(builds)
        /\ \A i \in 1..Len(builds) :
             /\ builds'[i].source = builds[i].source /\ builds'[i].written = builds[i].written
             /\ builds'[i].output = builds[i].output
    <3>1. Len(builds) > 0
      BY <2>1 DEF Calls
    <3> QED BY <1>1, <2>1, <3>1, ProgramIsRecorded
  <2>3. Replaced(n) => Replaced(n)'
    BY <2>1, <2>2 DEF Replaced
  <2> QED BY <1>1, <2>1, <2>2, <2>3
<1>7. CASE Return \/ Conclude
  <2>1. UNCHANGED <<disk, builds>> /\ pc # "run"
    BY <1>7, ProgramMoves, EndMoves
  <2> QED BY <1>1, <2>1 DEF Replaced
<1>8. CASE UNCHANGED invocationVars
  <2>1. UNCHANGED <<pc, disk, command, builds>>
    BY <1>8 DEF invocationVars, vars
  <2> QED BY <1>1, <2>1 DEF UnderWay, Replaced
<1> QED BY <1>2, <1>3, <1>4, <1>5, <1>6, <1>7, <1>8 DEF InvocationNext, Stay

(* Whatever the sources are called: the program that was built for one is  *)
(* at its path when the batch ends, or a later one of the same file.       *)
THEOREM ProgramsStayApart == InvocationSpec => []ProgramsAreSeparate
<1>1. InvocationInit => Apart
  <2>1. InvocationInit => builds = <<>>
    BY DEF InvocationInit
  <2> QED BY <2>1, EmptySeq DEF Apart
<1>2. Calls /\ Apart => ProgramsAreSeparate
  <2>1. Calls => DOMAIN builds = 1..Len(builds)
    BY LenProperties DEF Calls, Recorded
  <2> QED BY <2>1 DEF Apart, Replaced, ProgramsAreSeparate
<1> QED BY <1>1, <1>2, CallsHold, PathsAtStart, PathsStay, ApartNext, PTL DEF InvocationSpec

-----------------------------------------------------------------------------
(* The sources of a batch.                                                 *)

(* The sources that were found are taken in their order: the recorded      *)
(* calls are of the first of them, then comes the one under way, and the   *)
(* others are left.                                                        *)
TakenFrom(all) ==
  /\ Len(all) = Len(builds) + Len(sources) + (IF pc = "run" /\ UnderWay THEN 1 ELSE 0)
  /\ \A i \in 1..Len(sources) : sources[i] = all[Len(all) - Len(sources) + i]
  /\ \A n \in 1..Len(builds) : builds[n].source = all[n]
  /\ UnderWay => command.source = all[Len(all) - Len(sources)]

InOrder ==
  options.test_dir =>
    \E found \in Seq(SourceFiles) :
      FoundIn(Directories, Len(Directories), found) /\ TakenFrom(SourcesOf(found))

LEMMA InOrderAtStart == InvocationInit => InOrder
<1> SUFFICES ASSUME InvocationInit
             PROVE  InOrder
  OBVIOUS
<1>1. PICK found \in Seq(SourceFiles) :
        FoundIn(Directories, Len(Directories), found) /\ sources = SourcesOf(found)
  BY SourcesAtStart
<1>2. builds = <<>> /\ ~UnderWay
  BY DEF InvocationInit, UnderWay
<1>3. Len(builds) = 0 /\ Len(sources) \in Nat
  BY <1>1, <1>2, SourcesAre, EmptySeq, LenProperties
<1>4. TakenFrom(sources)
  BY <1>2, <1>3 DEF TakenFrom
<1> QED BY <1>1, <1>4 DEF InOrder

(* The sources are taken one after the other from those that were found.   *)
LEMMA TakenNext ==
  ASSUME Calls, Progress, [InvocationNext]_invocationVars, options.test_dir,
         NEW all, TakenFrom(all)
  PROVE  TakenFrom(all)'
<1>1. /\ Len(all) = Len(builds) + Len(sources) + (IF pc = "run" /\ UnderWay THEN 1 ELSE 0)
      /\ \A i \in 1..Len(sources) : sources[i] = all[Len(all) - Len(sources) + i]
      /\ \A n \in 1..Len(builds) : builds[n].source = all[n]
      /\ UnderWay => command.source = all[Len(all) - Len(sources)]
  BY DEF TakenFrom
<1>2. Recorded /\ sources \in Seq(SourceFiles) /\ Len(sources) \in Nat /\ Len(builds) \in Nat
  BY LenProperties DEF Calls, Recorded
<1>3. CASE PrintHelp \/ Begin
  <2>1. UNCHANGED <<sources, command, builds>> /\ pc = "main" /\ ~UnderWay
    BY <1>3, MainMoves DEF Calls
  <2> QED BY <1>1, <2>1 DEF TakenFrom, UnderWay
<1>4. CASE PrepareTest
  <2>1. /\ pc = "run" /\ ~UnderWay /\ UnderWay'
        /\ sources # <<>> /\ command'.source = Head(sources) /\ sources' = Tail(sources)
        /\ UNCHANGED <<pc, builds>>
    BY <1>4, BatchIsPrepared DEF vars, UnderWay
  <2>2. /\ Len(sources) > 0 /\ Len(sources') = Len(sources) - 1
        /\ \A i \in 1..Len(sources') : sources'[i] = sources[i + 1]
        /\ command'.source = sources[1]
    BY <1>2, <2>1
  <2>3. \A i \in 1..Len(sources') : sources'[i] = all[Len(all) - Len(sources') + i]
    <3>1. ASSUME NEW i \in 1..Len(sources')
          PROVE  sources'[i] = all[Len(all) - Len(sources') + i]
      <4>1. i + 1 \in 1..Len(sources)
        BY <1>2, <2>2
      <4>2. Len(all) - Len(sources) + (i + 1) = Len(all) - Len(sources') + i
        BY <1>1, <1>2, <2>2
      <4> QED BY <1>1, <2>2, <4>1, <4>2
    <3> QED BY <3>1
  <2>4. command'.source = all[Len(all) - Len(sources')]
    <3>1. 1 \in 1..Len(sources) /\ Len(all) - Len(sources) + 1 = Len(all) - Len(sources')
      BY <1>1, <1>2, <2>2
    <3> QED BY <1>1, <2>2, <3>1
  <2>5. Len(all) = Len(builds') + Len(sources') + (IF pc' = "run" /\ UnderWay' THEN 1 ELSE 0)
    BY <1>1, <1>2, <2>1, <2>2
  <2> QED BY <1>1, <2>1, <2>3, <2>4, <2>5 DEF TakenFrom
<1>5. ~PrepareRun
  BY DEF PrepareRun
<1>6. CASE Refused \/ Compiled
  <2>1. /\ pc = "run" /\ UnderWay /\ pc' \in {"execute", "ran"} /\ UNCHANGED <<sources, command>>
        /\ \E w : Record(w)
    BY <1>6, CompilerMoves DEF Writes, WritesNothing
  <2>2. /\ Len(builds') = Len(builds) + 1
        /\ \A i \in 1..Len(builds) : builds'[i] = builds[i]
        /\ builds'[Len(builds')].source = command.source
    <3> DEFINE last(w) == [source |-> command.source, args |-> command.args,
                           output |-> command.output, written |-> w, program |-> NoFile]
    <3>1. \E w : /\ Len(builds') = Len(builds) + 1
                 /\ \A i \in 1..Len(builds) : builds'[i] = builds[i]
                 /\ builds'[Len(builds')] = last(w)
      BY <1>2, <2>1, CallIsRecorded
    <3>2. \A w : last(w).source = command.source
      OBVIOUS
    <3> HIDE DEF last
    <3> QED BY <3>1, <3>2
  <2>3. Len(all) - Len(sources) = Len(builds')
    BY <1>1, <1>2, <2>1, <2>2
  <2>4. \A n \in 1..Len(builds') : n \in 1..Len(builds) \/ n = Len(builds')
    BY <1>2, <2>2
  <2>5. \A n \in 1..Len(builds') : builds'[n].source = all[n]
    BY <1>1, <2>1, <2>2, <2>3, <2>4
  <2>6. Len(all) = Len(builds') + Len(sources')
    BY <1>1, <1>2, <2>1, <2>2
  <2> QED BY <1>1, <1>2, <2>1, <2>2, <2>5, <2>6 DEF TakenFrom, UnderWay
<1>7. CASE Run
  <2>1. /\ pc = "execute" /\ pc' \in {"parse", "ran"} /\ UNCHANGED <<sources, command>>
        /\ \/ UNCHANGED builds
           \/ builds' = [builds EXCEPT ![Len(builds)].program = disk[command.output]]
    BY <1>7, ProgramMoves
  <2>2. /\ Len(builds') = Len(builds)
        /\ \A n \in 1..Len(builds) : builds'[n].source = builds[n].source
    <3>1. Len(builds) > 0
      BY <2>1 DEF Calls
    <3> QED BY <1>2, <2>1, <3>1, ProgramIsRecorded
  <2> QED BY <1>1, <2>1, <2>2 DEF TakenFrom, UnderWay
<1>8. CASE Return \/ Conclude
  <2>1. UNCHANGED <<sources, builds>> /\ (UnderWay' => UNCHANGED command) /\ pc # "run"
    BY <1>8, ProgramMoves, EndMoves DEF UnderWay
  <2>2. pc' = "run" => ~UnderWay'
    BY <1>8, ProgramMoves, EndMoves DEF UnderWay
  <2> QED BY <1>1, <2>1, <2>2 DEF TakenFrom, UnderWay
<1>9. CASE UNCHANGED invocationVars
  <2>1. UNCHANGED <<pc, sources, command, builds>>
    BY <1>9 DEF invocationVars, vars
  <2> QED BY <1>1, <2>1 DEF UnderWay, TakenFrom
<1> QED BY <1>3, <1>4, <1>5, <1>6, <1>7, <1>8, <1>9 DEF InvocationNext, Stay

LEMMA InOrderNext == Calls /\ Progress /\ InOrder /\ [InvocationNext]_invocationVars => InOrder'
<1> SUFFICES ASSUME Calls, Progress, InOrder, [InvocationNext]_invocationVars, options.test_dir
             PROVE  \E found \in Seq(SourceFiles) :
                      /\ FoundIn(Directories, Len(Directories), found)
                      /\ TakenFrom(SourcesOf(found))'
  BY LineStays DEF InOrder, Directories, Parsed
<1>1. PICK found \in Seq(SourceFiles) :
        FoundIn(Directories, Len(Directories), found) /\ TakenFrom(SourcesOf(found))
  BY DEF InOrder
<1>2. TakenFrom(SourcesOf(found))'
  BY <1>1, TakenNext
<1> QED BY <1>1, <1>2

(* At the end of a batch none of those found is left.                      *)
LEMMA AllAreTested ==
  ASSUME Calls, Progress, InOrder, options.test_dir, pc = "exited", Len(tests) > 0
  PROVE  LET tested == [n \in DOMAIN builds |-> builds[n].source]
         IN  /\ Len(tests) = Len(tested)
             /\ IsInjective(tested)
             /\ ToSet(tested) \subseteq GivenSources
             /\ AllReadable => ToSet(tested) = GivenSources
<1> DEFINE tested == [n \in DOMAIN builds |-> builds[n].source]
<1>1. PICK found \in Seq(SourceFiles) :
        FoundIn(Directories, Len(Directories), found) /\ TakenFrom(SourcesOf(found))
  BY DEF InOrder
<1> DEFINE all == SourcesOf(found)
<1>2. /\ all \in Seq(SourceFiles)
      /\ \A k, l \in DOMAIN all : all[k] = all[l] => k = l
      /\ \A k \in DOMAIN all : \E j \in DOMAIN found : all[k] = found[j]
      /\ \A j \in DOMAIN found : \E k \in DOMAIN all : all[k] = found[j]
  BY SourcesAre
<1>3. TakenFrom(all)
  BY <1>1
<1> HIDE DEF all
<1>4. Len(sources) = 0 /\ Len(tests) = Len(builds) /\ ~UnderWay
  <2>1. tests # <<>>
    BY EmptySeq
  <2>2. Len(sources) \in Nat /\ Len(builds) \in Nat /\ ~UnderWay
    BY LenProperties DEF Calls, Recorded
  <2> QED BY <2>1, <2>2 DEF Progress
<1>5. /\ DOMAIN builds = 1..Len(builds) /\ Len(builds) \in Nat /\ Len(all) = Len(builds)
      /\ DOMAIN all = 1..Len(all)
  <2>1. DOMAIN builds = 1..Len(builds) /\ Len(builds) \in Nat
    BY LenProperties DEF Calls, Recorded
  <2> QED BY <1>2, <1>3, <1>4, <2>1, LenProperties DEF TakenFrom
<1>6. tested = all
  <2>1. \A n \in 1..Len(builds) : builds[n].source = all[n]
    BY <1>3 DEF TakenFrom
  <2>2. all = [n \in 1..Len(all) |-> all[n]]
    BY <1>2, <1>5
  <2> QED BY <1>5, <2>1, <2>2
<1>7. IsInjective(all)
  BY <1>2 DEF IsInjective
<1>8. Directories \in Seq(Text) /\ DOMAIN Directories = 1..Len(Directories)
  BY DirectoriesAreWords, LenProperties DEF Calls, Line
<1>9. \A f : f \in GivenSources <=> \E i \in 1..Len(Directories) : f \in Under(Directories[i])
  BY <1>8 DEF Under, ToSet, GivenSources
<1>10. ToSet(all) \subseteq GivenSources
  <2>1. ASSUME NEW k \in DOMAIN all
        PROVE  all[k] \in GivenSources
    <3>1. PICK j \in DOMAIN found : all[k] = found[j]
      BY <1>2
    <3>2. \E i \in 1..Len(Directories) : found[j] \in Under(Directories[i])
      BY <1>1 DEF FoundIn
    <3> QED BY <1>9, <3>1, <3>2
  <2> QED BY <2>1 DEF ToSet
<1>11. ASSUME AllReadable, NEW f \in GivenSources
       PROVE  f \in ToSet(all)
  <2>1. \A i \in 1..Len(Directories) : Directories[i] \notin Unreadable
    BY <1>8, <1>11 DEF ToSet, AllReadable
  <2>2. PICK i \in 1..Len(Directories) : f \in Under(Directories[i])
    BY <1>9, <1>11
  <2>3. \E j \in DOMAIN found : found[j] = f
    BY <1>1, <2>1, <2>2 DEF FoundIn
  <2> QED BY <1>2, <2>3 DEF ToSet
<1>12. AllReadable => ToSet(all) = GivenSources
  BY <1>10, <1>11
<1> QED BY <1>4, <1>5, <1>6, <1>7, <1>10, <1>12

(* Whatever directories are given, and in whatever order the files are met *)
(* under them: a batch that runs tests each source that is there, once.    *)
THEOREM EachSourceIsTestedOnce == InvocationSpec => []EverySourceOnce
<1>1. Calls /\ Progress /\ InOrder => EverySourceOnce
  BY AllAreTested DEF EverySourceOnce
<1> QED BY <1>1, CallsHold, InOrderAtStart, InOrderNext, PTL DEF InvocationSpec

-----------------------------------------------------------------------------
(* What the status of a batch says.                                        *)

(* A program that was started was there.                                   *)
Executed ==
  /\ pc \in {"execute", "parse", "ran"} /\ fact.started => builds[Len(builds)].program # NoFile
  /\ options.test_dir =>
       \A n \in 1..Len(tests) : tests[n].fact.started => builds[n].program # NoFile

(* A program that was started is one: execv fails where there is none.     *)
LEMMA ExecutedNext == Calls /\ Progress /\ Executed /\ [InvocationNext]_invocationVars => Executed'
<1> SUFFICES ASSUME Calls, Progress, Executed, [InvocationNext]_invocationVars
             PROVE  Executed'
  OBVIOUS
<1>1. /\ pc \in {"execute", "parse", "ran"} /\ fact.started => builds[Len(builds)].program # NoFile
      /\ options.test_dir =>
           \A n \in 1..Len(tests) : tests[n].fact.started => builds[n].program # NoFile
  BY DEF Executed
<1>2. /\ Recorded /\ UNCHANGED options /\ Len(builds) \in Nat
      /\ options.test_dir =>
           /\ \E T : tests \in Seq(T)
           /\ Len(tests) = Len(builds) - (IF pc \in {"execute", "parse", "ran"} THEN 1 ELSE 0)
  BY LineStays, LenProperties DEF Calls, Progress, Recorded
<1>3. CASE PrintHelp \/ Begin
  <2>1. UNCHANGED <<tests, builds>> /\ pc' \in {"run", "exited"}
    BY <1>3, MainMoves
  <2> QED BY <1>1, <1>2, <2>1 DEF Executed
<1>4. CASE PrepareTest \/ PrepareRun
  <2>1. UNCHANGED <<pc, tests, builds>> /\ pc = "run"
    BY <1>4 DEF PrepareTest, PrepareRun, vars
  <2> QED BY <1>1, <1>2, <2>1 DEF Executed
<1>5. CASE Refused \/ Compiled
  <2>1. /\ pc = "run" /\ UNCHANGED tests /\ \E w : Record(w)
    BY <1>5, CompilerMoves DEF Writes, WritesNothing
  <2>2. ~fact'.started
    <3>1. fact' \in {FreshFact, [FreshFact EXCEPT !.built = TRUE]}
      BY <1>5
      DEF Refused, Compiled, RefuseRun, CompileFails, CompileOnly, Compile, Returns
    <3> QED BY <3>1 DEF FreshFact
  <2>3. \A n \in 1..Len(builds) : builds'[n] = builds[n]
    BY <1>2, <2>1, CallIsRecorded
  <2> QED BY <1>1, <1>2, <2>1, <2>2, <2>3 DEF Executed
<1>6. CASE Run
  <2>1. /\ pc = "execute" /\ UNCHANGED <<tests, disk, command>>
        /\ fact'.started => disk[command.output] # NoFile
        /\ builds' = IF fact'.started
                     THEN [builds EXCEPT ![Len(builds)].program = disk[command.output]]
                     ELSE builds
    BY <1>6, ProgramMoves DEF Run
  <2>2. CASE ~fact'.started
    BY <1>1, <1>2, <2>1, <2>2 DEF Executed
  <2>3. CASE fact'.started
    <3>1. Len(builds) > 0
      BY <2>1 DEF Calls
    <3>2. /\ Len(builds') = Len(builds)
          /\ \A n \in 1..Len(builds) :
               builds'[n].program = IF n = Len(builds) THEN disk[command.output]
                                    ELSE builds[n].program
      BY <1>2, <2>1, <2>3, <3>1, ProgramIsRecorded
    <3>3. Len(builds) \in 1..Len(builds)
      BY <1>2, <3>1
    <3>4. builds'[Len(builds')].program # NoFile
      BY <2>1, <2>3, <3>2, <3>3
    <3>5. options.test_dir =>
            \A n \in 1..Len(tests) : n \in 1..Len(builds) /\ n # Len(builds)
      BY <1>2, <2>1
    <3> QED BY <1>1, <1>2, <2>1, <3>2, <3>4, <3>5 DEF Executed
  <2> QED BY <2>2, <2>3
<1>7. CASE Return
  <2>1. UNCHANGED <<fact, tests, builds>> /\ pc = "parse"
    BY <1>7, ProgramMoves DEF Return, ParseOutput, Returns
  <2> QED BY <1>1, <1>2, <2>1 DEF Executed
<1>8. CASE Conclude
  <2>1. /\ UNCHANGED builds /\ pc' \in {"exited", "run", "finish"}
        /\ options.test_dir =>
             \/ pc = "ran" /\ tests' = Append(tests, Finished)
             \/ UNCHANGED tests
    BY <1>8, EndMoves
  <2>2. CASE options.test_dir /\ pc = "ran" /\ tests' = Append(tests, Finished)
    <3>1. PICK T : tests \in Seq(T)
      BY <1>2, <2>2
    <3>2. tests' = Extended(tests, Finished)
      BY <2>2 DEF Extended
    <3>3. /\ Len(tests') = Len(tests) + 1 /\ tests'[Len(tests')] = Finished
          /\ \A n \in 1..Len(tests) : tests'[n] = tests[n]
      BY <3>1, <3>2, OneMore
    <3>4. Len(tests') = Len(builds)
      BY <1>2, <2>2, <3>3
    <3>5. Finished.fact = fact
      BY DEF Finished
    <3>6. \A n \in 1..Len(tests') : n \in 1..Len(tests) \/ n = Len(tests')
      BY <1>2, <2>2, <3>3
    <3>7. \A n \in 1..Len(tests') : tests'[n].fact.started => builds[n].program # NoFile
      BY <1>1, <2>2, <3>3, <3>4, <3>5, <3>6
    <3> QED BY <2>1, <3>7 DEF Executed
  <2>3. CASE options.test_dir => UNCHANGED tests
    BY <1>1, <1>2, <2>1, <2>3 DEF Executed
  <2> QED BY <2>1, <2>2, <2>3
<1>9. CASE UNCHANGED invocationVars
  BY <1>1, <1>2, <1>9 DEF invocationVars, vars, Executed
<1> QED BY <1>3, <1>4, <1>5, <1>6, <1>7, <1>8, <1>9 DEF InvocationNext, Stay

(* What the invariants say of a batch that ends with status 0.             *)
LEMMA ZeroSpeaksTold ==
  Calls /\ Progress /\ Own /\ InOrder /\ Executed /\ IInv /\ NothingIsMasked
    => ZeroSpeaksForEverySource
<1> SUFFICES ASSUME Calls, Progress, Own, InOrder, Executed, IInv, NothingIsMasked,
                    options.test_dir, writable, AllReadable, pc = "exited", status = 0,
                    NEW source \in GivenSources
             PROVE  \E n \in DOMAIN builds :
                      /\ builds[n].source = source
                      /\ LET test == tests[n].fact
                         IN  /\ test.built /\ ~test.late /\ ~test.reported
                             /\ test.started => builds[n].program = n
  BY DEF ZeroSpeaksForEverySource
<1>1. tests \in Seq([result : AnalyzerResults, fact : Facts])
  BY DEF IInv, TypeInv, TypeOK
<1>2. DOMAIN tests = 1..Len(tests) /\ Len(tests) \in Nat
  BY <1>1, LenProperties
<1>3. Len(tests) > 0
  <2>1. tests # <<>>
    BY DEF IInv, Verdicts, StatusTells
  <2> QED BY <1>1, <1>2, <2>1, EmptySeq
<1> DEFINE tested == [n \in DOMAIN builds |-> builds[n].source]
<1>4. ToSet(tested) = GivenSources
  BY <1>3, AllAreTested
<1>5. PICK n \in DOMAIN builds : builds[n].source = source
  <2>1. \E n \in DOMAIN tested : tested[n] = source
    <3> HIDE DEF tested
    <3> QED BY <1>4 DEF ToSet
  <2> QED BY <2>1
<1>6. n \in 1..Len(builds) /\ Len(tests) = Len(builds)
  <2>1. DOMAIN builds = 1..Len(builds) /\ Len(builds) \in Nat
    BY LenProperties DEF Calls, Recorded
  <2>2. Len(tests) = Len(builds)
    BY <2>1 DEF Progress
  <2> QED BY <1>5, <2>1, <2>2
<1> DEFINE f == tests[n].fact
<1>7. n \in 1..Len(tests) /\ f \in TestFacts
  BY <1>2, <1>6 DEF TestFacts
<1>8. f.built /\ ~f.late /\ ~f.reported
  <2> HIDE DEF f
  <2>1. /\ ~f.built \/ (f.late /\ ~f.reported) => status = 2
        /\ f.reported => status >= 1
    BY <1>7 DEF NothingIsMasked
  <2> QED BY <2>1
<1>9. f.started => builds[n].program = n
  <2>1. f.started => builds[n].program # NoFile
    BY <1>7 DEF Executed
  <2>2. builds[n].program \in {NoFile, n}
    BY <1>6 DEF Own
  <2> QED BY <2>1, <2>2
<1> QED BY <1>5, <1>8, <1>9

(* Whatever the line, the files and the compiler do: a batch that ends     *)
(* with status 0 built each source that was given, and whatever ran of it  *)
(* is its own program, which was not late and reported nothing.            *)
THEOREM ZeroIsAboutEverySource == InvocationSpec => []ZeroSpeaksForEverySource
<1>1. InvocationInit => Own /\ Executed
  <2>1. InvocationInit => builds = <<>> /\ tests = <<>> /\ pc = "main"
    BY DEF InvocationInit, Init
  <2> QED BY <2>1, EmptySeq DEF Own, Executed
<1>2. Parsed.help /\ [InvocationNext]_invocationVars => Parsed.help'
  BY LineStays DEF Parsed
<1>3. Parsed.help => ZeroSpeaksForEverySource
  BY DEF ZeroSpeaksForEverySource
<1>4. InvocationSpec => [](Calls /\ Progress /\ Own /\ InOrder /\ Executed)
  BY <1>1, CallsHold, PathsAtStart, PathsStay, OwnNext, InOrderAtStart, InOrderNext,
     ExecutedNext, PTL DEF InvocationSpec
<1>5. InvocationSpec /\ Parsed.help => []Parsed.help
  BY <1>2, PTL DEF InvocationSpec
<1>6. InvocationSpec /\ ~Parsed.help => [](IInv /\ NothingIsMasked)
  BY InvocationIsAnalyzer, IInvHolds, NoTestIsMasked, PTL
<1> QED BY <1>3, <1>4, <1>5, <1>6, ZeroSpeaksTold, PTL
=============================================================================
