----------------------------- MODULE MCInvocation -----------------------------
(* Invocation for TLC: the files, and every short command line with some   *)
(* longer ones for batches.                                                *)
EXTENDS Invocation, TLC

MCJoined == "--output=b" :> [option |-> "-o", value |-> "b"]
MCJoinedOutput == "--output=b" :> "b"

(* Two files of one name in sanitized form, one directory inside another,  *)
(* and one directory under two names.                                      *)
MCTree == "t" :> {"t/s/a.c", "t/s_a.c", "t/notes"} @@ "t/s" :> {"t/s/a.c"}
            @@ "./t/s" :> {"./t/s/a.c"} @@ "u" :> {"u/b.c"}
MCSorted == <<"./t/s/a.c", "t/s/a.c", "t/s_a.c", "u/b.c">>
MCSourceFiles == {"./t/s/a.c", "t/s/a.c", "t/s_a.c", "u/b.c"}
MCRelative == "./t/s/a.c" :> "t/s/a.c" @@ "t/s/a.c" :> "t/s/a.c" @@ "t/s_a.c" :> "t/s_a.c"
                @@ "u/b.c" :> "u/b.c"
MCSanitized == "t/s/a.c" :> "t_s_a" @@ "t/s_a.c" :> "t_s_a" @@ "u/b.c" :> "u_b"
MCHash == "t/s/a.c" :> "1" @@ "t/s_a.c" :> "2" @@ "u/b.c" :> "3"
MCLinkWords == <<"-L">>

Words == {"--", "--help", "--no-run", "-o", "--output=b", "--env", "--format",
          "--test-dir", "K=1", "sarif", "t", "-c"}
MaxWords == 4
ShortLines == UNION {[1..n -> Words] : n \in 0..MaxWords}

Dirs == {<<"t">>, <<"t", "t/s">>, <<"t/s", "t", "t/s">>, <<"t", "gone">>, <<"u", "t">>,
         <<"t/s", "./t/s">>}
Shared == {<<>>, <<"--">>, <<"--", "-x", "-DDEBUG">>, <<"--", "-o", "b">>, <<"--", "-c">>,
           <<"--", "--instrument", "-o", "--instrument", "b">>}
BatchLines ==
  {FlattenSeq([i \in DOMAIN d |-> <<"--test-dir", d[i]>>]) \o f \o s :
     d \in Dirs, f \in {<<>>, <<"--no-run">>, <<"--strict-test-exit">>}, s \in Shared}
OutputLines ==
  {<<"--">> \o w : w \in {<<"-o", "--instrument", "b">>, <<"--instrument", "-o", "b", "c">>,
                          <<"-o", "b", "-o", "c">>}}

(* Up to three options, whose values look like options and ends. *)
Groups == {<<"-o", "--">>, <<"-o", "--no-run">>, <<"--output=b">>, <<"--run-arg", "--help">>,
           <<"--run-arg", "--">>, <<"--timeout", "7">>, <<"--timeout", "-o">>, <<"--no-run">>}
LongLines ==
  {FlattenSeq(g) \o s : g \in UNION {[1..n -> Groups] : n \in 2..3},
                        s \in {<<>>, <<"--", "--no-run">>, <<"--", "--", "--help">>}}
MCLines == ShortLines \cup BatchLines \cup OutputLines \cup LongLines
=============================================================================
