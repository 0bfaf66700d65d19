--------------------------- MODULE MCParseFindings ----------------------------
(* ParseFindings for TLC: reports of every kind, and two boxes with their  *)
(* warnings in different orders.  The first wraps a warning, whose rule    *)
(* only the joined text tells, the second its site.                      *)
EXTENDS ParseFindings

MCKind ==
  [r \in Reports |->
     CASE r \in {"heap", "stack"} -> "bounds"
       [] r \in {"box1", "box2"} -> "box"
       [] r = "info" -> "info_box"
       [] r = "leaks" -> "leaks_detected"
       [] r = "double" -> "double_free"
       [] OTHER -> "leak"]

BoxRow(kind, rule, rest) == [kind |-> kind, rule |-> rule, rest |-> rest]
Site(rest) == BoxRow("site", NoRule, rest)
Warn(rule, rest) == BoxRow("warn", rule, rest)
Label == BoxRow("label", NoRule, 0)
More == BoxRow("more", NoRule, 0)

MCRows ==
  [r \in Reports |->
     CASE r = "box1" -> <<Site(0), Label, Warn(8, 0), Warn(3, 1), More>>
       [] r = "box2" -> <<Site(1), More, Warn(9, 0), Warn(4, 0)>>
       [] OTHER -> <<>>]
=============================================================================
