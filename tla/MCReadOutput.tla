----------------------------- MODULE MCReadOutput -----------------------------
(* ReadOutput for TLC: the reports of MCParseFindings, with sites of every *)
(* form: unknown, without a column, at line 0, in a file whose name looks  *)
(* like a position.                                                        *)
EXTENDS ReadOutput, MCParseFindings

MCBoundsRule ==
  [r \in Reports |-> IF r = "stack" THEN "stack-buffer-overflow" ELSE "heap-use-after-free"]

MCSiteText ==
  [r \in Reports |->
     CASE r = "heap" -> [access |-> <<Text, 8, 12>>, allocation |-> <<Text>>]
       [] r = "stack" -> [access |-> <<Text, 5, 19>>, allocation |-> <<Text, 1>>]
       [] r = "box1" -> [access |-> <<Text, 0, 5>>, allocation |-> <<Text>>]
       [] r = "box2" -> [access |-> <<EmptyText, 7>>, allocation |-> <<Text>>]
       [] r = "double" -> [access |-> <<3, 7>>, allocation |-> <<Text, 2, 0>>]
       [] OTHER -> [access |-> <<Text, 9, 18>>, allocation |-> <<Text, 7, 19, 4>>]]

(* Lines beside the reports: the program's own, and what the runtime logs  *)
(* of an allocation or a free.                                             *)
MCBesides == {{}, {"==ct==", "[INFO]", "auto-free"}}
=============================================================================
