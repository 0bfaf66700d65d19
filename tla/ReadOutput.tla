------------------------------ MODULE ReadOutput ------------------------------
(***************************************************************************)
(* What Run makes of a captured output (src/src/runtime_analyzer.cpp:      *)
(* 324-342), and what is written of it: stdout and then stderr are read    *)
(* twice, by CollectEvents for the summary (src/src/events.cpp) and by     *)
(* ParseFindings for the findings, and the findings of both become the     *)
(* SARIF log (src/src/sarif.cpp).                                          *)
(*                                                                         *)
(* The program logs each report to one of its streams, and between the     *)
(* lines of reports come others: the program's own, and those the runtime  *)
(* logs of every allocation and every call.  As ParseFindings does,        *)
(* CollectEvents reads a line when it is logged; a line is one of its      *)
(* events by the markers it contains.                                      *)
(***************************************************************************)
EXTENDS ParseFindings, SequencesExt, Selection

CONSTANTS
  BoundsRule, \* per bounds report, its rule
  SiteText,   \* per report, the text of its two sites: [access, allocation]
  Besides,    \* the markers a line beside the reports may contain
  MaxBeside   \* bound on the CoreTrace lines beside the reports

(* A site as its parts between colons: numbers, and texts that are none.   *)
Text == -1
EmptyText == -2
Part == Nat \cup {Text, EmptyText}

kBoundsRules == {"heap-buffer-overflow", "stack-buffer-overflow", "heap-use-after-free"}

ASSUME OutputAssumption ==
  /\ BoundsRule \in [Reports -> kBoundsRules]
  /\ SiteText \in [Reports -> [access : Seq(Part), allocation : Seq(Part)]]
  /\ MaxBeside \in Nat

VARIABLES
  stream,  \* the stream being read
  summary, \* the CollectionSummary of the streams so far
  earlier, \* the findings of the streams before this one
  (* what the properties observe *)
  beside,  \* how many CoreTrace lines were logged beside the reports
  naming   \* how many of them name a bounds error or leaks

outputVars == <<stream, summary, earlier, beside, naming>>

Counters == {"coretrace_lines", "entry_events", "exit_events", "allocation_events", "bounds_errors",
             "leak_reports", "vtable_events", "warnings", "errors"}

Zero == [c \in Counters |-> 0]

OutputInit ==
  /\ Init
  /\ stream = "stdout"
  /\ summary = Zero
  /\ earlier = <<>>
  /\ beside = 0
  /\ naming = 0

-----------------------------------------------------------------------------
(* CollectEvents (events.cpp).                                             *)

HeapRules == {"heap-buffer-overflow", "heap-use-after-free"}

(* The markers the lines of reports contain (a space is written _).  The   *)
(* lines of a bounds report after its first one carry none.                *)
Markers(line) ==
  CASE line.kind = "bounds" -> {"==ct==", "ct:", "[ERROR]"} \cup ({BoundsRule[line.from]} \cap HeapRules)
    [] line.kind = "leak" -> {"==ct==", "ct:", "ct:_leak", "[WARN]"}
    [] line.kind = "leaks_detected" -> {"==ct==", "ct:", "leaks_detected", "[ERROR]"}
    [] line.kind = "double_free" -> {"==ct==", "tracing-", "[WARN]"}
    [] line.kind \in Indented -> {}
    [] OTHER -> {"==ct==", IF Kind[line.from] = "box" THEN "[WARN]" ELSE "[INFO]"}

CoreTraceMarkers ==
  {"==ct==", "ct:", "[ENTRY-FUNCTION]", "[EXIT-FUNCTION]", "[VTABLE-DIAG]", "tracing-", "auto-free"}
    \cup HeapRules

IsCoreTraceLine(markers) == markers \cap CoreTraceMarkers # {}

(* The markers that make a line count, for each counter. *)
CountedByMutErrors(c) ==
  CASE c = "entry_events" -> {"[ENTRY-FUNCTION]", "ct:_enter"}
    [] c = "exit_events" -> {"[EXIT-FUNCTION]"}
    [] c = "allocation_events" -> {"tracing-", "auto-free", "leaks_detected", "ct:_leak"}
    [] c = "bounds_errors" -> {"[ERROR]"}
    [] c = "leak_reports" -> {"leaks_detected", "ct:_leak"}
    [] c = "vtable_events" -> {"[VTABLE-DIAG]"}
    [] c = "warnings" -> {"[WARN]", "_WARN_"}
    [] c = "errors" -> {"[ERROR]", "_ERROR_"}
    [] OTHER -> CoreTraceMarkers

CountedBy(c) ==
  CASE c = "entry_events" -> {"[ENTRY-FUNCTION]", "ct:_enter"}
    [] c = "exit_events" -> {"[EXIT-FUNCTION]"}
    [] c = "allocation_events" -> {"tracing-", "auto-free", "leaks_detected", "ct:_leak"}
    [] c = "bounds_errors" -> HeapRules
    [] c = "leak_reports" -> {"leaks_detected", "ct:_leak"}
    [] c = "vtable_events" -> {"[VTABLE-DIAG]"}
    [] c = "warnings" -> {"[WARN]", "_WARN_"}
    [] c = "errors" -> {"[ERROR]", "_ERROR_"}
    [] OTHER -> CoreTraceMarkers

UpdateSummary(markers) ==
  IF ~IsCoreTraceLine(markers) THEN summary
  ELSE [c \in Counters |-> IF markers \cap CountedBy(c) # {} THEN summary[c] + 1 ELSE summary[c]]

-----------------------------------------------------------------------------
(* Reading the streams.                                                    *)

ReadReport(r) ==
  /\ stream # "done"
  /\ LogLine(r)
  /\ summary' = UpdateSummary(Markers(NextLine(r)))
  /\ UNCHANGED <<stream, earlier, beside, naming>>

(* A line beside the reports: ParseFindings makes nothing of it, whatever  *)
(* markers it contains.                                                    *)
NamesReport(markers) == markers \cap (CountedBy("bounds_errors") \cup CountedBy("leak_reports")) # {}

ReadBeside(markers) ==
  /\ stream # "done"
  /\ LogNoise
  /\ summary' = UpdateSummary(markers)
  /\ IF IsCoreTraceLine(markers)
     THEN /\ beside < MaxBeside
          /\ beside' = beside + 1
          /\ naming' = naming + (IF NamesReport(markers) THEN 1 ELSE 0)
     ELSE UNCHANGED <<beside, naming>>
  /\ UNCHANGED <<stream, earlier>>

ReadCut(r) ==
  /\ stream # "done"
  /\ CutOff(r)
  /\ UNCHANGED outputVars

(* The end of a stream: the next one is parsed from nothing, MergeSummaries *)
(* adds its counters to those of the first, and its findings come after.    *)
NextStreamMutOneText ==
  /\ stream # "done" /\ NoneUnderWay
  /\ stream' = IF stream = "stdout" THEN "stderr" ELSE "done"
  /\ earlier' = earlier \o findings
  /\ findings' = <<>>
  /\ in_bounds_report' = FALSE
  /\ order' = <<>>
  /\ UNCHANGED <<box, summary, beside, naming, logged, cut, split>>

NextStream ==
  /\ stream # "done" /\ NoneUnderWay
  /\ stream' = IF stream = "stdout" THEN "stderr" ELSE "done"
  /\ earlier' = earlier \o findings
  /\ findings' = <<>>
  /\ in_bounds_report' = FALSE
  /\ box' = NoBox
  /\ order' = <<>>
  /\ UNCHANGED <<summary, beside, naming, logged, cut, split>>

Written == stream = "done" /\ UNCHANGED <<vars, outputVars>>

OutputNext ==
  \/ \E r \in Reports : ReadReport(r) \/ ReadCut(r)
  \/ \E markers \in Besides : ReadBeside(markers)
  \/ NextStream \/ Written

OutputSpec == OutputInit /\ [][OutputNext]_<<vars, outputVars>>

AllFindings == earlier \o findings

-----------------------------------------------------------------------------
(* The SARIF log (findings.cpp and sarif.cpp).                             *)

(* kVtableRules; two warnings may name one rule.                           *)
kVtableRules ==
  <<"vtable-null-this", "vtable-use-after-free", "vtable-corrupted", "vtable-corrupted",
    "vcall-invalid-target", "vtable-type-mismatch", "vtable-type-mismatch", "vtable-diagnostic">>

RuleId(f) ==
  CASE f.kind = "bounds" -> BoundsRule[f.of]
    [] f.kind = "double_free" -> "double-free"
    [] f.kind = "leak" -> "memory-leak"
    [] f.kind = "box" /\ f.rule = NoRule -> "vtable-diagnostic"
    [] OTHER -> kVtableRules[f.rule]

Level(f) ==
  IF RuleId(f) \in {"memory-leak", "vtable-type-mismatch", "vtable-diagnostic"} THEN "warning"
  ELSE "error"

(* ParseSite: "file:line[:column]" from the right; TakeNumber takes a last *)
(* part that is a number and has a colon before it.                        *)
None == [file |-> <<>>, line |-> 0, column |-> 0]

EndsInNumber(parts) == Len(parts) > 1 /\ Last(parts) \in Nat

At(file, line, column) ==
  IF file = <<EmptyText>> \/ line = 0 THEN None ELSE [file |-> file, line |-> line, column |-> column]

ParseSite(parts) ==
  IF ~EndsInNumber(parts) THEN None
  ELSE LET rest == Front(parts)
       IN  IF EndsInNumber(rest) THEN At(Front(rest), Last(rest), Last(parts))
           ELSE At(rest, Last(parts), 0)

(* The site of a finding: ParseSite of the text the report told, or none   *)
(* if it told none.  A text put together from rows of other reports is     *)
(* taken to have lost its end.                                             *)
Read(site, text) ==
  IF site = NoSite THEN None
  ELSE LET told == text[site[1]]
       IN  ParseSite(IF OwnLines(site, site[1]) THEN told ELSE Front(told))

(* Location: the region of a result, with a column only if it is not 0.    *)
Location(site) ==
  IF site = None THEN {}
  ELSE {[uri |-> site.file, startLine |-> site.line,
         startColumn |-> IF site.column = 0 THEN {} ELSE {site.column}]}

SarifResult(f) ==
  [ruleId |-> RuleId(f), level |-> Level(f),
   locations |-> Location(Read(f.location, [r \in Reports |-> SiteText[r].access])),
   relatedLocations |-> Location(Read(f.allocation, [r \in Reports |-> SiteText[r].allocation]))]

(* The rules of the log: each one when the first result names it. *)
ListedMutNeighbours(ids) == Selected(ids, {i \in DOMAIN ids : i > 1 => ids[i - 1] # ids[i]})
Listed(ids) == Selected(ids, {i \in DOMAIN ids : \A j \in DOMAIN ids : j < i => ids[j] # ids[i]})

WriteSarif ==
  [results |-> [i \in DOMAIN AllFindings |-> SarifResult(AllFindings[i])],
   rules |-> Listed([i \in DOMAIN AllFindings |-> RuleId(AllFindings[i])])]

-----------------------------------------------------------------------------
(* Properties.                                                             *)

FindingsNaming(rules) == Cardinality({i \in DOMAIN AllFindings : RuleId(AllFindings[i]) \in rules})
CompleteOf(kind) == Cardinality({r \in Reports : Kind[r] = kind /\ Complete(r)})
CutBox == \E r \in cut : Kind[r] = "box"

(* The summary and the findings are two readings of the same text by two   *)
(* scanners (events.cpp:16-60 and findings.cpp:339-415), and they agree:   *)
(* every heap bounds error, leak and double free that is a finding is      *)
(* counted, whatever stream it was logged to and whatever is logged around *)
(* it, and nothing else is counted as a bounds error or as a leak but the  *)
(* line that counts the leaks, unless a line beside the reports names one. *)
(* Allocations and errors are counted more often than they are found: the  *)
(* runtime traces every allocation (events_test.cpp:35), a program may     *)
(* print ERROR, and such lines make up the difference.  A box cut off      *)
(* hides findings, never events.                                           *)
SummaryAgrees ==
  LET heap == FindingsNaming(HeapRules)
      bounds == FindingsNaming(kBoundsRules)
      leaks == FindingsNaming({"memory-leak"})
      frees == FindingsNaming({"double-free"})
      counts == CompleteOf("leaks_detected")
  IN  stream = "done" =>
        /\ heap <= summary["bounds_errors"] /\ leaks + counts <= summary["leak_reports"]
        /\ leaks + counts + frees <= summary["allocation_events"]
        /\ bounds + counts <= summary["errors"]
        /\ ~CutBox => /\ summary["bounds_errors"] <= heap + naming
                      /\ summary["leak_reports"] <= leaks + counts + naming
                      /\ summary["allocation_events"] <= leaks + counts + frees + beside
                      /\ summary["errors"] <= bounds + counts + beside

(* The log is one a SARIF consumer accepts: each rule is listed once and   *)
(* is named by a result, each result names a listed rule, and a region     *)
(* starts at line 1 or later, with a column from 1 or none, in a file with *)
(* a name, whatever sites the runtime logs ("<unknown>", line 0, no        *)
(* column).                                                                *)
LogIsValid ==
  LET log == WriteSarif
      rules == {log.rules[i] : i \in DOMAIN log.rules}
  IN  stream = "done" =>
        /\ Cardinality(rules) = Len(log.rules)
        /\ rules = {log.results[i].ruleId : i \in DOMAIN log.results}
        /\ \A i \in DOMAIN log.results :
             \A l \in log.results[i].locations \cup log.results[i].relatedLocations :
               l.startLine >= 1 /\ 0 \notin l.startColumn /\ l.uri \notin {<<>>, <<EmptyText>>}
=============================================================================
