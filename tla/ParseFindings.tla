----------------------------- MODULE ParseFindings -----------------------------
(***************************************************************************)
(* ParseFindings (src/src/findings.cpp:339-415): the captured text is read *)
(* line by line and the reports of the CoreTrace runtime become findings.  *)
(*                                                                         *)
(* The text is what the threads and processes of the program logged        *)
(* (external): each report is a sequence of lines, and lines of the        *)
(* program's own come between.  ParseFindings reads the text from left to  *)
(* right without looking ahead, so a line is parsed here when it is        *)
(* logged.  A line is its kind and the report it belongs to; what its      *)
(* fields say is known by that report.                                     *)
(***************************************************************************)
EXTENDS Integers, Sequences, FiniteSets

CONSTANTS
  Reports,    \* the reports the program logs
  Kind,       \* per report: "bounds", "box", "leak" or "double_free", which are findings,
              \* "info_box" or "leaks_detected", which are not
  Rows,       \* per box, its rows from top to bottom
  Mixed,      \* the lines of two reports may come mixed
  MaxCut      \* bound on the reports whose process dies in the middle of them

(* kVtableRules, by index: the earlier, the more specific.  A warning that *)
(* matches none of them has the index past the last one.                   *)
LastRule == 8
NoRule == LastRule + 1

(* The rows of a box, by label.  A value too long for the box goes on in   *)
(* rows without a label ("more"); rest is the number of them it needs, for *)
(* a warning up to where its prefix tells its rule.                        *)
RowKinds == {"site", "warn", "label", "more"}
RowsOfBoxes == [kind : RowKinds, rule : 1..NoRule, rest : Nat]

Nobody == "nobody"

ASSUME ReportsAssumption ==
  /\ Nobody \notin Reports
  /\ Kind \in [Reports -> {"bounds", "box", "info_box", "leak", "leaks_detected", "double_free"}]
  /\ Rows \in [Reports -> Seq(RowsOfBoxes)]
  /\ Mixed \in BOOLEAN
  /\ MaxCut \in Nat

(* What the boxes of the runtime have (external): a site and a warning,    *)
(* and after each of these the rows without a label that it needs.         *)
GoesOnIn(rows, i, n) == \A j \in 1..n : i + j \in DOMAIN rows /\ rows[i + j].kind = "more"

ASSUME RowsAssumption ==
  \A r \in Reports : Kind[r] = "box" =>
    LET rows == Rows[r]
        Labelled(kind) == {i \in DOMAIN rows : rows[i].kind = kind}
    IN  /\ Labelled("site") # {} /\ Labelled("warn") # {} /\ rows[1].kind # "more"
        /\ \A i \in Labelled("warn") : GoesOnIn(rows, i, rows[i].rest)
        /\ \A i \in Labelled("site") : /\ GoesOnIn(rows, i, rows[i].rest)
                                       /\ ~GoesOnIn(rows, i, rows[i].rest + 1)

VARIABLES
  (* the parser *)
  findings,         \* the findings so far
  in_bounds_report, \* the last finding is a bounds report that may go on
  box,              \* the rows of the open box, or NoBox
  (* the text *)
  logged,           \* per report, the lines logged so far
  cut,              \* the reports that were cut off
  split,            \* the bounds reports the program printed a line of its own into
  order             \* the reports in the order of their first lines

parserVars == <<findings, in_bounds_report, box>>
textVars == <<logged, cut, split, order>>
vars == <<parserVars, textVars>>

NoBox == [open |-> FALSE, rows |-> <<>>]
OpenBox(rows) == [open |-> TRUE, rows |-> rows]

(* A line of a report; rule and rest are those of a row of a box. *)
Line(kind, r, rule, rest) == [kind |-> kind, from |-> r, rule |-> rule, rest |-> rest]
Plain(kind, r) == Line(kind, r, NoRule, 0)

(* The lines of a report as the runtime logs them.  The header of a box at *)
(* INFO level does not open a box, and its rows are read like any line.    *)
LinesOf ==
  [r \in Reports |->
     CASE Kind[r] = "bounds" -> <<Plain("bounds", r), Plain("access", r), Plain("alloc_site", r)>>
       [] Kind[r] = "box" ->
            <<Plain("open", r)>>
              \o [i \in DOMAIN Rows[r] |-> Line(Rows[r][i].kind, r, Rows[r][i].rule, Rows[r][i].rest)]
              \o <<Plain("close", r)>>
       [] Kind[r] = "info_box" -> <<Plain("info", r), Plain("site", r), Plain("close", r)>>
       [] OTHER -> <<Plain(Kind[r], r)>>]

Init ==
  /\ findings = <<>>
  /\ in_bounds_report = FALSE
  /\ box = NoBox
  /\ logged = [r \in Reports |-> 0]
  /\ cut = {}
  /\ split = {}
  /\ order = <<>>

-----------------------------------------------------------------------------
(* The parser: one turn of the loop.                                       *)

(* A site is the sequence of the lines its text was put together from; it  *)
(* is empty when the report has told none.                                 *)
NoSite == <<>>

Finding(kind, rule, of, location, allocation) ==
  [kind |-> kind, rule |-> rule, of |-> of, location |-> location, allocation |-> allocation]

(* DiagnosticBox::ToFinding: the most specific rule among the warnings and *)
(* the last site; nothing without a warning.                               *)
Row(line) == [kind |-> IF line.kind = "more" THEN "label" ELSE line.kind, from |-> line.from,
              rule |-> line.rule, rest |-> line.rest, more |-> <<>>]

WarnRows(rows) == {i \in DOMAIN rows : rows[i].kind = "warn"}
SiteRows(rows) == {i \in DOMAIN rows : rows[i].kind = "site"}

(* A warning whose prefix is not whole matches no rule. *)
RuleOfRow(row) ==
  IF \A i \in 1..row.rest : i \in DOMAIN row.more /\ row.more[i] = row.from
  THEN row.rule ELSE NoRule

RulesOf(rows) == {RuleOfRow(rows[i]) : i \in WarnRows(rows)}

MostSpecificMutFirst(rows) ==
  RuleOfRow(rows[CHOOSE i \in WarnRows(rows) : \A j \in WarnRows(rows) : i <= j])

MostSpecificMutNull(rows) ==
  IF NoRule \in RulesOf(rows) THEN 0
  ELSE CHOOSE n \in RulesOf(rows) : \A m \in RulesOf(rows) : n <= m

MostSpecific(rows) == CHOOSE n \in RulesOf(rows) : \A m \in RulesOf(rows) : n <= m

SiteOf(rows) ==
  IF SiteRows(rows) = {} THEN NoSite
  ELSE LET last == CHOOSE i \in SiteRows(rows) : \A j \in SiteRows(rows) : j <= i
       IN  <<rows[last].from>> \o rows[last].more

ToFinding(rows) ==
  Finding("box", MostSpecific(rows), rows[CHOOSE i \in WarnRows(rows) : TRUE].from,
          SiteOf(rows), NoSite)

CloseBox(line) ==
  /\ box.open /\ line.kind = "close"
  /\ findings' = IF WarnRows(box.rows) = {} THEN findings
                 ELSE Append(findings, ToFinding(box.rows))
  /\ box' = NoBox
  /\ UNCHANGED in_bounds_report

(* DiagnosticBox::AddRow: a row without a label goes on with the value of  *)
(* the row before, if there is one; any other line is skipped.             *)
AddRowMutNoJoin(line) ==
  /\ box.open /\ line.kind # "close"
  /\ box' = IF line.kind \notin RowKinds THEN box ELSE OpenBox(Append(box.rows, Row(line)))
  /\ UNCHANGED <<findings, in_bounds_report>>

AddRow(line) ==
  /\ box.open /\ line.kind # "close"
  /\ box' = IF line.kind \notin RowKinds THEN box
            ELSE IF line.kind = "more" /\ box.rows # <<>>
              THEN OpenBox([box.rows EXCEPT ![Len(box.rows)].more = Append(@, line.from)])
              ELSE OpenBox(Append(box.rows, Row(line)))
  /\ UNCHANGED <<findings, in_bounds_report>>

BeginBoxMutKeepsReport(line) ==
  /\ ~box.open /\ line.kind = "open"
  /\ box' = OpenBox(<<>>)
  /\ UNCHANGED <<findings, in_bounds_report>>

BeginBox(line) ==
  /\ ~box.open /\ line.kind = "open"
  /\ in_bounds_report' = FALSE
  /\ box' = OpenBox(<<>>)
  /\ UNCHANGED findings

(* findings.back() *)
Back == Len(findings)
Indented == {"access", "alloc_site", "indented"}

ContinueReport(line) ==
  /\ ~box.open /\ line.kind \in Indented /\ in_bounds_report
  /\ findings' = CASE line.kind = "access" -> [findings EXCEPT ![Back].location = <<line.from>>]
                   [] line.kind = "alloc_site" ->
                        [findings EXCEPT ![Back].allocation = <<line.from>>]
                   [] OTHER -> findings
  /\ UNCHANGED <<in_bounds_report, box>>

(* The fields of a one-line report: "alloc_site=" in both, "site=", which  *)
(* must not be found inside "alloc_site=", only in a double free.          *)
NewFindings(line) ==
  CASE line.kind = "bounds" -> <<Finding("bounds", NoRule, line.from, NoSite, NoSite)>>
    [] line.kind = "double_free" ->
         <<Finding("double_free", NoRule, line.from, <<line.from>>, <<line.from>>)>>
    [] line.kind = "leak" -> <<Finding("leak", NoRule, line.from, NoSite, <<line.from>>)>>
    [] OTHER -> <<>>

NewReport(line) ==
  /\ ~box.open /\ line.kind # "open"
  /\ line.kind \in Indented => ~in_bounds_report
  /\ in_bounds_report' = (line.kind = "bounds")
  /\ findings' = findings \o NewFindings(line)
  /\ UNCHANGED box

ParseLine(line) ==
  \/ CloseBox(line) \/ AddRow(line) \/ BeginBox(line) \/ ContinueReport(line) \/ NewReport(line)

-----------------------------------------------------------------------------
(* The text (external).                                                    *)

Started(r) == logged[r] > 0
Complete(r) == logged[r] = Len(LinesOf[r])
UnderWay(r) == Started(r) /\ ~Complete(r) /\ r \notin cut

NextLine(r) == LinesOf[r][logged[r] + 1]

LogLine(r) ==
  /\ ~Complete(r) /\ r \notin cut
  /\ Mixed \/ \A other \in Reports \ {r} : ~UnderWay(other)
  /\ logged' = [logged EXCEPT ![r] = @ + 1]
  /\ order' = IF Started(r) THEN order ELSE Append(order, r)
  /\ ParseLine(NextLine(r))
  /\ UNCHANGED <<cut, split>>

(* A line of the program's own, indented or not. *)
LogNoise ==
  /\ \E kind \in {"plain", "indented"} :
       /\ ParseLine(Plain(kind, Nobody))
       /\ split' = IF kind = "indented" THEN split
                   ELSE split \cup {r \in Reports : UnderWay(r) /\ Kind[r] = "bounds"}
  /\ UNCHANGED <<logged, cut, order>>

CutOff(r) ==
  /\ Cardinality(cut) < MaxCut /\ UnderWay(r)
  /\ cut' = cut \cup {r}
  /\ UNCHANGED <<parserVars, logged, split, order>>

Next ==
  \/ \E r \in Reports : LogLine(r) \/ CutOff(r)
  \/ LogNoise

Spec == Init /\ [][Next]_vars

-----------------------------------------------------------------------------
(* Properties.                                                             *)

BoxRows == [kind : {"site", "warn", "label"}, from : Reports, rule : 1..NoRule, rest : Nat,
            more : Seq(Reports)]
Findings == [kind : {"bounds", "box", "leak", "double_free"}, rule : 1..NoRule, of : Reports,
             location : Seq(Reports), allocation : Seq(Reports)]

(* Every variable has its type.                                            *)
TypeOK ==
  /\ findings \in Seq(Findings)
  /\ in_bounds_report \in BOOLEAN
  /\ box \in [open : BOOLEAN, rows : Seq(BoxRows)]
  /\ logged \in [Reports -> Nat]
  /\ cut \subseteq Reports
  /\ split \subseteq Reports
  /\ order \in Seq(Reports)

(* findings.back() is only used while the last finding exists and is a     *)
(* bounds report, whatever the lines of the text and their order           *)
(* (findings.cpp:379-388).                                                 *)
BackIsBoundsReport ==
  in_bounds_report => ~box.open /\ findings # <<>> /\ findings[Back].kind = "bounds"

InThisText == {order[i] : i \in DOMAIN order}
BoxesAreWhole == \A r \in cut \cap InThisText : Kind[r] # "box"
NoneUnderWay == \A r \in Reports : ~UnderWay(r)
Before(s, q, r) == \E a, b \in DOMAIN s : a < b /\ s[a] = q /\ s[b] = r

(* The reports are the findings, one each, in the order they were logged   *)
(* ("each box the runtime logs at `WARN` level is one finding",            *)
(* README.md:38-39), and a box at INFO level or the count of the leaks is  *)
(* none, when reports are not interleaved and no box of the text is cut    *)
(* off; what the program prints between their lines changes nothing, nor   *)
(* does a bounds report that is cut off.                                   *)
OneFindingPerReport ==
  NoneUnderWay /\ BoxesAreWhole =>
    /\ {findings[i].of : i \in DOMAIN findings}
         = {r \in InThisText : Kind[r] \notin {"info_box", "leaks_detected"}}
    /\ \A i, j \in DOMAIN findings : i < j => Before(order, findings[i].of, findings[j].of)

WarningsOf(r) == {Rows[r][i].rule : i \in {j \in DOMAIN Rows[r] : Rows[r][j].kind = "warn"}}

(* The rule of a box is the most specific of its warnings, in whatever     *)
(* order it logs them and however its rows are wrapped, when no box is cut *)
(* off (README.md:41, findings.cpp:159-160).                               *)
BoxRuleIsMostSpecific ==
  BoxesAreWhole => \A i \in DOMAIN findings : LET r == findings[i].of IN
    Kind[r] = "box" => /\ findings[i].rule \in WarningsOf(r)
                       /\ \A n \in WarningsOf(r) : findings[i].rule <= n

(* How many lines the site of a report takes: a box wraps it like any      *)
(* value, a leak has none (README.md:28).                                  *)
SiteLines(r) ==
  CASE Kind[r] = "box" -> {1 + Rows[r][i].rest : i \in {j \in DOMAIN Rows[r] : Rows[r][j].kind = "site"}}
    [] Kind[r] = "leak" -> {0}
    [] OTHER -> {1}
AllocationLines(r) == IF Kind[r] = "box" THEN {0} ELSE {1}

OwnLines(site, r) == \A i \in DOMAIN site : site[i] = r

(* A finding has the sites of its own report and never those of another,   *)
(* and once the report is complete it has all of them, the rows of a       *)
(* wrapped one joined (README.md:24-34, findings.cpp:221-224), unless the  *)
(* program has printed a line of its own into a bounds report.             *)
SitesAreOwn ==
  BoxesAreWhole => \A i \in DOMAIN findings : LET f == findings[i] IN
    /\ OwnLines(f.location, f.of) /\ OwnLines(f.allocation, f.of)
    /\ Complete(f.of) /\ (Kind[f.of] = "bounds" => f.of \notin split)
         => Len(f.location) \in SiteLines(f.of) /\ Len(f.allocation) \in AllocationLines(f.of)

(* A report that was logged completely is a finding, also when another     *)
(* process of the program died in the middle of one of its own.            *)
CompleteReportsAreFound ==
  \A r \in Reports : Complete(r) /\ Kind[r] \notin {"info_box", "leaks_detected"} =>
    \E i \in DOMAIN findings : findings[i].of = r
=============================================================================
