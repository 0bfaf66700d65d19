------------------------- MODULE ParseFindingsProofs --------------------------
(* Proofs about the parser, for every set of reports and every text that   *)
(* their lines and the program's own can make up: cut off, in any order    *)
(* and, for the first two theorems, interleaved.                           *)
EXTENDS ParseFindings, SelectionProofs

Kinds == {"bounds", "access", "alloc_site", "open", "warn", "site", "close", "info",
          "leak", "double_free", "plain", "indented", "label", "more", "leaks_detected"}
Owners == Reports \cup {Nobody}
AnyLine == {l \in [kind : Kinds, from : Owners, rule : 1..NoRule, rest : Nat] :
              l.from \in Reports \/ l.kind \in {"plain", "indented"}}

LEMMA LineIsTyped ==
  ASSUME NEW r \in Owners, NEW kind \in Kinds, NEW rule \in 1..NoRule, NEW rest \in Nat,
         r \in Reports \/ kind \in {"plain", "indented"}
  PROVE  Line(kind, r, rule, rest) \in AnyLine
BY DEF Line, AnyLine

(* Short sequences. *)
LEMMA ShortSequences ==
  ASSUME NEW S, NEW a \in S, NEW b \in S, NEW c \in S
  PROVE  <<a>> \in Seq(S) /\ <<a, b>> \in Seq(S) /\ <<a, b, c>> \in Seq(S)
OBVIOUS

LEMMA LinesAreTyped ==
  ASSUME NEW r \in Reports
  PROVE  LinesOf[r] \in Seq(AnyLine)
<1>1. r \in Owners /\ NoRule \in 1..NoRule
  BY DEF Owners, NoRule, LastRule
<1>2. \A kind \in Kinds : Plain(kind, r) \in AnyLine
  BY <1>1, LineIsTyped DEF Plain
<1>3. /\ "bounds" \in Kinds /\ "access" \in Kinds /\ "alloc_site" \in Kinds
      /\ "open" \in Kinds /\ "site" \in Kinds /\ "close" \in Kinds /\ "info" \in Kinds
      /\ "leak" \in Kinds /\ "double_free" \in Kinds /\ "leaks_detected" \in Kinds
      /\ RowKinds \subseteq Kinds
  BY DEF Kinds, RowKinds
<1> HIDE DEF Kinds, AnyLine, Line, Plain, Owners, NoRule, RowKinds
<1>4. CASE Kind[r] = "bounds"
  <2>1. LinesOf[r] = <<Plain("bounds", r), Plain("access", r), Plain("alloc_site", r)>>
    BY <1>4 DEF LinesOf
  <2> QED BY <1>2, <1>3, <2>1, ShortSequences
<1>5. CASE Kind[r] = "box"
  <2> DEFINE R == Rows[r]
             L(i) == Line(R[i].kind, r, R[i].rule, R[i].rest)
             rows == [i \in DOMAIN R |-> L(i)]
  <2>1. R \in Seq(RowsOfBoxes)
    BY ReportsAssumption
  <2> HIDE DEF R
  <2>2. DOMAIN R = 1..Len(R) /\ Len(R) \in Nat /\ \A i \in 1..Len(R) : R[i] \in RowsOfBoxes
    BY <2>1, LenProperties
  <2>3. ASSUME NEW i \in 1..Len(R)
        PROVE  L(i) \in AnyLine
    <3>1. R[i].kind \in Kinds /\ R[i].rule \in 1..NoRule /\ R[i].rest \in Nat
      BY <1>3, <2>2 DEF RowsOfBoxes
    <3> QED BY <1>1, <3>1, LineIsTyped
  <2>4. rows \in [1..Len(R) -> AnyLine]
    BY <2>2, <2>3
  <2>5. rows \in Seq(AnyLine)
    BY <2>2, <2>4
  <2>6. <<Plain("open", r)>> \in Seq(AnyLine) /\ <<Plain("close", r)>> \in Seq(AnyLine)
    BY <1>2, <1>3, ShortSequences
  <2>7. LinesOf[r] = <<Plain("open", r)>> \o rows \o <<Plain("close", r)>>
    BY <1>5 DEF LinesOf, R
  <2> HIDE DEF rows
  <2>8. <<Plain("open", r)>> \o rows \in Seq(AnyLine)
    BY <2>5, <2>6, ConcatProperties
  <2> QED BY <2>6, <2>7, <2>8, ConcatProperties
<1>6. CASE Kind[r] = "info_box"
  <2>1. LinesOf[r] = <<Plain("info", r), Plain("site", r), Plain("close", r)>>
    BY <1>6 DEF LinesOf
  <2> QED BY <1>2, <1>3, <2>1, ShortSequences
<1>7. CASE Kind[r] \in {"leak", "double_free", "leaks_detected"}
  <2>1. LinesOf[r] = <<Plain(Kind[r], r)>>
    BY <1>7 DEF LinesOf
  <2>2. Plain(Kind[r], r) \in AnyLine
    BY <1>2, <1>3, <1>7
  <2> QED BY <2>1, <2>2, ShortSequences
<1> QED BY <1>4, <1>5, <1>6, <1>7, ReportsAssumption

-----------------------------------------------------------------------------
(* The parser, on any line.                                                *)

ParserTypeOK ==
  /\ findings \in Seq(Findings)
  /\ in_bounds_report \in BOOLEAN
  /\ box \in [open : BOOLEAN, rows : Seq(BoxRows)]

LEMMA FindingIsTyped ==
  ASSUME NEW rows \in Seq(BoxRows), WarnRows(rows) # {}
  PROVE  ToFinding(rows) \in Findings
<1> DEFINE n == MostSpecific(rows)
           first == CHOOSE i \in WarnRows(rows) : TRUE
           last == CHOOSE i \in SiteRows(rows) : \A j \in SiteRows(rows) : j <= i
<1>1. \A i \in DOMAIN rows : rows[i] \in BoxRows
  BY LenProperties
<1>2. /\ \A i \in DOMAIN rows : /\ rows[i].from \in Reports /\ rows[i].rule \in 1..NoRule
                               /\ rows[i].more \in Seq(Reports)
      /\ DOMAIN rows = 1..Len(rows) /\ Len(rows) \in Nat
  BY <1>1, LenProperties DEF BoxRows
<1>3. RulesOf(rows) \subseteq 1..NoRule /\ RulesOf(rows) # {}
  <2>1. \A i \in DOMAIN rows : RuleOfRow(rows[i]) \in {rows[i].rule, NoRule}
    BY DEF RuleOfRow
  <2>2. WarnRows(rows) \subseteq DOMAIN rows
    BY DEF WarnRows
  <2>3. NoRule \in 1..NoRule
    BY DEF NoRule, LastRule
  <2>4. \A i \in WarnRows(rows) : RuleOfRow(rows[i]) \in 1..NoRule
    BY <1>2, <2>1, <2>2, <2>3
  <2> QED BY <2>4 DEF RulesOf
<1>4. n \in 1..NoRule
  <2>1. RulesOf(rows) \subseteq Nat
    BY <1>3 DEF NoRule, LastRule
  <2>2. \E least \in RulesOf(rows) : \A m \in RulesOf(rows) : least <= m
    BY <1>3, <2>1, LeastNumber
  <2>3. n \in RulesOf(rows)
    BY <2>2 DEF MostSpecific
  <2> QED BY <1>3, <2>3
<1>5. rows[first].from \in Reports
  <2>1. first \in DOMAIN rows
    BY DEF WarnRows
  <2> QED BY <1>2, <2>1
<1>6. SiteOf(rows) \in Seq(Reports)
  <2>1. CASE SiteRows(rows) = {}
    BY <2>1 DEF SiteOf, NoSite
  <2>2. CASE SiteRows(rows) # {}
    <3>1. SiteRows(rows) \subseteq 1..Len(rows)
      BY <1>2 DEF SiteRows
    <3>2. \E k \in SiteRows(rows) : \A j \in SiteRows(rows) : j <= k
      BY <1>2, <2>2, <3>1, LastPosition
    <3>3. last \in SiteRows(rows)
      BY <3>2
    <3>4. SiteOf(rows) = <<rows[last].from>> \o rows[last].more
      BY <2>2 DEF SiteOf
    <3> HIDE DEF last
    <3>5. rows[last].from \in Reports /\ rows[last].more \in Seq(Reports)
      BY <1>2, <3>1, <3>3
    <3>6. <<rows[last].from>> \in Seq(Reports)
      BY <3>5, ShortSequences
    <3> QED BY <3>4, <3>5, <3>6, ConcatProperties
  <2> QED BY <2>1, <2>2
<1>7. ToFinding(rows) = [kind |-> "box", rule |-> n, of |-> rows[first].from,
                         location |-> SiteOf(rows), allocation |-> NoSite]
  BY DEF ToFinding, Finding
<1>8. NoSite \in Seq(Reports)
  BY DEF NoSite
<1> HIDE DEF n, first
<1> QED
  BY <1>4, <1>5, <1>6, <1>7, <1>8 DEF Findings

(* findings grows or keeps its last finding's kind. *)
LEMMA ParserStep ==
  ASSUME ParserTypeOK, BackIsBoundsReport, NEW line \in AnyLine, ParseLine(line)
  PROVE  ParserTypeOK' /\ BackIsBoundsReport'
<1> USE DEF ParserTypeOK, BackIsBoundsReport
<1>1. /\ line.kind \in Kinds /\ line.rule \in 1..NoRule /\ line.rest \in Nat
      /\ line.kind \notin {"plain", "indented"} => line.from \in Reports
  BY DEF AnyLine
<1>2. CASE CloseBox(line)
  <2>1. findings' \in Seq(Findings)
    BY <1>2, FindingIsTyped DEF CloseBox
  <2>2. box' \in [open : BOOLEAN, rows : Seq(BoxRows)]
    BY <1>2 DEF CloseBox, NoBox
  <2> QED BY <1>2, <2>1, <2>2 DEF CloseBox
<1>3. CASE AddRow(line)
  <2>1. line.kind \in RowKinds => Row(line) \in BoxRows
    BY <1>1 DEF Row, BoxRows, RowKinds
  <2>2. line.kind \in RowKinds => Append(box.rows, Row(line)) \in Seq(BoxRows)
    BY <2>1
  <2>3. ASSUME box.rows # <<>>, line.kind = "more"
        PROVE  [box.rows EXCEPT ![Len(box.rows)].more = Append(@, line.from)] \in Seq(BoxRows)
    <3> DEFINE k == Len(box.rows)
               row == [box.rows[k] EXCEPT !.more = Append(@, line.from)]
    <3>1. k \in 1..Len(box.rows) /\ box.rows \in Seq(BoxRows) /\ box.rows[k] \in BoxRows
      BY <2>3, LenProperties, EmptySeq
    <3>2. row \in BoxRows
      BY <1>1, <2>3, <3>1, AppendProperties DEF BoxRows
    <3>3. [box.rows EXCEPT ![k].more = Append(@, line.from)] = [box.rows EXCEPT ![k] = row]
      BY <3>1
    <3> HIDE DEF k, row
    <3>4. [box.rows EXCEPT ![k] = row] \in Seq(BoxRows)
      BY <3>1, <3>2, ExceptSeq
    <3> QED BY <3>3, <3>4 DEF k
  <2>4. box' \in [open : BOOLEAN, rows : Seq(BoxRows)]
    BY <1>3, <2>2, <2>3 DEF AddRow, OpenBox
  <2> QED BY <1>3, <2>4 DEF AddRow
<1>4. CASE BeginBox(line)
  <2>1. box' \in [open : BOOLEAN, rows : Seq(BoxRows)]
    BY <1>4 DEF BeginBox, OpenBox
  <2> QED BY <1>4, <2>1 DEF BeginBox
<1>5. CASE ContinueReport(line)
  <2>1. /\ Len(findings) \in Nat \ {0} /\ Back \in 1..Len(findings)
        /\ findings[Back] \in Findings
    BY <1>5, LenProperties, EmptySeq DEF ContinueReport, Back
  <2>2. CASE line.kind = "access"
    <3> DEFINE f == [findings[Back] EXCEPT !.location = <<line.from>>]
    <3>1. f \in Findings /\ f.kind = findings[Back].kind
      BY <1>1, <2>1, <2>2, ShortSequences DEF Findings
    <3>2. findings' = [findings EXCEPT ![Back] = f]
      BY <1>5, <2>2 DEF ContinueReport
    <3> HIDE DEF f
    <3>3. findings' \in Seq(Findings) /\ Len(findings') = Len(findings) /\ findings'[Back] = f
      BY <2>1, <3>1, <3>2, ExceptSeq
    <3> QED BY <1>5, <2>1, <3>1, <3>3 DEF ContinueReport, Back
  <2>3. CASE line.kind = "alloc_site"
    <3> DEFINE f == [findings[Back] EXCEPT !.allocation = <<line.from>>]
    <3>1. f \in Findings /\ f.kind = findings[Back].kind
      BY <1>1, <2>1, <2>3, ShortSequences DEF Findings
    <3>2. findings' = [findings EXCEPT ![Back] = f]
      BY <1>5, <2>3 DEF ContinueReport
    <3> HIDE DEF f
    <3>3. findings' \in Seq(Findings) /\ Len(findings') = Len(findings) /\ findings'[Back] = f
      BY <2>1, <3>1, <3>2, ExceptSeq
    <3> QED BY <1>5, <2>1, <3>1, <3>3 DEF ContinueReport, Back
  <2>4. CASE line.kind \notin {"access", "alloc_site"}
    BY <1>5, <2>4 DEF ContinueReport, Back
  <2> QED BY <2>2, <2>3, <2>4
<1>6. CASE NewReport(line)
  <2> DEFINE new == NewFindings(line)
  <2>1. /\ NoSite \in Seq(Reports) /\ NoRule \in 1..NoRule
        /\ line.kind \in {"bounds", "double_free", "leak"} =>
             line.from \in Reports /\ <<line.from>> \in Seq(Reports)
    <3>1. NoRule \in 1..NoRule
      BY DEF NoRule, LastRule
    <3> QED BY <1>1, <3>1, ShortSequences DEF NoSite
  <2>2. /\ new \in Seq(Findings)
        /\ line.kind = "bounds" => Len(new) = 1 /\ new[1].kind = "bounds"
    <3>1. CASE line.kind = "bounds"
      <4>1. Finding("bounds", NoRule, line.from, NoSite, NoSite) \in Findings
        BY <2>1, <3>1 DEF Finding, Findings
      <4> QED BY <3>1, <4>1, ShortSequences DEF NewFindings, Finding
    <3>2. CASE line.kind = "double_free"
      <4>1. Finding("double_free", NoRule, line.from, <<line.from>>, <<line.from>>) \in Findings
        BY <2>1, <3>2 DEF Finding, Findings
      <4> QED BY <3>2, <4>1, ShortSequences DEF NewFindings
    <3>3. CASE line.kind = "leak"
      <4>1. Finding("leak", NoRule, line.from, NoSite, <<line.from>>) \in Findings
        BY <2>1, <3>3 DEF Finding, Findings
      <4> QED BY <3>3, <4>1, ShortSequences DEF NewFindings
    <3>4. CASE line.kind \notin {"bounds", "double_free", "leak"}
      <4>1. new = <<>>
        BY <3>4 DEF NewFindings
      <4> QED BY <3>4, <4>1, EmptySeq
    <3> QED BY <3>1, <3>2, <3>3, <3>4
  <2>3. findings' = findings \o new /\ UNCHANGED box /\ ~box.open
        /\ in_bounds_report' = (line.kind = "bounds")
    BY <1>6 DEF NewReport
  <2> HIDE DEF new
  <2>4. findings' \in Seq(Findings)
    BY <2>2, <2>3, ConcatProperties
  <2>5. ASSUME line.kind = "bounds"
        PROVE  findings' # <<>> /\ findings'[Len(findings')].kind = "bounds"
    <3>1. findings \in Seq(Findings) /\ new \in Seq(Findings)
      BY <2>2
    <3>2. Len(findings) \in Nat /\ Len(new) = 1
      BY <2>2, <2>5, <3>1, LenProperties
    <3>3. Len(findings \o new) = Len(findings) + Len(new)
      BY <3>1, ConcatProperties
    <3>4. (findings \o new)[Len(findings) + 1] = new[(Len(findings) + 1) - Len(findings)]
      BY <3>1, <3>2, ConcatProperties
    <3>5. (Len(findings) + 1) - Len(findings) = 1 /\ Len(findings) + 1 # 0
      BY <3>2
    <3>6. findings' # <<>>
      BY <2>3, <3>2, <3>3, <3>5, EmptySeq
    <3> QED BY <2>2, <2>3, <2>5, <3>2, <3>3, <3>4, <3>5, <3>6
  <2> QED BY <2>3, <2>4, <2>5 DEF Back
<1> QED BY <1>2, <1>3, <1>4, <1>5, <1>6 DEF ParseLine

-----------------------------------------------------------------------------
(* Every text.                                                             *)

Inv ==
  /\ TypeOK
  /\ BackIsBoundsReport
  /\ \A r \in Reports : logged[r] <= Len(LinesOf[r])

LEMMA InvInit == Init => Inv
<1> SUFFICES ASSUME Init
             PROVE  Inv
  OBVIOUS
<1>1. findings \in Seq(Findings) /\ order \in Seq(Reports) /\ box.rows \in Seq(BoxRows)
  BY DEF Init, NoBox
<1>2. box \in [open : BOOLEAN, rows : Seq(BoxRows)]
  BY DEF Init, NoBox
<1>3. ASSUME NEW r \in Reports
      PROVE  logged[r] <= Len(LinesOf[r])
  <2>1. Len(LinesOf[r]) \in Nat
    BY LinesAreTyped, LenProperties
  <2>2. logged[r] = 0
    BY DEF Init
  <2> QED BY <2>1, <2>2
<1> QED
  BY <1>1, <1>2, <1>3 DEF Init, Inv, TypeOK, BackIsBoundsReport

LEMMA InvStep == Inv /\ [Next]_vars => Inv'
<1> SUFFICES ASSUME Inv, [Next]_vars
             PROVE  Inv'
  OBVIOUS
<1> USE DEF Inv, TypeOK
<1>1. ASSUME NEW r \in Reports, LogLine(r)
      PROVE  Inv'
  <2> DEFINE line == NextLine(r)
  <2>1. /\ LinesOf[r] \in Seq(AnyLine) /\ Len(LinesOf[r]) \in Nat
        /\ logged[r] \in Nat /\ logged[r] < Len(LinesOf[r])
    BY <1>1, LinesAreTyped, LenProperties DEF LogLine, Complete
  <2>2. line \in AnyLine
    BY <2>1 DEF NextLine
  <2> HIDE DEF line
  <2>3. ParserTypeOK' /\ BackIsBoundsReport'
    BY <1>1, <2>2, ParserStep DEF LogLine, ParserTypeOK, line
  <2>4. logged' = [logged EXCEPT ![r] = @ + 1]
    BY <1>1 DEF LogLine
  <2>5. logged' \in [Reports -> Nat] /\ \A q \in Reports : logged'[q] <= Len(LinesOf[q])
    BY <2>1, <2>4
  <2>6. order' \in Seq(Reports) /\ cut' \subseteq Reports /\ split' \subseteq Reports
    BY <1>1 DEF LogLine
  <2> QED BY <2>3, <2>5, <2>6 DEF ParserTypeOK
<1>2. CASE LogNoise
  <2>1. PICK kind \in {"plain", "indented"} :
          /\ ParseLine(Plain(kind, Nobody))
          /\ split' = IF kind = "indented" THEN split
                      ELSE split \cup {r \in Reports : UnderWay(r) /\ Kind[r] = "bounds"}
    BY <1>2 DEF LogNoise
  <2>2. Plain(kind, Nobody) \in AnyLine
    <3>1. Nobody \in Owners
      BY DEF Owners
    <3>2. kind \in Kinds
      BY DEF Kinds
    <3>3. NoRule \in 1..NoRule
      BY DEF NoRule, LastRule
    <3> QED BY <3>1, <3>2, <3>3, LineIsTyped DEF Plain
  <2>3. ParserTypeOK' /\ BackIsBoundsReport'
    BY <2>1, <2>2, ParserStep DEF ParserTypeOK
  <2>4. split' \subseteq Reports
    BY <2>1
  <2>5. UNCHANGED <<logged, cut, order>>
    BY <1>2 DEF LogNoise
  <2> HIDE DEF TypeOK
  <2>6. TypeOK'
    BY <2>3, <2>4, <2>5 DEF TypeOK, ParserTypeOK
  <2> QED BY <2>3, <2>5, <2>6
<1>3. ASSUME NEW r \in Reports, CutOff(r)
      PROVE  Inv'
  BY <1>3 DEF CutOff, parserVars, BackIsBoundsReport, Back
<1>4. CASE UNCHANGED vars
  BY <1>4 DEF vars, parserVars, textVars, BackIsBoundsReport, Back
<1> QED BY <1>1, <1>2, <1>3, <1>4 DEF Next

(* Every variable of the parser keeps its type on every text: a box never  *)
(* gives a finding without a rule.                                         *)
THEOREM ParserTypeCorrect == Spec => []TypeOK
<1>1. Inv => TypeOK
  BY DEF Inv
<1> QED BY InvInit, InvStep, <1>1, PTL DEF Spec

(* findings.back() is only touched while it is the bounds report that goes *)
(* on, whatever the text.                                                  *)
THEOREM BackIsAlwaysBoundsReport == Spec => []BackIsBoundsReport
<1>1. Inv => BackIsBoundsReport
  BY DEF Inv
<1> QED BY InvInit, InvStep, <1>1, PTL DEF Spec

-----------------------------------------------------------------------------
(* The findings are the reports, for any reports logged one after the      *)
(* other, whole or cut off, with the program's own lines between theirs,   *)
(* and for any boxes.  The invariant.                                      *)

(* Only the last report of the text can be under way.                      *)
TextInv ==
  /\ \A r \in Reports : UnderWay(r) => order # <<>> /\ order[Len(order)] = r
  /\ \A r \in InThisText : Started(r)
  /\ \A a, b \in DOMAIN order : order[a] = order[b] => a = b

(* Row k of the box is row i of the report, of which n are logged, with    *)
(* all the rows up to the next label joined to it.                         *)
RowTells(rows, k, r, i, n) ==
  LET R == Rows[r]
      row == rows[k]
      to == i + Len(row.more)
  IN  /\ row.kind = R[i].kind /\ row.rule = R[i].rule /\ row.rest = R[i].rest
      /\ row.from = r /\ OwnLines(row.more, r)
      /\ \A j \in (i + 1)..to : R[j].kind = "more"
      /\ IF k = Len(rows) THEN to = n ELSE to < n /\ R[to + 1].kind # "more"

BoxTells(rows, r, n) ==
  /\ \A k \in DOMAIN rows : \E i \in 1..n : Rows[r][i].kind # "more" /\ RowTells(rows, k, r, i, n)
  /\ \A i \in 1..n : Rows[r][i].kind # "more" => \E k \in DOMAIN rows : RowTells(rows, k, r, i, n)

BoxUnderWay(r) == UnderWay(r) /\ Kind[r] = "box"

BoxInv ==
  /\ box.open => \E r \in Reports : BoxUnderWay(r)
  /\ \A r \in Reports : BoxUnderWay(r) => box.open /\ BoxTells(box.rows, r, logged[r] - 1)

Reported(r) == Kind[r] \notin {"info_box", "leaks_detected"}

(* The findings are the reports of the text, but for the box under way;    *)
(* the bounds report under way is the last.                                *)
OneEach ==
  /\ \A i \in DOMAIN findings :
       LET r == findings[i].of
       IN  r \in InThisText /\ Reported(r) /\ (Kind[r] = "box" => Complete(r))
  /\ \A r \in InThisText : Reported(r) /\ ~BoxUnderWay(r) =>
       \E i \in DOMAIN findings : findings[i].of = r
  /\ \A i, j \in DOMAIN findings : i < j => Before(order, findings[i].of, findings[j].of)
  /\ \A r \in Reports : UnderWay(r) /\ Kind[r] = "bounds" =>
       /\ findings # <<>> /\ findings[Back].of = r
       /\ r \notin split => in_bounds_report

Ruled(f) ==
  Kind[f.of] = "box" => f.rule \in WarningsOf(f.of) /\ \A n \in WarningsOf(f.of) : f.rule <= n

(* The sites a finding has when n lines of its report are logged; whole:   *)
(* none of the program's lines came between them.                          *)
Sited(f, n, whole) ==
  /\ OwnLines(f.location, f.of) /\ OwnLines(f.allocation, f.of)
  /\ Kind[f.of] = "box" => Len(f.location) \in SiteLines(f.of) /\ Len(f.allocation) = 0
  /\ Kind[f.of] = "leak" => Len(f.location) = 0 /\ Len(f.allocation) = 1
  /\ Kind[f.of] = "double_free" => Len(f.location) = 1 /\ Len(f.allocation) = 1
  /\ Kind[f.of] = "bounds" /\ whole => /\ n >= 2 => Len(f.location) = 1
                                       /\ n >= 3 => Len(f.allocation) = 1

FindingsTell ==
  \A i \in DOMAIN findings :
    LET f == findings[i] IN Ruled(f) /\ Sited(f, logged[f.of], f.of \notin split)

ReportInv == TextInv /\ (BoxesAreWhole => BoxInv /\ OneEach /\ FindingsTell)
-----------------------------------------------------------------------------
(* The lines of a report.                                                  *)

LEMMA OneLineReports ==
  ASSUME NEW r \in Reports, Kind[r] \in {"leak", "double_free", "leaks_detected"}
  PROVE  Len(LinesOf[r]) = 1 /\ LinesOf[r][1] = Plain(Kind[r], r)
BY DEF LinesOf

LEMMA ThreeLineReports ==
  ASSUME NEW r \in Reports
  PROVE  /\ Kind[r] = "bounds" =>
              /\ Len(LinesOf[r]) = 3 /\ LinesOf[r][1] = Plain("bounds", r)
              /\ LinesOf[r][2] = Plain("access", r) /\ LinesOf[r][3] = Plain("alloc_site", r)
         /\ Kind[r] = "info_box" =>
              /\ Len(LinesOf[r]) = 3
              /\ \A n \in 1..3 : LinesOf[r][n].kind \in {"info", "site", "close"}
<1>1. CASE Kind[r] = "bounds"
  BY <1>1 DEF LinesOf
<1>2. CASE Kind[r] = "info_box"
  <2>1. LinesOf[r] = <<Plain("info", r), Plain("site", r), Plain("close", r)>>
    BY <1>2 DEF LinesOf
  <2>2. ASSUME NEW n \in 1..3
        PROVE  LinesOf[r][n].kind \in {"info", "site", "close"}
    <3>1. n = 1 \/ n = 2 \/ n = 3
      OBVIOUS
    <3> QED BY <2>1, <3>1 DEF Plain, Line
  <2> QED BY <1>2, <2>1, <2>2
<1> QED BY <1>1, <1>2

RowLine(r, i) == Line(Rows[r][i].kind, r, Rows[r][i].rule, Rows[r][i].rest)

LEMMA RowsAreTyped ==
  ASSUME NEW r \in Reports
  PROVE  /\ Rows[r] \in Seq(RowsOfBoxes) /\ Len(Rows[r]) \in Nat /\ DOMAIN Rows[r] = 1..Len(Rows[r])
         /\ \A i \in 1..Len(Rows[r]) : /\ Rows[r][i].kind \in RowKinds
                                       /\ Rows[r][i].rule \in 1..NoRule /\ Rows[r][i].rest \in Nat
<1>1. Rows[r] \in Seq(RowsOfBoxes)
  BY ReportsAssumption
<1>2. Len(Rows[r]) \in Nat /\ DOMAIN Rows[r] = 1..Len(Rows[r])
  BY <1>1, LenProperties
<1>3. \A i \in 1..Len(Rows[r]) : Rows[r][i] \in RowsOfBoxes
  BY <1>1, ElementOfSeq
<1> QED BY <1>1, <1>2, <1>3 DEF RowsOfBoxes

LEMMA BoxReports ==
  ASSUME NEW r \in Reports, Kind[r] = "box"
  PROVE  /\ Len(LinesOf[r]) = Len(Rows[r]) + 2
         /\ LinesOf[r][1] = Plain("open", r)
         /\ \A i \in 1..Len(Rows[r]) : LinesOf[r][i + 1] = RowLine(r, i)
         /\ LinesOf[r][Len(Rows[r]) + 2] = Plain("close", r)
<1> DEFINE R == Rows[r]
           L == [i \in DOMAIN R |-> Line(R[i].kind, r, R[i].rule, R[i].rest)]
           open == <<Plain("open", r)>>
           close == <<Plain("close", r)>>
           S == {Plain("open", r), Plain("close", r)} \cup {RowLine(r, i) : i \in 1..Len(R)}
<1>1. LinesOf[r] = open \o L \o close
  BY DEF LinesOf
<1>2. Len(R) \in Nat /\ DOMAIN R = 1..Len(R)
  BY RowsAreTyped
<1>3. L \in [1..Len(R) -> S]
  BY <1>2 DEF RowLine
<1>4. L \in Seq(S) /\ Len(L) = Len(R) /\ \A i \in 1..Len(R) : L[i] = RowLine(r, i)
  BY <1>2, <1>3 DEF RowLine
<1>5. open \in Seq(S) /\ close \in Seq(S) /\ Len(open) = 1 /\ Len(close) = 1
      /\ open[1] = Plain("open", r) /\ close[1] = Plain("close", r)
  <2>1. Plain("open", r) \in S /\ Plain("close", r) \in S
    OBVIOUS
  <2> QED BY <2>1, ShortSequences
<1> HIDE DEF R, L, open, close, S
<1>6. /\ open \o L \in Seq(S) /\ Len(open \o L) = Len(R) + 1
      /\ \A i \in 1..(Len(R) + 1) : (open \o L)[i] = IF i <= 1 THEN open[i] ELSE L[i - 1]
  <2>1. /\ open \o L \in Seq(S) /\ Len(open \o L) = Len(open) + Len(L)
        /\ \A i \in 1..(Len(open) + Len(L)) :
             (open \o L)[i] = IF i <= Len(open) THEN open[i] ELSE L[i - Len(open)]
    <3>1. open \in Seq(S) /\ L \in Seq(S)
      BY <1>4, <1>5
    <3> QED BY ONLY <3>1, ConcatProperties
  <2>2. Len(open) + Len(L) = Len(R) + 1
    BY <1>2, <1>4, <1>5
  <2> QED BY <1>5, <2>1, <2>2
<1>7. /\ Len(LinesOf[r]) = Len(R) + 2
      /\ \A i \in 1..(Len(R) + 2) :
           LinesOf[r][i] = IF i <= Len(R) + 1 THEN (open \o L)[i] ELSE close[i - (Len(R) + 1)]
  <2> DEFINE M == open \o L
  <2>1. M \in Seq(S) /\ Len(M) = Len(R) + 1
    BY <1>6
  <2> HIDE DEF M
  <2>2. /\ Len(M \o close) = Len(M) + Len(close)
        /\ \A i \in 1..(Len(M) + Len(close)) :
             (M \o close)[i] = IF i <= Len(M) THEN M[i] ELSE close[i - Len(M)]
    BY <1>5, <2>1, ConcatProperties
  <2>3. Len(M) + Len(close) = Len(R) + 2
    BY <1>2, <1>5, <2>1
  <2>4. LinesOf[r] = M \o close
    BY <1>1 DEF M
  <2>5. /\ Len(LinesOf[r]) = Len(R) + 2
        /\ \A i \in 1..(Len(R) + 2) :
             LinesOf[r][i] = IF i <= Len(R) + 1 THEN M[i] ELSE close[i - (Len(R) + 1)]
    BY <2>1, <2>2, <2>3, <2>4
  <2> QED BY <2>5 DEF M
<1>8. LinesOf[r][1] = Plain("open", r)
  BY <1>2, <1>5, <1>6, <1>7
<1>9. ASSUME NEW i \in 1..Len(R)
      PROVE  LinesOf[r][i + 1] = RowLine(r, i)
  <2>1. /\ i + 1 \in 1..(Len(R) + 2) /\ i + 1 \in 1..(Len(R) + 1) /\ i + 1 <= Len(R) + 1
        /\ ~(i + 1 <= 1) /\ (i + 1) - 1 = i
    BY <1>2
  <2> QED BY <1>4, <1>6, <1>7, <2>1
<1>10. LinesOf[r][Len(R) + 2] = Plain("close", r)
  <2>1. /\ Len(R) + 2 \in 1..(Len(R) + 2) /\ ~(Len(R) + 2 <= Len(R) + 1)
        /\ (Len(R) + 2) - (Len(R) + 1) = 1
    BY <1>2
  <2> QED BY <1>5, <1>7, <2>1
<1> QED BY <1>7, <1>8, <1>9, <1>10 DEF R
-----------------------------------------------------------------------------
(* The rows of a box.                                                      *)

LEMMA FirstRow ==
  ASSUME NEW r \in Reports, Kind[r] = "box"
  PROVE  1 \in DOMAIN Rows[r] /\ Rows[r][1].kind # "more"
<1>1. PICK i \in DOMAIN Rows[r] : Rows[r][i].kind = "site"
  BY RowsAssumption
<1>2. Rows[r][1].kind # "more"
  BY RowsAssumption
<1> QED BY <1>1, <1>2, RowsAreTyped

LEMMA NoRowsYet == ASSUME NEW r PROVE BoxTells(<<>>, r, 0)
BY DEF BoxTells

(* A row with a label begins a row of the box. *)
LEMMA RowAdded ==
  ASSUME NEW rows \in Seq(BoxRows), NEW r \in Reports, Kind[r] = "box",
         NEW n \in 1..Len(Rows[r]), BoxTells(rows, r, n - 1),
         Rows[r][n].kind # "more", Row(RowLine(r, n)) \in BoxRows
  PROVE  BoxTells(Append(rows, Row(RowLine(r, n))), r, n)
<1> DEFINE R == Rows[r]
           row == Row(RowLine(r, n))
           more == Append(rows, row)
<1>1. /\ Len(rows) \in Nat /\ DOMAIN rows = 1..Len(rows) /\ n \in Nat
      /\ Len(more) = Len(rows) + 1 /\ DOMAIN more = 1..(Len(rows) + 1)
      /\ \A k \in 1..Len(rows) : more[k] = rows[k]
      /\ more[Len(rows) + 1] = row
  <2>1. more \in Seq(BoxRows) /\ rows \in Seq(BoxRows)
    BY AppendProperties
  <2> HIDE DEF row
  <2> QED BY <2>1, AppendProperties, LenProperties, RowsAreTyped
<1>2. row.kind = R[n].kind /\ row.rule = R[n].rule /\ row.rest = R[n].rest /\ row.from = r
      /\ row.more = <<>>
  BY DEF Row, RowLine, Line
<1> HIDE DEF more, row
<1>3. ASSUME NEW k \in 1..Len(rows), NEW i \in 1..(n - 1), RowTells(rows, k, r, i, n - 1)
      PROVE  RowTells(more, k, r, i, n)
  <2> DEFINE to == i + Len(rows[k].more)
  <2>1. Len(rows[k].more) \in Nat /\ to \in Nat
    <3>1. rows[k] \in BoxRows
      BY ElementOfSeq
    <3>2. rows[k].more \in Seq(Reports)
      BY <3>1 DEF BoxRows
    <3> QED BY <3>2, LenProperties
  <2>2. more[k] = rows[k] /\ k # Len(more) /\ R[n].kind # "more"
    BY <1>1
  <2>3. IF k = Len(rows) THEN to = n - 1 ELSE to < n - 1 /\ R[to + 1].kind # "more"
    BY <1>3 DEF RowTells
  <2>4. to < n /\ R[to + 1].kind # "more"
    <3> HIDE DEF to
    <3>1. CASE k = Len(rows)
      <4>1. to + 1 = n /\ to < n
        BY <1>1, <2>1, <2>3, <3>1
      <4> QED BY <2>2, <4>1
    <3>2. CASE k # Len(rows)
      <4>1. to < n - 1 /\ R[to + 1].kind # "more"
        BY <2>3, <3>2
      <4> QED BY <1>1, <2>1, <4>1
    <3> QED BY <3>1, <3>2
  <2> QED BY <1>3, <2>2, <2>4 DEF RowTells
<1>4. RowTells(more, Len(rows) + 1, r, n, n)
  BY <1>1, <1>2 DEF RowTells, OwnLines
<1>5. ASSUME NEW k \in DOMAIN more
      PROVE  \E i \in 1..n : R[i].kind # "more" /\ RowTells(more, k, r, i, n)
  <2>1. CASE k = Len(rows) + 1
    BY <1>1, <1>4, <2>1
  <2>2. CASE k \in DOMAIN rows
    <3>1. PICK i \in 1..(n - 1) : R[i].kind # "more" /\ RowTells(rows, k, r, i, n - 1)
      BY <2>2 DEF BoxTells
    <3>2. RowTells(more, k, r, i, n) /\ i \in 1..n
      BY <1>1, <1>3, <2>2, <3>1
    <3> QED BY <3>1, <3>2
  <2> QED BY <1>1, <2>1, <2>2
<1>6. ASSUME NEW i \in 1..n, R[i].kind # "more"
      PROVE  \E k \in DOMAIN more : RowTells(more, k, r, i, n)
  <2>1. CASE i = n
    BY <1>1, <1>4, <2>1
  <2>2. CASE i \in 1..(n - 1)
    <3>1. PICK k \in DOMAIN rows : RowTells(rows, k, r, i, n - 1)
      BY <1>6, <2>2 DEF BoxTells
    <3> QED BY <1>1, <1>3, <2>2, <3>1
  <2> QED BY <1>1, <2>1, <2>2
<1> QED BY <1>5, <1>6 DEF BoxTells, more, row

(* A row without a label goes on with the last row of the box. *)
LEMMA RowJoined ==
  ASSUME NEW rows \in Seq(BoxRows), NEW r \in Reports, Kind[r] = "box",
         NEW n \in 1..Len(Rows[r]), BoxTells(rows, r, n - 1), Rows[r][n].kind = "more"
  PROVE  /\ rows # <<>>
         /\ BoxTells([rows EXCEPT ![Len(rows)].more = Append(@, r)], r, n)
<1> DEFINE R == Rows[r]
           last == Len(rows)
           more == [rows EXCEPT ![last].more = Append(@, r)]
<1>1. last \in Nat /\ DOMAIN rows = 1..last /\ \A k \in 1..last : rows[k] \in BoxRows
  BY LenProperties, ElementOfSeq
<1>2. n # 1 /\ n \in Nat
  BY FirstRow, RowsAreTyped
<1>3. PICK k \in DOMAIN rows : RowTells(rows, k, r, 1, n - 1)
  <2>1. 1 \in 1..(n - 1)
    BY <1>2
  <2> QED BY <2>1, FirstRow DEF BoxTells
<1>4. last \in 1..last /\ rows # <<>>
  BY <1>1, <1>3
<1>5. rows[last].more \in Seq(Reports) /\ r \in Owners
  BY <1>1, <1>4 DEF BoxRows, Owners
<1>6. /\ Len(Append(rows[last].more, r)) = Len(rows[last].more) + 1
      /\ \A j \in 1..Len(rows[last].more) : Append(rows[last].more, r)[j] = rows[last].more[j]
      /\ Append(rows[last].more, r)[Len(rows[last].more) + 1] = r
      /\ Append(rows[last].more, r) \in Seq(Reports)
      /\ Len(rows[last].more) \in Nat
  BY <1>5, AppendProperties, LenProperties
<1>7. /\ DOMAIN more = 1..last /\ Len(more) = last
      /\ \A k2 \in 1..last : k2 # last => more[k2] = rows[k2]
      /\ more[last] = [rows[last] EXCEPT !.more = Append(@, r)]
  BY <1>1, <1>4
<1>8. /\ more[last].kind = rows[last].kind /\ more[last].rule = rows[last].rule
      /\ more[last].rest = rows[last].rest /\ more[last].from = rows[last].from
      /\ more[last].more = Append(rows[last].more, r)
  BY <1>1, <1>4, <1>7 DEF BoxRows
<1> HIDE DEF more, last
<1>9. ASSUME NEW k2 \in 1..last, NEW i \in 1..(n - 1), RowTells(rows, k2, r, i, n - 1)
      PROVE  RowTells(more, k2, r, i, n)
  <2>1. CASE k2 # last
    <3> DEFINE to == i + Len(rows[k2].more)
    <3>1. Len(rows[k2].more) \in Nat /\ to \in Nat
      BY <1>1, LenProperties DEF BoxRows
    <3>2. more[k2] = rows[k2] /\ k2 # Len(more) /\ k2 # Len(rows)
      BY <1>7, <2>1 DEF last
    <3>3. to < n - 1 /\ R[to + 1].kind # "more"
      BY <1>9, <3>2 DEF RowTells
    <3>4. to < n
      BY <1>2, <3>1, <3>3
    <3> QED BY <1>9, <3>2, <3>3, <3>4 DEF RowTells
  <2>2. CASE k2 = last
    <3> DEFINE m == Len(rows[last].more)
    <3>1. /\ rows[last].kind = R[i].kind /\ rows[last].rule = R[i].rule
          /\ rows[last].rest = R[i].rest /\ rows[last].from = r /\ OwnLines(rows[last].more, r)
          /\ \A j \in (i + 1)..(i + m) : R[j].kind = "more"
          /\ i + m = n - 1
      BY <1>9, <2>2 DEF RowTells, last
    <3>2. Len(more[last].more) = m + 1 /\ m \in Nat
      BY <1>6, <1>8
    <3>3. OwnLines(more[last].more, r)
      <4>1. DOMAIN rows[last].more = 1..m /\ DOMAIN Append(rows[last].more, r) = 1..(m + 1)
        BY <1>5, <1>6, LenProperties
      <4>2. \A j \in 1..m : rows[last].more[j] = r
        BY <3>1, <4>1 DEF OwnLines
      <4> DEFINE t == Append(rows[last].more, r)
      <4>3. /\ DOMAIN t = 1..(m + 1) /\ \A j \in 1..m : t[j] = r
            /\ t[m + 1] = r /\ more[last].more = t
        BY <1>6, <1>8, <4>1, <4>2
      <4> HIDE DEF t, m
      <4>4. \A j \in DOMAIN t : t[j] = r
        BY <3>2, <4>3
      <4> QED BY <4>3, <4>4 DEF OwnLines
    <3>6. i + m = n - 1 /\ m \in Nat
      BY <3>1, <3>2
    <3> HIDE DEF m
    <3>4. i + (m + 1) = n
      BY <1>2, <3>6
    <3>5. \A j \in (i + 1)..(i + (m + 1)) : R[j].kind = "more"
      BY <1>2, <3>1, <3>2, <3>4
    <3> QED BY <1>7, <1>8, <2>2, <3>1, <3>2, <3>3, <3>4, <3>5 DEF RowTells
  <2> QED BY <2>1, <2>2
<1>10. ASSUME NEW k2 \in DOMAIN more
       PROVE  \E i \in 1..n : R[i].kind # "more" /\ RowTells(more, k2, r, i, n)
  <2>1. k2 \in DOMAIN rows
    BY <1>1, <1>7, <1>10
  <2>2. PICK i \in 1..(n - 1) : R[i].kind # "more" /\ RowTells(rows, k2, r, i, n - 1)
    BY <2>1 DEF BoxTells
  <2> QED BY <1>1, <1>2, <1>9, <2>1, <2>2
<1>11. ASSUME NEW i \in 1..n, R[i].kind # "more"
       PROVE  \E k2 \in DOMAIN more : RowTells(more, k2, r, i, n)
  <2>1. i \in 1..(n - 1)
    BY <1>2, <1>11
  <2>2. PICK k2 \in DOMAIN rows : RowTells(rows, k2, r, i, n - 1)
    BY <1>11, <2>1 DEF BoxTells
  <2> QED BY <1>1, <1>7, <1>9, <2>1, <2>2
<1> QED BY <1>4, <1>10, <1>11 DEF BoxTells, more, last

(* What the last row of a site or a warning is joined from. *)
LEMMA RowIsWhole ==
  ASSUME NEW rows \in Seq(BoxRows), NEW r \in Reports, Kind[r] = "box",
         NEW k \in DOMAIN rows, NEW i \in 1..Len(Rows[r]),
         RowTells(rows, k, r, i, Len(Rows[r]))
  PROVE  /\ Rows[r][i].kind = "warn" => Rows[r][i].rest <= Len(rows[k].more)
         /\ Rows[r][i].kind = "site" => Rows[r][i].rest = Len(rows[k].more)
<1> DEFINE R == Rows[r]
           m == Len(rows[k].more)
           rest == R[i].rest
<1>1. /\ Len(R) \in Nat /\ DOMAIN R = 1..Len(R) /\ rest \in Nat /\ i \in 1..Len(R)
  BY RowsAreTyped
<1>2. rows[k] \in BoxRows
  BY LenProperties
<1>3. rows[k].more \in Seq(Reports)
  BY <1>2 DEF BoxRows
<1>4. m \in Nat
  BY <1>3, LenProperties
<1>5. /\ i + m <= Len(R) /\ \A j \in (i + 1)..(i + m) : R[j].kind = "more"
      /\ i + m = Len(R) \/ R[(i + m) + 1].kind # "more"
  <2>1. /\ \A j \in (i + 1)..(i + m) : R[j].kind = "more"
        /\ i + m = Len(R) \/ (i + m < Len(R) /\ R[(i + m) + 1].kind # "more")
    BY DEF RowTells
  <2> QED BY <1>1, <1>4, <2>1
<1>6. R[i].kind = "warn" \/ R[i].kind = "site" => GoesOnIn(R, i, rest)
  BY <1>1, RowsAssumption
<1>7. R[i].kind = "site" => ~GoesOnIn(R, i, rest + 1)
  BY <1>1, RowsAssumption
<1> HIDE DEF R, m, rest
<1>8. GoesOnIn(R, i, rest) => rest <= m
  <2> SUFFICES ASSUME GoesOnIn(R, i, rest), ~(rest <= m)
               PROVE  FALSE
    OBVIOUS
  <2>1. m + 1 \in 1..rest
    BY <1>1, <1>4
  <2>2. i + (m + 1) \in DOMAIN R /\ R[i + (m + 1)].kind = "more"
    BY <2>1 DEF GoesOnIn
  <2>3. i + (m + 1) = (i + m) + 1 /\ i + m \in Nat
    BY <1>1, <1>4
  <2>4. (i + m) + 1 \in 1..Len(R) /\ R[(i + m) + 1].kind = "more"
    BY <1>1, <2>2, <2>3
  <2>5. i + m = Len(R)
    BY <1>5, <2>4
  <2> QED BY <1>1, <2>4, <2>5
<1>9. m > rest => GoesOnIn(R, i, rest + 1)
  <2> SUFFICES ASSUME m > rest, NEW j \in 1..(rest + 1)
               PROVE  i + j \in DOMAIN R /\ R[i + j].kind = "more"
    BY DEF GoesOnIn
  <2>1. j \in Nat /\ 1 <= j /\ j <= m
    BY <1>1, <1>4
  <2>2. i + m <= Len(R)
    BY <1>5
  <2>3. i + j \in (i + 1)..(i + m) /\ i + j \in 1..Len(R)
    BY <1>1, <1>4, <2>1, <2>2
  <2> QED BY <1>1, <1>5, <2>3
<1>10. /\ R[i].kind = "warn" => rest <= m
       /\ R[i].kind = "site" => rest = m
  BY <1>1, <1>4, <1>6, <1>7, <1>8, <1>9
<1> QED BY <1>10 DEF R, m, rest

(* A box that is closed has the least of its rules and one of its sites,   *)
(* with all of its lines.                                                  *)
LEMMA BoxAtEnd ==
  ASSUME NEW rows \in Seq(BoxRows), NEW r \in Reports, Kind[r] = "box",
         BoxTells(rows, r, Len(Rows[r])), NEW n, NEW whole
  PROVE  /\ WarnRows(rows) # {}
         /\ ToFinding(rows).of = r
         /\ Ruled(ToFinding(rows)) /\ Sited(ToFinding(rows), n, whole)
<1> DEFINE R == Rows[r]
           f == ToFinding(rows)
           Tells(k, i) == RowTells(rows, k, r, i, Len(R))
<1>1. /\ Len(R) \in Nat /\ DOMAIN R = 1..Len(R)
      /\ Len(rows) \in Nat /\ DOMAIN rows = 1..Len(rows)
      /\ \A k \in DOMAIN rows : rows[k] \in BoxRows
  BY RowsAreTyped, LenProperties
<1>2. \A k \in DOMAIN rows : \E i \in 1..Len(R) : Tells(k, i)
  BY DEF BoxTells
<1>3. \A i \in 1..Len(R) : R[i].kind # "more" => \E k \in DOMAIN rows : Tells(k, i)
  BY DEF BoxTells
<1>4. \A k \in DOMAIN rows, i \in 1..Len(R) : Tells(k, i) =>
        rows[k].kind = R[i].kind /\ rows[k].from = r /\ OwnLines(rows[k].more, r)
        /\ rows[k].rule = R[i].rule /\ rows[k].rest = R[i].rest
  BY DEF RowTells
<1>5. ASSUME NEW k \in DOMAIN rows, NEW i \in 1..Len(R), Tells(k, i), R[i].kind = "warn"
      PROVE  RuleOfRow(rows[k]) = R[i].rule
  <2>1. R[i].rest <= Len(rows[k].more)
    BY <1>5, RowIsWhole
  <2>2. rows[k].more \in Seq(Reports)
    BY <1>1 DEF BoxRows
  <2>3. DOMAIN rows[k].more = 1..Len(rows[k].more) /\ Len(rows[k].more) \in Nat
    BY <2>2, LenProperties
  <2>4. R[i].rest \in Nat
    BY RowsAreTyped
  <2>5. \A j \in 1..rows[k].rest : j \in DOMAIN rows[k].more /\ rows[k].more[j] = rows[k].from
    <3>1. rows[k].rest = R[i].rest /\ rows[k].from = r /\ OwnLines(rows[k].more, r)
      BY <1>4, <1>5
    <3> QED BY <2>1, <2>3, <2>4, <3>1 DEF OwnLines
  <2>6. rows[k].rule = R[i].rule
    BY <1>4, <1>5
  <2> QED BY <2>5, <2>6 DEF RuleOfRow
<1>6. RulesOf(rows) = WarningsOf(r) /\ WarningsOf(r) # {} /\ WarnRows(rows) # {}
  <2>1. ASSUME NEW k \in WarnRows(rows)
        PROVE  RuleOfRow(rows[k]) \in WarningsOf(r)
    <3>1. k \in DOMAIN rows /\ rows[k].kind = "warn"
      BY DEF WarnRows
    <3>2. PICK i \in 1..Len(R) : Tells(k, i)
      BY <1>2, <3>1
    <3>3. R[i].kind = "warn" /\ i \in DOMAIN R
      BY <1>1, <1>4, <3>1, <3>2
    <3>4. RuleOfRow(rows[k]) = R[i].rule
      BY <1>5, <3>1, <3>2, <3>3
    <3> QED BY <3>3, <3>4 DEF WarningsOf
  <2>2. ASSUME NEW i \in DOMAIN R, R[i].kind = "warn"
        PROVE  \E k \in WarnRows(rows) : RuleOfRow(rows[k]) = R[i].rule
    <3>1. PICK k \in DOMAIN rows : Tells(k, i)
      BY <1>1, <1>3, <2>2
    <3>2. rows[k].kind = "warn"
      BY <1>1, <1>4, <2>2, <3>1
    <3>3. RuleOfRow(rows[k]) = R[i].rule
      BY <1>1, <1>5, <2>2, <3>1
    <3> QED BY <3>2, <3>3 DEF WarnRows
  <2>3. PICK i \in DOMAIN R : R[i].kind = "warn"
    BY RowsAssumption
  <2>4. WarnRows(rows) # {} /\ R[i].rule \in WarningsOf(r)
    BY <2>2, <2>3 DEF WarningsOf
  <2>5. \A x \in RulesOf(rows) : x \in WarningsOf(r)
    BY <2>1 DEF RulesOf
  <2>6. \A x \in WarningsOf(r) : x \in RulesOf(rows)
    BY <2>2 DEF RulesOf, WarningsOf
  <2> QED BY <2>4, <2>5, <2>6
<1>7. MostSpecific(rows) \in WarningsOf(r) /\ \A m \in WarningsOf(r) : MostSpecific(rows) <= m
  <2>1. WarningsOf(r) \subseteq Nat
    <3>1. \A i \in DOMAIN Rows[r] : Rows[r][i].rule \in Nat
      <4>1. \A m \in 1..NoRule : m \in Nat
        BY DEF NoRule, LastRule
      <4> QED BY <4>1, RowsAreTyped
    <3> QED BY <3>1 DEF WarningsOf
  <2>2. \E least \in WarningsOf(r) : \A m \in WarningsOf(r) : least <= m
    BY <1>6, <2>1, LeastNumber
  <2> QED BY <1>6, <2>2 DEF MostSpecific
<1>8. rows[CHOOSE k \in WarnRows(rows) : TRUE].from = r
  <2> DEFINE k == CHOOSE k \in WarnRows(rows) : TRUE
  <2>1. k \in DOMAIN rows
    BY <1>6 DEF WarnRows
  <2> HIDE DEF k
  <2>2. rows[k].from = r
    BY <1>2, <1>4, <2>1
  <2> QED BY <2>2 DEF k
<1>9. OwnLines(SiteOf(rows), r) /\ Len(SiteOf(rows)) \in SiteLines(r)
  <2> DEFINE k == CHOOSE k \in SiteRows(rows) : \A j \in SiteRows(rows) : j <= k
  <2>1. PICK s \in DOMAIN R : R[s].kind = "site"
    BY RowsAssumption
  <2>2. SiteRows(rows) # {}
    <3>1. PICK k1 \in DOMAIN rows : Tells(k1, s)
      BY <1>1, <1>3, <2>1
    <3> QED BY <1>1, <1>4, <2>1, <3>1 DEF SiteRows
  <2>3. SiteRows(rows) \subseteq 1..Len(rows)
    BY <1>1 DEF SiteRows
  <2>4. \E k1 \in SiteRows(rows) : \A j \in SiteRows(rows) : j <= k1
    BY <1>1, <2>2, <2>3, LastPosition
  <2>5. k \in SiteRows(rows)
    BY <2>4
  <2>6. SiteOf(rows) = <<rows[k].from>> \o rows[k].more
    BY <2>2 DEF SiteOf
  <2> HIDE DEF k
  <2>7. k \in DOMAIN rows /\ rows[k].kind = "site"
    BY <2>5 DEF SiteRows
  <2>8. PICK i \in 1..Len(R) : Tells(k, i)
    BY <1>2, <2>7
  <2>9. R[i].kind = "site" /\ rows[k].from = r /\ OwnLines(rows[k].more, r) /\ i \in DOMAIN R
    BY <1>1, <1>4, <2>7, <2>8
  <2>10. R[i].rest = Len(rows[k].more)
    BY <2>7, <2>8, <2>9, RowIsWhole
  <2>11. rows[k].more \in Seq(Reports) /\ r \in Owners
    BY <1>1, <2>7 DEF BoxRows, Owners
  <2> DEFINE more == rows[k].more
  <2>12. /\ Len(<<r>> \o more) = 1 + Len(more) /\ <<r>> \o more \in Seq(Reports)
         /\ \A j \in 1..(1 + Len(more)) : (<<r>> \o more)[j] = IF j <= 1 THEN r ELSE more[j - 1]
    <3>1. <<r>> \in Seq(Reports) /\ Len(<<r>>) = 1 /\ <<r>>[1] = r
      BY <2>11, ShortSequences
    <3> HIDE DEF more
    <3>2. more \in Seq(Reports) /\ Len(more) \in Nat
      BY <2>11, LenProperties DEF more
    <3>3. /\ Len(<<r>> \o more) = Len(<<r>>) + Len(more) /\ <<r>> \o more \in Seq(Reports)
          /\ \A j \in 1..(Len(<<r>>) + Len(more)) :
               (<<r>> \o more)[j] = IF j <= Len(<<r>>) THEN <<r>>[j] ELSE more[j - Len(<<r>>)]
      BY <3>1, <3>2, ConcatProperties
    <3> QED BY <3>1, <3>2, <3>3
  <2>13. OwnLines(<<r>> \o more, r)
    <3>1. DOMAIN (<<r>> \o more) = 1..(1 + Len(more)) /\ DOMAIN more = 1..Len(more)
          /\ Len(more) \in Nat
      BY <2>11, <2>12, LenProperties
    <3>2. \A j \in 1..Len(more) : more[j] = r
      BY <2>9, <3>1 DEF OwnLines
    <3> HIDE DEF more
    <3>3. \A j \in 1..(1 + Len(more)) : (<<r>> \o more)[j] = r
      BY <2>12, <3>1, <3>2
    <3> QED BY <3>1, <3>3 DEF OwnLines
  <2>14. 1 + R[i].rest \in SiteLines(r)
    BY <2>9 DEF SiteLines
  <2> QED BY <2>6, <2>9, <2>10, <2>12, <2>13, <2>14
<1>10. /\ f.rule = MostSpecific(rows) /\ f.of = rows[CHOOSE k \in WarnRows(rows) : TRUE].from
       /\ f.location = SiteOf(rows) /\ f.allocation = <<>>
  BY DEF ToFinding, Finding, NoSite
<1>11. Len(<<>>) = 0 /\ OwnLines(<<>>, r)
  BY DEF OwnLines
<1> HIDE DEF f, R
<1>12. WarnRows(rows) # {} /\ f.of = r /\ Ruled(f) /\ Sited(f, n, whole)
  BY <1>6, <1>7, <1>8, <1>9, <1>10, <1>11 DEF Ruled, Sited
<1> QED BY <1>12 DEF f
-----------------------------------------------------------------------------
(* The text.                                                               *)

LEMMA LinesCounted ==
  ASSUME Inv, NEW r \in Reports
  PROVE  /\ LinesOf[r] \in Seq(AnyLine) /\ Len(LinesOf[r]) \in Nat \ {0}
         /\ logged[r] \in 0..Len(LinesOf[r])
<1>1. LinesOf[r] \in Seq(AnyLine) /\ Len(LinesOf[r]) \in Nat
  BY LinesAreTyped, LenProperties
<1>2. Len(LinesOf[r]) # 0
  <2>1. CASE Kind[r] \in {"bounds", "info_box"}
    <3>1. Len(LinesOf[r]) = 3
      BY <2>1, ThreeLineReports
    <3> QED BY <3>1
  <2>2. CASE Kind[r] \in {"leak", "double_free", "leaks_detected"}
    <3>1. Len(LinesOf[r]) = 1
      BY <2>2, OneLineReports
    <3> QED BY <3>1
  <2>3. CASE Kind[r] = "box"
    BY <2>3, BoxReports, RowsAreTyped
  <2> QED BY <2>1, <2>2, <2>3, ReportsAssumption
<1>3. logged[r] \in Nat /\ logged[r] <= Len(LinesOf[r])
  BY DEF Inv, TypeOK
<1> QED BY <1>1, <1>2, <1>3

LEMMA OrderIsTyped ==
  ASSUME Inv
  PROVE  order \in Seq(Reports) /\ Len(order) \in Nat /\ DOMAIN order = 1..Len(order)
BY LenProperties DEF Inv, TypeOK

(* A line of report r: no other report is under way.                       *)
TextStep(r) ==
  /\ logged' = [logged EXCEPT ![r] = @ + 1] /\ logged[r] < Len(LinesOf[r])
  /\ r \notin cut /\ UNCHANGED <<cut, split>>
  /\ \A q \in Reports \ {r} : ~UnderWay(q) /\ ~UnderWay(q)'
  /\ InThisText' = InThisText \cup {r}
  /\ Len(order') \in Nat \ {0} /\ order'[Len(order')] = r
  /\ DOMAIN order' = 1..Len(order') /\ DOMAIN order \subseteq DOMAIN order'
  /\ \A a \in DOMAIN order : order'[a] = order[a]

LEMMA LogLineText ==
  ASSUME ~Mixed, Inv, TextInv, NEW r \in Reports, LogLine(r)
  PROVE  TextInv' /\ TextStep(r)
<1>1. /\ logged' = [logged EXCEPT ![r] = @ + 1] /\ logged[r] < Len(LinesOf[r])
      /\ r \notin cut /\ UNCHANGED <<cut, split>>
      /\ \A q \in Reports \ {r} : ~UnderWay(q)
      /\ order' = IF Started(r) THEN order ELSE Append(order, r)
      /\ logged \in [Reports -> Nat]
  BY LinesCounted DEF LogLine, Complete, Inv, TypeOK
<1>2. \A q \in Reports \ {r} : ~UnderWay(q)' /\ Started(q)' = Started(q)
  BY <1>1 DEF UnderWay, Started, Complete
<1>3. Started(r)'
  BY <1>1 DEF Started
<1>4. CASE Started(r)
  <2>1. UnderWay(r)
    BY <1>1, <1>4 DEF UnderWay, Complete
  <2>2. order' = order /\ order # <<>> /\ order[Len(order)] = r
    BY <1>1, <1>4, <2>1 DEF TextInv
  <2>3. Len(order) \in Nat \ {0}
    BY <2>2, OrderIsTyped, EmptySeq
  <2>4. r \in InThisText /\ InThisText' = InThisText
    BY <2>2, <2>3, OrderIsTyped DEF InThisText
  <2>5. TextStep(r)
    BY <1>1, <1>2, <2>2, <2>3, <2>4, OrderIsTyped DEF TextStep
  <2>6. TextInv'
    BY <1>2, <1>3, <2>2, <2>4, OrderIsTyped DEF TextInv, InThisText
  <2> QED BY <2>5, <2>6
<1>5. CASE ~Started(r)
  <2>1. order' = Append(order, r) /\ r \notin InThisText
    BY <1>1, <1>5 DEF TextInv
  <2>2. /\ Len(order') = Len(order) + 1 /\ order' \in Seq(Reports)
        /\ DOMAIN order' = 1..(Len(order) + 1)
        /\ \A a \in 1..Len(order) : order'[a] = order[a]
        /\ order'[Len(order) + 1] = r
    BY <2>1, OrderIsTyped, AppendProperties, LenProperties
  <2>3. InThisText' = InThisText \cup {r}
    <3>1. InThisText' = {order'[i] : i \in DOMAIN order'}
      BY DEF InThisText
    <3>2. InThisText = {order[i] : i \in DOMAIN order}
      BY DEF InThisText
    <3>3. \A i \in DOMAIN order' : i \in DOMAIN order \/ i = Len(order) + 1
      BY <2>2, OrderIsTyped
    <3>4. Len(order) + 1 \in DOMAIN order' /\ DOMAIN order \subseteq DOMAIN order'
      BY <2>2, OrderIsTyped
    <3> QED BY <2>2, <3>1, <3>2, <3>3, <3>4, OrderIsTyped
  <2>4. TextStep(r)
    BY <1>1, <1>2, <2>2, <2>3, OrderIsTyped DEF TextStep
  <2>5. ASSUME NEW a \in DOMAIN order', NEW b \in DOMAIN order', order'[a] = order'[b]
        PROVE  a = b
    <3>1. \A c \in DOMAIN order : order[c] # r
      BY <2>1 DEF InThisText
    <3>2. \A c \in DOMAIN order' : c \in DOMAIN order \/ c = Len(order) + 1
      BY <2>2, OrderIsTyped
    <3> QED BY <2>2, <2>5, <3>1, <3>2, OrderIsTyped DEF TextInv
  <2>6. order' # <<>> /\ order'[Len(order')] = r
    BY <2>2, OrderIsTyped, EmptySeq
  <2>7. \A q \in InThisText' : Started(q)'
    <3>1. \A q \in InThisText : Started(q) /\ q \in Reports
      BY OrderIsTyped, ElementOfSeq DEF TextInv, InThisText
    <3> QED BY <1>2, <1>3, <2>3, <3>1
  <2>8. \A q \in Reports : UnderWay(q)' => order' # <<>> /\ order'[Len(order')] = q
    BY <1>2, <2>6
  <2>9. TextInv'
    BY <2>5, <2>7, <2>8 DEF TextInv
  <2> QED BY <2>4, <2>9
<1> QED BY <1>4, <1>5

(* No box that is cut off becomes whole. *)
LEMMA WholeBefore ==
  ASSUME NEW r \in Reports, TextStep(r), BoxesAreWhole'
  PROVE  BoxesAreWhole
BY DEF TextStep, BoxesAreWhole

-----------------------------------------------------------------------------
(* The findings, by what a line does to them.                              *)

LEMMA FindingsAreTyped ==
  ASSUME Inv
  PROVE  /\ findings \in Seq(Findings) /\ Len(findings) \in Nat
         /\ DOMAIN findings = 1..Len(findings)
BY LenProperties DEF Inv, TypeOK

LEMMA OrderKept ==
  ASSUME NEW r \in Reports, TextStep(r), NEW p, NEW q, Before(order, p, q)
  PROVE  Before(order', p, q)
<1>1. PICK a, b \in DOMAIN order : a < b /\ order[a] = p /\ order[b] = q
  BY DEF Before
<1>2. a \in DOMAIN order' /\ b \in DOMAIN order' /\ order'[a] = p /\ order'[b] = q
  BY <1>1 DEF TextStep
<1> QED BY <1>1, <1>2 DEF Before

(* What a line of r leaves as it was. *)
LEMMA OthersKept ==
  ASSUME Inv, NEW r \in Reports, TextStep(r)
  PROVE  \A q \in Reports \ {r} : /\ logged'[q] = logged[q]
                                  /\ ~BoxUnderWay(q) /\ ~BoxUnderWay(q)'
BY DEF TextStep, Complete, BoxUnderWay, Inv, TypeOK

LEMMA NoFindingYet ==
  ASSUME Inv, TextInv, OneEach, NEW r \in Reports, TextStep(r),
         ~Started(r) \/ Kind[r] = "box" \/ ~Reported(r)
  PROVE  \A i \in DOMAIN findings : findings[i].of # r
BY LinesCounted DEF TextInv, OneEach, TextStep, Complete

LEMMA FindingsOfReports ==
  ASSUME Inv, TextInv, OneEach
  PROVE  \A i \in DOMAIN findings : findings[i].of \in Reports /\ Started(findings[i].of)
<1>1. \A q \in InThisText : q \in Reports /\ Started(q)
  BY OrderIsTyped, ElementOfSeq DEF TextInv, InThisText
<1> QED BY <1>1 DEF OneEach

(* A line that adds no finding.                                            *)
LEMMA FindingsKept ==
  ASSUME Inv, TextInv, OneEach, FindingsTell, NEW r \in Reports, TextStep(r),
         findings' = findings, ~Reported(r) \/ (Kind[r] = "box" /\ BoxUnderWay(r)')
  PROVE  OneEach' /\ FindingsTell'
<1>1. \A i \in DOMAIN findings : findings[i].of # r /\ findings[i].of \in Reports
  BY NoFindingYet, FindingsOfReports
<1>2. ASSUME NEW i \in DOMAIN findings
      PROVE  LET q == findings[i].of
             IN  q \in InThisText' /\ Reported(q) /\ (Kind[q] = "box" => logged'[q] = Len(LinesOf[q]))
  BY <1>1, <1>2, OthersKept DEF OneEach, TextStep, Complete
<1>3. ASSUME NEW q \in InThisText', Reported(q), ~BoxUnderWay(q)'
      PROVE  \E i \in DOMAIN findings : findings[i].of = q
  <2>1. q # r
    BY <1>3
  <2>2. q \in InThisText /\ q \in Reports
    <3>1. q \in InThisText
      BY <1>3, <2>1 DEF TextStep
    <3> QED BY <3>1, OrderIsTyped, ElementOfSeq DEF InThisText
  <2> QED BY <1>3, <2>1, <2>2, OthersKept DEF OneEach
<1>4. ASSUME NEW i \in DOMAIN findings, NEW j \in DOMAIN findings, i < j
      PROVE  Before(order', findings[i].of, findings[j].of)
  BY <1>4, OrderKept DEF OneEach
<1>5. ASSUME NEW q \in Reports, UnderWay(q)', Kind[q] = "bounds"
      PROVE  FALSE
  BY <1>5 DEF TextStep, Reported
<1>6. OneEach'
  BY <1>2, <1>3, <1>4, <1>5 DEF OneEach, Complete, Reported
<1>7. FindingsTell'
  BY <1>1, OthersKept DEF FindingsTell, TextStep
<1> QED BY <1>6, <1>7

(* A line that adds the finding of its report. *)
LEMMA FindingAdded ==
  ASSUME Inv, TextInv, OneEach, FindingsTell, NEW r \in Reports, TextStep(r),
         NEW f \in Findings, findings' = Append(findings, f), f.of = r, Reported(r),
         ~Started(r) \/ Kind[r] = "box", Kind[r] = "box" => Complete(r)',
         Kind[r] = "bounds" => in_bounds_report',
         Ruled(f), Sited(f, logged'[r], r \notin split)
  PROVE  OneEach' /\ FindingsTell'
<1> DEFINE n == Len(findings)
<1>1. \A i \in 1..n : findings[i].of # r /\ findings[i].of \in Reports
  BY NoFindingYet, FindingsOfReports, FindingsAreTyped
<1>2. /\ n \in Nat /\ DOMAIN findings = 1..n
      /\ findings' \in Seq(Findings) /\ findings' # <<>>
      /\ Len(findings') = n + 1 /\ DOMAIN findings' = 1..(n + 1)
      /\ \A i \in 1..n : findings'[i] = findings[i]
      /\ findings'[n + 1] = f
  BY FindingsAreTyped, AppendProperties, LenProperties
<1> HIDE DEF n
<1>3. ASSUME NEW i \in DOMAIN findings'
      PROVE  LET q == findings'[i].of
             IN  q \in InThisText' /\ Reported(q) /\ (Kind[q] = "box" => logged'[q] = Len(LinesOf[q]))
  <2>1. CASE i = n + 1
    BY <1>2, <2>1 DEF TextStep, Complete
  <2>2. CASE i \in 1..n
    <3>1. findings'[i] = findings[i] /\ findings[i].of \in Reports \ {r} /\ i \in DOMAIN findings
      BY <1>1, <1>2, <2>2
    <3> QED BY <3>1, OthersKept DEF OneEach, TextStep, Complete
  <2> QED BY <1>2, <2>1, <2>2
<1>4. ASSUME NEW q \in InThisText', Reported(q), ~BoxUnderWay(q)'
      PROVE  \E i \in DOMAIN findings' : findings'[i].of = q
  <2>1. CASE q = r
    BY <1>2, <2>1
  <2>2. CASE q # r
    <3>1. q \in InThisText
      BY <1>4, <2>2 DEF TextStep
    <3>2. q \in Reports
      BY <3>1, OrderIsTyped, ElementOfSeq DEF InThisText
    <3>3. PICK i \in DOMAIN findings : findings[i].of = q
      BY <1>4, <2>2, <3>1, <3>2, OthersKept DEF OneEach
    <3> QED BY <1>2, <3>3
  <2> QED BY <2>1, <2>2
<1>5. ASSUME NEW i \in DOMAIN findings', NEW j \in DOMAIN findings', i < j
      PROVE  Before(order', findings'[i].of, findings'[j].of)
  <2>1. CASE j \in 1..n
    <3>1. i \in 1..n
      BY <1>2, <1>5, <2>1
    <3> QED BY <1>2, <1>5, <2>1, <3>1, OrderKept DEF OneEach
  <2>2. CASE j = n + 1
    <3>1. i \in 1..n /\ findings'[i] = findings[i] /\ findings[i].of # r /\ findings'[j].of = r
      BY <1>1, <1>2, <1>5, <2>2
    <3>2. findings[i].of \in InThisText
      BY <1>2, <3>1 DEF OneEach
    <3>3. PICK a \in DOMAIN order : order[a] = findings[i].of
      BY <3>2 DEF InThisText
    <3>4. /\ a \in 1..Len(order') /\ order'[a] = findings[i].of
          /\ Len(order') \in DOMAIN order' /\ order'[Len(order')] = r
          /\ Len(order') \in Nat
      BY <3>3 DEF TextStep
    <3>5. a < Len(order') /\ a \in DOMAIN order'
      BY <3>1, <3>4 DEF TextStep
    <3> QED BY <3>1, <3>4, <3>5 DEF Before
  <2> QED BY <1>2, <2>1, <2>2
<1>6. ASSUME NEW q \in Reports, UnderWay(q)', Kind[q] = "bounds"
      PROVE  findings' # <<>> /\ findings'[Len(findings')].of = q /\ in_bounds_report'
  BY <1>2, <1>6 DEF TextStep
<1>7. OneEach'
  BY <1>3, <1>4, <1>5, <1>6 DEF OneEach, Complete, Reported, Back
<1>8. ASSUME NEW i \in DOMAIN findings'
      PROVE  LET g == findings'[i] IN Ruled(g) /\ Sited(g, logged'[g.of], g.of \notin split')
  <2>1. split' = split
    BY DEF TextStep
  <2>2. CASE i = n + 1
    BY <1>2, <2>1, <2>2
  <2>3. CASE i \in 1..n
    BY <1>1, <1>2, <2>1, <2>3, OthersKept DEF FindingsTell
  <2> QED BY <1>2, <2>2, <2>3
<1>9. FindingsTell'
  BY <1>8 DEF FindingsTell
<1> QED BY <1>7, <1>9

(* A line that goes on with the last finding, of a bounds report.          *)
LEMMA LastFindingChanged ==
  ASSUME Inv, TextInv, OneEach, FindingsTell, NEW r \in Reports, TextStep(r),
         Kind[r] = "bounds", UnderWay(r), in_bounds_report' = in_bounds_report,
         NEW f, findings' = [findings EXCEPT ![Back] = f], f.of = r,
         Sited(f, logged'[r], r \notin split)
  PROVE  OneEach' /\ FindingsTell'
<1> DEFINE n == Len(findings)
<1>0. n \in 1..n
  BY FindingsAreTyped, EmptySeq DEF OneEach
<1>1. /\ n \in Nat \ {0} /\ DOMAIN findings = 1..n /\ findings[n].of = r /\ Back = n
      /\ r \notin split => in_bounds_report
  BY FindingsAreTyped, EmptySeq DEF OneEach, Back
<1>2. /\ DOMAIN findings' = 1..n /\ Len(findings') = n
      /\ \A i \in 1..n : i # n => findings'[i] = findings[i]
      /\ findings'[n] = f /\ \A i \in 1..n : findings'[i].of = findings[i].of
  <2> HIDE DEF n
  <2>1. findings' = [findings EXCEPT ![n] = f] /\ DOMAIN findings = 1..n
    BY <1>1
  <2>2. /\ DOMAIN findings' = 1..n /\ findings'[n] = f
        /\ \A i \in 1..n : i # n => findings'[i] = findings[i]
    BY <1>0, <2>1
  <2>3. findings' \in [1..n -> Findings \cup {f}]
    BY <2>1, <2>2, FindingsAreTyped, ElementOfSeq
  <2>4. Len(findings') = n
    BY <1>1, <2>3
  <2>5. \A i \in 1..n : findings'[i].of = findings[i].of
    BY <1>1, <2>2
  <2> QED BY <2>2, <2>4, <2>5
<1>3. \A i \in 1..n : i # n => findings[i].of # r /\ findings[i].of \in Reports
  <2> SUFFICES ASSUME NEW i \in 1..n, i # n, findings[i].of = r
               PROVE  FALSE
    BY <1>1, FindingsOfReports
  <2>1. i < n /\ n \in 1..n /\ i \in 1..n /\ i # n
    <3> HIDE DEF n
    <3> QED BY <1>1, <1>0
  <2>2. Before(order, findings[i].of, findings[n].of)
    BY <1>1, <2>1 DEF OneEach
  <2>3. PICK a, b \in DOMAIN order : a < b /\ order[a] = r /\ order[b] = r
    BY <1>1, <2>2 DEF Before
  <2>4. a = b
    BY <2>3 DEF TextInv
  <2> QED BY <2>3, <2>4, OrderIsTyped
<1> HIDE DEF n
<1>4. ASSUME NEW i \in 1..n
      PROVE  LET q == findings'[i].of
             IN  q \in InThisText' /\ Reported(q) /\ (Kind[q] = "box" => logged'[q] = Len(LinesOf[q]))
  <2>1. findings'[i].of = findings[i].of
    BY <1>2
  <2>2. findings[i].of \in InThisText /\ Reported(findings[i].of)
        /\ (Kind[findings[i].of] = "box" => Complete(findings[i].of))
    BY <1>1 DEF OneEach
  <2>3. findings[i].of = r \/ findings[i].of \in Reports \ {r}
    BY <1>1, <1>3
  <2>4. Kind[r] # "box"
    OBVIOUS
  <2> QED BY <2>1, <2>2, <2>3, <2>4, OthersKept DEF TextStep, Complete
<1>5. ASSUME NEW q \in InThisText', Reported(q), ~BoxUnderWay(q)'
      PROVE  \E i \in 1..n : findings'[i].of = q
  <2>1. CASE q = r
    BY <1>1, <1>2, <2>1
  <2>2. CASE q # r
    <3>1. q \in InThisText
      BY <1>5, <2>2 DEF TextStep
    <3>2. q \in Reports
      BY <3>1, OrderIsTyped, ElementOfSeq DEF InThisText
    <3>3. PICK i \in DOMAIN findings : findings[i].of = q
      BY <1>5, <2>2, <3>1, <3>2, OthersKept DEF OneEach
    <3> QED BY <1>1, <1>2, <3>3
  <2> QED BY <2>1, <2>2
<1>6. ASSUME NEW i \in 1..n, NEW j \in 1..n, i < j
      PROVE  Before(order', findings'[i].of, findings'[j].of)
  BY <1>1, <1>2, <1>6, OrderKept DEF OneEach
<1>7. ASSUME NEW q \in Reports, UnderWay(q)', Kind[q] = "bounds"
      PROVE  /\ findings' # <<>> /\ findings'[Len(findings')].of = q
             /\ q \notin split' => in_bounds_report'
  BY <1>1, <1>2, <1>7 DEF TextStep
<1>8. OneEach'
  <2>1. DOMAIN findings' = 1..n
    BY <1>2
  <2>2. \A i \in DOMAIN findings' :
          LET q == findings'[i].of
          IN  q \in InThisText' /\ Reported(q) /\ (Kind[q] = "box" => logged'[q] = Len(LinesOf[q]))
    BY <1>4, <2>1
  <2>3. \A q \in InThisText' : Reported(q) /\ ~BoxUnderWay(q)' =>
          \E i \in DOMAIN findings' : findings'[i].of = q
    BY <1>5, <2>1
  <2>4. \A i, j \in DOMAIN findings' : i < j => Before(order', findings'[i].of, findings'[j].of)
    BY <1>6, <2>1
  <2> QED BY <1>7, <2>2, <2>3, <2>4 DEF OneEach, Complete, Reported, Back
<1>9. ASSUME NEW i \in 1..n
      PROVE  LET g == findings'[i] IN Ruled(g) /\ Sited(g, logged'[g.of], g.of \notin split')
  <2>1. split' = split
    BY DEF TextStep
  <2>2. CASE i = n
    BY <1>2, <2>1, <2>2 DEF Ruled
  <2>3. CASE i # n
    BY <1>1, <1>2, <1>3, <2>1, <2>3, OthersKept DEF FindingsTell
  <2> QED BY <2>2, <2>3
<1>10. FindingsTell'
  BY <1>2, <1>9 DEF FindingsTell
<1> QED BY <1>8, <1>10
-----------------------------------------------------------------------------
(* A line of a report.                                                     *)

(* Where the parser and the text are when r logs its next line.            *)
Reading(r) ==
  /\ TextInv /\ BoxInv /\ OneEach /\ FindingsTell
  /\ TextStep(r)
  /\ ParseLine(NextLine(r))

LEMMA WhereItIs ==
  ASSUME Inv, NEW r \in Reports, Reading(r)
  PROVE  /\ logged[r] \in Nat /\ logged'[r] = logged[r] + 1
         /\ logged[r] < Len(LinesOf[r])
         /\ Started(r) <=> logged[r] > 0
         /\ UnderWay(r) <=> logged[r] > 0
         /\ UnderWay(r)' <=> logged[r] + 1 < Len(LinesOf[r])
         /\ box.open <=> BoxUnderWay(r)
         /\ Kind[r] # "box" => ~box.open
<1>1. /\ logged[r] \in Nat /\ logged'[r] = logged[r] + 1 /\ logged[r] < Len(LinesOf[r])
      /\ r \notin cut /\ r \notin cut' /\ Len(LinesOf[r]) \in Nat
  BY LinesCounted DEF Reading, TextStep, Inv, TypeOK
<1>2. /\ Started(r) <=> logged[r] > 0
      /\ UnderWay(r) <=> logged[r] > 0
      /\ UnderWay(r)' <=> logged[r] + 1 < Len(LinesOf[r])
  BY <1>1 DEF UnderWay, Started, Complete
<1>3. box.open <=> BoxUnderWay(r)
  BY DEF Reading, BoxInv, BoxUnderWay, TextStep
<1> QED BY <1>1, <1>2, <1>3 DEF BoxUnderWay

LEMMA OnlyThisBox ==
  ASSUME NEW r \in Reports, TextStep(r),
         IF box'.open THEN BoxUnderWay(r)' /\ BoxTells(box'.rows, r, logged'[r] - 1)
                      ELSE ~BoxUnderWay(r)'
  PROVE  BoxInv'
<1>1. \A q \in Reports : q # r => ~BoxUnderWay(q)'
  BY DEF TextStep, BoxUnderWay
<1> QED BY <1>1 DEF BoxInv

LEMMA BoxLineRead ==
  ASSUME Inv, NEW r \in Reports, Reading(r), Kind[r] = "box"
  PROVE  BoxInv' /\ OneEach' /\ FindingsTell'
<1> DEFINE n == logged[r]
           N == Len(Rows[r])
           line == NextLine(r)
<1>1. /\ TextInv /\ OneEach /\ FindingsTell /\ TextStep(r) /\ ParseLine(line)
      /\ n \in Nat /\ logged'[r] = n + 1 /\ n < N + 2 /\ N \in Nat
      /\ BoxUnderWay(r)' <=> n + 1 < N + 2
      /\ box.open <=> n > 0
      /\ n > 0 => BoxTells(box.rows, r, n - 1)
      /\ line = LinesOf[r][n + 1]
      /\ box.rows \in Seq(BoxRows)
  BY WhereItIs, BoxReports, RowsAreTyped DEF Reading, BoxInv, BoxUnderWay, NextLine, Inv, TypeOK
<1>2. CASE n = 0
  <2>1. line.kind = "open" /\ ~box.open
    <3>1. LinesOf[r][n + 1] = Plain("open", r)
      <4>1. n + 1 = 1
        BY <1>2
      <4> QED BY ONLY <4>1, Kind[r] = "box", r \in Reports, BoxReports
    <3>2. line = Plain("open", r) /\ ~box.open
      BY <1>1, <1>2, <3>1
    <3> QED BY <3>2 DEF Plain, Line
  <2>2. box' = OpenBox(<<>>) /\ findings' = findings
    BY <1>1, <2>1 DEF ParseLine, CloseBox, AddRow, BeginBox, ContinueReport, NewReport, Indented
  <2>3. BoxUnderWay(r)' /\ logged'[r] - 1 = 0
    BY <1>1, <1>2
  <2>4. OneEach' /\ FindingsTell'
    BY <1>1, <2>2, <2>3, FindingsKept
  <2>5. BoxInv'
    BY <1>1, <2>2, <2>3, NoRowsYet, OnlyThisBox DEF OpenBox
  <2> QED BY <2>4, <2>5
<1>3. CASE n \in 1..N
  <2>1. line = RowLine(r, n) /\ line.kind = Rows[r][n].kind /\ line.from = r
        /\ line.kind \in RowKinds /\ line.kind # "close" /\ box.open
    <3>1. line = RowLine(r, n)
      BY <1>1, <1>3, BoxReports
    <3>2. Rows[r][n].kind \in RowKinds
      BY <1>3, RowsAreTyped
    <3> QED BY <1>1, <1>3, <3>1, <3>2 DEF RowLine, Line, RowKinds
  <2>2. /\ findings' = findings
        /\ box' = IF line.kind = "more" /\ box.rows # <<>>
                  THEN OpenBox([box.rows EXCEPT ![Len(box.rows)].more = Append(@, r)])
                  ELSE OpenBox(Append(box.rows, Row(line)))
    BY <1>1, <2>1 DEF ParseLine, CloseBox, AddRow, BeginBox, ContinueReport, NewReport
  <2>3. BoxUnderWay(r)' /\ logged'[r] - 1 = n /\ BoxTells(box.rows, r, n - 1)
    BY <1>1, <1>3
  <2>4. OneEach' /\ FindingsTell'
    BY <1>1, <2>2, <2>3, FindingsKept
  <2>5. box'.open /\ BoxTells(box'.rows, r, n)
    <3>1. CASE Rows[r][n].kind = "more"
      BY <1>1, <1>3, <2>1, <2>2, <2>3, <3>1, RowJoined DEF OpenBox
    <3>2. CASE Rows[r][n].kind # "more"
      <4>1. Row(RowLine(r, n)) \in BoxRows
        BY <1>3, <3>2, RowsAreTyped DEF Row, RowLine, Line, BoxRows, RowKinds, Owners
      <4> QED BY <1>1, <1>3, <2>1, <2>2, <2>3, <3>2, <4>1, RowAdded DEF OpenBox
    <3> QED BY <3>1, <3>2
  <2>6. BoxInv'
    BY <1>1, <2>3, <2>5, OnlyThisBox
  <2> QED BY <2>4, <2>6
<1>4. CASE n = N + 1
  <2>1. line.kind = "close" /\ box.open /\ BoxTells(box.rows, r, N)
    <3>1. n + 1 = N + 2 /\ n - 1 = N /\ n > 0
      BY <1>1, <1>4
    <3>2. LinesOf[r][n + 1] = Plain("close", r)
      BY ONLY <3>1, Kind[r] = "box", r \in Reports, BoxReports
    <3>3. line = Plain("close", r) /\ box.open
      BY <1>1, <3>1, <3>2
    <3>4. BoxTells(box.rows, r, N)
      BY <1>1, <3>1
    <3> QED BY <3>3, <3>4 DEF Plain, Line
  <2> DEFINE f == ToFinding(box.rows)
  <2>2. /\ WarnRows(box.rows) # {} /\ f.of = r /\ Ruled(f)
        /\ Sited(f, logged'[r], r \notin split)
    BY <1>1, <2>1, BoxAtEnd
  <2>3. f \in Findings
    BY <1>1, <2>2, FindingIsTyped
  <2>4. findings' = Append(findings, f) /\ box' = NoBox
    BY <1>1, <2>1, <2>2 DEF ParseLine, CloseBox, AddRow, BeginBox, ContinueReport, NewReport
  <2>5. Complete(r)' /\ ~BoxUnderWay(r)'
    BY <1>1, <1>4, BoxReports DEF Complete
  <2> HIDE DEF f
  <2>6. OneEach' /\ FindingsTell'
    BY <1>1, <2>2, <2>3, <2>4, <2>5, FindingAdded DEF Reported
  <2>7. BoxInv'
    BY <1>1, <2>4, <2>5, OnlyThisBox DEF NoBox
  <2> QED BY <2>6, <2>7
<1> QED BY <1>1, <1>2, <1>3, <1>4

(* A line of a report that is not a box, when no box is open: it begins a  *)
(* report or goes on with one.                                             *)
LEMMA LineTaken ==
  ASSUME NEW r \in Reports, Reading(r), ~box.open, NextLine(r).kind # "open"
  PROVE  LET line == NextLine(r) IN
         /\ box' = box
         /\ line.kind \in Indented /\ in_bounds_report =>
              /\ in_bounds_report' = in_bounds_report
              /\ line.kind = "access" => findings' = [findings EXCEPT ![Back].location = <<line.from>>]
              /\ line.kind = "alloc_site" =>
                   findings' = [findings EXCEPT ![Back].allocation = <<line.from>>]
         /\ ~(line.kind \in Indented /\ in_bounds_report) =>
              /\ in_bounds_report' = (line.kind = "bounds")
              /\ findings' = findings \o NewFindings(line)
BY DEF Reading, ParseLine, CloseBox, AddRow, BeginBox, ContinueReport, NewReport

LEMMA NoBoxOpens ==
  ASSUME NEW r \in Reports, TextStep(r), Kind[r] # "box", box' = box, ~box.open
  PROVE  BoxInv'
BY OnlyThisBox DEF BoxUnderWay

LEMMA AppendOne ==
  ASSUME Inv, NEW f \in Findings
  PROVE  findings \o <<f>> = Append(findings, f) /\ findings \o <<>> = findings
BY FindingsAreTyped

(* A report of one line, or the first line of a bounds report. *)
LEMMA FirstLineRead ==
  ASSUME Inv, NEW r \in Reports, Reading(r), logged[r] = 0,
         Kind[r] \in {"bounds", "leak", "double_free"}
  PROVE  BoxInv' /\ OneEach' /\ FindingsTell'
<1> DEFINE line == NextLine(r)
           f == Finding(Kind[r], NoRule, r, IF Kind[r] = "double_free" THEN <<r>> ELSE NoSite,
                        IF Kind[r] = "bounds" THEN NoSite ELSE <<r>>)
<1>1. /\ TextInv /\ OneEach /\ FindingsTell /\ TextStep(r)
      /\ logged'[r] = 1 /\ ~box.open /\ ~Started(r)
  BY WhereItIs DEF Reading
<1>2. line = Plain(Kind[r], r)
  <2>1. line = LinesOf[r][1]
    <3>1. logged[r] + 1 = 1
      OBVIOUS
    <3> QED BY <3>1 DEF NextLine
  <2> QED BY <2>1, OneLineReports, ThreeLineReports
<1>3. line.kind = Kind[r] /\ line.from = r
  BY <1>2 DEF Plain, Line
<1>4. NewFindings(line) = <<f>>
  BY <1>3 DEF NewFindings
<1>5. f \in Findings
  <2>1. r \in Owners /\ NoRule \in 1..NoRule
    BY DEF Owners, NoRule, LastRule
  <2>2. <<r>> \in Seq(Reports) /\ NoSite \in Seq(Reports)
    BY <2>1, ShortSequences DEF NoSite
  <2> QED BY <2>1, <2>2 DEF Finding, Findings
<1>6. /\ f.of = r /\ Ruled(f) /\ Sited(f, logged'[r], r \notin split)
  <2>1. /\ OwnLines(<<r>>, r) /\ Len(<<r>>) = 1 /\ OwnLines(<<>>, r) /\ Len(<<>>) = 0
    BY DEF OwnLines
  <2> QED BY <1>1, <2>1 DEF Finding, NoSite, Ruled, Sited
<1> HIDE DEF f
<1>7. /\ findings' = Append(findings, f) /\ box' = box
      /\ Kind[r] = "bounds" => in_bounds_report'
  BY <1>1, <1>3, <1>4, <1>5, LineTaken, AppendOne DEF Indented
<1>8. OneEach' /\ FindingsTell'
  BY <1>1, <1>5, <1>6, <1>7, FindingAdded DEF Reported
<1> QED BY <1>1, <1>7, <1>8, NoBoxOpens

(* The other lines of a bounds report. *)
LEMMA BoundsLineRead ==
  ASSUME Inv, NEW r \in Reports, Reading(r), logged[r] > 0, Kind[r] = "bounds"
  PROVE  BoxInv' /\ OneEach' /\ FindingsTell'
<1> DEFINE line == NextLine(r)
           n == logged[r]
           last == findings[Back]
<1>1. /\ TextInv /\ OneEach /\ FindingsTell /\ TextStep(r)
      /\ logged'[r] = n + 1 /\ n \in {1, 2} /\ ~box.open /\ UnderWay(r)
  <2>1. Len(LinesOf[r]) = 3
    BY ThreeLineReports
  <2>2. /\ n \in Nat /\ logged'[r] = n + 1 /\ n < Len(LinesOf[r]) /\ ~box.open
        /\ UnderWay(r) <=> n > 0
    BY WhereItIs
  <2>3. n \in {1, 2} /\ UnderWay(r)
    BY <2>1, <2>2
  <2> QED BY <2>2, <2>3 DEF Reading
<1>2. /\ Back \in DOMAIN findings /\ last.of = r /\ last \in Findings
      /\ r \notin split => in_bounds_report
      /\ Sited(last, n, r \notin split)
  <2>1. /\ findings # <<>> /\ last.of = r
        /\ r \notin split => in_bounds_report
    BY <1>1 DEF OneEach
  <2>2. Back \in DOMAIN findings /\ last \in Findings
    BY <2>1, FindingsAreTyped, EmptySeq, ElementOfSeq DEF Back
  <2> QED BY <1>1, <2>1, <2>2 DEF FindingsTell
<1>3. line.from = r /\ line.kind = IF n = 1 THEN "access" ELSE "alloc_site"
  <2>1. line = Plain(IF n = 1 THEN "access" ELSE "alloc_site", r)
    <3>1. n + 1 = IF n = 1 THEN 2 ELSE 3
      BY <1>1
    <3> QED BY <3>1, ThreeLineReports DEF NextLine
  <2> QED BY <2>1 DEF Plain, Line
<1>4. OwnLines(<<r>>, r) /\ Len(<<r>>) = 1
  BY DEF OwnLines
<1>5. CASE in_bounds_report
  <2> DEFINE f == IF n = 1 THEN [last EXCEPT !.location = <<r>>]
                           ELSE [last EXCEPT !.allocation = <<r>>]
  <2>1. /\ box' = box /\ in_bounds_report' = in_bounds_report
        /\ findings' = [findings EXCEPT ![Back] = f]
    BY <1>1, <1>2, <1>3, <1>5, LineTaken DEF Indented
  <2>2. f.of = r /\ Sited(f, n + 1, r \notin split)
    <3>1. CASE n = 1
      BY <1>2, <1>4, <3>1 DEF Sited, Findings
    <3>2. CASE n = 2
      BY <1>2, <1>4, <3>2 DEF Sited, Findings
    <3> QED BY <1>1, <3>1, <3>2
  <2> HIDE DEF f
  <2>3. OneEach' /\ FindingsTell'
    BY <1>1, <2>1, <2>2, LastFindingChanged
  <2> QED BY <1>1, <2>1, <2>3, NoBoxOpens
<1>6. CASE ~in_bounds_report
  <2>1. NewFindings(line) = <<>>
    BY <1>1, <1>3 DEF NewFindings
  <2>2. box' = box /\ in_bounds_report' = in_bounds_report /\ findings' = findings
    <3>1. line.kind # "open" /\ line.kind # "bounds"
      BY <1>1, <1>3
    <3>2. box' = box /\ in_bounds_report' = FALSE /\ findings' = findings \o NewFindings(line)
      BY <1>1, <1>6, <3>1, LineTaken
    <3>3. findings' = findings
      BY <1>2, <2>1, <3>2, AppendOne
    <3> QED BY <1>6, <3>2, <3>3 DEF Inv, TypeOK
  <2>3. findings' = [findings EXCEPT ![Back] = last]
    BY <1>2, <2>2, FindingsAreTyped
  <2>4. r \in split /\ Sited(last, n + 1, r \notin split)
    BY <1>2, <1>6 DEF Sited
  <2>5. OneEach' /\ FindingsTell'
    BY <1>1, <1>2, <2>2, <2>3, <2>4, LastFindingChanged
  <2> QED BY <1>1, <2>2, <2>5, NoBoxOpens
<1> QED BY <1>5, <1>6

(* The lines of a box at INFO level, and the count of the leaks. *)
LEMMA NoFindingRead ==
  ASSUME Inv, NEW r \in Reports, Reading(r), ~Reported(r)
  PROVE  BoxInv' /\ OneEach' /\ FindingsTell'
<1> DEFINE line == NextLine(r)
<1>1. /\ TextInv /\ OneEach /\ FindingsTell /\ TextStep(r) /\ ~box.open
      /\ logged[r] \in Nat /\ logged[r] + 1 \in 1..Len(LinesOf[r])
  BY WhereItIs, LinesCounted DEF Reading, Reported
<1>2. line.kind \in {"info", "site", "close", "leaks_detected"}
  <2>1. CASE Kind[r] = "info_box"
    BY <1>1, <2>1, ThreeLineReports DEF NextLine
  <2>2. CASE Kind[r] = "leaks_detected"
    <3>0. Len(LinesOf[r]) = 1 /\ LinesOf[r][1] = Plain("leaks_detected", r)
      BY <2>2, OneLineReports
    <3>1. logged[r] + 1 = 1 /\ LinesOf[r][1] = Plain("leaks_detected", r)
      BY <1>1, <3>0
    <3> QED BY <3>1 DEF NextLine, Plain, Line
  <2> QED BY <2>1, <2>2 DEF Reported
<1>3. NewFindings(line) = <<>> /\ line.kind \notin Indented \cup {"open"}
  BY <1>2 DEF NewFindings, Indented
<1>4. box' = box /\ findings' = findings
  BY <1>1, <1>3, LineTaken, FindingsAreTyped, ConcatEmptySeq
<1>5. OneEach' /\ FindingsTell'
  BY <1>1, <1>4, FindingsKept
<1> QED BY <1>1, <1>4, <1>5, NoBoxOpens DEF Reported
-----------------------------------------------------------------------------
(* The steps.                                                              *)

LEMMA LogLineKeeps ==
  ASSUME ~Mixed, Inv, ReportInv, NEW r \in Reports, LogLine(r)
  PROVE  ReportInv'
<1>1. TextInv' /\ TextStep(r)
  BY LogLineText DEF ReportInv
<1> SUFFICES ASSUME BoxesAreWhole'
             PROVE  BoxInv' /\ OneEach' /\ FindingsTell'
  BY <1>1 DEF ReportInv
<1>2. Reading(r)
  BY <1>1, WholeBefore DEF ReportInv, Reading, LogLine
<1>3. CASE Kind[r] = "box"
  BY <1>2, <1>3, BoxLineRead
<1>4. CASE Kind[r] = "bounds" /\ logged[r] > 0
  BY <1>2, <1>4, BoundsLineRead
<1>5. CASE Kind[r] \in {"bounds", "leak", "double_free"} /\ logged[r] = 0
  BY <1>2, <1>5, FirstLineRead
<1>6. CASE ~Reported(r)
  BY <1>2, <1>6, NoFindingRead
<1>7. Kind[r] \in {"leak", "double_free"} => logged[r] = 0
  <2>1. Kind[r] \in {"leak", "double_free"} => Len(LinesOf[r]) = 1
    BY OneLineReports
  <2>2. logged[r] \in Nat /\ logged[r] < Len(LinesOf[r])
    BY <1>2, WhereItIs
  <2> HAVE Kind[r] \in {"leak", "double_free"}
  <2>3. Len(LinesOf[r]) = 1
    BY <2>1
  <2> QED BY ONLY <2>2, <2>3
<1>8. logged[r] \in Nat
  BY <1>2, WhereItIs
<1> QED BY <1>3, <1>4, <1>5, <1>6, <1>7, <1>8, ReportsAssumption DEF Reported

(* A line of the program's own, read when no box is open: the sites stay   *)
(* as they are, and what ends a bounds report splits it.                   *)
LEMMA NoiseTaken ==
  ASSUME Inv, NEW kind \in {"plain", "indented"}, ParseLine(Plain(kind, Nobody))
  PROVE  /\ findings' = findings /\ box' = box
         /\ kind = "indented" => in_bounds_report' = in_bounds_report
<1> DEFINE line == Plain(kind, Nobody)
<1>1. line.kind = kind /\ kind # "close" /\ kind # "open" /\ kind \notin RowKinds
  BY DEF Plain, Line, RowKinds
<1>2. NewFindings(line) = <<>> /\ findings \o <<>> = findings
  BY <1>1, FindingsAreTyped, ConcatEmptySeq DEF NewFindings
<1>3. in_bounds_report \in BOOLEAN
  BY DEF Inv, TypeOK
<1>4. ParseLine(line)
  OBVIOUS
<1> HIDE DEF line
<1>5. CASE AddRow(line)
  BY <1>1, <1>5 DEF AddRow
<1>6. CASE ContinueReport(line)
  BY <1>1, <1>6 DEF ContinueReport
<1>7. CASE NewReport(line)
  BY <1>1, <1>2, <1>3, <1>7 DEF NewReport, Indented
<1> QED BY <1>1, <1>4, <1>5, <1>6, <1>7 DEF ParseLine, CloseBox, BeginBox

LEMMA LogNoiseKeeps ==
  ASSUME Inv, ReportInv, LogNoise
  PROVE  ReportInv'
<1>1. PICK kind \in {"plain", "indented"} :
        /\ ParseLine(Plain(kind, Nobody))
        /\ split' = IF kind = "indented" THEN split
                    ELSE split \cup {r \in Reports : UnderWay(r) /\ Kind[r] = "bounds"}
  BY DEF LogNoise
<1>2. /\ findings' = findings /\ box' = box /\ UNCHANGED <<logged, cut, order>>
      /\ kind = "indented" => in_bounds_report' = in_bounds_report
  BY <1>1, NoiseTaken DEF LogNoise
<1>3. /\ InThisText' = InThisText /\ BoxesAreWhole' = BoxesAreWhole
      /\ \A r \in Reports : /\ UnderWay(r)' = UnderWay(r) /\ Complete(r)' = Complete(r)
                            /\ Started(r)' = Started(r)
                            /\ BoxUnderWay(r)' = BoxUnderWay(r)
      /\ \A p, q : Before(order, p, q)' = Before(order, p, q)
  BY <1>2 DEF InThisText, BoxesAreWhole, UnderWay, Complete, Started, BoxUnderWay, Before
<1>4. TextInv'
  <2>1. TextInv
    BY DEF ReportInv
  <2>2. order' = order
    BY <1>2
  <2>3. \A r \in Reports : UnderWay(r)' => order' # <<>> /\ order'[Len(order')] = r
    BY <1>3, <2>1, <2>2 DEF TextInv
  <2>4. \A r \in InThisText' : Started(r)'
    BY <1>2, <1>3, <2>1 DEF TextInv, Started
  <2>5. \A a, b \in DOMAIN order' : order'[a] = order'[b] => a = b
    BY <2>1, <2>2 DEF TextInv
  <2> QED BY <2>3, <2>4, <2>5 DEF TextInv
<1> SUFFICES ASSUME BoxesAreWhole
             PROVE  BoxInv' /\ OneEach' /\ FindingsTell'
  BY <1>3, <1>4 DEF ReportInv
<1>5. TextInv /\ BoxInv /\ OneEach /\ FindingsTell
  BY DEF ReportInv
<1>6. BoxInv'
  BY <1>2, <1>3, <1>5 DEF BoxInv
<1>7. ASSUME NEW r \in Reports, UnderWay(r), Kind[r] = "bounds", r \notin split'
      PROVE  in_bounds_report'
  <2>1. kind = "indented" /\ r \notin split
    BY <1>1, <1>7
  <2> QED BY <1>2, <1>5, <1>7, <2>1 DEF OneEach
<1>8. OneEach'
  <2>1. \A r \in InThisText : r \in Reports
    BY OrderIsTyped, ElementOfSeq DEF InThisText
  <2>2. \A i \in DOMAIN findings :
          LET r == findings[i].of
          IN  r \in InThisText' /\ Reported(r) /\ (Kind[r] = "box" => logged'[r] = Len(LinesOf[r]))
    BY <1>2, <1>3, <1>5 DEF OneEach, Complete
  <2>3. \A r \in InThisText' : Reported(r) /\ ~BoxUnderWay(r)' =>
          \E i \in DOMAIN findings : findings[i].of = r
    BY <1>3, <1>5, <2>1 DEF OneEach
  <2>4. \A i, j \in DOMAIN findings : i < j => Before(order', findings[i].of, findings[j].of)
    BY <1>2, <1>5 DEF OneEach
  <2>5. \A r \in Reports : UnderWay(r)' /\ Kind[r] = "bounds" =>
          /\ findings # <<>> /\ findings[Back].of = r
          /\ r \notin split' => in_bounds_report'
    BY <1>3, <1>5, <1>7 DEF OneEach
  <2> QED BY <1>2, <2>2, <2>3, <2>4, <2>5 DEF OneEach, Complete, Reported, Back
<1>9. FindingsTell'
  <2>1. split \subseteq split'
    BY <1>1
  <2>2. ASSUME NEW f, NEW n, Sited(f, n, f.of \notin split)
        PROVE  Sited(f, n, f.of \notin split')
    BY <2>1, <2>2 DEF Sited
  <2> QED BY <1>2, <1>5, <2>2 DEF FindingsTell, Ruled
<1> QED BY <1>6, <1>8, <1>9

LEMMA CutOffKeeps ==
  ASSUME Inv, ReportInv, NEW r \in Reports, CutOff(r)
  PROVE  ReportInv'
<1>1. /\ UNCHANGED <<findings, in_bounds_report, box, logged, split, order>>
      /\ cut' = cut \cup {r} /\ UnderWay(r)
  BY DEF CutOff, parserVars
<1>2. /\ InThisText' = InThisText
      /\ \A q \in Reports : /\ UnderWay(q)' => UnderWay(q)
                            /\ Complete(q)' = Complete(q) /\ Started(q)' = Started(q)
      /\ \A q \in Reports \ {r} : UnderWay(q)' = UnderWay(q)
  BY <1>1 DEF InThisText, UnderWay, Complete, Started
<1>3. TextInv'
  <2>1. TextInv /\ order' = order
    BY <1>1 DEF ReportInv
  <2>2. \A q \in Reports : UnderWay(q)' => order' # <<>> /\ order'[Len(order')] = q
    BY <1>2, <2>1 DEF TextInv
  <2>3. \A q \in InThisText' : Started(q)'
    BY <1>1, <1>2, <2>1 DEF TextInv, Started
  <2>4. \A a, b \in DOMAIN order' : order'[a] = order'[b] => a = b
    BY <2>1 DEF TextInv
  <2> QED BY <2>2, <2>3, <2>4 DEF TextInv
<1> SUFFICES ASSUME BoxesAreWhole'
             PROVE  BoxInv' /\ OneEach' /\ FindingsTell'
  BY <1>3 DEF ReportInv
<1>4. BoxesAreWhole /\ Kind[r] # "box"
  <2>1. order # <<>> /\ order[Len(order)] = r
    BY <1>1 DEF ReportInv, TextInv
  <2>2. r \in InThisText
    BY <2>1, OrderIsTyped, EmptySeq DEF InThisText
  <2> QED BY <1>1, <1>2, <2>2 DEF BoxesAreWhole
<1>5. TextInv /\ BoxInv /\ OneEach /\ FindingsTell
  BY <1>4 DEF ReportInv
<1>6. \A q \in Reports : BoxUnderWay(q)' = BoxUnderWay(q)
  BY <1>2, <1>4 DEF BoxUnderWay
<1>7. BoxInv'
  BY <1>1, <1>5, <1>6 DEF BoxInv
<1>8. OneEach'
  <2>1. \A q \in InThisText : q \in Reports
    BY OrderIsTyped, ElementOfSeq DEF InThisText
  <2>2. \A i \in DOMAIN findings :
          LET q == findings[i].of
          IN  q \in InThisText' /\ Reported(q) /\ (Kind[q] = "box" => logged'[q] = Len(LinesOf[q]))
    BY <1>1, <1>2, <1>5 DEF OneEach, Complete
  <2>3. \A q \in InThisText' : Reported(q) /\ ~BoxUnderWay(q)' =>
          \E i \in DOMAIN findings : findings[i].of = q
    BY <1>2, <1>5, <1>6, <2>1 DEF OneEach
  <2>4. \A i, j \in DOMAIN findings : i < j => Before(order', findings[i].of, findings[j].of)
    BY <1>1, <1>5 DEF OneEach
  <2>5. \A q \in Reports : UnderWay(q)' /\ Kind[q] = "bounds" =>
          /\ findings # <<>> /\ findings[Back].of = q
          /\ q \notin split => in_bounds_report
    BY <1>2, <1>5 DEF OneEach
  <2> QED BY <1>1, <2>2, <2>3, <2>4, <2>5 DEF OneEach, Complete, Reported, Back
<1>9. FindingsTell'
  BY <1>1, <1>5 DEF FindingsTell, Ruled, Sited
<1> QED BY <1>7, <1>8, <1>9
-----------------------------------------------------------------------------
(* The theorems.                                                           *)

LEMMA ReportInvInit == Init => ReportInv
<1> SUFFICES ASSUME Init
             PROVE  ReportInv
  OBVIOUS
<1>1. /\ findings = <<>> /\ ~box.open /\ logged = [r \in Reports |-> 0] /\ order = <<>>
  BY DEF Init, NoBox
<1>2. \A r \in Reports : ~UnderWay(r)
  BY <1>1 DEF UnderWay, Started
<1>3. DOMAIN findings = {} /\ DOMAIN order = {} /\ InThisText = {}
  BY <1>1 DEF InThisText
<1>4. TextInv
  BY <1>2, <1>3 DEF TextInv
<1>5. BoxInv
  BY <1>1, <1>2 DEF BoxInv, BoxUnderWay
<1>6. OneEach
  BY <1>2, <1>3 DEF OneEach
<1>7. FindingsTell
  BY <1>3 DEF FindingsTell
<1> QED BY <1>4, <1>5, <1>6, <1>7 DEF ReportInv

LEMMA ReportInvStep ==
  ASSUME ~Mixed, Inv, ReportInv, [Next]_vars
  PROVE  ReportInv'
<1>1. CASE \E r \in Reports : LogLine(r)
  BY <1>1, LogLineKeeps
<1>2. CASE \E r \in Reports : CutOff(r)
  BY <1>2, CutOffKeeps
<1>3. CASE LogNoise
  BY <1>3, LogNoiseKeeps
<1>4. CASE UNCHANGED vars
  <2>1. UNCHANGED <<findings, in_bounds_report, box, logged, cut, split, order>>
    BY <1>4 DEF vars, parserVars, textVars
  <2>2. /\ InThisText' = InThisText /\ BoxesAreWhole' = BoxesAreWhole
        /\ \A r : /\ UnderWay(r)' = UnderWay(r) /\ Complete(r)' = Complete(r)
                  /\ Started(r)' = Started(r) /\ BoxUnderWay(r)' = BoxUnderWay(r)
    BY <2>1 DEF InThisText, BoxesAreWhole, UnderWay, Complete, Started, BoxUnderWay
  <2>3. TextInv' = TextInv
    BY <2>1, <2>2 DEF TextInv
  <2>4. BoxInv' = BoxInv
    BY <2>1, <2>2 DEF BoxInv
  <2>5. OneEach' = OneEach
    BY <2>1, <2>2 DEF OneEach, Before, Back
  <2>6. FindingsTell' = FindingsTell
    BY <2>1 DEF FindingsTell
  <2> QED BY <2>2, <2>3, <2>4, <2>5, <2>6 DEF ReportInv
<1> QED BY <1>1, <1>2, <1>3, <1>4 DEF Next

LEMMA ReportInvHolds ==
  ASSUME ~Mixed
  PROVE  Spec => [](Inv /\ ReportInv)
<1>1. Init => Inv /\ ReportInv
  BY InvInit, ReportInvInit
<1>2. (Inv /\ ReportInv) /\ [Next]_vars => (Inv /\ ReportInv)'
  BY InvStep, ReportInvStep
<1> QED BY <1>1, <1>2, PTL DEF Spec

(* What the invariant tells of the findings. *)
LEMMA OneFindingPerReportTold == Inv /\ ReportInv => OneFindingPerReport
<1> SUFFICES ASSUME Inv, ReportInv, NoneUnderWay, BoxesAreWhole
             PROVE  /\ {findings[i].of : i \in DOMAIN findings}
                         = {r \in InThisText : Reported(r)}
                    /\ \A i, j \in DOMAIN findings :
                         i < j => Before(order, findings[i].of, findings[j].of)
  BY DEF OneFindingPerReport, Reported
<1>1. OneEach
  BY DEF ReportInv
<1>2. \A r \in InThisText : r \in Reports
  BY OrderIsTyped, ElementOfSeq DEF InThisText
<1>3. \A r \in InThisText : Reported(r) => \E i \in DOMAIN findings : findings[i].of = r
  BY <1>1, <1>2 DEF OneEach, NoneUnderWay, BoxUnderWay
<1>4. \A i \in DOMAIN findings : findings[i].of \in InThisText /\ Reported(findings[i].of)
  BY <1>1 DEF OneEach
<1> QED BY <1>1, <1>3, <1>4 DEF OneEach

LEMMA BoxRuleIsMostSpecificTold == ReportInv => BoxRuleIsMostSpecific
BY DEF ReportInv, FindingsTell, Ruled, BoxRuleIsMostSpecific

LEMMA SitesAreOwnTold == Inv /\ ReportInv => SitesAreOwn
<1> SUFFICES ASSUME Inv, ReportInv, BoxesAreWhole, NEW i \in DOMAIN findings
             PROVE  LET f == findings[i] IN
                      /\ OwnLines(f.location, f.of) /\ OwnLines(f.allocation, f.of)
                      /\ Complete(f.of) /\ (Kind[f.of] = "bounds" => f.of \notin split)
                           => /\ Len(f.location) \in SiteLines(f.of)
                              /\ Len(f.allocation) \in AllocationLines(f.of)
  BY DEF SitesAreOwn
<1> DEFINE f == findings[i]
           r == f.of
<1>1. /\ Sited(f, logged[r], r \notin split) /\ Reported(r) /\ r \in Reports
  <2>1. OneEach /\ TextInv /\ FindingsTell
    BY DEF ReportInv
  <2> QED BY <2>1, FindingsOfReports DEF OneEach, FindingsTell
<1> HIDE DEF f
<1>2. OwnLines(f.location, r) /\ OwnLines(f.allocation, r)
  BY <1>1 DEF Sited
<1>3. ASSUME Complete(r), Kind[r] = "bounds" => r \notin split
      PROVE  Len(f.location) \in SiteLines(r) /\ Len(f.allocation) \in AllocationLines(r)
  <2>1. CASE Kind[r] = "box"
    BY <1>1, <2>1 DEF Sited, AllocationLines
  <2>2. CASE Kind[r] = "bounds"
    <3>1. logged[r] = 3
      BY <1>1, <1>3, <2>2, ThreeLineReports DEF Complete
    <3>2. Len(f.location) = 1 /\ Len(f.allocation) = 1
      BY <1>1, <1>3, <2>2, <3>1 DEF Sited
    <3> QED BY <2>2, <3>2 DEF SiteLines, AllocationLines
  <2>3. CASE Kind[r] \in {"leak", "double_free"}
    BY <1>1, <2>3 DEF Sited, SiteLines, AllocationLines
  <2> QED BY <1>1, <2>1, <2>2, <2>3, ReportsAssumption DEF Reported
<1> QED BY <1>2, <1>3 DEF f

(* Every report of the text is a finding and every finding one of its      *)
(* reports, in the order in which they were logged, for any reports and    *)
(* any lines of the program's own between theirs, as long as reports do    *)
(* not come mixed and no box is cut off.                                   *)
THEOREM FindingsAreReports ==
  ASSUME ~Mixed
  PROVE  Spec => []OneFindingPerReport
BY OneFindingPerReportTold, ReportInvHolds, PTL

(* The rule of a finding that was a box is the most specific of the box's  *)
(* warnings, for any boxes: however many warnings there are, in whatever   *)
(* order, and however their rows are wrapped.                              *)
THEOREM BoxRulesAreMostSpecific ==
  ASSUME ~Mixed
  PROVE  Spec => []BoxRuleIsMostSpecific
BY BoxRuleIsMostSpecificTold, ReportInvHolds, PTL

(* A finding tells the sites of its own report, all lines of them once the *)
(* report is complete.                                                     *)
THEOREM FindingsKeepTheirSites ==
  ASSUME ~Mixed
  PROVE  Spec => []SitesAreOwn
BY SitesAreOwnTold, ReportInvHolds, PTL
=============================================================================
