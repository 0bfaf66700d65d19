--------------------------- MODULE ReadOutputProofs ---------------------------
(* Proofs about both streams of a program, for any reports logged to       *)
(* either: what ParseFindingsProofs shows of one text holds of the text    *)
(* being read, the summary agrees with the findings, and the log that is   *)
(* written of them is valid.                                               *)
EXTENDS ReadOutput, ParseFindingsProofs, FiniteSetTheorems

-----------------------------------------------------------------------------
(* The text being read.                                                    *)

OutputTypeInv ==
  /\ earlier \in Seq(Findings)
  /\ summary \in [Counters -> Nat]
  /\ beside \in Nat /\ naming \in Nat

TextsInv == Inv /\ ReportInv /\ OutputTypeInv

LEMMA TextsInit == OutputInit => TextsInv
<1> SUFFICES ASSUME OutputInit
             PROVE  TextsInv
  OBVIOUS
<1>1. Inv /\ ReportInv
  BY InvInit, ReportInvInit DEF OutputInit
<1>2. earlier \in Seq(Findings)
  BY EmptySeq DEF OutputInit
<1>3. summary \in [Counters -> Nat]
  BY DEF OutputInit, Zero
<1>4. beside \in Nat /\ naming \in Nat
  BY DEF OutputInit
<1> QED BY <1>1, <1>2, <1>3, <1>4 DEF TextsInv, OutputTypeInv

(* A text begins: nothing of the one before is left. *)
LEMMA NextStreamKeepsTypes ==
  ASSUME Inv, NextStream
  PROVE  Inv'
<1>1. /\ findings' = <<>> /\ in_bounds_report' = FALSE /\ box' = NoBox /\ order' = <<>>
      /\ UNCHANGED <<logged, cut, split>>
  BY DEF NextStream
<1>2. findings' \in Seq(Findings) /\ order' \in Seq(Reports)
  BY <1>1, EmptySeq
<1>3. box' \in [open : BOOLEAN, rows : Seq(BoxRows)]
  BY <1>1, EmptySeq DEF NoBox
<1>4. TypeOK'
  BY <1>1, <1>2, <1>3 DEF Inv, TypeOK
<1>5. BackIsBoundsReport'
  BY <1>1 DEF BackIsBoundsReport
<1> QED BY <1>1, <1>4, <1>5 DEF Inv

LEMMA NextStreamKeeps ==
  ASSUME Inv, ReportInv, NextStream
  PROVE  Inv' /\ ReportInv'
<1>1. /\ findings' = <<>> /\ in_bounds_report' = FALSE /\ box' = NoBox /\ order' = <<>>
      /\ UNCHANGED <<logged, cut, split>> /\ NoneUnderWay
  BY DEF NextStream
<1>2. Inv'
  BY NextStreamKeepsTypes
<1>3. \A r \in Reports : ~UnderWay(r)'
  BY <1>1 DEF NoneUnderWay, UnderWay, Started, Complete
<1>4. DOMAIN findings' = {} /\ DOMAIN order' = {} /\ InThisText' = {}
  BY <1>1 DEF InThisText
<1>5. TextInv'
  BY <1>3, <1>4 DEF TextInv
<1>6. BoxInv'
  BY <1>1, <1>3 DEF BoxInv, BoxUnderWay, NoBox
<1>7. OneEach'
  BY <1>3, <1>4 DEF OneEach
<1>8. FindingsTell'
  BY <1>4 DEF FindingsTell
<1> QED BY <1>2, <1>5, <1>6, <1>7, <1>8 DEF ReportInv

LEMMA SummaryCounts ==
  ASSUME OutputTypeInv, NEW markers
  PROVE  UpdateSummary(markers) \in [Counters -> Nat]
BY DEF OutputTypeInv, UpdateSummary

LEMMA OutputStepIsStep ==
  ASSUME TextsInv, ~Mixed, OutputNext
  PROVE  Inv' /\ ReportInv'
<1>1. CASE NextStream
  BY <1>1, NextStreamKeeps DEF TextsInv
<1>2. CASE ~NextStream
  <2>1. [Next]_vars
    BY <1>2 DEF OutputNext, ReadReport, ReadBeside, ReadCut, Written, Next
  <2> QED BY <2>1, InvStep, ReportInvStep DEF TextsInv
<1> QED BY <1>1, <1>2

LEMMA OutputTypesStep ==
  ASSUME Inv, OutputTypeInv, [OutputNext]_<<vars, outputVars>>
  PROVE  OutputTypeInv'
<1>1. CASE OutputNext
  <2>1. summary' \in [Counters -> Nat]
    BY <1>1, SummaryCounts
    DEF OutputNext, ReadReport, ReadBeside, ReadCut, NextStream, Written, outputVars,
        OutputTypeInv
  <2>2. earlier' \in Seq(Findings)
    <3>1. earlier \in Seq(Findings) /\ findings \in Seq(Findings)
      BY FindingsAreTyped DEF OutputTypeInv
    <3>2. earlier \o findings \in Seq(Findings)
      BY <3>1, ConcatProperties
    <3>3. earlier' = earlier \/ earlier' = earlier \o findings
      BY <1>1 DEF OutputNext, ReadReport, ReadBeside, ReadCut, NextStream, Written, outputVars
    <3> QED BY <3>1, <3>2, <3>3
  <2>3. beside' \in Nat /\ naming' \in Nat
    BY <1>1
    DEF OutputNext, ReadReport, ReadBeside, ReadCut, NextStream, Written, outputVars,
        OutputTypeInv
  <2> QED BY <2>1, <2>2, <2>3 DEF OutputTypeInv
<1>2. CASE UNCHANGED <<vars, outputVars>>
  BY <1>2 DEF outputVars, OutputTypeInv
<1> QED BY <1>1, <1>2

LEMMA TextsStep ==
  ASSUME TextsInv, ~Mixed, [OutputNext]_<<vars, outputVars>>
  PROVE  TextsInv'
<1>1. OutputTypeInv'
  BY OutputTypesStep DEF TextsInv
<1>2. CASE OutputNext
  BY <1>1, <1>2, OutputStepIsStep DEF TextsInv
<1>3. CASE UNCHANGED <<vars, outputVars>>
  <2>1. UNCHANGED vars
    BY <1>3
  <2>2. Inv' /\ ReportInv'
    BY <2>1, InvStep, ReportInvStep DEF TextsInv
  <2> QED BY <1>1, <2>2 DEF TextsInv
<1> QED BY <1>2, <1>3

LEMMA TextsInvHolds ==
  ASSUME ~Mixed
  PROVE  OutputSpec => []TextsInv
<1> QED BY TextsInit, TextsStep, PTL DEF OutputSpec

(* On either stream, the findings of ParseFindings are the reports logged  *)
(* to it, each once and in their order, but for a box under way or cut     *)
(* off.  Nothing of the other stream's text is left in the parser.         *)
THEOREM FindingsAreReportsOfTheText ==
  ASSUME ~Mixed
  PROVE  OutputSpec => []OneFindingPerReport
BY OneFindingPerReportTold, TextsInvHolds, PTL DEF TextsInv

(* On either stream, a box's finding has the most specific rule of the     *)
(* box's own warnings.                                                     *)
THEOREM BoxRulesOfTheText ==
  ASSUME ~Mixed
  PROVE  OutputSpec => []BoxRuleIsMostSpecific
BY BoxRuleIsMostSpecificTold, TextsInvHolds, PTL DEF TextsInv

(* On either stream, the sites of a finding are those of its own report,   *)
(* complete once the report is.                                            *)
THEOREM SitesOfTheText ==
  ASSUME ~Mixed
  PROVE  OutputSpec => []SitesAreOwn
BY SitesAreOwnTold, TextsInvHolds, PTL DEF TextsInv

-----------------------------------------------------------------------------
(* Counting findings.                                                      *)

Tally(s, rules) == Cardinality({i \in DOMAIN s : RuleId(s[i]) \in rules})

LEMMA TallyIsNumber ==
  ASSUME NEW s \in Seq(Findings), NEW rules
  PROVE  Tally(s, rules) \in Nat /\ IsFiniteSet({i \in DOMAIN s : RuleId(s[i]) \in rules})
<1>1. DOMAIN s = 1..Len(s) /\ Len(s) \in Nat
  BY LenProperties
<1>2. IsFiniteSet(1..Len(s))
  BY <1>1, FS_Interval
<1>3. {i \in DOMAIN s : RuleId(s[i]) \in rules} \in SUBSET (1..Len(s))
  BY <1>1
<1>4. IsFiniteSet({i \in DOMAIN s : RuleId(s[i]) \in rules})
  BY <1>2, <1>3, FS_Subset
<1> QED BY <1>4, FS_CardinalityType DEF Tally

LEMMA TallyOfSameRules ==
  ASSUME NEW s, NEW t, DOMAIN s = DOMAIN t, \A i \in DOMAIN s : RuleId(t[i]) = RuleId(s[i]),
         NEW rules
  PROVE  Tally(t, rules) = Tally(s, rules)
<1>1. {i \in DOMAIN t : RuleId(t[i]) \in rules} = {i \in DOMAIN s : RuleId(s[i]) \in rules}
  OBVIOUS
<1> QED BY <1>1 DEF Tally

LEMMA TallyOfOneMore ==
  ASSUME NEW s \in Seq(Findings), NEW f \in Findings, NEW rules
  PROVE  Tally(Append(s, f), rules) = Tally(s, rules) + (IF RuleId(f) \in rules THEN 1 ELSE 0)
<1> DEFINE t == Append(s, f)
           n == Len(s) + 1
           Those == {i \in DOMAIN s : RuleId(s[i]) \in rules}
           Now == {i \in DOMAIN t : RuleId(t[i]) \in rules}
<1>1. /\ DOMAIN s = 1..Len(s) /\ Len(s) \in Nat /\ DOMAIN t = 1..n /\ t[n] = f
      /\ \A i \in 1..Len(s) : t[i] = s[i]
  BY AppendProperties, LenProperties
<1>2. IsFiniteSet(Those) /\ Cardinality(Those) \in Nat
  BY TallyIsNumber DEF Tally
<1>5. n \notin Those
  BY <1>1
<1>6. Tally(s, rules) = Cardinality(Those) /\ Tally(t, rules) = Cardinality(Now)
  BY DEF Tally
<1> HIDE DEF t
<1>3. CASE RuleId(f) \in rules
  <2>1. Now = Those \cup {n}
    BY <1>1, <1>3
  <2>2. Cardinality(Those \cup {n}) = Cardinality(Those) + 1
    BY ONLY <1>2, <1>5, FS_AddElement
  <2> HIDE DEF Those, Now
  <2> QED BY <1>3, <1>6, <2>1, <2>2 DEF t
<1>4. CASE RuleId(f) \notin rules
  <2>1. Now = Those
    BY <1>1, <1>4
  <2> HIDE DEF Those, Now
  <2> QED BY <1>2, <1>4, <1>6, <2>1 DEF t
<1> QED BY <1>3, <1>4

(* The findings of both streams, when those of the second change. *)
LEMMA AllAppended ==
  ASSUME NEW s \in Seq(Findings), NEW t \in Seq(Findings), NEW f \in Findings
  PROVE  s \o Append(t, f) = Append(s \o t, f)
BY AppendIsConcat, ConcatAssociative

LEMMA AllSameRules ==
  ASSUME NEW s \in Seq(Findings), NEW t \in Seq(Findings), NEW u \in Seq(Findings),
         DOMAIN u = DOMAIN t, \A i \in DOMAIN t : RuleId(u[i]) = RuleId(t[i]), NEW rules
  PROVE  Tally(s \o u, rules) = Tally(s \o t, rules)
<1>1. /\ Len(s) \in Nat /\ Len(t) \in Nat /\ Len(u) = Len(t) /\ DOMAIN t = 1..Len(t)
  BY LenProperties
<1>2. /\ s \o t \in Seq(Findings) /\ s \o u \in Seq(Findings)
      /\ Len(s \o t) = Len(s) + Len(t) /\ Len(s \o u) = Len(s) + Len(t)
      /\ \A i \in 1..(Len(s) + Len(t)) :
           /\ (s \o t)[i] = IF i <= Len(s) THEN s[i] ELSE t[i - Len(s)]
           /\ (s \o u)[i] = IF i <= Len(s) THEN s[i] ELSE u[i - Len(s)]
  <2>1. /\ s \o t \in Seq(Findings) /\ Len(s \o t) = Len(s) + Len(t)
        /\ \A i \in 1..(Len(s) + Len(t)) :
             (s \o t)[i] = IF i <= Len(s) THEN s[i] ELSE t[i - Len(s)]
    BY ONLY s \in Seq(Findings), t \in Seq(Findings), ConcatProperties
  <2>2. /\ s \o u \in Seq(Findings) /\ Len(s \o u) = Len(s) + Len(u)
        /\ \A i \in 1..(Len(s) + Len(u)) :
             (s \o u)[i] = IF i <= Len(s) THEN s[i] ELSE u[i - Len(s)]
    BY ONLY s \in Seq(Findings), u \in Seq(Findings), ConcatProperties
  <2> QED BY <1>1, <2>1, <2>2
<1> DEFINE st == s \o t
           su == s \o u
<1>3. DOMAIN st = 1..(Len(s) + Len(t)) /\ DOMAIN su = 1..(Len(s) + Len(t))
  BY <1>2, LenProperties
<1>4. ASSUME NEW i \in 1..(Len(s) + Len(t))
      PROVE  RuleId(su[i]) = RuleId(st[i])
  <2>1. CASE i <= Len(s)
    BY <1>2, <2>1
  <2>2. CASE ~(i <= Len(s))
    <3>1. i - Len(s) \in DOMAIN t
      BY <1>1, <2>2
    <3> QED BY <1>2, <2>2, <3>1
  <2> QED BY <2>1, <2>2
<1> HIDE DEF st, su
<1>5. Tally(su, rules) = Tally(st, rules)
  BY <1>3, <1>4, TallyOfSameRules
<1> QED BY <1>5 DEF st, su

-----------------------------------------------------------------------------
(* What a line of a report adds to the findings and to the summary.        *)

Findable == {"bounds", "leak", "double_free"}
Scanned == {HeapRules, kBoundsRules, {"memory-leak"}, {"double-free"}}

Gain(line, rules) ==
  IF \/ line.kind = "bounds" /\ BoundsRule[line.from] \in rules
     \/ line.kind = "leak" /\ "memory-leak" \in rules
     \/ line.kind = "double_free" /\ "double-free" \in rules
  THEN 1 ELSE 0

Count(line) == IF line.kind = "leaks_detected" THEN 1 ELSE 0

LEMMA LineOfReport ==
  ASSUME NEW r \in Reports, NEW n \in 1..Len(LinesOf[r])
  PROVE  LET line == LinesOf[r][n] IN
         /\ line.from = r
         /\ line.kind \in Findable \cup {"leaks_detected"} => Kind[r] = line.kind
         /\ Kind[r] = "leaks_detected" => line.kind = "leaks_detected" /\ Len(LinesOf[r]) = 1
<1>1. CASE Kind[r] \in {"leak", "double_free", "leaks_detected"}
  <2>1. LinesOf[r][1] = Plain(Kind[r], r) /\ Len(LinesOf[r]) = 1
    BY <1>1, OneLineReports
  <2>2. n = 1
    BY <2>1
  <2> QED BY <2>1, <2>2 DEF Plain, Line
<1>2. CASE Kind[r] = "bounds"
  <2>1. Len(LinesOf[r]) = 3
    BY <1>2, ThreeLineReports
  <2>2. n = 1 \/ n = 2 \/ n = 3
    BY <2>1
  <2>3. PICK kind \in {"bounds", "access", "alloc_site"} : LinesOf[r][n] = Plain(kind, r)
    BY <1>2, <2>2, ThreeLineReports
  <2> QED BY <1>2, <2>3 DEF Plain, Line, Findable
<1>3. CASE Kind[r] = "info_box"
  <2>1. LinesOf[r] = <<Plain("info", r), Plain("site", r), Plain("close", r)>>
    BY <1>3 DEF LinesOf
  <2>2. n = 1 \/ n = 2 \/ n = 3
    BY <2>1
  <2> QED BY <1>3, <2>1, <2>2 DEF Plain, Line, Findable
<1>4. CASE Kind[r] = "box"
  <2> DEFINE N == Len(Rows[r])
  <2>1. N \in Nat /\ Len(LinesOf[r]) = N + 2
    BY <1>4, BoxReports, RowsAreTyped
  <2>2. n = 1 \/ n = N + 2 \/ (n - 1 \in 1..N /\ n = (n - 1) + 1)
    BY <2>1
  <2>3. CASE n = 1
    <3>1. LinesOf[r][n] = Plain("open", r)
      BY <1>4, <2>3, BoxReports
    <3> QED BY <1>4, <3>1 DEF Plain, Line, Findable
  <2>4. CASE n = N + 2
    <3>1. LinesOf[r][n] = Plain("close", r)
      BY <1>4, <2>4, BoxReports
    <3> QED BY <1>4, <3>1 DEF Plain, Line, Findable
  <2>5. CASE n - 1 \in 1..N /\ n = (n - 1) + 1
    <3>1. LinesOf[r][n] = RowLine(r, n - 1)
      BY <1>4, <2>5, BoxReports
    <3>2. Rows[r][n - 1].kind \in RowKinds
      BY <2>5, RowsAreTyped
    <3> QED BY <1>4, <3>1, <3>2 DEF RowLine, Line, RowKinds, Findable
  <2> QED BY <2>2, <2>3, <2>4, <2>5
<1> QED BY <1>1, <1>2, <1>3, <1>4, ReportsAssumption

LEMMA RulesApart ==
  ASSUME NEW rules \in Scanned
  PROVE  /\ "memory-leak" \in rules <=> rules = {"memory-leak"}
         /\ "double-free" \in rules <=> rules = {"double-free"}
         /\ \A n \in 1..LastRule : kVtableRules[n] \notin rules
         /\ "vtable-diagnostic" \notin rules
<1>1. \A n \in 1..LastRule : kVtableRules[n] \in
        {"vtable-null-this", "vtable-use-after-free", "vtable-corrupted", "vcall-invalid-target",
         "vtable-type-mismatch", "vtable-diagnostic"}
  <2>1. \A n \in 1..LastRule : n = 1 \/ n = 2 \/ n = 3 \/ n = 4 \/ n = 5 \/ n = 6 \/ n = 7 \/ n = 8
    BY DEF LastRule
  <2> QED BY <2>1 DEF kVtableRules
<1>2. \/ rules = {"heap-buffer-overflow", "heap-use-after-free"}
      \/ rules = {"heap-buffer-overflow", "stack-buffer-overflow", "heap-use-after-free"}
      \/ rules = {"memory-leak"} \/ rules = {"double-free"}
  BY DEF Scanned, HeapRules, kBoundsRules
<1> QED BY <1>1, <1>2

(* The rule of a box is none of those the summary counts. *)
LEMMA BoxRuleApart ==
  ASSUME NEW f \in Findings, f.kind = "box", NEW rules \in Scanned
  PROVE  RuleId(f) \notin rules
<1>1. f.rule \in 1..LastRule \/ f.rule = NoRule
  BY DEF Findings, NoRule, LastRule
<1> QED BY <1>1, RulesApart DEF RuleId

(* Either the findings keep their rules, or there is one more, of the rule *)
(* the line tells; the first for a report only when a box is open.         *)
SameRules ==
  /\ findings' \in Seq(Findings) /\ DOMAIN findings' = DOMAIN findings
  /\ \A i \in DOMAIN findings : RuleId(findings'[i]) = RuleId(findings[i])

OneMore(line) ==
  \E f \in Findings :
    /\ findings' = Append(findings, f)
    /\ \A rules \in Scanned : Gain(line, rules) = IF RuleId(f) \in rules THEN 1 ELSE 0

LEMMA NothingGained ==
  ASSUME NEW line, line.kind \notin Findable, NEW rules
  PROVE  Gain(line, rules) = 0
BY DEF Gain, Findable

LEMMA SameFindings ==
  ASSUME Inv, findings' = findings
  PROVE  SameRules
BY FindingsAreTyped DEF SameRules

LEMMA RuleOfKind ==
  ASSUME NEW f
  PROVE  /\ f.kind = "bounds" => RuleId(f) = BoundsRule[f.of]
         /\ f.kind = "leak" => RuleId(f) = "memory-leak"
         /\ f.kind = "double_free" => RuleId(f) = "double-free"
<1>1. ASSUME f.kind = "bounds" PROVE RuleId(f) = BoundsRule[f.of]
  BY <1>1 DEF RuleId
<1>2. ASSUME f.kind = "leak" PROVE RuleId(f) = "memory-leak"
  BY <1>2 DEF RuleId
<1>3. ASSUME f.kind = "double_free" PROVE RuleId(f) = "double-free"
  BY <1>3 DEF RuleId
<1> QED BY <1>1, <1>2, <1>3

LEMMA NewFindingTells ==
  ASSUME NEW line \in AnyLine, line.from \in Reports, line.kind \in Findable
  PROVE  \E f \in Findings :
           /\ NewFindings(line) = <<f>>
           /\ \A rules \in Scanned : Gain(line, rules) = IF RuleId(f) \in rules THEN 1 ELSE 0
<1> DEFINE r == line.from
<1>1. r \in Owners /\ NoRule \in 1..NoRule
  BY DEF Owners, NoRule, LastRule
<1>2. <<r>> \in Seq(Reports) /\ NoSite \in Seq(Reports)
  BY <1>1, ShortSequences DEF NoSite
<1>3. CASE line.kind = "bounds"
  <2> DEFINE f == Finding("bounds", NoRule, r, NoSite, NoSite)
  <2>1. f \in Findings /\ RuleId(f) = BoundsRule[r]
    <3>1. f \in Findings
      BY <1>1, <1>2 DEF Finding, Findings
    <3>2. f.kind = "bounds" /\ f.of = r
      BY DEF Finding
    <3> QED BY <3>1, <3>2, RuleOfKind
  <2>2. NewFindings(line) = <<f>>
    BY <1>3 DEF NewFindings
  <2> HIDE DEF f
  <2>3. \A rules \in Scanned : Gain(line, rules) = IF RuleId(f) \in rules THEN 1 ELSE 0
    BY <1>3, <2>1 DEF Gain
  <2> QED BY <2>1, <2>2, <2>3
<1>4. CASE line.kind = "leak"
  <2> DEFINE f == Finding("leak", NoRule, r, NoSite, <<r>>)
  <2>1. f \in Findings /\ RuleId(f) = "memory-leak"
    <3>1. f \in Findings
      BY <1>1, <1>2 DEF Finding, Findings
    <3>2. f.kind = "leak" /\ f.of = r
      BY DEF Finding
    <3> QED BY <3>1, <3>2, RuleOfKind
  <2>2. NewFindings(line) = <<f>>
    BY <1>4 DEF NewFindings
  <2> HIDE DEF f
  <2>3. \A rules \in Scanned : Gain(line, rules) = IF RuleId(f) \in rules THEN 1 ELSE 0
    BY <1>4, <2>1 DEF Gain
  <2> QED BY <2>1, <2>2, <2>3
<1>5. CASE line.kind = "double_free"
  <2> DEFINE f == Finding("double_free", NoRule, r, <<r>>, <<r>>)
  <2>1. f \in Findings /\ RuleId(f) = "double-free"
    <3>1. f \in Findings
      BY <1>1, <1>2 DEF Finding, Findings
    <3>2. f.kind = "double_free" /\ f.of = r
      BY DEF Finding
    <3> QED BY <3>1, <3>2, RuleOfKind
  <2>2. NewFindings(line) = <<f>>
    BY <1>5 DEF NewFindings
  <2> HIDE DEF f
  <2>3. \A rules \in Scanned : Gain(line, rules) = IF RuleId(f) \in rules THEN 1 ELSE 0
    BY <1>5, <2>1 DEF Gain
  <2> QED BY <2>1, <2>2, <2>3
<1> QED BY <1>3, <1>4, <1>5 DEF Findable

LEMMA FindingsGain ==
  ASSUME Inv, NEW line \in AnyLine, line.from \in Reports, ParseLine(line)
  PROVE  \/ SameRules /\ (line.kind \in Findable => box.open)
         \/ OneMore(line)
<1>1. CASE CloseBox(line)
  <2>1. line.kind \notin Findable
    BY <1>1 DEF CloseBox, Findable
  <2>2. CASE WarnRows(box.rows) = {}
    BY <1>1, <2>1, <2>2, SameFindings DEF CloseBox
  <2>3. CASE WarnRows(box.rows) # {}
    <3> DEFINE f == ToFinding(box.rows)
    <3>1. f \in Findings /\ f.kind = "box"
      <4>1. box.rows \in Seq(BoxRows)
        BY DEF Inv, TypeOK
      <4> QED BY <2>3, <4>1, FindingIsTyped DEF ToFinding, Finding
    <3>2. findings' = Append(findings, f)
      BY <1>1, <2>3 DEF CloseBox
    <3> HIDE DEF f
    <3> QED BY <2>1, <3>1, <3>2, BoxRuleApart, NothingGained DEF OneMore
  <2> QED BY <2>2, <2>3
<1>2. CASE AddRow(line)
  BY <1>2, SameFindings DEF AddRow
<1>3. CASE BeginBox(line)
  BY <1>3, SameFindings DEF BeginBox, Findable
<1>4. CASE ContinueReport(line)
  <2> DEFINE n == Back
  <2>1. line.kind \notin Findable
    BY <1>4 DEF ContinueReport, Indented, Findable
  <2>2. n \in DOMAIN findings /\ findings[n] \in Findings
    <3>1. findings # <<>>
      BY <1>4 DEF ContinueReport, Inv, BackIsBoundsReport
    <3> QED BY <3>1, FindingsAreTyped, EmptySeq, ElementOfSeq DEF Back
  <2>3. <<line.from>> \in Seq(Reports)
    <3>1. line.from \in Owners
      BY DEF Owners
    <3> QED BY <3>1, ShortSequences
  <2>4. PICK f \in Findings : /\ findings' = [findings EXCEPT ![n] = f]
                              /\ RuleId(f) = RuleId(findings[n])
    <3>1. CASE line.kind = "access"
      <4> DEFINE f == [findings[n] EXCEPT !.location = <<line.from>>]
      <4>1. f \in Findings /\ RuleId(f) = RuleId(findings[n])
        BY <2>2, <2>3 DEF Findings, RuleId
      <4>2. findings' = [findings EXCEPT ![n] = f]
        BY <1>4, <2>2, <3>1, FindingsAreTyped DEF ContinueReport
      <4> QED BY <4>1, <4>2
    <3>2. CASE line.kind = "alloc_site"
      <4> DEFINE f == [findings[n] EXCEPT !.allocation = <<line.from>>]
      <4>1. f \in Findings /\ RuleId(f) = RuleId(findings[n])
        BY <2>2, <2>3 DEF Findings, RuleId
      <4>2. findings' = [findings EXCEPT ![n] = f]
        BY <1>4, <2>2, <3>2, FindingsAreTyped DEF ContinueReport
      <4> QED BY <4>1, <4>2
    <3>3. CASE line.kind \notin {"access", "alloc_site"}
      <4>1. findings' = findings
        BY <1>4, <3>3 DEF ContinueReport
      <4>2. findings' = [findings EXCEPT ![n] = findings[n]]
        BY <2>2, <4>1, FindingsAreTyped
      <4> QED BY <2>2, <4>2
    <3> QED BY <3>1, <3>2, <3>3
  <2> HIDE DEF n
  <2>5. SameRules
    <3>1. /\ DOMAIN findings' = DOMAIN findings
          /\ \A i \in DOMAIN findings : findings'[i] = IF i = n THEN f ELSE findings[i]
      BY <2>2, <2>4
    <3>2. findings' \in Seq(Findings)
      <4>1. findings \in Seq(Findings) /\ n \in 1..Len(findings)
        BY <2>2, FindingsAreTyped
      <4> QED BY <2>4, <4>1, ExceptSeq
    <3> QED BY <2>4, <3>1, <3>2 DEF SameRules
  <2> QED BY <2>1, <2>5
<1>5. CASE NewReport(line)
  <2>1. CASE line.kind \in Findable
    <3>1. PICK f \in Findings :
            /\ NewFindings(line) = <<f>>
            /\ \A rules \in Scanned : Gain(line, rules) = IF RuleId(f) \in rules THEN 1 ELSE 0
      BY <2>1, NewFindingTells
    <3>2. findings' = Append(findings, f)
      BY <1>5, <3>1, AppendOne DEF NewReport
    <3> QED BY <3>1, <3>2 DEF OneMore
  <2>2. CASE line.kind \notin Findable
    <3>1. NewFindings(line) = <<>>
      BY <2>2 DEF NewFindings, Findable
    <3>2. findings' = findings
      BY <1>5, <3>1, FindingsAreTyped, ConcatEmptySeq DEF NewReport
    <3> QED BY <2>2, <3>2, SameFindings
  <2> QED BY <2>1, <2>2
<1> QED BY <1>1, <1>2, <1>3, <1>4, <1>5 DEF ParseLine

(* What the markers of a line count. *)
Marks(markers, c) == markers \cap CountedBy(c) # {}

LEMMA CountedByMarkers ==
  /\ CountedBy("bounds_errors") = HeapRules
  /\ CountedBy("leak_reports") = {"leaks_detected", "ct:_leak"}
  /\ CountedBy("allocation_events") = {"tracing-", "auto-free", "leaks_detected", "ct:_leak"}
  /\ CountedBy("errors") = {"[ERROR]", "_ERROR_"}
BY DEF CountedBy

LEMMA MarkersCount ==
  ASSUME NEW line \in AnyLine, line.from \in Reports
  PROVE  /\ Marks(Markers(line), "bounds_errors") <=> Gain(line, HeapRules) = 1
         /\ Marks(Markers(line), "leak_reports") <=> Gain(line, {"memory-leak"}) = 1 \/ Count(line) = 1
         /\ Marks(Markers(line), "allocation_events") <=>
              \/ Gain(line, {"memory-leak"}) = 1 \/ Gain(line, {"double-free"}) = 1
              \/ Count(line) = 1
         /\ Marks(Markers(line), "errors") <=> Gain(line, kBoundsRules) = 1 \/ Count(line) = 1
         /\ line.kind \in Findable \cup {"leaks_detected"} => IsCoreTraceLine(Markers(line))
<1>1. BoundsRule[line.from] \in kBoundsRules
  BY OutputAssumption
<1>2. CASE line.kind = "bounds"
  <2>1. Markers(line) = {"==ct==", "ct:", "[ERROR]"} \cup ({BoundsRule[line.from]} \cap HeapRules)
    BY <1>2 DEF Markers, Indented
  <2>2. IsCoreTraceLine(Markers(line))
    BY <2>1 DEF IsCoreTraceLine, CoreTraceMarkers
  <2>3. /\ Gain(line, {"memory-leak"}) = 0 /\ Gain(line, {"double-free"}) = 0 /\ Count(line) = 0
        /\ Gain(line, kBoundsRules) = 1
        /\ Gain(line, HeapRules) = IF BoundsRule[line.from] \in HeapRules THEN 1 ELSE 0
    BY <1>1, <1>2 DEF Gain, Count, kBoundsRules
  <2>4. Marks(Markers(line), "bounds_errors") <=> BoundsRule[line.from] \in HeapRules
    BY <2>1, CountedByMarkers DEF Marks, HeapRules
  <2>5. ~Marks(Markers(line), "leak_reports") /\ ~Marks(Markers(line), "allocation_events")
    BY <2>1, CountedByMarkers DEF Marks, HeapRules
  <2>6. Marks(Markers(line), "errors")
    BY <2>1, CountedByMarkers DEF Marks
  <2> QED BY <2>2, <2>3, <2>4, <2>5, <2>6
<1>3. CASE line.kind = "leak"
  <2>1. Markers(line) = {"==ct==", "ct:", "ct:_leak", "[WARN]"}
    BY <1>3 DEF Markers, Indented
  <2>2. IsCoreTraceLine(Markers(line))
    BY <2>1 DEF IsCoreTraceLine, CoreTraceMarkers
  <2>3. /\ Gain(line, {"memory-leak"}) = 1 /\ Gain(line, {"double-free"}) = 0 /\ Count(line) = 0
        /\ Gain(line, kBoundsRules) = 0 /\ Gain(line, HeapRules) = 0
    BY <1>3 DEF Gain, Count, kBoundsRules, HeapRules
  <2> QED BY <2>1, <2>2, <2>3, CountedByMarkers DEF Marks, HeapRules
<1>4. CASE line.kind = "leaks_detected"
  <2>1. Markers(line) = {"==ct==", "ct:", "leaks_detected", "[ERROR]"}
    BY <1>4 DEF Markers, Indented
  <2>2. IsCoreTraceLine(Markers(line))
    BY <2>1 DEF IsCoreTraceLine, CoreTraceMarkers
  <2>3. /\ \A rules : Gain(line, rules) = 0
        /\ Count(line) = 1
    BY <1>4 DEF Gain, Count
  <2> QED BY <2>1, <2>2, <2>3, CountedByMarkers DEF Marks, HeapRules
<1>5. CASE line.kind = "double_free"
  <2>1. Markers(line) = {"==ct==", "tracing-", "[WARN]"}
    BY <1>5 DEF Markers, Indented
  <2>2. IsCoreTraceLine(Markers(line))
    BY <2>1 DEF IsCoreTraceLine, CoreTraceMarkers
  <2>3. /\ Gain(line, {"memory-leak"}) = 0 /\ Gain(line, {"double-free"}) = 1 /\ Count(line) = 0
        /\ Gain(line, kBoundsRules) = 0 /\ Gain(line, HeapRules) = 0
    BY <1>5 DEF Gain, Count, kBoundsRules, HeapRules
  <2> QED BY <2>1, <2>2, <2>3, CountedByMarkers DEF Marks, HeapRules
<1>6. CASE line.kind \notin Findable \cup {"leaks_detected"}
  <2>1. Markers(line) \subseteq {"==ct==", "[WARN]", "[INFO]"}
    <3>1. CASE line.kind \in Indented 
      <4>1. Markers(line) = {}
        BY <1>6, <3>1 DEF Markers, Indented, Findable
      <4> QED BY <4>1
    <3>2. CASE line.kind \notin Indented 
      <4>1. Markers(line) = {"==ct==", IF Kind[line.from] = "box" THEN "[WARN]" ELSE "[INFO]"}
        BY <1>6, <3>2 DEF Markers, Findable
      <4> QED BY <4>1
    <3> QED BY <3>1, <3>2
  <2>2. /\ \A rules : Gain(line, rules) = 0
        /\ Count(line) = 0
    BY <1>6 DEF Gain, Count, Findable
  <2> QED BY <1>6, <2>1, <2>2, CountedByMarkers DEF Marks, HeapRules
<1> QED BY <1>2, <1>3, <1>4, <1>5, <1>6 DEF Findable

(* The counters the findings are compared with, by the line of a report    *)
(* that is read.                                                           *)
Compared == {"bounds_errors", "leak_reports", "allocation_events", "errors"}

LEMMA SummaryGains ==
  ASSUME OutputTypeInv, NEW line \in AnyLine, line.from \in Reports,
         summary' = UpdateSummary(Markers(line))
  PROVE  /\ summary'["bounds_errors"] = summary["bounds_errors"] + Gain(line, HeapRules)
         /\ summary'["leak_reports"] =
              summary["leak_reports"] + Gain(line, {"memory-leak"}) + Count(line)
         /\ summary'["allocation_events"] =
              summary["allocation_events"] + Gain(line, {"memory-leak"}) + Count(line)
                + Gain(line, {"double-free"})
         /\ summary'["errors"] = summary["errors"] + Gain(line, kBoundsRules) + Count(line)
<1>1. \A c \in Compared : c \in Counters /\ summary[c] \in Nat
  BY DEF OutputTypeInv, Counters, Compared
<1>2. \A c \in Compared :
        summary'[c] = IF IsCoreTraceLine(Markers(line)) /\ Marks(Markers(line), c)
                      THEN summary[c] + 1 ELSE summary[c]
  BY <1>1 DEF UpdateSummary, Marks
<1>3. \A c \in Compared : Marks(Markers(line), c) => IsCoreTraceLine(Markers(line))
  <2>1. line.kind \notin Findable \cup {"leaks_detected"} =>
          Count(line) = 0 /\ \A rules : Gain(line, rules) = 0
    BY DEF Gain, Count, Findable
  <2> QED BY <2>1, MarkersCount DEF Compared
<1>4. \A c \in Compared : summary'[c] = IF Marks(Markers(line), c) THEN summary[c] + 1 ELSE summary[c]
  BY <1>2, <1>3
<1>5. /\ Gain(line, HeapRules) \in {0, 1} /\ Gain(line, kBoundsRules) \in {0, 1}
      /\ Gain(line, {"memory-leak"}) \in {0, 1} /\ Gain(line, {"double-free"}) \in {0, 1}
      /\ Count(line) \in {0, 1}
  BY DEF Gain, Count
<1>6. /\ Gain(line, {"memory-leak"}) + Gain(line, {"double-free"}) + Count(line) <= 1
      /\ Gain(line, kBoundsRules) + Count(line) <= 1
  BY DEF Gain, Count, kBoundsRules
<1> DEFINE a == Gain(line, HeapRules)
           b == Gain(line, kBoundsRules)
           l == Gain(line, {"memory-leak"})
           d == Gain(line, {"double-free"})
           k == Count(line)
<1>7. /\ Marks(Markers(line), "bounds_errors") <=> a = 1
      /\ Marks(Markers(line), "leak_reports") <=> l = 1 \/ k = 1
      /\ Marks(Markers(line), "allocation_events") <=> l = 1 \/ d = 1 \/ k = 1
      /\ Marks(Markers(line), "errors") <=> b = 1 \/ k = 1
  BY MarkersCount
<1>8. /\ a \in {0, 1} /\ b \in {0, 1} /\ l \in {0, 1} /\ d \in {0, 1} /\ k \in {0, 1}
      /\ l + d + k <= 1 /\ b + k <= 1
  BY <1>5, <1>6
<1>9. /\ \A c \in Compared : summary[c] \in Nat
      /\ "bounds_errors" \in Compared /\ "leak_reports" \in Compared
      /\ "allocation_events" \in Compared /\ "errors" \in Compared
  BY <1>1 DEF Compared
<1> HIDE DEF a, b, l, d, k
<1>10. summary'["bounds_errors"] = summary["bounds_errors"] + a
  BY <1>4, <1>7, <1>8, <1>9
<1>11. summary'["leak_reports"] = summary["leak_reports"] + l + k
  BY <1>4, <1>7, <1>8, <1>9
<1>12. summary'["allocation_events"] = summary["allocation_events"] + l + k + d
  BY <1>4, <1>7, <1>8, <1>9
<1>13. summary'["errors"] = summary["errors"] + b + k
  BY <1>4, <1>7, <1>8, <1>9
<1> QED BY <1>10, <1>11, <1>12, <1>13 DEF a, b, l, d, k

(* A line beside the reports adds at most one to them, and to those that   *)
(* count reports only if it names one.                                     *)
LEMMA BesideGains ==
  ASSUME TextsInv, NEW markers, ReadBeside(markers)
  PROVE  /\ \A c \in Compared : /\ summary[c] \in Nat /\ summary'[c] \in Nat
                               /\ summary[c] <= summary'[c]
                               /\ summary'[c] - summary[c] <= beside' - beside
         /\ \A c \in {"bounds_errors", "leak_reports"} :
              summary'[c] - summary[c] <= naming' - naming
         /\ beside <= beside' /\ naming <= naming'
<1>1. /\ \A c \in Compared : c \in Counters /\ summary[c] \in Nat
      /\ beside \in Nat /\ naming \in Nat
  BY DEF TextsInv, OutputTypeInv, Counters, Compared
<1>2. CASE ~IsCoreTraceLine(markers)
  <2>1. summary' = summary /\ beside' = beside /\ naming' = naming
    BY <1>2 DEF ReadBeside, UpdateSummary
  <2> QED BY <1>1, <2>1 DEF Compared
<1>3. CASE IsCoreTraceLine(markers)
  <2>1. \A c \in Compared :
          summary'[c] = IF Marks(markers, c) THEN summary[c] + 1 ELSE summary[c]
    BY <1>1, <1>3 DEF ReadBeside, UpdateSummary, Marks
  <2>2. /\ beside' = beside + 1
        /\ naming' = naming + (IF NamesReport(markers) THEN 1 ELSE 0)
    BY <1>3 DEF ReadBeside
  <2>3. \A c \in {"bounds_errors", "leak_reports"} : Marks(markers, c) => NamesReport(markers)
    BY DEF Marks, NamesReport
  <2>4. {"bounds_errors", "leak_reports"} \subseteq Compared
    BY DEF Compared
  <2> QED BY <1>1, <2>1, <2>2, <2>3, <2>4
<1> QED BY <1>2, <1>3

-----------------------------------------------------------------------------
(* The summary and the findings.                                           *)

Counted == {r \in Reports : Kind[r] = "leaks_detected" /\ Complete(r)}

(* SummaryAgrees at every line, and not only at the end.                   *)
Agreement ==
  LET heap == Tally(AllFindings, HeapRules)
      bounds == Tally(AllFindings, kBoundsRules)
      leaks == Tally(AllFindings, {"memory-leak"})
      frees == Tally(AllFindings, {"double-free"})
      counts == Cardinality(Counted)
  IN  /\ IsFiniteSet(Counted)
      /\ heap <= summary["bounds_errors"] /\ leaks + counts <= summary["leak_reports"]
      /\ leaks + counts + frees <= summary["allocation_events"]
      /\ bounds + counts <= summary["errors"]
      /\ ~CutBox => /\ summary["bounds_errors"] <= heap + naming
                    /\ summary["leak_reports"] <= leaks + counts + naming
                    /\ summary["allocation_events"] <= leaks + counts + frees + beside
                    /\ summary["errors"] <= bounds + counts + beside

LEMMA AllFindingsTyped ==
  ASSUME TextsInv
  PROVE  /\ AllFindings \in Seq(Findings)
         /\ \A rules : Tally(AllFindings, rules) \in Nat
<1>1. earlier \in Seq(Findings) /\ findings \in Seq(Findings)
  BY FindingsAreTyped DEF TextsInv, OutputTypeInv
<1>2. AllFindings \in Seq(Findings)
  BY <1>1, ConcatProperties DEF AllFindings
<1> QED BY <1>2, TallyIsNumber

(* A line of a report adds what it gains, unless a box that was cut off    *)
(* hides it.                                                               *)
LEMMA TalliesGain ==
  ASSUME TextsInv, NEW line \in AnyLine, line.from \in Reports, ParseLine(line),
         UNCHANGED earlier, NEW rules \in Scanned
  PROVE  /\ \/ Tally(AllFindings', rules) = Tally(AllFindings, rules)
            \/ Tally(AllFindings', rules) = Tally(AllFindings, rules) + Gain(line, rules)
         /\ (line.kind \in Findable => ~box.open) =>
              Tally(AllFindings', rules) = Tally(AllFindings, rules) + Gain(line, rules)
<1>1. /\ earlier \in Seq(Findings) /\ findings \in Seq(Findings) /\ Inv
      /\ AllFindings = earlier \o findings /\ AllFindings' = earlier \o findings'
      /\ Tally(AllFindings, rules) \in Nat
  BY FindingsAreTyped, AllFindingsTyped DEF TextsInv, OutputTypeInv, AllFindings
<1>2. CASE SameRules /\ (line.kind \in Findable => box.open)
  <2>1. Tally(AllFindings', rules) = Tally(AllFindings, rules)
    BY <1>1, <1>2, AllSameRules DEF SameRules
  <2>2. line.kind \notin Findable => Gain(line, rules) = 0
    BY NothingGained
  <2> QED BY <1>1, <1>2, <2>1, <2>2
<1>3. CASE OneMore(line)
  <2>1. PICK f \in Findings :
          /\ findings' = Append(findings, f)
          /\ Gain(line, rules) = IF RuleId(f) \in rules THEN 1 ELSE 0
    BY <1>3 DEF OneMore
  <2>2. AllFindings' = Append(AllFindings, f)
    BY <1>1, <2>1, AllAppended
  <2>3. Tally(Append(AllFindings, f), rules) =
          Tally(AllFindings, rules) + (IF RuleId(f) \in rules THEN 1 ELSE 0)
    BY AllFindingsTyped, TallyOfOneMore
  <2> QED BY <2>1, <2>2, <2>3
<1> QED BY <1>1, <1>2, <1>3, FindingsGain

LEMMA CountsGain ==
  ASSUME TextsInv, NEW r \in Reports, LogLine(r), IsFiniteSet(Counted)
  PROVE  /\ IsFiniteSet(Counted') /\ Cardinality(Counted) \in Nat
         /\ Cardinality(Counted') = Cardinality(Counted) + Count(NextLine(r))
<1>1. /\ logged' = [logged EXCEPT ![r] = @ + 1] /\ ~Complete(r)
      /\ logged[r] \in Nat /\ logged[r] + 1 \in 1..Len(LinesOf[r])
      /\ logged \in [Reports -> Nat]
  BY LinesCounted DEF LogLine, Complete, TextsInv, Inv, TypeOK
<1>2. /\ NextLine(r).kind = "leaks_detected" => Kind[r] = "leaks_detected"
      /\ Kind[r] = "leaks_detected" => NextLine(r).kind = "leaks_detected" /\ Len(LinesOf[r]) = 1
  BY <1>1, LineOfReport DEF NextLine
<1>3. \A q \in Reports \ {r} : Complete(q)' = Complete(q)
  BY <1>1 DEF Complete
<1>4. Kind[r] = "leaks_detected" => logged'[r] = Len(LinesOf[r])
  <2> HAVE Kind[r] = "leaks_detected"
  <2>1. Len(LinesOf[r]) = 1
    BY <1>2
  <2>2. logged'[r] = logged[r] + 1 /\ logged[r] \in Nat /\ logged[r] + 1 <= Len(LinesOf[r])
    BY <1>1, <2>1
  <2> QED BY ONLY <2>1, <2>2
<1>5. Cardinality(Counted) \in Nat
  BY FS_CardinalityType
<1>6. CASE NextLine(r).kind = "leaks_detected"
  <2>1. Counted' = Counted \cup {r} /\ r \notin Counted
    BY <1>1, <1>2, <1>3, <1>4, <1>6 DEF Counted, Complete
  <2>2. IsFiniteSet(Counted \cup {r}) /\ Cardinality(Counted \cup {r}) = Cardinality(Counted) + 1
    BY <2>1, FS_AddElement
  <2> QED BY <1>5, <1>6, <2>1, <2>2 DEF Count
<1>7. CASE NextLine(r).kind # "leaks_detected"
  <2>1. Counted' = Counted
    BY <1>1, <1>2, <1>3, <1>7 DEF Counted, Complete
  <2> QED BY <1>5, <1>7, <2>1 DEF Count
<1> QED BY <1>6, <1>7

(* No box is open when a report that is no box is logged, but for one that *)
(* was cut off.                                                            *)
LEMMA NoBoxHides ==
  ASSUME TextsInv, ~Mixed, NEW r \in Reports, LogLine(r), ~CutBox,
         NextLine(r).kind \in Findable
  PROVE  ~box.open
<1>1. BoxesAreWhole
  BY OrderIsTyped DEF TextsInv, BoxesAreWhole, CutBox, Inv, TypeOK
<1>2. Kind[r] # "box"
  <2>1. logged[r] + 1 \in 1..Len(LinesOf[r])
    BY LinesCounted DEF LogLine, Complete, TextsInv
  <2>2. Kind[r] = NextLine(r).kind
    BY <2>1, LineOfReport DEF NextLine
  <2> QED BY <2>2 DEF Findable
<1>3. \A q \in Reports \ {r} : ~UnderWay(q)
  BY DEF LogLine
<1> QED BY <1>1, <1>2, <1>3 DEF TextsInv, ReportInv, BoxInv, BoxUnderWay

LEMMA AgreementInit == OutputInit => Agreement
<1> SUFFICES ASSUME OutputInit
             PROVE  Agreement
  OBVIOUS
<1>1. /\ findings = <<>> /\ earlier = <<>> /\ summary = Zero /\ logged = [r \in Reports |-> 0]
  BY DEF OutputInit, Init
<1>2. AllFindings = <<>>
  BY <1>1, EmptySeq, ConcatEmptySeq DEF AllFindings
<1>3. \A rules : Tally(AllFindings, rules) = 0
  <2>1. \A rules : {i \in DOMAIN AllFindings : RuleId(AllFindings[i]) \in rules} = {}
    BY <1>2
  <2> QED BY <2>1, FS_EmptySet DEF Tally
<1>4. Counted = {}
  <2>1. \A r \in Reports : ~Complete(r)
    BY <1>1, LinesCounted, InvInit DEF OutputInit, Complete
  <2> QED BY <2>1 DEF Counted
<1>5. (\A c \in Counters : summary[c] = 0) /\ beside = 0 /\ naming = 0
  BY <1>1 DEF OutputInit, Zero
<1> QED BY <1>3, <1>4, <1>5, FS_EmptySet DEF Agreement, Counters

LEMMA ReadReportAgrees ==
  ASSUME TextsInv, Agreement, ~Mixed, NEW r \in Reports, ReadReport(r)
  PROVE  Agreement'
<1> DEFINE line == NextLine(r)
           a == Gain(line, HeapRules)
           b == Gain(line, kBoundsRules)
           l == Gain(line, {"memory-leak"})
           d == Gain(line, {"double-free"})
           k == Count(line)
           S == summary
           T(rules) == Tally(AllFindings, rules)
           C == Cardinality(Counted)
<1>1. /\ LogLine(r) /\ ParseLine(line) /\ summary' = UpdateSummary(Markers(line))
      /\ UNCHANGED earlier /\ UNCHANGED cut /\ beside' = beside /\ naming' = naming
  BY DEF ReadReport, LogLine
<1>2. line \in AnyLine /\ line.from \in Reports
  <2>1. logged[r] + 1 \in 1..Len(LinesOf[r])
    BY <1>1, LinesCounted DEF LogLine, Complete, TextsInv
  <2>2. LinesOf[r] \in Seq(AnyLine)
    BY LinesAreTyped
  <2> QED BY <2>1, <2>2, ElementOfSeq, LineOfReport DEF NextLine
<1>3. /\ S'["bounds_errors"] = S["bounds_errors"] + a
      /\ S'["leak_reports"] = S["leak_reports"] + l + k
      /\ S'["allocation_events"] = S["allocation_events"] + l + k + d
      /\ S'["errors"] = S["errors"] + b + k
  BY <1>1, <1>2, SummaryGains DEF TextsInv
<1>4. /\ S["bounds_errors"] \in Nat /\ S["leak_reports"] \in Nat
      /\ S["allocation_events"] \in Nat /\ S["errors"] \in Nat
      /\ beside \in Nat /\ naming \in Nat
  BY DEF TextsInv, OutputTypeInv, Counters
<1>5. IsFiniteSet(Counted') /\ C \in Nat /\ Cardinality(Counted') = C + k
  BY <1>1, CountsGain DEF Agreement
<1>6. \A rules \in Scanned : /\ T(rules) \in Nat
                             /\ \/ Tally(AllFindings', rules) = T(rules)
                                \/ Tally(AllFindings', rules) = T(rules) + Gain(line, rules)
  BY <1>1, <1>2, TalliesGain, AllFindingsTyped
<1>7. ~CutBox => \A rules \in Scanned : Tally(AllFindings', rules) = T(rules) + Gain(line, rules)
  BY <1>1, <1>2, TalliesGain, NoBoxHides
<1>8. /\ HeapRules \in Scanned /\ kBoundsRules \in Scanned
      /\ {"memory-leak"} \in Scanned /\ {"double-free"} \in Scanned
  BY DEF Scanned
<1>9. CutBox' <=> CutBox
  BY <1>1 DEF CutBox
<1>10. a \in {0, 1} /\ b \in {0, 1} /\ l \in {0, 1} /\ d \in {0, 1} /\ k \in {0, 1}
  BY DEF Gain, Count
<1>11. /\ T(HeapRules) <= S["bounds_errors"] /\ T({"memory-leak"}) + C <= S["leak_reports"]
       /\ T({"memory-leak"}) + C + T({"double-free"}) <= S["allocation_events"]
       /\ T(kBoundsRules) + C <= S["errors"]
       /\ ~CutBox => /\ S["bounds_errors"] <= T(HeapRules) + naming
                     /\ S["leak_reports"] <= T({"memory-leak"}) + C + naming
                     /\ S["allocation_events"] <= T({"memory-leak"}) + C + T({"double-free"}) + beside
                     /\ S["errors"] <= T(kBoundsRules) + C + beside
  BY DEF Agreement
<1> DEFINE h1 == Tally(AllFindings', HeapRules)
           b1 == Tally(AllFindings', kBoundsRules)
           l1 == Tally(AllFindings', {"memory-leak"})
           d1 == Tally(AllFindings', {"double-free"})
           h0 == T(HeapRules)
           b0 == T(kBoundsRules)
           l0 == T({"memory-leak"})
           d0 == T({"double-free"})
<1>12. /\ h0 \in Nat /\ b0 \in Nat /\ l0 \in Nat /\ d0 \in Nat
       /\ h1 = h0 \/ h1 = h0 + a
       /\ b1 = b0 \/ b1 = b0 + b
       /\ l1 = l0 \/ l1 = l0 + l
       /\ d1 = d0 \/ d1 = d0 + d
       /\ ~CutBox => h1 = h0 + a /\ b1 = b0 + b /\ l1 = l0 + l /\ d1 = d0 + d
  BY <1>6, <1>7, <1>8
<1>13. /\ h0 <= S["bounds_errors"] /\ l0 + C <= S["leak_reports"]
       /\ l0 + C + d0 <= S["allocation_events"] /\ b0 + C <= S["errors"]
       /\ ~CutBox => /\ S["bounds_errors"] <= h0 + naming /\ S["leak_reports"] <= l0 + C + naming
                     /\ S["allocation_events"] <= l0 + C + d0 + beside
                     /\ S["errors"] <= b0 + C + beside
  BY <1>11
<1> DEFINE C1 == Cardinality(Counted')
<1>14. C \in Nat /\ C1 = C + k
  BY <1>5
<1>17. beside' = beside /\ naming' = naming
  BY <1>1
<1> HIDE DEF line, a, b, l, d, k, h1, b1, l1, d1, h0, b0, l0, d0, C, C1, T
<1>15. h1 <= S'["bounds_errors"] /\ l1 + C1 <= S'["leak_reports"]
  BY <1>3, <1>4, <1>10, <1>12, <1>13, <1>14
<1>18. l1 + C1 + d1 <= S'["allocation_events"]
  BY <1>3, <1>4, <1>10, <1>12, <1>13, <1>14
<1>19. b1 + C1 <= S'["errors"]
  BY <1>3, <1>4, <1>10, <1>12, <1>13, <1>14
<1>16. ~CutBox => /\ S'["bounds_errors"] <= h1 + naming' /\ S'["leak_reports"] <= l1 + C1 + naming'
                  /\ S'["allocation_events"] <= l1 + C1 + d1 + beside'
                  /\ S'["errors"] <= b1 + C1 + beside'
  <2> HAVE ~CutBox
  <2>1. /\ h1 = h0 + a /\ b1 = b0 + b /\ l1 = l0 + l /\ d1 = d0 + d
        /\ S["bounds_errors"] <= h0 + naming /\ S["leak_reports"] <= l0 + C + naming
        /\ S["allocation_events"] <= l0 + C + d0 + beside /\ S["errors"] <= b0 + C + beside
    BY <1>12, <1>13
  <2>2. S'["bounds_errors"] <= h1 + naming'
    BY <1>3, <1>4, <1>10, <1>12, <1>17, <2>1
  <2>3. S'["leak_reports"] <= l1 + C1 + naming'
    BY <1>3, <1>4, <1>10, <1>12, <1>14, <1>17, <2>1
  <2>4. S'["allocation_events"] <= l1 + C1 + d1 + beside'
    BY <1>3, <1>4, <1>10, <1>12, <1>14, <1>17, <2>1
  <2>5. S'["errors"] <= b1 + C1 + beside'
    BY <1>3, <1>4, <1>10, <1>12, <1>14, <1>17, <2>1
  <2> QED BY <2>2, <2>3, <2>4, <2>5
<1> QED BY <1>5, <1>9, <1>15, <1>16, <1>18, <1>19 DEF Agreement, h1, b1, l1, d1, C1

(* The findings and what is counted of the reports stay as they are, and   *)
(* no box that was cut off becomes whole.                                  *)
LEMMA AgreementKept ==
  ASSUME Agreement, \A rules : Tally(AllFindings', rules) = Tally(AllFindings, rules),
         UNCHANGED <<summary, beside, naming>>, UNCHANGED logged, cut \subseteq cut'
  PROVE  Agreement'
<1>1. Counted' = Counted
  BY DEF Counted, Complete
<1>2. CutBox => CutBox'
  BY DEF CutBox
<1> QED BY <1>1, <1>2 DEF Agreement

(* A line beside the reports is at most one more of what is counted.       *)
LEMMA BesideAgrees ==
  ASSUME TextsInv, Agreement, NEW markers, ReadBeside(markers)
  PROVE  Agreement'
<1> DEFINE heap == Tally(AllFindings, HeapRules)
           bounds == Tally(AllFindings, kBoundsRules)
           leaks == Tally(AllFindings, {"memory-leak"})
           frees == Tally(AllFindings, {"double-free"})
           counts == Cardinality(Counted)
           S == summary
<1>1. findings' = findings /\ UNCHANGED <<logged, cut, earlier>>
  BY NoiseTaken DEF ReadBeside, LogNoise, TextsInv
<1>2. AllFindings' = AllFindings
  BY <1>1 DEF AllFindings
<1>3. Counted' = Counted /\ (CutBox' <=> CutBox)
  BY <1>1 DEF Counted, Complete, CutBox
<1>4. /\ heap \in Nat /\ bounds \in Nat /\ leaks \in Nat /\ frees \in Nat
      /\ counts \in Nat /\ IsFiniteSet(Counted)
  BY AllFindingsTyped, FS_CardinalityType DEF Agreement
<1>5. /\ beside \in Nat /\ naming \in Nat /\ beside' \in Nat /\ naming' \in Nat
  BY BesideGains DEF TextsInv, OutputTypeInv, ReadBeside
<1>6. /\ heap <= S["bounds_errors"] /\ leaks + counts <= S["leak_reports"]
      /\ leaks + counts + frees <= S["allocation_events"] /\ bounds + counts <= S["errors"]
      /\ ~CutBox => /\ S["bounds_errors"] <= heap + naming
                    /\ S["leak_reports"] <= leaks + counts + naming
                    /\ S["allocation_events"] <= leaks + counts + frees + beside
                    /\ S["errors"] <= bounds + counts + beside
  BY DEF Agreement
<1>7. /\ \A c \in Compared : /\ S[c] \in Nat /\ S'[c] \in Nat /\ S[c] <= S'[c]
                             /\ S'[c] - S[c] <= beside' - beside
      /\ S'["bounds_errors"] - S["bounds_errors"] <= naming' - naming
      /\ S'["leak_reports"] - S["leak_reports"] <= naming' - naming
      /\ {"bounds_errors", "leak_reports", "allocation_events", "errors"} \subseteq Compared
  BY BesideGains DEF Compared
<1> HIDE DEF heap, bounds, leaks, frees, counts
<1>8. /\ heap <= S'["bounds_errors"] /\ leaks + counts <= S'["leak_reports"]
      /\ leaks + counts + frees <= S'["allocation_events"] /\ bounds + counts <= S'["errors"]
  BY <1>4, <1>6, <1>7
<1>9. ~CutBox => /\ S'["bounds_errors"] <= heap + naming'
                 /\ S'["leak_reports"] <= leaks + counts + naming'
                 /\ S'["allocation_events"] <= leaks + counts + frees + beside'
                 /\ S'["errors"] <= bounds + counts + beside'
  BY <1>4, <1>5, <1>6, <1>7
<1> QED BY <1>2, <1>3, <1>4, <1>8, <1>9 DEF Agreement, heap, bounds, leaks, frees, counts

LEMMA AgreementStep ==
  ASSUME TextsInv, Agreement, ~Mixed, [OutputNext]_<<vars, outputVars>>
  PROVE  Agreement'
<1>1. ASSUME NEW r \in Reports, ReadReport(r)
      PROVE  Agreement'
  BY <1>1, ReadReportAgrees
<1>2. ASSUME UNCHANGED <<findings, earlier>>, UNCHANGED <<summary, beside, naming>>, UNCHANGED logged,
             cut \subseteq cut'
      PROVE  Agreement'
  BY <1>2, AgreementKept DEF AllFindings
<1>3. ASSUME NEW r \in Reports, ReadCut(r)
      PROVE  Agreement'
  BY <1>2, <1>3 DEF ReadCut, CutOff, parserVars, outputVars
<1>4. ASSUME NEW markers \in Besides, ReadBeside(markers)
      PROVE  Agreement'
  BY <1>4, BesideAgrees
<1>5. CASE NextStream
  <2>1. AllFindings' = AllFindings
    <3>1. AllFindings \in Seq(Findings)
      BY AllFindingsTyped
    <3>2. AllFindings' = AllFindings \o <<>>
      BY <1>5 DEF NextStream, AllFindings
    <3> QED BY <3>1, <3>2, ConcatEmptySeq
  <2> QED BY <1>5, <2>1, AgreementKept DEF NextStream
<1>6. CASE UNCHANGED <<vars, outputVars>>
  BY <1>2, <1>6 DEF vars, parserVars, textVars, outputVars
<1> QED BY <1>1, <1>3, <1>4, <1>5, <1>6 DEF OutputNext, Written

(* The summary counts every heap bounds error, leak and double free that   *)
(* is a finding, for any reports on either stream and any lines beside     *)
(* them; what it counts beyond the findings and the count of the leaks is  *)
(* lines beside the reports, and among the bounds errors and the leaks     *)
(* only lines that name one, as long as no box is cut off.  When one is,   *)
(* the findings may be fewer and are never more.                           *)
THEOREM SummaryAlwaysAgrees ==
  ASSUME ~Mixed
  PROVE  OutputSpec => []SummaryAgrees
<1>1. OutputInit => TextsInv /\ Agreement
  BY TextsInit, AgreementInit
<1>2. (TextsInv /\ Agreement) /\ [OutputNext]_<<vars, outputVars>> => (TextsInv /\ Agreement)'
  BY TextsStep, AgreementStep
<1>3. Agreement => SummaryAgrees
  BY DEF Agreement, SummaryAgrees, FindingsNaming, Tally, CompleteOf, Counted
<1> QED BY <1>1, <1>2, <1>3, PTL DEF OutputSpec
-----------------------------------------------------------------------------
(* The regions of the log.                                                 *)

LEMMA FrontIsShorter ==
  ASSUME NEW parts \in Seq(Part), Len(parts) > 1
  PROVE  Front(parts) \in Seq(Part) /\ Front(parts) # <<>> /\ Last(parts) \in Part
<1>1. Len(parts) \in Nat /\ DOMAIN parts = 1..Len(parts)
  BY LenProperties
<1>2. 1 \in 1..(Len(parts) + 1) /\ Len(parts) - 1 \in (1 - 1)..Len(parts)
  BY <1>1
<1>3. Front(parts) = SubSeq(parts, 1, Len(parts) - 1) /\ Last(parts) = parts[Len(parts)]
  BY DEF Front, Last
<1>4. /\ SubSeq(parts, 1, Len(parts) - 1) \in Seq(Part)
      /\ Len(SubSeq(parts, 1, Len(parts) - 1)) = Len(parts) - 1
  BY <1>1, <1>2, SubSeqProperties
<1>5. Last(parts) \in Part
  BY <1>1, <1>3, ElementOfSeq
<1>6. Len(Front(parts)) # 0
  BY <1>1, <1>3, <1>4
<1> QED BY <1>3, <1>4, <1>5, <1>6, EmptySeq

(* Whatever text a site is, the region read from it starts at line 1 or    *)
(* later, with a column from 1 or none, in a file with a name.             *)
THEOREM RegionsAreValid ==
  ASSUME NEW parts \in Seq(Part), NEW region \in Location(ParseSite(parts))
  PROVE  /\ region.startLine \in Nat /\ region.startLine >= 1
         /\ region.startColumn \subseteq Nat \ {0}
         /\ region.uri \notin {<<>>, <<EmptyText>>}
<1>1. ASSUME NEW file \in Seq(Part), file # <<>>, NEW line \in Nat, NEW column \in Nat,
             region \in Location(At(file, line, column))
      PROVE  /\ region.startLine \in Nat /\ region.startLine >= 1
             /\ region.startColumn \subseteq Nat \ {0}
             /\ region.uri \notin {<<>>, <<EmptyText>>}
  <2>1. At(file, line, column) # None
    BY <1>1 DEF Location
  <2>2. file # <<EmptyText>> /\ line # 0
    BY <2>1 DEF At
  <2>3. At(file, line, column) = [file |-> file, line |-> line, column |-> column]
    BY <2>2 DEF At
  <2> DEFINE site == [file |-> file, line |-> line, column |-> column]
  <2>4. /\ region.uri = file /\ region.startLine = line
        /\ region.startColumn = IF column = 0 THEN {} ELSE {column}
    <3>1. site # None /\ region \in Location(site)
      BY <1>1, <2>1, <2>3
    <3>2. site.file = file /\ site.line = line /\ site.column = column
      OBVIOUS
    <3> HIDE DEF site
    <3>3. region = [uri |-> site.file, startLine |-> site.line,
                    startColumn |-> IF site.column = 0 THEN {} ELSE {site.column}]
      BY <3>1 DEF Location
    <3> QED BY <3>2, <3>3
  <2> QED BY <1>1, <2>2, <2>4
<1>2. EndsInNumber(parts)
  BY DEF ParseSite, Location
<1>3. /\ Front(parts) \in Seq(Part) /\ Front(parts) # <<>> /\ Last(parts) \in Nat
  BY <1>2, FrontIsShorter DEF EndsInNumber
<1>4. CASE EndsInNumber(Front(parts))
  <2> DEFINE rest == Front(parts)
  <2>1. Front(rest) \in Seq(Part) /\ Front(rest) # <<>> /\ Last(rest) \in Nat
    BY <1>3, <1>4, FrontIsShorter DEF EndsInNumber
  <2>2. ParseSite(parts) = At(Front(rest), Last(rest), Last(parts))
    BY <1>2, <1>4 DEF ParseSite
  <2> QED BY <1>1, <1>3, <2>1, <2>2
<1>5. CASE ~EndsInNumber(Front(parts))
  <2>1. ParseSite(parts) = At(Front(parts), Last(parts), 0)
    BY <1>2, <1>5 DEF ParseSite
  <2> QED BY <1>1, <1>3, <2>1
<1> QED BY <1>4, <1>5

-----------------------------------------------------------------------------
(* The log, also of reports whose lines come mixed or that are cut off.    *)

TypesInv == Inv /\ OutputTypeInv

LEMMA TypesInvHolds == OutputSpec => []TypesInv
<1>1. OutputInit => TypesInv
  BY TextsInit DEF TextsInv, TypesInv
<1>2. TypesInv /\ [OutputNext]_<<vars, outputVars>> => TypesInv'
  <2> SUFFICES ASSUME TypesInv, [OutputNext]_<<vars, outputVars>>
               PROVE  Inv' /\ OutputTypeInv'
    BY DEF TypesInv
  <2>1. OutputTypeInv'
    BY OutputTypesStep DEF TypesInv
  <2>2. CASE NextStream
    BY <2>1, <2>2, NextStreamKeepsTypes DEF TypesInv
  <2>3. CASE ~NextStream
    <3>1. [Next]_vars
      BY <2>3 DEF OutputNext, ReadReport, ReadBeside, ReadCut, Written, Next
    <3> QED BY <2>1, <3>1, InvStep DEF TypesInv
  <2> QED BY <2>2, <2>3
<1> QED BY <1>1, <1>2, PTL DEF OutputSpec

(* Each rule is listed once, and exactly those that a result names.        *)
LEMMA RulesAreListed ==
  ASSUME NEW T, NEW ids \in Seq(T)
  PROVE  LET list == Listed(ids)
             rules == {list[i] : i \in DOMAIN list}
         IN  /\ Cardinality(rules) = Len(list)
             /\ rules = {ids[i] : i \in DOMAIN ids}
<1> DEFINE len == Len(ids)
           S == {i \in DOMAIN ids : \A j \in DOMAIN ids : j < i => ids[j] # ids[i]}
           list == Listed(ids)
           rules == {list[i] : i \in DOMAIN list}
<1>1. len \in Nat /\ DOMAIN ids = 1..len /\ \A i \in 1..len : ids[i] \in T
  BY LenProperties, ElementOfSeq
<1>2. \A i \in S : i \in 1..len
  BY <1>1
<1>3. \A i, j \in S : i < j => ids[i] # ids[j]
  BY <1>1
<1>4. \A i \in S : ids[i] \in T
  BY <1>1, <1>2
<1>5. \A i \in 1..len : \E k \in S : ids[k] = ids[i]
  <2>1. ASSUME NEW i \in 1..len
        PROVE  \E k \in S : ids[k] = ids[i]
    <3> DEFINE Same == {j \in 1..len : ids[j] = ids[i]}
    <3>1. Same \subseteq Nat /\ Same # {}
      OBVIOUS
    <3>2. PICK k \in Same : \A m \in Same : k <= m
      BY <3>1, LeastNumber
    <3>3. k \in S
      BY <1>1, <3>2
    <3> QED BY <3>2, <3>3
  <2> QED BY <2>1
<1>6. list = Selected(ids, S)
  BY DEF Listed
<1> HIDE DEF S, len, list
<1>7. list \in Seq(T) /\ Len(list) = Cardinality(S)
  BY <1>1, <1>2, <1>4, <1>6, SelectedIsSequence
<1>8. DOMAIN list = 1..Len(list) /\ Len(list) \in Nat
  BY <1>7, LenProperties
<1>9. \A k, l \in DOMAIN list : list[k] = list[l] => k = l
  BY <1>1, <1>2, <1>3, <1>6, SelectedApart
<1>10. rules = {ids[i] : i \in S}
  <2>1. DOMAIN list = 1..Cardinality(S) /\ \A k \in 1..Cardinality(S) : list[k] = ids[Nth(S, k)]
    BY <1>6 DEF Selected
  <2>2. \A k \in 1..Cardinality(S) : Nth(S, k) \in S
    BY <1>1, <1>2, NthIsThere
  <2>3. \A i \in S : \E k \in 1..Cardinality(S) : Nth(S, k) = i
    BY <1>1, <1>2, NthOfElement
  <2> QED BY <2>1, <2>2, <2>3
<1>11. rules = {ids[i] : i \in DOMAIN ids}
  BY <1>1, <1>2, <1>5, <1>10
<1>12. Cardinality(rules) = Len(list)
  <2> DEFINE f == [i \in 1..Len(list) |-> list[i]]
  <2>1. f \in Bijection(1..Len(list), rules)
    BY <1>8, <1>9 DEF Bijection, Injection, Surjection, IsInjective
  <2>2. ExistsBijection(1..Len(list), rules)
    BY <2>1 DEF ExistsBijection
  <2> HIDE DEF rules
  <2> QED BY <1>8, <2>2, FS_CountingElements
<1> QED BY <1>11, <1>12 DEF list

LEMMA ReadParsesParts ==
  ASSUME NEW site \in Seq(Reports), NEW text \in [Reports -> Seq(Part)], site # NoSite
  PROVE  \E parts \in Seq(Part) : Read(site, text) = ParseSite(parts)
<1>1. site[1] \in Reports
  BY EmptySeq, LenProperties, ElementOfSeq DEF NoSite
<1> DEFINE told == text[site[1]]
<1>2. told \in Seq(Part) /\ Len(told) \in Nat
  BY <1>1, LenProperties
<1>3. Read(site, text) = ParseSite(told) \/ Read(site, text) = ParseSite(Front(told))
  BY DEF Read
<1> HIDE DEF told
<1>4. Front(told) = SubSeq(told, 1, Len(told) - 1)
  BY DEF Front
<1>5. Front(told) \in Seq(Part)
  <2>1. CASE told = <<>>
    BY <1>4, <2>1
  <2>2. CASE told # <<>>
    BY <1>2, <1>4, <2>2, EmptySeq, SubSeqProperties
  <2> QED BY <2>1, <2>2
<1> QED BY <1>2, <1>3, <1>5

LEMMA LogIsValidTold == TypesInv => LogIsValid
<1> SUFFICES ASSUME TypesInv
             PROVE  LogIsValid
  OBVIOUS
<1> DEFINE all == AllFindings
           ids == [i \in DOMAIN all |-> RuleId(all[i])]
           results == [i \in DOMAIN all |-> SarifResult(all[i])]
           T == {RuleId(f) : f \in Findings}
<1>1. earlier \in Seq(Findings) /\ findings \in Seq(Findings)
  BY FindingsAreTyped DEF TypesInv, OutputTypeInv
<1>2. all \in Seq(Findings)
  BY <1>1, ConcatProperties DEF AllFindings
<1>3. WriteSarif = [results |-> results, rules |-> Listed(ids)]
  BY DEF WriteSarif
<1> HIDE DEF all
<1>4. DOMAIN all = 1..Len(all) /\ Len(all) \in Nat /\ \A i \in 1..Len(all) : all[i] \in Findings
  BY <1>2, LenProperties, ElementOfSeq
<1>5. ids \in Seq(T)
  <2>1. \A i \in 1..Len(all) : RuleId(all[i]) \in T
    BY <1>4
  <2> HIDE DEF T
  <2>2. ids \in [1..Len(all) -> T]
    BY <1>4, <2>1
  <2> QED BY <1>4, <2>2, SeqDef
<1>6. \A i \in DOMAIN all : results[i] = SarifResult(all[i])
  OBVIOUS
<1>7. {ids[i] : i \in DOMAIN ids} = {results[i].ruleId : i \in DOMAIN results}
  BY <1>6 DEF SarifResult
<1> HIDE DEF T, ids
<1>8. LET list == Listed(ids)
          rules == {list[i] : i \in DOMAIN list}
      IN  Cardinality(rules) = Len(list) /\ rules = {ids[i] : i \in DOMAIN ids}
  BY <1>5, RulesAreListed
<1>9. ASSUME NEW i \in DOMAIN all,
             NEW l \in results[i].locations \cup results[i].relatedLocations
      PROVE  l.startLine >= 1 /\ 0 \notin l.startColumn /\ l.uri \notin {<<>>, <<EmptyText>>}
  <2> DEFINE f == all[i]
             access == [r \in Reports |-> SiteText[r].access]
             allocation == [r \in Reports |-> SiteText[r].allocation]
  <2>1. access \in [Reports -> Seq(Part)] /\ allocation \in [Reports -> Seq(Part)]
    BY OutputAssumption
  <2>2. f.location \in Seq(Reports) /\ f.allocation \in Seq(Reports)
    BY <1>4 DEF Findings
  <2>3. /\ results[i].locations = Location(Read(f.location, access))
        /\ results[i].relatedLocations = Location(Read(f.allocation, allocation))
    BY <1>6 DEF SarifResult
  <2> HIDE DEF f, access, allocation
  <2>4. ASSUME NEW site \in Seq(Reports), NEW text \in [Reports -> Seq(Part)],
               l \in Location(Read(site, text))
        PROVE  l.startLine >= 1 /\ 0 \notin l.startColumn /\ l.uri \notin {<<>>, <<EmptyText>>}
    <3>1. site # NoSite
      BY <2>4 DEF Read, Location
    <3>2. \E parts \in Seq(Part) : l \in Location(ParseSite(parts))
      BY <2>4, <3>1, ReadParsesParts
    <3> QED BY <3>2, RegionsAreValid
  <2> QED BY <1>9, <2>1, <2>2, <2>3, <2>4
<1>10. DOMAIN results = DOMAIN all
  OBVIOUS
<1> HIDE DEF results
<1>11. WriteSarif.rules = Listed(ids) /\ WriteSarif.results = results
  BY <1>3
<1> DEFINE list == Listed(ids)
           rules == {list[i] : i \in DOMAIN list}
<1>12. Cardinality(rules) = Len(list) /\ rules = {results[i].ruleId : i \in DOMAIN results}
  BY <1>7, <1>8
<1>13. \A i \in DOMAIN results : \A l \in results[i].locations \cup results[i].relatedLocations :
         l.startLine >= 1 /\ 0 \notin l.startColumn /\ l.uri \notin {<<>>, <<EmptyText>>}
  BY <1>9, <1>10
<1>14. WriteSarif.rules = list
  BY <1>11
<1> HIDE DEF list
<1> QED BY ONLY <1>11, <1>12, <1>13, <1>14 DEF LogIsValid

(* Whatever the program logs, whole or cut off, mixed or not: the log that *)
(* is written of it lists each rule once, exactly those that its results   *)
(* name, and every region in it is one.                                    *)
THEOREM LogIsAlwaysValid == OutputSpec => []LogIsValid
BY TypesInvHolds, LogIsValidTold, PTL
=============================================================================
