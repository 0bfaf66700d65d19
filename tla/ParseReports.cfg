\* reports in every order on two streams, whole or cut off, the program and the runtime logging between their lines
SPECIFICATION OutputSpec
CONSTANTS
  Reports = {"heap", "box1", "box2", "double", "leaks", "leak"}
  Kind <- MCKind
  Rows <- MCRows
  BoundsRule <- MCBoundsRule
  SiteText <- MCSiteText
  Besides <- MCBesides
  MaxBeside = 1
  Mixed = FALSE
  MaxCut = 1
INVARIANT TypeOK
INVARIANT BackIsBoundsReport
INVARIANT OneFindingPerReport
INVARIANT BoxRuleIsMostSpecific
INVARIANT SitesAreOwn
INVARIANT SummaryAgrees
INVARIANT LogIsValid
