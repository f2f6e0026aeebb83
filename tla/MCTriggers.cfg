CONSTANTS
  r1 = r1
  r2 = r2
  Trigs <- OneTrigger
  Foci <- OneFocus
  Persons <- OnePerson
  Requests <- TwoRequests
  Evaluators <- TwoRequests
  Reviewers <- TwoRequests
  Editors <- TwoRequests
  Blanks = {FALSE, TRUE}
  Contested <- Staging
  RequireDefiner = FALSE
  TTL = 1
  MaxEvents = 4
  MaxFirings = 2
  MaxCandidates = 2
SPECIFICATION Spec
SYMMETRY Alike
INVARIANTS
  TypeOK
  DoubleFiringNeedsOverlap
  RevokedDefinerStops
  ApprovedIsMerged
