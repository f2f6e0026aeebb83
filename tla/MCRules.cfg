CONSTANTS
  p = p
  q = q
  Reqs <- TwoReqs
  RuleIds <- TwoRules
  Graphs <- TwoGraphs
  Keys <- OneKey
  Values <- TwoValues
  Outputs <- SomeOutputs
  Contents <- Some
  Asks <- SomeAsks
  Operations <- Ops
  Definitions <- Defs
  Registered <- First
  Reaches <- AllOrOne
  Attempts = 2
  MaxEvents = 3
  NoRule = NoRule
  NoEntry = NoEntry
  NoValue = NoValue
  AsDeclared = AsDeclared
SYMMETRY Symmetry
SPECIFICATION Spec
INVARIANTS
  TypeOK
  WholeOutput
  AtMostOneCurrent
CHECK_DEADLOCK FALSE
