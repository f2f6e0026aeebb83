CONSTANTS
  t1 = t1
  t2 = t2
  r1 = r1
  r2 = r2
  Triples <- TwoTriples
  Hooks <- AllHooks
  Requests <- TwoRequests
  MaxRuns = 2
  Horizon = 1
  Ages = {0}
  Sweeping = TRUE
  Unreliable = TRUE
  KeepsEmptyGraphs = FALSE
  Gone = Gone
  NoDelivery = NoDelivery
SPECIFICATION Spec
SYMMETRY Symmetry
INVARIANTS
  TypeOK
  NothingIsSkipped
PROPERTY
  MovesToWhatWasApplied
