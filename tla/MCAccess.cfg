SPECIFICATION Spec
CONSTANTS
  p1 = p1
  p2 = p2
  p3 = p3
  r1 = r1
  r2 = r2
  Persons <- People
  Requests <- Slots
  Asks <- Considered
  Foundings <- Founded
  Claimants <- People
  MaxEvents = 3
SYMMETRY Symmetry
CHECK_DEADLOCK FALSE
INVARIANT TypeOK
PROPERTIES
  SomebodyRules
  DeactivationStrips
  WritesWereAllowed
  OwnersDecide
