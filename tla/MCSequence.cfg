CONSTANTS
  Minters <- ThreeCalls
  Attempts = 2
SPECIFICATION Spec
INVARIANTS
  TypeOK
  NumbersAreSound
PROPERTIES
  IssuesDistinctIds
CHECK_DEADLOCK FALSE
