CONSTANTS
  Calls <- OneCall
  Workers <- ThreeWorkers
  Limit = 1
  Cap = 1
  Doubtful <- None
  MaxApprovals = 2
  Timeliness <- Either
SPECIFICATION Spec
INVARIANTS
  TypeOK
  SendsAreSafe
PROPERTIES
  StatusFollowsDiagram
