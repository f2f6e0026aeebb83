CONSTANTS
  t1 = t1
  t2 = t2
  v1 = v1
  v2 = v2
  l1 = l1
  l2 = l2
  Tasks <- TwoTasks
  Persons <- TwoPersons
  Ids <- OneId
  Versions <- TwoVersions
  Named <- TheNames
  Place <- ThePlaces
  Changeable <- TheFacts
  Given <- AtFirst
  Loans <- TwoLoans
  Lender <- FromP
  Borrower <- ToQ
  Fields <- TheFields
  MaxEvents = 3
SPECIFICATION Spec
SYMMETRY Alike
INVARIANTS
  TypeOK
  CacheAgrees
  RunsWereReachable
  ReadsWereAllowed
CHECK_DEADLOCK FALSE
