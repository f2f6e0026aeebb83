CONSTANTS
  Tasks <- TwoTasks
  Order <- InOrder
  Personas <- OnePersona
  PersonaOf <- BothNameIt
  Existing <- OneOfThem
  Able <- TwoTasks
  Limit <- Limits
  Dispatches <- OnlyB
  Batch = 2
  Interval = 1
  DayLength = 2
  Workers <- LoopAndAdmin
  Loop = "loop"
  Tickers <- LoopAndAdmin
  Horizon = 1
  MaxRequests = 2
  NoPersona = NoPersona
  NoTask = NoTask
  Unlimited = Unlimited
SPECIFICATION SchedulerSpec
INVARIANTS
  SchedulerTypeOK
  FiringsAreBounded
CHECK_DEADLOCK FALSE
