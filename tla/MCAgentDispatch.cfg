CONSTANTS
  Calls <- TwoCalls
  Workers <- OneWorker
  Limit = 2
  Cap = 0
  Doubtful <- OneOfThem
  MaxApprovals = 1
  Timeliness <- TimelyOnly
SPECIFICATION FairSpec
PROPERTIES
  QueueDrains
