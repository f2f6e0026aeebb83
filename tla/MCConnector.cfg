CONSTANTS
  c1 = c1
  c2 = c2
  a = a
  b = b
  Clients <- TwoClients
  Logins <- TwoLogins
  Kinds <- BothKinds
  Names <- OneName
  Pinned <- PinnedBank
  Static = TRUE
  Durable = TRUE
  AccessTTL = 1
  MaxFamilies = 2
  MaxTokens = 3
  MaxHappened = 6
SPECIFICATION ConnectorSpec
SYMMETRY Symmetric
INVARIANTS
  ConnectorTypeOK
  ReplayEndsFamily
  ChoiceIsKept
PROPERTIES
  RevokedLoginStops
CHECK_DEADLOCK FALSE
