CONSTANTS
  Calls = {c1, c2, c3}
  Attempts = 2
  Requests <- AnyRequest
  Modes <- AllModes
  Gates <- MixedGates
  Allowed <- Small
  Seeds <- SeedValues
  NoValue = NoValue
SPECIFICATION Spec
INVARIANTS
  TypeOK
  LedgerAccounts
  SoundUnlessValueRecurs
PROPERTIES
  ActsAsRegister
SYMMETRY Alike
CHECK_DEADLOCK FALSE
