CONSTANTS
  Messages <- TwoMessages
  Admins <- TwoAdmins
  Manifests <- ThreeManifests
  Kind <- TheKinds
  Deps <- TheDeps
  Rank <- TheRanks
  Rule <- TheRules
  RuleIds <- OneRule
  Persons <- OnePerson
  MaxEvents = 3
SPECIFICATION FairSpec
INVARIANTS
  PipelinesTypeOK
  MessageTells
  IndexAgrees
PROPERTIES
  RunsEnd
CHECK_DEADLOCK FALSE
