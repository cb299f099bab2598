SPECIFICATION Spec
CONSTANTS
  User <- MCUser
  Admins = {"admin"}
  Process = {p1, p2}
  Schema <- MCSchema
  Column <- MCColumn
  SeedTable <- MCSeedTable
  SeedColumn <- MCSeedColumn
  Asked <- MCAsked
  Intents <- MCIntents
  MaxSelected = 10
  MaxRequests = 1
  MaxPlans = 1
  MaxCrashes = 1
  MaxRevoked = 1
SYMMETRY Symm
INVARIANTS ReviewsComplete GrantsJustified PlannedWithinGrants SnapshotSeen JoinsCorrect
CHECK_DEADLOCK FALSE
