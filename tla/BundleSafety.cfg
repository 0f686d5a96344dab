SPECIFICATION Spec
CONSTANTS
  Classes <- LongPlans
  MaxInterrupts = 1
INVARIANTS
  TypeOK
  AcceptedRunIsClean
  DaemonsAliveAtCutoff
  OwnedIsReleased
  FailuresAreExplained
PROPERTY DaemonsGoFirst
