SPECIFICATION FairSpec
CONSTANTS
  Classes <- ShortestPlan
  MaxInterrupts = 1
PROPERTIES
  Ends
  DaemonsDie
