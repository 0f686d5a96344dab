SPECIFICATION Spec
CONSTANTS
  Classes <- PlainPlan
  MaxInterrupts = 0
INVARIANT NothingLeftBehind
