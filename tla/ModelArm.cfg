SPECIFICATION Spec
CONSTANTS
    MaxRounds = 2
    Retries = 1
    Gap = 1
    Durations = {0, 1}
    ContextLengths = {15, 20, 23, 35}
    MaxTokens = 4
    Initial = 6
    Definitions = 4
    History = 6
    Reserve = 6
    Exhausted = 1
    Stub = 1
    ErrorSizes = {1, 2}
    AnswerSizes = {1, 9}
    OutputSizes = {1, 8}
    CallCounts = {1, 2, 7}
    Usages = {1}
INVARIANTS
    TypeOK
    PlanHolds
    CallsBounded
    TraceMatchesCalls
    RequestsSpaced
    WorkerReaped
PROPERTIES
    ArmEnds
CHECK_DEADLOCK FALSE
