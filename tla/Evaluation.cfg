SPECIFICATION Spec
CONSTANTS
    Bundles = {1, 2}
    Test = {2}
    Groups = {1, 2}
    LlmGroups = {2}
    Outcomes = {"DIAGNOSED", "TRUNCATED"}
    TooLong = {1}
    SettingsOf <- FirstEditKeeps
    MaxEdits = 2
INVARIANTS
    TypeOK
    HeldOutIsFrozen
    RowsMatchHashes
    RefusalsAreDue
    ScoresAddUp
