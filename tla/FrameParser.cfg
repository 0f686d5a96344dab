SPECIFICATION Spec
CONSTANTS
    Capacity = 142
    SnapLens = {0, 150}
    CapturedLens <- MCCapturedLens
    RtLens <- MCRtLens
    Words <- MCWords
    VendorLens = {0, 3}
    Tlvs <- MCTlvs
    MacHeaders <- MCMacHeaders
    Elements <- MCElements
    EapolKeys <- MCEapolKeys
    MaxIes = 3
INVARIANTS
    TypeOK
    ReadsInBounds
    RadiotapFieldsPlaced
    ElementsTileBody
    FirstElementWins
    RecordsFromBoundaries
PROPERTIES
    FramesEnd
