SPECIFICATION Spec
CONSTANTS
  ap1 = ap1
  ap2 = ap2
  ap3 = ap3
  sta = sta
  sta2 = sta2
  broadcast = broadcast
  name = name
  Zeros = Zeros
  Empty = Empty
  None = None
  Stations <- MCStations
  Groups <- MCGroups
  Names <- MCNames
  Codes <- MCCodes
  Frames <- MixedFrames
  MaxBssids = 2
  MaxHandshakes = 2
  MaxRecords = 4
INVARIANTS
  TypeOK
  BssidsMatchCapture
  HandshakesMatchCapture
  CountsAddUp
  SuccessIsComplete
