SPECIFICATION Spec
CONSTANTS
  Sources = {hostapd}
  Scrubbed = {hostapd}
  Stamped = {hostapd}
  Nobody = Nobody
  Skews = {0, 1}
  Steps <- SteppedBack
  MaxTime = 1
  MaxLines = 2
  MaxPackets = 0
INVARIANTS TypeOK VisibleBeforeCutoff
PROPERTY ImplementsSealedEvidence
