SPECIFICATION Spec
CONSTANTS
  Sources = {hostapd}
  Scrubbed = {hostapd}
  Stamped = {hostapd}
  Nobody = Nobody
  Skews = {0, 1}
  Steps <- SteppedForward
  MaxTime = 1
  MaxLines = 2
  MaxPackets = 1
INVARIANTS VisibleIsScrubbedPrefix SealedWindowsLoad CaptureBeforeCutoff
