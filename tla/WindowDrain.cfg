SPECIFICATION FairSpec
CONSTANTS
  Sources = {hostapd, dhcp_server}
  Scrubbed = {}
  Stamped = {}
  Nobody = Nobody
  Skews = {0}
  Steps <- NeverStepped
  MaxTime = 0
  MaxLines = 2
  MaxPackets = 0
INVARIANT AcceptedIsComplete
PROPERTY Terminates
