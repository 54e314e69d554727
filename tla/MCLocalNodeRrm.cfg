CONSTANTS
  a = a
  b = b
  r = r
  Names = {a, b}
  Remotes = {r}
  Ssid <- OneSsid
  BadSsid = {}
  NoRrm = {}
  local_sta_update = 4
  MaxLatency = 0
  MaxId = 1
  Flapping = FALSE
  InterfaceFound = {TRUE}
  InterfaceStays = TRUE
  WithNetifd = FALSE
SPECIFICATION FairSpec
PROPERTY NeighboursConverge
