CONSTANTS
  a = a
  b = b
  Names = {a}
  Remotes = {}
  Ssid <- OneSsid
  BadSsid = {a}
  NoRrm = {a}
  local_sta_update = 4
  MaxLatency = 2
  MaxId = 3
  Flapping = TRUE
  InterfaceFound = {TRUE, FALSE}
  InterfaceStays = TRUE
  WithNetifd = TRUE
SPECIFICATION FairSpec
INVARIANTS TypeOK FreedNodesAreSilent RequestIsNotReused ClientsAreListed OutOfStepOnlyWithNews
PROPERTY NodesFollowHostapd
