CONSTANTS
  Ids = {1, 2}
  local_id = 0
  remote_node_timeout = 1
  remote_update_interval = 2
  local_sta_timeout = 7
  remote_disabled = FALSE
  ValidSsid = TRUE
  ReliableNl80211 = TRUE
  MaxLoss = 1
  MaxDelay = 1
  MaxNet = 2
  HostapdStops = {1}
SPECIFICATION FairSpec
INVARIANTS TypeOK SilentAreDropped ForgottenInTime
PROPERTIES DroppedAfterSilence LeftClientsAreForgotten
