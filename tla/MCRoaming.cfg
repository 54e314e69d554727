CONSTANTS
  Nodes = {1, 2}
  ssid <- OneSsid
  is5g <- FiveG
  max_assoc <- NoLimit
  band_steering_threshold = 1
  load_balancing_threshold = 2
  signal_diff_threshold = 6
  load_kick_threshold = 75
  load_kick_min_clients = 3
  noise = 0
  max_retry_band = 2
  min_connect_snr = 10
  initial_connect_delay = 1
  Counts = {0, 3}
  Loads = {90}
  Faulty = {1}
  Signals <- NearAndFar
SPECIFICATION FairSpec
INVARIANT RefusedByAllOnlyWhenStale
PROPERTY NobodyIsLockedOut
