CONSTANTS
  s1 = s1
  s2 = s2
  s3 = s3
  s4 = s4
  Stations = {s1, s2, s3, s4}
  Nodes = {1, 2, 3}
  ssid <- OneSsid
  is5g <- FiveG
  max_assoc <- Limited
  band_steering_threshold = 1
  load_balancing_threshold = 3
  signal_diff_threshold = 1
  load_kick_threshold = 75
  load_kick_min_clients = 2
  Views <- MixedViews
  Loads = {50, 90}
  Drift = TRUE
SPECIFICATION Spec
INVARIANTS NoReturn SomeNodeIsBest
PROPERTIES EveryMovePaysOff SteeringSettles
