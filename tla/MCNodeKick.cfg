CONSTANTS
  NSta = 2
  Measurements <- KickMeasurements
  noise <- Noise
  roam_scan_snr = 15
  roam_trigger_snr = 10
  min_snr = 5
  roam_scan_tries = 1
  roam_scan_interval = 0
  roam_trigger_interval = 0
  KickDelay = 0
  TriesMod = 2
  load_kick_min_clients = 2
  LoadDelay = 1
  Reconfigure = FALSE
  AgeCap = 1
  MaxKicks = 1
SPECIFICATION Spec
INVARIANTS KickedOncePerPoll LoadKickIsPatient
