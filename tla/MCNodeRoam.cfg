CONSTANTS
  NSta = 1
  Measurements <- RoamMeasurements
  noise <- Noise
  roam_scan_snr = 15
  roam_trigger_snr = 10
  min_snr = 5
  roam_scan_tries = 2
  roam_scan_interval = 1
  roam_trigger_interval = 2
  KickDelay = 2
  TriesMod = 4
  load_kick_min_clients = 1
  LoadDelay = 2
  Reconfigure = TRUE
  AgeCap = 4
  MaxKicks = 2
SPECIFICATION FairSpec
INVARIANTS TypeOK RoamKickIsAnnounced
PROPERTIES LoadKicksAreSpaced ScanPhaseEnds
