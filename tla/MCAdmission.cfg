CONSTANTS
  TimeWidth = 6
  Signals <- WeakAndGood
  noise <- NoiseFloor
  max_retry_band = 2
  sta_block_timeout = 2
  initial_connect_delay = 1
  min_connect_snr = 20
SPECIFICATION Spec
INVARIANTS BurstIsBounded UrgencyIsEarned
