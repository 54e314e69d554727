CONSTANTS
  NNodes = 4
  Own = 4
  Channels <- Radios
  Hotplug = {3, 4}
  Aps = {3}
  Signals <- FarAndNear
  Gaps = {1, 2}
  beacon_request_frequency = 2
  beacon_request_signal_modifier = 1
  beacon_report_invalide_timeout = 1
  FailMod = 10
  AgeCap = 3
SPECIFICATION FairSpec
INVARIANTS TypeOK NotFlooded
PROPERTIES EveryBandIsAsked ExpiredReportsGo AnsweringClientsRecover
