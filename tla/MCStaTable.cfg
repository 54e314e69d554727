CONSTANTS
  s1 = s1
  s2 = s2
  l1 = l1
  l2 = l2
  r1 = r1
  Stations = {s1, s2}
  Local = {l1}
  Remote = {r1}
  local_sta_timeout = 2
  ReliableNl80211 = FALSE
  KickOn = TRUE
  CandidateOn = TRUE
SPECIFICATION FairSpec
INVARIANTS TableConsistent AssociatedKeptWhileConfirmed UntimedAreAccountedFor
PROPERTY EntriesAgeOut
