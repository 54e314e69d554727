CONSTANTS
  t1 = t1
  t2 = t2
  Timers = {t1, t2}
  H = 7
  MaxMsecs = 4
  MinRepeat = 1
  MaxLag = 2
SPECIFICATION FairSpec
INVARIANTS TypeOK StoredOrder NoLostWakeup
PROPERTIES TimerContract DueTimersAreServed
