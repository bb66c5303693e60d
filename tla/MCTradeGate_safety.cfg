SPECIFICATION EngineSpec
CONSTANTS
  f1 = f1
  t1 = t1
  spl = spl
  serum = serum
  r1 = r1
  r2 = r2
  notify = notify
  NoOne = NoOne
  Feeds = {f1}
  Tickers = {t1}
  FeedOf <- OnePair
  Updaters = {spl}
  Early = {spl}
  Receivers = {r1}
  Target <- OneTarget
  AcctCap = 1
  HashCap = 1
  Sinks = {notify}
  NetStatus = TRUE
  Interrupts = TRUE
INVARIANTS EngineTypeOK GateExclusive
PROPERTIES GateSpec StopBlockedOnlyBy
CHECK_DEADLOCK FALSE
