SPECIFICATION EngineSpec
CONSTANTS
  f1 = f1
  t1 = t1
  spl = spl
  serum = serum
  r1 = r1
  r2 = r2
  notify = notify
  NoOne = NoOne
  Feeds = {f1}
  Tickers = {t1}
  FeedOf <- OnePair
  Updaters = {}
  Early = {}
  Receivers = {}
  Target <- NoTarget
  AcctCap = 1
  HashCap = 8
  Sinks = {}
  NetStatus = TRUE
  Interrupts = TRUE
PROPERTIES ProcessEnds
CHECK_DEADLOCK FALSE
