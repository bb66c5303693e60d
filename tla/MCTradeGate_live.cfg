SPECIFICATION EngineSpec
CONSTANTS
  f1 = f1
  t1 = t1
  spl = spl
  serum = serum
  r1 = r1
  r2 = r2
  notify = notify
  NoOne = NoOne
  Feeds = {f1}
  Tickers = {t1}
  FeedOf <- OnePair
  Updaters = {spl, serum}
  Early = {spl}
  Receivers = {r1, r2}
  Target <- TwoTargets
  AcctCap = 1
  HashCap = 1
  Sinks = {}
  NetStatus = FALSE
  Interrupts = FALSE
PROPERTIES UpdateAnswered ChangeCalculated
