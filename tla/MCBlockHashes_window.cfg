SPECIFICATION HashSpec
CONSTANTS
  tick = tick
  NClients = 2
  Readers = {tick}
  OldLimit = 1
  Every = 2
  SlotWord = 1024
  Lag = 0
  QueueCap = 1
  MaxSlot = 3
INVARIANTS Exclusive NeighboursDiffer
PROPERTIES Repeats AsksAll WindowAtomic SpinsEnd
