\* Three consumers, so that two can sleep while a third takes their value.
CONSTANTS
  Consumers = {c1, c2, c3}
  Values = {v1, v2}
  NoValue = NoValue
  Capacity = 2
SPECIFICATION FairSpec
INVARIANTS TypeOK NoLostWakeup
PROPERTIES PopWaitReturns ImplementsFifo
