CONSTANTS
  s1 = s1  b1 = b1
  Threads = {t1}
  SignalThread = timer
  TimerTypes = {"ONE_SHOT"}
  Times = {"later"}
  MaxTimers = 2
  NoTimer = NoTimer
  Mailboxes = {m1}
  Labels = {x}
  MaxReceivers = 2
  QueueSize = 1
  Sizes = {1}
  EltSize <- MCEltSize
  PoolCap <- MCPoolCap
  PoolBlocks <- MCPoolBlocks
  SizeMod = 4
  MaxSends = 3
  NoThread = NoThread
  NoMailbox = NoMailbox
  NoBlock = NoBlock
CHECK_DEADLOCK FALSE
SPECIFICATION FairSpec
INVARIANTS TypeOK EventReachesAll SendsToLiving
PROPERTIES ImplementsTimerManager ImplementsMailbox CallsReturn
