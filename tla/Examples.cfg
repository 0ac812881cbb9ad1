CONSTANTS
  s1 = s1
  b1 = b1
  Settings <- MCSettings
  Last = 6
  MaxTicks = 1
  Threads = {"main", "thread1", "thread2", "thread3"}
  SignalThread = "timer"
  TimerTypes = {}
  Times = {"later"}
  MaxTimers = 4
  NoTimer = NoTimer
  Mailboxes = {"main", "thread1", "thread2", "thread3"}
  Labels = {1, 2, 3, 4, 5, 6, 999}
  MaxReceivers = 3
  QueueSize = 5
  Sizes = {1, 2, 3}
  EltSize <- MCEltSize
  PoolCap <- MCPoolCap
  PoolBlocks <- MCPoolBlocks
  SizeMod = 4
  MaxSends = 6
  NoThread = NoThread
  NoMailbox = NoMailbox
  NoBlock = NoBlock
CHECK_DEADLOCK FALSE
SPECIFICATION ProgramSpec
INVARIANTS AllShown BlocksReturned SendsToLiving
PROPERTY Terminates
