\* A program that registers before Initialize.
CONSTANTS
  t1 = t1  t2 = t2
  m1 = m1  m2 = m2
  s1 = s1  s2 = s2  s3 = s3
  b1 = b1  b2 = b2
  Threads = {t1, t2}
  Mailboxes = {m1, m2}
  Labels = {x}
  MaxReceivers = 3
  QueueSize = 1
  Sizes = {1}
  EltSize <- MCEltSize
  PoolCap <- MCPoolCap
  PoolBlocks <- MCPoolBlocks
  SizeMod = 4
  MaxSends = 1
  NoThread = NoThread
  NoMailbox = NoMailbox
  NoBlock = NoBlock
CHECK_DEADLOCK FALSE
SPECIFICATION LazySpec
PROPERTY CallsReturn
