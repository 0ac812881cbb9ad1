\* Three sends of two threads on one label with three slots: a queue of two fills,
\* a pool runs out, and a mailbox can be registered twice.  A program that has
\* destroyed its mailboxes and made its sends stops: no deadlock check.
CONSTANTS
  t1 = t1  t2 = t2
  m1 = m1  m2 = m2
  s1 = s1  s2 = s2  s3 = s3
  b1 = b1  b2 = b2
  Threads = {t1, t2}
  Mailboxes = {m1, m2}
  Labels = {x}
  MaxReceivers = 3
  QueueSize = 2
  Sizes = {1, 2, 3}
  EltSize <- MCEltSize
  PoolCap <- MCPoolCap
  PoolBlocks <- MCPoolBlocks
  SizeMod = 4
  MaxSends = 3
  NoThread = NoThread
  NoMailbox = NoMailbox
  NoBlock = NoBlock
SYMMETRY MCSymmetry
CHECK_DEADLOCK FALSE
SPECIFICATION Spec
INVARIANTS TypeOK OneOwner BlocksAccounted PoolExact PutFits SendResult TrueMeansDelivered RegistrationsExact
PROPERTIES ImplementsOrderedMulticast ReceivesInOrder 
