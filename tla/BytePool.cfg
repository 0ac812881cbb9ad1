\* One block more than the capacity, so that only the count limits the pool;
\* up to three calls of free() can overlap.
CONSTANTS
  Threads = {t1, t2, t3}
  Blocks = {b1, b2, b3, b4}
  Capacity = 3
  SizeMod = 8
  NoBlock = NoBlock
  SerialAlloc = TRUE
SPECIFICATION Spec
INVARIANTS TypeOK SizeExact
PROPERTY ImplementsBlockPool
