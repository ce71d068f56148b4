SPECIFICATION Spec
CONSTANTS
  t1 = t1
  t2 = t2
  Threads = {t1, t2}
  Caching = {t1}
  Null = Null
  Designs = {"fixed", "slab", "bridge"}
  Requests = {16, 20}
  ChunkBlocks = 2
  BridgeBlocks = 1
  GrowFactor = 2
  MaxChunks = 2
  BatchSize = 2
  MaxBlocks = 5
INVARIANTS StackLinked OneOwner FitsRequest ChunkLimit
PROPERTY NullExplained
CHECK_DEADLOCK FALSE
