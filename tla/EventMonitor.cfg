\* Three blocks, queries of up to two, a channel of two events, one fault, one replaced block.
\* With another verification key in vk.json no process starts, and the chain ends.
SPECIFICATION FairSpec
CONSTANTS
  s1 = s1
  s2 = s2
  a1 = a1
  a2 = a2
  StateIds = {s1, s2}
  Addresses = {a1, a2}
  None = None
  Blocks <- MCBlocks
  Wanted <- MCWanted
  MaxBlocksPerQuery = 2
  ChannelCapacity = 2
  MaxReaders = 1
  MaxHeight = 3
  MaxReorgs = 1
  MaxFaults = 1
CHECK_DEADLOCK FALSE
INVARIANTS
  TypeOK
  DispatchIsTheChain
  SubscribersGetTheirs
  MissesOldEventsOnly
PROPERTY
  CatchesUp
