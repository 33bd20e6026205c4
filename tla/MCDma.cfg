CONSTANTS
  kDmaCmdFifoDepth = 1
  kDataBufferDepth = 3
  kRespFifoDepth = 1
  kDmaMaxOutstanding = 2
  ADDR_FIFO_DEPTH = 2
  Commands <- CommandSet
  TAGS = 6
SPECIFICATION FairSpec
INVARIANT WaitIsRight
PROPERTIES ImplementsCopier EveryCommandEnds
