CONSTANTS
  NUM_PORTS = 2
  NUM_PES = 2
  Depth = 2
  PeDepth = 2
  Chunks = 2
  Window = 3
  Workloads <- ConvAndGemm
SPECIFICATION FairSpec
PROPERTY EverythingServed
