CONSTANTS
  NUM_NOC_PORTS = 2
  BANKS_PER_GROUP = 2
  MAX_OUTSTANDING = 3
  DMA_MAX_OUTSTANDING = 1
  Writers <- Writing
  Shapes <- PortShapes
  DmaWrites <- WriteBanks
  DmaReads <- ReadBanks
  Names <- NameBound
SPECIFICATION FairSpec
PROPERTIES ImplementsServer EveryReadAnswered
