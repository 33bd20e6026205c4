CONSTANTS
  NUM_CLUSTERS = 2
  kIngressDepth = 1
  kMaxOutstanding = 2
  Silent <- SilentClusters
  Careful <- CarefulRequesters
  Together <- TogetherRequesters
  Open <- OpenAccesses
SPECIFICATION FairSpec
INVARIANT WritesMeet
PROPERTIES ImplementsServer EveryAccessAnswered
