CONSTANTS
  RawIter = {0, 2}
  CtrlWrites <- CommandWrites
SPECIFICATION FairSpec
INVARIANT StreamIntact
PROPERTIES ImplementsStream EveryRunEnds
