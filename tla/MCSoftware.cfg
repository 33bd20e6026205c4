CONSTANTS
  ISRAM_WORDS = 4
  DSRAM_WORDS = 3
  EntryBeats = 2
  BeatWords = 2
  WordBytes = 2
  Manifests <- ManifestSet
  MayFail = TRUE
  kNumSources = 2
  MaxPriority = 2
  MaxPulses = 3
  PE = {p1, p2}
  MaxTransit = 2
  MaxIngress = 2
  StartupGuard = 4
  Inputs = 3
  Send = {PS}
  PLO = PLO
  Depth = 1
  SpmLimit = 1
  MaxTotal = 2
  MaxRuns = 2
SPECIFICATION SoftwareSpec
INVARIANTS
  CopiedSoFar WritesOnce
  NoInterruptLost MeipMeansClaim
  SubstateAgrees StoppedMeansStill NeverInterrupted NoInputLost
  DoneMeansComplete SendInOrder PloInOrder
PROPERTIES CoreEnabled EverySourceServed LayerEnds EveryWaveCompletes
