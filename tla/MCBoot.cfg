CONSTANTS
  ISRAM_WORDS = 4
  DSRAM_WORDS = 3
  EntryBeats = 2
  BeatWords = 2
  WordBytes = 2
  Manifests <- ManifestSet
  MayFail = TRUE
SPECIFICATION Spec
INVARIANT RunsAfterLoad
