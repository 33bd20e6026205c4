SPECIFICATION FairSpec
CONSTANTS
  Programs <- MCPrograms
  LANES = 2
  PSUMS = 4
  WORDS = 2
  STEPS = 40
  WAVES = 2
  STARTUP_GUARD = 4
PROPERTIES ImplementsPorts EveryProgramEnds
CHECK_DEADLOCK FALSE
