SPECIFICATION FairSpec
CONSTANTS
  WORDS = 32
  REGISTERS = 3
  Dsram <- MCDsram
  Mmio <- MCMmio
  TIMER = 8
  MSIP = 9
  PORT = 10
  Programs <- MCCounting
PROPERTIES MepcIsResumePoint
