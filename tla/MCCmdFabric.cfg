CONSTANTS
  NUM_CLUSTERS = 2
  Device = {timer}
  Masks <- MaskValues
SPECIFICATION FairSpec
INVARIANTS OncePerTarget AnswerIsMine ErrorTold
PROPERTIES EveryAccessAnswered
