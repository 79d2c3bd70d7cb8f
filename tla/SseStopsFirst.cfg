SPECIFICATION Spec
CONSTANTS
  BlockAdded = BlockAdded
  Fault = Fault
  h1 = h1
  h2 = h2
  Names <- MCNames
  Handlers <- MCHandlers
  Payloads <- MCPayloads
  MaxStreams = 3
  StopFirst = TRUE
SYMMETRY Symmetric
INVARIANTS HandledAtMostOnce OnlyOneStreamLives
PROPERTIES CalledInTurn StopEndsProcessing
