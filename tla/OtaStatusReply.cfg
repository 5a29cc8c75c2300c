CONSTANTS
  GenerationLimit = 2
  SignalLimit = 1
  Digests = {d1}
  NoDigest = NoDigest
  MaxChunks = 1
  MaxWebGeneration = 0
  StatusPolls = TRUE
SPECIFICATION Spec
INVARIANT
  RepliesNameReadyImage
