CONSTANTS
  GenerationLimit = 2
  SignalLimit = 1
  Digests = {d1}
  NoDigest = NoDigest
  MaxChunks = 1
  MaxWebGeneration = 0
  StatusPolls = FALSE
SPECIFICATION Spec
PROPERTY
  DisconnectWhileWaitingCancels
