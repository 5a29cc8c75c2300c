CONSTANTS
  GenerationLimit = 2
  SignalLimit = 1
  Digests = {d1}
  NoDigest = NoDigest
  MaxChunks = 1
  MaxWebGeneration = 1
  StatusPolls = FALSE
SPECIFICATION FairSpec
PROPERTIES
  UploadReturns
  ApplyDecided
  LeaseReturns
