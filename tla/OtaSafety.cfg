CONSTANTS
  GenerationLimit = 2
  SignalLimit = 2
  Digests = {d1}
  NoDigest = NoDigest
  MaxChunks = 1
  MaxWebGeneration = 1
  StatusPolls = TRUE
SPECIFICATION Spec
INVARIANTS
  TypeOK
  CoreUnderLease
  LeaseAccounted
  CancellationWins
  ActivatesAcknowledgedImage
  BorrowedBodyAlive
PROPERTIES
  NoPendingUpdateWithoutApply
  ImplementsSession
