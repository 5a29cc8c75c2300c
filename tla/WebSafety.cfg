CONSTANTS
  Addresses = {1, 2}
  Descriptors = {1, 2, 3}
  MaxGeneration = 3
  MayShutDown = TRUE
SPECIFICATION Spec
INVARIANTS
  TypeOK
  SocketsOwned
  SlotHeld
  PublishedIsCurrent
  AdvertisedIsServed
