CONSTANTS
  Addresses = {1}
  Descriptors = {1, 2}
  MaxGeneration = 3
  MayShutDown = TRUE
SPECIFICATION FairSpec
PROPERTIES
  StaleServiceEnds
  ListensAgain
  SlotFreed
