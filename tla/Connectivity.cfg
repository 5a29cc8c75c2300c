CONSTANTS
  Word = 8
  StatusInterval = 1
  RetryInitial = 1
  RetryMax = 4
  NtpInterval = 3
  MaxLag = 3
  Addresses = {1}
SPECIFICATION FairSpec
INVARIANTS
  HomePageCurrent
PROPERTIES
  AttemptsPaced
  Reconnects
