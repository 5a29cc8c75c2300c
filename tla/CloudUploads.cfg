CONSTANTS
  Word = 6
  UploadInterval = 3
  RetryInterval = 1
  RebootDelay = 2
  MaxLag = 2
  Codes = {0, 200, 201, 401, 408, 422, 425, 429, 499, 500, 599, 600}
SPECIFICATION FairSpec
INVARIANTS
  TypeOK
PROPERTIES
  UploadsPaced
  QuietUnlessAsked
  ManualAttempted
  ScheduleGoesOn
  RebootInTime
