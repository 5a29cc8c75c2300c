CONSTANTS
  Routes = {"APPLY"}
  HeaderLength = 2
  MaxContent = 4
  MaxOffered = 5
  Block = 3
  Chunk = 2
  AnswerLength = 2
  IoTimeout = 4
  IdleTimeout = 3
  TotalTimeout = 10
  MaxLag = 2
SPECIFICATION Spec
PROPERTY
  ApplyBodyAwaited
