CONSTANTS
  Clients = {cli, page}
  Pages = {page}
  NoClient = none
  Gone = gone
  MaxVersion = 2
  Builds = {b1}
  GenerationLimit = 2
SPECIFICATION Spec
INVARIANT
  TypeOK
PROPERTIES
  BootsOwnUpload
  ConfirmedWasBooted
  NoDowngrade
