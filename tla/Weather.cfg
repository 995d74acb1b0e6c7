\* A user who types whatever the menus offer, and a child that serves him.
SPECIFICATION FairSpec
CONSTANTS
  beijing = beijing
  paris = paris
  Clients = {1}
  Cities <- MCCities
  Known <- MCKnown
  ReqLen = 4
  BufLen = 9
  Pending = 3
  Backlog = 6
INVARIANTS InStep
PROPERTIES AnswersCome
CHECK_DEADLOCK FALSE
