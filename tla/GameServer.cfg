\* Two players, from sign-up on, with two requests between them in any
\* direction; a behaviour ends at undefined behaviour.
SPECIFICATION Spec
CONSTANTS
  A = A
  B = B
  Players <- Two
  NoFile = NoFile
  StoredCredit <- Stored2
  Asks <- Asks2
  Throws <- Throws2
  InitBlood = 40
  BloodCut = 20
  DeltaCredit = 3
  CreditMod = 256
  Quitters = {A}
  MaxRequests = 2
  MaxConns = 2
  AnswerCap = 1
INVARIANTS CreditConserved OneAnswer WarThreads
CHECK_DEADLOCK FALSE
