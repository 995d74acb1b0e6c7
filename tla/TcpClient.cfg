\* A pool of two slots, two bytes each way, the server taking the port twice.
SPECIFICATION Spec
CONSTANTS
  MaxConnections = 3
  ISN = 0
  Outlive = FALSE
  MaxSent = 2
  MaxSaid = 2
  MaxOpens = 2
  NetCap = 1
INVARIANTS ServerHasPrefix AckedOnceInOrder
PROPERTIES OrderlyEnd
