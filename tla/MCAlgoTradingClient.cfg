SPECIFICATION Spec
CONSTANTS
  Clients = {mm}
  Threads = {timer, l2}
  Guarded = {mm}
  Http = {mm}
  FirstId = 1
  MaxIds = 3
  MaxRuns = 1
  NoThread = none
INVARIANTS
  TypeOK
  IdsAscend
