SPECIFICATION Spec
CONSTANTS
  Clients = {mm}
  Threads = {timer, l2}
  Guarded = {mm}
  Http = {}
  FirstId = 1
  MaxIds = 2
  MaxRuns = 1
  NoThread = none
INVARIANTS
  OrderIdsUnique
