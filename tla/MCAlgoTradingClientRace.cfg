SPECIFICATION Spec
CONSTANTS
  Clients = {insider}
  Threads = {timer, l2}
  Guarded = {}
  Http = {}
  FirstId = 1
  MaxIds = 2
  MaxRuns = 0
  NoThread = none
INVARIANTS
  ExecIdsUnique
