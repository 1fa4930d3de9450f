SPECIFICATION Spec
CONSTANTS
  Ids = {1, 2, 3, 4, 5}
  Symbols = {1}
  Cash = 0
  AgentKinds <- MCAgentKinds
  Legacies <- MCLegacies
  Threads = {timer, l2}
  MaxOrders <- MCMaxOrders
  MaxRequests <- MCMaxRequests
  MaxLag <- MCMaxLag
  MaxStale = 1
  Target = 2
  NativeSides = {"Buy"}
  PassiveSides = {"Buy"}
  NativeQtys = {1}
  QuoteQty = 1
  TakeQty = 1
  MaxPos = 1
  PassiveQty = 2
  SnipeQty = 1
  MaxRefills = 1
  EntryQty = 2
INVARIANTS
  TypeOK
  AccountFollows
  PileUpBounded
  InventoryBound
  ExitsWithinPosition
  ScreenIsCurrent
CHECK_DEADLOCK FALSE
