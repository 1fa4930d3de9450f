SPECIFICATION MicroSpec
CONSTANTS
  a = a
  b = b
  c = c
  Ids <- MCIds
  FeedIds <- MCFeedIds
  Prices = {1, 2, 5}
  FeedPrices = {1, 2}
  Qtys = {1, 2}
  MaxLag = 2
  MakerLag = 1
INVARIANTS
  TypeOK
  Consistent
  L3InStep
  FeedsAgree
  MicroPriceInSpread
  AnyStreamUndisturbed
PROPERTIES
  MessagesDisturbNobody
