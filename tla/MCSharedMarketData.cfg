SPECIFICATION FairSpec
CONSTANTS
  l2 = l2
  p1 = p1
  p2 = p2
  OpeningPrice = opening
  Zero = zero
  Garbage = garbage
  Readers <- MCReaders
  Prices <- MCPrices
  Seq2Values <- MCSeq2
  MaxUpdates = 3
INVARIANTS
  TypeOK
  EvenReadIsSnapshot
PROPERTIES
  ReadersMoveForward
  ReadReturns
