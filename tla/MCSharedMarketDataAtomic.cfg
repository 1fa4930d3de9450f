SPECIFICATION Spec
CONSTANTS
  l2 = l2
  p1 = p1
  p2 = p2
  OpeningPrice = opening
  Zero = zero
  Garbage = garbage
  Readers <- MCReaders
  Prices <- MCPrices
  Seq2Values = {0}
  MaxUpdates = 3
INVARIANT ReadsAreAtomic
