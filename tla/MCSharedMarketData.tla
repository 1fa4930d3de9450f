------------------------- MODULE MCSharedMarketData -------------------------
(* One reader: readers write nothing shared, so they do not affect each      *)
(* other, and the theorems cover any number.  Three updates let the writer   *)
(* overtake the reader by one or two updates at each of its accesses, and    *)
(* two prices besides the opening one let an update repeat or change it.     *)
EXTENDS SharedMarketData

CONSTANTS l2, p1, p2

MCReaders == {l2}
MCPrices  == {p1, p2}
MCSeq2    == 0..7   \* every value the sequence takes, and one it never does
=============================================================================
