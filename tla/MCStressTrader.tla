--------------------------- MODULE MCStressTrader ---------------------------
(* The bounds are in the configurations.                                     *)
EXTENDS StressTrader
=============================================================================
