-------------------------- MODULE MCTradingSession --------------------------
(* Two orders of one symbol, three events of the exchange and two responses  *)
(* in flight beyond the login replay: an order can be accepted, partly       *)
(* filled and filled, replaced or cancelled around a login.                  *)
EXTENDS TradingSession
=============================================================================
