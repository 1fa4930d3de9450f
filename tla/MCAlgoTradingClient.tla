------------------------ MODULE MCAlgoTradingClient -------------------------
(* The clients and the bounds are in the configurations: one guarded client  *)
(* with two processes of three ids each; one unguarded client; one guarded   *)
(* client that is started again.                                             *)
EXTENDS AlgoTradingClient
=============================================================================
