---------------------------- MODULE MCMarketFeed ----------------------------
(* Displayers: two orders at two prices, alone at a level, together, and     *)
(* moved from one to the other; a subscriber two messages behind, plus a     *)
(* snapshot, is behind on an order that has come, changed and gone.  Market   *)
(* maker: three orders at three prices, so that a side can have two levels   *)
(* while the other has one or none, with the prices further apart than the   *)
(* two ticks of fast_cancel_protection; its book takes the same values       *)
(* however far behind it is, so that it need not be.  An L3 book fed by any  *)
(* stream: three ids, so that a level can hold an order before, at and after *)
(* the one an update names, and fills that are smaller than, equal to and    *)
(* larger than what is left.                                                 *)
EXTENDS Microstructure

CONSTANTS a, b, c

MCIds     == {a, b, c}
MCFeedIds == {a, b}
=============================================================================
