----------------------------- MODULE MMAdvanced -----------------------------
(***************************************************************************)
(* The orders of the advanced market maker (agents/mm-advanced.cpp).  The   *)
(* timer quotes one bid and one ask around a target; an L2 update may pull  *)
(* the quotes of one side at once.  Both hold state_mtx_ throughout, so     *)
(* that a pass of one never interleaves with a pass of the other; neither   *)
(* asks is_ready().  What the signals make of the feeds is the subject of   *)
(* Microstructure; here any outcome of their comparisons is possible, that   *)
(* of opportunistic_take included, which Microstructure shows never to be.   *)
(***************************************************************************)
EXTENDS OrderFlow

CONSTANTS
  QuoteQty,  \* 20, of a new quote
  TakeQty    \* 10, of a market order

ASSUME AdvancedAssumption == QuoteQty \in Nat \ {0} /\ TakeQty \in Nat \ {0}

\* One quote for each side that is quoted and has none: !has_bid && quote_bid.
Quote(fate, quote, s) ==
  IF s \in quote /\ \A i \in Listed(open_orders, s) : fate[i] = "cancel"
  THEN <<LimitOrder(s, QuoteQty)>> ELSE <<>>

NewQuotes(fate, quote) == Quote(fate, quote, "Buy") \o Quote(fate, quote, "Sell")

OpportunisticTake == {<<>>} \cup {<<MarketOrder(s, TakeQty)>> : s \in TwoSides}

(* on_timer: manage_quotes and opportunistic_take.  An order far from its    *)
(* target, or on a side that is not quoted, is cancelled.                    *)
ManageQuotes ==
  /\ agent = "mm-advanced"
  /\ \E quote \in SUBSET TwoSides, fate \in [DOMAIN open_orders -> {"keep", "cancel"}],
        take \in OpportunisticTake :
       /\ \A i \in DOMAIN open_orders : open_orders[i].side \notin quote => fate[i] = "cancel"
       /\ Send(Changes(open_orders, fate) \o NewQuotes(fate, quote) \o take, InFlight)
  /\ UNCHANGED <<account, who, live, wire, ready, read, slipped>>

(* on_l2_update: fast_cancel_protection, of the side the flow is against.    *)
FastCancelProtection ==
  /\ agent = "mm-advanced"
  /\ \E side \in TwoSides, fate \in [DOMAIN open_orders -> {"keep", "cancel"}] :
       /\ \A i \in DOMAIN open_orders : fate[i] = "cancel" => open_orders[i].side = side
       /\ Send(Changes(open_orders, fate), InFlight)
  /\ UNCHANGED <<account, who, live, wire, ready, read, slipped>>
=============================================================================
