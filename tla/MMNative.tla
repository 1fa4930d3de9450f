------------------------------ MODULE MMNative ------------------------------
(***************************************************************************)
(* The orders of the native market maker (agents/mm-native.cpp).  Every     *)
(* tick goes over the listed orders, which the estimate of the price may    *)
(* keep, move or cancel, and tops each side up to its target.  on_timer     *)
(* does not ask is_ready(): the first ticks may precede the login replay.   *)
(***************************************************************************)
EXTENDS OrderFlow

CONSTANTS
  Target,      \* 12 orders a side
  NativeSides, \* Buy and Sell
  NativeQtys   \* 5 to 50

ASSUME NativeAssumption == Target \in Nat \ {0} /\ NativeQtys \subseteq Nat \ {0}

\* Mutant: a replaced order is not counted.
KeptUncounted(fate, s) == Cardinality({i \in Listed(open_orders, s) : fate[i] = "keep"})

\* bids, asks: the listed orders of a side that are not cancelled.
Kept(fate, s) == Cardinality({i \in Listed(open_orders, s) : fate[i] # "cancel"})

TopUp(fate, s, qty) ==
  IF s \in NativeSides THEN [i \in 1..(Target - Kept(fate, s)) |-> LimitOrder(s, qty[s][i])] ELSE <<>>

Replenish(fate, qty) == TopUp(fate, "Buy", qty) \o TopUp(fate, "Sell", qty)

(* on_timer and manage_orders; a replacement asks for the listed quantity.   *)
ManageOrders ==
  /\ agent = "mm-native"
  /\ \E fate \in [DOMAIN open_orders -> {"keep", "replace", "cancel"}],
        qty \in [TwoSides -> [1..Target -> NativeQtys]] :
       Send(Changes(open_orders, fate) \o Replenish(fate, qty), InFlight)
  /\ UNCHANGED <<account, who, live, wire, ready, read, slipped>>
=============================================================================
