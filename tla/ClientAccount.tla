--------------------------- MODULE ClientAccount ---------------------------
(***************************************************************************)
(* The account an agent keeps (include/ClientAccount.hpp): its positions,   *)
(* cash among them, and its open orders, maintained from the responses of   *)
(* the exchange.  Each public operation holds mtx_ from its first line to   *)
(* its last, so each is one step here.                                      *)
(*                                                                         *)
(* positions_ is a map whose absent entries read as 0 (get_position), and   *)
(* is total here; open_orders_ is a vector of responses in the order in     *)
(* which they were added.                                                   *)
(***************************************************************************)
EXTENDS Integers, Sequences, OpenOrders

CONSTANTS
  Ids,        \* order ids
  Symbols,    \* symbol ids; Cash is symbol 0
  Cash

Assets    == Symbols \cup {Cash}
Sides     == {"Buy", "Sell", "None"}
ExecTypes == {"OrderStatus", "New", "Replaced", "PartialFill", "Fill",
              "Cancelled", "Complete", "Unknown"}

OrderResponse ==
  [type: ExecTypes, id: Ids, symbol: Symbols, side: Sides, p: Int, q: Nat]

VARIABLES positions, open_orders
account == <<positions, open_orders>>

-----------------------------------------------------------------------------
(* update_position_and_cash_internal.                                        *)
Bought(r) == CASE r.side = "Buy"  -> r.q
               [] r.side = "Sell" -> -r.q
               [] OTHER           -> 0

UpdatePositionAndCash(pos, r) ==
  [pos EXCEPT ![r.symbol] = @ + Bought(r), ![Cash] = @ - Bought(r) * r.p]

-----------------------------------------------------------------------------
(* handle_order_response, as a function of the account.                      *)
PositionsAfter(pos, r) ==
  IF r.type \in {"PartialFill", "Fill"} THEN UpdatePositionAndCash(pos, r) ELSE pos

OpenOrdersAfter(open, r) ==
  CASE r.type \in {"OrderStatus", "New", "Replaced", "PartialFill"} -> Upsert(open, r)
    [] r.type \in {"Fill", "Cancelled"}                             -> Erase(open, r.id)
    [] OTHER                                                        -> open

HandleOrderResponse(r) ==
  /\ positions' = PositionsAfter(positions, r)
  /\ open_orders' = OpenOrdersAfter(open_orders, r)

HandlePositionResponse(symbol, balance) ==
  /\ positions' = [positions EXCEPT ![symbol] = balance]
  /\ UNCHANGED open_orders

EmptyPositions == [a \in Assets |-> 0]

Clear == positions' = EmptyPositions /\ open_orders' = <<>>

-----------------------------------------------------------------------------
AccountInit == positions = EmptyPositions /\ open_orders = <<>>

\* What the account holds once a message of the session is applied to it.
PositionMsg(symbol, b) == [type |-> "Position", symbol |-> symbol, position |-> b]
CompleteMsg == [type |-> "Complete"]

PositionsOnce(pos, m) ==
  CASE m.type = "Position" -> [pos EXCEPT ![m.symbol] = m.position]
    [] m.type = "Complete" -> pos
    [] OTHER               -> PositionsAfter(pos, m)
OpenOrdersOnce(open, m) ==
  IF m.type \in {"Position", "Complete"} THEN open ELSE OpenOrdersAfter(open, m)

AccountNext ==
  \/ \E r \in OrderResponse : HandleOrderResponse(r)
  \/ \E a \in Assets, b \in Int : HandlePositionResponse(a, b)
  \/ Clear

AccountSpec == AccountInit /\ [][AccountNext]_account

-----------------------------------------------------------------------------
(* Positions and cash stay integers and every open order is a response.       *)
AccountTypeOK ==
  /\ positions \in [Assets -> Int]
  /\ open_orders \in Seq(OrderResponse)

(* Whatever the exchange sends, in whatever order, an order is listed once:  *)
(* find_if finds the only one, and erasing it leaves none behind.            *)
UniqueOpenOrders == Unique(open_orders)
=============================================================================
