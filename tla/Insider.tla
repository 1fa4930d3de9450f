------------------------------- MODULE Insider ------------------------------
(***************************************************************************)
(* The orders of the insider strategy (agents/stra-insider.cpp).            *)
(* execute_strategy runs in the main thread (on_timer) and in the L2 io     *)
(* thread (on_l2_update), with no mutex between them.  It reads the         *)
(* position; takes, with a market order, while that is within the limit;    *)
(* otherwise copies the open orders, moves them one by one, and then, for   *)
(* the bid and after it for the ask, reads the position once more and adds   *)
(* a quote if there is none and the position is within the limit.  Each     *)
(* read and each send is a step: the other thread, and the responses, come   *)
(* in between.                                                              *)
(***************************************************************************)
EXTENDS OrderFlow

CONSTANTS
  MaxPos,       \* max_pos_, 500
  PassiveQty,   \* 20, of a new quote and of every replacement
  SnipeQty,     \* 10, of a market order
  PassiveSides, \* Buy and Sell
  MaxRefills    \* bound on the replacements, for TLC

ASSUME InsiderAssumption ==
  /\ MaxPos \in Nat /\ PassiveQty \in Nat \ {0} /\ SnipeQty \in Nat \ {0}
  /\ PassiveSides \subseteq {"Buy", "Sell"}
  /\ SnipeQty <= PassiveQty   \* 10 and 20 in the code

VARIABLE refills   \* history: the replacements sent, each back to the full quantity

Signed(side, n) == IF side = "Buy" THEN n ELSE -n

\* pos < max_pos_ for a purchase, pos > -max_pos_ for a sale
Within(side, pos) == Signed(side, pos) < MaxPos

At(t, stage) == agent = "insider" /\ read[t].at = stage
Goes(t, r)   == read' = [read EXCEPT ![t] = r]

\* What a thread goes by is out of date when it sends: the position has changed
\* since it was read, or will, by what is on its way.
Outdated(t, side) ==
  \/ wire # <<>>
  \/ \E i \in DOMAIN requests : IsNew(requests[i]) /\ requests[i].side = side
  \/ Position # read[t].pos

-----------------------------------------------------------------------------
(* execute_strategy, once is_ready() and with the prices read.               *)
ReadFirst(t) ==
  /\ At(t, "idle") /\ ready
  /\ Goes(t, [Idle EXCEPT !.at = "deciding", !.pos = Position])
  /\ UNCHANGED <<account, who, next_id, requests, live, wire, ready, stale, slipped, refills>>

(* Branch A: a market order, on the position read.                           *)
Snipe(t) ==
  /\ At(t, "deciding")
  /\ \E side \in TwoSides :
       Within(side, read[t].pos) /\ Send(<<MarketOrder(side, SnipeQty)>>, Outdated(t, side))
  /\ Goes(t, Idle)
  /\ UNCHANGED <<account, who, live, wire, ready, slipped, refills>>

(* Branch B, manage_passive_orders: get_open_orders.                         *)
CopyOrders(t) ==
  /\ At(t, "deciding")
  /\ Goes(t, [Idle EXCEPT !.at = "moving", !.open = Copy(open_orders)])
  /\ UNCHANGED <<account, who, next_id, requests, live, wire, ready, stale, slipped, refills>>

(* One round of the loop: bid_exists or ask_exists is set, and the order may *)
(* be replaced, each time for the full quantity.                             *)
MoveOrder(t) ==
  /\ At(t, "moving") /\ read[t].open # <<>>
  /\ LET o == Head(read[t].open)
         move == Modify([id |-> o.id, side |-> o.side, q |-> PassiveQty])
     IN  /\ Goes(t, [read[t] EXCEPT !.open = Tail(@), !.found = @ \cup {o.side}])
         /\ \E batch \in {<<>>, <<move>>} :
              Send(batch, FALSE) /\ refills' = refills + Len(batch)
  /\ refills' <= MaxRefills
  /\ UNCHANGED <<account, who, live, wire, ready, slipped>>

\* The bid comes first.
Past(t, side) == IF side = "Buy" THEN [read[t] EXCEPT !.at = "bid done", !.pos = 0] ELSE Idle

\* Mutant: the quote that is missing is added whatever the position.
MissesAnywhere(t, side) == side \in PassiveSides /\ side \notin read[t].found

\* !bid_exists and the position within the limit.
Misses(t, side) ==
  side \in PassiveSides /\ side \notin read[t].found /\ Within(side, Position)

(* The condition of a quote ...                                              *)
CheckQuote(t, side) ==
  /\ At(t, IF side = "Buy" THEN "moving" ELSE "bid done") /\ read[t].open = <<>>
  /\ Goes(t, IF Misses(t, side) THEN [read[t] EXCEPT !.at = side, !.pos = Position]
             ELSE Past(t, side))
  /\ UNCHANGED <<account, who, next_id, requests, live, wire, ready, stale, slipped, refills>>

(* ... and the quote, late also if by now one is listed.                     *)
SendQuote(t, side) ==
  /\ At(t, side)
  /\ Send(<<LimitOrder(side, PassiveQty)>>, Outdated(t, side) \/ Listed(open_orders, side) # {})
  /\ Goes(t, Past(t, side))
  /\ UNCHANGED <<account, who, live, wire, ready, slipped, refills>>

InsiderStep(t) ==
  \/ ReadFirst(t) \/ Snipe(t) \/ CopyOrders(t) \/ MoveOrder(t)
  \/ \E side \in TwoSides : CheckQuote(t, side) \/ SendQuote(t, side)
=============================================================================
