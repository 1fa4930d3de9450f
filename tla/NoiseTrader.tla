----------------------------- MODULE NoiseTrader ----------------------------
(***************************************************************************)
(* The orders of the noise trader (agents/stra-noise.cpp): flat, it enters  *)
(* on a random side; with a position, it places a take-profit order for all *)
(* of it, once, and when the price has gone too far the other way, cancels   *)
(* that and closes the position at market.  Only the timer thread sends.    *)
(* It reads the position and then the open orders; responses go on being    *)
(* applied in between, but a fill then waits for strategy_mtx_, which the   *)
(* tick holds, so that at most one fill is.                                  *)
(***************************************************************************)
EXTENDS OrderFlow

CONSTANT EntryQty   \* 2

ASSUME NoiseAssumption == EntryQty \in Nat \ {0}

VARIABLES
  closing,   \* closing_
  waiting,   \* the io thread waits for strategy_mtx_
  doubled    \* history: a tick sent a take-profit and the stop-loss together

bracket == <<closing, waiting, doubled>>

Timer == CHOOSE t \in Threads : TRUE
Abs(n) == IF n < 0 THEN -n ELSE n

OnNoiseResponse ==
  /\ agent = "noise" /\ wire # <<>> /\ ~waiting
  /\ Apply(Head(wire))
  /\ waiting' = (read[Timer].at = "reading" /\ Head(wire).type \in {"Fill", "PartialFill"})
  /\ UNCHANGED <<closing, doubled>>

\* on_timer: is_ready() and get_position ...
ReadPosition ==
  /\ agent = "noise" /\ ready /\ read[Timer].at = "idle"
  /\ read' = [read EXCEPT ![Timer] = [Idle EXCEPT !.at = "reading", !.pos = Position]]
  /\ UNCHANGED <<account, who, next_id, requests, live, wire, ready, stale, slipped, bracket>>

CancelAll(side) ==
  Changes(open_orders,
          [i \in DOMAIN open_orders |-> IF open_orders[i].side = side THEN "cancel" ELSE "keep"])

\* Flat: what is open is cancelled; a new entry only when nothing is open.
Flat ==
  IF open_orders # <<>>
  THEN {Changes(open_orders, [i \in DOMAIN open_orders |-> "cancel"])}
  ELSE {<<>>} \cup {<<LimitOrder(side, EntryQty)>> : side \in TwoSides}

\* Mutant: a pending exit does not keep a take-profit from being placed.
TakeProfitAgain(exit) == ~closing

\* pending_sell_qty == 0 && !closing_, or the same of purchases
TakeProfit(exit) == Listed(open_orders, exit) = {} /\ ~closing

(* ... and the rest of the tick, on that position and the orders now open.   *)
Tick ==
  LET pos  == read[Timer].pos
      exit == IF pos > 0 THEN "Sell" ELSE "Buy"
      profit == IF TakeProfit(exit) THEN <<LimitOrder(exit, Abs(pos))>> ELSE <<>>
      late == InFlight \/ pos # Position
  IN  /\ agent = "noise" /\ read[Timer].at = "reading"
      /\ \/ /\ pos = 0
            /\ closing' = FALSE
            /\ \E batch \in Flat : Send(batch, late)
            /\ UNCHANGED doubled
         \/ /\ pos # 0
            /\ Send(profit, late)
            /\ UNCHANGED <<closing, doubled>>
         \/ /\ pos # 0 /\ ~closing   \* the price is beyond the stop
            /\ closing' = TRUE
            /\ Send(profit \o CancelAll(exit) \o <<MarketOrder(exit, Abs(pos))>>, late)
            /\ doubled' = (doubled \/ profit # <<>>)
      /\ read' = [read EXCEPT ![Timer] = Idle]
      /\ waiting' = FALSE
      /\ UNCHANGED <<account, who, live, wire, ready, slipped>>
=============================================================================
