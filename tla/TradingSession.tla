--------------------------- MODULE TradingSession ---------------------------
(***************************************************************************)
(* An agent's management session (src/AlgoTradingClient.cpp): run()         *)
(* connects, sends "sub <client_id>", and from then on the io thread hands  *)
(* every response to the ClientAccount, in the order of the websocket.      *)
(*                                                                         *)
(* The exchange is not part of this repository.  It is modelled by what     *)
(* ClientAccount takes its messages to mean: on "sub" it replays the open   *)
(* orders (OrderStatus), the positions and cash (PositionResponse) and a    *)
(* Complete; a fill response carries the quantity and price of that fill.   *)
(* It keeps orders and positions while the agent is away.                   *)
(*                                                                         *)
(* The agent may crash at any time; run_agents starts it again, with an     *)
(* account that knows nothing.  It never reconnects a session that broke.   *)
(***************************************************************************)
EXTENDS ClientAccount, SequencesExt, Functions

CONSTANTS
  Prices, Qtys,
  MaxEvents,   \* bound on the exchange's events, for TLC
  MaxLag       \* bound on the responses an agent may be behind when one is added

ASSUME PricesAssumption == Prices \subseteq Int
ASSUME QtysAssumption   == Qtys \subseteq Nat
\* A symbol id is a uint32_t.
ASSUME SymbolsAssumption == IsFiniteSet(Symbols)

VARIABLES
  \* positions and open_orders, of ClientAccount, are the agent's account_
  live,       \* the exchange: this client's open orders, id :> [symbol, side, p, q]
  balance,    \*   and its positions
  events,     \*   and how many events there were
  session,    \* "down", "connected", "subscribed" or "broken"
  wire,       \* responses on their way to the agent
  ready,      \* ready_
  notifying,  \* the io thread is between ready_ = true and notify_all
  waiter      \* a thread in wait_until_ready: "out", "asleep" or "back"

exchange == <<live, balance, events>>
agent    == <<account, ready, notifying, waiter>>
vars     == <<exchange, session, wire, agent>>

OrderMsg(type, id, symbol, side, p, q) ==
  [type |-> type, id |-> id, symbol |-> symbol, side |-> side, p |-> p, q |-> q]

-----------------------------------------------------------------------------
(* The exchange.                                                             *)
Answer(m) ==
  IF session = "subscribed"
  THEN Len(wire) < MaxLag /\ wire' = Append(wire, m)
  ELSE UNCHANGED wire

Event(m) ==
  /\ events < MaxEvents /\ events' = events + 1
  /\ Answer(m)
  /\ UNCHANGED <<session, agent>>

With(orders, id, o) == [x \in DOMAIN orders \cup {id} |-> IF x = id THEN o ELSE orders[x]]

Accept(id, symbol, side, p, q) ==
  /\ id \notin DOMAIN live
  /\ live' = With(live, id, [symbol |-> symbol, side |-> side, p |-> p, q |-> q])
  /\ UNCHANGED balance
  /\ Event(OrderMsg("New", id, symbol, side, p, q))

Settle(o, q) ==
  LET bought == IF o.side = "Buy" THEN q ELSE -q
  IN  balance' = [balance EXCEPT ![o.symbol] = @ + bought, ![Cash] = @ - bought * o.p]

FillPart(id, q) ==
  LET o == live[id]
  IN  /\ q < o.q
      /\ live' = [live EXCEPT ![id].q = o.q - q]
      /\ Settle(o, q)
      /\ Event(OrderMsg("PartialFill", id, o.symbol, o.side, o.p, q))

FillAll(id) ==
  LET o == live[id]
  IN  /\ live' = Restrict(live, DOMAIN live \ {id})
      /\ Settle(o, o.q)
      /\ Event(OrderMsg("Fill", id, o.symbol, o.side, o.p, o.q))

CancelOrder(id) ==
  LET o == live[id]
  IN  /\ live' = Restrict(live, DOMAIN live \ {id})
      /\ UNCHANGED balance
      /\ Event(OrderMsg("Cancelled", id, o.symbol, o.side, o.p, o.q))

ReplaceOrder(id, p, q) ==
  LET o == live[id]
  IN  /\ live' = [live EXCEPT ![id].p = p, ![id].q = q]
      /\ UNCHANGED balance
      /\ Event(OrderMsg("Replaced", id, o.symbol, o.side, p, q))

\* A request the exchange refuses, say to cancel an order that is filled.
Reject(id, symbol) ==
  /\ UNCHANGED <<live, balance>>
  /\ Event(OrderMsg("Unknown", id, symbol, "None", 0, 0))

\* The answer to query_position, whenever the question arrives.
AnswerQuery(a) ==
  /\ session = "subscribed"
  /\ UNCHANGED <<live, balance>>
  /\ Event(PositionMsg(a, balance[a]))

Replay ==
  LET status(id) == OrderMsg("OrderStatus", id, live[id].symbol, live[id].side, live[id].p, live[id].q)
  IN  [i \in DOMAIN SetToSeq(DOMAIN live) |-> status(SetToSeq(DOMAIN live)[i])]
      \o [i \in DOMAIN SetToSeq(DOMAIN balance) |->
            LET a == SetToSeq(DOMAIN balance)[i] IN PositionMsg(a, balance[a])]
      \o <<CompleteMsg>>

\* "sub <client_id>" arrives.
Subscribe ==
  /\ session = "connected"
  /\ session' = "subscribed" /\ wire' = Replay
  /\ UNCHANGED <<exchange, agent>>

-----------------------------------------------------------------------------
(* The agent.                                                                *)

\* run(): connect, run_async and send_text("sub ...").
Connect ==
  /\ session = "down"
  /\ session' = "connected"
  /\ UNCHANGED <<exchange, wire, agent>>

\* The io thread takes the next response, unless it has yet to notify.
Deliver(type) ==
  /\ wire # <<>> /\ ~notifying
  /\ Head(wire).type \in type
  /\ wire' = Tail(wire)

\* Mutant: a position response is added to the position.
OnPositionResponseAdds ==
  /\ Deliver({"Position"})
  /\ LET m == Head(wire) IN HandlePositionResponse(m.symbol, positions[m.symbol] + m.position)
  /\ UNCHANGED <<exchange, session, ready, notifying, waiter>>

OnPositionResponse ==
  /\ Deliver({"Position"})
  /\ LET m == Head(wire) IN HandlePositionResponse(m.symbol, m.position)
  /\ UNCHANGED <<exchange, session, ready, notifying, waiter>>

\* Mutant: any response makes the agent ready.
OnOrderResponseReadies ==
  /\ Deliver(ExecTypes \ {"Complete"})
  /\ HandleOrderResponse(Head(wire))
  /\ ready' = TRUE
  /\ UNCHANGED <<exchange, session, notifying, waiter>>

OnOrderResponse ==
  /\ Deliver(ExecTypes \ {"Complete"})
  /\ HandleOrderResponse(Head(wire))
  /\ UNCHANGED <<exchange, session, ready, notifying, waiter>>

\* Complete is not given to the account; ready_ is set under ready_mtx_.
OnComplete ==
  /\ Deliver({"Complete"})
  /\ ready' = TRUE /\ notifying' = TRUE
  /\ UNCHANGED <<exchange, session, account, waiter>>

\* Mutant: ready_ is set and nobody is notified.
NotifyAllForgets ==
  /\ notifying
  /\ notifying' = FALSE
  /\ UNCHANGED <<exchange, session, wire, account, ready, waiter>>

\* notify_all, after the lock is released.
NotifyAll ==
  /\ notifying
  /\ notifying' = FALSE
  /\ waiter' = IF waiter = "asleep" THEN "back" ELSE waiter
  /\ UNCHANGED <<exchange, session, wire, account, ready>>

\* wait_until_ready: test ready_ and sleep, in one critical section.
WaitUntilReady ==
  /\ session # "down" /\ waiter = "out"
  /\ waiter' = IF ready THEN "back" ELSE "asleep"
  /\ UNCHANGED <<exchange, session, wire, account, ready, notifying>>

\* The connection breaks: the rest of the stream is lost, and nothing in the
\* agent notices.
Break ==
  /\ session \in {"connected", "subscribed"}
  /\ session' = "broken" /\ wire' = <<>>
  /\ UNCHANGED <<exchange, agent>>

\* The process dies, and run_agents starts another.
Restart ==
  /\ session # "down"
  /\ session' = "down" /\ wire' = <<>>
  /\ Clear
  /\ ready' = FALSE /\ notifying' = FALSE /\ waiter' = "out"
  /\ UNCHANGED exchange

-----------------------------------------------------------------------------
Init ==
  /\ live = <<>> /\ balance = [a \in Symbols \cup {Cash} |-> 0] /\ events = 0
  /\ session = "down" /\ wire = <<>>
  /\ AccountInit
  /\ ready = FALSE /\ notifying = FALSE /\ waiter = "out"

ExchangeStep ==
  \/ \E id \in Ids, s \in Symbols, side \in {"Buy", "Sell"}, p \in Prices, q \in Qtys :
       Accept(id, s, side, p, q)
  \/ \E id \in DOMAIN live :
       \/ \E q \in Qtys : FillPart(id, q)
       \/ FillAll(id)
       \/ CancelOrder(id)
       \/ \E p \in Prices, q \in Qtys : ReplaceOrder(id, p, q)
  \/ \E id \in Ids, s \in Symbols : Reject(id, s)
  \/ \E a \in Symbols \cup {Cash} : AnswerQuery(a)
  \/ Subscribe

IoThread == OnPositionResponse \/ OnOrderResponse \/ OnComplete \/ NotifyAll

Next == ExchangeStep \/ Connect \/ IoThread \/ WaitUntilReady \/ Break \/ Restart

Spec == Init /\ [][Next]_vars

(* The exchange answers a subscription and the io thread runs its handlers.  *)
FairSpec == Spec /\ WF_vars(Subscribe) /\ WF_vars(IoThread)

-----------------------------------------------------------------------------
Named(open) == {<<open[i].id, open[i].symbol, open[i].side>> : i \in DOMAIN open}

(* A subscribed agent is never wrong, only late: with the responses on their *)
(* way applied, it holds the exchange's positions and cash and lists each of *)
(* the exchange's open orders once and no other, whenever it was started and *)
(* whatever was filled while it was down or while it was logging in.         *)
AccountInStep ==
  session = "subscribed" =>
    /\ FoldLeft(PositionsOnce, positions, wire) = balance
    /\ LET open == FoldLeft(OpenOrdersOnce, open_orders, wire)
       IN  /\ Named(open) = {<<id, live[id].symbol, live[id].side>> : id \in DOMAIN live}
           /\ Len(open) = Cardinality(DOMAIN live)

(* When ready_ is set the login replay has been applied in full: no order    *)
(* status and no Complete is still on its way, so what the agent trades on   *)
(* lacks at most the latest events.                                          *)
ReadyMeansReplayed ==
  ready => \A i \in DOMAIN wire : wire[i].type \notin {"OrderStatus", "Complete"}

(* No wake-up is lost between the test of ready_ and the sleep.              *)
NoLostWakeup == waiter = "asleep" /\ ready => notifying

(* Once the exchange has the subscription, a thread in wait_until_ready      *)
(* comes back, unless the connection breaks.                                 *)
WaiterReturns ==
  waiter = "asleep" ~> (waiter # "asleep" \/ session = "broken")

(* An open order, in an agent that is up to date, has the price and quantity *)
(* the exchange holds for it.                                                *)
OpenOrdersAreCurrent ==
  session = "subscribed" /\ wire = <<>> =>
    \A i \in DOMAIN open_orders :
      LET o == open_orders[i] IN o.p = live[o.id].p /\ o.q = live[o.id].q
=============================================================================
