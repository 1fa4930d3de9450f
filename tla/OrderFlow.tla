----------------------------- MODULE OrderFlow ------------------------------
(***************************************************************************)
(* What the trading agents have in common: an account kept from the         *)
(* responses (ClientAccount), requests sent over one websocket, and an      *)
(* exchange that answers them in order, over another queue.  Between the    *)
(* two queues an agent decides on an account that is out of date, and the   *)
(* agents' modules say how each of them decides.                             *)
(*                                                                         *)
(* One agent, of one symbol and one client id, per behaviour.  The process  *)
(* before it may have left orders and a position, which the login replays;   *)
(* as every process counts from the same first id, the new orders may take   *)
(* the ids of the old ones.  Prices are left out (p = 0): where a decision   *)
(* compares prices, every outcome is possible.  Ids count the new orders     *)
(* alone; that changes take ids too, and that two threads may take the same  *)
(* one, is the subject of AlgoTradingClient.  The exchange is not part of   *)
(* this repository and answers as in TradingSession.                         *)
(***************************************************************************)
EXTENDS ClientAccount, SequencesExt, FiniteSetsExt

CONSTANTS
  AgentKinds,  \* which agents to run, one in each behaviour
  Legacies,    \* what the process before may have left, for each kind of agent
  Threads,     \* the threads of an agent that run its strategy
  MaxOrders,   \* bounds for TLC, for each kind of agent: on its new orders,
  MaxRequests, \*   on its requests on their way
  MaxLag,      \*   and on the responses on their way
  MaxStale     \* bound on what is sent on an account out of date, for TLC

ASSUME IdsAreNumbers ==
  /\ Ids \subseteq Nat /\ MaxOrders \in [AgentKinds -> Nat]
  /\ \A kind \in AgentKinds : 1..MaxOrders[kind] \subseteq Ids

ASSUME ClientAssumption ==
  Symbols # {} /\ IsFiniteSet(Symbols) /\ Cash \notin Symbols /\ Threads # {}

\* Any number of orders, under any ids, and any positions.
ASSUME LegacyAssumption ==
  \A kind \in AgentKinds : \A l \in Legacies[kind] :
    /\ IsFiniteSet(DOMAIN l.orders) /\ DOMAIN l.orders \subseteq Ids
    /\ \A id \in DOMAIN l.orders : l.orders[id] \in [side : {"Buy", "Sell"}, q : Nat \ {0}]
    /\ l.positions \in [Assets -> Int]

VARIABLES
  agent,     \* which agent this is
  legacy,    \* what the process before left: its orders and its positions
  next_id,   \* the id of its next order
  requests,  \* its requests on their way to the exchange
  live,      \* the exchange: the client's open orders, from id to [side, q]
  wire,      \* messages on their way to the agent
  ready,     \* ready_
  read,      \* where each thread is in a pass of several steps, and what it has read
  stale,     \* history: how often something was sent on an account out of date
  slipped    \* history: some order was filled with its cancellation on the way

who  == <<agent, legacy>>
flow == <<account, who, next_id, requests, live, wire, ready, read, stale, slipped>>

Symbol   == CHOOSE s \in Symbols : TRUE
TwoSides == {"Buy", "Sell"}
Other(s) == IF s = "Buy" THEN "Sell" ELSE "Buy"

-----------------------------------------------------------------------------
(* Requests: new_limit_order, new_market_order, replace_order, cancel_order. *)
Request(action, id, side, q) == [action |-> action, id |-> id, side |-> side, q |-> q]
LimitOrder(side, q)  == Request("Limit", 0, side, q)
MarketOrder(side, q) == Request("Market", 0, side, q)
Modify(o)            == Request("Modify", o.id, o.side, o.q)
Cancel(o)            == Request("Cancel", o.id, o.side, 0)

IsNew(r) == r.action \in {"Limit", "Market"}

\* Mutant: send_order_request leaves order_id at zero.
Unnumbered(batch) == batch

\* The i-th new order of a batch is named next_id_ + i - 1.
Numbered(batch) ==
  [i \in DOMAIN batch |->
     IF IsNew(batch[i])
     THEN [batch[i] EXCEPT !.id = next_id + Cardinality({j \in 1..(i - 1) : IsNew(batch[j])})]
     ELSE batch[i]]

InFlight == requests # <<>> \/ wire # <<>>

(* The requests of a pass leave one after the other, without waiting.        *)
Send(batch, outOfDate) ==
  /\ requests' = requests \o Numbered(batch)
  /\ next_id' = next_id + Cardinality({i \in DOMAIN batch : IsNew(batch[i])})
  /\ stale' = IF batch # <<>> /\ outOfDate THEN stale + 1 ELSE stale
  /\ next_id' <= MaxOrders[agent] + 1 /\ Len(requests') <= MaxRequests[agent] /\ stale' <= MaxStale

\* What one order adds to the batch.
Decide(batch, d) ==
  IF d.fate = "keep" THEN batch
  ELSE Append(batch, IF d.fate = "replace" THEN Modify(d.order) ELSE Cancel(d.order))

\* The changes to the listed orders that are not kept, in the order listed;
\* one that is replaced is listed with the quantity to ask for.
Changes(open, fate) ==
  FoldLeft(Decide, <<>>, [i \in DOMAIN open |-> [order |-> open[i], fate |-> fate[i]]])

Listed(open, side) == {i \in DOMAIN open : open[i].side = side}

-----------------------------------------------------------------------------
(* The exchange.                                                             *)
Response(type, id, side, q) ==
  [type |-> type, id |-> id, symbol |-> Symbol, side |-> side, p |-> 0, q |-> q]

Answer(responses) ==
  /\ wire' = wire \o responses
  /\ Len(wire') <= MaxLag[agent]

LiveWith(id, o) == [x \in DOMAIN live \cup {id} |-> IF x = id THEN o ELSE live[x]]

AcceptLimit(r) ==
  /\ r.action = "Limit" /\ r.id \notin DOMAIN live
  /\ live' = LiveWith(r.id, [side |-> r.side, q |-> r.q])
  /\ Answer(<<Response("New", r.id, r.side, r.q)>>)

\* A market order fills what it can and is gone.
ExecuteMarket(r, filled) ==
  /\ r.action = "Market" /\ r.id \notin DOMAIN live
  /\ UNCHANGED live
  /\ Answer(<<Response("New", r.id, r.side, r.q)>> \o
            (IF filled = r.q THEN <<Response("Fill", r.id, r.side, r.q)>>
             ELSE IF filled = 0 THEN <<Response("Cancelled", r.id, r.side, r.q)>>
             ELSE <<Response("PartialFill", r.id, r.side, filled),
                    Response("Cancelled", r.id, r.side, r.q - filled)>>))

Replace(r) ==
  /\ r.action = "Modify" /\ r.id \in DOMAIN live
  /\ live' = [live EXCEPT ![r.id].q = r.q]
  /\ Answer(<<Response("Replaced", r.id, live[r.id].side, r.q)>>)

LiveWithout(id) == [x \in DOMAIN live \ {id} |-> live[x]]

Withdraw(r) ==
  /\ r.action = "Cancel" /\ r.id \in DOMAIN live
  /\ live' = LiveWithout(r.id)
  /\ Answer(<<Response("Cancelled", r.id, live[r.id].side, live[r.id].q)>>)

\* A change of an order that is gone (OrderNotFound), or a new order under the
\* id of an open one (DuplicateOrderID).
Refuse(r) ==
  /\ IsNew(r) <=> r.id \in DOMAIN live
  /\ UNCHANGED live
  /\ Answer(<<Response("Unknown", r.id, "None", 0)>>)

TakeRequest ==
  /\ requests # <<>>
  /\ requests' = Tail(requests)
  /\ LET r == Head(requests)
     IN  \/ AcceptLimit(r)
         \/ \E filled \in 0..r.q : ExecuteMarket(r, filled)
         \/ Replace(r) \/ Withdraw(r) \/ Refuse(r)
  /\ UNCHANGED <<account, who, next_id, ready, read, stale, slipped>>

BeingCancelled == {requests[i].id : i \in {j \in DOMAIN requests : requests[j].action = "Cancel"}}

Fill(id, q) ==
  /\ q \in 1..live[id].q
  /\ IF q = live[id].q
     THEN live' = LiveWithout(id) /\ Answer(<<Response("Fill", id, live[id].side, q)>>)
     ELSE live' = [live EXCEPT ![id].q = @ - q]
          /\ Answer(<<Response("PartialFill", id, live[id].side, q)>>)
  /\ slipped' = (slipped \/ id \in BeingCancelled)
  /\ UNCHANGED <<account, who, next_id, requests, ready, read, stale>>

ExchangeStep ==
  \/ TakeRequest
  \/ \E id \in DOMAIN live : \E q \in 1..live[id].q : Fill(id, q)

-----------------------------------------------------------------------------
(* The io thread: the lambda of run(), on_order_response and                 *)
(* on_position_response of the base.                                         *)
Apply(m) ==
  /\ wire' = Tail(wire)
  /\ ready' = (ready \/ m.type = "Complete")
  /\ positions' = PositionsOnce(positions, m)
  /\ open_orders' = OpenOrdersOnce(open_orders, m)
  /\ UNCHANGED <<who, next_id, requests, live, read, stale, slipped>>

-----------------------------------------------------------------------------
(* A thread's pass over the strategy, when it takes several reads.           *)
Idle == [at |-> "idle", pos |-> 0, open |-> <<>>, found |-> {}]

Stages == {"idle", "reading", "deciding", "moving", "Buy", "bid done", "Sell"}

\* What a pass uses of the listed orders.
Copy(open) == [i \in DOMAIN open |-> [id |-> open[i].id, side |-> open[i].side]]

Position == positions[Symbol]

Each(S, Op(_)) == [i \in DOMAIN SetToSeq(S) |-> Op(SetToSeq(S)[i])]

\* The login replay: the open orders, the positions and cash, and Complete.
Replay(l) ==
  Each(DOMAIN l.orders,
       LAMBDA id : Response("OrderStatus", id, l.orders[id].side, l.orders[id].q))
  \o Each(Assets, LAMBDA a : PositionMsg(a, l.positions[a]))
  \o <<CompleteMsg>>

(* A new process, whose next_id_ starts where that of every process does.    *)
FlowInit ==
  /\ agent \in AgentKinds /\ legacy \in Legacies[agent]
  /\ AccountInit
  /\ next_id = 1 /\ requests = <<>> /\ ready = FALSE
  /\ live = legacy.orders /\ wire = Replay(legacy)
  /\ read = [t \in Threads |-> Idle]
  /\ stale = 0 /\ slipped = FALSE

-----------------------------------------------------------------------------
\* The position once the responses on their way are applied.
Balance == FoldLeft(PositionsOnce, positions, wire)[Symbol]

\* New orders on a side that nobody has asked to cancel.
Pending(action, side) ==
  {i \in DOMAIN requests : requests[i].action = action /\ requests[i].side = side}
Standing(side) == {id \in DOMAIN live \ BeingCancelled : live[id].side = side}

FlowTypeOK ==
  /\ AccountTypeOK
  /\ agent \in AgentKinds /\ legacy \in Legacies[agent]
  /\ next_id \in Nat \ {0}
  /\ requests \in Seq([action : {"Limit", "Market", "Modify", "Cancel"},
                       id : Nat, side : TwoSides, q : Nat])
  /\ \A id \in DOMAIN live : id \in Ids /\ live[id] \in [side : TwoSides, q : Nat \ {0}]
  /\ wire \in Seq(OrderResponse \cup [type : {"Position"}, symbol : Assets, position : Int]
                   \cup {CompleteMsg})
  /\ read \in [Threads -> [at : Stages, pos : Int, open : Seq([id : Ids, side : Sides]),
                           found : SUBSET Sides]]
  /\ ready \in BOOLEAN /\ slipped \in BOOLEAN /\ stale \in Nat
=============================================================================
