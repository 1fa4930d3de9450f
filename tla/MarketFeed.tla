----------------------------- MODULE MarketFeed -----------------------------
(***************************************************************************)
(* Two subscribers of one symbol, one of the L2 feed and one of the L3      *)
(* feed, with the exchange that publishes both.  The exchange is not part   *)
(* of this repository: it is modelled by what the messages of fbs/order.fbs *)
(* and the books' update() functions take them to mean.  Each subscriber    *)
(* has a websocket of its own, delivered in order and at its own pace, and  *)
(* may stop at any time; started again, it subscribes, and the exchange     *)
(* opens the new stream with a snapshot.                                    *)
(***************************************************************************)
EXTENDS L3Book, L2Book, FiniteSetsExt

CONSTANTS
  FeedIds,      \* the ids of the orders of the exchange
  FeedPrices,   \*   and their prices, where both feeds are read
  MaxLag        \* bound on the messages a subscriber may be behind, for TLC

ASSUME FeedAssumption == FeedIds \subseteq Ids /\ FeedPrices \subseteq Prices

\* Both are 64-bit integers.
ASSUME WidthAssumption == IsFiniteSet(Ids) /\ IsFiniteSet(Prices)

VARIABLES
  readers,   \* who reads the two streams; never changes
  orders,    \* the exchange's resting orders
  arrival,   \* their ids, in order of priority
  l3stream, l3sub,           \* the L3 subscriber, whose book is that of L3Book: its
                             \*   stream, and whether it is subscribed
  l2book, l2stream, l2sub    \* the L2 subscriber likewise

exchange == <<orders, arrival>>
l3vars   == <<book, l3stream, l3sub>>
l2vars   == <<l2book, l2stream, l2sub>>
feeds    == <<exchange, l3vars, l2vars>>

-----------------------------------------------------------------------------
(* What the exchange publishes.                                              *)
L3Msg(type, id, s, p, q) == [type |-> type, id |-> id, side |-> s, p |-> p, q |-> q]
L2Msg(s, p, q)           == [side |-> s, p |-> p, q |-> q]

At(os, s, p)    == {id \in DOMAIN os : os[id].side = s /\ os[id].price = p}
Total(os, s, p) == MapThenSumSet(LAMBDA id : os[id].qty, At(os, s, p))

AnyId    == CHOOSE id \in Ids : TRUE
AnyPrice == CHOOSE p \in Prices : TRUE

L3Snapshot ==
  <<L3Msg("New", AnyId, "None", AnyPrice, 0)>> \o
  [i \in DOMAIN arrival |->
     LET o == orders[arrival[i]] IN L3Msg("New", arrival[i], o.side, o.price, o.qty)]

L2Snapshot ==
  <<L2Msg("None", AnyPrice, 0)>> \o
  SetToSeq({L2Msg(level[1], level[2], Total(orders, level[1], level[2])) :
              level \in {sp \in Sides \X Prices : At(orders, sp[1], sp[2]) # {}}})

(* An event of the exchange: the new resting orders, the L3 message, and for *)
(* each level whose total may have changed an L2 message.                    *)
Publish(os, msg, levels) ==
  /\ orders' = os
  /\ IF l3sub THEN /\ Len(l3stream) < MaxLag
                   /\ l3stream' = Append(l3stream, msg)
              ELSE UNCHANGED l3stream
  /\ IF l2sub THEN /\ Len(l2stream) < MaxLag
                   /\ l2stream' = l2stream \o
                        [i \in DOMAIN levels |->
                           L2Msg(levels[i][1], levels[i][2], Total(os, levels[i][1], levels[i][2]))]
              ELSE UNCHANGED l2stream
  /\ UNCHANGED <<book, l3sub, l2book, l2sub>>

Without(id)   == Restrict(orders, DOMAIN orders \ {id})
OutOfLine(id) == RemoveAt(arrival, QueuePos(arrival, id))

Rest(id, s, p, q) ==
  /\ id \notin DOMAIN orders
  /\ arrival' = Append(arrival, id)
  /\ Publish(Put(orders, id, [side |-> s, price |-> p, qty |-> q]),
             L3Msg("New", id, s, p, q), <<<<s, p>>>>)

\* fbs/order.fbs: the quantity of a fill message is what was filled.
FillPart(id, q) ==
  /\ q < orders[id].qty
  /\ UNCHANGED arrival
  /\ LET o == orders[id]
     IN  Publish([orders EXCEPT ![id].qty = @ - q],
                 L3Msg("PartialFill", id, o.side, o.price, q), <<<<o.side, o.price>>>>)

Leave(id, type) ==
  /\ arrival' = OutOfLine(id)
  /\ LET o == orders[id]
     IN  Publish(Without(id), L3Msg(type, id, o.side, o.price, o.qty), <<<<o.side, o.price>>>>)

\* A new price costs an order its priority, a new quantity does not.
Replace(id, p, q) ==
  LET o == orders[id]
  IN  /\ <<p, q>> # <<o.price, o.qty>>
      /\ arrival' = IF p = o.price THEN arrival ELSE Append(OutOfLine(id), id)
      /\ Publish([orders EXCEPT ![id].price = p, ![id].qty = q],
                 L3Msg("Replaced", id, o.side, p, q),
                 IF p = o.price THEN <<<<o.side, p>>>> ELSE <<<<o.side, o.price>>, <<o.side, p>>>>)

ExchangeStep(ids, prices) ==
  \/ \E id \in ids, s \in Sides, p \in prices, q \in Qtys : Rest(id, s, p, q)
  \/ \E id \in DOMAIN orders :
       \/ \E q \in Qtys : FillPart(id, q)
       \/ Leave(id, "Fill")
       \/ Leave(id, "Cancelled")
       \/ \E p \in prices, q \in Qtys : Replace(id, p, q)

-----------------------------------------------------------------------------
(* The subscribers.                                                          *)

\* on_l3_update: book_.update(exec_type, order_id, side, p, q)
OnL3Update ==
  /\ l3stream # <<>>
  /\ book' = Apply(book, Head(l3stream))
  /\ l3stream' = Tail(l3stream)
  /\ UNCHANGED <<exchange, l3sub, l2vars>>

\* on_l2_update: book_.update(side, p, q)
OnL2Update ==
  /\ l2stream # <<>>
  /\ l2book' = UpdateL2(l2book, Head(l2stream))
  /\ l2stream' = Tail(l2stream)
  /\ UNCHANGED <<exchange, l2sub, l3vars>>

\* The process starts (again) with an empty book, its stream cut.
RestartL3 ==
  /\ l3sub
  /\ book' = EmptyBook /\ l3stream' = <<>> /\ l3sub' = FALSE
  /\ UNCHANGED <<exchange, l2vars>>

RestartL2 ==
  /\ l2sub
  /\ l2book' = NoLevels /\ l2stream' = <<>> /\ l2sub' = FALSE
  /\ UNCHANGED <<exchange, l3vars>>

\* run(): send_text("sub ..."), as the exchange receives it.
SubscribeL3 ==
  /\ ~l3sub
  /\ l3stream' = L3Snapshot /\ l3sub' = TRUE
  /\ UNCHANGED <<exchange, book, l2vars>>

SubscribeL2 ==
  /\ ~l2sub
  /\ l2stream' = L2Snapshot /\ l2sub' = TRUE
  /\ UNCHANGED <<exchange, l2book, l3vars>>

-----------------------------------------------------------------------------
FeedInit ==
  /\ readers \in {"displayers", "mm-advanced", "any stream"}
  /\ orders = <<>> /\ arrival = <<>>
  /\ Init /\ l3stream = <<>> /\ l3sub = FALSE
  /\ l2book = NoLevels /\ l2stream = <<>> /\ l2sub = FALSE

FeedNext ==
  \/ ExchangeStep(FeedIds, FeedPrices)
  \/ OnL3Update \/ RestartL3 \/ SubscribeL3
  \/ OnL2Update \/ RestartL2 \/ SubscribeL2

-----------------------------------------------------------------------------
\* A book that holds what the exchange does: its orders, and a level for each
\* price with orders, which lists them once and in order of priority.
IsExchangeBook(b) ==
  /\ b.orders = orders
  /\ \A s \in Sides : DOMAIN b.queues[s] = {p \in Prices : At(orders, s, p) # {}}
  /\ \A s \in Sides : \A p \in DOMAIN b.queues[s] :
       /\ IsInjective(b.queues[s][p]) /\ Range(b.queues[s][p]) = At(orders, s, p)
       /\ \A x, y \in At(orders, s, p) : Before(b.queues[s][p], x, y) <=> Before(arrival, x, y)

(* The L3 subscriber is never wrong, only late: once it has applied what is  *)
(* on its way it holds the exchange's orders, their remaining quantities and *)
(* their priority at each level, whenever it joined and however often it was *)
(* restarted.                                                                *)
L3InStep ==
  readers = "displayers" /\ l3sub =>
    IsExchangeBook(FoldLeft(Apply, book, l3stream))

(* Fed by any stream, the book loses or reorders nothing that an update does *)
(* not name.                                                                 *)
AnyStreamUndisturbed == readers = "any stream" => OthersUndisturbed

(* A message moves nobody but the order it names: the book of a subscriber   *)
(* that stays subscribed changes otherwise at the start of a snapshot only.  *)
MessagesDisturbNobody ==
  [][book' # book /\ l3sub /\ l3sub' =>
       Head(l3stream).side = "None" \/ OnlyThisOrder(Head(l3stream).id, book, book')]_book

(* Two subscribers that are up to date agree: the L2 book shows at each      *)
(* price the depth of the L3 book, and no level that the L3 book lacks.      *)
FeedsAgree ==
  readers = "displayers" /\ l3sub /\ l2sub /\ l3stream = <<>> /\ l2stream = <<>> =>
    \A s \in Sides :
      l2book[s] = [p \in DOMAIN book.queues[s] |-> Depth(book, s, p)]
=============================================================================
