------------------------------- MODULE L3Book -------------------------------
(***************************************************************************)
(* The order-by-order book an L3 subscriber keeps (include/L3Book.hpp): a   *)
(* map from order id to order, and for each side and price a queue of the   *)
(* ids resting there, oldest first.  Each order also holds an iterator to   *)
(* its own node of its own queue (queue_pos); erasing through it is only    *)
(* defined while that node is there, and display() throws if a queue names  *)
(* an id that the map has lost.  So the two halves must agree after every   *)
(* update, whatever stream of updates arrives.                              *)
(***************************************************************************)
EXTENDS Integers, SequencesExt

CONSTANTS Ids, Prices, Qtys

ASSUME QtyAssumption == Qtys \subseteq Nat

VARIABLE book    \* orders: the map; queues: bids (Buy) and asks (Sell)

Sides     == {"Buy", "Sell"}
ExecTypes == {"New", "PartialFill", "Fill", "Cancelled", "Replaced", "OrderStatus", "Complete"}
Updates   == [type: ExecTypes, id: Ids, side: Sides \cup {"None"}, p: Prices, q: Qtys]

NoQueues  == [s \in Sides |-> <<>>]
EmptyBook == [orders |-> <<>>, queues |-> NoQueues]

-----------------------------------------------------------------------------
(* bids[price] and asks[price]: the queue, created empty when it is absent.  *)
Queue(b, s, p) == IF p \in DOMAIN b.queues[s] THEN b.queues[s][p] ELSE <<>>

\* The node that queue_pos of this order points at.
QueuePos(queue, id) == CHOOSE i \in DOMAIN queue : queue[i] = id

\* m[k] = v on a map that may or may not have the key.
Put(m, k, v) == [x \in DOMAIN m \cup {k} |-> IF x = k THEN v ELSE m[x]]

WithOrder(b, id, o)       == [b EXCEPT !.orders = Put(@, id, o)]
WithQueue(b, s, p, queue) == [b EXCEPT !.queues[s] = Put(@, p, queue)]
DropLevel(b, s, p)        == [b EXCEPT !.queues[s] = Restrict(@, DOMAIN @ \ {p})]

\* queue.push_back(order_id), and the order with its place in the queue.
PushBack(b, u) ==
  WithQueue(WithOrder(b, u.id, [side |-> u.side, price |-> u.p, qty |-> u.q]),
            u.side, u.p, Append(Queue(b, u.side, u.p), u.id))

\* Mutant: the node at the front is erased instead of the order's own.
RemoveFromQueuesPopsFront(b, id) ==
  IF id \notin DOMAIN b.orders THEN b
  ELSE LET o == b.orders[id]
       IN  WithQueue(b, o.side, o.price, Tail(Queue(b, o.side, o.price)))

\* Mutant: the level is erased with the order, whoever else is there.
RemoveFromQueuesDropsLevel(b, id) ==
  IF id \notin DOMAIN b.orders THEN b
  ELSE DropLevel(b, b.orders[id].side, b.orders[id].price)

\* The order's node is erased, and its level with it once that is empty.
RemoveFromQueues(b, id) ==
  IF id \notin DOMAIN b.orders THEN b
  ELSE LET o == b.orders[id]
           queue == Queue(b, o.side, o.price)
           rest  == RemoveAt(queue, QueuePos(queue, id))
       IN  IF o.price \notin DOMAIN b.queues[o.side] THEN b
           ELSE IF rest # <<>> THEN WithQueue(b, o.side, o.price, rest)
           ELSE DropLevel(b, o.side, o.price)

\* remove_from_queues and orders.erase.
EraseOrder(b, id) ==
  [RemoveFromQueues(b, id) EXCEPT !.orders = Restrict(@, DOMAIN @ \ {id})]

-----------------------------------------------------------------------------
(* One operator for each case of update().                                   *)
OnNew(b, u) == PushBack(RemoveFromQueues(b, u.id), u)

OnFillOrCancel(b, u) == EraseOrder(b, u.id)

\* Mutant: the filled quantity is subtracted without comparing.
OnPartialFillUnchecked(b, u) ==
  IF u.id \notin DOMAIN b.orders THEN b
  ELSE [b EXCEPT !.orders[u.id].qty = @ - u.q]

OnPartialFill(b, u) ==
  IF u.id \notin DOMAIN b.orders THEN b
  ELSE IF b.orders[u.id].qty > u.q THEN [b EXCEPT !.orders[u.id].qty = @ - u.q]
  ELSE EraseOrder(b, u.id)

\* Mutant: a moved order is queued at its new price and left at its old one.
OnReplacedLeavesOld(b, u) ==
  IF u.id \in DOMAIN b.orders /\ b.orders[u.id].side = u.side /\ b.orders[u.id].price = u.p
  THEN [b EXCEPT !.orders[u.id].qty = u.q]
  ELSE PushBack(b, u)

\* Mutant: a change of quantity alone sends the order to the back.
OnReplacedRequeues(b, u) == PushBack(RemoveFromQueues(b, u.id), u)

\* An order keeps its place when only its quantity changes.
OnReplaced(b, u) ==
  IF u.id \in DOMAIN b.orders /\ b.orders[u.id].side = u.side /\ b.orders[u.id].price = u.p
  THEN [b EXCEPT !.orders[u.id].qty = u.q]
  ELSE PushBack(RemoveFromQueues(b, u.id), u)

Apply(b, u) ==
  CASE u.side = "None"                 -> EmptyBook
    [] u.side # "None" /\ u.type = "New"         -> OnNew(b, u)
    [] u.side # "None" /\ u.type \in {"Fill", "Cancelled"} -> OnFillOrCancel(b, u)
    [] u.side # "None" /\ u.type = "PartialFill" -> OnPartialFill(b, u)
    [] u.side # "None" /\ u.type = "Replaced"    -> OnReplaced(b, u)
    [] OTHER -> b

\* What display() adds up for one level.
Depth(b, s, p) == FoldLeft(LAMBDA sum, id : sum + b.orders[id].qty, 0, Queue(b, s, p))

-----------------------------------------------------------------------------
Init == book = EmptyBook

Update(u) == book' = Apply(book, u)

Clear == book' = EmptyBook

Next == (\E u \in Updates : Update(u)) \/ Clear

Spec == Init /\ [][Next]_book

-----------------------------------------------------------------------------
Order == [side: Sides, price: Prices, qty: Nat]

TypeOK ==
  /\ DOMAIN book = {"orders", "queues"}
  /\ DOMAIN book.orders \subseteq Ids
  /\ \A id \in DOMAIN book.orders : book.orders[id] \in Order
  /\ DOMAIN book.queues = Sides
  /\ \A s \in Sides : \A p \in DOMAIN book.queues[s] :
       p \in Prices /\ book.queues[s][p] \in Seq(Ids)

\* No level is empty, so best bid and best ask are prices someone offers.
NoEmptyLevel(b) == \A s \in Sides : \A p \in DOMAIN b.queues[s] : b.queues[s][p] # <<>>

\* orders.at(id) finds every queued id, as an order of this side and price.
QueuedIsOrder(b) ==
  \A s \in Sides : \A p \in DOMAIN b.queues[s] : \A i \in DOMAIN b.queues[s][p] :
    LET id == b.queues[s][p][i]
    IN  id \in DOMAIN b.orders /\ b.orders[id].side = s /\ b.orders[id].price = p

\* Every order's queue_pos points at a node of its own level ...
OrderIsQueued(b) ==
  \A id \in DOMAIN b.orders :
    \E i \in DOMAIN Queue(b, b.orders[id].side, b.orders[id].price) :
      Queue(b, b.orders[id].side, b.orders[id].price)[i] = id

\* ... and there is only one such node.
QueuedOnce(b) ==
  \A s \in Sides : \A p \in DOMAIN b.queues[s] : IsInjective(b.queues[s][p])

(* The two halves of the book describe the same orders after any sequence   *)
(* of updates: duplicate ids, replacements of unknown orders, fills larger  *)
(* than what is left, snapshots in the middle.  Then erasing through         *)
(* queue_pos is defined and display() does not throw.                        *)
Consistent ==
  NoEmptyLevel(book) /\ QueuedIsOrder(book) /\ OrderIsQueued(book) /\ QueuedOnce(book)

\* x and y are in the queue, and y not before x.
Before(queue, x, y) ==
  \E i, j \in DOMAIN queue : i <= j /\ queue[i] = x /\ queue[j] = y

\* From b to c, all orders but this one keep their terms, and their order of
\* priority at each level.
OnlyThisOrder(id, b, c) ==
  /\ Restrict(c.orders, DOMAIN c.orders \ {id}) = Restrict(b.orders, DOMAIN b.orders \ {id})
  /\ \A s \in Sides, p \in Prices : \A x, y \in Ids \ {id} :
       Before(Queue(c, s, p), x, y) <=> Before(Queue(b, s, p), x, y)

(* In whatever book it finds, an update that does not start a snapshot        *)
(* changes nothing but the order that it names: no order behind that one in   *)
(* its queue, at another level, or on the other side.                        *)
OthersUndisturbed ==
  \A u \in Updates : u.side # "None" => OnlyThisOrder(u.id, book, Apply(book, u))
=============================================================================
