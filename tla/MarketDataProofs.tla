-------------------------- MODULE MarketDataProofs --------------------------
(***************************************************************************)
(* Market data, for any ids, prices and quantities.  The L3 book is          *)
(* consistent after any stream of updates.  The micro price of any best bid  *)
(* and ask that do not cross lies between them, so that opportunistic_take  *)
(* never trades, and fast_cancel_protection pulls no quote that is no better *)
(* than the best of its side.                                               *)
(***************************************************************************)
EXTENDS Microstructure, SequenceTheorems, FiniteSetTheorems, TLAPS

\* The L3 book once the updates on their way are applied, and what a fold is.
F == INSTANCE FoldFacts WITH Op <- Apply

\* The L2 book likewise.
L == INSTANCE FoldFacts WITH Op <- UpdateL2

-----------------------------------------------------------------------------
(* A book of the right shape in which every order but x, and no x, is queued *)
(* once at its own level: what remove_from_queues(x) leaves, and what         *)
(* push_back of x needs.                                                      *)
Shape(b) ==
  /\ DOMAIN b = {"orders", "queues"}
  /\ DOMAIN b.orders \subseteq Ids
  /\ \A id \in DOMAIN b.orders : b.orders[id] \in Order
  /\ DOMAIN b.queues = Sides
  /\ \A s \in Sides : \A p \in DOMAIN b.queues[s] :
       p \in Prices /\ b.queues[s][p] \in Seq(Ids)

GoodBut(b, x) ==
  /\ Shape(b) /\ NoEmptyLevel(b) /\ QueuedOnce(b) /\ QueuedIsOrder(b)
  /\ \A s \in Sides : \A p \in DOMAIN b.queues[s] : \A i \in DOMAIN b.queues[s][p] :
       b.queues[s][p][i] # x
  /\ \A id \in DOMAIN b.orders \ {x} :
       \E i \in DOMAIN Queue(b, b.orders[id].side, b.orders[id].price) :
         Queue(b, b.orders[id].side, b.orders[id].price)[i] = id

Good(b) == Shape(b) /\ NoEmptyLevel(b) /\ QueuedOnce(b) /\ QueuedIsOrder(b) /\ OrderIsQueued(b)

-----------------------------------------------------------------------------
(* Removing one element of an injective sequence.                            *)
LEMMA RemoveAtFacts ==
  ASSUME NEW S, NEW q \in Seq(S), NEW i \in 1..Len(q)
  PROVE  /\ RemoveAt(q, i) \in Seq(S)
         /\ Len(RemoveAt(q, i)) = Len(q) - 1
         /\ \A j \in 1..(Len(q) - 1) :
              RemoveAt(q, i)[j] = IF j < i THEN q[j] ELSE q[j + 1]
<1> DEFINE l == SubSeq(q, 1, i - 1)
           r == SubSeq(q, i + 1, Len(q))
<1>1. /\ l \in Seq(S) /\ Len(l) = i - 1
      /\ \A j \in 1..(i - 1) : l[j] = q[j]
  <2>1. \A j \in 1..(i - 1) : q[j] \in S
    OBVIOUS
  <2>2. Len(l) = IF 1 <= i - 1 THEN (i - 1) - 1 + 1 ELSE 0
    BY <2>1, SubSeqProperties
  <2>3. \A j \in 1..((i - 1) - 1 + 1) : l[j] = q[1 + j - 1]
    BY <2>1, SubSeqProperties
  <2>4. l \in Seq(S)
    BY <2>1, SubSeqProperties
  <2> QED
    BY <2>2, <2>3, <2>4
<1>2. /\ r \in Seq(S) /\ Len(r) = Len(q) - i
      /\ \A j \in 1..(Len(q) - i) : r[j] = q[i + j]
  <2>1. \A j \in (i + 1)..Len(q) : q[j] \in S
    OBVIOUS
  <2>2. Len(r) = IF i + 1 <= Len(q) THEN Len(q) - (i + 1) + 1 ELSE 0
    BY <2>1, SubSeqProperties
  <2>3. \A j \in 1..(Len(q) - (i + 1) + 1) : r[j] = q[(i + 1) + j - 1]
    BY <2>1, SubSeqProperties
  <2>4. r \in Seq(S)
    BY <2>1, SubSeqProperties
  <2> QED
    BY <2>2, <2>3, <2>4
<1>3. /\ l \o r \in Seq(S)
      /\ Len(l \o r) = Len(l) + Len(r)
      /\ \A j \in 1..(Len(l) + Len(r)) :
           (l \o r)[j] = IF j <= Len(l) THEN l[j] ELSE r[j - Len(l)]
  BY <1>1, <1>2, ConcatProperties
<1>4. RemoveAt(q, i) = l \o r
  BY DEF RemoveAt
<1> HIDE DEF l, r
<1>5. Len(l) + Len(r) = Len(q) - 1
  BY <1>1, <1>2
<1>6. ASSUME NEW j \in 1..(Len(q) - 1)
      PROVE  (l \o r)[j] = IF j < i THEN q[j] ELSE q[j + 1]
  <2>1. (l \o r)[j] = IF j <= i - 1 THEN l[j] ELSE r[j - (i - 1)]
    BY <1>1, <1>3, <1>5
  <2>2. CASE j < i
    BY <1>1, <2>1, <2>2
  <2>3. CASE ~(j < i)
    <3>1. j - (i - 1) \in 1..(Len(q) - i) /\ i + (j - (i - 1)) = j + 1
      BY <2>3
    <3> QED
      BY <1>2, <2>1, <2>3, <3>1
  <2> QED
    BY <2>2, <2>3
<1> QED
  BY <1>3, <1>4, <1>5, <1>6

-----------------------------------------------------------------------------
(* What each change of the record leaves, field by field.                    *)
LEMMA OrdersChanged ==
  ASSUME NEW b, Shape(b), NEW f
  PROVE  LET c == [b EXCEPT !.orders = f]
         IN  DOMAIN c = {"orders", "queues"} /\ c.orders = f /\ c.queues = b.queues
BY DEF Shape

LEMMA QueueChanged ==
  ASSUME NEW b, Shape(b), NEW s \in Sides, NEW p, NEW q,
         NEW c, c = WithQueue(b, s, p, q)
  PROVE  /\ DOMAIN c = {"orders", "queues"} /\ c.orders = b.orders
         /\ DOMAIN c.queues = Sides
         /\ \A t \in Sides \ {s} : c.queues[t] = b.queues[t]
         /\ DOMAIN c.queues[s] = DOMAIN b.queues[s] \cup {p}
         /\ c.queues[s][p] = q
         /\ \A r \in DOMAIN b.queues[s] \ {p} : c.queues[s][r] = b.queues[s][r]
<1>1. PICK g : g = Put(b.queues[s], p, q)
  OBVIOUS
<1>2. /\ DOMAIN g = DOMAIN b.queues[s] \cup {p} /\ g[p] = q
      /\ \A r \in DOMAIN b.queues[s] \ {p} : g[r] = b.queues[s][r]
  BY <1>1 DEF Put
<1>3. c = [b EXCEPT !.queues = [b.queues EXCEPT ![s] = g]]
  BY <1>1 DEF WithQueue
<1>4. c.queues = [b.queues EXCEPT ![s] = g] /\ c.orders = b.orders /\ DOMAIN c = {"orders", "queues"}
  BY <1>3 DEF Shape
<1> QED
  BY <1>2, <1>4 DEF Shape

LEMMA LevelDropped ==
  ASSUME NEW b, Shape(b), NEW s \in Sides, NEW p,
         NEW c, c = DropLevel(b, s, p)
  PROVE  /\ DOMAIN c = {"orders", "queues"} /\ c.orders = b.orders
         /\ DOMAIN c.queues = Sides
         /\ \A t \in Sides \ {s} : c.queues[t] = b.queues[t]
         /\ DOMAIN c.queues[s] = DOMAIN b.queues[s] \ {p}
         /\ \A r \in DOMAIN b.queues[s] \ {p} : c.queues[s][r] = b.queues[s][r]
<1>1. PICK g : g = Restrict(b.queues[s], DOMAIN b.queues[s] \ {p})
  OBVIOUS
<1>2. /\ DOMAIN g = DOMAIN b.queues[s] \ {p}
      /\ \A r \in DOMAIN b.queues[s] \ {p} : g[r] = b.queues[s][r]
  BY <1>1 DEF Restrict
<1>3. c = [b EXCEPT !.queues = [b.queues EXCEPT ![s] = g]]
  BY <1>1 DEF DropLevel
<1>4. c.queues = [b.queues EXCEPT ![s] = g] /\ c.orders = b.orders /\ DOMAIN c = {"orders", "queues"}
  BY <1>3 DEF Shape
<1> QED
  BY <1>2, <1>4 DEF Shape

-----------------------------------------------------------------------------
(* Erasing one node of a queue in which no id stands twice.                  *)
LEMMA EraseNode ==
  ASSUME NEW q \in Seq(Ids), IsInjective(q), NEW i \in 1..Len(q)
  PROVE  LET rest == RemoveAt(q, i)
         IN  /\ rest \in Seq(Ids) /\ IsInjective(rest)
             /\ \A j \in DOMAIN rest : rest[j] # q[i] /\ \E k \in DOMAIN q : rest[j] = q[k]
             /\ \A k \in DOMAIN q : q[k] # q[i] => \E j \in DOMAIN rest : rest[j] = q[k]
<1> DEFINE rest == RemoveAt(q, i)
<1>1. /\ rest \in Seq(Ids) /\ Len(rest) = Len(q) - 1
      /\ \A j \in 1..(Len(q) - 1) : rest[j] = IF j < i THEN q[j] ELSE q[j + 1]
  BY RemoveAtFacts
<1>2. \A k, l \in 1..Len(q) : q[k] = q[l] => k = l
  BY DEF IsInjective
<1> HIDE DEF rest
<1>3. DOMAIN rest = 1..(Len(q) - 1) /\ DOMAIN q = 1..Len(q)
  BY <1>1
<1>4. IsInjective(rest)
  BY <1>1, <1>2, <1>3 DEF IsInjective
<1>5. ASSUME NEW j \in DOMAIN rest
      PROVE  rest[j] # q[i] /\ \E k \in DOMAIN q : rest[j] = q[k]
  <2>1. CASE j < i
    BY <1>1, <1>2, <1>3, <2>1
  <2>2. CASE ~(j < i)
    <3>1. j + 1 \in 1..Len(q) /\ j + 1 # i /\ rest[j] = q[j + 1]
      BY <1>1, <1>3, <2>2
    <3> QED
      BY <1>2, <1>3, <3>1
  <2> QED
    BY <2>1, <2>2
<1>6. ASSUME NEW k \in DOMAIN q, q[k] # q[i]
      PROVE  \E j \in DOMAIN rest : rest[j] = q[k]
  <2>1. CASE k < i
    BY <1>1, <1>3, <2>1
  <2>2. CASE k > i
    <3>1. k - 1 \in DOMAIN rest /\ rest[k - 1] = q[k]
      BY <1>1, <1>3, <2>2
    <3> QED
      BY <3>1
  <2> QED
    BY <1>3, <1>6, <2>1, <2>2
<1> QED
  BY <1>1, <1>4, <1>5, <1>6 DEF rest

(* The level of x, with the node of x erased from its queue.                 *)
Erased(q, x, rest) ==
  /\ rest \in Seq(Ids) /\ IsInjective(rest)
  /\ \A j \in DOMAIN rest : rest[j] # x /\ \E k \in DOMAIN q : rest[j] = q[k]
  /\ \A k \in DOMAIN q : q[k] # x => \E j \in DOMAIN rest : rest[j] = q[k]

OnlyLevel(b, c, s, p, rest) ==
  /\ DOMAIN c = {"orders", "queues"} /\ c.orders = b.orders
  /\ DOMAIN c.queues = Sides
  /\ \A t \in Sides \ {s} : c.queues[t] = b.queues[t]
  /\ DOMAIN c.queues[s] = IF rest # <<>> THEN DOMAIN b.queues[s]
                          ELSE DOMAIN b.queues[s] \ {p}
  /\ rest # <<>> => c.queues[s][p] = rest
  /\ \A r \in DOMAIN b.queues[s] \ {p} : c.queues[s][r] = b.queues[s][r]

LEMMA ErasedFromLevel ==
  ASSUME NEW b, Good(b), NEW x, NEW s \in Sides, NEW p \in DOMAIN b.queues[s],
         NEW rest, Erased(b.queues[s][p], x, rest),
         b.orders[x].side = s, b.orders[x].price = p,
         NEW c, OnlyLevel(b, c, s, p, rest)
  PROVE  GoodBut(c, x)
<1> DEFINE q == b.queues[s][p]
<1>1. /\ rest \in Seq(Ids) /\ IsInjective(rest)
      /\ \A j \in DOMAIN rest : rest[j] # x /\ \E k \in DOMAIN q : rest[j] = q[k]
      /\ \A k \in DOMAIN q : q[k] # x => \E j \in DOMAIN rest : rest[j] = q[k]
  BY DEF Erased
<1>2. /\ DOMAIN c = {"orders", "queues"} /\ c.orders = b.orders
      /\ DOMAIN c.queues = Sides
      /\ \A t \in Sides \ {s} : c.queues[t] = b.queues[t]
      /\ DOMAIN c.queues[s] = IF rest # <<>> THEN DOMAIN b.queues[s]
                              ELSE DOMAIN b.queues[s] \ {p}
      /\ rest # <<>> => c.queues[s][p] = rest
      /\ \A r \in DOMAIN b.queues[s] \ {p} : c.queues[s][r] = b.queues[s][r]
  BY DEF OnlyLevel
<1>3. ASSUME NEW t \in Sides, NEW r \in DOMAIN c.queues[t]
      PROVE  /\ r \in DOMAIN b.queues[t]
             /\ c.queues[t][r] = IF t = s /\ r = p THEN rest ELSE b.queues[t][r]
             /\ t = s /\ r = p => rest # <<>>
  BY <1>2
<1>4. Shape(c) /\ NoEmptyLevel(c) /\ QueuedOnce(c)
  <2>0. Shape(b) /\ NoEmptyLevel(b) /\ QueuedOnce(b)
    BY DEF Good
  <2>1. \A t \in Sides : \A r \in DOMAIN c.queues[t] :
          r \in Prices /\ c.queues[t][r] \in Seq(Ids)
    BY <1>1, <1>3, <2>0 DEF Shape
  <2>2. Shape(c)
    BY <1>2, <2>0, <2>1 DEF Shape
  <2>3. NoEmptyLevel(c)
    BY <1>3, <2>0 DEF NoEmptyLevel
  <2>4. QueuedOnce(c)
    BY <1>1, <1>3, <2>0 DEF QueuedOnce
  <2> QED
    BY <2>2, <2>3, <2>4
<1>5. ASSUME NEW t \in Sides, NEW r \in DOMAIN c.queues[t], NEW j \in DOMAIN c.queues[t][r]
      PROVE  LET id == c.queues[t][r][j]
             IN  id # x /\ id \in DOMAIN c.orders /\ c.orders[id].side = t /\ c.orders[id].price = r
  <2>1. CASE t = s /\ r = p
    <3>1. c.queues[t][r] = rest
      BY <1>3, <2>1
    <3>2. PICK k \in DOMAIN q : rest[j] = q[k]
      BY <1>1, <1>5, <3>1
    <3>3. q[k] \in DOMAIN b.orders /\ b.orders[q[k]].side = s /\ b.orders[q[k]].price = p
      BY DEF Good, QueuedIsOrder
    <3>4. rest[j] # x
      BY <1>1, <1>5, <3>1
    <3>5. PICK id : id = c.queues[t][r][j]
      OBVIOUS
    <3>6. id = q[k] /\ id # x /\ c.orders = b.orders
      BY <1>2, <3>1, <3>2, <3>4, <3>5
    <3> QED
      BY <2>1, <3>3, <3>5, <3>6
  <2>2. CASE ~(t = s /\ r = p)
    <3>1. r \in DOMAIN b.queues[t] /\ c.queues[t][r] = b.queues[t][r]
      BY <1>3, <2>2
    <3>2. PICK id : id = b.queues[t][r][j]
      OBVIOUS
    <3>3. id \in DOMAIN b.orders /\ b.orders[id].side = t /\ b.orders[id].price = r
      BY <1>5, <3>1, <3>2 DEF Good, QueuedIsOrder
    <3>4. id # x
      BY <2>2, <3>3
    <3>5. c.orders = b.orders
      BY <1>2
    <3> QED
      BY <3>1, <3>2, <3>3, <3>4, <3>5
  <2> QED
    BY <2>1, <2>2
<1>6. ASSUME NEW id \in DOMAIN c.orders \ {x},
             NEW t, t = c.orders[id].side, NEW r, r = c.orders[id].price
      PROVE  \E j \in DOMAIN Queue(c, t, r) : Queue(c, t, r)[j] = id
  <2>1. t \in Sides /\ t = b.orders[id].side /\ r = b.orders[id].price /\ id \in DOMAIN b.orders
    BY <1>2, <1>6 DEF Good, Shape, Order
  <2>2. PICK k \in DOMAIN Queue(b, t, r) : Queue(b, t, r)[k] = id
    BY <2>1 DEF Good, OrderIsQueued
  <2>3. r \in DOMAIN b.queues[t] /\ Queue(b, t, r) = b.queues[t][r]
    BY <2>2 DEF Queue
  <2>4. CASE t = s /\ r = p
    <3>1. PICK j \in DOMAIN rest : rest[j] = id
      BY <1>1, <2>2, <2>3, <2>4
    <3>2. Queue(c, t, r) = rest
      BY <1>2, <2>3, <2>4, <3>1 DEF Queue
    <3> QED
      BY <3>1, <3>2
  <2>5. CASE ~(t = s /\ r = p)
    <3>1. r \in DOMAIN c.queues[t] /\ c.queues[t][r] = b.queues[t][r]
      BY <1>2, <2>1, <2>3, <2>5
    <3> QED
      BY <2>2, <2>3, <3>1 DEF Queue
  <2> QED
    BY <2>4, <2>5
<1>7. QueuedIsOrder(c)
  BY <1>2, <1>5 DEF QueuedIsOrder
<1>8. GoodBut(c, x)
  BY <1>2, <1>4, <1>5, <1>6, <1>7 DEF GoodBut
<1> QED
  BY <1>8

LEMMA RemoveKeeps ==
  ASSUME NEW b, Good(b), NEW x
  PROVE  /\ GoodBut(RemoveFromQueues(b, x), x)
         /\ RemoveFromQueues(b, x).orders = b.orders
<1>1. CASE x \notin DOMAIN b.orders
  <2>1. RemoveFromQueues(b, x) = b
    BY <1>1 DEF RemoveFromQueues
  <2>2. GoodBut(b, x)
    BY <1>1 DEF Good, GoodBut, QueuedIsOrder, OrderIsQueued
  <2> QED
    BY <2>1, <2>2
<1>2. CASE x \in DOMAIN b.orders
  <2>1. PICK s, p : s = b.orders[x].side /\ p = b.orders[x].price
    OBVIOUS
  <2>2. s \in Sides /\ p \in Prices
    BY <1>2, <2>1 DEF Good, Shape, Order
  <2>3. PICK q : q = Queue(b, s, p)
    OBVIOUS
  <2>4. PICK k \in DOMAIN q : q[k] = x
    BY <1>2, <2>1, <2>3 DEF Good, OrderIsQueued
  <2>5. p \in DOMAIN b.queues[s] /\ q = b.queues[s][p]
    BY <2>3, <2>4 DEF Queue
  <2>6. q \in Seq(Ids)
    BY <2>2, <2>5 DEF Good, Shape
  <2>7. PICK i : i = QueuePos(q, x)
    OBVIOUS
  <2>8. i \in 1..Len(q) /\ q[i] = x
    BY <2>4, <2>6, <2>7 DEF QueuePos
  <2>9. PICK rest : rest = RemoveAt(q, i)
    OBVIOUS
  <2>10. PICK c : c = RemoveFromQueues(b, x)
    OBVIOUS
  <2>11. c = IF rest # <<>> THEN WithQueue(b, s, p, rest)
             ELSE DropLevel(b, s, p)
    BY <1>2, <2>1, <2>3, <2>5, <2>7, <2>9, <2>10 DEF RemoveFromQueues
  <2>12. Shape(b) /\ IsInjective(q)
    BY <2>2, <2>5 DEF Good, QueuedOnce
  <2>13. Erased(b.queues[s][p], x, rest)
    BY <2>5, <2>6, <2>8, <2>9, <2>12, EraseNode DEF Erased
  <2>14. OnlyLevel(b, c, s, p, rest)
    <3>1. CASE rest # <<>>
      <4>1. c = WithQueue(b, s, p, rest)
        BY <2>11, <3>1
      <4>2. /\ DOMAIN c = {"orders", "queues"} /\ c.orders = b.orders
            /\ DOMAIN c.queues = Sides
            /\ \A t \in Sides \ {s} : c.queues[t] = b.queues[t]
            /\ DOMAIN c.queues[s] = DOMAIN b.queues[s] \cup {p}
            /\ c.queues[s][p] = rest
            /\ \A r \in DOMAIN b.queues[s] \ {p} : c.queues[s][r] = b.queues[s][r]
        BY <2>2, <2>12, <4>1, QueueChanged
      <4>3. DOMAIN b.queues[s] \cup {p} = DOMAIN b.queues[s]
        BY <2>5
      <4> QED
        BY <3>1, <4>2, <4>3 DEF OnlyLevel
    <3>2. CASE rest = <<>>
      <4>1. c = DropLevel(b, s, p)
        BY <2>11, <3>2
      <4>2. /\ DOMAIN c = {"orders", "queues"} /\ c.orders = b.orders
            /\ DOMAIN c.queues = Sides
            /\ \A t \in Sides \ {s} : c.queues[t] = b.queues[t]
            /\ DOMAIN c.queues[s] = DOMAIN b.queues[s] \ {p}
            /\ \A r \in DOMAIN b.queues[s] \ {p} : c.queues[s][r] = b.queues[s][r]
        BY <2>2, <2>12, <4>1, LevelDropped
      <4> QED
        BY <3>2, <4>2 DEF OnlyLevel
    <3> QED
      BY <3>1, <3>2
  <2>15. GoodBut(c, x)
    BY <2>1, <2>2, <2>5, <2>13, <2>14, ErasedFromLevel
  <2> QED
    BY <2>10, <2>14, <2>15 DEF OnlyLevel
<1> QED
  BY <1>1, <1>2

-----------------------------------------------------------------------------
(* An update with any quantity; the snapshot's first message has no order.   *)
AnyUpdates == [type: ExecTypes, id: Ids, side: Sides \cup {"None"}, p: Prices, q: Nat]

LEMMA UpdatesAny == Updates \subseteq AnyUpdates
  BY QtyAssumption DEF Updates, AnyUpdates

(* Queueing an order at the back of a level where it does not stand yet.     *)
LEMMA PushBackKeeps ==
  ASSUME NEW b, NEW u \in AnyUpdates, u.side \in Sides, GoodBut(b, u.id)
  PROVE  Good(PushBack(b, u))
<1>1. PICK x, s, p, o : /\ x = u.id /\ s = u.side /\ p = u.p
                        /\ o = [side |-> s, price |-> p, qty |-> u.q]
  OBVIOUS
<1>2. x \in Ids /\ s \in Sides /\ p \in Prices /\ o \in Order /\ o.side = s /\ o.price = p
  BY <1>1 DEF AnyUpdates, Order
<1>3. PICK q : q = Queue(b, s, p)
  OBVIOUS
<1>4. /\ q \in Seq(Ids) /\ IsInjective(q) /\ \A i \in DOMAIN q : q[i] # x
      /\ p \in DOMAIN b.queues[s] => q = b.queues[s][p]
  <2>1. CASE p \in DOMAIN b.queues[s]
    <3>1. q = b.queues[s][p]
      BY <1>3, <2>1 DEF Queue
    <3>2. q \in Seq(Ids)
      BY <1>2, <2>1, <3>1 DEF GoodBut, Shape
    <3>3. IsInjective(q)
      BY <1>2, <2>1, <3>1 DEF GoodBut, QueuedOnce
    <3>4. \A i \in DOMAIN q : q[i] # x
      BY <1>1, <1>2, <2>1, <3>1 DEF GoodBut
    <3> QED
      BY <3>1, <3>2, <3>3, <3>4
  <2>2. CASE p \notin DOMAIN b.queues[s]
    BY <1>3, <2>2 DEF Queue, IsInjective
  <2> QED
    BY <2>1, <2>2
<1>5. PICK r : r = Append(q, x)
  OBVIOUS
<1>6. /\ r \in Seq(Ids) /\ IsInjective(r) /\ r # <<>>
      /\ \A i \in DOMAIN r : r[i] = x \/ \E j \in DOMAIN q : r[i] = q[j]
      /\ \E i \in DOMAIN r : r[i] = x
      /\ \A j \in DOMAIN q : j \in DOMAIN r /\ r[j] = q[j]
  <2>1. /\ r \in Seq(Ids) /\ Len(r) = Len(q) + 1 /\ r[Len(q) + 1] = x
        /\ \A i \in 1..Len(q) : r[i] = q[i]
    BY <1>2, <1>4, <1>5
  <2>2. DOMAIN q = 1..Len(q) /\ DOMAIN r = 1..(Len(q) + 1) /\ Len(q) \in Nat
    BY <1>4, <2>1
  <2>3. \A i \in DOMAIN r : i \in DOMAIN q \/ i = Len(q) + 1
    BY <2>2
  <2>4. IsInjective(r)
    BY <1>4, <2>1, <2>2, <2>3 DEF IsInjective
  <2>5. r # <<>>
    BY <2>1, <2>2
  <2> QED
    BY <2>1, <2>2, <2>3, <2>4, <2>5
<1>7. PICK d : d = WithOrder(b, x, o)
  OBVIOUS
<1>8. /\ DOMAIN d = {"orders", "queues"} /\ d.queues = b.queues
      /\ DOMAIN d.orders = DOMAIN b.orders \cup {x} /\ d.orders[x] = o
      /\ \A id \in DOMAIN b.orders \ {x} : d.orders[id] = b.orders[id]
  <2>1. PICK f : f = Put(b.orders, x, o)
    OBVIOUS
  <2>2. /\ DOMAIN f = DOMAIN b.orders \cup {x} /\ f[x] = o
        /\ \A id \in DOMAIN b.orders \ {x} : f[id] = b.orders[id]
    BY <2>1 DEF Put
  <2>3. d.orders = f /\ d.queues = b.queues /\ DOMAIN d = {"orders", "queues"}
    BY <1>7, <2>1 DEF WithOrder, GoodBut, Shape
  <2> QED
    BY <2>2, <2>3
<1>9. Shape(d)
  BY <1>2, <1>8 DEF Shape, GoodBut
<1>10. PICK c : c = WithQueue(d, s, p, r)
  OBVIOUS
<1>11. c = PushBack(b, u)
  BY <1>1, <1>3, <1>5, <1>7, <1>10 DEF PushBack
<1>12. /\ DOMAIN c = {"orders", "queues"} /\ c.orders = d.orders
       /\ DOMAIN c.queues = Sides
       /\ \A t \in Sides \ {s} : c.queues[t] = b.queues[t]
       /\ DOMAIN c.queues[s] = DOMAIN b.queues[s] \cup {p}
       /\ c.queues[s][p] = r
       /\ \A y \in DOMAIN b.queues[s] \ {p} : c.queues[s][y] = b.queues[s][y]
  BY <1>2, <1>8, <1>9, <1>10, QueueChanged
<1>13. ASSUME NEW t \in Sides, NEW y \in DOMAIN c.queues[t]
       PROVE  \/ t = s /\ y = p /\ c.queues[t][y] = r
              \/ y \in DOMAIN b.queues[t] /\ c.queues[t][y] = b.queues[t][y]
  BY <1>12
<1>14. Shape(c)
  <2>1. \A t \in Sides : \A y \in DOMAIN c.queues[t] :
          y \in Prices /\ c.queues[t][y] \in Seq(Ids)
    BY <1>2, <1>6, <1>13 DEF GoodBut, Shape
  <2> QED
    BY <1>9, <1>12, <2>1 DEF Shape
<1>15. NoEmptyLevel(c)
  BY <1>6, <1>13 DEF GoodBut, NoEmptyLevel
<1>16. QueuedOnce(c)
  BY <1>6, <1>13 DEF GoodBut, QueuedOnce
<1>17. ASSUME NEW t \in Sides, NEW y \in DOMAIN c.queues[t], NEW i \in DOMAIN c.queues[t][y]
       PROVE  LET id == c.queues[t][y][i]
              IN  id \in DOMAIN c.orders /\ c.orders[id].side = t /\ c.orders[id].price = y
  <2>1. ASSUME y \in DOMAIN b.queues[t], NEW j \in DOMAIN b.queues[t][y]
        PROVE  LET id == b.queues[t][y][j]
               IN  id \in DOMAIN c.orders /\ c.orders[id].side = t /\ c.orders[id].price = y
    <3>1. PICK id : id = b.queues[t][y][j]
      OBVIOUS
    <3>2. id # x /\ id \in DOMAIN b.orders /\ b.orders[id].side = t /\ b.orders[id].price = y
      BY <1>1, <2>1, <3>1 DEF GoodBut, QueuedIsOrder
    <3> QED
      BY <1>8, <1>12, <3>1, <3>2
  <2>2. CASE y \in DOMAIN b.queues[t] /\ c.queues[t][y] = b.queues[t][y]
    BY <1>17, <2>1, <2>2
  <2>3. CASE t = s /\ y = p /\ c.queues[t][y] = r
    <3>1. CASE r[i] = x
      BY <1>2, <1>8, <1>12, <2>3, <3>1
    <3>2. CASE \E j \in DOMAIN q : r[i] = q[j]
      <4>1. PICK j \in DOMAIN q : r[i] = q[j]
        BY <3>2
      <4>2. y \in DOMAIN b.queues[t] /\ q = b.queues[t][y]
        BY <1>3, <1>4, <2>3, <4>1 DEF Queue
      <4> QED
        BY <2>1, <2>3, <4>1, <4>2
    <3> QED
      BY <1>6, <1>17, <2>3, <3>1, <3>2
  <2> QED
    BY <1>13, <2>2, <2>3
<1>18. QueuedIsOrder(c)
  BY <1>17 DEF QueuedIsOrder
<1>19. ASSUME NEW id \in DOMAIN c.orders,
              NEW t, t = c.orders[id].side, NEW y, y = c.orders[id].price
       PROVE  \E i \in DOMAIN Queue(c, t, y) : Queue(c, t, y)[i] = id
  <2>1. CASE id = x
    <3>1. t = s /\ y = p /\ Queue(c, t, y) = r
      BY <1>2, <1>8, <1>12, <1>19, <2>1 DEF Queue
    <3> QED
      BY <1>6, <2>1, <3>1
  <2>2. CASE id # x
    <3>1. id \in DOMAIN b.orders \ {x} /\ b.orders[id].side = t /\ b.orders[id].price = y
      BY <1>8, <1>12, <1>19, <2>2
    <3>2. t \in Sides
      BY <3>1 DEF GoodBut, Shape, Order
    <3>3. PICK j \in DOMAIN Queue(b, t, y) : Queue(b, t, y)[j] = id
      BY <1>1, <3>1 DEF GoodBut
    <3>4. y \in DOMAIN b.queues[t] /\ Queue(b, t, y) = b.queues[t][y]
      BY <3>3 DEF Queue
    <3>5. CASE t = s /\ y = p
      <4>1. Queue(c, t, y) = r /\ q = Queue(b, t, y)
        BY <1>3, <1>12, <3>5 DEF Queue
      <4> QED
        BY <1>6, <3>3, <4>1
    <3>6. CASE ~(t = s /\ y = p)
      <4>1. y \in DOMAIN c.queues[t] /\ c.queues[t][y] = b.queues[t][y]
        BY <1>12, <3>2, <3>4, <3>6
      <4> QED
        BY <3>3, <3>4, <4>1 DEF Queue
    <3> QED
      BY <3>5, <3>6
  <2> QED
    BY <2>1, <2>2
<1>20. OrderIsQueued(c)
  BY <1>19 DEF OrderIsQueued
<1> QED
  BY <1>11, <1>14, <1>15, <1>16, <1>18, <1>20 DEF Good

-----------------------------------------------------------------------------
(* Forgetting the record of an order that is queued nowhere.                 *)
LEMMA EraseKeeps ==
  ASSUME NEW b, Good(b), NEW x
  PROVE  Good(EraseOrder(b, x))
<1>1. PICK d : d = RemoveFromQueues(b, x)
  OBVIOUS
<1>2. GoodBut(d, x) /\ Shape(d)
  BY <1>1, RemoveKeeps DEF GoodBut
<1>3. PICK f : f = Restrict(d.orders, DOMAIN d.orders \ {x})
  OBVIOUS
<1>4. /\ DOMAIN f = DOMAIN d.orders \ {x}
      /\ \A id \in DOMAIN f : f[id] = d.orders[id]
  BY <1>3 DEF Restrict
<1>5. PICK c : c = [d EXCEPT !.orders = f]
  OBVIOUS
<1>6. DOMAIN c = {"orders", "queues"} /\ c.orders = f /\ c.queues = d.queues
  BY <1>2, <1>5 DEF Shape
<1>7. c = EraseOrder(b, x)
  BY <1>1, <1>3, <1>5 DEF EraseOrder
<1>8. Shape(c) /\ NoEmptyLevel(c) /\ QueuedOnce(c)
  BY <1>2, <1>4, <1>6 DEF Shape, GoodBut, NoEmptyLevel, QueuedOnce
<1>9. QueuedIsOrder(c)
  <2>1. SUFFICES ASSUME NEW s \in Sides, NEW p \in DOMAIN d.queues[s], NEW i \in DOMAIN d.queues[s][p]
                 PROVE  LET id == d.queues[s][p][i]
                        IN  id \in DOMAIN f /\ f[id].side = s /\ f[id].price = p
    BY <1>6 DEF QueuedIsOrder
  <2>2. PICK id : id = d.queues[s][p][i]
    OBVIOUS
  <2>3. id # x /\ id \in DOMAIN d.orders /\ d.orders[id].side = s /\ d.orders[id].price = p
    BY <1>2, <2>2 DEF GoodBut, QueuedIsOrder
  <2> QED
    BY <1>4, <2>2, <2>3
<1>10. OrderIsQueued(c)
  <2>1. \A s, p : Queue(c, s, p) = Queue(d, s, p)
    BY <1>6 DEF Queue
  <2>2. SUFFICES ASSUME NEW id \in DOMAIN f
                 PROVE  \E i \in DOMAIN Queue(c, f[id].side, f[id].price) :
                          Queue(c, f[id].side, f[id].price)[i] = id
    BY <1>6 DEF OrderIsQueued
  <2>3. id \in DOMAIN d.orders \ {x} /\ f[id] = d.orders[id]
    BY <1>4
  <2> QED
    BY <1>2, <2>1, <2>3 DEF GoodBut
<1> QED
  BY <1>7, <1>8, <1>9, <1>10 DEF Good

(* A new quantity moves nobody.                                              *)
LEMMA RequantifyKeeps ==
  ASSUME NEW b, Good(b), NEW x \in DOMAIN b.orders, NEW n \in Nat,
         NEW c, c = [b EXCEPT !.orders[x].qty = n]
  PROVE  Good(c)
<1>1. PICK o : o = [b.orders[x] EXCEPT !.qty = n]
  OBVIOUS
<1>2. o \in Order /\ o.side = b.orders[x].side /\ o.price = b.orders[x].price
  BY <1>1 DEF Good, Shape, Order
<1>3. PICK f : f = [b.orders EXCEPT ![x] = o]
  OBVIOUS
<1>4. /\ DOMAIN f = DOMAIN b.orders /\ f[x] = o
      /\ \A id \in DOMAIN b.orders : id # x => f[id] = b.orders[id]
  BY <1>3
<1>5. c = [b EXCEPT !.orders = f]
  BY <1>1, <1>3
<1>6. DOMAIN c = {"orders", "queues"} /\ c.orders = f /\ c.queues = b.queues
  BY <1>5 DEF Good, Shape
<1>7. \A id \in DOMAIN b.orders :
        f[id] \in Order /\ f[id].side = b.orders[id].side /\ f[id].price = b.orders[id].price
  BY <1>2, <1>4 DEF Good, Shape
<1>8. Shape(c) /\ NoEmptyLevel(c) /\ QueuedOnce(c)
  BY <1>4, <1>6, <1>7 DEF Good, Shape, NoEmptyLevel, QueuedOnce
<1>9. QueuedIsOrder(c)
  BY <1>4, <1>6, <1>7 DEF Good, QueuedIsOrder
<1>10. \A s, p : Queue(c, s, p) = Queue(b, s, p)
  BY <1>6 DEF Queue
<1>11. OrderIsQueued(c)
  <2>1. ASSUME NEW id \in DOMAIN c.orders
        PROVE  \E i \in DOMAIN Queue(c, c.orders[id].side, c.orders[id].price) :
                 Queue(c, c.orders[id].side, c.orders[id].price)[i] = id
    <3>1. PICK s, p : s = b.orders[id].side /\ p = b.orders[id].price
      OBVIOUS
    <3>2. id \in DOMAIN b.orders /\ c.orders[id].side = s /\ c.orders[id].price = p
      BY <1>4, <1>6, <1>7, <2>1, <3>1
    <3>3. \E i \in DOMAIN Queue(b, s, p) : Queue(b, s, p)[i] = id
      BY <3>1, <3>2 DEF Good, OrderIsQueued
    <3> QED
      BY <1>10, <3>2, <3>3
  <2> QED
    BY <2>1, Zenon DEF OrderIsQueued
<1> QED
  BY <1>8, <1>9, <1>11 DEF Good

-----------------------------------------------------------------------------
(* The order of priority.                                                    *)
LEMMA RemovedBefore ==
  ASSUME NEW q \in Seq(Ids), IsInjective(q), NEW i \in 1 .. Len(q), NEW x, NEW y
  PROVE  Before(RemoveAt(q, i), x, y) <=> x # q[i] /\ y # q[i] /\ Before(q, x, y)
<1>1. PICK rest : rest = RemoveAt(q, i)
  OBVIOUS
<1>2. /\ rest \in Seq(Ids) /\ Len(rest) = Len(q) - 1 /\ Len(q) \in Nat /\ i \in Nat
      /\ \A j \in 1 .. (Len(q) - 1) : rest[j] = IF j < i THEN q[j] ELSE q[j + 1]
  BY <1>1, RemoveAtFacts
<1>3. DOMAIN rest = 1 .. (Len(q) - 1) /\ DOMAIN q = 1 .. Len(q)
  BY <1>2
<1>4. \A k, l \in 1 .. Len(q) : q[k] = q[l] => k = l
  BY DEF IsInjective
<1>5. ASSUME Before(rest, x, y) PROVE x # q[i] /\ y # q[i] /\ Before(q, x, y)
  <2>1. PICK j \in DOMAIN rest, k \in DOMAIN rest : j <= k /\ rest[j] = x /\ rest[k] = y
    BY <1>5 DEF Before
  <2>2. PICK m : m = IF j < i THEN j ELSE j + 1
    OBVIOUS
  <2>3. PICK n : n = IF k < i THEN k ELSE k + 1
    OBVIOUS
  <2>4. m \in 1 .. Len(q) /\ m # i /\ q[m] = x
    BY <1>2, <1>3, <2>1, <2>2
  <2>5. n \in 1 .. Len(q) /\ n # i /\ q[n] = y
    BY <1>2, <1>3, <2>1, <2>3
  <2>6. m <= n
    BY <1>2, <1>3, <2>1, <2>2, <2>3
  <2> QED
    BY <1>3, <1>4, <2>4, <2>5, <2>6 DEF Before
<1>6. ASSUME x # q[i], y # q[i], Before(q, x, y) PROVE Before(rest, x, y)
  <2>1. PICK j \in DOMAIN q, k \in DOMAIN q : j <= k /\ q[j] = x /\ q[k] = y
    BY <1>6 DEF Before
  <2>2. j # i /\ k # i
    BY <1>6, <2>1
  <2>3. PICK m : m = IF j < i THEN j ELSE j - 1
    OBVIOUS
  <2>4. PICK n : n = IF k < i THEN k ELSE k - 1
    OBVIOUS
  <2>5. m \in 1 .. (Len(q) - 1) /\ rest[m] = x
    BY <1>2, <1>3, <2>1, <2>2, <2>3
  <2>6. n \in 1 .. (Len(q) - 1) /\ rest[n] = y
    BY <1>2, <1>3, <2>1, <2>2, <2>4
  <2>7. m <= n
    BY <1>2, <1>3, <2>1, <2>2, <2>3, <2>4
  <2> QED
    BY <1>3, <2>5, <2>6, <2>7 DEF Before
<1> QED
  BY <1>1, <1>5, <1>6

LEMMA AppendedBefore ==
  ASSUME NEW q \in Seq(Ids), NEW id \in Ids, NEW x, NEW y
  PROVE  /\ Before(q, x, y) => Before(Append(q, id), x, y)
         /\ Before(Append(q, id), x, y) =>
              \/ Before(q, x, y)
              \/ y = id /\ (x = id \/ Before(q, x, x))
         /\ Before(q, x, x) => Before(Append(q, id), x, id)
         /\ Before(Append(q, id), id, id)
<1>1. PICK r : r = Append(q, id)
  OBVIOUS
<1>2. PICK n : n = Len(q)
  OBVIOUS
<1>3. /\ n \in Nat /\ DOMAIN q = 1 .. n /\ DOMAIN r = 1 .. (n + 1) /\ r[n + 1] = id
      /\ \A i \in 1 .. n : r[i] = q[i]
  BY <1>1, <1>2
<1>4. Before(q, x, y) => Before(r, x, y)
  BY <1>3 DEF Before
<1>5. ASSUME Before(r, x, y) PROVE Before(q, x, y) \/ (y = id /\ (x = id \/ Before(q, x, x)))
  <2>1. PICK i \in 1 .. (n + 1), j \in 1 .. (n + 1) : i <= j /\ r[i] = x /\ r[j] = y
    BY <1>3, <1>5 DEF Before
  <2>2. CASE j # n + 1
    BY <1>3, <2>1, <2>2 DEF Before
  <2>3. CASE j = n + 1 /\ i = n + 1
    BY <1>3, <2>1, <2>3
  <2>4. CASE j = n + 1 /\ i # n + 1
    <3>1. i \in 1 .. n /\ i <= i /\ q[i] = x
      BY <1>3, <2>1, <2>4
    <3> QED
      BY <1>3, <2>1, <2>4, <3>1 DEF Before
  <2> QED
    BY <2>2, <2>3, <2>4
<1>6. ASSUME Before(q, x, x) PROVE Before(r, x, id)
  <2>1. PICK i \in 1 .. n : q[i] = x
    BY <1>3, <1>6 DEF Before
  <2>2. i \in 1 .. (n + 1) /\ n + 1 \in 1 .. (n + 1) /\ i <= n + 1
    BY <1>3
  <2> QED
    BY <1>3, <2>1, <2>2 DEF Before
<1>7. Before(r, id, id)
  <2>1. n + 1 \in 1 .. (n + 1) /\ n + 1 <= n + 1
    BY <1>3
  <2> QED
    BY <1>3, <2>1 DEF Before
<1> QED
  BY <1>1, <1>4, <1>5, <1>6, <1>7

(* What the code's helpers do to each queue and to the orders.               *)
LEMMA RemoveQueues ==
  ASSUME NEW b, Good(b), NEW x, NEW s \in Sides, NEW p
  PROVE  LET c == RemoveFromQueues(b, x)
             q == Queue(b, s, p)
         IN  /\ c.orders = b.orders
             /\ q \in Seq(Ids) /\ IsInjective(q)
             /\ \/ Queue(c, s, p) = q /\ \A i \in DOMAIN q : q[i] # x
                \/ \E i \in 1 .. Len(q) : q[i] = x /\ Queue(c, s, p) = RemoveAt(q, i)
<1>1. PICK c, q : c = RemoveFromQueues(b, x) /\ q = Queue(b, s, p)
  OBVIOUS
<1>2. GoodBut(c, x) /\ c.orders = b.orders
  BY <1>1, RemoveKeeps
<1>3. q \in Seq(Ids) /\ IsInjective(q)
  <2>1. CASE p \in DOMAIN b.queues[s]
    <3>1. q = b.queues[s][p]
      BY <1>1, <2>1 DEF Queue
    <3> QED
      BY <2>1, <3>1 DEF Good, Shape, QueuedOnce
  <2>2. CASE p \notin DOMAIN b.queues[s]
    BY <1>1, <2>2 DEF Queue, IsInjective
  <2> QED
    BY <2>1, <2>2
<1>4. ASSUME NEW i \in DOMAIN q
      PROVE  /\ p \in DOMAIN b.queues[s] /\ q = b.queues[s][p]
             /\ q[i] \in DOMAIN b.orders /\ b.orders[q[i]].side = s /\ b.orders[q[i]].price = p
  <2>1. p \in DOMAIN b.queues[s] /\ q = b.queues[s][p]
    BY <1>1, <1>4 DEF Queue
  <2> QED
    BY <1>4, <2>1 DEF Good, QueuedIsOrder
<1>5. CASE x \notin DOMAIN b.orders
  <2>1. c = b
    BY <1>1, <1>5 DEF RemoveFromQueues
  <2> QED
    BY <1>1, <1>2, <1>3, <1>4, <1>5, <2>1
<1>6. CASE x \in DOMAIN b.orders
  <2>1. PICK t, r : t = b.orders[x].side /\ r = b.orders[x].price
    OBVIOUS
  <2>2. t \in Sides /\ \E i \in DOMAIN Queue(b, t, r) : Queue(b, t, r)[i] = x
    BY <1>6, <2>1 DEF Good, Shape, Order, OrderIsQueued
  <2>3. r \in DOMAIN b.queues[t] /\ Shape(b)
    BY <2>2 DEF Queue, Good
  <2>4. PICK rest : rest = RemoveAt(Queue(b, t, r), QueuePos(Queue(b, t, r), x))
    OBVIOUS
  <2>5. c = IF rest # <<>> THEN WithQueue(b, t, r, rest) ELSE DropLevel(b, t, r)
    BY <1>1, <1>6, <2>1, <2>3, <2>4 DEF RemoveFromQueues
  <2>6. CASE t = s /\ r = p
    <3>1. Queue(c, s, p) = rest
      <4>1. CASE rest # <<>>
        BY <2>2, <2>3, <2>5, <2>6, <4>1, QueueChanged DEF Queue
      <4>2. CASE rest = <<>>
        BY <2>2, <2>3, <2>5, <2>6, <4>2, LevelDropped DEF Queue
      <4> QED
        BY <4>1, <4>2
    <3>2. PICK i : i = QueuePos(q, x)
      OBVIOUS
    <3>3. i \in DOMAIN q /\ q[i] = x
      BY <1>1, <2>2, <2>6, <3>2 DEF QueuePos
    <3>4. i \in 1 .. Len(q)
      BY <1>3, <3>3
    <3> QED
      BY <1>1, <1>2, <1>3, <2>4, <2>6, <3>1, <3>2, <3>3, <3>4
  <2>7. CASE ~ (t = s /\ r = p)
    <3>1. Queue(c, s, p) = q
      <4>1. CASE rest # <<>>
        BY <1>1, <2>2, <2>3, <2>5, <2>7, <4>1, QueueChanged DEF Queue
      <4>2. CASE rest = <<>>
        BY <1>1, <2>2, <2>3, <2>5, <2>7, <4>2, LevelDropped DEF Queue
      <4> QED
        BY <4>1, <4>2
    <3>2. \A i \in DOMAIN q : q[i] # x
      BY <1>4, <2>1, <2>7
    <3> QED
      BY <1>1, <1>2, <1>3, <3>1, <3>2
  <2> QED
    BY <2>6, <2>7
<1> QED
  BY <1>5, <1>6

LEMMA PushQueues ==
  ASSUME NEW b, Shape(b), NEW u, u.side \in Sides
  PROVE  LET c == PushBack(b, u)
         IN  /\ c.orders = Put(b.orders, u.id, [side |-> u.side, price |-> u.p, qty |-> u.q])
             /\ \A s \in Sides : \A p :
                  Queue(c, s, p) = IF s = u.side /\ p = u.p THEN Append(Queue(b, s, p), u.id)
                                   ELSE Queue(b, s, p)
<1>1. PICK f : f = Put(b.orders, u.id, [side |-> u.side, price |-> u.p, qty |-> u.q])
  OBVIOUS
<1>2. PICK d : d = [b EXCEPT !.orders = f]
  OBVIOUS
<1>3. DOMAIN d = {"orders", "queues"} /\ d.orders = f /\ d.queues = b.queues
  BY <1>2, OrdersChanged
<1>4. PICK r : r = Append(Queue(b, u.side, u.p), u.id)
  OBVIOUS
<1>5. PICK c : c = WithQueue(d, u.side, u.p, r)
  OBVIOUS
<1>6. c = PushBack(b, u)
  BY <1>1, <1>2, <1>4, <1>5 DEF PushBack, WithOrder
<1>7. PICK g : g = Put(d.queues[u.side], u.p, r)
  OBVIOUS
<1>8. c = [d EXCEPT !.queues = [d.queues EXCEPT ![u.side] = g]]
  BY <1>5, <1>7 DEF WithQueue
<1>9. c.orders = f /\ c.queues = [b.queues EXCEPT ![u.side] = g] /\ DOMAIN b.queues = Sides
  BY <1>3, <1>8 DEF Shape
<1>10. /\ DOMAIN g = DOMAIN b.queues[u.side] \cup {u.p} /\ g[u.p] = r
       /\ \A p \in DOMAIN b.queues[u.side] \ {u.p} : g[p] = b.queues[u.side][p]
  BY <1>3, <1>7 DEF Put
<1>11. ASSUME NEW s \in Sides, NEW p
       PROVE  Queue(c, s, p) = IF s = u.side /\ p = u.p THEN r ELSE Queue(b, s, p)
  BY <1>9, <1>10 DEF Queue
<1> QED
  BY <1>1, <1>4, <1>6, <1>9, <1>11

(* ... and to the order of priority.                                         *)
LEMMA RemovePriorities ==
  ASSUME NEW b, Good(b), NEW id, NEW s \in Sides, NEW p, NEW x, NEW y
  PROVE  Before(Queue(RemoveFromQueues(b, id), s, p), x, y)
           <=> x # id /\ y # id /\ Before(Queue(b, s, p), x, y)
<1>1. PICK q, r : q = Queue(b, s, p) /\ r = Queue(RemoveFromQueues(b, id), s, p)
  OBVIOUS
<1>2. /\ q \in Seq(Ids) /\ IsInjective(q)
      /\ \/ r = q /\ \A i \in DOMAIN q : q[i] # id
         \/ \E i \in 1 .. Len(q) : q[i] = id /\ r = RemoveAt(q, i)
  BY <1>1, RemoveQueues
<1>3. CASE r = q /\ \A i \in DOMAIN q : q[i] # id
  BY <1>1, <1>3 DEF Before
<1>4. ASSUME NEW i \in 1 .. Len(q), q[i] = id, r = RemoveAt(q, i)
      PROVE  Before(r, x, y) <=> x # id /\ y # id /\ Before(q, x, y)
  BY <1>2, <1>4, RemovedBefore
<1> QED
  BY <1>1, <1>2, <1>3, <1>4

LEMMA PushPriorities ==
  ASSUME NEW b, Shape(b), NEW u \in AnyUpdates, u.side \in Sides,
         NEW s \in Sides, NEW p, NEW x, NEW y
  PROVE  /\ Before(Queue(b, s, p), x, y) => Before(Queue(PushBack(b, u), s, p), x, y)
         /\ Before(Queue(PushBack(b, u), s, p), x, y) =>
              \/ Before(Queue(b, s, p), x, y)
              \/ y = u.id /\ (x = u.id \/ Before(Queue(b, s, p), x, x))
<1>1. PICK q, r : q = Queue(b, s, p) /\ r = Queue(PushBack(b, u), s, p)
  OBVIOUS
<1>2. q \in Seq(Ids) /\ u.id \in Ids
  <2>1. q \in Seq(Ids)
    BY <1>1 DEF Queue, Shape
  <2> QED
    BY <2>1 DEF AnyUpdates
<1>5. r = IF s = u.side /\ p = u.p THEN Append(q, u.id) ELSE q
  <2>1. \A t \in Sides : \A z :
          Queue(PushBack(b, u), t, z) = IF t = u.side /\ z = u.p THEN Append(Queue(b, t, z), u.id)
                                        ELSE Queue(b, t, z)
    BY PushQueues
  <2> QED
    BY <1>1, <2>1
<1>3. CASE s = u.side /\ p = u.p
  <2>1. r = Append(q, u.id)
    BY <1>3, <1>5
  <2>2. /\ Before(q, x, y) => Before(r, x, y)
        /\ Before(r, x, y) => Before(q, x, y) \/ (y = u.id /\ (x = u.id \/ Before(q, x, x)))
    BY <1>2, <2>1, AppendedBefore
  <2> QED
    BY <1>1, <2>2
<1>4. CASE ~ (s = u.side /\ p = u.p)
  <2>1. r = q
    BY <1>4, <1>5
  <2> QED
    BY <1>1, <2>1
<1> QED
  BY <1>3, <1>4

(* An order that leaves its queue, if it has one, and joins one at the back. *)
Requeued(b, c, id) ==
  \A s \in Sides : \A p, x, y :
    /\ x # id /\ y # id /\ Before(Queue(b, s, p), x, y) => Before(Queue(c, s, p), x, y)
    /\ Before(Queue(c, s, p), x, y) =>
         \/ x # id /\ y # id /\ Before(Queue(b, s, p), x, y)
         \/ y = id /\ (x = id \/ Before(Queue(b, s, p), x, x))

LEMMA RequeuePriorities ==
  ASSUME NEW b, Good(b), NEW u \in AnyUpdates, u.side \in Sides,
         NEW c, c = PushBack(RemoveFromQueues(b, u.id), u)
  PROVE  /\ c.orders = Put(b.orders, u.id, [side |-> u.side, price |-> u.p, qty |-> u.q])
         /\ Requeued(b, c, u.id)
<1>1. PICK d : d = RemoveFromQueues(b, u.id)
  OBVIOUS
<1>2. Shape(d) /\ d.orders = b.orders
  BY <1>1, RemoveKeeps DEF GoodBut
<1>3. c.orders = Put(b.orders, u.id, [side |-> u.side, price |-> u.p, qty |-> u.q])
  BY <1>1, <1>2, PushQueues
<1>4. ASSUME NEW s \in Sides, NEW p, NEW x, NEW y
      PROVE  /\ x # u.id /\ y # u.id /\ Before(Queue(b, s, p), x, y) => Before(Queue(c, s, p), x, y)
             /\ Before(Queue(c, s, p), x, y) =>
                  \/ x # u.id /\ y # u.id /\ Before(Queue(b, s, p), x, y)
                  \/ y = u.id /\ (x = u.id \/ Before(Queue(b, s, p), x, x))
  <2>1. /\ Before(Queue(d, s, p), x, y) => Before(Queue(c, s, p), x, y)
        /\ Before(Queue(c, s, p), x, y) =>
             \/ Before(Queue(d, s, p), x, y)
             \/ y = u.id /\ (x = u.id \/ Before(Queue(d, s, p), x, x))
    BY <1>1, <1>2, PushPriorities
  <2>2. /\ Before(Queue(d, s, p), x, y) <=> x # u.id /\ y # u.id /\ Before(Queue(b, s, p), x, y)
        /\ Before(Queue(d, s, p), x, x) <=> x # u.id /\ x # u.id /\ Before(Queue(b, s, p), x, x)
    BY <1>1, RemovePriorities
  <2> QED
    BY <2>1, <2>2
<1> QED
  BY <1>3, <1>4 DEF Requeued

LEMMA ErasePriorities ==
  ASSUME NEW b, Good(b), NEW id
  PROVE  LET c == EraseOrder(b, id)
         IN  /\ c.orders = Restrict(b.orders, DOMAIN b.orders \ {id})
             /\ \A s \in Sides : \A p, x, y :
                  Before(Queue(c, s, p), x, y) <=> x # id /\ y # id /\ Before(Queue(b, s, p), x, y)
<1>1. PICK d : d = RemoveFromQueues(b, id)
  OBVIOUS
<1>2. Shape(d) /\ d.orders = b.orders
  BY <1>1, RemoveKeeps DEF GoodBut
<1>3. PICK c : c = EraseOrder(b, id)
  OBVIOUS
<1>4. c = [d EXCEPT !.orders = Restrict(d.orders, DOMAIN d.orders \ {id})]
  BY <1>1, <1>3 DEF EraseOrder
<1>5. c.orders = Restrict(b.orders, DOMAIN b.orders \ {id}) /\ c.queues = d.queues
  BY <1>2, <1>4, OrdersChanged
<1>6. \A s, p : Queue(c, s, p) = Queue(d, s, p)
  BY <1>5 DEF Queue
<1> QED
  BY <1>1, <1>3, <1>5, <1>6, RemovePriorities

Requantified(b, c, id, n) ==
  /\ c.orders = [b.orders EXCEPT ![id].qty = n]
  /\ \A s, p : Queue(c, s, p) = Queue(b, s, p)

LEMMA RequantifyPriorities ==
  ASSUME NEW b, Good(b), NEW id \in DOMAIN b.orders, NEW n,
         NEW c, c = [b EXCEPT !.orders[id].qty = n]
  PROVE  Requantified(b, c, id, n)
<1>1. PICK f : f = [b.orders EXCEPT ![id].qty = n]
  OBVIOUS
<1>2. c = [b EXCEPT !.orders = f]
  BY <1>1
<1>3. c.orders = f /\ c.queues = b.queues
  BY <1>2, OrdersChanged DEF Good
<1> QED
  BY <1>1, <1>3 DEF Queue, Requantified

(* An update of one order disturbs no other.                                 *)
Undisturbed(b, c, id) ==
  /\ Restrict(c.orders, DOMAIN c.orders \ {id}) = Restrict(b.orders, DOMAIN b.orders \ {id})
  /\ \A s \in Sides : \A p, x, y :
       x # id /\ y # id => (Before(Queue(c, s, p), x, y) <=> Before(Queue(b, s, p), x, y))

LEMMA PutUndisturbed ==
  ASSUME NEW f, NEW id, NEW o
  PROVE  Restrict(Put(f, id, o), DOMAIN Put(f, id, o) \ {id}) = Restrict(f, DOMAIN f \ {id})
<1>1. PICK g : g = Put(f, id, o)
  OBVIOUS
<1>2. DOMAIN g \ {id} = DOMAIN f \ {id} /\ \A x \in DOMAIN f \ {id} : g[x] = f[x]
  BY <1>1 DEF Put
<1> QED
  BY <1>1, <1>2 DEF Restrict

LEMMA ApplyUndisturbed ==
  ASSUME NEW b, Good(b), NEW u \in AnyUpdates, u.side # "None"
  PROVE  Undisturbed(b, Apply(b, u), u.id)
<1>0. u.id \in Ids /\ u.side \in Sides /\ u.q \in Nat /\ u.type \in ExecTypes
  BY DEF AnyUpdates
<1>1. PICK c : c = Apply(b, u)
  OBVIOUS
<1>2. CASE c = b
  BY <1>1, <1>2 DEF Undisturbed
<1>3. CASE c = PushBack(RemoveFromQueues(b, u.id), u)
  <2>1. c.orders = Put(b.orders, u.id, [side |-> u.side, price |-> u.p, qty |-> u.q])
    BY <1>0, <1>3, RequeuePriorities
  <2>2. Requeued(b, c, u.id)
    BY <1>0, <1>3, RequeuePriorities
  <2>3. Restrict(c.orders, DOMAIN c.orders \ {u.id}) = Restrict(b.orders, DOMAIN b.orders \ {u.id})
    BY <2>1, PutUndisturbed
  <2> QED
    BY <1>1, <2>2, <2>3 DEF Undisturbed, Requeued
<1>4. CASE c = EraseOrder(b, u.id)
  <2>1. c.orders = Restrict(b.orders, DOMAIN b.orders \ {u.id})
    BY <1>4, ErasePriorities
  <2>2. Restrict(c.orders, DOMAIN c.orders \ {u.id}) = Restrict(b.orders, DOMAIN b.orders \ {u.id})
    <3>1. DOMAIN c.orders = DOMAIN b.orders \ {u.id}
          /\ \A x \in DOMAIN c.orders : c.orders[x] = b.orders[x]
      BY <2>1 DEF Restrict
    <3> QED
      BY <3>1 DEF Restrict
  <2> QED
    <3>1. \A s \in Sides : \A p, x, y :
            Before(Queue(c, s, p), x, y) <=> x # u.id /\ y # u.id /\ Before(Queue(b, s, p), x, y)
      BY <1>4, ErasePriorities
    <3> QED
      BY <1>1, <2>2, <3>1 DEF Undisturbed
<1>5. ASSUME NEW n, u.id \in DOMAIN b.orders, c = [b EXCEPT !.orders[u.id].qty = n]
      PROVE  Undisturbed(b, c, u.id)
  <2>1. c.orders = [b.orders EXCEPT ![u.id].qty = n] /\ \A s, p : Queue(c, s, p) = Queue(b, s, p)
    <3>1. Requantified(b, c, u.id, n)
      BY <1>5, RequantifyPriorities
    <3> QED
      BY <3>1 DEF Requantified
  <2>2. Restrict(c.orders, DOMAIN c.orders \ {u.id}) = Restrict(b.orders, DOMAIN b.orders \ {u.id})
    BY <2>1 DEF Restrict
  <2> QED
    BY <2>1, <2>2 DEF Undisturbed
<1>6. CASE u.type = "New"
  BY <1>0, <1>1, <1>3, <1>6 DEF Apply, OnNew
<1>7. CASE u.type \in {"Fill", "Cancelled"}
  BY <1>0, <1>1, <1>4, <1>7 DEF Apply, OnFillOrCancel
<1>8. CASE u.type = "PartialFill"
  <2>1. c = OnPartialFill(b, u)
    BY <1>0, <1>1, <1>8 DEF Apply
  <2>2. CASE u.id \in DOMAIN b.orders /\ b.orders[u.id].qty > u.q
    <3>1. c = [b EXCEPT !.orders[u.id].qty = b.orders[u.id].qty - u.q]
      BY <2>1, <2>2 DEF OnPartialFill
    <3> QED
      BY <1>1, <1>5, <2>2, <3>1
  <2>3. CASE ~ (u.id \in DOMAIN b.orders /\ b.orders[u.id].qty > u.q)
    BY <1>1, <1>2, <1>4, <2>1, <2>3 DEF OnPartialFill
  <2> QED
    BY <2>2, <2>3
<1>9. CASE u.type = "Replaced"
  <2>1. c = OnReplaced(b, u)
    BY <1>0, <1>1, <1>9 DEF Apply
  <2> QED
    BY <1>1, <1>3, <1>5, <2>1 DEF OnReplaced
<1>10. CASE u.type \in {"OrderStatus", "Complete"}
  BY <1>0, <1>1, <1>2, <1>10 DEF Apply
<1> QED
  BY <1>0, <1>6, <1>7, <1>8, <1>9, <1>10 DEF ExecTypes

-----------------------------------------------------------------------------
LEMMA EmptyGood == Good(EmptyBook)
<1>1. /\ DOMAIN EmptyBook = {"orders", "queues"} /\ EmptyBook.orders = <<>>
      /\ DOMAIN EmptyBook.queues = Sides /\ \A s \in Sides : EmptyBook.queues[s] = <<>>
  BY DEF EmptyBook, NoQueues
<1>2. DOMAIN EmptyBook.orders = {} /\ \A s \in Sides : DOMAIN EmptyBook.queues[s] = {}
  BY <1>1
<1>3. Shape(EmptyBook)
  BY <1>1, <1>2 DEF Shape
<1>4. NoEmptyLevel(EmptyBook) /\ QueuedOnce(EmptyBook)
  BY <1>2 DEF NoEmptyLevel, QueuedOnce
<1>5. QueuedIsOrder(EmptyBook) /\ OrderIsQueued(EmptyBook)
  BY <1>2 DEF QueuedIsOrder, OrderIsQueued
<1> QED
  BY <1>3, <1>4, <1>5 DEF Good

LEMMA ApplyKeeps ==
  ASSUME NEW b, Good(b), NEW u \in AnyUpdates
  PROVE  Good(Apply(b, u))
<1>0. u.id \in Ids /\ u.side \in Sides \cup {"None"} /\ u.q \in Nat /\ u.type \in ExecTypes
  BY DEF AnyUpdates
<1>1. CASE u.side = "None"
  BY <1>1, EmptyGood DEF Apply
<1>2. CASE u.side # "None" /\ u.type = "New"
  <2>1. Apply(b, u) = PushBack(RemoveFromQueues(b, u.id), u)
    BY <1>2 DEF Apply, OnNew
  <2> QED
    BY <1>0, <1>2, <2>1, RemoveKeeps, PushBackKeeps
<1>3. CASE u.side # "None" /\ u.type \in {"Fill", "Cancelled"}
  <2>1. Apply(b, u) = EraseOrder(b, u.id)
    BY <1>3 DEF Apply, OnFillOrCancel
  <2> QED
    BY <2>1, EraseKeeps
<1>4. CASE u.side # "None" /\ u.type = "PartialFill"
  <2>1. Apply(b, u) = OnPartialFill(b, u)
    BY <1>4 DEF Apply
  <2>2. CASE u.id \in DOMAIN b.orders /\ b.orders[u.id].qty > u.q
    <3>1. PICK n : n = b.orders[u.id].qty - u.q
      OBVIOUS
    <3>2. n \in Nat
      BY <1>0, <2>2, <3>1 DEF Good, Shape, Order
    <3>3. OnPartialFill(b, u) = [b EXCEPT !.orders[u.id].qty = n]
      BY <2>2, <3>1 DEF OnPartialFill
    <3> QED
      BY <2>1, <2>2, <3>2, <3>3, RequantifyKeeps
  <2>3. CASE u.id \in DOMAIN b.orders /\ ~(b.orders[u.id].qty > u.q)
    BY <2>1, <2>3, EraseKeeps DEF OnPartialFill
  <2>4. CASE u.id \notin DOMAIN b.orders
    BY <2>1, <2>4 DEF OnPartialFill
  <2> QED
    BY <2>2, <2>3, <2>4
<1>5. CASE u.side # "None" /\ u.type = "Replaced"
  <2>1. Apply(b, u) = OnReplaced(b, u)
    BY <1>5 DEF Apply
  <2>2. CASE OnReplaced(b, u) = PushBack(RemoveFromQueues(b, u.id), u)
    BY <1>0, <1>5, <2>1, <2>2, RemoveKeeps, PushBackKeeps
  <2>3. CASE u.id \in DOMAIN b.orders /\ OnReplaced(b, u) = [b EXCEPT !.orders[u.id].qty = u.q]
    BY <1>0, <2>1, <2>3, RequantifyKeeps
  <2> QED
    BY <2>2, <2>3 DEF OnReplaced
<1>6. CASE u.side # "None" /\ u.type \in {"OrderStatus", "Complete"}
  BY <1>6 DEF Apply
<1> QED
  BY <1>0, <1>1, <1>2, <1>3, <1>4, <1>5, <1>6 DEF ExecTypes

-----------------------------------------------------------------------------
LEMMA Inductive == Spec => []Good(book)
<1>1. Init => Good(book)
  BY EmptyGood DEF Init
<1>2. Good(book) /\ [Next]_book => Good(book)'
  <2> SUFFICES ASSUME Good(book), [Next]_book PROVE Good(book')
    BY DEF Good, Shape, NoEmptyLevel, QueuedOnce, QueuedIsOrder, OrderIsQueued, Queue
  <2>1. CASE \E u \in Updates : Update(u)
    BY <2>1, UpdatesAny, ApplyKeeps DEF Update
  <2>2. CASE Clear
    BY <2>2, EmptyGood DEF Clear
  <2>3. CASE UNCHANGED book
    BY <2>3
  <2> QED
    BY <2>1, <2>2, <2>3 DEF Next
<1> QED
  BY <1>1, <1>2, PTL DEF Spec

(* The map and the queues keep their types under any stream of updates.      *)
THEOREM TypeCorrect == Spec => []TypeOK
<1>1. Good(book) => TypeOK
  BY DEF Good, Shape, TypeOK
<1> QED
  BY Inductive, <1>1, PTL

(* The map and the queues hold the same orders under any stream of updates.  *)
THEOREM BookConsistent == Spec => []Consistent
<1>1. Good(book) => Consistent
  BY DEF Good, Consistent
<1> QED
  BY Inductive, <1>1, PTL

LEMMA UpdateUndisturbed ==
  ASSUME NEW b, Good(b), NEW u \in AnyUpdates, u.side # "None"
  PROVE  OnlyThisOrder(u.id, b, Apply(b, u))
<1>1. Undisturbed(b, Apply(b, u), u.id)
  BY ApplyUndisturbed
<1> QED
  BY <1>1 DEF Undisturbed, OnlyThisOrder

(* In every book that updates lead to, an update leaves all orders but the   *)
(* one it names, and their priorities, alone.                                *)
THEOREM UpdatesDisturbNobody == Spec => []OthersUndisturbed
<1>1. Good(book) => OthersUndisturbed
  BY UpdatesAny, UpdateUndisturbed DEF OthersUndisturbed
<1> QED
  BY <1>1, Inductive, PTL

-----------------------------------------------------------------------------
(* The exchange of MarketFeed, and a book that mirrors it.                   *)
SnapshotStarts == L3Msg("New", AnyId, "None", AnyPrice, 0)
L3Messages     == AnyUpdates \cup {SnapshotStarts}

ExchangeOK ==
  /\ DOMAIN orders \subseteq Ids /\ orders \in [DOMAIN orders -> Order]
  /\ arrival \in Seq(Ids) /\ IsInjective(arrival)
  /\ \A id : id \in DOMAIN orders <=> Before(arrival, id, id)

Mirrors(b, os, line) ==
  /\ Good(b) /\ b.orders = os
  /\ \A s \in Sides : \A p, x, y : Before(Queue(b, s, p), x, y) => Before(line, x, y)

(* An event of the exchange, with its L3 message.                            *)
Published(msg) ==
  /\ msg \in AnyUpdates /\ msg.side \in Sides
  /\ UNCHANGED <<book, l3sub>>
  /\ l3sub => l3stream' = Append(l3stream, msg)
  /\ ~l3sub => l3stream' = l3stream
  /\ \A b : Mirrors(b, orders, arrival) => Mirrors(Apply(b, msg), orders', arrival')

LEMMA PublishIs ==
  ASSUME NEW os, NEW msg, NEW levels, Publish(os, msg, levels)
  PROVE  /\ orders' = os /\ UNCHANGED <<book, l3sub>>
         /\ l3sub => l3stream' = Append(l3stream, msg)
         /\ ~l3sub => l3stream' = l3stream
  BY DEF Publish

LEMMA L3MsgIs ==
  ASSUME NEW type \in ExecTypes, NEW id \in Ids, NEW s \in Sides, NEW p \in Prices, NEW q \in Nat,
         NEW msg, msg = L3Msg(type, id, s, p, q)
  PROVE  /\ msg \in AnyUpdates /\ msg.side \in Sides /\ msg.side # "None"
         /\ msg.type = type /\ msg.id = id /\ msg.side = s /\ msg.p = p /\ msg.q = q
  BY DEF L3Msg, AnyUpdates, Sides

LEMMA AppendedOnce ==
  ASSUME NEW q \in Seq(Ids), IsInjective(q), NEW id \in Ids, ~ Before(q, id, id)
  PROVE  Append(q, id) \in Seq(Ids) /\ IsInjective(Append(q, id))
<1>1. PICK r, n : r = Append(q, id) /\ n = Len(q)
  OBVIOUS
<1>2. /\ n \in Nat /\ DOMAIN q = 1 .. n /\ DOMAIN r = 1 .. (n + 1) /\ r[n + 1] = id
      /\ r \in Seq(Ids) /\ \A i \in 1 .. n : r[i] = q[i]
  BY <1>1
<1>3. \A i \in 1 .. n : q[i] # id
  BY <1>2 DEF Before
<1>4. \A i, j \in 1 .. n : q[i] = q[j] => i = j
  BY <1>2 DEF IsInjective
<1>5. IsInjective(r)
  <2>1. ASSUME NEW i \in 1 .. (n + 1), NEW j \in 1 .. (n + 1), r[i] = r[j] PROVE i = j
    <3>1. (i \in 1 .. n \/ i = n + 1) /\ (j \in 1 .. n \/ j = n + 1)
      BY <1>2
    <3> QED
      BY <1>2, <1>3, <1>4, <2>1, <3>1
  <2> QED
    BY <1>2, <2>1 DEF IsInjective
<1>6. r \in Seq(Ids) /\ IsInjective(r)
  BY <1>2, <1>5
<1> QED
  BY <1>1, <1>6, Zenon

LEMMA OutOfLineIs ==
  ASSUME ExchangeOK, NEW id \in DOMAIN orders
  PROVE  /\ OutOfLine(id) \in Seq(Ids) /\ IsInjective(OutOfLine(id))
         /\ \A x, y : Before(OutOfLine(id), x, y) <=> x # id /\ y # id /\ Before(arrival, x, y)
<1>1. PICK i : i = QueuePos(arrival, id)
  OBVIOUS
<1>2. i \in DOMAIN arrival /\ arrival[i] = id
  BY <1>1 DEF ExchangeOK, QueuePos, Before
<1>3. i \in 1 .. Len(arrival) /\ arrival \in Seq(Ids) /\ IsInjective(arrival)
  BY <1>2 DEF ExchangeOK
<1>4. OutOfLine(id) = RemoveAt(arrival, i)
  BY <1>1 DEF OutOfLine
<1>5. \A x, y : Before(OutOfLine(id), x, y) <=> x # id /\ y # id /\ Before(arrival, x, y)
  BY <1>2, <1>3, <1>4, RemovedBefore
<1> QED
  BY <1>3, <1>4, <1>5, EraseNode

LEMMA RequeueMirrors ==
  ASSUME NEW b, Good(b), NEW u \in AnyUpdates, u.side \in Sides,
         NEW c, c = PushBack(RemoveFromQueues(b, u.id), u), NEW line \in Seq(Ids),
         \A s \in Sides : \A p, x, y :
           x # u.id /\ y # u.id /\ Before(Queue(b, s, p), x, y) => Before(line, x, y)
  PROVE  \A s \in Sides : \A p, x, y :
           Before(Queue(c, s, p), x, y) => Before(Append(line, u.id), x, y)
<1>1. u.id \in Ids
  BY DEF AnyUpdates
<1>2. Requeued(b, c, u.id)
  BY RequeuePriorities
<1>3. ASSUME NEW s \in Sides, NEW p, NEW x, NEW y, Before(Queue(c, s, p), x, y)
      PROVE  Before(Append(line, u.id), x, y)
  <2>1. CASE x # u.id /\ y # u.id /\ Before(Queue(b, s, p), x, y)
    <3>1. Before(line, x, y)
      BY <2>1
    <3> QED
      BY <1>1, <3>1, AppendedBefore
  <2>2. CASE y = u.id /\ x = u.id
    BY <1>1, <2>2, AppendedBefore
  <2>3. CASE y = u.id /\ x # u.id /\ Before(Queue(b, s, p), x, x)
    <3>1. Before(line, x, x)
      BY <2>3
    <3> QED
      BY <1>1, <2>3, <3>1, AppendedBefore
  <2> QED
    BY <1>2, <1>3, <2>1, <2>2, <2>3 DEF Requeued
<1> QED
  BY <1>3

LEMMA RestEvent ==
  ASSUME ExchangeOK, NEW id \in Ids, NEW s \in Sides, NEW p \in Prices, NEW q \in Nat,
         Rest(id, s, p, q)
  PROVE  ExchangeOK' /\ \E msg : Published(msg)
<1>1. PICK msg : msg = L3Msg("New", id, s, p, q)
  OBVIOUS
<1>2. /\ msg \in AnyUpdates /\ msg.side \in Sides /\ msg.side # "None"
      /\ msg.type = "New" /\ msg.id = id /\ msg.side = s /\ msg.p = p /\ msg.q = q
  BY <1>1, L3MsgIs DEF ExecTypes
<1>3. PICK o : o = [side |-> s, price |-> p, qty |-> q]
  OBVIOUS
<1>4. /\ id \notin DOMAIN orders /\ arrival' = Append(arrival, id)
      /\ orders' = Put(orders, id, o) /\ UNCHANGED <<book, l3sub>>
      /\ l3sub => l3stream' = Append(l3stream, msg)
      /\ ~l3sub => l3stream' = l3stream
  BY <1>1, <1>3, PublishIs DEF Rest
<1>5. /\ DOMAIN orders' = DOMAIN orders \cup {id} /\ orders'[id] = o
      /\ \A x \in DOMAIN orders : orders'[x] = orders[x]
      /\ orders' \in [DOMAIN orders' -> Order]
  <2>1. o \in Order
    BY <1>3 DEF Order
  <2> QED
    BY <1>4, <2>1 DEF Put, ExchangeOK
<1>6. arrival \in Seq(Ids) /\ IsInjective(arrival) /\ ~ Before(arrival, id, id)
  BY <1>4 DEF ExchangeOK
<1>7. arrival' \in Seq(Ids) /\ IsInjective(arrival')
  <2>1. Append(arrival, id) \in Seq(Ids) /\ IsInjective(Append(arrival, id))
    BY <1>6, AppendedOnce
  <2> QED
    BY <1>4, <2>1, Zenon
<1>8. \A x : x \in DOMAIN orders' <=> Before(arrival', x, x)
  <2>1. \A x : Before(arrival, x, x) => Before(arrival', x, x)
    BY <1>4, <1>6, AppendedBefore
  <2>2. Before(arrival', id, id)
    BY <1>4, <1>6, AppendedBefore
  <2>3. \A x : Before(arrival', x, x) => Before(arrival, x, x) \/ x = id
    BY <1>4, <1>6, AppendedBefore
  <2> QED
    BY <1>5, <2>1, <2>2, <2>3 DEF ExchangeOK
<1>9. ExchangeOK'
  BY <1>5, <1>7, <1>8 DEF ExchangeOK
<1>10. ASSUME NEW b, Mirrors(b, orders, arrival) PROVE Mirrors(Apply(b, msg), orders', arrival')
  <2>1. PICK c : c = PushBack(RemoveFromQueues(b, msg.id), msg)
    OBVIOUS
  <2>2. Apply(b, msg) = c
    BY <1>2, <2>1 DEF Apply, OnNew
  <2>3. Good(b) /\ b.orders = orders
        /\ \A t \in Sides : \A r, x, y : Before(Queue(b, t, r), x, y) => Before(arrival, x, y)
    BY <1>10 DEF Mirrors
  <2>4. Good(c)
    BY <1>2, <2>2, <2>3, ApplyKeeps
  <2>5. c.orders = Put(b.orders, msg.id, [side |-> msg.side, price |-> msg.p, qty |-> msg.q])
    BY <1>2, <2>1, <2>3, RequeuePriorities
  <2>6. c.orders = orders'
    BY <1>2, <1>3, <1>4, <2>3, <2>5
  <2>7. \A t \in Sides : \A r, x, y : Before(Queue(c, t, r), x, y) => Before(Append(arrival, msg.id), x, y)
    BY <1>2, <1>6, <2>1, <2>3, RequeueMirrors
  <2> QED
    BY <1>2, <1>4, <2>2, <2>4, <2>6, <2>7 DEF Mirrors
<1> QED
  BY <1>2, <1>4, <1>9, <1>10 DEF Published

LEMMA LeaveEvent ==
  ASSUME ExchangeOK, NEW id \in DOMAIN orders, NEW type \in {"Fill", "Cancelled"}, Leave(id, type)
  PROVE  ExchangeOK' /\ \E msg : Published(msg)
<1>1. PICK o : o = orders[id]
  OBVIOUS
<1>2. PICK msg : msg = L3Msg(type, id, o.side, o.price, o.qty)
  OBVIOUS
<1>3. o \in Order /\ id \in Ids /\ o.side \in Sides /\ o.price \in Prices /\ o.qty \in Nat
  BY <1>1 DEF ExchangeOK, Order
<1>4. /\ msg \in AnyUpdates /\ msg.side \in Sides /\ msg.side # "None"
      /\ msg.type = type /\ msg.id = id
  BY <1>2, <1>3, L3MsgIs DEF ExecTypes
<1>5. /\ arrival' = OutOfLine(id) /\ orders' = Restrict(orders, DOMAIN orders \ {id})
      /\ UNCHANGED <<book, l3sub>>
      /\ l3sub => l3stream' = Append(l3stream, msg)
      /\ ~l3sub => l3stream' = l3stream
  BY <1>1, <1>2, PublishIs DEF Leave, Without
<1>6. /\ DOMAIN orders' = DOMAIN orders \ {id} /\ orders' \in [DOMAIN orders' -> Order]
  BY <1>5 DEF Restrict, ExchangeOK
<1>7. /\ arrival' \in Seq(Ids) /\ IsInjective(arrival')
      /\ \A x, y : Before(arrival', x, y) <=> x # id /\ y # id /\ Before(arrival, x, y)
  BY <1>5, OutOfLineIs
<1>8. ExchangeOK'
  BY <1>6, <1>7 DEF ExchangeOK
<1>9. ASSUME NEW b, Mirrors(b, orders, arrival) PROVE Mirrors(Apply(b, msg), orders', arrival')
  <2>1. PICK c : c = EraseOrder(b, id)
    OBVIOUS
  <2>2. Apply(b, msg) = c
    BY <1>4, <2>1 DEF Apply, OnFillOrCancel
  <2>3. Good(b) /\ b.orders = orders
        /\ \A t \in Sides : \A r, x, y : Before(Queue(b, t, r), x, y) => Before(arrival, x, y)
    BY <1>9 DEF Mirrors
  <2>4. Good(c)
    BY <2>1, <2>3, EraseKeeps
  <2>5. /\ c.orders = orders'
        /\ \A t \in Sides : \A r, x, y :
             Before(Queue(c, t, r), x, y) <=> x # id /\ y # id /\ Before(Queue(b, t, r), x, y)
    BY <1>5, <2>1, <2>3, ErasePriorities
  <2>6. \A t \in Sides : \A r, x, y : Before(Queue(c, t, r), x, y) => Before(arrival', x, y)
    BY <1>7, <2>3, <2>5
  <2> QED
    BY <2>2, <2>4, <2>5, <2>6 DEF Mirrors
<1> QED
  BY <1>4, <1>5, <1>8, <1>9 DEF Published

(* A new quantity, of a fill or of a replacement at the same price.          *)
LEMMA RequantifyMirrors ==
  ASSUME ExchangeOK, NEW id \in DOMAIN orders, NEW n \in Nat,
         orders' = [orders EXCEPT ![id].qty = n], arrival' = arrival
  PROVE  /\ ExchangeOK'
         /\ \A b : Mirrors(b, orders, arrival) =>
              Mirrors([b EXCEPT !.orders[id].qty = n], orders', arrival')
<1>1. PICK o : o = [orders[id] EXCEPT !.qty = n]
  OBVIOUS
<1>2. o \in Order
  BY <1>1 DEF ExchangeOK, Order
<1>3. orders' = [orders EXCEPT ![id] = o]
  BY <1>1
<1>4. DOMAIN orders' = DOMAIN orders /\ orders' \in [DOMAIN orders -> Order]
  BY <1>2, <1>3 DEF ExchangeOK
<1>5. ExchangeOK'
  BY <1>4 DEF ExchangeOK
<1>6. ASSUME NEW b, Mirrors(b, orders, arrival)
      PROVE  Mirrors([b EXCEPT !.orders[id].qty = n], orders', arrival')
  <2>1. PICK c : c = [b EXCEPT !.orders[id].qty = n]
    OBVIOUS
  <2>2. Good(b) /\ b.orders = orders /\ id \in DOMAIN b.orders
    BY <1>6 DEF Mirrors
  <2>3. Good(c)
    BY <2>1, <2>2, RequantifyKeeps
  <2>4. Requantified(b, c, id, n)
    BY <2>1, <2>2, RequantifyPriorities
  <2>5. c.orders = orders'
    BY <2>2, <2>4 DEF Requantified
  <2>6. \A t \in Sides : \A r, x, y : Before(Queue(c, t, r), x, y) => Before(arrival', x, y)
    BY <1>6, <2>4 DEF Requantified, Mirrors
  <2> QED
    BY <2>1, <2>3, <2>5, <2>6 DEF Mirrors
<1> QED
  BY <1>5, <1>6

LEMMA FillPartEvent ==
  ASSUME ExchangeOK, NEW id \in DOMAIN orders, NEW q \in Nat, FillPart(id, q)
  PROVE  ExchangeOK' /\ \E msg : Published(msg)
<1>1. PICK o : o = orders[id]
  OBVIOUS
<1>2. PICK msg : msg = L3Msg("PartialFill", id, o.side, o.price, q)
  OBVIOUS
<1>3. o \in Order /\ id \in Ids /\ o.side \in Sides /\ o.price \in Prices /\ o.qty \in Nat
  BY <1>1 DEF ExchangeOK, Order
<1>4. /\ msg \in AnyUpdates /\ msg.side \in Sides /\ msg.side # "None"
      /\ msg.type = "PartialFill" /\ msg.id = id /\ msg.q = q
  BY <1>2, <1>3, L3MsgIs DEF ExecTypes
<1>5. PICK n : n = o.qty - q
  OBVIOUS
<1>6. /\ q < o.qty /\ arrival' = arrival /\ orders' = [orders EXCEPT ![id].qty = n]
      /\ UNCHANGED <<book, l3sub>>
      /\ l3sub => l3stream' = Append(l3stream, msg)
      /\ ~l3sub => l3stream' = l3stream
  BY <1>1, <1>2, <1>5, PublishIs DEF FillPart
<1>7. n \in Nat
  BY <1>3, <1>5, <1>6
<1>8. /\ ExchangeOK'
      /\ \A b : Mirrors(b, orders, arrival) =>
           Mirrors([b EXCEPT !.orders[id].qty = n], orders', arrival')
  BY <1>6, <1>7, RequantifyMirrors
<1>9. ASSUME NEW b, Mirrors(b, orders, arrival) PROVE Mirrors(Apply(b, msg), orders', arrival')
  <2>1. b.orders = orders
    BY <1>9 DEF Mirrors
  <2>2. id \in DOMAIN b.orders /\ b.orders[id].qty > msg.q /\ b.orders[id].qty - msg.q = n
    BY <1>1, <1>3, <1>4, <1>5, <1>6, <2>1
  <2>3. OnPartialFill(b, msg) = [b EXCEPT !.orders[id].qty = n]
    BY <1>4, <2>2 DEF OnPartialFill
  <2>4. Apply(b, msg) = OnPartialFill(b, msg)
    BY <1>4 DEF Apply
  <2> QED
    BY <1>8, <1>9, <2>3, <2>4
<1> QED
  BY <1>4, <1>6, <1>8, <1>9 DEF Published

LEMMA ReplaceEvent ==
  ASSUME ExchangeOK, NEW id \in DOMAIN orders, NEW p \in Prices, NEW q \in Nat,
         Replace(id, p, q)
  PROVE  ExchangeOK' /\ \E msg : Published(msg)
<1>1. PICK o : o = orders[id]
  OBVIOUS
<1>2. PICK msg : msg = L3Msg("Replaced", id, o.side, p, q)
  OBVIOUS
<1>3. o \in Order /\ id \in Ids /\ o.side \in Sides /\ o.price \in Prices /\ o.qty \in Nat
  BY <1>1 DEF ExchangeOK, Order
<1>4. /\ msg \in AnyUpdates /\ msg.side \in Sides /\ msg.side # "None"
      /\ msg.type = "Replaced" /\ msg.id = id /\ msg.side = o.side /\ msg.p = p /\ msg.q = q
  BY <1>2, <1>3, L3MsgIs DEF ExecTypes
<1>5. PICK n : n = [o EXCEPT !.price = p, !.qty = q]
  OBVIOUS
<1>6. n \in Order /\ n = [side |-> o.side, price |-> p, qty |-> q]
  BY <1>3, <1>5 DEF Order
<1>7. /\ arrival' = IF p = o.price THEN arrival ELSE Append(OutOfLine(id), id)
      /\ orders' = [orders EXCEPT ![id] = n]
      /\ UNCHANGED <<book, l3sub>>
      /\ l3sub => l3stream' = Append(l3stream, msg)
      /\ ~l3sub => l3stream' = l3stream
  <2>1. PICK os : os = [orders EXCEPT ![id].price = p, ![id].qty = q]
    OBVIOUS
  <2>2. os = [orders EXCEPT ![id] = n]
    BY <1>1, <1>5, <2>1 DEF ExchangeOK
  <2>3. \E levels : Publish(os, msg, levels)
    BY <1>1, <1>2, <2>1, Zenon DEF Replace
  <2>4. PICK levels : Publish(os, msg, levels)
    BY <2>3
  <2>5. arrival' = IF p = o.price THEN arrival ELSE Append(OutOfLine(id), id)
    BY <1>1 DEF Replace
  <2> QED
    BY <2>2, <2>4, <2>5, PublishIs
<1>8. /\ DOMAIN orders' = DOMAIN orders /\ orders'[id] = n
      /\ orders' \in [DOMAIN orders' -> Order]
  BY <1>6, <1>7 DEF ExchangeOK
<1>9. ASSUME NEW b, b.orders = orders
      PROVE  (b.orders[id].side = msg.side /\ b.orders[id].price = msg.p) <=> p = o.price
  BY <1>1, <1>4, <1>9
<1>10. CASE p = o.price
  <2>1. orders' = [orders EXCEPT ![id].qty = q] /\ arrival' = arrival
    BY <1>1, <1>5, <1>7, <1>10 DEF ExchangeOK, Order
  <2>2. /\ ExchangeOK'
        /\ \A b : Mirrors(b, orders, arrival) =>
             Mirrors([b EXCEPT !.orders[id].qty = q], orders', arrival')
    BY <2>1, RequantifyMirrors
  <2>3. ASSUME NEW b, Mirrors(b, orders, arrival) PROVE Mirrors(Apply(b, msg), orders', arrival')
    <3>1. b.orders = orders
      BY <2>3 DEF Mirrors
    <3>2. OnReplaced(b, msg) = [b EXCEPT !.orders[id].qty = q]
      BY <1>4, <1>9, <1>10, <3>1 DEF OnReplaced
    <3>3. Apply(b, msg) = OnReplaced(b, msg)
      BY <1>4 DEF Apply
    <3> QED
      BY <2>2, <2>3, <3>2, <3>3
  <2> QED
    BY <1>4, <1>7, <2>2, <2>3 DEF Published
<1>11. CASE p # o.price
  <2>1. PICK line : line = OutOfLine(id)
    OBVIOUS
  <2>2. /\ line \in Seq(Ids) /\ IsInjective(line)
        /\ \A x, y : Before(line, x, y) <=> x # id /\ y # id /\ Before(arrival, x, y)
    BY <2>1, OutOfLineIs
  <2>3. arrival' = Append(line, id)
    BY <1>7, <1>11, <2>1
  <2>4. arrival' \in Seq(Ids) /\ IsInjective(arrival')
    <3>1. ~ Before(line, id, id)
      BY <2>2
    <3>2. Append(line, id) \in Seq(Ids) /\ IsInjective(Append(line, id))
      BY <1>3, <2>2, <3>1, AppendedOnce
    <3> QED
      BY <2>3, <3>2, Zenon
  <2>5. \A x : x \in DOMAIN orders' <=> Before(arrival', x, x)
    <3>1. \A x : Before(line, x, x) => Before(arrival', x, x)
      BY <1>3, <2>2, <2>3, AppendedBefore
    <3>2. Before(arrival', id, id)
      BY <1>3, <2>2, <2>3, AppendedBefore
    <3>3. \A x : Before(arrival', x, x) => Before(line, x, x) \/ x = id
      BY <1>3, <2>2, <2>3, AppendedBefore
    <3> QED
      BY <1>8, <2>2, <3>1, <3>2, <3>3 DEF ExchangeOK
  <2>6. ExchangeOK'
    BY <1>8, <2>4, <2>5 DEF ExchangeOK
  <2>7. ASSUME NEW b, Mirrors(b, orders, arrival) PROVE Mirrors(Apply(b, msg), orders', arrival')
    <3>1. /\ Good(b) /\ b.orders = orders
          /\ \A t \in Sides : \A r, x, y : Before(Queue(b, t, r), x, y) => Before(arrival, x, y)
      BY <2>7 DEF Mirrors
    <3>2. PICK c : c = PushBack(RemoveFromQueues(b, msg.id), msg)
      OBVIOUS
    <3>3. OnReplaced(b, msg) = c
      BY <1>4, <1>9, <1>11, <3>1, <3>2 DEF OnReplaced
    <3>4. Apply(b, msg) = c
      BY <1>4, <3>3 DEF Apply
    <3>5. Good(c)
      BY <1>4, <3>1, <3>4, ApplyKeeps
    <3>6. c.orders = Put(b.orders, msg.id, [side |-> msg.side, price |-> msg.p, qty |-> msg.q])
      BY <1>4, <3>1, <3>2, RequeuePriorities
    <3>7. c.orders = orders'
      <4>1. c.orders = Put(orders, id, n)
        BY <1>4, <1>6, <3>1, <3>6
      <4> QED
        BY <1>7, <4>1 DEF Put, ExchangeOK
    <3>8. \A t \in Sides : \A r, x, y : Before(Queue(c, t, r), x, y) => Before(Append(line, msg.id), x, y)
      <4>1. \A t \in Sides : \A r, x, y :
              x # msg.id /\ y # msg.id /\ Before(Queue(b, t, r), x, y) => Before(line, x, y)
        BY <1>4, <2>2, <3>1
      <4> QED
        BY <1>4, <2>2, <3>1, <3>2, <4>1, RequeueMirrors
    <3> QED
      BY <1>4, <2>3, <3>4, <3>5, <3>7, <3>8 DEF Mirrors
  <2> QED
    BY <1>4, <1>7, <2>6, <2>7 DEF Published
<1> QED
  BY <1>10, <1>11

LEMMA ExchangeEvent ==
  ASSUME ExchangeOK, NEW ids, ids \subseteq Ids, NEW prices, prices \subseteq Prices,
         ExchangeStep(ids, prices)
  PROVE  ExchangeOK' /\ \E msg : Published(msg)
<1> USE QtyAssumption
<1>1. ASSUME NEW id \in ids, NEW s \in Sides, NEW p \in prices, NEW q \in Qtys, Rest(id, s, p, q)
      PROVE  ExchangeOK' /\ \E msg : Published(msg)
  BY <1>1, RestEvent
<1>2. ASSUME NEW id \in DOMAIN orders, NEW q \in Qtys, FillPart(id, q)
      PROVE  ExchangeOK' /\ \E msg : Published(msg)
  BY <1>2, FillPartEvent
<1>3. ASSUME NEW id \in DOMAIN orders, NEW type \in {"Fill", "Cancelled"}, Leave(id, type)
      PROVE  ExchangeOK' /\ \E msg : Published(msg)
  BY <1>3, LeaveEvent
<1>4. ASSUME NEW id \in DOMAIN orders, NEW p \in prices, NEW q \in Qtys, Replace(id, p, q)
      PROVE  ExchangeOK' /\ \E msg : Published(msg)
  BY <1>4, ReplaceEvent
<1> QED
  BY <1>1, <1>2, <1>3, <1>4 DEF ExchangeStep

-----------------------------------------------------------------------------
(* A snapshot: the book empties, and after as many messages as there are      *)
(* orders it mirrors the exchange.                                            *)
FirstOf(line, k) == [i \in 1 .. k |-> line[i]]

LEMMA FirstAppended ==
  ASSUME NEW line \in Seq(Ids), NEW k \in Nat, k < Len(line)
  PROVE  /\ FirstOf(line, k) \in Seq(Ids) /\ line[k + 1] \in Ids
         /\ FirstOf(line, k + 1) = Append(FirstOf(line, k), line[k + 1])
<1>1. PICK f : f = FirstOf(line, k)
  OBVIOUS
<1>2. /\ k \in 0 .. Len(line) /\ \A i \in 1 .. (k + 1) : line[i] \in Ids
  OBVIOUS
<1>3. f \in [1 .. k -> Ids]
  BY <1>1, <1>2 DEF FirstOf
<1>4. f \in Seq(Ids) /\ Len(f) = k
  BY <1>3
<1>5. PICK g : g = Append(f, line[k + 1])
  OBVIOUS
<1>6. /\ g \in Seq(Ids) /\ DOMAIN g = 1 .. (k + 1) /\ g[k + 1] = line[k + 1]
      /\ \A i \in 1 .. k : g[i] = line[i]
  BY <1>1, <1>2, <1>4, <1>5 DEF FirstOf
<1>7. g = [i \in 1 .. (k + 1) |-> line[i]]
  <2>1. \A i \in 1 .. (k + 1) : i \in 1 .. k \/ i = k + 1
    OBVIOUS
  <2>2. \A i \in 1 .. (k + 1) : g[i] = line[i]
    BY <1>6, <2>1
  <2>3. g = [i \in 1 .. (k + 1) |-> g[i]]
    BY <1>6
  <2> QED
    BY <2>2, <2>3
<1>8. FirstOf(line, k + 1) = g
  BY <1>7, Zenon DEF FirstOf
<1>9. line[k + 1] \in Ids
  BY <1>2
<1> QED
  BY <1>1, <1>4, <1>5, <1>8, <1>9, Zenon

Copied(b, k) ==
  /\ Good(b) /\ b.orders = [id \in {arrival[i] : i \in 1 .. k} |-> orders[id]]
  /\ \A s \in Sides : \A p, x, y : Before(Queue(b, s, p), x, y) => Before(FirstOf(arrival, k), x, y)

Copying(id) == L3Msg("New", id, orders[id].side, orders[id].price, orders[id].qty)

LEMMA CopiesNext ==
  ASSUME ExchangeOK, NEW k \in Nat, k < Len(arrival), NEW b, Copied(b, k)
  PROVE  /\ Copying(arrival[k + 1]) \in AnyUpdates
         /\ Copied(Apply(b, Copying(arrival[k + 1])), k + 1)
<1>1. PICK id, o, msg : /\ id = arrival[k + 1] /\ o = orders[id]
                        /\ msg = L3Msg("New", id, o.side, o.price, o.qty)
  OBVIOUS
<1>2. Copying(arrival[k + 1]) = msg
  BY <1>1, Zenon DEF Copying
<1>3. arrival \in Seq(Ids) /\ IsInjective(arrival) /\ orders \in [DOMAIN orders -> Order]
  BY DEF ExchangeOK
<1>4. PICK f : f = FirstOf(arrival, k)
  OBVIOUS
<1>5. f \in Seq(Ids) /\ id \in Ids /\ FirstOf(arrival, k + 1) = Append(f, id)
  BY <1>1, <1>3, <1>4, FirstAppended
<1>6. id \in DOMAIN orders
  <2>1. k + 1 \in DOMAIN arrival
    BY <1>3
  <2>2. Before(arrival, id, id)
    BY <1>1, <1>3, <2>1 DEF Before
  <2> QED
    BY <2>2 DEF ExchangeOK
<1>7. o \in Order /\ o.side \in Sides /\ o.price \in Prices /\ o.qty \in Nat
  BY <1>1, <1>3, <1>6 DEF Order
<1>8. /\ msg \in AnyUpdates /\ msg.side \in Sides /\ msg.side # "None" /\ msg.type = "New"
      /\ msg.id = id /\ msg.side = o.side /\ msg.p = o.price /\ msg.q = o.qty
  BY <1>1, <1>5, <1>7, L3MsgIs DEF ExecTypes
<1>9. PICK c : c = PushBack(RemoveFromQueues(b, msg.id), msg)
  OBVIOUS
<1>10. Apply(b, msg) = c
  BY <1>8, <1>9 DEF Apply, OnNew
<1>11. /\ Good(b) /\ b.orders = [x \in {arrival[i] : i \in 1 .. k} |-> orders[x]]
       /\ \A s \in Sides : \A p, x, y : Before(Queue(b, s, p), x, y) => Before(f, x, y)
  BY <1>4 DEF Copied
<1>12. Good(c)
  BY <1>8, <1>10, <1>11, ApplyKeeps
<1>13. c.orders = Put(b.orders, id, o)
  <2>1. c.orders = Put(b.orders, msg.id, [side |-> msg.side, price |-> msg.p, qty |-> msg.q])
    BY <1>8, <1>9, <1>11, RequeuePriorities
  <2>2. o = [side |-> o.side, price |-> o.price, qty |-> o.qty]
    BY <1>7 DEF Order
  <2> QED
    BY <1>8, <2>1, <2>2
<1>14. c.orders = [x \in {arrival[i] : i \in 1 .. (k + 1)} |-> orders[x]]
  <2>1. PICK A, B : A = {arrival[i] : i \in 1 .. k} /\ B = {arrival[i] : i \in 1 .. (k + 1)}
    OBVIOUS
  <2>2. \A i : i \in 1 .. (k + 1) <=> i \in 1 .. k \/ i = k + 1
    OBVIOUS
  <2>3. B = A \cup {id}
    BY <1>1, <2>1, <2>2
  <2>4. b.orders = [x \in A |-> orders[x]]
    BY <1>11, <2>1
  <2>5. Put(b.orders, id, o) = [x \in B |-> orders[x]]
    BY <1>1, <2>3, <2>4 DEF Put
  <2> QED
    BY <1>13, <2>1, <2>5
<1>15. \A s \in Sides : \A p, x, y : Before(Queue(c, s, p), x, y) => Before(Append(f, msg.id), x, y)
  <2>1. \A s \in Sides : \A p, x, y :
          x # msg.id /\ y # msg.id /\ Before(Queue(b, s, p), x, y) => Before(f, x, y)
    BY <1>11
  <2> QED
    BY <1>5, <1>8, <1>9, <1>11, <2>1, RequeueMirrors
<1>16. Copied(c, k + 1)
  <2>1. PICK g : g = FirstOf(arrival, k + 1)
    OBVIOUS
  <2>2. \A s \in Sides : \A p, x, y : Before(Queue(c, s, p), x, y) => Before(g, x, y)
    BY <1>5, <1>8, <1>15, <2>1
  <2> QED
    BY <1>12, <1>14, <2>1, <2>2, Zenon DEF Copied
<1> QED
  BY <1>2, <1>8, <1>10, <1>16, Zenon

LEMMA EmptyCopies == Copied(EmptyBook, 0)
<1>1. /\ EmptyBook.orders = <<>> /\ \A s \in Sides : EmptyBook.queues[s] = <<>>
  BY DEF EmptyBook, NoQueues
<1>2. 1 .. 0 = {}
  OBVIOUS
<1>3. PICK f : f = [id \in {arrival[i] : i \in 1 .. 0} |-> orders[id]]
  OBVIOUS
<1>4. f = <<>>
  <2>1. {arrival[i] : i \in 1 .. 0} = {}
    BY <1>2
  <2>2. DOMAIN f = {}
    BY <1>3, <2>1
  <2> QED
    BY <1>3, <2>1, <2>2
<1>5. \A s \in Sides : \A p, x, y : ~ Before(Queue(EmptyBook, s, p), x, y)
  BY <1>1 DEF Queue, Before
<1> QED
  BY <1>1, <1>3, <1>4, <1>5, EmptyGood DEF Copied

LEMMA SnapshotIs ==
  ASSUME ExchangeOK
  PROVE  /\ DOMAIN L3Snapshot = 1 .. (Len(arrival) + 1)
         /\ L3Snapshot[1] = SnapshotStarts
         /\ \A k \in 1 .. Len(arrival) : L3Snapshot[k + 1] = Copying(arrival[k])
         /\ L3Snapshot \in Seq(L3Messages)
<1>1. PICK n : n = Len(arrival) /\ n \in Nat /\ arrival \in Seq(Ids)
  BY DEF ExchangeOK
<1>2. PICK r : r = [i \in DOMAIN arrival |-> Copying(arrival[i])]
  OBVIOUS
<1>3. L3Snapshot = <<SnapshotStarts>> \o r
  BY <1>2, Zenon DEF L3Snapshot, SnapshotStarts, Copying
<1>4. ASSUME NEW i \in 1 .. n PROVE Copying(arrival[i]) \in L3Messages
  <2>1. arrival[i] \in Ids /\ Before(arrival, arrival[i], arrival[i])
    BY <1>1, <1>4 DEF Before
  <2>2. PICK id, o : id = arrival[i] /\ o = orders[id]
    OBVIOUS
  <2>3. o \in Order
    BY <2>1, <2>2 DEF ExchangeOK
  <2>4. o.side \in Sides /\ o.price \in Prices /\ o.qty \in Nat
    BY <2>3 DEF Order
  <2>5. L3Msg("New", id, o.side, o.price, o.qty) \in AnyUpdates
    BY <2>1, <2>2, <2>4, L3MsgIs DEF ExecTypes
  <2> QED
    BY <2>2, <2>5 DEF Copying, L3Messages
<1>5. DOMAIN arrival = 1 .. n
  BY <1>1
<1>6. r \in Seq(L3Messages) /\ Len(r) = n
  <2>1. r \in [1 .. n -> L3Messages]
    BY <1>2, <1>4, <1>5
  <2> QED
    BY <1>1, <2>1
<1>7. PICK h : h = <<SnapshotStarts>>
  OBVIOUS
<1>8. h \in Seq(L3Messages) /\ Len(h) = 1 /\ h[1] = SnapshotStarts
  BY <1>7 DEF L3Messages
<1>9. /\ h \o r \in Seq(L3Messages) /\ Len(h \o r) = n + 1
      /\ \A j \in 1 .. (n + 1) : (h \o r)[j] = IF j <= 1 THEN h[j] ELSE r[j - 1]
  <2>1. /\ h \o r \in Seq(L3Messages) /\ Len(h \o r) = Len(h) + Len(r)
        /\ \A j \in 1 .. Len(h) + Len(r) :
             (h \o r)[j] = IF j <= Len(h) THEN h[j] ELSE r[j - Len(h)]
    BY <1>6, <1>8, ConcatProperties
  <2>2. Len(h) + Len(r) = n + 1
    BY <1>1, <1>6, <1>8
  <2> QED
    BY <1>6, <1>8, <2>1, <2>2
<1>10. PICK s : s = h \o r
  OBVIOUS
<1>11. /\ s \in Seq(L3Messages) /\ DOMAIN s = 1 .. (n + 1)
       /\ \A j \in 1 .. (n + 1) : s[j] = IF j <= 1 THEN h[j] ELSE r[j - 1]
  BY <1>1, <1>9, <1>10
<1>12. s[1] = SnapshotStarts
  BY <1>1, <1>8, <1>11
<1>13. ASSUME NEW k \in 1 .. n PROVE s[k + 1] = Copying(arrival[k])
  <2>1. s[k + 1] = r[k]
    BY <1>1, <1>11
  <2> QED
    BY <1>2, <1>5, <2>1
<1> QED
  BY <1>1, <1>3, <1>7, <1>10, <1>11, <1>12, <1>13, Zenon

LEMMA CopiedMirrors ==
  ASSUME ExchangeOK, NEW b, Copied(b, Len(arrival))
  PROVE  Mirrors(b, orders, arrival)
<1>1. PICK n : n = Len(arrival) /\ n \in Nat /\ arrival \in Seq(Ids)
  BY DEF ExchangeOK
<1>2. FirstOf(arrival, n) = arrival
  BY <1>1 DEF FirstOf
<1>3. {arrival[i] : i \in 1 .. n} = DOMAIN orders
  <2>1. ASSUME NEW i \in 1 .. n PROVE arrival[i] \in DOMAIN orders
    BY <1>1 DEF ExchangeOK, Before
  <2>2. ASSUME NEW x \in DOMAIN orders PROVE \E i \in 1 .. n : x = arrival[i]
    <3>1. Before(arrival, x, x)
      BY DEF ExchangeOK
    <3> QED
      BY <1>1, <3>1 DEF Before
  <2> QED
    BY <2>1, <2>2
<1>4. b.orders = orders
  <2>1. b.orders = [id \in DOMAIN orders |-> orders[id]]
    BY <1>1, <1>3 DEF Copied
  <2>2. orders = [id \in DOMAIN orders |-> orders[id]]
    BY DEF ExchangeOK
  <2> QED
    BY <2>1, <2>2
<1> QED
  BY <1>1, <1>2, <1>4 DEF Copied, Mirrors

LEMMA SnapshotMirrors ==
  ASSUME ExchangeOK, NEW b
  PROVE  Mirrors(F!Fold(b, L3Snapshot), orders, arrival)
<1>1. PICK n : n = Len(arrival) /\ n \in Nat
  BY DEF ExchangeOK
<1>2. PICK m : m = n + 1 /\ m \in Nat
  BY <1>1
<1>3. PICK s : s = L3Snapshot
  OBVIOUS
<1>4. /\ DOMAIN s = 1 .. m /\ s[1] = SnapshotStarts
      /\ \A k \in 1 .. n : s[k + 1] = Copying(arrival[k])
  BY <1>1, <1>2, <1>3, SnapshotIs
<1>5. PICK h : /\ h[0] = b /\ h[m] = F!Fold(b, s)
               /\ \A k \in 1 .. m : h[k] = Apply(h[k - 1], s[k])
  <2>1. PICK h : F!Leads(h, b, s, m)
    BY <1>2, <1>4, F!FoldHas
  <2> QED
    BY <2>1 DEF F!Leads
<1>6. h[1] = EmptyBook
  <2>1. 1 \in 1 .. m /\ SnapshotStarts.side = "None"
    BY <1>1, <1>2 DEF SnapshotStarts, L3Msg
  <2>2. h[1] = Apply(h[1 - 1], s[1])
    BY <1>5, <2>1
  <2> QED
    BY <1>4, <2>1, <2>2 DEF Apply
<1>7. PICK T : T = {k \in Nat : k <= n => Copied(h[k + 1], k)}
  OBVIOUS
<1>8. 0 \in T
  <2>1. Copied(h[0 + 1], 0)
    BY <1>6, EmptyCopies
  <2> QED
    BY <1>7, <2>1
<1>9. ASSUME NEW k \in Nat, k \in T PROVE k + 1 \in T
  <2>1. SUFFICES ASSUME k + 1 <= n PROVE Copied(h[(k + 1) + 1], k + 1)
    BY <1>7
  <2>2. Copied(h[k + 1], k)
    BY <1>1, <1>7, <1>9, <2>1
  <2>3. h[(k + 1) + 1] = Apply(h[k + 1], s[(k + 1) + 1])
    <3>1. (k + 1) + 1 \in 1 .. m /\ ((k + 1) + 1) - 1 = k + 1
      BY <1>1, <1>2, <2>1
    <3>2. h[(k + 1) + 1] = Apply(h[((k + 1) + 1) - 1], s[(k + 1) + 1])
      BY <1>5, <3>1
    <3> QED
      BY <3>1, <3>2, Zenon
  <2>4. s[(k + 1) + 1] = Copying(arrival[k + 1])
    BY <1>1, <1>4, <2>1
  <2>5. k < Len(arrival)
    BY <1>1, <2>1
  <2>6. Copied(Apply(h[k + 1], Copying(arrival[k + 1])), k + 1)
    BY <2>2, <2>5, CopiesNext
  <2> QED
    BY <2>3, <2>4, <2>6, Zenon
<1>10. n \in T
  BY <1>1, <1>8, <1>9, F!NatSetInduction
<1>11. Copied(h[m], n)
  BY <1>1, <1>2, <1>7, <1>10
<1> QED
  BY <1>1, <1>3, <1>5, <1>11, CopiedMirrors

LEMMA SameFold ==
  ASSUME NEW b, NEW s
  PROVE  FoldLeft(Apply, b, s) = F!Fold(b, s)
  BY Zenon DEF F!Fold, F!FoldLeft, F!MapThenFoldSet, F!Max, FoldLeft, MapThenFoldSet, Max

-----------------------------------------------------------------------------
(* A book that mirrors the exchange is the exchange's book.                   *)
LEMMA MirrorIsExchangeBook ==
  ASSUME ExchangeOK, NEW b, Mirrors(b, orders, arrival)
  PROVE  IsExchangeBook(b)
<1>1. /\ Good(b) /\ b.orders = orders
      /\ \A s \in Sides : \A p, x, y : Before(Queue(b, s, p), x, y) => Before(arrival, x, y)
  BY DEF Mirrors
<1>2. ASSUME NEW s \in Sides, NEW p \in DOMAIN b.queues[s]
      PROVE  /\ b.queues[s][p] \in Seq(Ids) /\ b.queues[s][p] # <<>> /\ p \in Prices
             /\ IsInjective(b.queues[s][p]) /\ Queue(b, s, p) = b.queues[s][p]
             /\ \A i \in DOMAIN b.queues[s][p] : b.queues[s][p][i] \in At(orders, s, p)
  BY <1>1 DEF Good, Shape, NoEmptyLevel, QueuedOnce, QueuedIsOrder, Queue, At
<1>3. ASSUME NEW s \in Sides, NEW p, NEW id \in At(orders, s, p)
      PROVE  p \in DOMAIN b.queues[s] /\ p \in Prices
             /\ \E i \in DOMAIN b.queues[s][p] : b.queues[s][p][i] = id
  <2>1. id \in DOMAIN b.orders /\ b.orders[id].side = s /\ b.orders[id].price = p
    BY <1>1, <1>3 DEF At
  <2>2. PICK i \in DOMAIN Queue(b, s, p) : Queue(b, s, p)[i] = id
    BY <1>1, <2>1 DEF Good, OrderIsQueued
  <2>3. p \in DOMAIN b.queues[s]
    <3>1. DOMAIN << >> = {}
      OBVIOUS
    <3> QED
      BY <2>2, <3>1 DEF Queue
  <2> QED
    BY <1>2, <2>2, <2>3
<1>4. \A s \in Sides : DOMAIN b.queues[s] = {p \in Prices : At(orders, s, p) # {}}
  <2>1. ASSUME NEW s \in Sides, NEW p \in DOMAIN b.queues[s]
        PROVE  p \in Prices /\ At(orders, s, p) # {}
    <3>1. PICK q : q = b.queues[s][p]
      OBVIOUS
    <3>2. q \in Seq(Ids) /\ q # <<>> /\ \A i \in DOMAIN q : q[i] \in At(orders, s, p)
      BY <1>2, <3>1
    <3>3. 1 \in DOMAIN q
      BY <3>2
    <3> QED
      BY <1>2, <3>2, <3>3
  <2>2. ASSUME NEW s \in Sides, NEW p \in Prices, At(orders, s, p) # {}
        PROVE  p \in DOMAIN b.queues[s]
    BY <1>3, <2>2
  <2> QED
    BY <2>1, <2>2
<1>5. ASSUME NEW s \in Sides, NEW p \in DOMAIN b.queues[s]
      PROVE  /\ IsInjective(b.queues[s][p]) /\ Range(b.queues[s][p]) = At(orders, s, p)
             /\ \A x, y \in At(orders, s, p) : Before(b.queues[s][p], x, y) <=> Before(arrival, x, y)
  <2>1. PICK q : q = b.queues[s][p]
    OBVIOUS
  <2>2. /\ q \in Seq(Ids) /\ IsInjective(q) /\ Queue(b, s, p) = q
        /\ \A i \in DOMAIN q : q[i] \in At(orders, s, p)
    BY <1>2, <2>1
  <2>3. \A x \in At(orders, s, p) : \E i \in DOMAIN q : q[i] = x
    BY <1>3, <2>1
  <2>4. Range(q) = At(orders, s, p)
    BY <2>2, <2>3 DEF Range
  <2>5. ASSUME NEW x \in At(orders, s, p), NEW y \in At(orders, s, p), Before(arrival, x, y)
        PROVE  Before(q, x, y)
    <3>1. PICK i \in DOMAIN q, j \in DOMAIN q : q[i] = x /\ q[j] = y
      BY <2>3
    <3>2. i \in Nat /\ j \in Nat
      BY <2>2
    <3>3. CASE i <= j
      BY <3>1, <3>3 DEF Before
    <3>4. CASE j <= i
      <4>1. Before(q, y, x)
        BY <3>1, <3>4 DEF Before
      <4>2. Before(arrival, y, x)
        BY <1>1, <2>2, <4>1
      <4>3. x = y
        <5>1. arrival \in Seq(Ids) /\ IsInjective(arrival)
          BY DEF ExchangeOK
        <5>2. PICK k \in DOMAIN arrival, l \in DOMAIN arrival : k <= l /\ arrival[k] = x /\ arrival[l] = y
          BY <2>5 DEF Before
        <5>3. PICK n \in DOMAIN arrival, m \in DOMAIN arrival : n <= m /\ arrival[n] = y /\ arrival[m] = x
          BY <4>2 DEF Before
        <5>4. k = m /\ l = n
          BY <5>1, <5>2, <5>3 DEF IsInjective
        <5>5. k \in Nat /\ l \in Nat
          BY <5>1
        <5> QED
          BY <5>2, <5>3, <5>4, <5>5
      <4> QED
        BY <4>1, <4>3
    <3> QED
      BY <3>2, <3>3, <3>4
  <2>6. \A x, y : Before(q, x, y) => Before(arrival, x, y)
    BY <1>1, <2>2
  <2> QED
    BY <2>1, <2>2, <2>4, <2>5, <2>6
<1> QED
  BY <1>1, <1>4, <1>5 DEF IsExchangeBook

-----------------------------------------------------------------------------
(* The L3 subscriber holds a good book, and once it has applied what is on    *)
(* its way, one that mirrors the exchange.                                    *)
FeedInv ==
  /\ ExchangeOK /\ Good(book) /\ l3stream \in Seq(L3Messages)
  /\ l3sub \in BOOLEAN /\ (readers # "displayers" => ~l3sub) /\ (~l3sub => l3stream = <<>>)
  /\ l3sub => Mirrors(F!Fold(book, l3stream), orders, arrival)

LEMMA FeedStarts == MicroInit => FeedInv
<1> SUFFICES ASSUME MicroInit PROVE FeedInv
  OBVIOUS
<1>1. /\ orders = <<>> /\ arrival = <<>> /\ book = EmptyBook /\ l3stream = <<>> /\ l3sub = FALSE
  BY DEF MicroInit, FeedInit, Init
<1>2. DOMAIN orders = {} /\ DOMAIN arrival = {} /\ arrival \in Seq(Ids)
  BY <1>1
<1>3. ExchangeOK
  <2>1. orders \in [DOMAIN orders -> Order]
    BY <1>1, <1>2
  <2>2. IsInjective(arrival) /\ \A x, y : ~ Before(arrival, x, y)
    BY <1>2 DEF IsInjective, Before
  <2> QED
    BY <1>2, <2>1, <2>2 DEF ExchangeOK
<1>4. Good(book) /\ l3stream \in Seq(L3Messages)
  BY <1>1, EmptyGood
<1> QED
  BY <1>1, <1>3, <1>4 DEF FeedInv

LEMMA ExchangeFeeds ==
  ASSUME FeedInv, readers' = readers, NEW ids, ids \subseteq Ids, NEW prices, prices \subseteq Prices,
         ExchangeStep(ids, prices)
  PROVE  FeedInv'
<1>1. ExchangeOK' /\ \E msg : Published(msg)
  BY ExchangeEvent DEF FeedInv
<1>2. PICK msg : Published(msg)
  BY <1>1
<1>3. /\ msg \in L3Messages /\ book' = book /\ l3sub' = l3sub
      /\ l3sub => l3stream' = Append(l3stream, msg)
      /\ ~l3sub => l3stream' = l3stream
      /\ \A b : Mirrors(b, orders, arrival) => Mirrors(Apply(b, msg), orders', arrival')
  BY <1>2 DEF Published, L3Messages
<1>4. CASE ~l3sub
  BY <1>1, <1>3, <1>4 DEF FeedInv
<1>5. CASE l3sub
  <2>1. l3stream \in Seq(L3Messages) /\ Mirrors(F!Fold(book, l3stream), orders, arrival)
    BY <1>5 DEF FeedInv
  <2>2. l3stream' = Append(l3stream, msg) /\ l3stream' \in Seq(L3Messages)
    BY <1>3, <1>5, <2>1
  <2>3. F!Fold(book, Append(l3stream, msg)) = Apply(F!Fold(book, l3stream), msg)
    BY <1>3, <2>1, F!FoldAppend
  <2>4. Mirrors(F!Fold(book', l3stream'), orders', arrival')
    BY <1>3, <2>1, <2>2, <2>3
  <2> QED
    BY <1>1, <1>3, <1>5, <2>2, <2>4 DEF FeedInv
<1> QED
  BY <1>4, <1>5 DEF FeedInv

LEMMA ReaderApplies ==
  ASSUME FeedInv, readers' = readers, OnL3Update
  PROVE  FeedInv'
<1>1. /\ l3stream # <<>> /\ book' = Apply(book, Head(l3stream)) /\ l3stream' = Tail(l3stream)
      /\ orders' = orders /\ arrival' = arrival /\ l3sub' = l3sub
  BY DEF OnL3Update, exchange
<1>2. l3stream \in Seq(L3Messages) /\ l3sub
  BY <1>1 DEF FeedInv
<1>3. PICK u \in L3Messages : u = Head(l3stream)
  BY <1>1, <1>2
<1>4. Good(Apply(book, u))
  <2>1. CASE u \in AnyUpdates
    BY <2>1, ApplyKeeps DEF FeedInv
  <2>2. CASE u = SnapshotStarts
    BY <2>2, EmptyGood DEF Apply, SnapshotStarts, L3Msg
  <2> QED
    BY <1>3, <2>1, <2>2 DEF L3Messages
<1>5. l3stream' \in Seq(L3Messages)
  BY <1>1, <1>2
<1>6. F!Fold(book, l3stream) = F!Fold(book', l3stream')
  BY <1>1, <1>2, F!FoldTail
<1>7. ExchangeOK'
  BY <1>1 DEF FeedInv, ExchangeOK
<1> QED
  BY <1>1, <1>2, <1>3, <1>4, <1>5, <1>6, <1>7 DEF FeedInv

LEMMA ReaderStartsAgain ==
  ASSUME FeedInv, readers' = readers, RestartL3
  PROVE  FeedInv'
<1>1. /\ book' = EmptyBook /\ l3stream' = <<>> /\ l3sub' = FALSE
      /\ orders' = orders /\ arrival' = arrival
  BY DEF RestartL3, exchange
<1>2. ExchangeOK'
  BY <1>1 DEF FeedInv, ExchangeOK
<1>3. Good(book') /\ l3stream' \in Seq(L3Messages)
  BY <1>1, EmptyGood
<1> QED
  BY <1>1, <1>2, <1>3 DEF FeedInv

LEMMA ReaderSubscribes ==
  ASSUME FeedInv, readers = "displayers", readers' = readers, SubscribeL3
  PROVE  FeedInv'
<1>1. /\ l3stream' = L3Snapshot /\ l3sub' = TRUE /\ book' = book
      /\ orders' = orders /\ arrival' = arrival
  BY DEF SubscribeL3, exchange
<1>2. ExchangeOK' /\ ExchangeOK
  BY <1>1 DEF FeedInv, ExchangeOK
<1>3. L3Snapshot \in Seq(L3Messages) /\ Mirrors(F!Fold(book, L3Snapshot), orders, arrival)
  BY <1>2, SnapshotIs, SnapshotMirrors
<1> QED
  BY <1>1, <1>2, <1>3 DEF FeedInv

LEMMA OthersStep ==
  ASSUME FeedInv, readers' = readers, UNCHANGED <<exchange, l3vars>>
  PROVE  FeedInv'
<1>1. /\ orders' = orders /\ arrival' = arrival /\ book' = book
      /\ l3stream' = l3stream /\ l3sub' = l3sub
  BY DEF exchange, l3vars
<1>2. ExchangeOK'
  BY <1>1 DEF FeedInv, ExchangeOK
<1> QED
  BY <1>1, <1>2 DEF FeedInv

LEMMA FeedSteps == FeedInv /\ [MicroNext]_vars => FeedInv'
<1> SUFFICES ASSUME FeedInv, [MicroNext]_vars PROVE FeedInv'
  OBVIOUS
<1>1. CASE UNCHANGED vars
  BY <1>1, OthersStep DEF vars, feeds
<1>2. CASE MicroNext
  <2>1. readers' = readers
    BY <1>2 DEF MicroNext
  <2>2. ASSUME MakerNext PROVE FeedInv'
    <3>1. CASE OnL2Signals \/ RestartMaker \/ SubscribeL2
      BY <2>1, <3>1, OthersStep DEF OnL2Signals, RestartMaker, OnL2Update, RestartL2, SubscribeL2, l3vars
    <3>2. CASE MatchingStep
      BY <2>1, <3>2, ExchangeFeeds DEF MatchingStep
    <3> QED
      BY <2>2, <3>1, <3>2 DEF MakerNext
  <2>3. ASSUME readers = "displayers", FeedNext PROVE FeedInv'
    <3>1. CASE ExchangeStep(FeedIds, FeedPrices)
      BY <2>1, <3>1, FeedAssumption, ExchangeFeeds
    <3>2. CASE OnL3Update
      BY <2>1, <3>2, ReaderApplies
    <3>3. CASE RestartL3
      BY <2>1, <3>3, ReaderStartsAgain
    <3>4. CASE SubscribeL3
      BY <2>1, <2>3, <3>4, ReaderSubscribes
    <3>5. CASE OnL2Update \/ RestartL2 \/ SubscribeL2
      BY <2>1, <3>5, OthersStep DEF OnL2Update, RestartL2, SubscribeL2, l3vars
    <3> QED
      BY <2>3, <3>1, <3>2, <3>3, <3>4, <3>5 DEF FeedNext
  <2>4. ASSUME readers = "any stream", Next, UNCHANGED <<exchange, l3stream, l3sub>> PROVE FeedInv'
    <3>1. Good(book')
      <4>1. CASE \E u \in Updates : Update(u)
        BY <4>1, UpdatesAny, ApplyKeeps DEF Update, FeedInv
      <4>2. CASE Clear
        BY <4>2, EmptyGood DEF Clear
      <4> QED
        BY <2>4, <4>1, <4>2 DEF Next
    <3>2. ExchangeOK'
      BY <2>4 DEF FeedInv, ExchangeOK, exchange
    <3> QED
      BY <2>1, <2>4, <3>1, <3>2 DEF FeedInv
  <2> QED
    BY <1>2, <2>2, <2>3, <2>4 DEF MicroNext
<1> QED
  BY <1>1, <1>2

LEMMA FeedInductive == MicroSpec => []FeedInv
  BY FeedStarts, FeedSteps, PTL DEF MicroSpec

(* Whatever the L3 subscriber missed, applied and is still to apply, what is *)
(* on its way takes its book to the exchange's.                              *)
THEOREM SubscriberInStep == MicroSpec => []L3InStep
<1>1. FeedInv => L3InStep
  <2> SUFFICES ASSUME FeedInv, readers = "displayers", l3sub
               PROVE  IsExchangeBook(FoldLeft(Apply, book, l3stream))
    BY DEF L3InStep
  <2>1. ExchangeOK /\ Mirrors(F!Fold(book, l3stream), orders, arrival)
    BY DEF FeedInv
  <2>2. IsExchangeBook(F!Fold(book, l3stream))
    BY <2>1, MirrorIsExchangeBook
  <2>3. FoldLeft(Apply, book, l3stream) = F!Fold(book, l3stream)
    BY SameFold
  <2> QED
    BY <2>2, <2>3, Zenon
<1> QED
  BY <1>1, FeedInductive, PTL

(* The subscriber's book is typed and consistent at each of its updates.     *)
THEOREM SubscriberBook == MicroSpec => [](TypeOK /\ Consistent)
<1>1. FeedInv => TypeOK /\ Consistent
  BY DEF FeedInv, Good, Shape, TypeOK, Consistent
<1> QED
  BY <1>1, FeedInductive, PTL

LEMMA ExchangeAlone ==
  ASSUME NEW ids, NEW prices, ExchangeStep(ids, prices)
  PROVE  book' = book
<1>1. ASSUME NEW os, NEW msg, NEW levels, Publish(os, msg, levels) PROVE book' = book
  BY <1>1 DEF Publish
<1>2. ASSUME NEW id, NEW s, NEW p, NEW q, Rest(id, s, p, q) PROVE book' = book
  BY <1>1, <1>2, Zenon DEF Rest
<1>3. ASSUME NEW id, NEW q, FillPart(id, q) PROVE book' = book
  BY <1>1, <1>3, Zenon DEF FillPart
<1>4. ASSUME NEW id, NEW type, Leave(id, type) PROVE book' = book
  BY <1>1, <1>4, Zenon DEF Leave
<1>5. ASSUME NEW id, NEW p, NEW q, Replace(id, p, q) PROVE book' = book
  BY <1>1, <1>5, Zenon DEF Replace
<1> QED
  BY <1>2, <1>3, <1>4, <1>5, Zenon DEF ExchangeStep

(* A message of the exchange moves no order of a subscriber's book but the   *)
(* one it names.                                                             *)
THEOREM SubscriberUndisturbed == MicroSpec => MessagesDisturbNobody
<1>1. FeedInv /\ [MicroNext]_vars =>
        [book' # book /\ l3sub /\ l3sub' =>
           Head(l3stream).side = "None" \/ OnlyThisOrder(Head(l3stream).id, book, book')]_book
  <2> SUFFICES ASSUME FeedInv, MicroNext, book' # book, l3sub, l3sub',
                      Head(l3stream).side # "None"
               PROVE  OnlyThisOrder(Head(l3stream).id, book, book')
    BY DEF vars, feeds, l3vars
  <2>1. Good(book)
    BY DEF FeedInv
  <2>2. CASE OnL3Update
    <3>1. Head(l3stream) \in L3Messages /\ book' = Apply(book, Head(l3stream))
      BY <2>2 DEF OnL3Update, FeedInv
    <3>2. Head(l3stream) \in AnyUpdates
      BY <3>1 DEF L3Messages, SnapshotStarts, L3Msg
    <3> QED
      BY <2>1, <3>1, <3>2, UpdateUndisturbed
  <2>3. CASE \E ids, prices : ExchangeStep(ids, prices)
    BY <2>3, ExchangeAlone
  <2>4. readers # "any stream"
    BY DEF FeedInv
  <2> QED
    BY <2>2, <2>3, <2>4 DEF MicroNext, MakerNext, FeedNext, OnL2Signals, RestartMaker, MatchingStep,
       OnL2Update, RestartL2, SubscribeL2, SubscribeL3, RestartL3, l3vars
<1> QED
  BY <1>1, FeedInductive, PTL DEF MicroSpec, MessagesDisturbNobody

-----------------------------------------------------------------------------
(* What the exchange has at a level, as a sum of FoldFacts.                   *)
OrdersTyped(os) == DOMAIN os \subseteq Ids /\ os \in [DOMAIN os -> Order]

Quantities(os) == [id \in DOMAIN os |-> os[id].qty]

IsTally(it, os, S) ==
  it = [A \in SUBSET S |->
          IF A = {} THEN 0 ELSE os[F!One(A)].qty + it[A \ {F!One(A)}]]

LEMMA SameFinite == \A S : IsFiniteSet(S) <=> F!IsFiniteSet(S)
  BY DEF IsFiniteSet, F!IsFiniteSet

LEMMA TotalIsIt ==
  ASSUME NEW os, NEW s, NEW p
  PROVE  Total(os, s, p) = (CHOOSE it : IsTally(it, os, At(os, s, p)))[At(os, s, p)]
  BY Zenon DEF Total, MapThenSumSet, MapThenFoldSet, IsTally, F!One

LEMMA TotalIs ==
  ASSUME NEW os, OrdersTyped(os), NEW s, NEW p
  PROVE  /\ IsFiniteSet(At(os, s, p)) /\ At(os, s, p) \subseteq DOMAIN os
         /\ \A id \in At(os, s, p) : Quantities(os)[id] = os[id].qty /\ os[id].qty \in Nat
         /\ Total(os, s, p) = F!Sum(Quantities(os), At(os, s, p))
<1>1. PICK S : S = At(os, s, p)
  OBVIOUS
<1>2. S \subseteq DOMAIN os /\ S \subseteq Ids
  BY <1>1 DEF At, OrdersTyped
<1>3. IsFiniteSet(S)
  BY <1>2, WidthAssumption, FS_Subset
<1>4. PICK g : g = Quantities(os)
  OBVIOUS
<1>5. \A id \in S : g[id] = os[id].qty /\ g[id] \in Nat
  BY <1>2, <1>4 DEF Quantities, OrdersTyped, Order
<1>6. ASSUME NEW it
      PROVE  IsTally(it, os, S) <=> F!IsSum(it, g, S)
  <2>1. ASSUME NEW A \in SUBSET S
        PROVE  (IF A = {} THEN 0 ELSE os[F!One(A)].qty + it[A \ {F!One(A)}])
                 = (IF A = {} THEN 0 ELSE g[F!One(A)] + it[A \ {F!One(A)}])
    <3>1. A # {} => F!One(A) \in S
      BY F!OneIs
    <3>2. A # {} => g[F!One(A)] = os[F!One(A)].qty
      BY <1>5, <3>1
    <3> QED
      BY <3>2
  <2>2. [A \in SUBSET S |-> IF A = {} THEN 0 ELSE os[F!One(A)].qty + it[A \ {F!One(A)}]]
          = [A \in SUBSET S |-> IF A = {} THEN 0 ELSE g[F!One(A)] + it[A \ {F!One(A)}]]
    BY <2>1, Zenon
  <2> QED
    BY <2>2, Zenon DEF IsTally, F!IsSum
<1>7. PICK it : it = CHOOSE jt : IsTally(jt, os, S)
  OBVIOUS
<1>8. \E jt : IsTally(jt, os, S)
  <2>1. PICK jt : F!IsSum(jt, g, S)
    BY <1>3, SameFinite, F!SumExists
  <2> QED
    BY <1>6, <2>1
<1>9. F!IsSum(it, g, S)
  <2>1. IsTally(it, os, S)
    BY <1>7, <1>8, Zenon
  <2> QED
    BY <1>6, <2>1
<1>10. F!Sum(g, S) = it[S]
  <2>1. S \in SUBSET S /\ \A id \in S : g[id] \in Nat
    BY <1>5
  <2> QED
    BY <1>3, <1>9, <2>1, SameFinite, F!SumIs
<1>11. Total(os, s, p) = it[S]
  BY <1>1, <1>7, TotalIsIt, Zenon
<1> QED
  BY <1>1, <1>2, <1>3, <1>4, <1>5, <1>10, <1>11

LEMMA TotalAdds ==
  ASSUME NEW os, OrdersTyped(os), NEW s, NEW p
  PROVE  /\ Total(os, s, p) \in Nat
         /\ At(os, s, p) = {} => Total(os, s, p) = 0
         /\ \A id \in At(os, s, p) : os[id].qty <= Total(os, s, p)
<1>1. PICK S, g : S = At(os, s, p) /\ g = Quantities(os)
  OBVIOUS
<1>2. /\ IsFiniteSet(S) /\ \A id \in S : g[id] = os[id].qty /\ g[id] \in Nat
      /\ Total(os, s, p) = F!Sum(g, S)
  BY <1>1, TotalIs
<1>3. F!Adds(g, S)
  BY <1>2, SameFinite, F!SumAdds
<1>4. S \in SUBSET S
  OBVIOUS
<1>5. F!Sum(g, S) \in Nat /\ (S = {} => F!Sum(g, S) = 0)
  BY <1>3, <1>4 DEF F!Adds
<1>6. ASSUME NEW id \in S PROVE os[id].qty <= F!Sum(g, S)
  <2>1. S \ {id} \in SUBSET S
    OBVIOUS
  <2>2. F!Sum(g, S \ {id}) \in Nat /\ F!Sum(g, S) = g[id] + F!Sum(g, S \ {id})
    BY <1>3, <1>4, <2>1 DEF F!Adds
  <2> QED
    BY <1>2, <2>2
<1> QED
  BY <1>1, <1>2, <1>5, <1>6

LEMMA TotalSame ==
  ASSUME NEW os, OrdersTyped(os), NEW ps, OrdersTyped(ps), NEW s, NEW p,
         At(ps, s, p) = At(os, s, p), \A id \in At(os, s, p) : ps[id].qty = os[id].qty
  PROVE  Total(ps, s, p) = Total(os, s, p)
<1>1. PICK S, g, f : S = At(os, s, p) /\ g = Quantities(os) /\ f = Quantities(ps)
  OBVIOUS
<1>2. /\ IsFiniteSet(S) /\ \A id \in S : g[id] = os[id].qty /\ os[id].qty \in Nat
      /\ Total(os, s, p) = F!Sum(g, S)
  BY <1>1, TotalIs
<1>3. /\ \A id \in S : f[id] = ps[id].qty
      /\ Total(ps, s, p) = F!Sum(f, S)
  BY <1>1, TotalIs
<1>4. \A id \in S : g[id] \in Nat /\ f[id] = g[id]
  BY <1>1, <1>2, <1>3
<1>5. F!Sum(f, S) = F!Sum(g, S)
  BY <1>2, <1>4, SameFinite, F!SumSame
<1> QED
  BY <1>2, <1>3, <1>5

-----------------------------------------------------------------------------
(* The L2 book: what one update changes, and when it shows what the exchange *)
(* has.                                                                       *)
AllLevels == Sides \X Prices

LevelsTyped(lv) ==
  /\ DOMAIN lv = Sides
  /\ \A s \in Sides : DOMAIN lv[s] \subseteq Prices /\ lv[s] \in [DOMAIN lv[s] -> Nat]

Within(lv, os) == \A s \in Sides : \A p \in DOMAIN lv[s] : At(os, s, p) # {}

Exact(lv, os, X) ==
  \A s \in Sides, p \in Prices : <<s, p>> \in X =>
    /\ p \in DOMAIN lv[s] <=> Total(os, s, p) # 0
    /\ p \in DOMAIN lv[s] => lv[s][p] = Total(os, s, p)

TotalMsg(os, s, p) == L2Msg(s, p, Total(os, s, p))

LEMMA LevelUpdated ==
  ASSUME NEW lv, LevelsTyped(lv), NEW s \in Sides, NEW p \in Prices, NEW q \in Nat,
         NEW c, c = UpdateL2(lv, L2Msg(s, p, q))
  PROVE  /\ LevelsTyped(c)
         /\ \A t \in Sides : \A r : t # s \/ r # p =>
              /\ r \in DOMAIN c[t] <=> r \in DOMAIN lv[t]
              /\ r \in DOMAIN c[t] => c[t][r] = lv[t][r]
         /\ p \in DOMAIN c[s] <=> q # 0
         /\ q # 0 => c[s][p] = q
<1>1. PICK g : g = IF q = 0 THEN Restrict(lv[s], DOMAIN lv[s] \ {p}) ELSE SetLevel(lv[s], p, q)
  OBVIOUS
<1>2. c = [lv EXCEPT ![s] = g]
  <2>1. PICK u : u = L2Msg(s, p, q)
    OBVIOUS
  <2>2. u.side = s /\ u.p = p /\ u.q = q /\ s # "None"
    BY <2>1 DEF L2Msg, Sides
  <2> QED
    BY <1>1, <2>1, <2>2 DEF UpdateL2
<1>3. /\ DOMAIN lv = Sides /\ DOMAIN lv[s] \subseteq Prices /\ lv[s] \in [DOMAIN lv[s] -> Nat]
  BY DEF LevelsTyped
<1>4. /\ DOMAIN c = Sides /\ c[s] = g /\ \A t \in Sides \ {s} : c[t] = lv[t]
  BY <1>2, <1>3
<1>5. CASE q = 0
  <2>1. g = Restrict(lv[s], DOMAIN lv[s] \ {p})
    BY <1>1, <1>5
  <2>2. /\ DOMAIN g = DOMAIN lv[s] \ {p} /\ g \in [DOMAIN g -> Nat]
        /\ \A r \in DOMAIN g : g[r] = lv[s][r]
    BY <1>3, <2>1 DEF Restrict
  <2>3. LevelsTyped(c)
    BY <1>3, <1>4, <2>2 DEF LevelsTyped
  <2> QED
    BY <1>4, <1>5, <2>2, <2>3
<1>6. CASE q # 0
  <2>1. g = SetLevel(lv[s], p, q)
    BY <1>1, <1>6
  <2>2. /\ DOMAIN g = DOMAIN lv[s] \cup {p} /\ g \in [DOMAIN g -> Nat]
        /\ g[p] = q /\ \A r \in DOMAIN g : r # p => g[r] = lv[s][r]
    BY <1>3, <2>1 DEF SetLevel
  <2>3. LevelsTyped(c)
    BY <1>3, <1>4, <2>2 DEF LevelsTyped
  <2> QED
    BY <1>4, <1>6, <2>2, <2>3
<1> QED
  BY <1>5, <1>6

(* A total that the exchange has: the level is right afterwards, the others   *)
(* are as they were.                                                          *)
ShowsMore(lv, c, os, s, p) ==
  /\ LevelsTyped(c) /\ Within(c, os)
  /\ \A X : Exact(lv, os, X) => Exact(c, os, X \cup {<<s, p>>})

WithinBut(lv, os, s, p) ==
  \A t \in Sides : \A r \in DOMAIN lv[t] : t # s \/ r # p => At(os, t, r) # {}

LEMMA TotalShown ==
  ASSUME NEW os, OrdersTyped(os), NEW lv, LevelsTyped(lv), NEW s \in Sides, NEW p \in Prices,
         NEW c, c = UpdateL2(lv, TotalMsg(os, s, p)), WithinBut(lv, os, s, p)
  PROVE  ShowsMore(lv, c, os, s, p)
<1>1. PICK q : q = Total(os, s, p)
  OBVIOUS
<1>2. q \in Nat /\ (At(os, s, p) = {} => q = 0)
  BY <1>1, TotalAdds
<1>3. c = UpdateL2(lv, L2Msg(s, p, q))
  BY <1>1 DEF TotalMsg
<1>4. /\ LevelsTyped(c)
      /\ \A t \in Sides : \A r : t # s \/ r # p =>
           /\ r \in DOMAIN c[t] <=> r \in DOMAIN lv[t]
           /\ r \in DOMAIN c[t] => c[t][r] = lv[t][r]
      /\ p \in DOMAIN c[s] <=> q # 0
      /\ q # 0 => c[s][p] = q
  BY <1>2, <1>3, LevelUpdated
<1>5. Within(c, os)
  <2>1. ASSUME NEW t \in Sides, NEW r \in DOMAIN c[t] PROVE At(os, t, r) # {}
    <3>1. CASE t = s /\ r = p
      BY <1>2, <1>4, <3>1
    <3>2. CASE t # s \/ r # p
      BY <1>4, <3>2 DEF WithinBut
    <3> QED
      BY <3>1, <3>2
  <2> QED
    BY <2>1 DEF Within
<1>6. ASSUME NEW X, Exact(lv, os, X) PROVE Exact(c, os, X \cup {<<s, p>>})
  <2>1. ASSUME NEW t \in Sides, NEW r \in Prices, <<t, r>> \in X \cup {<<s, p>>}
        PROVE  /\ r \in DOMAIN c[t] <=> Total(os, t, r) # 0
               /\ r \in DOMAIN c[t] => c[t][r] = Total(os, t, r)
    <3>1. CASE t = s /\ r = p
      BY <1>1, <1>4, <3>1
    <3>2. CASE t # s \/ r # p
      <4>1. <<t, r>> \in X
        BY <2>1, <3>2
      <4>2. /\ r \in DOMAIN lv[t] <=> Total(os, t, r) # 0
            /\ r \in DOMAIN lv[t] => lv[t][r] = Total(os, t, r)
        BY <1>6, <4>1 DEF Exact
      <4> QED
        BY <1>4, <3>2, <4>2
    <3> QED
      BY <3>1, <3>2
  <2> QED
    BY <2>1 DEF Exact
<1> QED
  BY <1>4, <1>5, <1>6 DEF ShowsMore

-----------------------------------------------------------------------------
(* The books a subscriber goes through while it applies its stream, none of  *)
(* them crossed where the exchange matches orders.                            *)
NotCrossed(lv) == \A p \in DOMAIN lv["Buy"], r \in DOMAIN lv["Sell"] : p < r

Tame(who, lv) == LevelsTyped(lv) /\ (who = "mm-advanced" => NotCrossed(lv))

Passes(h, who, base, s, n) ==
  /\ h[0] = base
  /\ \A k \in 1 .. n : h[k] = UpdateL2(h[k - 1], s[k])
  /\ \A k \in 0 .. n : Tame(who, h[k])

Along(who, base, s, last) == \E h : Passes(h, who, base, s, Len(s)) /\ h[Len(s)] = last

LEMMA AlongEnds ==
  ASSUME NEW who, NEW base, NEW M, NEW s \in Seq(M), NEW last, Along(who, base, s, last)
  PROVE  Tame(who, base) /\ Tame(who, last)
<1>1. PICK n : n = Len(s) /\ n \in Nat /\ 0 \in 0 .. n /\ n \in 0 .. n
  OBVIOUS
<1>2. PICK h : Passes(h, who, base, s, n) /\ h[n] = last
  BY <1>1 DEF Along
<1> QED
  BY <1>1, <1>2 DEF Passes

LEMMA AlongNothing ==
  ASSUME NEW who, NEW base
  PROVE  /\ Tame(who, base) => Along(who, base, <<>>, base)
         /\ \A last : Along(who, base, <<>>, last) => last = base
<1>1. PICK s : s = <<>>
  OBVIOUS
<1>2. Len(s) = 0 /\ 1 .. 0 = {} /\ \A k \in 0 .. 0 : k = 0
  BY <1>1
<1>3. ASSUME Tame(who, base) PROVE Along(who, base, s, base)
  <2>1. PICK h : h = [k \in {0} |-> base]
    OBVIOUS
  <2>2. h[0] = base
    BY <2>1
  <2>3. Passes(h, who, base, s, 0)
    BY <1>2, <1>3, <2>2 DEF Passes
  <2> QED
    BY <1>2, <2>2, <2>3 DEF Along
<1>4. ASSUME NEW last, Along(who, base, s, last) PROVE last = base
  BY <1>2, <1>4 DEF Along, Passes
<1> QED
  BY <1>1, <1>3, <1>4

LEMMA AlongAppend ==
  ASSUME NEW who, NEW base, NEW M, NEW s \in Seq(M), NEW m \in M, NEW last,
         Along(who, base, s, last), NEW next, next = UpdateL2(last, m), Tame(who, next)
  PROVE  Along(who, base, Append(s, m), next)
<1>1. PICK n : n = Len(s) /\ n \in Nat
  OBVIOUS
<1>2. PICK h : Passes(h, who, base, s, n) /\ h[n] = last
  BY <1>1 DEF Along
<1>3. PICK t : t = Append(s, m)
  OBVIOUS
<1>4. Len(t) = n + 1 /\ t[n + 1] = m /\ \A k \in 1 .. n : t[k] = s[k]
  BY <1>1, <1>3
<1>5. PICK g : g = [k \in 0 .. (n + 1) |-> IF k = n + 1 THEN next ELSE h[k]]
  OBVIOUS
<1>6. g[n + 1] = next /\ \A k \in 0 .. n : g[k] = h[k]
  BY <1>1, <1>5
<1>7. ASSUME NEW k \in 1 .. (n + 1) PROVE g[k] = UpdateL2(g[k - 1], t[k])
  <2>1. CASE k = n + 1
    <3>1. g[k - 1] = last /\ t[k] = m /\ g[k] = next
      BY <1>1, <1>2, <1>4, <1>6, <2>1
    <3> QED
      BY <3>1, Zenon
  <2>2. CASE k \in 1 .. n
    <3>1. g[k] = h[k] /\ g[k - 1] = h[k - 1] /\ t[k] = s[k]
      BY <1>1, <1>4, <1>6, <2>2
    <3>2. h[k] = UpdateL2(h[k - 1], s[k])
      BY <1>2, <2>2 DEF Passes
    <3> QED
      BY <3>1, <3>2, Zenon
  <2> QED
    BY <1>1, <2>1, <2>2
<1>8. \A k \in 0 .. (n + 1) : Tame(who, g[k])
  <2>1. \A k \in 0 .. (n + 1) : k = n + 1 \/ k \in 0 .. n
    BY <1>1
  <2> QED
    BY <1>2, <1>6, <2>1 DEF Passes
<1>9. g[0] = base
  BY <1>1, <1>2, <1>6 DEF Passes
<1>10. Passes(g, who, base, t, n + 1)
  BY <1>7, <1>8, <1>9, Zenon DEF Passes
<1>11. Along(who, base, t, next)
  BY <1>4, <1>6, <1>10, Zenon DEF Along
<1> QED
  BY <1>3, <1>11

LEMMA AlongTail ==
  ASSUME NEW who, NEW base, NEW M, NEW s \in Seq(M), s # <<>>, NEW last, Along(who, base, s, last),
         NEW next, next = UpdateL2(base, Head(s))
  PROVE  Along(who, next, Tail(s), last)
<1>1. PICK n : n = Len(s) - 1
  OBVIOUS
<1>2. n \in Nat /\ Len(s) = n + 1
  BY <1>1
<1>3. PICK h : Passes(h, who, base, s, n + 1) /\ h[n + 1] = last
  BY <1>2 DEF Along
<1>4. PICK t : t = Tail(s)
  OBVIOUS
<1>5. Len(t) = n /\ \A k \in 1 .. n : t[k] = s[k + 1]
  BY <1>2, <1>4
<1>6. PICK g : g = [k \in 0 .. n |-> h[k + 1]]
  OBVIOUS
<1>7. g[0] = next
  <2>1. g[0] = h[1] /\ 1 \in 1 .. (n + 1) /\ Head(s) = s[1]
    BY <1>2, <1>6
  <2>2. h[1] = UpdateL2(h[1 - 1], s[1]) /\ h[0] = base
    BY <1>3, <2>1 DEF Passes
  <2> QED
    BY <2>1, <2>2
<1>8. ASSUME NEW k \in 1 .. n PROVE g[k] = UpdateL2(g[k - 1], t[k])
  <2>1. /\ g[k] = h[k + 1] /\ g[k - 1] = h[k] /\ t[k] = s[k + 1]
        /\ k + 1 \in 1 .. (n + 1) /\ (k + 1) - 1 = k
    BY <1>2, <1>5, <1>6
  <2>2. h[k + 1] = UpdateL2(h[(k + 1) - 1], s[k + 1])
    BY <1>3, <2>1 DEF Passes
  <2> QED
    BY <2>1, <2>2, Zenon
<1>9. \A k \in 0 .. n : Tame(who, g[k])
  <2>1. \A k \in 0 .. n : g[k] = h[k + 1] /\ k + 1 \in 0 .. (n + 1)
    BY <1>2, <1>6
  <2> QED
    BY <1>3, <2>1 DEF Passes
<1>10. Passes(g, who, next, t, n)
  BY <1>7, <1>8, <1>9, Zenon DEF Passes
<1>11. g[n] = last
  BY <1>2, <1>3, <1>6
<1>12. Along(who, next, t, last)
  BY <1>5, <1>10, <1>11, Zenon DEF Along
<1> QED
  BY <1>4, <1>12

-----------------------------------------------------------------------------
(* An event of the exchange, with its L2 messages: the level an order leaves  *)
(* or changes, then the one it moves to, if any.                              *)
L2Messages == [side : Sides, p : Prices, q : Nat] \cup {L2Msg("None", AnyPrice, 0)}

Moves(s, from, to) ==
  /\ \A t \in Sides, r \in Prices : t # s \/ r # from =>
       (At(orders, t, r) # {} => At(orders', t, r) # {})
  /\ \A t \in Sides, r \in Prices : t # s \/ (r # from /\ r # to) =>
       Total(orders', t, r) = Total(orders, t, r)
  /\ UNCHANGED <<l2book, l2sub>>
  /\ ~l2sub => l2stream' = l2stream
  /\ l2sub => \/ from = to /\ l2stream' = Append(l2stream, TotalMsg(orders', s, from))
              \/ l2stream' = Append(Append(l2stream, TotalMsg(orders', s, from)),
                                    TotalMsg(orders', s, to))

LEMMA PublishedOne ==
  ASSUME l2stream \in Seq(L2Messages), NEW os, OrdersTyped(os), NEW msg,
         NEW s \in Sides, NEW p \in Prices, Publish(os, msg, <<<<s, p>>>>)
  PROVE  /\ orders' = os /\ UNCHANGED <<l2book, l2sub>>
         /\ ~l2sub => l2stream' = l2stream
         /\ l2sub => l2stream' = Append(l2stream, TotalMsg(orders', s, p))
<1>1. PICK levels : levels = <<<<s, p>>>>
  OBVIOUS
<1>2. levels[1][1] = s /\ levels[1][2] = p /\ DOMAIN levels = {1}
  BY <1>1
<1>3. PICK m : m = L2Msg(s, p, Total(os, s, p))
  OBVIOUS
<1>4. [i \in DOMAIN levels |-> L2Msg(levels[i][1], levels[i][2], Total(os, levels[i][1], levels[i][2]))]
        = [i \in {1} |-> m]
  BY <1>2, <1>3
<1>5. /\ orders' = os /\ UNCHANGED <<l2book, l2sub>>
      /\ ~l2sub => l2stream' = l2stream
      /\ l2sub => l2stream' = l2stream \o [i \in {1} |-> m]
  BY <1>1, <1>4 DEF Publish
<1>6. [i \in {1} |-> m] = <<m>>
  OBVIOUS
<1>7. l2stream \o <<m>> = Append(l2stream, m)
  OBVIOUS
<1> QED
  BY <1>3, <1>5, <1>6, <1>7 DEF TotalMsg

LEMMA TotalMsgTyped ==
  ASSUME NEW os, OrdersTyped(os), NEW s \in Sides, NEW p \in Prices
  PROVE  TotalMsg(os, s, p) \in L2Messages
  BY TotalAdds DEF TotalMsg, L2Msg, L2Messages

LEMMA PublishedTwo ==
  ASSUME l2stream \in Seq(L2Messages), NEW os, OrdersTyped(os), NEW msg,
         NEW s \in Sides, NEW p \in Prices, NEW r \in Prices, Publish(os, msg, <<<<s, p>>, <<s, r>>>>)
  PROVE  /\ orders' = os /\ UNCHANGED <<l2book, l2sub>>
         /\ ~l2sub => l2stream' = l2stream
         /\ l2sub => l2stream' = Append(Append(l2stream, TotalMsg(orders', s, p)), TotalMsg(orders', s, r))
<1>1. PICK levels : levels = <<<<s, p>>, <<s, r>>>>
  OBVIOUS
<1>2. /\ levels[1][1] = s /\ levels[1][2] = p /\ levels[2][1] = s /\ levels[2][2] = r
      /\ DOMAIN levels = 1 .. 2
  BY <1>1
<1>3. PICK m, n : m = L2Msg(s, p, Total(os, s, p)) /\ n = L2Msg(s, r, Total(os, s, r))
  OBVIOUS
<1>4. PICK f : f = [i \in DOMAIN levels |->
                      L2Msg(levels[i][1], levels[i][2], Total(os, levels[i][1], levels[i][2]))]
  OBVIOUS
<1>5. f = <<m, n>>
  <2>1. DOMAIN f = 1 .. 2 /\ f[1] = m /\ f[2] = n
    BY <1>2, <1>3, <1>4
  <2>2. f = [i \in 1 .. 2 |-> f[i]]
    BY <1>2, <1>4
  <2> QED
    BY <2>1, <2>2
<1>6. /\ orders' = os /\ UNCHANGED <<l2book, l2sub>>
      /\ ~l2sub => l2stream' = l2stream
      /\ l2sub => l2stream' = l2stream \o f
  BY <1>1, <1>4 DEF Publish
<1>7. m \in L2Messages /\ n \in L2Messages
  BY <1>3, TotalMsgTyped DEF TotalMsg
<1>8. l2stream \o <<m, n>> = Append(Append(l2stream, m), n)
  BY <1>7
<1> QED
  BY <1>3, <1>5, <1>6, <1>8 DEF TotalMsg

LEMMA EventMoves ==
  ASSUME ExchangeOK, l2stream \in Seq(L2Messages),
         NEW ids, ids \subseteq Ids, NEW prices, prices \subseteq Prices, ExchangeStep(ids, prices)
  PROVE  \E s \in Sides, from \in Prices, to \in Prices : Moves(s, from, to)
<1> USE QtyAssumption
<1>1. OrdersTyped(orders) /\ OrdersTyped(orders')
  BY ExchangeEvent DEF OrdersTyped, ExchangeOK
<1>2. ASSUME NEW id \in ids, NEW s \in Sides, NEW p \in prices, NEW q \in Qtys, Rest(id, s, p, q)
      PROVE  \E t \in Sides, from \in Prices, to \in Prices : Moves(t, from, to)
  <2>1. PICK os : os = Put(orders, id, [side |-> s, price |-> p, qty |-> q])
    OBVIOUS
  <2>2. id \notin DOMAIN orders /\ \E msg : Publish(os, msg, <<<<s, p>>>>)
    BY <1>2, <2>1, Zenon DEF Rest
  <2>3. orders' = os
    BY <2>2 DEF Publish
  <2>4. /\ UNCHANGED <<l2book, l2sub>>
        /\ ~l2sub => l2stream' = l2stream
        /\ l2sub => l2stream' = Append(l2stream, TotalMsg(orders', s, p))
    BY <1>1, <2>2, <2>3, PublishedOne
  <2>5. /\ DOMAIN orders' = DOMAIN orders \cup {id} /\ \A x \in DOMAIN orders : orders'[x] = orders[x]
        /\ orders'[id].side = s /\ orders'[id].price = p
    BY <2>1, <2>2, <2>3 DEF Put
  <2>6. \A t \in Sides, r \in Prices : At(orders, t, r) \subseteq At(orders', t, r)
    BY <2>5 DEF At
  <2>7. ASSUME NEW t \in Sides, NEW r \in Prices, t # s \/ r # p
        PROVE  Total(orders', t, r) = Total(orders, t, r)
    <3>1. At(orders', t, r) = At(orders, t, r) /\ \A x \in At(orders, t, r) : orders'[x].qty = orders[x].qty
      BY <2>5, <2>7 DEF At
    <3> QED
      BY <1>1, <3>1, TotalSame
  <2> QED
    BY <2>4, <2>6, <2>7 DEF Moves
<1>3. ASSUME NEW id \in DOMAIN orders, NEW q \in Qtys, FillPart(id, q)
      PROVE  \E t \in Sides, from \in Prices, to \in Prices : Moves(t, from, to)
  <2>1. PICK o : o = orders[id] /\ o \in Order
    BY <1>1 DEF OrdersTyped
  <2>2. o.side \in Sides /\ o.price \in Prices /\ o.qty \in Nat
    BY <2>1 DEF Order
  <2>3. PICK os : os = [orders EXCEPT ![id].qty = @ - q]
    OBVIOUS
  <2>4. \E msg : Publish(os, msg, <<<<o.side, o.price>>>>)
    BY <1>3, <2>1, <2>3, Zenon DEF FillPart
  <2>5. orders' = os
    BY <2>4 DEF Publish
  <2>6. /\ UNCHANGED <<l2book, l2sub>>
        /\ ~l2sub => l2stream' = l2stream
        /\ l2sub => l2stream' = Append(l2stream, TotalMsg(orders', o.side, o.price))
    BY <1>1, <2>2, <2>4, <2>5, PublishedOne
  <2>7. /\ DOMAIN orders' = DOMAIN orders
        /\ \A x \in DOMAIN orders : orders'[x].side = orders[x].side /\ orders'[x].price = orders[x].price
        /\ \A x \in DOMAIN orders \ {id} : orders'[x] = orders[x]
    BY <2>1, <2>3, <2>5 DEF Order
  <2>8. \A t \in Sides, r \in Prices : At(orders, t, r) = At(orders', t, r)
    BY <2>7 DEF At
  <2>9. ASSUME NEW t \in Sides, NEW r \in Prices, t # o.side \/ r # o.price
        PROVE  Total(orders', t, r) = Total(orders, t, r)
    <3>1. \A x \in At(orders, t, r) : orders'[x].qty = orders[x].qty
      BY <2>1, <2>7, <2>9 DEF At
    <3> QED
      BY <1>1, <2>8, <3>1, TotalSame
  <2> QED
    BY <2>2, <2>6, <2>8, <2>9 DEF Moves
<1>4. ASSUME NEW id \in DOMAIN orders, NEW type, Leave(id, type)
      PROVE  \E t \in Sides, from \in Prices, to \in Prices : Moves(t, from, to)
  <2>1. PICK o : o = orders[id] /\ o \in Order
    BY <1>1 DEF OrdersTyped
  <2>2. o.side \in Sides /\ o.price \in Prices
    BY <2>1 DEF Order
  <2>3. \E msg : Publish(Without(id), msg, <<<<o.side, o.price>>>>)
    BY <1>4, <2>1, Zenon DEF Leave
  <2>4. orders' = Without(id)
    BY <2>3 DEF Publish
  <2>5. /\ UNCHANGED <<l2book, l2sub>>
        /\ ~l2sub => l2stream' = l2stream
        /\ l2sub => l2stream' = Append(l2stream, TotalMsg(orders', o.side, o.price))
    BY <1>1, <2>2, <2>3, <2>4, PublishedOne
  <2>6. /\ DOMAIN orders' = DOMAIN orders \ {id}
        /\ \A x \in DOMAIN orders \ {id} : orders'[x] = orders[x]
    BY <2>4 DEF Without, Restrict
  <2>7. \A t \in Sides, r \in Prices : t # o.side \/ r # o.price => At(orders, t, r) = At(orders', t, r)
    BY <2>1, <2>6 DEF At
  <2>8. ASSUME NEW t \in Sides, NEW r \in Prices, t # o.side \/ r # o.price
        PROVE  Total(orders', t, r) = Total(orders, t, r)
    <3>1. \A x \in At(orders, t, r) : orders'[x].qty = orders[x].qty
      BY <2>1, <2>6, <2>8 DEF At
    <3> QED
      BY <1>1, <2>7, <2>8, <3>1, TotalSame
  <2> QED
    BY <2>2, <2>5, <2>7, <2>8 DEF Moves
<1>5. ASSUME NEW id \in DOMAIN orders, NEW p \in prices, NEW q \in Qtys, Replace(id, p, q)
      PROVE  \E t \in Sides, from \in Prices, to \in Prices : Moves(t, from, to)
  <2>1. PICK o : o = orders[id] /\ o \in Order
    BY <1>1 DEF OrdersTyped
  <2>2. o.side \in Sides /\ o.price \in Prices /\ p \in Prices
    BY <2>1 DEF Order
  <2>3. PICK os : os = [orders EXCEPT ![id].price = p, ![id].qty = q]
    OBVIOUS
  <2>4. PICK msg : Publish(os, msg, IF p = o.price THEN <<<<o.side, p>>>>
                                    ELSE <<<<o.side, o.price>>, <<o.side, p>>>>)
    BY <1>5, <2>1, <2>3, Zenon DEF Replace
  <2>5. orders' = os
    BY <2>4 DEF Publish
  <2>6. /\ UNCHANGED <<l2book, l2sub>>
        /\ ~l2sub => l2stream' = l2stream
        /\ l2sub => \/ o.price = p /\ l2stream' = Append(l2stream, TotalMsg(orders', o.side, o.price))
                    \/ l2stream' = Append(Append(l2stream, TotalMsg(orders', o.side, o.price)),
                                          TotalMsg(orders', o.side, p))
    <3>1. CASE p = o.price
      <4>1. Publish(os, msg, <<<<o.side, p>>>>)
        BY <2>4, <3>1
      <4> QED
        BY <1>1, <2>2, <2>5, <3>1, <4>1, PublishedOne
    <3>2. CASE p # o.price
      <4>1. Publish(os, msg, <<<<o.side, o.price>>, <<o.side, p>>>>)
        BY <2>4, <3>2
      <4> QED
        BY <1>1, <2>2, <2>5, <4>1, PublishedTwo
    <3> QED
      BY <3>1, <3>2
  <2>7. /\ DOMAIN orders' = DOMAIN orders /\ orders'[id].side = o.side /\ orders'[id].price = p
        /\ \A x \in DOMAIN orders \ {id} : orders'[x] = orders[x]
    BY <2>1, <2>3, <2>5 DEF Order
  <2>8. \A t \in Sides, r \in Prices : t # o.side \/ r # o.price => At(orders, t, r) \subseteq At(orders', t, r)
    BY <2>1, <2>7 DEF At
  <2>9. ASSUME NEW t \in Sides, NEW r \in Prices, t # o.side \/ (r # o.price /\ r # p)
        PROVE  Total(orders', t, r) = Total(orders, t, r)
    <3>1. At(orders', t, r) = At(orders, t, r) /\ id \notin At(orders, t, r)
      BY <2>1, <2>7, <2>9 DEF At
    <3>2. \A x \in At(orders, t, r) : orders'[x].qty = orders[x].qty
      BY <2>7, <3>1 DEF At
    <3> QED
      BY <1>1, <3>1, <3>2, TotalSame
  <2> QED
    BY <2>2, <2>6, <2>8, <2>9 DEF Moves
<1> QED
  BY <1>2, <1>3, <1>4, <1>5 DEF ExchangeStep

-----------------------------------------------------------------------------
(* An L2 snapshot: the book empties, and then shows level after level.        *)
SnapshotLevels == {sp \in Sides \X Prices : At(orders, sp[1], sp[2]) # {}}

LevelMsgs == {L2Msg(level[1], level[2], Total(orders, level[1], level[2])) : level \in SnapshotLevels}

LEMMA SeqOfSet ==
  ASSUME NEW S, IsFiniteSet(S)
  PROVE  /\ SetToSeq(S) \in Seq(S)
         /\ \A x \in S : \E i \in 1 .. Len(SetToSeq(S)) : SetToSeq(S)[i] = x
<1>1. PICK n : n = Cardinality(S)
  OBVIOUS
<1>2. n \in Nat /\ ExistsBijection(1 .. n, S)
  BY <1>1, FS_CardinalityType
<1>3. PICK r : r = SetToSeq(S)
  OBVIOUS
<1>4. r \in [1 .. n -> S] /\ IsInjective(r)
  <2>1. \E f \in [1 .. n -> S] : IsInjective(f)
    BY <1>2 DEF ExistsBijection, Bijection, Injection
  <2> QED
    BY <1>1, <1>3, <2>1, Zenon DEF SetToSeq
<1>5. r \in Seq(S) /\ Len(r) = n
  BY <1>2, <1>4
<1>6. r \in Injection(1 .. n, S)
  BY <1>4 DEF Injection
<1>7. Cardinality(1 .. n) = n
  BY <1>2, FS_Interval
<1>8. r \in Surjection(1 .. n, S)
  BY <1>1, <1>6, <1>7, FS_Injection
<1>9. \A x \in S : \E i \in 1 .. n : r[i] = x
  BY <1>8 DEF Surjection
<1> QED
  BY <1>3, <1>5, <1>9

LEMMA LevelMsgsFinite ==
  ASSUME OrdersTyped(orders)
  PROVE  IsFiniteSet(LevelMsgs)
<1>1. IsFiniteSet(Sides \X Prices)
  <2>1. IsFiniteSet(Sides)
    <3>1. IsFiniteSet({"Buy"} \cup {"Sell"})
      BY FS_Singleton, FS_AddElement
    <3>2. Sides = {"Buy"} \cup {"Sell"}
      BY DEF Sides
    <3> QED
      BY <3>1, <3>2
  <2> QED
    BY <2>1, WidthAssumption, FS_Product
<1>2. PICK S, T : S = SnapshotLevels /\ T = LevelMsgs
  OBVIOUS
<1>3. IsFiniteSet(S)
  BY <1>1, <1>2, FS_Subset DEF SnapshotLevels
<1>4. PICK f : f = [level \in S |-> L2Msg(level[1], level[2], Total(orders, level[1], level[2]))]
  OBVIOUS
<1>5. f \in Surjection(S, T)
  <2>1. \A m \in T : \E level \in S : m = L2Msg(level[1], level[2], Total(orders, level[1], level[2]))
    BY <1>2 DEF LevelMsgs
  <2>2. \A m \in T : \E level \in S : f[level] = m
    BY <1>4, <2>1
  <2>3. \A level \in S : f[level] \in T
    BY <1>2, <1>4 DEF LevelMsgs
  <2>4. f \in [S -> T]
    BY <1>4, <2>3
  <2> QED
    BY <2>2, <2>4 DEF Surjection
<1> QED
  BY <1>2, <1>3, <1>5, FS_Surjection

LEMMA L2SnapshotIs ==
  ASSUME OrdersTyped(orders)
  PROVE  \E n \in Nat :
           /\ DOMAIN L2Snapshot = 1 .. (n + 1) /\ L2Snapshot \in Seq(L2Messages)
           /\ L2Snapshot[1] = L2Msg("None", AnyPrice, 0)
           /\ \A k \in 1 .. n : L2Snapshot[k + 1] \in LevelMsgs
           /\ \A m \in LevelMsgs : \E k \in 1 .. n : L2Snapshot[k + 1] = m
<1>1. PICK r : r = SetToSeq(LevelMsgs)
  OBVIOUS
<1>2. r \in Seq(LevelMsgs) /\ \A m \in LevelMsgs : \E i \in 1 .. Len(r) : r[i] = m
  BY <1>1, LevelMsgsFinite, SeqOfSet
<1>3. PICK n : n = Len(r) /\ n \in Nat
  BY <1>2
<1>4. L2Snapshot = <<L2Msg("None", AnyPrice, 0)>> \o r
  BY <1>1, Zenon DEF L2Snapshot, LevelMsgs, SnapshotLevels
<1>5. LevelMsgs \subseteq L2Messages
  <2>1. ASSUME NEW level \in SnapshotLevels
        PROVE  L2Msg(level[1], level[2], Total(orders, level[1], level[2])) \in L2Messages
    <3>1. level[1] \in Sides /\ level[2] \in Prices
      BY DEF SnapshotLevels
    <3> QED
      BY <3>1, TotalMsgTyped DEF TotalMsg
  <2> QED
    BY <2>1 DEF LevelMsgs
<1>6. PICK h : h = <<L2Msg("None", AnyPrice, 0)>>
  OBVIOUS
<1>7. h \in Seq(L2Messages) /\ Len(h) = 1 /\ h[1] = L2Msg("None", AnyPrice, 0)
  BY <1>6 DEF L2Messages
<1>8. r \in Seq(L2Messages)
  BY <1>2, <1>5
<1>9. /\ h \o r \in Seq(L2Messages) /\ Len(h \o r) = Len(h) + Len(r)
      /\ \A j \in 1 .. Len(h) + Len(r) : (h \o r)[j] = IF j <= Len(h) THEN h[j] ELSE r[j - Len(h)]
  BY <1>7, <1>8, ConcatProperties
<1>10. PICK s : s = h \o r
  OBVIOUS
<1>11. /\ s \in Seq(L2Messages) /\ DOMAIN s = 1 .. (n + 1) /\ s[1] = L2Msg("None", AnyPrice, 0)
       /\ \A k \in 1 .. n : s[k + 1] = r[k]
  BY <1>3, <1>7, <1>9, <1>10
<1>12. \A k \in 1 .. n : s[k + 1] \in LevelMsgs
  BY <1>2, <1>3, <1>11
<1>13. \A m \in LevelMsgs : \E k \in 1 .. n : s[k + 1] = m
  BY <1>2, <1>3, <1>11
<1>14. L2Snapshot = s
  BY <1>4, <1>6, <1>10
<1> QED
  BY <1>3, <1>11, <1>12, <1>13, <1>14

LEMMA NotCrossedWithin ==
  ASSUME NEW os, Uncrossed(os), NEW lv, Within(lv, os)
  PROVE  NotCrossed(lv)
<1> SUFFICES ASSUME NEW p \in DOMAIN lv["Buy"], NEW r \in DOMAIN lv["Sell"] PROVE p < r
  BY DEF NotCrossed
<1>1. PICK i \in At(os, "Buy", p) : TRUE
  BY DEF Within, Sides
<1>2. PICK j \in At(os, "Sell", r) : TRUE
  BY DEF Within, Sides
<1> QED
  BY <1>1, <1>2 DEF At, Uncrossed

LEMMA NoLevelsShown ==
  LevelsTyped(NoLevels) /\ (\A os : Within(NoLevels, os)) /\ NotCrossed(NoLevels)
<1>1. DOMAIN NoLevels = Sides /\ \A s \in Sides : NoLevels[s] = <<>>
  BY DEF NoLevels, Sides
<1>2. DOMAIN << >> = {} /\ << >> \in [DOMAIN << >> -> Nat]
  OBVIOUS
<1>3. "Buy" \in Sides
  BY DEF Sides
<1> QED
  BY <1>1, <1>2, <1>3 DEF LevelsTyped, Within, NotCrossed

LEMMA L2SnapshotShows ==
  ASSUME OrdersTyped(orders), NEW who, who = "mm-advanced" => Uncrossed(orders),
         NEW base, Tame(who, base)
  PROVE  \E last : Along(who, base, L2Snapshot, last) /\ Exact(last, orders, AllLevels)
<1>1. PICK n \in Nat : /\ DOMAIN L2Snapshot = 1 .. (n + 1) /\ L2Snapshot \in Seq(L2Messages)
                       /\ L2Snapshot[1] = L2Msg("None", AnyPrice, 0)
                       /\ \A k \in 1 .. n : L2Snapshot[k + 1] \in LevelMsgs
                       /\ \A m \in LevelMsgs : \E k \in 1 .. n : L2Snapshot[k + 1] = m
  BY L2SnapshotIs
<1>2. PICK s : s = L2Snapshot
  OBVIOUS
<1>3. PICK m : m = n + 1 /\ m \in Nat /\ Len(s) = m /\ DOMAIN s = 1 .. m
  BY <1>1, <1>2
<1>4. PICK h : L!Leads(h, base, s, m)
  BY <1>3, L!FoldHas
<1>5. h[0] = base /\ \A k \in 1 .. m : h[k] = UpdateL2(h[k - 1], s[k])
  BY <1>4 DEF L!Leads
<1>6. h[1] = NoLevels
  <2>1. 1 \in 1 .. m /\ L2Msg("None", AnyPrice, 0).side = "None"
    BY <1>3 DEF L2Msg
  <2>2. h[1] = UpdateL2(h[1 - 1], s[1])
    BY <1>5, <2>1
  <2> QED
    BY <1>1, <1>2, <2>1, <2>2 DEF UpdateL2
<1>7. PICK Z, X : /\ Z = {sp \in AllLevels : Total(orders, sp[1], sp[2]) = 0}
                  /\ X = [k \in 0 .. n |-> Z \cup {<<s[i + 1].side, s[i + 1].p>> : i \in 1 .. k}]
  OBVIOUS
<1>8. PICK T : T = {k \in Nat : k <= n => /\ LevelsTyped(h[k + 1]) /\ Within(h[k + 1], orders)
                                         /\ Exact(h[k + 1], orders, X[k])}
  OBVIOUS
<1>9. 0 \in T
  <2>1. X[0] = Z
    <3>1. {<<s[i + 1].side, s[i + 1].p>> : i \in 1 .. 0} = {}
      OBVIOUS
    <3> QED
      BY <1>7, <3>1
  <2>2. Exact(NoLevels, orders, Z)
    <3>1. \A t \in Sides : DOMAIN NoLevels[t] = {}
      BY DEF NoLevels, Sides
    <3>2. \A t \in Sides, p \in Prices : <<t, p>> \in Z => Total(orders, t, p) = 0
      BY <1>7
    <3> QED
      BY <3>1, <3>2 DEF Exact
  <2> QED
    BY <1>6, <1>8, <2>1, <2>2, NoLevelsShown
<1>10. ASSUME NEW k \in Nat, k \in T PROVE k + 1 \in T
  <2> SUFFICES ASSUME k + 1 <= n
               PROVE  /\ LevelsTyped(h[(k + 1) + 1]) /\ Within(h[(k + 1) + 1], orders)
                      /\ Exact(h[(k + 1) + 1], orders, X[k + 1])
    BY <1>8
  <2>1. LevelsTyped(h[k + 1]) /\ Within(h[k + 1], orders) /\ Exact(h[k + 1], orders, X[k])
    BY <1>8, <1>10
  <2>2. PICK u : u = s[(k + 1) + 1]
    OBVIOUS
  <2>3. k + 1 \in 1 .. n /\ (k + 1) + 1 \in 1 .. m /\ ((k + 1) + 1) - 1 = k + 1
    BY <1>3
  <2>4. u \in LevelMsgs
    BY <1>1, <1>2, <2>2, <2>3
  <2>5. PICK level \in SnapshotLevels : u = L2Msg(level[1], level[2], Total(orders, level[1], level[2]))
    BY <2>4 DEF LevelMsgs
  <2>6. PICK t \in Sides, p \in Prices : t = level[1] /\ p = level[2]
    BY DEF SnapshotLevels
  <2>7. u = TotalMsg(orders, t, p) /\ u.side = t /\ u.p = p
    BY <2>5, <2>6 DEF TotalMsg, L2Msg
  <2>8. PICK c : c = h[(k + 1) + 1]
    OBVIOUS
  <2>9. c = UpdateL2(h[k + 1], TotalMsg(orders, t, p))
    <3>1. h[(k + 1) + 1] = UpdateL2(h[((k + 1) + 1) - 1], s[(k + 1) + 1])
      BY <1>5, <2>3
    <3> QED
      BY <2>2, <2>3, <2>7, <2>8, <3>1, Zenon
  <2>10. /\ LevelsTyped(c) /\ Within(c, orders)
         /\ \A Y : Exact(h[k + 1], orders, Y) => Exact(c, orders, Y \cup {<<t, p>>})
    <3>1. PICK lv : lv = h[k + 1]
      OBVIOUS
    <3>2. WithinBut(lv, orders, t, p)
      BY <2>1, <3>1 DEF Within, WithinBut
    <3>3. LevelsTyped(lv) /\ c = UpdateL2(lv, TotalMsg(orders, t, p))
      BY <2>1, <2>9, <3>1
    <3>4. ShowsMore(lv, c, orders, t, p)
      BY <3>2, <3>3, TotalShown
    <3> QED
      BY <3>1, <3>4 DEF ShowsMore
  <2>11. X[k + 1] = X[k] \cup {<<t, p>>}
    <3>1. \A i : i \in 1 .. (k + 1) <=> i \in 1 .. k \/ i = k + 1
      OBVIOUS
    <3>2. X[k + 1] = Z \cup {<<s[i + 1].side, s[i + 1].p>> : i \in 1 .. (k + 1)}
      BY <1>7, <2>3
    <3>3. X[k] = Z \cup {<<s[i + 1].side, s[i + 1].p>> : i \in 1 .. k}
      BY <1>7, <2>3
    <3>4. {<<s[i + 1].side, s[i + 1].p>> : i \in 1 .. (k + 1)}
            = {<<s[i + 1].side, s[i + 1].p>> : i \in 1 .. k} \cup {<<u.side, u.p>>}
      BY <2>2, <3>1
    <3> QED
      BY <2>7, <3>2, <3>3, <3>4
  <2>12. Exact(c, orders, X[k + 1])
    BY <2>1, <2>10, <2>11
  <2> QED
    BY <2>8, <2>10, <2>12
<1>11. ASSUME NEW k \in Nat, k <= n
       PROVE  LevelsTyped(h[k + 1]) /\ Within(h[k + 1], orders) /\ Exact(h[k + 1], orders, X[k])
  <2>1. k \in T
    BY <1>9, <1>10, L!NatSetInduction
  <2> QED
    BY <1>8, <1>11, <2>1
<1>12. ASSUME NEW k \in 0 .. m PROVE Tame(who, h[k])
  <2>1. CASE k = 0
    BY <1>5, <2>1
  <2>2. CASE k # 0
    <3>1. k - 1 \in Nat /\ k - 1 <= n /\ (k - 1) + 1 = k
      BY <1>3, <2>2
    <3>2. LevelsTyped(h[k]) /\ Within(h[k], orders)
      BY <1>11, <3>1
    <3> QED
      BY <3>2, NotCrossedWithin DEF Tame
  <2> QED
    BY <2>1, <2>2
<1>13. Passes(h, who, base, s, m)
  BY <1>5, <1>12, Zenon DEF Passes
<1>14. Along(who, base, s, h[m])
  BY <1>3, <1>13, Zenon DEF Along
<1>15. Exact(h[m], orders, AllLevels)
  <2>1. Exact(h[m], orders, X[n])
    BY <1>3, <1>11
  <2>2. ASSUME NEW t \in Sides, NEW p \in Prices PROVE <<t, p>> \in X[n]
    <3>1. CASE Total(orders, t, p) = 0
      BY <1>7, <3>1 DEF AllLevels
    <3>2. CASE Total(orders, t, p) # 0
      <4>1. At(orders, t, p) # {}
        BY <3>2, TotalAdds
      <4>2. L2Msg(t, p, Total(orders, t, p)) \in LevelMsgs
        <5>1. PICK level : level = <<t, p>>
          OBVIOUS
        <5>2. level \in SnapshotLevels /\ level[1] = t /\ level[2] = p
          BY <4>1, <5>1 DEF SnapshotLevels
        <5> QED
          BY <5>2 DEF LevelMsgs
      <4>3. PICK k \in 1 .. n : s[k + 1] = L2Msg(t, p, Total(orders, t, p))
        BY <1>1, <1>2, <4>2
      <4>4. s[k + 1].side = t /\ s[k + 1].p = p
        BY <4>3 DEF L2Msg
      <4>5. X[n] = Z \cup {<<s[i + 1].side, s[i + 1].p>> : i \in 1 .. n}
        <5>1. n \in 0 .. n
          OBVIOUS
        <5> QED
          BY <1>7, <5>1, Zenon
      <4> QED
        BY <4>4, <4>5
    <3> QED
      BY <3>1, <3>2
  <2> QED
    BY <2>1, <2>2 DEF Exact
<1> QED
  BY <1>2, <1>14, <1>15

-----------------------------------------------------------------------------
(* The L2 subscriber: what is on its way takes its book to the exchange's     *)
(* levels, and never through a crossed book where the exchange's are not.     *)
L2Inv ==
  /\ l2sub \in BOOLEAN /\ (~l2sub => l2stream = <<>> /\ l2book = NoLevels)
  /\ l2stream \in Seq(L2Messages)
  /\ readers = "mm-advanced" => Uncrossed(orders)
  /\ \E last : /\ Along(readers, l2book, l2stream, last)
               /\ l2sub => Exact(last, orders, AllLevels)

LEMMA AlongMoves ==
  ASSUME OrdersTyped(orders), OrdersTyped(orders'), l2sub, l2stream \in Seq(L2Messages),
         NEW who, who = "mm-advanced" => Uncrossed(orders'),
         NEW x, Along(who, l2book, l2stream, x), Exact(x, orders, AllLevels),
         NEW s \in Sides, NEW from \in Prices, NEW to \in Prices, Moves(s, from, to)
  PROVE  /\ l2stream' \in Seq(L2Messages)
         /\ \E last : Along(who, l2book, l2stream', last) /\ Exact(last, orders', AllLevels)
<1>1. PICK os, X : os = orders' /\ X = AllLevels \ {<<s, from>>, <<s, to>>}
  OBVIOUS
<1>2. LevelsTyped(x)
  BY AlongEnds DEF Tame
<1>3. WithinBut(x, os, s, from)
  <2>1. ASSUME NEW t \in Sides, NEW r \in DOMAIN x[t], t # s \/ r # from PROVE At(os, t, r) # {}
    <3>1. r \in Prices /\ <<t, r>> \in AllLevels
      BY <1>2 DEF LevelsTyped, AllLevels
    <3>2. Total(orders, t, r) # 0
      BY <3>1 DEF Exact
    <3>3. At(orders, t, r) # {}
      BY <3>2, TotalAdds
    <3> QED
      BY <1>1, <2>1, <3>1, <3>3 DEF Moves
  <2> QED
    BY <2>1 DEF WithinBut
<1>4. Exact(x, os, X)
  <2>1. ASSUME NEW t \in Sides, NEW r \in Prices, <<t, r>> \in X
        PROVE  /\ r \in DOMAIN x[t] <=> Total(os, t, r) # 0
               /\ r \in DOMAIN x[t] => x[t][r] = Total(os, t, r)
    <3>1. <<t, r>> \in AllLevels /\ (t # s \/ (r # from /\ r # to))
      BY <1>1, <2>1
    <3>2. Total(os, t, r) = Total(orders, t, r)
      BY <1>1, <3>1 DEF Moves
    <3> QED
      BY <3>1, <3>2 DEF Exact
  <2> QED
    BY <2>1 DEF Exact
<1>5. PICK m, n : m = TotalMsg(os, s, from) /\ n = TotalMsg(os, s, to)
  OBVIOUS
<1>6. m \in L2Messages /\ n \in L2Messages
  BY <1>1, <1>5, TotalMsgTyped
<1>7. PICK c, d : c = UpdateL2(x, m) /\ d = UpdateL2(c, n)
  OBVIOUS
<1>8. ShowsMore(x, c, os, s, from)
  BY <1>1, <1>2, <1>3, <1>5, <1>7, TotalShown
<1>9. LevelsTyped(c) /\ Within(c, os) /\ Exact(c, os, X \cup {<<s, from>>})
  BY <1>4, <1>8 DEF ShowsMore
<1>10. ShowsMore(c, d, os, s, to)
  <2>1. WithinBut(c, os, s, to)
    BY <1>9 DEF Within, WithinBut
  <2> QED
    BY <1>1, <1>5, <1>7, <1>9, <2>1, TotalShown
<1>11. LevelsTyped(d) /\ Within(d, os) /\ Exact(d, os, (X \cup {<<s, from>>}) \cup {<<s, to>>})
  BY <1>9, <1>10 DEF ShowsMore
<1>12. Tame(who, c) /\ Tame(who, d)
  BY <1>1, <1>9, <1>11, NotCrossedWithin DEF Tame
<1>13. PICK q : q = Append(l2stream, m)
  OBVIOUS
<1>14. q \in Seq(L2Messages) /\ Append(q, n) \in Seq(L2Messages)
  BY <1>6, <1>13
<1>15. Along(who, l2book, q, c)
  BY <1>6, <1>7, <1>12, <1>13, AlongAppend
<1>16. Along(who, l2book, Append(q, n), d)
  BY <1>6, <1>7, <1>12, <1>14, <1>15, AlongAppend
<1>17. CASE from = to /\ l2stream' = q
  <2>1. X \cup {<<s, from>>} = AllLevels
    BY <1>1, <1>17 DEF AllLevels
  <2> QED
    BY <1>1, <1>9, <1>14, <1>15, <1>17, <2>1
<1>18. CASE l2stream' = Append(q, n)
  <2>1. (X \cup {<<s, from>>}) \cup {<<s, to>>} = AllLevels
    BY <1>1 DEF AllLevels
  <2> QED
    BY <1>1, <1>11, <1>14, <1>16, <1>18, <2>1
<1> QED
  BY <1>1, <1>5, <1>13, <1>17, <1>18 DEF Moves

LEMMA LevelsMove ==
  ASSUME FeedInv, L2Inv, readers' = readers, NEW ids, ids \subseteq Ids, NEW prices, prices \subseteq Prices,
         ExchangeStep(ids, prices), readers = "mm-advanced" => Uncrossed(orders')
  PROVE  L2Inv'
<1>1. ExchangeOK /\ ExchangeOK'
  BY ExchangeEvent DEF FeedInv
<1>2. OrdersTyped(orders) /\ OrdersTyped(orders')
  BY <1>1 DEF ExchangeOK, OrdersTyped
<1>3. PICK s \in Sides, from \in Prices, to \in Prices : Moves(s, from, to)
  BY <1>1, EventMoves DEF L2Inv
<1>4. l2book' = l2book /\ l2sub' = l2sub /\ (~l2sub => l2stream' = l2stream)
  BY <1>3 DEF Moves
<1>5. PICK x : Along(readers, l2book, l2stream, x) /\ (l2sub => Exact(x, orders, AllLevels))
  BY DEF L2Inv
<1>6. CASE ~l2sub
  <2>1. Along(readers', l2book', l2stream', x)
    BY <1>4, <1>5, <1>6
  <2> QED
    BY <1>4, <1>6, <2>1 DEF L2Inv
<1>7. CASE l2sub
  <2>1. /\ l2stream' \in Seq(L2Messages)
        /\ \E last : Along(readers, l2book, l2stream', last) /\ Exact(last, orders', AllLevels)
    BY <1>2, <1>3, <1>5, <1>7, AlongMoves DEF L2Inv
  <2> QED
    BY <1>4, <1>7, <2>1 DEF L2Inv
<1> QED
  BY <1>6, <1>7 DEF L2Inv

LEMMA LevelsUpdate ==
  ASSUME L2Inv, readers' = readers, OnL2Update
  PROVE  L2Inv'
<1>1. /\ l2stream # <<>> /\ l2book' = UpdateL2(l2book, Head(l2stream)) /\ l2stream' = Tail(l2stream)
      /\ orders' = orders /\ l2sub' = l2sub
  BY DEF OnL2Update, exchange
<1>2. l2stream \in Seq(L2Messages) /\ l2sub
  BY <1>1 DEF L2Inv
<1>3. l2stream' \in Seq(L2Messages)
  BY <1>1, <1>2
<1>4. PICK x : Along(readers, l2book, l2stream, x) /\ Exact(x, orders, AllLevels)
  BY <1>2 DEF L2Inv
<1>5. Along(readers, l2book', l2stream', x)
  BY <1>1, <1>2, <1>4, AlongTail
<1>6. Uncrossed(orders)' <=> Uncrossed(orders)
  BY <1>1 DEF Uncrossed
<1> QED
  BY <1>1, <1>2, <1>3, <1>4, <1>5, <1>6 DEF L2Inv

LEMMA LevelsStartAgain ==
  ASSUME L2Inv, readers' = readers, RestartL2
  PROVE  L2Inv'
<1>1. l2book' = NoLevels /\ l2stream' = <<>> /\ l2sub' = FALSE /\ orders' = orders
  BY DEF RestartL2, exchange
<1>2. Along(readers, NoLevels, <<>>, NoLevels)
  BY NoLevelsShown, AlongNothing DEF Tame
<1>3. l2stream' \in Seq(L2Messages)
  BY <1>1
<1>4. Uncrossed(orders)' <=> Uncrossed(orders)
  BY <1>1 DEF Uncrossed
<1> QED
  BY <1>1, <1>2, <1>3, <1>4 DEF L2Inv

LEMMA LevelsSubscribe ==
  ASSUME FeedInv, L2Inv, readers' = readers, SubscribeL2
  PROVE  L2Inv'
<1>1. l2stream' = L2Snapshot /\ l2sub' = TRUE /\ l2book' = l2book /\ orders' = orders
  BY DEF SubscribeL2, exchange
<1>2. OrdersTyped(orders)
  BY DEF FeedInv, ExchangeOK, OrdersTyped
<1>3. Tame(readers, l2book)
  BY AlongEnds DEF L2Inv
<1>4. PICK last : Along(readers, l2book, L2Snapshot, last) /\ Exact(last, orders, AllLevels)
  BY <1>2, <1>3, L2SnapshotShows DEF L2Inv
<1>5. L2Snapshot \in Seq(L2Messages)
  BY <1>2, L2SnapshotIs
<1>6. Uncrossed(orders)' <=> Uncrossed(orders)
  BY <1>1 DEF Uncrossed
<1> QED
  BY <1>1, <1>4, <1>5, <1>6 DEF L2Inv

LEMMA LevelsStay ==
  ASSUME L2Inv, readers' = readers, UNCHANGED <<exchange, l2vars>>
  PROVE  L2Inv'
<1>1. orders' = orders /\ l2book' = l2book /\ l2stream' = l2stream /\ l2sub' = l2sub
  BY DEF exchange, l2vars
<1>2. Uncrossed(orders)' <=> Uncrossed(orders)
  BY <1>1 DEF Uncrossed
<1> QED
  BY <1>1, <1>2 DEF L2Inv

LEMMA LevelsStart == MicroInit => L2Inv
<1> SUFFICES ASSUME MicroInit PROVE L2Inv
  OBVIOUS
<1>1. orders = <<>> /\ l2book = NoLevels /\ l2stream = <<>> /\ l2sub = FALSE
  BY DEF MicroInit, FeedInit
<1>2. Along(readers, NoLevels, <<>>, NoLevels)
  BY NoLevelsShown, AlongNothing DEF Tame
<1>3. l2stream \in Seq(L2Messages) /\ Uncrossed(orders)
  BY <1>1 DEF Uncrossed
<1> QED
  BY <1>1, <1>2, <1>3 DEF L2Inv

LEMMA LevelsSteps == FeedInv /\ L2Inv /\ [MicroNext]_vars => L2Inv'
<1> SUFFICES ASSUME FeedInv, L2Inv, [MicroNext]_vars PROVE L2Inv'
  OBVIOUS
<1>1. CASE UNCHANGED vars
  BY <1>1, LevelsStay DEF vars, feeds
<1>2. CASE MicroNext
  <2>1. readers' = readers
    BY <1>2 DEF MicroNext
  <2>2. ASSUME MakerNext PROVE L2Inv'
    <3>1. CASE OnL2Signals
      BY <2>1, <3>1, LevelsUpdate DEF OnL2Signals
    <3>2. CASE RestartMaker
      BY <2>1, <3>2, LevelsStartAgain DEF RestartMaker
    <3>3. CASE MatchingStep
      BY <2>1, <3>3, LevelsMove DEF MatchingStep
    <3>4. CASE SubscribeL2
      BY <2>1, <3>4, LevelsSubscribe
    <3> QED
      BY <2>2, <3>1, <3>2, <3>3, <3>4 DEF MakerNext
  <2>3. ASSUME readers = "displayers", FeedNext PROVE L2Inv'
    <3>1. CASE ExchangeStep(FeedIds, FeedPrices)
      BY <2>1, <2>3, <3>1, FeedAssumption, LevelsMove
    <3>2. CASE OnL3Update \/ RestartL3 \/ SubscribeL3
      BY <2>1, <3>2, LevelsStay DEF OnL3Update, RestartL3, SubscribeL3
    <3>3. CASE OnL2Update
      BY <2>1, <3>3, LevelsUpdate
    <3>4. CASE RestartL2
      BY <2>1, <3>4, LevelsStartAgain
    <3>5. CASE SubscribeL2
      BY <2>1, <3>5, LevelsSubscribe
    <3> QED
      BY <2>3, <3>1, <3>2, <3>3, <3>4, <3>5 DEF FeedNext
  <2>4. ASSUME UNCHANGED <<exchange, l2vars>> PROVE L2Inv'
    BY <2>1, <2>4, LevelsStay
  <2> QED
    BY <1>2, <2>2, <2>3, <2>4 DEF MicroNext
<1> QED
  BY <1>1, <1>2

LEMMA LevelsInductive == MicroSpec => []L2Inv
  BY LevelsStart, LevelsSteps, FeedInductive, PTL DEF MicroSpec

-----------------------------------------------------------------------------
(* What display() adds up for a level of the L3 book is the exchange's total. *)
AddQty(sum, id) == sum + book.orders[id].qty

D == INSTANCE FoldFacts WITH Op <- AddQty

LEMMA DepthIsFold ==
  ASSUME NEW s, NEW p
  PROVE  Depth(book, s, p) = D!Fold(0, Queue(book, s, p))
  BY Zenon DEF Depth, AddQty, D!Fold, D!FoldLeft, D!MapThenFoldSet, D!Max, FoldLeft, MapThenFoldSet, Max

FirstIds(queue, k) == {queue[i] : i \in 1 .. k}

LEMMA DepthOfQueue ==
  ASSUME OrdersTyped(orders), book.orders = orders, NEW s, NEW p,
         NEW queue \in Seq(Ids), Queue(book, s, p) = queue, IsInjective(queue),
         Range(queue) = At(orders, s, p)
  PROVE  Depth(book, s, p) = Total(orders, s, p)
<1>1. PICK n : n = Len(queue) /\ n \in Nat /\ DOMAIN queue = 1 .. n
  OBVIOUS
<1>2. PICK S, g : S = At(orders, s, p) /\ g = Quantities(orders)
  OBVIOUS
<1>3. /\ IsFiniteSet(S) /\ \A id \in S : g[id] = orders[id].qty /\ g[id] \in Nat
      /\ Total(orders, s, p) = F!Sum(g, S)
  BY <1>2, TotalIs
<1>4. F!Adds(g, S)
  BY <1>3, SameFinite, F!SumAdds
<1>5. PICK h : D!Leads(h, 0, queue, n)
  BY <1>1, D!FoldHas
<1>6. /\ h[0] = 0 /\ h[n] = D!Fold(0, queue)
      /\ \A k \in 1 .. n : h[k] = h[k - 1] + orders[queue[k]].qty
  BY <1>5 DEF D!Leads, AddQty
<1>7. \A k \in 1 .. n : queue[k] \in S
  BY <1>1, <1>2 DEF Range
<1>8. \A k \in 0 .. n : FirstIds(queue, k) \in SUBSET S
  <2>1. \A k \in 0 .. n : \A i \in 1 .. k : i \in 1 .. n
    BY <1>1
  <2> QED
    BY <1>7, <2>1 DEF FirstIds
<1>9. PICK T : T = {k \in Nat : k <= n => h[k] = F!Sum(g, FirstIds(queue, k))}
  OBVIOUS
<1>10. 0 \in T
  <2>1. FirstIds(queue, 0) = {}
    BY DEF FirstIds
  <2>2. F!Sum(g, {}) = 0
    BY <1>4 DEF F!Adds
  <2>3. h[0] = F!Sum(g, FirstIds(queue, 0))
    BY <1>6, <2>1, <2>2
  <2> QED
    BY <1>9, <2>3
<1>11. ASSUME NEW k \in Nat, k \in T PROVE k + 1 \in T
  <2> SUFFICES ASSUME k + 1 <= n PROVE h[k + 1] = F!Sum(g, FirstIds(queue, k + 1))
    BY <1>9
  <2>1. PICK x : x = queue[k + 1]
    OBVIOUS
  <2>2. k + 1 \in 1 .. n /\ k + 1 \in 0 .. n /\ k \in 0 .. n /\ (k + 1) - 1 = k
    BY <1>1
  <2>3. x \in S /\ x \in FirstIds(queue, k + 1)
    BY <1>7, <2>1, <2>2 DEF FirstIds
  <2>4. FirstIds(queue, k + 1) \ {x} = FirstIds(queue, k)
    <3>1. \A i \in 1 .. k : i \in DOMAIN queue /\ i # k + 1 /\ k + 1 \in DOMAIN queue
      BY <1>1, <2>2
    <3>2. \A i \in 1 .. k : queue[i] # x
      BY <2>1, <3>1 DEF IsInjective
    <3>3. \A i \in 1 .. (k + 1) : i \in 1 .. k \/ i = k + 1
      OBVIOUS
    <3>4. \A i \in 1 .. k : i \in 1 .. (k + 1)
      OBVIOUS
    <3> QED
      BY <2>1, <3>2, <3>3, <3>4 DEF FirstIds
  <2>5. FirstIds(queue, k + 1) \in SUBSET S
    BY <1>8, <2>2
  <2>6. F!Sum(g, FirstIds(queue, k + 1)) = g[x] + F!Sum(g, FirstIds(queue, k))
    BY <1>4, <2>3, <2>4, <2>5 DEF F!Adds
  <2>7. h[k] = F!Sum(g, FirstIds(queue, k)) /\ F!Sum(g, FirstIds(queue, k)) \in Nat
    <3>1. FirstIds(queue, k) \in SUBSET S
      BY <1>8, <2>2
    <3>2. F!Sum(g, FirstIds(queue, k)) \in Nat
      BY <1>4, <3>1 DEF F!Adds
    <3> QED
      BY <1>9, <1>11, <2>2, <3>2
  <2>8. h[k + 1] = h[k] + g[x] /\ g[x] \in Nat
    BY <1>3, <1>6, <2>1, <2>2, <2>3
  <2> QED
    BY <2>6, <2>7, <2>8
<1>12. n \in T
  <2>1. Nat \subseteq T
    BY <1>10, <1>11, F!NatSetInduction
  <2> QED
    BY <1>1, <2>1
<1>13. FirstIds(queue, n) = S
  BY <1>1, <1>2 DEF FirstIds, Range
<1>14. h[n] = F!Sum(g, S)
  BY <1>9, <1>12, <1>13
<1>15. Depth(book, s, p) = D!Fold(0, queue)
  BY DepthIsFold
<1> QED
  BY <1>3, <1>6, <1>14, <1>15

-----------------------------------------------------------------------------
(* Every resting order has some quantity, where every message has.            *)
SomeQty == \A id \in DOMAIN orders : orders[id].qty # 0

LEMMA SomeQtyStep ==
  ASSUME 0 \notin Qtys, ExchangeOK, SomeQty, NEW ids, NEW prices, ExchangeStep(ids, prices)
  PROVE  SomeQty'
<1>1. orders \in [DOMAIN orders -> Order]
  BY DEF ExchangeOK
<1>2. ASSUME NEW id \in ids, NEW s \in Sides, NEW p \in prices, NEW q \in Qtys, Rest(id, s, p, q)
      PROVE  SomeQty'
  <2>1. orders' = Put(orders, id, [side |-> s, price |-> p, qty |-> q])
    BY <1>2 DEF Rest, Publish
  <2> QED
    BY <1>2, <2>1 DEF SomeQty, Put
<1>3. ASSUME NEW id \in DOMAIN orders, NEW q \in Qtys, FillPart(id, q) PROVE SomeQty'
  <2>1. orders' = [orders EXCEPT ![id].qty = @ - q] /\ q < orders[id].qty
    BY <1>3 DEF FillPart, Publish
  <2>2. q \in Nat /\ orders[id] \in Order
    BY <1>1, QtyAssumption
  <2>3. DOMAIN orders' = DOMAIN orders /\ orders'[id].qty = orders[id].qty - q
    BY <2>1, <2>2 DEF Order
  <2>4. \A x \in DOMAIN orders : x # id => orders'[x] = orders[x]
    BY <2>1
  <2>5. orders[id].qty - q # 0
    BY <2>1, <2>2 DEF Order
  <2> QED
    BY <2>3, <2>4, <2>5 DEF SomeQty
<1>4. ASSUME NEW id \in DOMAIN orders, NEW type, Leave(id, type) PROVE SomeQty'
  <2>1. orders' = Without(id)
    BY <1>4 DEF Leave, Publish
  <2> QED
    BY <2>1 DEF SomeQty, Without, Restrict
<1>5. ASSUME NEW id \in DOMAIN orders, NEW p, NEW q \in Qtys, Replace(id, p, q) PROVE SomeQty'
  <2>1. orders' = [orders EXCEPT ![id].price = p, ![id].qty = q]
    BY <1>5 DEF Replace, Publish
  <2>2. orders[id] \in Order
    BY <1>1
  <2>3. DOMAIN orders' = DOMAIN orders /\ orders'[id].qty = q
    BY <2>1, <2>2 DEF Order
  <2>4. \A x \in DOMAIN orders : x # id => orders'[x] = orders[x]
    BY <2>1
  <2> QED
    BY <1>5, <2>3, <2>4 DEF SomeQty
<1> QED
  BY <1>2, <1>3, <1>4, <1>5 DEF ExchangeStep

LEMMA SomeQtyInductive ==
  ASSUME 0 \notin Qtys
  PROVE  MicroSpec => []SomeQty
<1>1. MicroInit => SomeQty
  <2>1. DOMAIN << >> = {}
    OBVIOUS
  <2> QED
    BY <2>1 DEF MicroInit, FeedInit, SomeQty
<1>2. FeedInv /\ SomeQty /\ [MicroNext]_vars => SomeQty'
  <2> SUFFICES ASSUME FeedInv, SomeQty, [MicroNext]_vars PROVE SomeQty'
    OBVIOUS
  <2>1. ASSUME orders' = orders PROVE SomeQty'
    BY <2>1 DEF SomeQty
  <2>2. CASE UNCHANGED vars
    BY <2>1, <2>2 DEF vars, feeds, exchange
  <2>3. ASSUME NEW ids, NEW prices, ExchangeStep(ids, prices) PROVE SomeQty'
    BY <2>3, SomeQtyStep DEF FeedInv
  <2>4. CASE MicroNext
    <3>1. MakerNext => ExchangeStep(Ids, Prices) \/ orders' = orders
      BY DEF MakerNext, OnL2Signals, OnL2Update, RestartMaker, RestartL2, MatchingStep, SubscribeL2, exchange
    <3>2. FeedNext => ExchangeStep(FeedIds, FeedPrices) \/ orders' = orders
      BY DEF FeedNext, OnL3Update, RestartL3, SubscribeL3, OnL2Update, RestartL2, SubscribeL2, exchange
    <3> QED
      BY <2>1, <2>3, <2>4, <3>1, <3>2 DEF MicroNext, exchange
  <2> QED
    BY <2>2, <2>4
<1> QED
  BY <1>1, <1>2, FeedInductive, PTL DEF MicroSpec

(* Where no message has a quantity of zero, two subscribers that are up to    *)
(* date agree.  An order of zero would be a level of the L3 book that the L2  *)
(* book cannot show: its message there means that the level is gone.          *)
THEOREM SubscribersAgree ==
  ASSUME 0 \notin Qtys
  PROVE  MicroSpec => []FeedsAgree
<1>1. ASSUME FeedInv, L2Inv, SomeQty PROVE FeedsAgree
  <2> SUFFICES ASSUME l3sub, l2sub, l3stream = <<>>, l2stream = <<>>, NEW s \in Sides
               PROVE  l2book[s] = [p \in DOMAIN book.queues[s] |-> Depth(book, s, p)]
    BY DEF FeedsAgree
  <2>1. ExchangeOK /\ Good(book) /\ OrdersTyped(orders)
    BY <1>1 DEF FeedInv, ExchangeOK, OrdersTyped
  <2>2. Mirrors(book, orders, arrival)
    BY <1>1, F!FoldEmpty DEF FeedInv
  <2>3. IsExchangeBook(book) /\ book.orders = orders
    BY <2>1, <2>2, MirrorIsExchangeBook DEF Mirrors
  <2>4. PICK last : Along(readers, l2book, l2stream, last) /\ Exact(last, orders, AllLevels)
    BY <1>1 DEF L2Inv
  <2>5. Exact(l2book, orders, AllLevels)
    BY <2>4, AlongNothing
  <2>6. DOMAIN l2book[s] \subseteq Prices /\ l2book[s] \in [DOMAIN l2book[s] -> Nat]
    <3>1. l2stream \in Seq(L2Messages)
      BY <1>1 DEF L2Inv
    <3> QED
      BY <2>4, <3>1, AlongEnds DEF Tame, LevelsTyped
  <2>7. \A p \in Prices : Total(orders, s, p) # 0 <=> At(orders, s, p) # {}
    <3> SUFFICES ASSUME NEW p \in Prices
                 PROVE  Total(orders, s, p) # 0 <=> At(orders, s, p) # {}
      OBVIOUS
    <3>1. PICK total, S : total = Total(orders, s, p) /\ S = At(orders, s, p)
      OBVIOUS
    <3>2. total \in Nat /\ (S = {} => total = 0) /\ \A id \in S : orders[id].qty <= total
      BY <2>1, <3>1, TotalAdds
    <3>3. \A id \in S : orders[id].qty # 0 /\ orders[id].qty \in Nat
      BY <1>1, <2>1, <3>1 DEF SomeQty, At, OrdersTyped, Order
    <3>4. S # {} => total # 0
      BY <3>2, <3>3
    <3> QED
      BY <3>1, <3>2, <3>4
  <2>8. DOMAIN l2book[s] = DOMAIN book.queues[s]
    <3>1. DOMAIN book.queues[s] = {p \in Prices : At(orders, s, p) # {}}
      BY <2>3 DEF IsExchangeBook
    <3>2. \A p \in Prices : p \in DOMAIN l2book[s] <=> Total(orders, s, p) # 0
      BY <2>5 DEF Exact, AllLevels
    <3> QED
      BY <2>6, <2>7, <3>1, <3>2
  <2>9. ASSUME NEW p \in DOMAIN l2book[s] PROVE l2book[s][p] = Depth(book, s, p)
    <3>1. PICK queue : queue = book.queues[s][p]
      OBVIOUS
    <3>2. queue \in Seq(Ids) /\ Queue(book, s, p) = queue
      BY <2>1, <2>8, <2>9, <3>1 DEF Good, Shape, Queue
    <3>3. IsInjective(queue) /\ Range(queue) = At(orders, s, p)
      BY <2>3, <2>8, <2>9, <3>1 DEF IsExchangeBook
    <3>4. Depth(book, s, p) = Total(orders, s, p)
      BY <2>1, <2>3, <3>2, <3>3, DepthOfQueue
    <3>5. l2book[s][p] = Total(orders, s, p)
      BY <2>5, <2>6, <2>9 DEF Exact, AllLevels
    <3> QED
      BY <3>4, <3>5
  <2> QED
    BY <2>6, <2>8, <2>9
<1> QED
  BY <1>1, FeedInductive, LevelsInductive, SomeQtyInductive, PTL

-----------------------------------------------------------------------------
(* The micro price.                                                          *)
Signals == [bid : Int, bidQty : Nat, ask : Int, askQty : Nat]

\* Products with naturals, as the comparisons below need them.
LEMMA Products ==
  ASSUME NEW a \in Int, NEW b \in Int, a <= b, NEW n \in Nat
  PROVE  a * n \in Int /\ b * n \in Int /\ a * n <= b * n
<1>1. PICK d \in Nat : b = a + d
  <2>1. b - a \in Nat /\ b = a + (b - a)
    OBVIOUS
  <2> QED BY <2>1
<1>2. b * n = a * n + d * n
  BY <1>1
<1>3. a * n \in Int /\ d * n \in Nat
  BY <1>1
<1> QED BY <1>2, <1>3

(* The micro price lies between the best bid and the best ask.                *)
LEMMA Between ==
  ASSUME NEW s \in Signals, s.bid <= s.ask
  PROVE  /\ Weight(s) \in Nat /\ MicroPrice(s) \in Int
         /\ s.bid * Weight(s) <= MicroPrice(s)
         /\ MicroPrice(s) <= s.ask * Weight(s)
<1>1. s.bid \in Int /\ s.ask \in Int /\ s.bidQty \in Nat /\ s.askQty \in Nat
  BY DEF Signals
<1>2. /\ s.bid * s.bidQty \in Int /\ s.ask * s.bidQty \in Int
      /\ s.bid * s.bidQty <= s.ask * s.bidQty
  BY <1>1, Products
<1>3. /\ s.bid * s.askQty \in Int /\ s.ask * s.askQty \in Int
      /\ s.bid * s.askQty <= s.ask * s.askQty
  BY <1>1, Products
<1>4. /\ s.bid * (s.bidQty + s.askQty) = s.bid * s.bidQty + s.bid * s.askQty
      /\ s.ask * (s.bidQty + s.askQty) = s.ask * s.bidQty + s.ask * s.askQty
  BY <1>1
<1> QED BY <1>1, <1>2, <1>3, <1>4 DEF Weight, MicroPrice

(* opportunistic_take never sends an order, for any best bid and ask that do *)
(* not cross.                                                                *)
THEOREM NeverTakes ==
  \A s \in Signals : s.bid <= s.ask => ~WouldTake(s)
<1> SUFFICES ASSUME NEW s \in Signals, s.bid <= s.ask PROVE ~WouldTake(s)
  OBVIOUS
<1> DEFINE w == Weight(s)
           m == MicroPrice(s)
<1>1. s.bid \in Int /\ s.ask \in Int
  BY DEF Signals
<1>2. w \in Nat /\ m \in Int /\ s.bid * w <= m /\ m <= s.ask * w
  BY Between
<1>3. (2 * s.ask + 1) * w = 2 * (s.ask * w) + w /\ s.ask * w \in Int
  BY <1>1, <1>2
<1>4. (2 * s.bid - 1) * w = 2 * (s.bid * w) - w /\ s.bid * w \in Int
  BY <1>1, <1>2
<1> HIDE DEF w, m
<1>5. ~(2 * m > (2 * s.ask + 1) * w)
  BY <1>2, <1>3
<1>6. ~(2 * m < (2 * s.bid - 1) * w)
  BY <1>2, <1>4
<1> QED BY <1>5, <1>6 DEF WouldTake, w, m

(* fast_cancel_protection pulls no ask at or above the best ask, and no bid  *)
(* at or below the best bid.                                                 *)
THEOREM NeverPullsShown ==
  \A s \in Signals, side \in Sides, p \in Int :
    /\ s.bid <= s.ask
    /\ side = "Sell" => s.ask <= p
    /\ side = "Buy" => p <= s.bid
    => ~WouldPull(s, side, p)
<1> SUFFICES ASSUME NEW s \in Signals, NEW side \in Sides, NEW p \in Int,
                    s.bid <= s.ask, side = "Sell" => s.ask <= p, side = "Buy" => p <= s.bid
             PROVE  ~WouldPull(s, side, p)
  OBVIOUS
<1> DEFINE w == Weight(s)
           m == MicroPrice(s)
<1>1. s.bid \in Int /\ s.ask \in Int
  BY DEF Signals
<1>2. w \in Nat /\ m \in Int /\ s.bid * w <= m /\ m <= s.ask * w
  BY Between
<1>3. (p + 2) * w = p * w + 2 * w /\ (p - 2) * w = p * w - 2 * w /\ p * w \in Int
  BY <1>2
<1>4. side = "Sell" => s.ask * w <= p * w
  <2> HIDE DEF w
  <2> QED BY <1>1, <1>2, Products
<1>5. side = "Buy" => p * w <= s.bid * w
  <2> HIDE DEF w
  <2> QED BY <1>1, <1>2, Products
<1>6. s.ask * w \in Int /\ s.bid * w \in Int
  BY <1>1, <1>2
<1> HIDE DEF w, m
<1>7. ~(side = "Sell" /\ m > (p + 2) * w)
  BY <1>2, <1>3, <1>4, <1>6
<1>8. ~(side = "Buy" /\ m < (p - 2) * w)
  BY <1>2, <1>3, <1>5, <1>6
<1> QED BY <1>7, <1>8 DEF WouldPull, w, m

-----------------------------------------------------------------------------
(* The best bid and ask of a book that is not crossed.                        *)
LEMMA BestOf ==
  ASSUME NEW lv, LevelsTyped(lv), NotCrossed(lv), TwoSided(lv)
  PROVE  /\ BestBid(lv) \in DOMAIN lv["Buy"] /\ \A p \in DOMAIN lv["Buy"] : p <= BestBid(lv)
         /\ BestAsk(lv) \in DOMAIN lv["Sell"] /\ \A p \in DOMAIN lv["Sell"] : BestAsk(lv) <= p
         /\ BestBid(lv) \in Int /\ BestAsk(lv) \in Int /\ BestBid(lv) < BestAsk(lv)
<1>1. PICK B, A : B = DOMAIN lv["Buy"] /\ A = DOMAIN lv["Sell"]
  OBVIOUS
<1>2. ASSUME NEW s \in Sides, lv[s] # <<>> PROVE DOMAIN lv[s] # {}
  <2>1. PICK f : f = lv[s]
    OBVIOUS
  <2>2. f = [x \in DOMAIN f |-> f[x]]
    BY <2>1 DEF LevelsTyped
  <2>3. <<>> = [x \in {} |-> x]
    OBVIOUS
  <2>4. ASSUME DOMAIN f = {} PROVE f = <<>>
    <3>1. f = [x \in {} |-> f[x]]
      BY <2>2, <2>4
    <3>2. [x \in {} |-> f[x]] = [x \in {} |-> x]
      OBVIOUS
    <3> QED
      BY <2>3, <3>1, <3>2
  <2> QED
    BY <1>2, <2>1, <2>4
<1>3. B # {} /\ A # {}
  BY <1>1, <1>2 DEF TwoSided, Sides
<1>4. B \subseteq Prices /\ A \subseteq Prices
  BY <1>1 DEF LevelsTyped, Sides
<1>5. B \subseteq Int /\ A \subseteq Int /\ IsFiniteSet(B) /\ IsFiniteSet(A)
  BY <1>4, PriceAssumption, WidthAssumption, FS_Subset
<1>6. F!IsFiniteSet(B) /\ F!IsFiniteSet(A)
  BY <1>5, SameFinite
<1>7. F!Max(B) \in B /\ \A y \in B : F!Max(B) >= y
  BY <1>3, <1>5, <1>6, F!MaxOfFinite
<1>8. F!Min(A) \in A /\ \A y \in A : F!Min(A) =< y
  BY <1>3, <1>5, <1>6, F!MinOfFinite
<1>9. F!Max(B) = Max(B) /\ F!Min(A) = Min(A)
  BY DEF F!Max, F!Min, Max, Min
<1>10. BestBid(lv) = Max(B) /\ BestAsk(lv) = Min(A)
  BY <1>1 DEF BestBid, BestAsk
<1>11. Max(B) \in B /\ \A y \in B : y <= Max(B)
  BY <1>5, <1>7, <1>9
<1>12. Min(A) \in A /\ \A y \in A : Min(A) <= y
  BY <1>8, <1>9
<1>13. Max(B) < Min(A)
  BY <1>1, <1>11, <1>12 DEF NotCrossed
<1> QED
  BY <1>1, <1>5, <1>10, <1>11, <1>12, <1>13

(* The signals of the market maker: bid and ask do not cross, and while its   *)
(* book has both sides they are the best of its book.                         *)
SignalInv ==
  /\ signals \in Signals /\ signals.bid <= signals.ask
  /\ readers # "mm-advanced" => signals = NoSignals
  /\ readers = "mm-advanced" /\ TwoSided(l2book) => signals = SignalsAfter(signals, l2book)

LEMMA NoSignalsIs ==
  /\ NoSignals \in Signals /\ NoSignals.bid = 0 /\ NoSignals.ask = 0
  /\ NoSignals.bidQty = 0 /\ NoSignals.askQty = 0
  /\ ~ TwoSided(NoLevels)
  BY DEF NoSignals, Signals, TwoSided, NoLevels

LEMMA SignalsOfBook ==
  ASSUME NEW old \in Signals, old.bid <= old.ask, NEW lv, LevelsTyped(lv), NotCrossed(lv)
  PROVE  /\ SignalsAfter(old, lv) \in Signals /\ SignalsAfter(old, lv).bid <= SignalsAfter(old, lv).ask
         /\ TwoSided(lv) => SignalsAfter(SignalsAfter(old, lv), lv) = SignalsAfter(old, lv)
<1>1. CASE ~ TwoSided(lv)
  BY <1>1 DEF SignalsAfter
<1>2. CASE TwoSided(lv)
  <2>1. PICK bid, ask, bidQty, askQty :
          /\ bid = BestBid(lv) /\ ask = BestAsk(lv)
          /\ bidQty = lv["Buy"][bid] /\ askQty = lv["Sell"][ask]
    OBVIOUS
  <2>2. \A any : SignalsAfter(any, lv) = [bid |-> bid, bidQty |-> bidQty, ask |-> ask, askQty |-> askQty]
    BY <1>2, <2>1 DEF SignalsAfter
  <2>3. bid \in Int /\ ask \in Int /\ bid < ask /\ bid \in DOMAIN lv["Buy"] /\ ask \in DOMAIN lv["Sell"]
    BY <1>2, <2>1, BestOf
  <2>4. bidQty \in Nat /\ askQty \in Nat
    BY <2>1, <2>3 DEF LevelsTyped, Sides
  <2>5. PICK sg : sg = [bid |-> bid, bidQty |-> bidQty, ask |-> ask, askQty |-> askQty]
    OBVIOUS
  <2>6. sg \in Signals /\ sg.bid <= sg.ask
    BY <2>3, <2>4, <2>5 DEF Signals
  <2> QED
    BY <2>2, <2>5, <2>6
<1> QED
  BY <1>1, <1>2

LEMMA SignalsStart == MicroInit => SignalInv
<1> SUFFICES ASSUME MicroInit PROVE SignalInv
  OBVIOUS
<1>1. signals = NoSignals /\ l2book = NoLevels
  BY DEF MicroInit, FeedInit
<1> QED
  BY <1>1, NoSignalsIs DEF SignalInv

LEMMA SignalsSteps == SignalInv /\ L2Inv' /\ [MicroNext]_vars => SignalInv'
<1> SUFFICES ASSUME SignalInv, L2Inv', [MicroNext]_vars PROVE SignalInv'
  OBVIOUS
<1>1. ASSUME readers' = readers, signals' = signals, readers = "mm-advanced" => l2book' = l2book
      PROVE  SignalInv'
  BY <1>1 DEF SignalInv
<1>2. CASE UNCHANGED vars
  BY <1>1, <1>2 DEF vars, feeds, l2vars
<1>3. CASE MicroNext
  <2>1. readers' = readers
    BY <1>3 DEF MicroNext
  <2>2. ASSUME readers = "mm-advanced", OnL2Signals PROVE SignalInv'
    <3>1. signals' = SignalsAfter(signals, l2book')
      BY <2>2 DEF OnL2Signals
    <3>2. PICK last : Along(readers', l2book', l2stream', last)
      BY DEF L2Inv
    <3>3. l2stream' \in Seq(L2Messages)'
      BY DEF L2Inv
    <3>4. Tame(readers', l2book')
      BY <3>2, <3>3, AlongEnds
    <3>5. LevelsTyped(l2book') /\ NotCrossed(l2book')
      BY <2>1, <2>2, <3>4 DEF Tame
    <3> QED
      BY <2>1, <2>2, <3>1, <3>5, SignalsOfBook DEF SignalInv
  <2>3. ASSUME readers = "mm-advanced", RestartMaker PROVE SignalInv'
    BY <2>1, <2>3, NoSignalsIs DEF RestartMaker, RestartL2, SignalInv
  <2>4. ASSUME readers = "mm-advanced", (MatchingStep \/ SubscribeL2) /\ UNCHANGED signals
        PROVE  SignalInv'
    <3>1. CASE SubscribeL2
      BY <1>1, <2>1, <2>4, <3>1 DEF SubscribeL2
    <3>2. CASE MatchingStep
      <4>1. ExchangeStep(Ids, Prices)
        BY <3>2 DEF MatchingStep
      <4>2. \A os, msg, levels : Publish(os, msg, levels) => l2book' = l2book
        BY DEF Publish
      <4>3. \A id, s, p, q : Rest(id, s, p, q) => l2book' = l2book
        BY <4>2 DEF Rest
      <4>4. \A id, q : FillPart(id, q) => l2book' = l2book
        BY <4>2, Zenon DEF FillPart
      <4>5. \A id, type : Leave(id, type) => l2book' = l2book
        BY <4>2, Zenon DEF Leave
      <4>6. \A id, p, q : Replace(id, p, q) => l2book' = l2book
        BY <4>2, Zenon DEF Replace
      <4>7. l2book' = l2book
        BY <4>1, <4>3, <4>4, <4>5, <4>6 DEF ExchangeStep
      <4> QED
        BY <1>1, <2>1, <2>4, <4>7
    <3> QED
      BY <2>4, <3>1, <3>2
  <2>5. ASSUME readers # "mm-advanced", UNCHANGED signals PROVE SignalInv'
    BY <1>1, <2>1, <2>5
  <2> QED
    BY <1>3, <2>2, <2>3, <2>4, <2>5 DEF MicroNext, MakerNext
<1> QED
  BY <1>2, <1>3

LEMMA SignalsInductive == MicroSpec => []SignalInv
<1>1. SignalInv /\ L2Inv /\ L2Inv' /\ [MicroNext]_vars => SignalInv'
  BY SignalsSteps
<1> QED
  BY <1>1, SignalsStart, LevelsInductive, PTL DEF MicroSpec

(* The micro price gives no reason to trade in any state, and none to pull a  *)
(* quote at a price the L2 book shows while both of its sides are there.      *)
THEOREM MicroPriceStays == MicroSpec => []MicroPriceInSpread
<1>1. ASSUME SignalInv, L2Inv PROVE MicroPriceInSpread
  <2>1. ~ WouldTake(signals)
    BY <1>1, NeverTakes DEF SignalInv
  <2>2. ASSUME TwoSided(l2book), NEW side \in Sides, NEW p \in DOMAIN l2book[side]
        PROVE  ~ WouldPull(signals, side, p)
    <3>1. PICK last : Along(readers, l2book, l2stream, last)
      BY <1>1 DEF L2Inv
    <3>2. l2stream \in Seq(L2Messages)
      BY <1>1 DEF L2Inv
    <3>3. Tame(readers, l2book)
      BY <3>1, <3>2, AlongEnds
    <3>4. p \in Int
      BY <3>3, PriceAssumption DEF Tame, LevelsTyped
    <3>5. CASE readers # "mm-advanced"
      <4>1. MicroPrice(signals) = 0 /\ Weight(signals) = 0
        BY <1>1, <3>5, NoSignalsIs DEF SignalInv, MicroPrice, Weight
      <4>2. (p + 2) * 0 = 0 /\ (p - 2) * 0 = 0
        BY <3>4
      <4> QED
        BY <4>1, <4>2 DEF WouldPull
    <3>6. CASE readers = "mm-advanced"
      <4>1. LevelsTyped(l2book) /\ NotCrossed(l2book)
        BY <3>3, <3>6 DEF Tame
      <4>2. signals.bid = BestBid(l2book) /\ signals.ask = BestAsk(l2book)
        BY <1>1, <2>2, <3>6 DEF SignalInv, SignalsAfter
      <4>3. /\ \A r \in DOMAIN l2book["Buy"] : r <= signals.bid
            /\ \A r \in DOMAIN l2book["Sell"] : signals.ask <= r
        BY <2>2, <4>1, <4>2, BestOf
      <4>4. (side = "Sell" => signals.ask <= p) /\ (side = "Buy" => p <= signals.bid)
        BY <4>3
      <4> QED
        BY <1>1, <3>4, <4>4, NeverPullsShown DEF SignalInv
    <3> QED
      BY <3>5, <3>6
  <2> QED
    BY <2>1, <2>2 DEF MicroPriceInSpread
<1> QED
  BY <1>1, SignalsInductive, LevelsInductive, PTL
=============================================================================
