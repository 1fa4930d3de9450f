------------------------ MODULE TradingSessionProofs ------------------------
(* The account, for any sequence of responses whatever: it stays well typed  *)
(* and lists no order twice.  The session: no wake-up of a thread that waits *)
(* for the login is lost; ready_ is set when the login replay was applied;   *)
(* it implements the account on its own; and the account is in step with the *)
(* exchange, but for the responses still on their way.                       *)
EXTENDS TradingSession, FiniteSetTheorems, SequenceTheorems, TLAPS

\* The account once the responses on their way are applied, and what a fold is.
P == INSTANCE FoldFacts WITH Op <- PositionsOnce
O == INSTANCE FoldFacts WITH Op <- OpenOrdersOnce

-----------------------------------------------------------------------------
(* std::find_if, and what the account lists after an upsert and an erase.    *)
LEMMA SameLists ==
  /\ \A open, id : O!Find(open, id) = Find(open, id) /\ O!Erase(open, id) = Erase(open, id)
  /\ \A open, r : O!Upsert(open, r) = Upsert(open, r)
  /\ \A open : O!Unique(open) <=> Unique(open)
  BY DEF O!Find, Find, O!Erase, Erase, O!Upsert, Upsert, O!Unique, Unique

LEMMA FindIs ==
  ASSUME NEW R, NEW open \in Seq(R), NEW id
  PROVE  /\ Find(open, id) \in 0..Len(open)
         /\ Find(open, id) = 0 => \A i \in 1..Len(open) : open[i].id # id
         /\ Find(open, id) # 0 => open[Find(open, id)].id = id
  BY O!FindIs, SameLists

LEMMA UpsertIs ==
  ASSUME NEW R, NEW open \in Seq(R), NEW r \in R, Unique(open), NEW s, s = Upsert(open, r)
  PROVE  O!Upserted(R, open, r, s) /\ s \in Seq(R) /\ Unique(s)
<1>1. O!Unique(open) /\ s = O!Upsert(open, r)
  BY SameLists
<1>2. O!Upserted(R, open, r, s)
  BY <1>1, O!UpsertIs
<1> QED
  BY <1>2, SameLists DEF O!Upserted

LEMMA EraseIs ==
  ASSUME NEW R, NEW open \in Seq(R), NEW id, Unique(open), NEW s, s = Erase(open, id)
  PROVE  O!Erased(R, open, id, s) /\ s \in Seq(R) /\ Unique(s)
<1>1. O!Unique(open) /\ s = O!Erase(open, id)
  BY SameLists
<1>2. O!Erased(R, open, id, s)
  BY <1>1, O!EraseIs
<1> QED
  BY <1>2, SameLists DEF O!Erased

-----------------------------------------------------------------------------
(* The account on its own.                                                   *)
AccountInv == AccountTypeOK /\ UniqueOpenOrders

LEMMA UpdateTyped ==
  ASSUME NEW pos \in [Assets -> Int], NEW r \in OrderResponse
  PROVE  UpdatePositionAndCash(pos, r) \in [Assets -> Int]
<1>1. r.q \in Int /\ r.p \in Int /\ r.symbol \in Assets /\ Cash \in Assets
  BY DEF OrderResponse, Assets
<1>2. PICK b : b = Bought(r)
  OBVIOUS
<1>3. b \in Int
  BY <1>1, <1>2 DEF Bought
<1>4. PICK c : c = b * r.p
  OBVIOUS
<1>5. c \in Int
  BY <1>1, <1>3, <1>4
<1>6. [pos EXCEPT ![r.symbol] = @ + b, ![Cash] = @ - c] \in [Assets -> Int]
  BY <1>1, <1>3, <1>5
<1> QED
  BY <1>2, <1>4, <1>6 DEF UpdatePositionAndCash

LEMMA AccountStep == AccountInv /\ [AccountNext]_account => AccountInv'
<1> SUFFICES ASSUME AccountInv, [AccountNext]_account PROVE AccountInv'
  OBVIOUS
<1>0. /\ positions \in [Assets -> Int] /\ open_orders \in Seq(OrderResponse)
      /\ Unique(open_orders)
  BY DEF AccountInv, AccountTypeOK, UniqueOpenOrders
<1>1. SUFFICES /\ positions' \in [Assets -> Int] /\ open_orders' \in Seq(OrderResponse)
               /\ Unique(open_orders')
  <2>1. DOMAIN open_orders' = 1..Len(open_orders')
    BY <1>1
  <2> QED
    BY <1>1, <2>1 DEF AccountInv, AccountTypeOK, UniqueOpenOrders, Unique
<1>2. ASSUME NEW r \in OrderResponse, HandleOrderResponse(r)
      PROVE  /\ positions' \in [Assets -> Int] /\ open_orders' \in Seq(OrderResponse)
             /\ Unique(open_orders')
  <2>1. positions' \in [Assets -> Int]
    BY <1>0, <1>2, UpdateTyped DEF HandleOrderResponse, PositionsAfter
  <2>2. \/ open_orders' = Upsert(open_orders, r)
        \/ open_orders' = Erase(open_orders, r.id)
        \/ open_orders' = open_orders
    BY <1>2 DEF HandleOrderResponse, OpenOrdersAfter
  <2>3. CASE open_orders' = Upsert(open_orders, r)
    BY <1>0, <2>1, <2>3, UpsertIs
  <2>4. CASE open_orders' = Erase(open_orders, r.id)
    BY <1>0, <2>1, <2>4, EraseIs
  <2>5. CASE open_orders' = open_orders
    BY <1>0, <2>1, <2>5
  <2> QED
    BY <2>2, <2>3, <2>4, <2>5
<1>3. ASSUME NEW a \in Assets, NEW b \in Int, HandlePositionResponse(a, b)
      PROVE  /\ positions' \in [Assets -> Int] /\ open_orders' \in Seq(OrderResponse)
             /\ Unique(open_orders')
  BY <1>0, <1>3 DEF HandlePositionResponse
<1>4. CASE Clear
  <2>1. EmptyPositions \in [Assets -> Int]
    BY DEF EmptyPositions
  <2>2. <<>> \in Seq(OrderResponse) /\ Unique(<<>>)
    BY DEF Unique
  <2> QED
    BY <1>4, <2>1, <2>2 DEF Clear
<1>5. CASE UNCHANGED account
  BY <1>0, <1>5 DEF account
<1> QED
  BY <1>2, <1>3, <1>4, <1>5 DEF AccountNext

LEMMA AccountInvariant == AccountSpec => []AccountInv
<1>1. AccountInit => AccountInv
  <2> SUFFICES ASSUME AccountInit PROVE AccountInv
    OBVIOUS
  <2>1. positions \in [Assets -> Int]
    BY DEF AccountInit, EmptyPositions
  <2>2. open_orders = <<>> /\ open_orders \in Seq(OrderResponse)
    BY DEF AccountInit
  <2> QED
    BY <2>1, <2>2 DEF AccountInv, AccountTypeOK, UniqueOpenOrders, Unique
<1> QED
  BY <1>1, AccountStep, PTL DEF AccountSpec

(* Positions and cash stay integers and open orders stay responses, whatever *)
(* the exchange sends.                                                       *)
THEOREM AccountTypeCorrect == AccountSpec => []AccountTypeOK
<1>1. AccountInv => AccountTypeOK
  BY DEF AccountInv
<1> QED
  BY <1>1, AccountInvariant, PTL

(* No sequence of responses, however odd, makes the account list one order   *)
(* twice: the entry find_if updates or erases is the only one.               *)
THEOREM OrdersListedOnce == AccountSpec => []UniqueOpenOrders
<1>1. AccountInv => UniqueOpenOrders
  BY DEF AccountInv
<1> QED
  BY <1>1, AccountInvariant, PTL

-----------------------------------------------------------------------------
(* The session: ready_ is set before the io thread is about to notify.       *)
WakeInv == NoLostWakeup /\ (notifying => ready)

LEMMA WakeStep == WakeInv /\ [Next]_vars => WakeInv'
<1> SUFFICES ASSUME WakeInv, [Next]_vars PROVE WakeInv'
  OBVIOUS
<1> USE DEF WakeInv, NoLostWakeup
<1>1. CASE UNCHANGED <<ready, notifying, waiter>>
  BY <1>1
<1>2. CASE ExchangeStep
  BY <1>1, <1>2 DEF ExchangeStep, Accept, FillPart, FillAll, CancelOrder, ReplaceOrder, Reject,
                    AnswerQuery, Subscribe, Event, agent
<1>3. CASE OnPositionResponse \/ OnOrderResponse
  BY <1>1, <1>3 DEF OnPositionResponse, OnOrderResponse
<1>4. CASE OnComplete
  BY <1>4 DEF OnComplete
<1>5. CASE NotifyAll
  BY <1>5 DEF NotifyAll
<1>6. CASE WaitUntilReady
  BY <1>6 DEF WaitUntilReady
<1>7. CASE Restart
  BY <1>7 DEF Restart
<1>8. CASE Connect \/ Break \/ UNCHANGED vars
  BY <1>1, <1>8 DEF Connect, Break, vars, agent
<1> QED
  BY <1>2, <1>3, <1>4, <1>5, <1>6, <1>7, <1>8 DEF Next, IoThread

(* A thread that sleeps in wait_until_ready once ready_ is set still has its *)
(* notify_all to come.                                                       *)
THEOREM WakeupNotLost == Spec => []NoLostWakeup
<1>1. Init => WakeInv
  BY DEF Init, WakeInv, NoLostWakeup
<1>2. WakeInv => NoLostWakeup
  BY DEF WakeInv
<1> QED
  BY <1>1, <1>2, WakeStep, PTL DEF Spec

-----------------------------------------------------------------------------
(* What the exchange and the wire hold.                                      *)
LiveOrder == [symbol : Symbols, side : {"Buy", "Sell"}, p : Int, q : Nat]
Message   == OrderResponse \cup [type : {"Position"}, symbol : Assets, position : Int]
             \cup {CompleteMsg}

ExchangeTyped ==
  /\ DOMAIN live \subseteq Ids /\ IsFiniteSet(DOMAIN live)
  /\ live \in [DOMAIN live -> LiveOrder]
  /\ balance \in [Assets -> Int]

(* Responses are under way only while the agent is subscribed, and it is     *)
(* ready only in a session that was.                                         *)
SessionTyped ==
  /\ session \in {"down", "connected", "subscribed", "broken"}
  /\ wire \in Seq(Message)
  /\ session # "subscribed" => wire = <<>>
  /\ ready \in BOOLEAN
  /\ session \in {"down", "connected"} => ~ready

(* The effect of each event on the exchange, with its answer m.              *)
Added(id, m) ==
  /\ m.type = "New" /\ m.id = id /\ id \in Ids \ DOMAIN live
  /\ DOMAIN live' = DOMAIN live \cup {id}
  /\ live'[id].symbol = m.symbol /\ live'[id].side = m.side
  /\ \A x \in DOMAIN live : live'[x] = live[x]
  /\ UNCHANGED balance

Changed(id, m) ==
  /\ m.type \in {"PartialFill", "Replaced"} /\ m.id = id /\ id \in DOMAIN live
  /\ m.symbol = live[id].symbol /\ m.side = live[id].side
  /\ DOMAIN live' = DOMAIN live
  /\ \A x \in DOMAIN live : live'[x].symbol = live[x].symbol /\ live'[x].side = live[x].side
  /\ balance' = IF m.type = "PartialFill" THEN UpdatePositionAndCash(balance, m) ELSE balance

Removed(id, m) ==
  /\ m.type \in {"Fill", "Cancelled"} /\ m.id = id /\ id \in DOMAIN live
  /\ DOMAIN live' = DOMAIN live \ {id}
  /\ \A x \in DOMAIN live' : live'[x] = live[x]
  /\ balance' = IF m.type = "Fill" THEN UpdatePositionAndCash(balance, m) ELSE balance

Told(m) ==
  /\ m.type = "Unknown" \/ (m.type = "Position" /\ m.symbol \in Assets /\ m.position = balance[m.symbol])
  /\ UNCHANGED <<live, balance>>

EventOf(m) ==
  /\ m \in Message
  /\ \/ \E id \in Ids : Added(id, m) \/ Changed(id, m) \/ Removed(id, m)
     \/ Told(m)
  /\ Event(m)

LEMMA SettleIs ==
  ASSUME ExchangeTyped, NEW o \in LiveOrder, NEW q \in Nat, Settle(o, q),
         NEW m \in OrderResponse, m.symbol = o.symbol, m.side = o.side, m.p = o.p, m.q = q
  PROVE  balance' = UpdatePositionAndCash(balance, m) /\ balance' \in [Assets -> Int]
<1>1. /\ balance \in [Assets -> Int] /\ o.symbol \in Assets /\ Cash \in Assets
      /\ o.side \in {"Buy", "Sell"} /\ o.p \in Int
  BY DEF ExchangeTyped, LiveOrder, Assets
<1>2. PICK b : b = IF o.side = "Buy" THEN q ELSE -q
  OBVIOUS
<1>3. b \in Int /\ Bought(m) = b
  BY <1>1, <1>2 DEF Bought
<1>4. PICK c : c = b * o.p
  OBVIOUS
<1>5. c \in Int
  BY <1>1, <1>3, <1>4
<1>6. balance' = [balance EXCEPT ![o.symbol] = @ + b, ![Cash] = @ - c]
  BY <1>2, <1>4 DEF Settle
<1>7. UpdatePositionAndCash(balance, m) = [balance EXCEPT ![o.symbol] = @ + b, ![Cash] = @ - c]
  BY <1>3, <1>4 DEF UpdatePositionAndCash
<1>8. balance' \in [Assets -> Int]
  BY <1>1, <1>3, <1>5, <1>6
<1> QED
  BY <1>6, <1>7, <1>8

LEMMA OrderMsgTyped ==
  ASSUME NEW type \in ExecTypes, NEW id \in Ids, NEW s \in Symbols, NEW side \in Sides,
         NEW p \in Int, NEW q \in Nat
  PROVE  /\ OrderMsg(type, id, s, side, p, q) \in OrderResponse
         /\ OrderMsg(type, id, s, side, p, q) \in Message
  BY DEF OrderMsg, OrderResponse, Message

LEMMA ExchangeStepIs ==
  ASSUME ExchangeTyped, ExchangeStep
  PROVE  Subscribe \/ (ExchangeTyped' /\ \E m : EventOf(m))
<1> USE DEF ExchangeTyped
<1>1. ASSUME NEW id \in Ids, NEW s \in Symbols, NEW side \in {"Buy", "Sell"}, NEW p \in Prices,
             NEW q \in Qtys, Accept(id, s, side, p, q)
      PROVE  ExchangeTyped' /\ \E m : EventOf(m)
  <2>1. PICK m : m = OrderMsg("New", id, s, side, p, q)
    OBVIOUS
  <2>2. PICK o : o = [symbol |-> s, side |-> side, p |-> p, q |-> q]
    OBVIOUS
  <2>3. m \in Message /\ o \in LiveOrder
    BY <2>1, <2>2, OrderMsgTyped, PricesAssumption, QtysAssumption DEF ExecTypes, Sides, LiveOrder
  <2>4. live' = [x \in DOMAIN live \cup {id} |-> IF x = id THEN o ELSE live[x]]
        /\ id \notin DOMAIN live /\ balance' = balance /\ Event(m)
    BY <1>1, <2>1, <2>2 DEF Accept, With
  <2>5. /\ DOMAIN live' = DOMAIN live \cup {id} /\ live'[id] = o
        /\ \A x \in DOMAIN live : live'[x] = live[x]
    BY <2>4
  <2>6. IsFiniteSet(DOMAIN live')
    BY <2>5, FS_AddElement
  <2>7. live' \in [DOMAIN live' -> LiveOrder]
    BY <2>3, <2>4, <2>5
  <2>8. ExchangeTyped'
    BY <2>4, <2>5, <2>6, <2>7
  <2>9. Added(id, m)
    BY <2>1, <2>2, <2>4, <2>5 DEF Added, OrderMsg
  <2> QED
    BY <2>3, <2>4, <2>8, <2>9 DEF EventOf
<1>2. ASSUME NEW id \in DOMAIN live PROVE live[id] \in LiveOrder /\ id \in Ids
  OBVIOUS
<1>3. ASSUME NEW id \in DOMAIN live, NEW q \in Qtys, FillPart(id, q)
      PROVE  ExchangeTyped' /\ \E m : EventOf(m)
  <2>1. PICK o : o = live[id]
    OBVIOUS
  <2>2. o \in LiveOrder /\ id \in Ids /\ q \in Nat
    BY <1>2, <2>1, QtysAssumption
  <2>3. PICK m : m = OrderMsg("PartialFill", id, o.symbol, o.side, o.p, q)
    OBVIOUS
  <2>4. m \in Message /\ m \in OrderResponse
    BY <2>2, <2>3, OrderMsgTyped DEF ExecTypes, Sides, LiveOrder
  <2>5. q < o.q /\ live' = [live EXCEPT ![id].q = o.q - q] /\ Settle(o, q) /\ Event(m)
    BY <1>3, <2>1, <2>3 DEF FillPart
  <2>6. balance' = UpdatePositionAndCash(balance, m) /\ balance' \in [Assets -> Int]
    BY <2>2, <2>3, <2>4, <2>5, SettleIs DEF OrderMsg
  <2>7. o.q - q \in Nat
    BY <2>2, <2>5 DEF LiveOrder
  <2>8. PICK o2 : o2 = [o EXCEPT !.q = o.q - q]
    OBVIOUS
  <2>9. o2 \in LiveOrder /\ o2.symbol = o.symbol /\ o2.side = o.side
    BY <2>2, <2>7, <2>8 DEF LiveOrder
  <2>10. live' = [live EXCEPT ![id] = o2]
    BY <2>1, <2>5, <2>8
  <2>11. DOMAIN live' = DOMAIN live /\ live' \in [DOMAIN live -> LiveOrder]
         /\ live'[id] = o2 /\ \A x \in DOMAIN live : x # id => live'[x] = live[x]
    BY <2>9, <2>10
  <2>12. Changed(id, m)
    BY <2>1, <2>3, <2>6, <2>9, <2>11 DEF Changed, OrderMsg
  <2> QED
    BY <2>2, <2>4, <2>5, <2>6, <2>11, <2>12 DEF EventOf
<1>4. ASSUME NEW id \in DOMAIN live, live' = Restrict(live, DOMAIN live \ {id})
      PROVE  /\ DOMAIN live' = DOMAIN live \ {id} /\ IsFiniteSet(DOMAIN live')
             /\ live' \in [DOMAIN live' -> LiveOrder] /\ DOMAIN live' \subseteq Ids
             /\ \A x \in DOMAIN live' : live'[x] = live[x]
  <2>1. live' = [x \in DOMAIN live \ {id} |-> live[x]]
    BY <1>4 DEF Restrict
  <2>2. DOMAIN live' = DOMAIN live \ {id} /\ \A x \in DOMAIN live' : live'[x] = live[x]
    BY <2>1
  <2>3. IsFiniteSet(DOMAIN live')
    BY <2>2, FS_RemoveElement
  <2> QED
    BY <2>1, <2>2, <2>3
<1>5. ASSUME NEW id \in DOMAIN live, FillAll(id) PROVE ExchangeTyped' /\ \E m : EventOf(m)
  <2>1. PICK o : o = live[id]
    OBVIOUS
  <2>2. o \in LiveOrder /\ id \in Ids /\ o.q \in Nat
    BY <1>2, <2>1 DEF LiveOrder
  <2>3. PICK m : m = OrderMsg("Fill", id, o.symbol, o.side, o.p, o.q)
    OBVIOUS
  <2>4. m \in Message /\ m \in OrderResponse
    BY <2>2, <2>3, OrderMsgTyped DEF ExecTypes, Sides, LiveOrder
  <2>5. live' = Restrict(live, DOMAIN live \ {id}) /\ Settle(o, o.q) /\ Event(m)
    BY <1>5, <2>1, <2>3 DEF FillAll
  <2>6. balance' = UpdatePositionAndCash(balance, m) /\ balance' \in [Assets -> Int]
    BY <2>2, <2>3, <2>4, <2>5, SettleIs DEF OrderMsg
  <2>7. Removed(id, m)
    BY <1>4, <2>3, <2>5, <2>6 DEF Removed, OrderMsg
  <2> QED
    BY <1>4, <2>2, <2>4, <2>5, <2>6, <2>7 DEF EventOf
<1>6. ASSUME NEW id \in DOMAIN live, CancelOrder(id) PROVE ExchangeTyped' /\ \E m : EventOf(m)
  <2>1. PICK o : o = live[id]
    OBVIOUS
  <2>2. o \in LiveOrder /\ id \in Ids
    BY <1>2, <2>1
  <2>3. PICK m : m = OrderMsg("Cancelled", id, o.symbol, o.side, o.p, o.q)
    OBVIOUS
  <2>4. m \in Message
    BY <2>2, <2>3, OrderMsgTyped DEF ExecTypes, Sides, LiveOrder
  <2>5. live' = Restrict(live, DOMAIN live \ {id}) /\ balance' = balance /\ Event(m)
    BY <1>6, <2>1, <2>3 DEF CancelOrder
  <2>6. Removed(id, m)
    BY <1>4, <2>3, <2>5 DEF Removed, OrderMsg
  <2> QED
    BY <1>4, <2>2, <2>4, <2>5, <2>6 DEF EventOf
<1>7. ASSUME NEW id \in DOMAIN live, NEW p \in Prices, NEW q \in Qtys, ReplaceOrder(id, p, q)
      PROVE  ExchangeTyped' /\ \E m : EventOf(m)
  <2>1. PICK o : o = live[id]
    OBVIOUS
  <2>2. o \in LiveOrder /\ id \in Ids /\ p \in Int /\ q \in Nat
    BY <1>2, <2>1, PricesAssumption, QtysAssumption
  <2>3. PICK m : m = OrderMsg("Replaced", id, o.symbol, o.side, p, q)
    OBVIOUS
  <2>4. m \in Message
    BY <2>2, <2>3, OrderMsgTyped DEF ExecTypes, Sides, LiveOrder
  <2>5. live' = [live EXCEPT ![id].p = p, ![id].q = q] /\ balance' = balance /\ Event(m)
    BY <1>7, <2>1, <2>3 DEF ReplaceOrder
  <2>6. PICK o2 : o2 = [o EXCEPT !.p = p, !.q = q]
    OBVIOUS
  <2>7. o2 \in LiveOrder /\ o2.symbol = o.symbol /\ o2.side = o.side
    BY <2>2, <2>6 DEF LiveOrder
  <2>8. live' = [live EXCEPT ![id] = o2]
    BY <2>1, <2>5, <2>6
  <2>9. DOMAIN live' = DOMAIN live /\ live' \in [DOMAIN live -> LiveOrder]
        /\ live'[id] = o2 /\ \A x \in DOMAIN live : x # id => live'[x] = live[x]
    BY <2>7, <2>8
  <2>10. Changed(id, m)
    BY <2>1, <2>3, <2>5, <2>7, <2>9 DEF Changed, OrderMsg
  <2> QED
    BY <2>2, <2>4, <2>5, <2>9, <2>10 DEF EventOf
<1>8. ASSUME NEW id \in Ids, NEW s \in Symbols, Reject(id, s)
      PROVE  ExchangeTyped' /\ \E m : EventOf(m)
  <2>1. PICK m : m = OrderMsg("Unknown", id, s, "None", 0, 0)
    OBVIOUS
  <2>2. m \in Message
    BY <2>1, OrderMsgTyped DEF ExecTypes, Sides
  <2>3. UNCHANGED <<live, balance>> /\ Event(m) /\ m.type = "Unknown"
    BY <1>8, <2>1 DEF Reject, OrderMsg
  <2> QED
    BY <2>2, <2>3 DEF EventOf, Told
<1>9. ASSUME NEW a \in Assets, AnswerQuery(a) PROVE ExchangeTyped' /\ \E m : EventOf(m)
  <2>1. PICK m : m = PositionMsg(a, balance[a])
    OBVIOUS
  <2>2. m \in Message
    BY <2>1 DEF PositionMsg, Message
  <2>3. UNCHANGED <<live, balance>> /\ Event(m)
        /\ m.type = "Position" /\ m.symbol = a /\ m.position = balance[a]
    BY <1>9, <2>1 DEF AnswerQuery, PositionMsg
  <2> QED
    BY <2>2, <2>3 DEF EventOf, Told
<1> QED
  BY <1>1, <1>3, <1>5, <1>6, <1>7, <1>8, <1>9 DEF ExchangeStep, Assets

-----------------------------------------------------------------------------
(* SetToSeq lists every element of a finite set once.                        *)
LEMMA SetToSeqIs ==
  ASSUME NEW S, IsFiniteSet(S)
  PROVE  /\ Cardinality(S) \in Nat
         /\ SetToSeq(S) \in [1 .. Cardinality(S) -> S]
         /\ \A i, j \in 1 .. Cardinality(S) : SetToSeq(S)[i] = SetToSeq(S)[j] => i = j
         /\ \A x \in S : \E i \in 1 .. Cardinality(S) : SetToSeq(S)[i] = x
<1>1. PICK n : n = Cardinality(S)
  OBVIOUS
<1>2. n \in Nat /\ ExistsBijection(1 .. n, S)
  BY <1>1, FS_CardinalityType
<1>3. PICK f \in Bijection(1 .. n, S) : TRUE
  BY <1>2 DEF ExistsBijection
<1>4. f \in [1 .. n -> S] /\ IsInjective(f)
  BY <1>3 DEF Bijection, Injection
<1>5. PICK g : g = SetToSeq(S)
  OBVIOUS
<1>6. g \in [1 .. n -> S] /\ IsInjective(g)
  BY <1>1, <1>4, <1>5, Zenon DEF SetToSeq
<1>7. g \in Injection(1 .. n, S)
  BY <1>6 DEF Injection
<1>8. IsFiniteSet(1 .. n) /\ Cardinality(1 .. n) = n
  BY <1>2, FS_Interval
<1>9. g \in Surjection(1 .. n, S)
  BY <1>1, <1>7, <1>8, FS_Injection
<1>10. \A x \in S : \E i \in 1 .. n : g[i] = x
  BY <1>9 DEF Surjection
<1>11. \A i, j \in 1 .. n : g[i] = g[j] => i = j
  BY <1>6 DEF IsInjective
<1> QED
  BY <1>1, <1>2, <1>5, <1>6, <1>10, <1>11

Status(id) == OrderMsg("OrderStatus", id, live[id].symbol, live[id].side, live[id].p, live[id].q)

(* The login replay: every open order once, every position once, Complete.   *)
LEMMA ReplayIs ==
  ASSUME ExchangeTyped
  PROVE  \E n, k \in Nat : \E ids \in [1 .. n -> DOMAIN live], assets \in [1 .. k -> Assets] :
           /\ n = Cardinality(DOMAIN live)
           /\ \A i, j \in 1 .. n : ids[i] = ids[j] => i = j
           /\ \A id \in DOMAIN live : \E i \in 1 .. n : ids[i] = id
           /\ \A a \in Assets : \E i \in 1 .. k : assets[i] = a
           /\ Replay \in Seq(Message) /\ Len(Replay) = n + k + 1
           /\ \A i \in 1 .. n : Replay[i] = Status(ids[i])
           /\ \A i \in 1 .. k : Replay[n + i] = PositionMsg(assets[i], balance[assets[i]])
           /\ Replay[n + k + 1] = CompleteMsg
<1> USE DEF ExchangeTyped
<1>1. PICK ids : ids = SetToSeq(DOMAIN live)
  OBVIOUS
<1>2. PICK assets : assets = SetToSeq(DOMAIN balance)
  OBVIOUS
<1>3. PICK n : n = Cardinality(DOMAIN live)
  OBVIOUS
<1>4. PICK k : k = Cardinality(Assets)
  OBVIOUS
<1>5. /\ n \in Nat /\ ids \in [1 .. n -> DOMAIN live]
      /\ \A i, j \in 1 .. n : ids[i] = ids[j] => i = j
      /\ \A id \in DOMAIN live : \E i \in 1 .. n : ids[i] = id
  BY <1>1, <1>3, SetToSeqIs
<1>6. IsFiniteSet(Assets) /\ DOMAIN balance = Assets
  BY SymbolsAssumption, FS_AddElement DEF Assets
<1>7. /\ k \in Nat /\ assets \in [1 .. k -> Assets]
      /\ \A a \in Assets : \E i \in 1 .. k : assets[i] = a
  BY <1>2, <1>4, <1>6, SetToSeqIs
<1>8. PICK s1 : s1 = [i \in 1 .. n |-> Status(ids[i])]
  OBVIOUS
<1>9. PICK s2 : s2 = [i \in 1 .. k |-> PositionMsg(assets[i], balance[assets[i]])]
  OBVIOUS
<1>10. Replay = s1 \o s2 \o <<CompleteMsg>>
  <2>1. DOMAIN ids = 1 .. n /\ DOMAIN assets = 1 .. k
    BY <1>5, <1>7
  <2>2. s1 = [i \in DOMAIN ids |-> OrderMsg("OrderStatus", ids[i], live[ids[i]].symbol,
                                    live[ids[i]].side, live[ids[i]].p, live[ids[i]].q)]
    BY <1>8, <2>1, Zenon DEF Status
  <2>3. s2 = [i \in DOMAIN assets |-> PositionMsg(assets[i], balance[assets[i]])]
    BY <1>9, <2>1, Zenon
  <2> QED
    BY <1>1, <1>2, <2>2, <2>3, Zenon DEF Replay
<1>11. \A id \in DOMAIN live : Status(id) \in Message
  <2>1. ASSUME NEW id \in DOMAIN live PROVE Status(id) \in Message
    <3>1. live[id] \in LiveOrder /\ id \in Ids
      OBVIOUS
    <3> QED
      BY <3>1, OrderMsgTyped DEF Status, ExecTypes, Sides, LiveOrder
  <2> QED
    BY <2>1
<1>12. s1 \in Seq(Message) /\ Len(s1) = n /\ \A i \in 1 .. n : s1[i] = Status(ids[i])
  <2>1. s1 \in [1 .. n -> Message]
    BY <1>5, <1>8, <1>11
  <2>2. \A i \in 1 .. n : s1[i] = Status(ids[i])
    BY <1>8, Zenon
  <2>3. s1 \in Seq(Message) /\ Len(s1) = n
    BY <1>5, <2>1
  <2> QED
    BY <2>2, <2>3
<1>13. /\ s2 \in Seq(Message) /\ Len(s2) = k
       /\ \A i \in 1 .. k : s2[i] = PositionMsg(assets[i], balance[assets[i]])
  <2>1. \A i \in 1 .. k : PositionMsg(assets[i], balance[assets[i]]) \in Message
    BY <1>7 DEF PositionMsg, Message
  <2>2. s2 \in [1 .. k -> Message]
    BY <1>9, <2>1
  <2> QED
    BY <1>7, <1>9, <2>2
<1>14. PICK s3 : s3 = <<CompleteMsg>>
  OBVIOUS
<1>15. s3 \in Seq(Message) /\ Len(s3) = 1 /\ s3[1] = CompleteMsg
  BY <1>14 DEF Message
<1>16. PICK s12 : s12 = s1 \o s2
  OBVIOUS
<1>17. /\ s12 \in Seq(Message) /\ Len(s12) = n + k
       /\ \A i \in 1 .. n : s12[i] = s1[i]
       /\ \A i \in 1 .. k : s12[n + i] = s2[i]
  BY <1>5, <1>7, <1>12, <1>13, <1>16
<1>18. PICK s : s = s12 \o s3
  OBVIOUS
<1>19. /\ s \in Seq(Message) /\ Len(s) = n + k + 1
       /\ \A i \in 1 .. (n + k) : s[i] = s12[i]
       /\ s[n + k + 1] = CompleteMsg
  <2>1. /\ s \in Seq(Message) /\ Len(s) = Len(s12) + Len(s3)
        /\ \A i \in 1 .. Len(s12) + Len(s3) :
             s[i] = IF i <= Len(s12) THEN s12[i] ELSE s3[i - Len(s12)]
    BY <1>15, <1>17, <1>18, ConcatProperties
  <2>2. n + k \in Nat /\ n + k + 1 \in 1 .. Len(s12) + Len(s3)
    BY <1>5, <1>7, <1>15, <1>17
  <2> QED
    BY <1>15, <1>17, <2>1, <2>2
<1>20. /\ \A i \in 1 .. n : s[i] = Status(ids[i])
       /\ \A i \in 1 .. k : s[n + i] = PositionMsg(assets[i], balance[assets[i]])
  <2>1. \A i \in 1 .. n : i \in 1 .. (n + k)
    BY <1>5, <1>7
  <2>2. \A i \in 1 .. k : n + i \in 1 .. (n + k)
    BY <1>5, <1>7
  <2> QED
    BY <1>12, <1>13, <1>17, <1>19, <2>1, <2>2
<1>21. Replay = s
  BY <1>10, <1>14, <1>16, <1>18
<1> HIDE DEF ExchangeTyped
<1>22. ids \in [1 .. n -> DOMAIN live] /\ assets \in [1 .. k -> Assets] /\ n \in Nat /\ k \in Nat
  BY <1>5, <1>7
<1> USE <1>22
<1> WITNESS n \in Nat, k \in Nat
<1> WITNESS ids \in [1 .. n -> DOMAIN live], assets \in [1 .. k -> Assets]
<1> QED
  BY <1>3, <1>5, <1>7, <1>19, <1>20, <1>21

-----------------------------------------------------------------------------
(* The order of the stream: nothing of the replay comes after its Complete,  *)
(* and none of it is still on its way once the agent is ready.               *)
ReplayInOrder ==
  \A i, j \in 1 .. Len(wire) :
    wire[i].type = "Complete" /\ wire[j].type \in {"OrderStatus", "Complete"} => j <= i

SessionInv == ExchangeTyped /\ SessionTyped /\ ReplayInOrder /\ ReadyMeansReplayed

LEMMA EventIs ==
  ASSUME NEW m, EventOf(m)
  PROVE  /\ m \in Message /\ m.type \notin {"OrderStatus", "Complete"}
         /\ UNCHANGED <<session, account, ready, notifying, waiter>>
         /\ session = "subscribed" => wire' = Append(wire, m)
         /\ session # "subscribed" => wire' = wire
  BY DEF EventOf, Event, Answer, agent, account, Added, Changed, Removed, Told

LEMMA HeadIs ==
  ASSUME SessionTyped, NEW T, Deliver(T)
  PROVE  /\ session = "subscribed" /\ Head(wire) \in Message /\ Head(wire).type \in T
         /\ Head(wire) = wire[1] /\ Len(wire) \in Nat \ {0}
         /\ wire' \in Seq(Message) /\ Len(wire') = Len(wire) - 1
         /\ \A i \in 1 .. Len(wire') : wire'[i] = wire[i + 1]
  BY DEF SessionTyped, Deliver

LEMMA MessageIs ==
  /\ \A m \in Message : m.type \in ExecTypes \ {"Complete"} => m \in OrderResponse
  /\ \A m \in Message : m.type = "Position" => m.symbol \in Assets /\ m.position \in Int
  BY DEF Message, OrderResponse, CompleteMsg, ExecTypes

LEMMA ReplayTypes ==
  /\ \A id : Status(id).type = "OrderStatus"
  /\ \A a, b : PositionMsg(a, b).type = "Position"
  BY DEF Status, OrderMsg, PositionMsg

LEMMA SessionInit == Init => SessionInv
<1> SUFFICES ASSUME Init PROVE SessionInv
  OBVIOUS
<1>1. live = <<>> /\ DOMAIN live = {} /\ live \in [DOMAIN live -> LiveOrder]
  BY DEF Init
<1>2. IsFiniteSet(DOMAIN live)
  BY <1>1, FS_EmptySet
<1>3. balance \in [Assets -> Int]
  BY DEF Init, Assets
<1>4. wire = <<>> /\ wire \in Seq(Message) /\ Len(wire) = 0 /\ DOMAIN wire = {}
  BY DEF Init
<1>5. session = "down" /\ ready = FALSE
  BY DEF Init
<1>6. ExchangeTyped
  BY <1>1, <1>2, <1>3 DEF ExchangeTyped
<1>7. SessionTyped
  BY <1>4, <1>5 DEF SessionTyped
<1>8. ReplayInOrder
  BY <1>4 DEF ReplayInOrder
<1> QED
  BY <1>5, <1>6, <1>7, <1>8 DEF SessionInv, ReadyMeansReplayed

LEMMA ExchangeKeeps == SessionInv /\ ExchangeStep => SessionInv'
<1> SUFFICES ASSUME SessionInv, ExchangeStep PROVE SessionInv'
  OBVIOUS
<1>0. ExchangeTyped /\ SessionTyped /\ ReplayInOrder /\ ReadyMeansReplayed /\ wire \in Seq(Message)
  BY DEF SessionInv, SessionTyped
<1>1. ASSUME NEW m, EventOf(m), ExchangeTyped' PROVE SessionInv'
  <2>1. /\ m \in Message /\ m.type \notin {"OrderStatus", "Complete"}
        /\ UNCHANGED <<session, ready>>
        /\ session = "subscribed" => wire' = Append(wire, m)
        /\ session # "subscribed" => wire' = wire
    BY <1>1, EventIs
  <2>2. CASE session # "subscribed"
    BY <1>0, <1>1, <2>1, <2>2 DEF SessionInv, SessionTyped, ReplayInOrder, ReadyMeansReplayed
  <2>3. CASE session = "subscribed"
    <3>1. /\ wire' \in Seq(Message) /\ Len(wire') = Len(wire) + 1 /\ wire'[Len(wire) + 1] = m
          /\ Len(wire) \in Nat /\ \A i \in 1 .. Len(wire) : wire'[i] = wire[i]
      BY <1>0, <2>1, <2>3
    <3>2. SessionTyped'
      BY <1>0, <2>1, <2>3, <3>1 DEF SessionTyped
    <3>3. \A i \in 1 .. Len(wire') : wire'[i].type \in {"OrderStatus", "Complete"} =>
            i \in 1 .. Len(wire) /\ wire'[i] = wire[i]
      BY <2>1, <3>1
    <3>4. ReplayInOrder'
      BY <1>0, <3>1, <3>3 DEF ReplayInOrder
    <3>5. ReadyMeansReplayed'
      <4>1. DOMAIN wire = 1 .. Len(wire) /\ DOMAIN wire' = 1 .. Len(wire')
        BY <1>0, <3>1
      <4> QED
        BY <1>0, <2>1, <3>3, <4>1 DEF ReadyMeansReplayed
    <3> QED
      BY <1>1, <3>2, <3>4, <3>5 DEF SessionInv
  <2> QED
    BY <2>2, <2>3
<1>2. CASE Subscribe
  <2>1. /\ session = "connected" /\ session' = "subscribed" /\ wire' = Replay
        /\ UNCHANGED <<live, balance, ready>>
    BY <1>2 DEF Subscribe, exchange, agent
  <2>2. PICK n \in Nat, k \in Nat : \E ids \in [1 .. n -> DOMAIN live], assets \in [1 .. k -> Assets] :
           /\ n = Cardinality(DOMAIN live)
           /\ \A i, j \in 1 .. n : ids[i] = ids[j] => i = j
           /\ \A id \in DOMAIN live : \E i \in 1 .. n : ids[i] = id
           /\ \A a \in Assets : \E i \in 1 .. k : assets[i] = a
           /\ Replay \in Seq(Message) /\ Len(Replay) = n + k + 1
           /\ \A i \in 1 .. n : Replay[i] = Status(ids[i])
           /\ \A i \in 1 .. k : Replay[n + i] = PositionMsg(assets[i], balance[assets[i]])
           /\ Replay[n + k + 1] = CompleteMsg
    BY <1>0, ReplayIs, Zenon
  <2>9. PICK ids \in [1 .. n -> DOMAIN live], assets \in [1 .. k -> Assets] :
           /\ Replay \in Seq(Message) /\ Len(Replay) = n + k + 1
           /\ \A i \in 1 .. n : Replay[i] = Status(ids[i])
           /\ \A i \in 1 .. k : Replay[n + i] = PositionMsg(assets[i], balance[assets[i]])
           /\ Replay[n + k + 1] = CompleteMsg
    BY <2>2, Zenon
  <2>3. /\ \A i \in 1 .. n : Replay[i].type = "OrderStatus"
        /\ \A i \in 1 .. k : Replay[n + i].type = "Position"
    <3>1. ASSUME NEW i \in 1 .. n PROVE Replay[i].type = "OrderStatus"
      <4>1. Replay[i] = Status(ids[i])
        BY <2>9
      <4>2. Status(ids[i]).type = "OrderStatus"
        BY ReplayTypes
      <4> QED
        BY <4>1, <4>2
    <3>2. ASSUME NEW i \in 1 .. k PROVE Replay[n + i].type = "Position"
      <4>1. Replay[n + i] = PositionMsg(assets[i], balance[assets[i]])
        BY <2>9
      <4>2. PositionMsg(assets[i], balance[assets[i]]).type = "Position"
        BY ReplayTypes
      <4> QED
        BY <4>1, <4>2
    <3> QED
      BY <3>1, <3>2
  <2>4. \A i \in 1 .. Len(Replay) : Replay[i].type = "Complete" => i = n + k + 1
    <3>1. ASSUME NEW i \in 1 .. Len(Replay), i # n + k + 1 PROVE Replay[i].type # "Complete"
      <4>1. i \in 1 .. n \/ (i - n \in 1 .. k /\ n + (i - n) = i)
        BY <2>9, <3>1
      <4> QED
        BY <2>3, <4>1
    <3> QED
      BY <3>1
  <2>5. ReplayInOrder'
    BY <2>1, <2>9, <2>4 DEF ReplayInOrder
  <2>6. ready' = FALSE
    BY <1>0, <2>1 DEF SessionTyped
  <2>7. SessionTyped'
    BY <2>1, <2>9, <2>6 DEF SessionTyped
  <2>8. ExchangeTyped'
    BY <1>0, <2>1 DEF ExchangeTyped
  <2> QED
    BY <2>5, <2>6, <2>7, <2>8 DEF SessionInv, ReadyMeansReplayed
<1> QED
  BY <1>0, <1>1, <1>2, ExchangeStepIs

LEMMA AgentKeeps ==
  SessionInv /\ (Connect \/ IoThread \/ WaitUntilReady \/ Break \/ Restart \/ UNCHANGED vars)
    => SessionInv'
<1> SUFFICES ASSUME SessionInv,
                    Connect \/ IoThread \/ WaitUntilReady \/ Break \/ Restart \/ UNCHANGED vars
             PROVE  SessionInv'
  OBVIOUS
<1>0. /\ ExchangeTyped /\ SessionTyped /\ ReplayInOrder /\ ReadyMeansReplayed
      /\ wire \in Seq(Message) /\ DOMAIN wire = 1 .. Len(wire)
  BY DEF SessionInv, SessionTyped
<1>1. UNCHANGED <<live, balance>>
  BY DEF Connect, IoThread, OnPositionResponse, OnOrderResponse, OnComplete, NotifyAll,
         WaitUntilReady, Break, Restart, vars, exchange
<1>2. ExchangeTyped'
  BY <1>0, <1>1 DEF ExchangeTyped
<1>3. ASSUME wire' = <<>>, ready' \in BOOLEAN, session' \in {"down", "broken"},
             session' = "down" => ~ready'
      PROVE  SessionInv'
  <2>1. wire' \in Seq(Message) /\ Len(wire') = 0 /\ DOMAIN wire' = {}
    BY <1>3
  <2> QED
    BY <1>2, <1>3, <2>1 DEF SessionInv, SessionTyped, ReplayInOrder, ReadyMeansReplayed
<1>4. CASE UNCHANGED <<session, wire, ready>>
  BY <1>0, <1>2, <1>4 DEF SessionInv, SessionTyped, ReplayInOrder, ReadyMeansReplayed
<1>5. CASE Connect
  BY <1>0, <1>2, <1>5 DEF Connect, agent, SessionInv, SessionTyped, ReplayInOrder, ReadyMeansReplayed
<1>6. CASE WaitUntilReady \/ NotifyAll \/ UNCHANGED vars
  BY <1>4, <1>6 DEF WaitUntilReady, NotifyAll, vars, agent
<1>7. CASE Break
  BY <1>0, <1>3, <1>7 DEF Break, agent, SessionTyped
<1>8. CASE Restart
  BY <1>3, <1>8 DEF Restart
<1>9. CASE OnPositionResponse \/ OnOrderResponse \/ OnComplete
  <2>1. PICK T : Deliver(T)
    BY <1>9 DEF OnPositionResponse, OnOrderResponse, OnComplete
  <2>2. /\ session = "subscribed" /\ Head(wire) = wire[1] /\ Len(wire) \in Nat \ {0}
        /\ wire' \in Seq(Message) /\ Len(wire') = Len(wire) - 1
        /\ \A i \in 1 .. Len(wire') : wire'[i] = wire[i + 1]
    BY <1>0, <2>1, HeadIs
  <2>3. session' = session /\ (ready' = ready \/ (ready' = TRUE /\ Head(wire).type = "Complete"))
    BY <1>9 DEF OnPositionResponse, OnOrderResponse, OnComplete, Deliver
  <2>4. SessionTyped'
    BY <1>0, <2>2, <2>3 DEF SessionTyped
  <2>5. \A i \in 1 .. Len(wire') : i + 1 \in 1 .. Len(wire) /\ wire'[i] = wire[i + 1]
    BY <2>2
  <2>6. ReplayInOrder'
    <3>1. ASSUME NEW i \in 1 .. Len(wire'), NEW j \in 1 .. Len(wire'),
                 wire'[i].type = "Complete", wire'[j].type \in {"OrderStatus", "Complete"}
          PROVE  j <= i
      <4>1. j + 1 <= i + 1
        BY <1>0, <2>5, <3>1 DEF ReplayInOrder
      <4> QED
        BY <2>2, <4>1
    <3> QED
      BY <3>1 DEF ReplayInOrder
  <2>7. ASSUME ready', NEW i \in 1 .. Len(wire')
        PROVE  wire'[i].type \notin {"OrderStatus", "Complete"}
    <3>1. CASE ready
      BY <1>0, <2>5, <3>1 DEF ReadyMeansReplayed
    <3>2. CASE wire[1].type = "Complete"
      <4>1. 1 \in 1 .. Len(wire) /\ ~ (i + 1 <= 1)
        BY <2>2
      <4> QED
        BY <1>0, <2>5, <3>2, <4>1 DEF ReplayInOrder
    <3> QED
      BY <2>2, <2>3, <2>7, <3>1, <3>2
  <2>8. ReadyMeansReplayed'
    BY <2>2, <2>7 DEF ReadyMeansReplayed
  <2> QED
    BY <1>2, <2>4, <2>6, <2>8 DEF SessionInv
<1> QED
  BY <1>5, <1>6, <1>7, <1>8, <1>9 DEF IoThread

LEMMA SessionStep == SessionInv /\ [Next]_vars => SessionInv'
  BY ExchangeKeeps, AgentKeeps DEF Next

LEMMA SessionInvariant == Spec => []SessionInv
  BY SessionInit, SessionStep, PTL DEF Spec

(* When ready_ is set, the login replay has been applied in full.            *)
THEOREM ReadyAfterReplay == Spec => []ReadyMeansReplayed
<1>1. SessionInv => ReadyMeansReplayed
  BY DEF SessionInv
<1> QED
  BY <1>1, SessionInvariant, PTL

-----------------------------------------------------------------------------
(* A session is one of the lives of an account: each of its steps is a step  *)
(* of ClientAccount, or leaves the account alone.                            *)
LEMMA SessionStepsAccount == SessionInv /\ [Next]_vars => [AccountNext]_account
<1> SUFFICES ASSUME SessionInv, [Next]_vars PROVE AccountNext \/ UNCHANGED account
  OBVIOUS
<1>0. ExchangeTyped /\ SessionTyped
  BY DEF SessionInv
<1>1. CASE ExchangeStep
  <2>1. CASE Subscribe
    BY <2>1 DEF Subscribe, agent
  <2>2. ASSUME NEW m, EventOf(m) PROVE UNCHANGED account
    BY <2>2, EventIs
  <2> QED
    BY <1>0, <1>1, <2>1, <2>2, ExchangeStepIs
<1>2. CASE OnPositionResponse
  <2>1. PICK m : m = Head(wire)
    OBVIOUS
  <2>2. m \in Message /\ m.type = "Position"
    BY <1>0, <1>2, <2>1, HeadIs DEF OnPositionResponse
  <2>3. HandlePositionResponse(m.symbol, m.position)
    BY <1>2, <2>1 DEF OnPositionResponse
  <2> QED
    BY <2>2, <2>3, MessageIs DEF AccountNext
<1>3. CASE OnOrderResponse
  <2>1. PICK m : m = Head(wire)
    OBVIOUS
  <2>2. m \in Message /\ m.type \in ExecTypes \ {"Complete"}
    BY <1>0, <1>3, <2>1, HeadIs DEF OnOrderResponse
  <2>3. HandleOrderResponse(m)
    BY <1>3, <2>1 DEF OnOrderResponse
  <2> QED
    BY <2>2, <2>3, MessageIs DEF AccountNext
<1>4. CASE Restart
  BY <1>4 DEF Restart, AccountNext
<1>5. CASE Connect \/ OnComplete \/ NotifyAll \/ WaitUntilReady \/ Break \/ UNCHANGED vars
  BY <1>5 DEF Connect, OnComplete, NotifyAll, WaitUntilReady, Break, vars, agent
<1> QED
  BY <1>1, <1>2, <1>3, <1>4, <1>5 DEF Next, IoThread

(* So whatever is proved of an account holds of the one in a session.        *)
THEOREM SessionImplementsAccount == Spec => AccountSpec
<1>1. Init => AccountInit
  BY DEF Init
<1> QED
  BY <1>1, SessionInvariant, SessionStepsAccount, PTL DEF Spec, AccountSpec

-----------------------------------------------------------------------------
(* What one response makes of the account.                                   *)
LEMMA PositionsOnceIs ==
  ASSUME NEW pos, NEW m
  PROVE  /\ m.type = "Position" => PositionsOnce(pos, m) = [pos EXCEPT ![m.symbol] = m.position]
         /\ m.type \in {"PartialFill", "Fill"} => PositionsOnce(pos, m) = UpdatePositionAndCash(pos, m)
         /\ m.type \notin {"Position", "PartialFill", "Fill"} => PositionsOnce(pos, m) = pos
<1>1. CASE m.type = "Position"
  BY <1>1 DEF PositionsOnce
<1>2. CASE m.type = "Complete"
  BY <1>2 DEF PositionsOnce
<1>3. CASE m.type \notin {"Position", "Complete"}
  <2>1. PositionsOnce(pos, m) = PositionsAfter(pos, m)
    BY <1>3 DEF PositionsOnce
  <2> QED
    BY <1>3, <2>1 DEF PositionsAfter
<1> QED
  BY <1>1, <1>2, <1>3

LEMMA OpenOrdersOnceIs ==
  ASSUME NEW open, NEW m
  PROVE  /\ m.type \in {"OrderStatus", "New", "Replaced", "PartialFill"} =>
              OpenOrdersOnce(open, m) = Upsert(open, m)
         /\ m.type \in {"Fill", "Cancelled"} => OpenOrdersOnce(open, m) = Erase(open, m.id)
         /\ m.type \in {"Position", "Complete", "Unknown"} => OpenOrdersOnce(open, m) = open
  BY DEF OpenOrdersOnce, OpenOrdersAfter

-----------------------------------------------------------------------------
(* A list of open orders agrees with the orders that are live.               *)
Good(o, lv) == o.id \in DOMAIN lv /\ o.symbol = lv[o.id].symbol /\ o.side = lv[o.id].side

Lists(open, lv) ==
  /\ open \in Seq(OrderResponse) /\ Unique(open)
  /\ \A i \in 1 .. Len(open) : Good(open[i], lv)
  /\ \A id \in DOMAIN lv : \E i \in 1 .. Len(open) : open[i].id = id

(* The account an agent will hold when the stream has been applied; a fresh  *)
(* agent holds an empty one.                                                 *)
InStep(pos, open, w, bal, lv) == P!Fold(pos, w) = bal /\ Lists(O!Fold(open, w), lv)

StepInv ==
  /\ session \in {"down", "connected"} => positions = EmptyPositions /\ open_orders = <<>>
  /\ session = "subscribed" => InStep(positions, open_orders, wire, balance, live)

LEMMA FoldsAre ==
  ASSUME NEW base, NEW s
  PROVE  /\ P!Fold(base, s) = FoldLeft(PositionsOnce, base, s)
         /\ O!Fold(base, s) = FoldLeft(OpenOrdersOnce, base, s)
<1>1. P!Fold(base, s) = FoldLeft(PositionsOnce, base, s)
  BY Zenon DEF P!Fold, P!FoldLeft, P!MapThenFoldSet, P!Max, FoldLeft, MapThenFoldSet, Max
<1>2. O!Fold(base, s) = FoldLeft(OpenOrdersOnce, base, s)
  BY Zenon DEF O!Fold, O!FoldLeft, O!MapThenFoldSet, O!Max, FoldLeft, MapThenFoldSet, Max
<1> QED
  BY <1>1, <1>2

LEMMA StepInvMeans == SessionInv /\ StepInv => AccountInStep
<1> SUFFICES ASSUME SessionInv, StepInv, session = "subscribed"
             PROVE  /\ FoldLeft(PositionsOnce, positions, wire) = balance
                    /\ LET open == FoldLeft(OpenOrdersOnce, open_orders, wire)
                       IN  /\ Named(open) = {<<id, live[id].symbol, live[id].side>> : id \in DOMAIN live}
                           /\ Len(open) = Cardinality(DOMAIN live)
  BY Zenon DEF AccountInStep
<1>1. PICK open : open = O!Fold(open_orders, wire)
  OBVIOUS
<1>2. P!Fold(positions, wire) = balance /\ Lists(open, live)
  BY <1>1 DEF StepInv, InStep
<1>3. PICK n : n = Len(open)
  OBVIOUS
<1>4. /\ n \in Nat /\ DOMAIN open = 1 .. n /\ Unique(open)
      /\ \A i \in 1 .. n : Good(open[i], live)
      /\ \A id \in DOMAIN live : \E i \in 1 .. n : open[i].id = id
  BY <1>2, <1>3 DEF Lists
<1>5. Named(open) = {<<id, live[id].symbol, live[id].side>> : id \in DOMAIN live}
  <2>1. ASSUME NEW i \in 1 .. n
        PROVE  <<open[i].id, open[i].symbol, open[i].side>>
                 \in {<<id, live[id].symbol, live[id].side>> : id \in DOMAIN live}
    BY <1>4 DEF Good
  <2>2. ASSUME NEW id \in DOMAIN live
        PROVE  <<id, live[id].symbol, live[id].side>> \in Named(open)
    <3>1. PICK i \in 1 .. n : open[i].id = id
      BY <1>4
    <3>2. open[i].symbol = live[id].symbol /\ open[i].side = live[id].side
      BY <1>4, <3>1 DEF Good
    <3> QED
      BY <1>4, <3>1, <3>2 DEF Named
  <2> QED
    BY <1>4, <2>1, <2>2 DEF Named
<1>6. n = Cardinality(DOMAIN live)
  <2>1. PICK f : f = [i \in 1 .. n |-> open[i].id]
    OBVIOUS
  <2>2. f \in [1 .. n -> DOMAIN live]
    BY <1>4, <2>1 DEF Good
  <2>3. \A i, j \in 1 .. n : f[i] = f[j] => i = j
    BY <1>3, <1>4, <2>1 DEF Unique
  <2>4. \A id \in DOMAIN live : \E i \in 1 .. n : f[i] = id
    BY <1>4, <2>1
  <2>5. f \in Bijection(1 .. n, DOMAIN live)
    BY <2>2, <2>3, <2>4 DEF Bijection, Injection, Surjection, IsInjective
  <2>6. ExistsBijection(1 .. n, DOMAIN live)
    BY <2>5 DEF ExistsBijection
  <2>7. IsFiniteSet(DOMAIN live)
    BY DEF SessionInv, ExchangeTyped
  <2> QED
    BY <1>4, <2>6, <2>7, FS_CountingElements
<1>7. FoldLeft(PositionsOnce, positions, wire) = balance
  BY <1>2, FoldsAre, Zenon
<1>8. FoldLeft(OpenOrdersOnce, open_orders, wire) = open
  BY <1>1, FoldsAre, Zenon
<1> QED
  BY <1>3, <1>5, <1>6, <1>7, <1>8, Zenon

-----------------------------------------------------------------------------
(* An event of the exchange and its answer change the two sides alike.       *)
LEMMA EventLists ==
  ASSUME ExchangeTyped, NEW m, EventOf(m), NEW open, Lists(open, live)
  PROVE  Lists(OpenOrdersOnce(open, m), live')
<1>1. PICK s : s = OpenOrdersOnce(open, m)
  OBVIOUS
<1>2. /\ open \in Seq(OrderResponse) /\ Unique(open)
      /\ \A i \in 1 .. Len(open) : Good(open[i], live)
      /\ \A x \in DOMAIN live : \E i \in 1 .. Len(open) : open[i].id = x
  BY DEF Lists
<1>3. m \in Message /\ (m.type \in ExecTypes \ {"Complete"} => m \in OrderResponse)
  BY MessageIs DEF EventOf
<1>4. ASSUME NEW id \in Ids, Added(id, m) PROVE Lists(s, live')
  <2>1. m \in OrderResponse /\ s = Upsert(open, m)
    BY <1>1, <1>3, <1>4, OpenOrdersOnceIs DEF Added, ExecTypes
  <2>7. O!Upserted(OrderResponse, open, m, s) /\ Unique(s)
    BY <1>2, <2>1, UpsertIs
  <2>2. /\ s \in Seq(OrderResponse) /\ Unique(s)
        /\ \A i \in 1 .. Len(s) : s[i] = m \/ \E j \in 1 .. Len(open) : s[i] = open[j]
        /\ \E i \in 1 .. Len(s) : s[i] = m
        /\ \A j \in 1 .. Len(open) : open[j].id # m.id => \E i \in 1 .. Len(s) : s[i] = open[j]
    BY <2>7 DEF O!Upserted
  <2>3. \A o : Good(o, live) => Good(o, live')
    BY <1>4 DEF Good, Added
  <2>4. Good(m, live')
    BY <1>4 DEF Good, Added
  <2>5. ASSUME NEW x \in DOMAIN live' PROVE \E i \in 1 .. Len(s) : s[i].id = x
    <3>1. CASE x = id
      BY <1>4, <2>2, <3>1 DEF Added
    <3>2. CASE x # id
      <4>1. PICK j \in 1 .. Len(open) : open[j].id = x
        BY <1>2, <1>4, <2>5, <3>2 DEF Added
      <4> QED
        BY <1>4, <2>2, <3>2, <4>1 DEF Added
    <3> QED
      BY <3>1, <3>2
  <2>6. \A i \in 1 .. Len(s) : Good(s[i], live')
    BY <1>2, <2>2, <2>3, <2>4
  <2> QED
    BY <2>2, <2>5, <2>6 DEF Lists
<1>5. ASSUME NEW id \in Ids, Changed(id, m) PROVE Lists(s, live')
  <2>1. m \in OrderResponse /\ s = Upsert(open, m)
    BY <1>1, <1>3, <1>5, OpenOrdersOnceIs DEF Changed, ExecTypes
  <2>7. O!Upserted(OrderResponse, open, m, s) /\ Unique(s)
    BY <1>2, <2>1, UpsertIs
  <2>2. /\ s \in Seq(OrderResponse) /\ Unique(s)
        /\ \A i \in 1 .. Len(s) : s[i] = m \/ \E j \in 1 .. Len(open) : s[i] = open[j]
        /\ \E i \in 1 .. Len(s) : s[i] = m
        /\ \A j \in 1 .. Len(open) : open[j].id # m.id => \E i \in 1 .. Len(s) : s[i] = open[j]
    BY <2>7 DEF O!Upserted
  <2>3. \A o : Good(o, live) => Good(o, live')
    BY <1>5 DEF Good, Changed
  <2>4. Good(m, live')
    BY <1>5 DEF Good, Changed
  <2>5. ASSUME NEW x \in DOMAIN live' PROVE \E i \in 1 .. Len(s) : s[i].id = x
    <3>1. CASE x = id
      BY <1>5, <2>2, <3>1 DEF Changed
    <3>2. CASE x # id
      <4>1. PICK j \in 1 .. Len(open) : open[j].id = x
        BY <1>2, <1>5, <2>5 DEF Changed
      <4> QED
        BY <1>5, <2>2, <3>2, <4>1 DEF Changed
    <3> QED
      BY <3>1, <3>2
  <2>6. \A i \in 1 .. Len(s) : Good(s[i], live')
    BY <1>2, <2>2, <2>3, <2>4
  <2> QED
    BY <2>2, <2>5, <2>6 DEF Lists
<1>6. ASSUME NEW id \in Ids, Removed(id, m) PROVE Lists(s, live')
  <2>1. s = Erase(open, id)
    BY <1>1, <1>6, OpenOrdersOnceIs DEF Removed
  <2>2. /\ s \in Seq(OrderResponse) /\ Unique(s)
        /\ \A i \in 1 .. Len(s) : \E j \in 1 .. Len(open) : s[i] = open[j] /\ open[j].id # id
        /\ \A j \in 1 .. Len(open) : open[j].id # id => \E i \in 1 .. Len(s) : s[i] = open[j]
    <3>1. O!Erased(OrderResponse, open, id, s) /\ Unique(s)
      BY <1>2, <2>1, EraseIs
    <3> QED
      BY <3>1 DEF O!Erased
  <2>3. \A o : Good(o, live) /\ o.id # id => Good(o, live')
    BY <1>6 DEF Good, Removed
  <2>4. \A i \in 1 .. Len(s) : Good(s[i], live')
    BY <1>2, <2>2, <2>3
  <2>5. ASSUME NEW x \in DOMAIN live' PROVE \E i \in 1 .. Len(s) : s[i].id = x
    <3>1. x # id /\ x \in DOMAIN live
      BY <1>6, <2>5 DEF Removed
    <3>2. PICK j \in 1 .. Len(open) : open[j].id = x
      BY <1>2, <3>1
    <3> QED
      BY <2>2, <3>1, <3>2
  <2> QED
    BY <2>2, <2>4, <2>5 DEF Lists
<1>7. CASE Told(m)
  <2>1. s = open
    BY <1>1, <1>7, OpenOrdersOnceIs DEF Told
  <2>2. live' = live
    BY <1>7 DEF Told
  <2> QED
    BY <1>1, <2>1, <2>2
<1> QED
  BY <1>1, <1>4, <1>5, <1>6, <1>7 DEF EventOf

LEMMA EventBalances ==
  ASSUME ExchangeTyped, NEW m, EventOf(m)
  PROVE  PositionsOnce(balance, m) = balance'
<1>1. CASE Told(m)
  <2>1. CASE m.type = "Unknown"
    BY <1>1, <2>1, PositionsOnceIs DEF Told
  <2>2. CASE m.type = "Position"
    <3>1. m.symbol \in Assets /\ m.position = balance[m.symbol] /\ balance' = balance
      BY <1>1, <2>2 DEF Told
    <3>2. [balance EXCEPT ![m.symbol] = m.position] = balance
      BY <3>1 DEF ExchangeTyped
    <3> QED
      BY <2>2, <3>1, <3>2, PositionsOnceIs
  <2> QED
    BY <1>1, <2>1, <2>2 DEF Told
<1>2. ASSUME NEW id \in Ids, Added(id, m) PROVE PositionsOnce(balance, m) = balance'
  BY <1>2, PositionsOnceIs DEF Added
<1>3. ASSUME NEW id \in Ids, Changed(id, m) PROVE PositionsOnce(balance, m) = balance'
  BY <1>3, PositionsOnceIs DEF Changed
<1>4. ASSUME NEW id \in Ids, Removed(id, m) PROVE PositionsOnce(balance, m) = balance'
  BY <1>4, PositionsOnceIs DEF Removed
<1> QED
  BY <1>1, <1>2, <1>3, <1>4 DEF EventOf

-----------------------------------------------------------------------------
(* The login replay alone gives an empty account what the exchange holds.    *)
LEMMA ReplayBalances ==
  ASSUME ExchangeTyped
  PROVE  P!Fold(EmptyPositions, Replay) = balance
<1>1. PICK n \in Nat, k \in Nat : \E ids \in [1 .. n -> DOMAIN live], assets \in [1 .. k -> Assets] :
         /\ n = Cardinality(DOMAIN live)
         /\ \A i, j \in 1 .. n : ids[i] = ids[j] => i = j
         /\ \A id \in DOMAIN live : \E i \in 1 .. n : ids[i] = id
         /\ \A a \in Assets : \E i \in 1 .. k : assets[i] = a
         /\ Replay \in Seq(Message) /\ Len(Replay) = n + k + 1
         /\ \A i \in 1 .. n : Replay[i] = Status(ids[i])
         /\ \A i \in 1 .. k : Replay[n + i] = PositionMsg(assets[i], balance[assets[i]])
         /\ Replay[n + k + 1] = CompleteMsg
  BY ReplayIs, Zenon
<1>2. PICK ids \in [1 .. n -> DOMAIN live], assets \in [1 .. k -> Assets] :
         /\ \A a \in Assets : \E i \in 1 .. k : assets[i] = a
         /\ Replay \in Seq(Message) /\ Len(Replay) = n + k + 1
         /\ \A i \in 1 .. n : Replay[i] = Status(ids[i])
         /\ \A i \in 1 .. k : Replay[n + i] = PositionMsg(assets[i], balance[assets[i]])
         /\ Replay[n + k + 1] = CompleteMsg
  BY <1>1, Zenon
<1>3. PICK N : N = n + k + 1
  OBVIOUS
<1>4. N \in Nat /\ DOMAIN Replay = 1 .. N
  BY <1>2, <1>3
<1>5. PICK Given : Given = [j \in 0 .. N |-> {assets[i] : i \in {x \in 1 .. k : n + x <= j}}]
  OBVIOUS
<1>6. PICK h : h = [j \in 0 .. N |-> [a \in Assets |-> IF a \in Given[j] THEN balance[a] ELSE 0]]
  OBVIOUS
<1>7. ASSUME NEW j \in 0 .. N
      PROVE  h[j] = [a \in Assets |-> IF a \in Given[j] THEN balance[a] ELSE 0]
  BY <1>6
<1>8. h[0] = EmptyPositions
  <2>1. 0 \in 0 .. N /\ {x \in 1 .. k : n + x <= 0} = {}
    BY <1>4
  <2>2. Given[0] = {}
    BY <1>5, <2>1
  <2> QED
    BY <1>7, <2>1, <2>2 DEF EmptyPositions
<1>9. h[N] = balance
  <2>1. N \in 0 .. N /\ \A i \in 1 .. k : n + i <= N
    BY <1>3, <1>4
  <2>2. \A a \in Assets : a \in Given[N]
    BY <1>2, <1>5, <2>1
  <2> QED
    BY <1>7, <2>1, <2>2 DEF ExchangeTyped
<1>10. ASSUME NEW j \in 1 .. N PROVE h[j] = PositionsOnce(h[j - 1], Replay[j])
  <2>1. j \in 0 .. N /\ j - 1 \in 0 .. N
    BY <1>4
  <2>2. CASE j \in 1 .. n \/ j = N
    <3>1. Replay[j].type \in {"OrderStatus", "Complete"}
      BY <1>2, <1>3, <2>2, ReplayTypes DEF CompleteMsg
    <3>2. {x \in 1 .. k : n + x <= j} = {x \in 1 .. k : n + x <= j - 1}
      BY <1>3, <2>2
    <3>3. Given[j] = Given[j - 1]
      BY <1>5, <2>1, <3>2
    <3>4. h[j] = h[j - 1]
      BY <1>7, <2>1, <3>3
    <3> QED
      BY <3>1, <3>4, PositionsOnceIs
  <2>3. CASE j \in (n + 1) .. (n + k)
    <3>1. PICK i \in 1 .. k : j = n + i
      <4>1. j - n \in 1 .. k /\ j = n + (j - n)
        BY <2>3
      <4> QED
        BY <4>1
    <3>2. PICK a : a = assets[i]
      OBVIOUS
    <3>3. Replay[j] = PositionMsg(a, balance[a]) /\ a \in Assets
      BY <1>2, <3>1, <3>2
    <3>4. {x \in 1 .. k : n + x <= j} = {x \in 1 .. k : n + x <= j - 1} \cup {i}
      BY <3>1
    <3>5. Given[j] = Given[j - 1] \cup {a}
      BY <1>5, <2>1, <3>2, <3>4
    <3>6. PositionsOnce(h[j - 1], Replay[j]) = [h[j - 1] EXCEPT ![a] = balance[a]]
      BY <3>3, PositionsOnceIs DEF PositionMsg
    <3>7. PICK G : G = Given[j - 1]
      OBVIOUS
    <3>8. /\ h[j - 1] = [x \in Assets |-> IF x \in G THEN balance[x] ELSE 0]
          /\ h[j] = [x \in Assets |-> IF x \in G \cup {a} THEN balance[x] ELSE 0]
      BY <1>7, <2>1, <3>5, <3>7
    <3>9. h[j] = [h[j - 1] EXCEPT ![a] = balance[a]]
      BY <3>3, <3>8
    <3> QED
      BY <3>6, <3>9
  <2> QED
    BY <1>3, <2>2, <2>3
<1> QED
  BY <1>4, <1>8, <1>9, <1>10, P!FoldIs

LEMMA ReplayLists ==
  ASSUME ExchangeTyped
  PROVE  Lists(O!Fold(<<>>, Replay), live)
<1>1. PICK n \in Nat, k \in Nat : \E ids \in [1 .. n -> DOMAIN live], assets \in [1 .. k -> Assets] :
         /\ n = Cardinality(DOMAIN live)
         /\ \A i, j \in 1 .. n : ids[i] = ids[j] => i = j
         /\ \A id \in DOMAIN live : \E i \in 1 .. n : ids[i] = id
         /\ \A a \in Assets : \E i \in 1 .. k : assets[i] = a
         /\ Replay \in Seq(Message) /\ Len(Replay) = n + k + 1
         /\ \A i \in 1 .. n : Replay[i] = Status(ids[i])
         /\ \A i \in 1 .. k : Replay[n + i] = PositionMsg(assets[i], balance[assets[i]])
         /\ Replay[n + k + 1] = CompleteMsg
  BY ReplayIs, Zenon
<1>2. PICK ids \in [1 .. n -> DOMAIN live], assets \in [1 .. k -> Assets] :
         /\ \A i, j \in 1 .. n : ids[i] = ids[j] => i = j
         /\ \A id \in DOMAIN live : \E i \in 1 .. n : ids[i] = id
         /\ Replay \in Seq(Message) /\ Len(Replay) = n + k + 1
         /\ \A i \in 1 .. n : Replay[i] = Status(ids[i])
         /\ \A i \in 1 .. k : Replay[n + i] = PositionMsg(assets[i], balance[assets[i]])
         /\ Replay[n + k + 1] = CompleteMsg
  BY <1>1, Zenon
<1>3. PICK N : N = n + k + 1
  OBVIOUS
<1>4. N \in Nat /\ DOMAIN Replay = 1 .. N
  BY <1>2, <1>3
<1>5. PICK open : open = [i \in 1 .. n |-> Status(ids[i])]
  OBVIOUS
<1>6. PICK h : h = [j \in 0 .. N |-> IF j <= n THEN [i \in 1 .. j |-> Status(ids[i])] ELSE open]
  OBVIOUS
<1>7. \A id \in DOMAIN live : /\ Status(id) \in OrderResponse /\ Status(id).id = id
                              /\ Status(id).type = "OrderStatus" /\ Good(Status(id), live)
  <2>1. ASSUME NEW id \in DOMAIN live
        PROVE  /\ Status(id) \in OrderResponse /\ Status(id).id = id
               /\ Status(id).type = "OrderStatus" /\ Good(Status(id), live)
    <3>1. live[id] \in LiveOrder /\ id \in Ids
      BY DEF ExchangeTyped
    <3> QED
      BY <3>1, OrderMsgTyped DEF Status, OrderMsg, Good, ExecTypes, Sides, LiveOrder
  <2> QED
    BY <2>1
<1>8. h[0] = <<>>
  BY <1>4, <1>6
<1>9. h[N] = open
  BY <1>3, <1>4, <1>6
<1>10. ASSUME NEW j \in 1 .. N PROVE h[j] = OpenOrdersOnce(h[j - 1], Replay[j])
  <2>1. CASE j \in 1 .. n
    <3>1. PICK s : s = [i \in 1 .. (j - 1) |-> Status(ids[i])]
      OBVIOUS
    <3>2. h[j - 1] = s /\ h[j] = [i \in 1 .. j |-> Status(ids[i])]
      BY <1>3, <1>6, <2>1, <3>1
    <3>3. PICK r : r = Status(ids[j])
      OBVIOUS
    <3>4. Replay[j] = r /\ r.id = ids[j] /\ r.type = "OrderStatus" /\ r \in OrderResponse
      BY <1>2, <1>7, <2>1, <3>3
    <3>5. s \in Seq(OrderResponse) /\ Len(s) = j - 1
      BY <1>7, <2>1, <3>1
    <3>6. \A i \in 1 .. Len(s) : s[i].id # r.id
      BY <1>2, <1>7, <2>1, <3>1, <3>4, <3>5
    <3>7. Find(s, r.id) = 0
      BY <3>5, <3>6, FindIs
    <3>8. OpenOrdersOnce(s, r) = Append(s, r)
      BY <3>4, <3>7, OpenOrdersOnceIs DEF Upsert
    <3>9. Append(s, r) = [i \in 1 .. j |-> Status(ids[i])]
      <4>1. PICK t : t = Append(s, r)
        OBVIOUS
      <4>2. t \in Seq(OrderResponse) /\ Len(t) = j /\ t[j] = r /\ \A i \in 1 .. (j - 1) : t[i] = s[i]
        BY <2>1, <3>4, <3>5, <4>1
      <4>3. \A i \in 1 .. j : t[i] = Status(ids[i])
        BY <2>1, <3>1, <3>3, <4>2
      <4>4. t = [i \in 1 .. j |-> t[i]]
        BY <4>2
      <4> QED
        BY <4>1, <4>3, <4>4
    <3> QED
      BY <3>2, <3>4, <3>8, <3>9
  <2>2. CASE j \in (n + 1) .. N
    <3>1. Replay[j].type \in {"Position", "Complete"}
      <4>1. j = N \/ (j - n \in 1 .. k /\ n + (j - n) = j)
        BY <1>3, <2>2
      <4>2. Replay[N].type = "Complete"
        BY <1>2, <1>3 DEF CompleteMsg
      <4>3. ASSUME NEW i \in 1 .. k PROVE Replay[n + i].type = "Position"
        <5>1. Replay[n + i] = PositionMsg(assets[i], balance[assets[i]])
          BY <1>2
        <5> QED
          BY <5>1, ReplayTypes
      <4> QED
        BY <4>1, <4>2, <4>3
    <3>2. ASSUME NEW i \in n .. N PROVE h[i] = open
      <4>1. i \in 0 .. N
        BY <1>4, <3>2
      <4>2. CASE i = n
        BY <1>5, <1>6, <4>1, <4>2
      <4>3. CASE i # n
        BY <1>4, <1>6, <3>2, <4>1, <4>3
      <4> QED
        BY <4>2, <4>3
    <3>3. h[j] = open /\ h[j - 1] = open
      BY <1>4, <2>2, <3>2
    <3> QED
      BY <3>1, <3>3, OpenOrdersOnceIs
  <2> QED
    BY <1>3, <2>1, <2>2
<1>11. O!Fold(<<>>, Replay) = open
  <2>1. PICK base : base = <<>>
    OBVIOUS
  <2>2. O!Fold(base, Replay) = h[N]
    BY <1>4, <1>8, <1>10, <2>1, O!FoldIs
  <2> QED
    BY <1>9, <2>1, <2>2, Zenon
<1>12. /\ open \in Seq(OrderResponse) /\ Len(open) = n
       /\ \A i \in 1 .. n : open[i] = Status(ids[i]) /\ ids[i] \in DOMAIN live
  <2>1. \A i \in 1 .. n : ids[i] \in DOMAIN live
    OBVIOUS
  <2>2. open \in [1 .. n -> OrderResponse]
    BY <1>5, <1>7, <2>1
  <2>3. \A i \in 1 .. n : open[i] = Status(ids[i])
    BY <1>5, Zenon
  <2> QED
    BY <2>1, <2>2, <2>3
<1>16. ASSUME NEW i \in 1 .. n PROVE open[i].id = ids[i]
  BY <1>7, <1>12
<1>13. Unique(open)
  <2>1. ASSUME NEW i \in 1 .. n, NEW j \in 1 .. n, open[i].id = open[j].id PROVE i = j
    <3>1. ids[i] = ids[j]
      BY <1>16, <2>1
    <3> QED
      BY <1>2, <3>1
  <2>2. Len(open) = n
    BY <1>12
  <2> QED
    BY <2>1, <2>2, Zenon DEF Unique
<1>14. \A i \in 1 .. Len(open) : Good(open[i], live)
  BY <1>7, <1>12
<1>15. \A id \in DOMAIN live : \E i \in 1 .. Len(open) : open[i].id = id
  <2>1. ASSUME NEW id \in DOMAIN live PROVE \E i \in 1 .. Len(open) : open[i].id = id
    <3>1. PICK i \in 1 .. n : ids[i] = id
      BY <1>2
    <3>2. open[i].id = id /\ i \in 1 .. Len(open)
      BY <1>12, <1>16, <3>1
    <3> QED
      BY <3>2
  <2> QED
    BY <2>1
<1> QED
  BY <1>11, <1>12, <1>13, <1>14, <1>15 DEF Lists

-----------------------------------------------------------------------------
LEMMA StepInit == Init => StepInv
  BY DEF Init, AccountInit, StepInv

LEMMA EventInStep ==
  ASSUME SessionInv, StepInv, NEW m, EventOf(m)
  PROVE  StepInv'
<1>1. UNCHANGED <<session, positions, open_orders>> /\ m \in Message
  BY EventIs DEF account
<1>2. CASE session # "subscribed"
  BY <1>1, <1>2 DEF StepInv
<1>3. CASE session = "subscribed"
  <2>1. wire' = Append(wire, m) /\ wire \in Seq(Message) /\ ExchangeTyped
    BY <1>3, EventIs DEF SessionInv, SessionTyped
  <2>2. P!Fold(positions, wire) = balance /\ Lists(O!Fold(open_orders, wire), live)
    BY <1>3 DEF StepInv, InStep
  <2>3. P!Fold(positions, wire') = PositionsOnce(P!Fold(positions, wire), m)
    BY <1>1, <2>1, P!FoldAppend
  <2>4. O!Fold(open_orders, wire') = OpenOrdersOnce(O!Fold(open_orders, wire), m)
    BY <1>1, <2>1, O!FoldAppend
  <2>5. P!Fold(positions, wire') = balance'
    BY <2>1, <2>2, <2>3, EventBalances
  <2>6. Lists(O!Fold(open_orders, wire'), live')
    <3>1. Lists(OpenOrdersOnce(O!Fold(open_orders, wire), m), live')
      BY <2>1, <2>2, EventLists
    <3> QED
      BY <2>4, <3>1
  <2>7. InStep(positions', open_orders', wire', balance', live')
    BY <1>1, <2>5, <2>6 DEF InStep
  <2> QED
    BY <1>1, <1>3, <2>7 DEF StepInv
<1> QED
  BY <1>2, <1>3

LEMMA DeliverInStep ==
  ASSUME SessionInv, StepInv, NEW T, Deliver(T),
         positions' = PositionsOnce(positions, Head(wire)),
         open_orders' = OpenOrdersOnce(open_orders, Head(wire)),
         UNCHANGED <<session, live, balance>>
  PROVE  StepInv'
<1>1. session = "subscribed" /\ wire \in Seq(Message) /\ wire # <<>> /\ wire' = Tail(wire)
  BY HeadIs DEF SessionInv, SessionTyped, Deliver
<1>2. P!Fold(positions, wire) = balance /\ Lists(O!Fold(open_orders, wire), live)
  BY <1>1 DEF StepInv, InStep
<1>3. P!Fold(positions, wire) = P!Fold(positions', wire')
  BY <1>1, P!FoldTail
<1>4. O!Fold(open_orders, wire) = O!Fold(open_orders', wire')
  BY <1>1, O!FoldTail
<1>5. InStep(positions', open_orders', wire', balance', live')
  BY <1>2, <1>3, <1>4 DEF InStep
<1> QED
  BY <1>1, <1>5 DEF StepInv

LEMMA AccountStaysInStep == SessionInv /\ StepInv /\ [Next]_vars => StepInv'
<1> SUFFICES ASSUME SessionInv, StepInv, [Next]_vars PROVE StepInv'
  OBVIOUS
<1>0. ExchangeTyped /\ SessionTyped
  BY DEF SessionInv
<1>1. CASE ExchangeStep
  <2>1. CASE Subscribe
    <3>1. /\ session = "connected" /\ session' = "subscribed" /\ wire' = Replay
          /\ UNCHANGED <<live, balance, positions, open_orders>>
      BY <2>1 DEF Subscribe, exchange, agent, account
    <3>2. positions = EmptyPositions /\ open_orders = <<>>
      BY <3>1 DEF StepInv
    <3>3. P!Fold(positions, Replay) = balance
      BY <1>0, <3>2, ReplayBalances
    <3>4. Lists(O!Fold(open_orders, Replay), live)
      BY <1>0, <3>2, ReplayLists
    <3>5. InStep(positions', open_orders', wire', balance', live')
      BY <3>1, <3>3, <3>4 DEF InStep
    <3> QED
      BY <3>1, <3>5 DEF StepInv
  <2>2. ASSUME NEW m, EventOf(m) PROVE StepInv'
    BY <2>2, EventInStep
  <2> QED
    BY <1>0, <1>1, <2>1, <2>2, ExchangeStepIs
<1>2. CASE OnPositionResponse
  <2>1. PICK m : m = Head(wire)
    OBVIOUS
  <2>2. m.type = "Position" /\ Deliver({"Position"}) /\ UNCHANGED <<session, live, balance>>
    BY <1>2, <2>1 DEF OnPositionResponse, Deliver, exchange
  <2>3. positions' = [positions EXCEPT ![m.symbol] = m.position] /\ open_orders' = open_orders
    BY <1>2, <2>1 DEF OnPositionResponse, HandlePositionResponse
  <2>4. positions' = PositionsOnce(positions, m) /\ open_orders' = OpenOrdersOnce(open_orders, m)
    BY <2>2, <2>3, PositionsOnceIs, OpenOrdersOnceIs
  <2> QED
    BY <2>1, <2>2, <2>4, DeliverInStep
<1>3. CASE OnOrderResponse
  <2>1. PICK m : m = Head(wire)
    OBVIOUS
  <2>2. /\ m.type \in ExecTypes \ {"Complete"} /\ Deliver(ExecTypes \ {"Complete"})
        /\ UNCHANGED <<session, live, balance>>
    BY <1>3, <2>1 DEF OnOrderResponse, Deliver, exchange
  <2>3. positions' = PositionsAfter(positions, m) /\ open_orders' = OpenOrdersAfter(open_orders, m)
    BY <1>3, <2>1 DEF OnOrderResponse, HandleOrderResponse
  <2>4. m.type # "Position" /\ m.type # "Complete"
    BY <2>2 DEF ExecTypes
  <2>5. positions' = PositionsOnce(positions, m)
    BY <2>3, <2>4 DEF PositionsOnce
  <2>6. open_orders' = OpenOrdersOnce(open_orders, m)
    BY <2>3, <2>4 DEF OpenOrdersOnce
  <2> QED
    BY <2>1, <2>2, <2>5, <2>6, DeliverInStep
<1>4. CASE OnComplete
  <2>1. PICK m : m = Head(wire)
    OBVIOUS
  <2>2. /\ m.type = "Complete" /\ Deliver({"Complete"}) /\ UNCHANGED <<session, live, balance>>
        /\ positions' = positions /\ open_orders' = open_orders
    BY <1>4, <2>1 DEF OnComplete, Deliver, exchange, account
  <2>3. positions' = PositionsOnce(positions, m) /\ open_orders' = OpenOrdersOnce(open_orders, m)
    BY <2>2, PositionsOnceIs, OpenOrdersOnceIs
  <2> QED
    BY <2>1, <2>2, <2>3, DeliverInStep
<1>5. CASE Connect
  BY <1>5 DEF Connect, agent, account, StepInv
<1>6. CASE Break
  BY <1>6 DEF Break, StepInv
<1>7. CASE Restart
  BY <1>7 DEF Restart, Clear, StepInv
<1>8. CASE WaitUntilReady \/ NotifyAll \/ UNCHANGED vars
  <2>1. UNCHANGED <<session, positions, open_orders, wire, balance, live>>
    BY <1>8 DEF WaitUntilReady, NotifyAll, vars, exchange, agent, account
  <2> QED
    BY <2>1 DEF StepInv, InStep
<1> QED
  BY <1>1, <1>2, <1>3, <1>4, <1>5, <1>6, <1>7, <1>8 DEF Next, IoThread

(* A subscribed agent is never wrong, only late: whatever was filled while   *)
(* it was down or logging in, applying the responses on their way gives it   *)
(* the exchange's balances and each open order once.                         *)
THEOREM AccountNeverDrifts == Spec => []AccountInStep
<1>1. Spec => []StepInv
  BY SessionInvariant, StepInit, AccountStaysInStep, PTL DEF Spec
<1> QED
  BY <1>1, SessionInvariant, StepInvMeans, PTL

(* In a session too, then, the account stays well typed and lists an order   *)
(* once, through crashes and restarts and while the stream lags.             *)
THEOREM SessionAccountCorrect == Spec => [](AccountTypeOK /\ UniqueOpenOrders)
  BY SessionImplementsAccount, AccountTypeCorrect, OrdersListedOnce, PTL
=============================================================================
