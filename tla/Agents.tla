------------------------------- MODULE Agents -------------------------------
(***************************************************************************)
(* One of the trading agents, or the account monitor, with the exchange:    *)
(* what each may do to the orders and the position of its client while its  *)
(* account is behind.  Only orders that nobody has asked to cancel count as  *)
(* standing: the exchange takes requests in the order they were sent.       *)
(***************************************************************************)
EXTENDS MMNative, MMAdvanced, Insider, NoiseTrader, AccountMonitor

vars == <<flow, refills, bracket, monitor>>

Init ==
  /\ FlowInit
  /\ refills = 0
  /\ closing = FALSE /\ waiting = FALSE /\ doubled = FALSE
  /\ needs_display = TRUE /\ phase = "waiting" /\ raising = FALSE /\ overtaken = FALSE
  /\ screen = Shown

(* The handlers of the agents that add nothing that sends.                   *)
OnMakerResponse ==
  /\ agent \in {"mm-native", "mm-advanced", "insider"} /\ wire # <<>>
  /\ Apply(Head(wire))
  /\ UNCHANGED <<refills, bracket, monitor>>

OnResponse ==
  \/ OnMakerResponse
  \/ OnNoiseResponse /\ UNCHANGED <<refills, monitor>>
  \/ OnMonitorResponse /\ UNCHANGED <<refills, bracket>>

MakerPass ==
  /\ ManageOrders \/ ManageQuotes \/ FastCancelProtection
  /\ UNCHANGED <<refills, bracket, monitor>>

InsiderPass ==
  /\ \E t \in Threads : InsiderStep(t)
  /\ UNCHANGED <<bracket, monitor>>

NoisePass == (ReadPosition \/ Tick) /\ UNCHANGED <<refills, monitor>>

MonitorPass == (OnMonitorTimer \/ SomebodySends) /\ UNCHANGED <<refills, bracket>>

Next ==
  \/ ExchangeStep /\ UNCHANGED <<refills, bracket, monitor>>
  \/ OnResponse
  \/ MakerPass \/ InsiderPass \/ NoisePass \/ MonitorPass

Spec == Init /\ [][Next]_vars

-----------------------------------------------------------------------------
(* Every variable has its type.                                              *)
TypeOK ==
  /\ FlowTypeOK
  /\ refills \in Nat
  /\ closing \in BOOLEAN /\ waiting \in BOOLEAN /\ doubled \in BOOLEAN
  /\ needs_display \in BOOLEAN /\ raising \in BOOLEAN /\ overtaken \in BOOLEAN
  /\ phase \in {"waiting", "cash shown", "positions shown", "shown"}
  /\ screen.cash \in Int /\ screen.positions \in [Symbols -> Int] /\ screen.open_orders \in Seq(OrderResponse)

(* Once the messages on their way are applied, the account lists the orders  *)
(* that the exchange has for the client, each once, and on its side: what a  *)
(* pass decides on is late, and never wrong in any other way.  It is so      *)
(* although a restarted agent asks for new orders under the ids of the ones  *)
(* that are still open, and for changes of orders whose id is by then        *)
(* another's.                                                                *)
AccountFollows ==
  LET open == FoldLeft(OpenOrdersOnce, open_orders, wire)
  IN  /\ Unique(open)
      /\ {<<open[i].id, open[i].side>> : i \in DOMAIN open} = {<<id, live[id].side>> : id \in DOMAIN live}

\* The orders an agent means to keep on each side.
Intended == CASE agent = "mm-native" -> Target [] OTHER -> 1

Larger(m, n) == IF m > n THEN m ELSE n

\* The orders of a side that the process before left, and their quantity.
LeftOn(s)      == {id \in DOMAIN legacy.orders : legacy.orders[id].side = s}
LeftOffered(s) == MapThenSumSet(LAMBDA id : legacy.orders[id].q, LeftOn(s))

(* A market maker's or the insider's standing limit orders on a side, those  *)
(* on their way included, exceed what it means to have there, or what the    *)
(* process before left there if that is more, by at most one set for each    *)
(* time it sent on an account that was out of date.                          *)
PileUpBounded ==
  agent \in {"mm-native", "mm-advanced", "insider"} =>
    \A s \in TwoSides :
      Cardinality(Standing(s)) + Cardinality(Pending("Limit", s))
        <= Larger(Intended, Cardinality(LeftOn(s))) + Intended * stale

\* What the side's standing orders, and those on their way, may still trade.
Offered(s) ==
  MapThenSumSet(LAMBDA id : live[id].q, Standing(s))
    + MapThenSumSet(LAMBDA i : requests[i].q, Pending("Limit", s) \cup Pending("Market", s))

(* max_pos_ is a soft limit: the position, were every order of a side to     *)
(* trade, passes it by no more than one market order and one quote, another  *)
(* quote for each time something was sent on an account out of date (by       *)
(* either thread, at any distance between its reads and its sends), and what *)
(* a quote may have traded for each replacement, which is sent without a     *)
(* look at the position.  A process that starts beyond the limit, or with    *)
(* more than a quote on a side, goes no further than that.                   *)
InventoryBound ==
  agent = "insider" =>
    \A s \in TwoSides :
      Signed(s, Balance) + Offered(s)
        <= Larger(MaxPos - 1, Signed(s, legacy.positions[Symbol]))
             + SnipeQty + Larger(PassiveQty, LeftOffered(s))
             + (PassiveQty - 1) * refills + PassiveQty * stale

\* The process before left nothing on the side of the exit beyond its position.
LeftWithin == \E s \in TwoSides : Signed(s, legacy.positions[Symbol]) + LeftOffered(s) <= 0

(* The noise trader's exits never offer more than its position, so that they *)
(* close it and do not reverse it, unless they did when it started, a tick    *)
(* ran on an account out of date, an order was filled before its             *)
(* cancellation arrived, or a tick sent the take-profit and the stop-loss     *)
(* together.                                                                 *)
ExitsWithinPosition ==
  agent = "noise" /\ LeftWithin /\ stale = 0 /\ ~slipped /\ ~doubled /\ Balance # 0 =>
    Offered(IF Balance > 0 THEN "Sell" ELSE "Buy") <= Abs(Balance)

(* When nothing is left to show, the screen shows the account, unless a      *)
(* response was applied while the last display was going on, or the io       *)
(* thread is just about to raise needs_display_.                             *)
ScreenIsCurrent ==
  agent = "monitor" /\ ~needs_display /\ ~raising /\ phase = "waiting" /\ ~overtaken =>
    screen = Shown
=============================================================================
