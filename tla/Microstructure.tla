--------------------------- MODULE Microstructure ---------------------------
(***************************************************************************)
(* What the advanced market maker makes of the L2 feed of its symbol        *)
(* (agents/mm-advanced.cpp): the best bid and ask with their quantities,    *)
(* and from them the micro price, which decides whether it takes liquidity  *)
(* and whether it pulls a quote.  While a side of its book is empty, the     *)
(* signals stay what they were.                                             *)
(*                                                                         *)
(* Here the exchange of MarketFeed trades like one: its bids stay below its *)
(* asks.  A variable that never changes says who reads the feeds: the market *)
(* maker, two displayers (MarketFeed), or an L3 book fed by anything at all  *)
(* (L3Book).                                                                *)
(***************************************************************************)
EXTENDS MarketFeed

CONSTANT MakerLag   \* bound on the messages the market maker may be behind, for TLC

ASSUME PriceAssumption == Prices \subseteq Int

VARIABLE signals   \* best_bid_p_, best_bid_q_, best_ask_p_, best_ask_q_; 0 at first

vars == <<readers, feeds, signals>>

NoSignals == [bid |-> 0, bidQty |-> 0, ask |-> 0, askQty |-> 0]

-----------------------------------------------------------------------------
BestBid(levels) == Max(DOMAIN levels["Buy"])
BestAsk(levels) == Min(DOMAIN levels["Sell"])

TwoSided(levels) == levels["Buy"] # <<>> /\ levels["Sell"] # <<>>

\* Mutant: each side is taken over although the other is empty.
SignalsOneSided(old, levels) ==
  LET bid == IF levels["Buy"] = <<>> THEN old.bid ELSE BestBid(levels)
      ask == IF levels["Sell"] = <<>> THEN old.ask ELSE BestAsk(levels)
  IN  [bid |-> bid, bidQty |-> 1, ask |-> ask, askQty |-> 1]

\* update_microstructure_signals
SignalsAfter(old, levels) ==
  IF ~TwoSided(levels) THEN old
  ELSE [bid |-> BestBid(levels), bidQty |-> levels["Buy"][BestBid(levels)],
        ask |-> BestAsk(levels), askQty |-> levels["Sell"][BestAsk(levels)]]

\* micro_price_ times best_bid_q_ + best_ask_q_.
Weight(s)     == s.bidQty + s.askQty
MicroPrice(s) == s.ask * s.bidQty + s.bid * s.askQty

(* What opportunistic_take and fast_cancel_protection ask of the micro       *)
(* price; the imbalance and the toxicity they ask for too are left out.      *)
WouldTake(s) ==
  \/ 2 * MicroPrice(s) > (2 * s.ask + 1) * Weight(s)
  \/ 2 * MicroPrice(s) < (2 * s.bid - 1) * Weight(s)

WouldPull(s, side, p) ==
  \/ side = "Sell" /\ MicroPrice(s) > (p + 2) * Weight(s)
  \/ side = "Buy" /\ MicroPrice(s) < (p - 2) * Weight(s)

-----------------------------------------------------------------------------
(* The exchange, as one that matches orders.                                 *)
Uncrossed(os) ==
  \A i, j \in DOMAIN os : os[i].side = "Buy" /\ os[j].side = "Sell" => os[i].price < os[j].price

MatchingStep ==
  Len(l2stream) < MakerLag /\ ExchangeStep(Ids, Prices) /\ Uncrossed(orders')

-----------------------------------------------------------------------------
(* The market maker: on_l2_update applies the update and renews the signals  *)
(* under state_mtx_.                                                         *)
OnL2Signals ==
  /\ OnL2Update
  /\ signals' = SignalsAfter(signals, l2book')

\* The process starts again, with neither book nor signals.
RestartMaker == RestartL2 /\ signals' = NoSignals

MakerNext ==
  \/ OnL2Signals \/ RestartMaker
  \/ (MatchingStep \/ SubscribeL2) /\ UNCHANGED signals

-----------------------------------------------------------------------------
MicroInit == FeedInit /\ signals = NoSignals

MicroNext ==
  /\ UNCHANGED readers
  /\ \/ readers = "mm-advanced" /\ MakerNext
     \/ readers = "displayers" /\ FeedNext /\ UNCHANGED signals
     \/ /\ readers = "any stream" /\ Next
        /\ UNCHANGED <<exchange, l3stream, l3sub, l2vars, signals>>

MicroSpec == MicroInit /\ [][MicroNext]_vars

-----------------------------------------------------------------------------
(* However the feed lags, starts with a snapshot or loses a side for a while, *)
(* the micro price never gives opportunistic_take a reason to trade, and     *)
(* while both sides are shown it gives fast_cancel_protection no reason to    *)
(* pull a quote at any price the L2 book shows: only a quote that has left   *)
(* the book, or is not in it yet, can be pulled, or any when the signals are *)
(* those of an earlier book.                                                 *)
MicroPriceInSpread ==
  /\ ~WouldTake(signals)
  /\ TwoSided(l2book) =>
       \A side \in Sides : \A p \in DOMAIN l2book[side] : ~WouldPull(signals, side, p)
=============================================================================
