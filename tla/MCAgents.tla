------------------------------ MODULE MCAgents ------------------------------
(* Bounds that let each agent pass once on an account out of date and then   *)
(* again on one that is not: the native maker keeps two bids, and may ask     *)
(* for two new ones twice; the insider has room for a quote and a market     *)
(* order; the monitor watches an order of another program.  The sides are    *)
(* alike, so that the native maker's orders and the insider's quotes are      *)
(* kept to one.  The process before left nothing, or orders under the ids     *)
(* that the new ones take, with or without a position.                        *)
EXTENDS Agents

MCAgentKinds == {"mm-native", "mm-advanced", "insider", "noise", "monitor"}

Bounds(native, advanced, insider, noise, watched) ==
  [k \in AgentKinds |->
     CASE k = "mm-native"   -> native
       [] k = "mm-advanced" -> advanced
       [] k = "insider"     -> insider
       [] k = "noise"       -> noise
       [] k = "monitor"     -> watched]

MCMaxOrders   == Bounds(4, 3, 2, 4, 1)
MCMaxRequests == Bounds(4, 3, 2, 4, 1)
MCMaxLag      == Bounds(1, 2, 2, 3, 2)

(* A position, and orders under the ids that come first.                      *)
Legacy(orders, pos) ==
  [orders |-> [i \in DOMAIN orders |-> [side |-> orders[i][1], q |-> orders[i][2]]],
   positions |-> [a \in {0, 1} |-> IF a = 1 THEN pos ELSE 0]]

Nothing == Legacy(<<>>, 0)

MCLegacies ==
  [k \in AgentKinds |->
     {Nothing} \cup
     CASE k = "mm-native"   -> {Legacy(<<<<"Buy", 1>>>>, 0)}
       [] k = "mm-advanced" -> {Legacy(<<<<"Buy", 1>>, <<"Buy", 1>>>>, 0)}
       [] k = "insider"     -> {Legacy(<<<<"Buy", 1>>>>, 1)}
       [] k = "noise"       -> {Legacy(<<<<"Sell", 1>>>>, 1), Legacy(<<<<"Buy", 1>>>>, 1)}
       [] k = "monitor"     -> {Legacy(<<<<"Buy", 1>>, <<"Sell", 1>>>>, 1)}]
=============================================================================
