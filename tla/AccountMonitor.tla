---------------------------- MODULE AccountMonitor --------------------------
(***************************************************************************)
(* The account monitor (examples/AccountMonitor.cpp): the handler of every   *)
(* response changes the account and then raises needs_display_, and a timer  *)
(* that finds it raised shows the account, first the cash, then the positions *)
(* and then the open orders, and lowers it.  The two threads share no mutex. *)
(***************************************************************************)
EXTENDS OrderFlow

VARIABLES
  needs_display,  \* needs_display_
  phase,          \* of the timer: "waiting", "cash shown", "positions shown" or "shown"
  screen,         \* the cash, the positions and the orders on the screen
  raising,        \* the io thread has changed the account, and is yet to raise the flag
  overtaken       \* history: a response was applied during the last display

monitor == <<needs_display, phase, screen, raising, overtaken>>

\* Complete does not reach the handlers.
Raises(m) == m.type # "Complete"

\* handle_order_response or handle_position_response.
Handle ==
  /\ wire # <<>> /\ Apply(Head(wire))
  /\ overtaken' = (overtaken \/ phase # "waiting")

\* Mutant: needs_display_ is raised first, and then the account changed.
OnMonitorResponseRaisesFirst ==
  /\ agent = "monitor" /\ UNCHANGED <<phase, screen>>
  /\ \/ /\ ~raising /\ wire # <<>> /\ Raises(Head(wire))
        /\ raising' = TRUE /\ needs_display' = TRUE /\ UNCHANGED <<flow, overtaken>>
     \/ /\ wire # <<>> /\ raising = Raises(Head(wire))
        /\ Handle /\ raising' = FALSE /\ UNCHANGED needs_display

(* on_order_response and on_position_response: the account is changed, and    *)
(* then the flag raised, before the next response is taken.                  *)
OnMonitorResponse ==
  /\ agent = "monitor" /\ UNCHANGED <<phase, screen>>
  /\ \/ ~raising /\ Handle /\ raising' = Raises(Head(wire)) /\ UNCHANGED needs_display
     \/ raising /\ raising' = FALSE /\ needs_display' = TRUE /\ UNCHANGED <<flow, overtaken>>

SymbolPositions == [s \in Symbols |-> positions[s]]

Shown == [cash |-> positions[Cash], positions |-> SymbolPositions, open_orders |-> open_orders]

DisplayCash ==
  /\ agent = "monitor" /\ phase = "waiting" /\ needs_display
  /\ phase' = "cash shown"
  /\ screen' = [screen EXCEPT !.cash = positions[Cash]]
  /\ overtaken' = FALSE
  /\ UNCHANGED <<flow, needs_display, raising>>

DisplayPositions ==
  /\ agent = "monitor" /\ phase = "cash shown"
  /\ phase' = "positions shown"
  /\ screen' = [screen EXCEPT !.positions = SymbolPositions]
  /\ UNCHANGED <<flow, needs_display, raising, overtaken>>

DisplayOrders ==
  /\ agent = "monitor" /\ phase = "positions shown"
  /\ phase' = "shown"
  /\ screen' = [screen EXCEPT !.open_orders = open_orders]
  /\ UNCHANGED <<flow, needs_display, raising, overtaken>>

(* Another program of the same client, whose orders the monitor watches.     *)
SomebodySends ==
  /\ agent = "monitor"
  /\ \/ \E side \in TwoSides, q \in 1..2 : Send(<<LimitOrder(side, q)>>, FALSE)
     \/ \E id \in DOMAIN live : Send(<<Cancel([id |-> id, side |-> live[id].side])>>, FALSE)
  /\ UNCHANGED <<account, who, live, wire, ready, read, slipped, monitor>>

LowerFlag ==
  /\ agent = "monitor" /\ phase = "shown"
  /\ phase' = "waiting" /\ needs_display' = FALSE
  /\ UNCHANGED <<flow, screen, raising, overtaken>>

OnMonitorTimer == DisplayCash \/ DisplayPositions \/ DisplayOrders \/ LowerFlag
=============================================================================
