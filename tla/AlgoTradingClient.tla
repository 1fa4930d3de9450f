-------------------------- MODULE AlgoTradingClient -------------------------
(***************************************************************************)
(* How an agent names its requests (src/AlgoTradingClient.cpp).  Every      *)
(* request takes next_id_++ for its exec_id, and a new order takes the same *)
(* number for its order_id.  next_id_ is a plain uint64_t: an increment is  *)
(* a load and a store, and what keeps two threads of an agent apart, if     *)
(* anything, is a mutex of the strategy that is held around all it does     *)
(* (state_mtx_ of MM-Advanced), or that only one thread ever sends.         *)
(*                                                                         *)
(* One process per client id.  A process that dies is started again by      *)
(* run_agents, and counts from the first id again.                          *)
(***************************************************************************)
EXTENDS Integers, Sequences

CONSTANTS
  Clients,   \* client ids
  Threads,   \* the threads of a process that run its strategy
  Guarded,   \* the clients whose strategy runs in one thread at a time
  Http,      \* the clients that post their orders by HTTP
  FirstId,   \* 1000001
  MaxIds,    \* bound on the ids of a process, for TLC
  MaxRuns,   \* bound on the processes of a client, for TLC
  NoThread

ASSUME GuardedAssumption  == Guarded \subseteq Clients
ASSUME FirstIdAssumption  == FirstId \in Nat
ASSUME NoThreadAssumption == NoThread \notin Threads

VARIABLES
  next_id,   \* next_id_ of the process of each client
  run,       \* how many processes the client had before this one
  holder,    \* the thread that holds the strategy's mutex
  pc,        \* where each thread is in send_order_request
  order,     \* the request each thread is making
  sent       \* history: the requests each client sent, in order

vars == <<next_id, run, holder, pc, order, sent>>

Actions   == {"New", "Modify", "Cancel"}
Request   == [run: Nat, action: Actions, order_id: Nat, exec_id: Nat]
NoRequest == [run |-> 0, action |-> "New", order_id |-> 0, exec_id |-> 0]

-----------------------------------------------------------------------------
\* Mutant: the strategy does not wait for its mutex.
EnterUnlocked(c, t) ==
  /\ pc[c][t] = "out"
  /\ holder' = IF c \in Guarded THEN [holder EXCEPT ![c] = t] ELSE holder
  /\ pc' = [pc EXCEPT ![c][t] = "in"]
  /\ UNCHANGED <<next_id, run, order, sent>>

\* A handler or the timer enters the strategy.
Enter(c, t) ==
  /\ pc[c][t] = "out"
  /\ IF c \in Guarded
     THEN holder[c] = NoThread /\ holder' = [holder EXCEPT ![c] = t]
     ELSE UNCHANGED holder
  /\ pc' = [pc EXCEPT ![c][t] = "in"]
  /\ UNCHANGED <<next_id, run, order, sent>>

Leave(c, t) ==
  /\ pc[c][t] = "in"
  /\ holder' = IF c \in Guarded THEN [holder EXCEPT ![c] = NoThread] ELSE holder
  /\ pc' = [pc EXCEPT ![c][t] = "out"]
  /\ UNCHANGED <<next_id, run, order, sent>>

(* new_order, replace_order and cancel_order fill in a request, and          *)
(* send_order_request reads next_id_.                                        *)
Load(c, t, action, id) ==
  /\ pc[c][t] = "in" /\ next_id[c] < FirstId + MaxIds
  /\ order' = [order EXCEPT ![c][t] =
                 [run |-> run[c], action |-> action,
                  order_id |-> IF action = "New" THEN next_id[c] ELSE id,
                  exec_id |-> next_id[c]]]
  /\ pc' = [pc EXCEPT ![c][t] = "loaded"]
  /\ UNCHANGED <<next_id, run, holder, sent>>

NewOrder(c, t) == Load(c, t, "New", 0)

\* The order may be one of an earlier process of the client.
ChangeOrder(c, t) ==
  \E action \in {"Modify", "Cancel"}, i \in DOMAIN sent[c] :
    Load(c, t, action, sent[c][i].order_id)

\* Mutant: only a new order uses up an id.
StoreForNewOnly(c, t) ==
  /\ pc[c][t] = "loaded"
  /\ next_id' = IF order[c][t].action = "New"
                THEN [next_id EXCEPT ![c] = order[c][t].exec_id + 1] ELSE next_id
  /\ pc' = [pc EXCEPT ![c][t] = "named"]
  /\ UNCHANGED <<run, holder, order, sent>>

\* The store of next_id_++.
Store(c, t) ==
  /\ pc[c][t] = "loaded"
  /\ next_id' = [next_id EXCEPT ![c] = order[c][t].exec_id + 1]
  /\ pc' = [pc EXCEPT ![c][t] = "named"]
  /\ UNCHANGED <<run, holder, order, sent>>

\* mgmt_client_->send, or an HTTP request that gets through.
Send(c, t) ==
  /\ pc[c][t] = "named"
  /\ sent' = [sent EXCEPT ![c] = Append(@, order[c][t])]
  /\ pc' = [pc EXCEPT ![c][t] = "in"]
  /\ UNCHANGED <<next_id, run, holder, order>>

\* An HTTP request that throws: the error is printed and the call returns.
HttpError(c, t) ==
  /\ c \in Http /\ pc[c][t] = "named"
  /\ pc' = [pc EXCEPT ![c][t] = "in"]
  /\ UNCHANGED <<next_id, run, holder, order, sent>>

\* Mutant: next_id_ has no initial value.
RestartUninitialised(c) ==
  /\ run[c] < MaxRuns
  /\ run' = [run EXCEPT ![c] = @ + 1]
  /\ next_id' = [next_id EXCEPT ![c] = 0]
  /\ holder' = [holder EXCEPT ![c] = NoThread]
  /\ pc' = [pc EXCEPT ![c] = [t \in Threads |-> "out"]]
  /\ order' = [order EXCEPT ![c] = [t \in Threads |-> NoRequest]]
  /\ UNCHANGED sent

\* The process dies, wherever its threads are, and another is started.
Restart(c) ==
  /\ run[c] < MaxRuns
  /\ run' = [run EXCEPT ![c] = @ + 1]
  /\ next_id' = [next_id EXCEPT ![c] = FirstId]
  /\ holder' = [holder EXCEPT ![c] = NoThread]
  /\ pc' = [pc EXCEPT ![c] = [t \in Threads |-> "out"]]
  /\ order' = [order EXCEPT ![c] = [t \in Threads |-> NoRequest]]
  /\ UNCHANGED sent

-----------------------------------------------------------------------------
Init ==
  /\ next_id = [c \in Clients |-> FirstId] /\ run = [c \in Clients |-> 0]
  /\ holder = [c \in Clients |-> NoThread]
  /\ pc = [c \in Clients |-> [t \in Threads |-> "out"]]
  /\ order = [c \in Clients |-> [t \in Threads |-> NoRequest]]
  /\ sent = [c \in Clients |-> <<>>]

ThreadStep(c, t) ==
  \/ Enter(c, t) \/ Leave(c, t)
  \/ NewOrder(c, t) \/ ChangeOrder(c, t)
  \/ Store(c, t) \/ Send(c, t) \/ HttpError(c, t)

Next == \E c \in Clients : Restart(c) \/ \E t \in Threads : ThreadStep(c, t)

Spec == Init /\ [][Next]_vars

-----------------------------------------------------------------------------
(* No id is below the first one, whatever the process went through.          *)
TypeOK ==
  /\ next_id \in [Clients -> {n \in Nat : n >= FirstId}]
  /\ run \in [Clients -> Nat]
  /\ holder \in [Clients -> Threads \cup {NoThread}]
  /\ pc \in [Clients -> [Threads -> {"out", "in", "loaded", "named"}]]
  /\ order \in [Clients -> [Threads -> Request]]
  /\ sent \in [Clients -> Seq(Request)]

(* The requests of one process of a guarded client leave in the order of     *)
(* their exec_ids, and so no exec_id, and no order_id of a new order, is     *)
(* used twice in it, whichever threads send.                                 *)
IdsAscend ==
  \A c \in Guarded : \A i, j \in DOMAIN sent[c] :
    i < j /\ sent[c][i].run = sent[c][j].run => sent[c][i].exec_id < sent[c][j].exec_id

(* fbs/order.fbs on exec_id: "Unique on client_id", here asked only of the   *)
(* requests of one process.                                                  *)
ExecIdsUnique ==
  \A c \in Clients : \A i, j \in DOMAIN sent[c] :
    /\ sent[c][i].run = sent[c][j].run
    /\ sent[c][i].exec_id = sent[c][j].exec_id
    => i = j

(* fbs/order.fbs on order_id: "Unique universely".                           *)
OrderIdsUnique ==
  \A c, d \in Clients : \A i \in DOMAIN sent[c], j \in DOMAIN sent[d] :
    /\ sent[c][i].action = "New" /\ sent[d][j].action = "New"
    /\ sent[c][i].order_id = sent[d][j].order_id
    => c = d /\ i = j
=============================================================================
