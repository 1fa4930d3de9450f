---------------------- MODULE AlgoTradingClientProofs ----------------------
(***************************************************************************)
(* The ids a client gives to its requests: no id is below the first, and    *)
(* the requests of one process of a guarded client leave in the order of    *)
(* their exec_ids, however many threads, requests and restarts there are.   *)
(***************************************************************************)
EXTENDS AlgoTradingClient, TLAPS

\* A thread that is inside the strategy of a guarded client holds its mutex.
Exclusive ==
  \A c \in Guarded : \A t \in Threads : pc[c][t] # "out" => holder[c] = t

\* Nothing was sent by a later process, and next_id_ is above all that this one sent.
SentBelow ==
  \A c \in Guarded : \A i \in DOMAIN sent[c] :
    /\ sent[c][i].run <= run[c]
    /\ sent[c][i].run = run[c] => sent[c][i].exec_id < next_id[c]

\* A request in the making is newer than all that its process sent.
MakingIsNewest ==
  \A c \in Guarded : \A t \in Threads : pc[c][t] \in {"loaded", "named"} =>
    /\ order[c][t].run = run[c]
    /\ next_id[c] = order[c][t].exec_id + (IF pc[c][t] = "named" THEN 1 ELSE 0)
    /\ \A i \in DOMAIN sent[c] :
         sent[c][i].run = run[c] => sent[c][i].exec_id < order[c][t].exec_id

\* A request in the making has a real id.  (It holds of unguarded clients too.)
MakingTyped ==
  \A c \in Clients : \A t \in Threads :
    pc[c][t] \in {"loaded", "named"} => order[c][t].exec_id >= FirstId

IInv == TypeOK /\ MakingTyped /\ Exclusive /\ SentBelow /\ MakingIsNewest /\ IdsAscend

-----------------------------------------------------------------------------
(* What Append does to a sequence, as the send of a request uses it.         *)
LEMMA AppendElements ==
  ASSUME NEW S, NEW s \in Seq(S), NEW x \in S
  PROVE  /\ Append(s, x) \in Seq(S)
         /\ Len(s) \in Nat
         /\ DOMAIN s = 1 .. Len(s)
         /\ DOMAIN Append(s, x) = 1 .. Len(s) + 1
         /\ Append(s, x)[Len(s) + 1] = x
         /\ \A i \in DOMAIN s : Append(s, x)[i] = s[i]
<1>1. /\ Append(s, x) \in Seq(S)
      /\ Len(s) \in Nat
      /\ DOMAIN s = 1 .. Len(s)
      /\ Len(Append(s, x)) = Len(s) + 1
      /\ DOMAIN Append(s, x) = 1 .. Len(Append(s, x))
  OBVIOUS
<1>2. Append(s, x)[Len(s) + 1] = x
  OBVIOUS
<1>3. \A i \in DOMAIN s : Append(s, x)[i] = s[i]
  OBVIOUS
<1> QED BY <1>1, <1>2, <1>3

(* A request read with the next id is a request, and has that id.            *)
LEMMA LoadedRequest ==
  ASSUME TypeOK, NEW c \in Clients, NEW t \in Threads,
         NEW action \in Actions, NEW id \in Nat, Load(c, t, action, id)
  PROVE  /\ order' \in [Clients -> [Threads -> Request]]
         /\ order'[c][t].run = run[c]
         /\ order'[c][t].exec_id = next_id[c]
         /\ next_id[c] \in Nat /\ next_id[c] >= FirstId
         /\ \A d \in Clients, u \in Threads :
              d # c \/ u # t => order'[d][u] = order[d][u]
<1> DEFINE r == [run |-> run[c], action |-> action,
                 order_id |-> IF action = "New" THEN next_id[c] ELSE id,
                 exec_id |-> next_id[c]]
<1>1. /\ order \in [Clients -> [Threads -> Request]]
      /\ run[c] \in Nat /\ next_id[c] \in Nat /\ next_id[c] >= FirstId
  BY DEF TypeOK
<1>2. r \in Request
  BY <1>1 DEF Request
<1>3. /\ r.run = run[c] /\ r.exec_id = next_id[c]
  OBVIOUS
<1>4. order' = [order EXCEPT ![c][t] = r]
  BY DEF Load
<1> HIDE DEF r
<1>5. order' \in [Clients -> [Threads -> Request]] /\ order'[c][t] = r
  BY <1>1, <1>2, <1>4
<1>6. \A d \in Clients, u \in Threads :
        d # c \/ u # t => order'[d][u] = order[d][u]
  BY <1>1, <1>4
<1> QED BY <1>1, <1>3, <1>5, <1>6

(* Every request is made with a number of the client for its order_id.       *)
LEMMA ChangeLoads ==
  ASSUME TypeOK, NEW c \in Clients, NEW t \in Threads,
         NewOrder(c, t) \/ ChangeOrder(c, t)
  PROVE  \E action \in Actions, id \in Nat : Load(c, t, action, id)
<1>1. CASE NewOrder(c, t)
  BY <1>1 DEF NewOrder, Actions
<1>2. CASE ChangeOrder(c, t)
  <2>1. PICK action \in {"Modify", "Cancel"}, i \in DOMAIN sent[c] :
          Load(c, t, action, sent[c][i].order_id)
    BY <1>2 DEF ChangeOrder
  <2>2. sent[c] \in Seq(Request)
    BY DEF TypeOK
  <2>3. sent[c][i] \in Request
    BY <2>2
  <2>4. sent[c][i].order_id \in Nat
    BY <2>3 DEF Request
  <2> QED BY <2>1, <2>4 DEF Actions
<1> QED BY <1>1, <1>2

-----------------------------------------------------------------------------
LEMMA TypeInit == Init => TypeOK /\ MakingTyped
<1> SUFFICES ASSUME Init PROVE TypeOK /\ MakingTyped OBVIOUS
<1>1. NoRequest \in Request
  BY DEF NoRequest, Request, Actions
<1>2. <<>> \in Seq(Request)
  OBVIOUS
<1>3. FirstId \in {n \in Nat : n >= FirstId}
  BY FirstIdAssumption
<1> QED BY <1>1, <1>2, <1>3 DEF Init, TypeOK, MakingTyped

LEMMA TypeStep == TypeOK /\ MakingTyped /\ [Next]_vars => TypeOK' /\ MakingTyped'
<1> SUFFICES ASSUME TypeOK, MakingTyped, [Next]_vars PROVE TypeOK' /\ MakingTyped'
  OBVIOUS
<1> USE FirstIdAssumption
<1>1. ASSUME NEW c \in Clients, Restart(c) PROVE TypeOK' /\ MakingTyped'
  <2>1. NoRequest \in Request
    BY DEF NoRequest, Request, Actions
  <2>2. /\ next_id' \in [Clients -> {n \in Nat : n >= FirstId}]
        /\ run' \in [Clients -> Nat]
        /\ holder' \in [Clients -> Threads \cup {NoThread}]
        /\ sent' \in [Clients -> Seq(Request)]
    BY <1>1 DEF TypeOK, Restart
  <2>3. pc' \in [Clients -> [Threads -> {"out", "in", "loaded", "named"}]]
    BY <1>1 DEF TypeOK, Restart
  <2>4. order' \in [Clients -> [Threads -> Request]]
    BY <1>1, <2>1 DEF TypeOK, Restart
  <2>5. MakingTyped'
    BY <1>1 DEF TypeOK, Restart, MakingTyped
  <2> QED BY <2>2, <2>3, <2>4, <2>5 DEF TypeOK
<1>2. ASSUME NEW c \in Clients, NEW t \in Threads, Enter(c, t) PROVE TypeOK' /\ MakingTyped'
  BY <1>2 DEF TypeOK, MakingTyped, Enter
<1>3. ASSUME NEW c \in Clients, NEW t \in Threads, Leave(c, t) PROVE TypeOK' /\ MakingTyped'
  BY <1>3 DEF TypeOK, MakingTyped, Leave
<1>4. ASSUME NEW c \in Clients, NEW t \in Threads, NewOrder(c, t) \/ ChangeOrder(c, t)
      PROVE TypeOK' /\ MakingTyped'
  <2>1. PICK action \in Actions, id \in Nat : Load(c, t, action, id)
    BY <1>4, ChangeLoads
  <2>2. /\ order' \in [Clients -> [Threads -> Request]]
        /\ order'[c][t].exec_id = next_id[c]
        /\ next_id[c] \in Nat /\ next_id[c] >= FirstId
        /\ \A d \in Clients, u \in Threads :
             d # c \/ u # t => order'[d][u] = order[d][u]
    BY <2>1, LoadedRequest
  <2>3. pc' = [pc EXCEPT ![c][t] = "loaded"] /\ UNCHANGED <<next_id, run, holder, sent>>
    BY <2>1 DEF Load
  <2>4. TypeOK'
    BY <2>2, <2>3 DEF TypeOK
  <2>5. MakingTyped'
    BY <2>2, <2>3 DEF TypeOK, MakingTyped
  <2> QED BY <2>4, <2>5
<1>5. ASSUME NEW c \in Clients, NEW t \in Threads, Store(c, t) PROVE TypeOK' /\ MakingTyped'
  <2>1. order[c][t] \in Request
    BY DEF TypeOK
  <2>2. order[c][t].exec_id \in Nat /\ order[c][t].exec_id >= FirstId
    BY <1>5, <2>1 DEF Request, MakingTyped, Store
  <2>3. TypeOK'
    BY <1>5, <2>2 DEF TypeOK, Store
  <2>4. MakingTyped'
    BY <1>5, <2>2 DEF TypeOK, MakingTyped, Store
  <2> QED BY <2>3, <2>4
<1>6. ASSUME NEW c \in Clients, NEW t \in Threads, Send(c, t) PROVE TypeOK' /\ MakingTyped'
  <2>1. order[c][t] \in Request /\ sent[c] \in Seq(Request)
    BY DEF TypeOK
  <2>2. Append(sent[c], order[c][t]) \in Seq(Request)
    BY <2>1, AppendElements
  <2>3. TypeOK'
    BY <1>6, <2>2 DEF TypeOK, Send
  <2>4. MakingTyped'
    BY <1>6 DEF TypeOK, MakingTyped, Send
  <2> QED BY <2>3, <2>4
<1>7. ASSUME NEW c \in Clients, NEW t \in Threads, HttpError(c, t) PROVE TypeOK' /\ MakingTyped'
  BY <1>7 DEF TypeOK, MakingTyped, HttpError
<1>8. CASE UNCHANGED vars
  BY <1>8 DEF TypeOK, MakingTyped, vars
<1> QED BY <1>1, <1>2, <1>3, <1>4, <1>5, <1>6, <1>7, <1>8 DEF Next, ThreadStep

(* TypeOK holds for every number of clients, threads, ids and processes: in  *)
(* particular next_id_ never falls below its initial value, whatever threads *)
(* race on it.                                                               *)
THEOREM TypeCorrect == Spec => []TypeOK
<1>1. Init => TypeOK /\ MakingTyped
  BY TypeInit
<1>2. TypeOK /\ MakingTyped /\ [Next]_vars => (TypeOK /\ MakingTyped)'
  BY TypeStep
<1> QED BY <1>1, <1>2, PTL DEF Spec

-----------------------------------------------------------------------------
LEMMA OrderInit == Init => Exclusive /\ SentBelow /\ MakingIsNewest /\ IdsAscend
BY GuardedAssumption DEF Init, Exclusive, SentBelow, MakingIsNewest, IdsAscend

LEMMA OrderStep == IInv /\ [Next]_vars => (Exclusive /\ SentBelow /\ MakingIsNewest /\ IdsAscend)'
<1> SUFFICES ASSUME IInv, [Next]_vars
             PROVE  Exclusive' /\ SentBelow' /\ MakingIsNewest' /\ IdsAscend'
  OBVIOUS
<1> USE GuardedAssumption, NoThreadAssumption
<1>t. /\ next_id \in [Clients -> Nat]
      /\ run \in [Clients -> Nat]
      /\ holder \in [Clients -> Threads \cup {NoThread}]
      /\ pc \in [Clients -> [Threads -> {"out", "in", "loaded", "named"}]]
      /\ order \in [Clients -> [Threads -> Request]]
      /\ sent \in [Clients -> Seq(Request)]
  BY DEF IInv, TypeOK
<1>s. \A c \in Clients : \A i \in DOMAIN sent[c] :
        sent[c][i] \in Request /\ sent[c][i].run \in Nat /\ sent[c][i].exec_id \in Nat
  <2> SUFFICES ASSUME NEW c \in Clients, NEW i \in DOMAIN sent[c]
               PROVE  sent[c][i] \in Request /\ sent[c][i].run \in Nat /\ sent[c][i].exec_id \in Nat
    OBVIOUS
  <2>1. sent[c] \in Seq(Request)
    BY <1>t
  <2>2. sent[c][i] \in Request
    BY <2>1
  <2> QED BY <2>2 DEF Request
<1>o. \A c \in Clients, t \in Threads : order[c][t].run \in Nat /\ order[c][t].exec_id \in Nat
  BY <1>t DEF Request
<1>1. ASSUME NEW c \in Clients, Restart(c)
      PROVE  Exclusive' /\ SentBelow' /\ MakingIsNewest' /\ IdsAscend'
  <2>1. Exclusive'
    BY <1>1, <1>t DEF Restart, Exclusive, IInv
  <2>2. SentBelow'
    BY <1>1, <1>t, <1>s DEF Restart, SentBelow, IInv
  <2>3. MakingIsNewest'
    BY <1>1, <1>t DEF Restart, MakingIsNewest, IInv
  <2>4. IdsAscend'
    BY <1>1 DEF Restart, IdsAscend, IInv
  <2> QED BY <2>1, <2>2, <2>3, <2>4
<1>2. ASSUME NEW c \in Clients, NEW t \in Threads, Enter(c, t)
      PROVE  Exclusive' /\ SentBelow' /\ MakingIsNewest' /\ IdsAscend'
  <2>1. Exclusive'
    BY <1>2, <1>t DEF Enter, Exclusive, IInv
  <2>2. SentBelow' /\ IdsAscend'
    BY <1>2 DEF Enter, SentBelow, IdsAscend, IInv
  <2>3. MakingIsNewest'
    BY <1>2, <1>t DEF Enter, MakingIsNewest, IInv
  <2> QED BY <2>1, <2>2, <2>3
<1>3. ASSUME NEW c \in Clients, NEW t \in Threads, Leave(c, t)
      PROVE  Exclusive' /\ SentBelow' /\ MakingIsNewest' /\ IdsAscend'
  <2>1. Exclusive'
    BY <1>3, <1>t DEF Leave, Exclusive, IInv
  <2>2. SentBelow' /\ IdsAscend'
    BY <1>3 DEF Leave, SentBelow, IdsAscend, IInv
  <2>3. MakingIsNewest'
    BY <1>3, <1>t DEF Leave, MakingIsNewest, IInv
  <2> QED BY <2>1, <2>2, <2>3
<1>4. ASSUME NEW c \in Clients, NEW t \in Threads, NewOrder(c, t) \/ ChangeOrder(c, t)
      PROVE  Exclusive' /\ SentBelow' /\ MakingIsNewest' /\ IdsAscend'
  <2>1. PICK action \in Actions, id \in Nat : Load(c, t, action, id)
    BY <1>4, ChangeLoads DEF IInv
  <2>2. /\ order'[c][t].run = run[c]
        /\ order'[c][t].exec_id = next_id[c]
        /\ \A d \in Clients, u \in Threads :
             d # c \/ u # t => order'[d][u] = order[d][u]
    BY <2>1, LoadedRequest DEF IInv
  <2>3. /\ pc[c][t] = "in" /\ pc' = [pc EXCEPT ![c][t] = "loaded"]
        /\ UNCHANGED <<next_id, run, holder, sent>>
    BY <2>1 DEF Load
  <2>4. Exclusive'
    BY <2>3, <1>t DEF Exclusive, IInv
  <2>5. SentBelow' /\ IdsAscend'
    BY <2>3 DEF SentBelow, IdsAscend, IInv
  <2>6. MakingIsNewest'
    <3> SUFFICES ASSUME NEW d \in Guarded, NEW u \in Threads, pc'[d][u] \in {"loaded", "named"}
                 PROVE  /\ order'[d][u].run = run[d]
                        /\ next_id[d] = order'[d][u].exec_id
                                          + (IF pc'[d][u] = "named" THEN 1 ELSE 0)
                        /\ \A i \in DOMAIN sent[d] : sent[d][i].run = run[d] =>
                             sent[d][i].exec_id < order'[d][u].exec_id
      BY <2>3 DEF MakingIsNewest
    <3>1. CASE d = c /\ u = t
      BY <3>1, <2>2, <2>3, <1>t DEF SentBelow, IInv
    <3>2. CASE d # c \/ u # t
      BY <3>2, <2>2, <2>3, <1>t DEF MakingIsNewest, IInv
    <3> QED BY <3>1, <3>2
  <2> QED BY <2>4, <2>5, <2>6
<1>5. ASSUME NEW c \in Clients, NEW t \in Threads, Store(c, t)
      PROVE  Exclusive' /\ SentBelow' /\ MakingIsNewest' /\ IdsAscend'
  <2>1. Exclusive'
    BY <1>5, <1>t DEF Store, Exclusive, IInv
  <2>2. SentBelow'
    <3> SUFFICES ASSUME NEW d \in Guarded, NEW i \in DOMAIN sent[d]
                 PROVE  /\ sent[d][i].run <= run[d]
                        /\ sent[d][i].run = run[d] => sent[d][i].exec_id < next_id'[d]
      BY <1>5 DEF SentBelow, Store
    <3>1. /\ sent[d][i].run <= run[d]
          /\ sent[d][i].run = run[d] => sent[d][i].exec_id < next_id[d]
      BY DEF SentBelow, IInv
    <3>2. CASE d = c
      <4>1. next_id[c] = order[c][t].exec_id /\ next_id'[c] = order[c][t].exec_id + 1
        <5>1. pc[c][t] = "loaded" /\ next_id'[c] = order[c][t].exec_id + 1
          BY <1>5, <1>t DEF Store
        <5>2. next_id[c] = order[c][t].exec_id + (IF pc[c][t] = "named" THEN 1 ELSE 0)
          BY <3>2, <5>1 DEF MakingIsNewest, IInv
        <5>3. order[c][t].exec_id \in Nat
          BY <1>o
        <5> QED BY <5>1, <5>2, <5>3
      <4>2. sent[d][i].exec_id \in Nat /\ order[c][t].exec_id \in Nat
        BY <1>s, <1>o
      <4> QED BY <3>1, <3>2, <4>1, <4>2
    <3>3. CASE d # c
      BY <3>1, <3>3, <1>5, <1>t DEF Store
    <3> QED BY <3>2, <3>3
  <2>3. MakingIsNewest'
    <3> SUFFICES ASSUME NEW d \in Guarded, NEW u \in Threads, pc'[d][u] \in {"loaded", "named"}
                 PROVE  /\ order[d][u].run = run[d]
                        /\ next_id'[d] = order[d][u].exec_id
                                          + (IF pc'[d][u] = "named" THEN 1 ELSE 0)
                        /\ \A i \in DOMAIN sent[d] : sent[d][i].run = run[d] =>
                             sent[d][i].exec_id < order[d][u].exec_id
      BY <1>5 DEF MakingIsNewest, Store
    <3>1. CASE d = c /\ u = t
      BY <3>1, <1>5, <1>t DEF Store, MakingIsNewest, IInv
    <3>2. CASE d = c /\ u # t
      \* It would have to hold the mutex that t holds.
      BY <3>2, <1>5, <1>t DEF Store, Exclusive, IInv
    <3>3. CASE d # c
      BY <3>3, <1>5, <1>t DEF Store, MakingIsNewest, IInv
    <3> QED BY <3>1, <3>2, <3>3
  <2>4. IdsAscend'
    BY <1>5 DEF Store, IdsAscend, IInv
  <2> QED BY <2>1, <2>2, <2>3, <2>4
<1>6. ASSUME NEW c \in Clients, NEW t \in Threads, Send(c, t)
      PROVE  Exclusive' /\ SentBelow' /\ MakingIsNewest' /\ IdsAscend'
  <2>1. PICK r \in Request : r = order[c][t]
    BY <1>t
  <2>2. PICK s \in Seq(Request) : s = sent[c]
    BY <1>t
  <2>3. PICK n \in Nat : n = Len(s)
    BY <2>2
  <2>4. /\ DOMAIN s = 1 .. n
        /\ DOMAIN sent'[c] = 1 .. n + 1
        /\ sent'[c][n + 1] = r
        /\ \A i \in 1 .. n : sent'[c][i] = s[i]
    BY <2>1, <2>2, <2>3, <1>6, <1>t, AppendElements DEF Send
  <2>5. \A d \in Clients : d # c => sent'[d] = sent[d]
    BY <1>6, <1>t DEF Send
  <2>6. /\ pc[c][t] = "named" /\ pc' = [pc EXCEPT ![c][t] = "in"]
        /\ UNCHANGED <<next_id, run, holder, order>>
    BY <1>6 DEF Send
  <2>7. c \in Guarded =>
          /\ r.run = run[c] /\ next_id[c] = r.exec_id + 1 /\ r.exec_id \in Nat
          /\ \A i \in 1 .. n : s[i].run = run[c] => s[i].exec_id < r.exec_id
    BY <2>1, <2>2, <2>4, <2>6, <1>o DEF MakingIsNewest, IInv
  <2>8. Exclusive'
    BY <2>6, <1>t DEF Exclusive, IInv
  <2>9. SentBelow'
    <3> SUFFICES ASSUME NEW d \in Guarded, NEW i \in DOMAIN sent'[d]
                 PROVE  /\ sent'[d][i].run <= run[d]
                        /\ sent'[d][i].run = run[d] => sent'[d][i].exec_id < next_id[d]
      BY <2>6 DEF SentBelow
    <3>1. CASE d # c
      BY <3>1, <2>5 DEF SentBelow, IInv
    <3>2. CASE d = c /\ i \in 1 .. n
      BY <3>2, <2>2, <2>4 DEF SentBelow, IInv
    <3>3. CASE d = c /\ i = n + 1
      BY <3>3, <2>4, <2>7, <1>t
    <3> QED BY <3>1, <3>2, <3>3, <2>4
  <2>10. MakingIsNewest'
    <3> SUFFICES ASSUME NEW d \in Guarded, NEW u \in Threads, pc'[d][u] \in {"loaded", "named"}
                 PROVE  /\ order[d][u].run = run[d]
                        /\ next_id[d] = order[d][u].exec_id
                                          + (IF pc'[d][u] = "named" THEN 1 ELSE 0)
                        /\ \A i \in DOMAIN sent'[d] : sent'[d][i].run = run[d] =>
                             sent'[d][i].exec_id < order[d][u].exec_id
      BY <2>6 DEF MakingIsNewest
    <3>1. d # c
      BY <2>6, <1>t DEF Exclusive, IInv
    <3> QED BY <3>1, <2>5, <2>6, <1>t DEF MakingIsNewest, IInv
  <2>11. IdsAscend'
    <3> SUFFICES ASSUME NEW d \in Guarded, NEW i \in DOMAIN sent'[d], NEW j \in DOMAIN sent'[d],
                        i < j, sent'[d][i].run = sent'[d][j].run
                 PROVE  sent'[d][i].exec_id < sent'[d][j].exec_id
      BY DEF IdsAscend
    <3>1. CASE d # c
      BY <3>1, <2>5 DEF IdsAscend, IInv
    <3>2. CASE d = c /\ j \in 1 .. n
      <4>1. i \in 1 .. n
        BY <3>2, <2>4
      <4> QED BY <3>2, <4>1, <2>2, <2>4 DEF IdsAscend, IInv
    <3>3. CASE d = c /\ j = n + 1
      <4>1. i \in 1 .. n
        BY <3>3, <2>4
      <4> QED BY <3>3, <4>1, <2>4, <2>7
    <3> QED BY <3>1, <3>2, <3>3, <2>4
  <2> QED BY <2>8, <2>9, <2>10, <2>11
<1>7. ASSUME NEW c \in Clients, NEW t \in Threads, HttpError(c, t)
      PROVE  Exclusive' /\ SentBelow' /\ MakingIsNewest' /\ IdsAscend'
  <2>1. Exclusive'
    BY <1>7, <1>t DEF HttpError, Exclusive, IInv
  <2>2. SentBelow' /\ IdsAscend'
    BY <1>7 DEF HttpError, SentBelow, IdsAscend, IInv
  <2>3. MakingIsNewest'
    BY <1>7, <1>t DEF HttpError, MakingIsNewest, IInv
  <2> QED BY <2>1, <2>2, <2>3
<1>8. CASE UNCHANGED vars
  <2>1. Exclusive' /\ SentBelow'
    BY <1>8 DEF vars, Exclusive, SentBelow, IInv
  <2>2. MakingIsNewest' /\ IdsAscend'
    BY <1>8 DEF vars, MakingIsNewest, IdsAscend, IInv
  <2> QED BY <2>1, <2>2
<1> QED BY <1>1, <1>2, <1>3, <1>4, <1>5, <1>6, <1>7, <1>8 DEF Next, ThreadStep

(* IdsAscend holds for every number of clients, threads, ids and processes:  *)
(* the mutex makes the load and the store of next_id_++ one step.            *)
THEOREM IdsInOrder == Spec => []IdsAscend
<1>1. Init => IInv
  BY TypeInit, OrderInit DEF IInv
<1>2. IInv /\ [Next]_vars => IInv'
  BY TypeStep, OrderStep DEF IInv
<1>3. IInv => IdsAscend
  BY DEF IInv
<1> QED BY <1>1, <1>2, <1>3, PTL DEF Spec
=============================================================================
