---------------------------- MODULE AgentsProofs ----------------------------
(***************************************************************************)
(* The agents, for any account, any quantities and any number of orders,    *)
(* whatever the process before has left.  Every step is seen as one of five  *)
(* (FlowStep): nothing that matters here, the exchange, a response applied,  *)
(* a read, or a pass that sends a batch.  What the strategies have in common *)
(* is what Pass says of the batch.  The last part but one adds up            *)
(* quantities: what is held and what is offered.                             *)
(***************************************************************************)
EXTENDS Agents, FiniteSetTheorems, TLAPS

\* The elements of a sequence that are in P, counted.
Places(q, P) == {i \in 1..Len(q) : q[i] \in P}
Count(q, P) == Cardinality(Places(q, P))

\* It is a natural number.
LEMMA CountIs ==
  ASSUME NEW R, NEW q \in Seq(R), NEW P
  PROVE  IsFiniteSet(Places(q, P)) /\ Count(q, P) \in Nat
<1>1. IsFiniteSet(1..Len(q)) /\ Places(q, P) \in SUBSET (1..Len(q))
  BY FS_Interval DEF Places
<1>2. IsFiniteSet(Places(q, P))
  BY <1>1, FS_Subset
<1> QED
  BY <1>2, FS_CardinalityType DEF Count

\* None of them is.
LEMMA CountNone ==
  ASSUME NEW q, NEW P, \A i \in 1..Len(q) : q[i] \notin P
  PROVE  Count(q, P) = 0
<1>1. Places(q, P) = {}
  BY DEF Places
<1> QED
  BY <1>1, FS_EmptySet DEF Count

\* No more than there are.
LEMMA CountLen ==
  ASSUME NEW R, NEW q \in Seq(R), NEW P
  PROVE  Count(q, P) <= Len(q)
<1>1. IsFiniteSet(1..Len(q)) /\ Cardinality(1..Len(q)) = Len(q)
  <2>1. Len(q) \in Nat
    OBVIOUS
  <2> QED
    BY <2>1, FS_Interval
<1>2. Places(q, P) \in SUBSET (1..Len(q))
  BY DEF Places
<1> QED
  BY <1>1, <1>2, FS_Subset DEF Count

\* The same places in two sequences.
LEMMA CountSame ==
  ASSUME NEW p, NEW q, NEW P, Len(p) = Len(q), \A i \in 1..Len(q) : p[i] \in P <=> q[i] \in P
  PROVE  Count(p, P) = Count(q, P)
<1>1. Places(p, P) = Places(q, P)
  BY DEF Places
<1> QED
  BY <1>1 DEF Count

(* The places in two sequences, one after the other.                         *)
LEMMA PlacesConcat ==
  ASSUME NEW R, NEW p \in Seq(R), NEW q \in Seq(R), NEW T
  PROVE  /\ Places(p \o q, T) = Places(p, T) \cup {Len(p) + i : i \in Places(q, T)}
         /\ Places(p, T) \cap {Len(p) + i : i \in Places(q, T)} = {}
<1>1. PICK n, m, A, B : n = Len(p) /\ m = Len(q) /\ A = Places(p, T) /\ B = Places(q, T)
  OBVIOUS
<1>2. /\ n \in Nat /\ m \in Nat /\ Len(p \o q) = n + m
      /\ \A i \in 1..n : (p \o q)[i] = p[i]
      /\ \A i \in 1..m : (p \o q)[n + i] = q[i]
  BY <1>1
<1>3. A \subseteq 1..n /\ B \subseteq 1..m
  BY <1>1 DEF Places
<1>4. PICK C : C = {n + i : i \in B}
  OBVIOUS
<1>5. A \cap C = {}
  BY <1>2, <1>3, <1>4
<1>6. Places(p \o q, T) = A \cup C
  <2>1. ASSUME NEW i \in 1..(n + m) PROVE (p \o q)[i] \in T <=> i \in A \cup C
    <3>1. CASE i <= n
      BY <1>1, <1>2, <1>3, <1>4, <2>1, <3>1 DEF Places
    <3>2. CASE i > n
      <4>1. PICK k \in 1..m : i = n + k
        <5>1. i - n \in 1..m /\ i = n + (i - n)
          BY <1>2, <2>1, <3>2
        <5> QED BY <5>1
      <4>2. (p \o q)[i] \in T <=> k \in B
        BY <1>1, <1>2, <4>1 DEF Places
      <4>3. i \notin A
        BY <1>2, <1>3, <3>2
      <4>4. i \in C <=> k \in B
        BY <1>2, <1>3, <1>4, <4>1
      <4> QED BY <4>2, <4>3, <4>4
    <3> QED BY <1>2, <3>1, <3>2
  <2>2. A \cup C \subseteq 1..(n + m)
    <3>1. ASSUME NEW i \in A PROVE i \in 1..(n + m)
      BY <1>2, <1>3, <3>1
    <3>2. ASSUME NEW c \in C PROVE c \in 1..(n + m)
      <4>1. PICK i \in 1..m : c = n + i
        BY <1>3, <1>4
      <4> QED
        BY <1>2, <4>1
    <3> QED
      BY <3>1, <3>2
  <2> QED
    BY <1>2, <2>1, <2>2 DEF Places
<1> QED
  BY <1>1, <1>4, <1>5, <1>6

(* Of two sequences, one after the other.                                    *)
LEMMA CountConcat ==
  ASSUME NEW R, NEW p \in Seq(R), NEW q \in Seq(R), NEW T
  PROVE  Count(p \o q, T) = Count(p, T) + Count(q, T)
<1>1. PICK n, A, B, C : /\ n = Len(p) /\ A = Places(p, T) /\ B = Places(q, T)
                        /\ C = {n + i : i \in B}
  OBVIOUS
<1>2. n \in Nat /\ IsFiniteSet(A) /\ IsFiniteSet(B) /\ B \subseteq 1..Len(q) /\ Len(q) \in Nat
  <2>1. IsFiniteSet(A) /\ IsFiniteSet(B)
    BY <1>1, CountIs
  <2>2. B \subseteq 1..Len(q) /\ Len(p) \in Nat /\ Len(q) \in Nat
    BY <1>1 DEF Places
  <2> QED
    BY <1>1, <2>1, <2>2
<1>3. PICK f : f = [i \in B |-> n + i]
  OBVIOUS
<1>4. f \in Bijection(B, C)
  <2>1. f \in [B -> C]
    BY <1>1, <1>3
  <2>2. ASSUME NEW i \in B, NEW j \in B, f[i] = f[j] PROVE i = j
    BY <1>2, <1>3, <2>2
  <2>3. ASSUME NEW c \in C PROVE \E i \in B : f[i] = c
    BY <1>1, <1>3
  <2>4. f \in Injection(B, C)
    BY <2>1, <2>2 DEF Injection, IsInjective
  <2>5. f \in Surjection(B, C)
    BY <2>1, <2>3 DEF Surjection
  <2> QED
    BY <2>4, <2>5 DEF Bijection
<1>5. IsFiniteSet(C) /\ Cardinality(C) = Cardinality(B)
  BY <1>2, <1>4, FS_Bijection DEF ExistsBijection
<1>6. Places(p \o q, T) = A \cup C /\ A \cap C = {}
  BY <1>1, PlacesConcat
<1>7. Cardinality(A) \in Nat /\ Cardinality(B) \in Nat
  BY <1>2, FS_CardinalityType
<1>8. Cardinality(A \cup C) = Cardinality(A) + Cardinality(B)
  <2>1. Cardinality(A \cap C) = 0
    BY <1>6, FS_EmptySet
  <2>2. Cardinality(A \cup C) = Cardinality(A) + Cardinality(C) - Cardinality(A \cap C)
    BY <1>2, <1>5, FS_Union
  <2> QED
    BY <1>5, <1>7, <2>1, <2>2
<1> QED
  BY <1>1, <1>6, <1>8 DEF Count

(* Of a sequence without its first element.                                  *)
LEMMA CountTail ==
  ASSUME NEW R, NEW q \in Seq(R), q # <<>>, NEW P
  PROVE  Count(q, P) = Count(Tail(q), P) + (IF Head(q) \in P THEN 1 ELSE 0)
<1>1. PICK h : h = <<Head(q)>>
  OBVIOUS
<1>2. h \in Seq(R) /\ Len(h) = 1 /\ h[1] = Head(q) /\ Tail(q) \in Seq(R)
  BY <1>1
<1>3. q = h \o Tail(q)
  <2>1. PICK s : s = h \o Tail(q)
    OBVIOUS
  <2>2. s \in Seq(R) /\ Len(s) = Len(q) /\ \A i \in 1..Len(q) : s[i] = q[i]
    BY <1>1, <1>2, <2>1
  <2>3. s = q
    BY <2>2
  <2> QED BY <2>1, <2>3
<1>4. Count(q, P) = Count(h, P) + Count(Tail(q), P)
  <2>1. PICK t : t = Tail(q)
    OBVIOUS
  <2>2. Count(h \o t, P) = Count(h, P) + Count(t, P)
    BY <1>2, <2>1, CountConcat
  <2> QED
    BY <1>3, <2>1, <2>2
<1>5. Count(h, P) = IF Head(q) \in P THEN 1 ELSE 0
  <2>1. CASE Head(q) \in P
    <3>1. Places(h, P) = {1}
      BY <1>2, <2>1 DEF Places
    <3> QED BY <2>1, <3>1, FS_Singleton DEF Count
  <2>2. CASE Head(q) \notin P
    BY <1>2, <2>2, CountNone
  <2> QED BY <2>1, <2>2
<1>6. Count(h, P) \in Nat /\ Count(Tail(q), P) \in Nat
  BY <1>2, CountIs
<1> QED
  BY <1>4, <1>5, <1>6

O == INSTANCE FoldFacts WITH Op <- OpenOrdersOnce
D == INSTANCE FoldFacts WITH Op <- Decide

(* A request before it is numbered: all but a cancellation ask for something. *)
Draft ==
  {r \in [action : {"Limit", "Market", "Modify", "Cancel"}, id : Nat, side : TwoSides, q : Nat] :
     r.action # "Cancel" => r.q # 0}

\* What a pass makes of the first n orders of a list.
Decided(open, fate, n, batch) ==
  /\ batch \in Seq(Draft)
  /\ \A i \in 1..Len(batch) : \E j \in 1..n :
       \/ fate[j] = "replace" /\ batch[i] = Modify(open[j])
       \/ fate[j] = "cancel" /\ batch[i] = Cancel(open[j])
  /\ \A j \in 1..n : fate[j] = "cancel" => \E i \in 1..Len(batch) : batch[i] = Cancel(open[j])

\* An order that a pass can decide on.
Decidable(o, fate) ==
  /\ o.id \in Nat /\ o.side \in TwoSides
  /\ fate \in {"keep", "replace", "cancel"}
  /\ fate = "replace" => o.q \in Nat \ {0}

\* A sequence with an element added.
LEMMA AppendIs ==
  ASSUME NEW R, NEW q \in Seq(R), NEW r \in R, NEW s, s = Append(q, r)
  PROVE  /\ s \in Seq(R) /\ Len(s) = Len(q) + 1 /\ Len(q) \in Nat
         /\ \A i \in 1..Len(q) : s[i] = q[i]
         /\ s[Len(q) + 1] = r
  OBVIOUS

\* A change of an order that can be decided on is a draft.
LEMMA ChangeIs ==
  ASSUME NEW o, NEW fate, Decidable(o, fate)
  PROVE  /\ fate = "replace" => Modify(o) \in Draft
         /\ Cancel(o) \in Draft
  BY DEF Decidable, Modify, Cancel, Request, Draft

\* One more order decided on.
LEMMA DecideOne ==
  ASSUME NEW open, NEW fate, NEW n \in Nat, NEW batch, Decided(open, fate, n, batch),
         Decidable(open[n + 1], fate[n + 1]), NEW after,
         after = Decide(batch, [order |-> open[n + 1], fate |-> fate[n + 1]])
  PROVE  Decided(open, fate, n + 1, after)
<1>1. PICK o, f : o = open[n + 1] /\ f = fate[n + 1]
  OBVIOUS
<1>2. /\ batch \in Seq(Draft)
      /\ \A i \in 1..Len(batch) : \E j \in 1..n :
           \/ fate[j] = "replace" /\ batch[i] = Modify(open[j])
           \/ fate[j] = "cancel" /\ batch[i] = Cancel(open[j])
      /\ \A j \in 1..n : fate[j] = "cancel" => \E i \in 1..Len(batch) : batch[i] = Cancel(open[j])
  BY DEF Decided
<1>3. 1..n \subseteq 1..(n + 1) /\ n + 1 \in 1..(n + 1)
  OBVIOUS
<1>4. \A j \in 1..(n + 1) : j \in 1..n \/ j = n + 1
  OBVIOUS
<1>5. CASE f = "keep"
  <2>1. after = batch
    BY <1>1, <1>5 DEF Decide
  <2> QED
    <3>1. \A j \in 1..(n + 1) : fate[j] = "cancel" => j \in 1..n
      BY <1>1, <1>4, <1>5
    <3>2. \A i \in 1..Len(batch) : \E j \in 1..(n + 1) :
            \/ fate[j] = "replace" /\ batch[i] = Modify(open[j])
            \/ fate[j] = "cancel" /\ batch[i] = Cancel(open[j])
      BY <1>2, <1>3
    <3> QED
      BY <1>2, <2>1, <3>1, <3>2 DEF Decided
<1>6. ASSUME f = "replace" \/ f = "cancel",
             NEW r \in Draft, after = Append(batch, r),
             f = "replace" => r = Modify(o), f = "cancel" => r = Cancel(o)
      PROVE  Decided(open, fate, n + 1, after)
  <2>1. /\ after \in Seq(Draft) /\ Len(after) = Len(batch) + 1 /\ Len(batch) \in Nat
        /\ \A i \in 1..Len(batch) : after[i] = batch[i]
        /\ after[Len(batch) + 1] = r
    BY <1>2, <1>6, AppendIs
  <2>2. ASSUME NEW i \in 1..Len(after)
        PROVE  \E j \in 1..(n + 1) :
                 \/ fate[j] = "replace" /\ after[i] = Modify(open[j])
                 \/ fate[j] = "cancel" /\ after[i] = Cancel(open[j])
    <3>1. CASE i = Len(batch) + 1
      BY <1>1, <1>3, <1>6, <2>1, <3>1
    <3>2. CASE i \in 1..Len(batch)
      BY <1>2, <1>3, <2>1, <3>2
    <3> QED
      BY <2>1, <3>1, <3>2
  <2>3. ASSUME NEW j \in 1..(n + 1), fate[j] = "cancel"
        PROVE  \E i \in 1..Len(after) : after[i] = Cancel(open[j])
    <3>1. CASE j = n + 1
      <4>1. Len(after) \in 1..Len(after) /\ after[Len(after)] = Cancel(open[j])
        BY <1>1, <1>6, <2>1, <2>3, <3>1
      <4> QED
        BY <4>1
    <3>2. CASE j \in 1..n
      <4>1. PICK i \in 1..Len(batch) : batch[i] = Cancel(open[j])
        BY <1>2, <2>3, <3>2
      <4>2. i \in 1..Len(after)
        BY <2>1
      <4> QED
        BY <2>1, <4>1, <4>2
    <3> QED
      BY <1>4, <3>1, <3>2
  <2> QED
    BY <2>1, <2>2, <2>3 DEF Decided
<1>7. CASE f = "replace"
  <2>1. after = Append(batch, Modify(o)) /\ Modify(o) \in Draft
    BY <1>1, <1>7, ChangeIs DEF Decide
  <2> QED
    BY <1>6, <1>7, <2>1
<1>8. CASE f = "cancel"
  <2>1. after = Append(batch, Cancel(o)) /\ Cancel(o) \in Draft
    BY <1>1, <1>8, ChangeIs DEF Decide
  <2> QED
    BY <1>6, <1>8, <2>1
<1> QED
  BY <1>1, <1>5, <1>7, <1>8 DEF Decidable

\* Changes is a fold of Decide.
LEMMA ChangesAreFold ==
  ASSUME NEW open, NEW fate
  PROVE  Changes(open, fate) =
           D!Fold(<<>>, [i \in DOMAIN open |-> [order |-> open[i], fate |-> fate[i]]])
  BY Zenon DEF Changes, D!Fold, D!FoldLeft, D!MapThenFoldSet, D!Max, FoldLeft, MapThenFoldSet, Max

(* What Changes makes of a list of orders, each with a decision on it.       *)
LEMMA ChangesIs ==
  ASSUME NEW open, NEW fate, NEW n \in Nat, DOMAIN open = 1..n,
         \A j \in 1..n : Decidable(open[j], fate[j])
  PROVE  Decided(open, fate, n, Changes(open, fate))
<1>1. PICK s : s = [i \in DOMAIN open |-> [order |-> open[i], fate |-> fate[i]]]
  OBVIOUS
<1>2. DOMAIN s = 1..n /\ \A k \in 1..n : s[k] = [order |-> open[k], fate |-> fate[k]]
  BY <1>1
<1>3. PICK none : none = <<>>
  OBVIOUS
<1>4. PICK h : D!Leads(h, none, s, n)
  BY <1>2, D!FoldHas
<1>5. /\ h[0] = none /\ h[n] = D!Fold(none, s)
      /\ \A k \in 1..n : h[k] = Decide(h[k - 1], s[k])
  BY <1>4 DEF D!Leads
<1>6. PICK T : T = {k \in Nat : k <= n => Decided(open, fate, k, h[k])}
  OBVIOUS
<1>7. 0 \in T
  <2>1. Decided(open, fate, 0, <<>>)
    BY DEF Decided
  <2> QED
    BY <1>3, <1>5, <1>6, <2>1
<1>8. ASSUME NEW k \in Nat, k \in T PROVE k + 1 \in T
  <2>1. ASSUME k + 1 <= n PROVE Decided(open, fate, k + 1, h[k + 1])
    <3>1. k + 1 \in 1..n /\ (k + 1) - 1 = k
      BY <2>1
    <3>2. h[k + 1] = Decide(h[k], [order |-> open[k + 1], fate |-> fate[k + 1]])
      BY <1>2, <1>5, <3>1
    <3>3. Decided(open, fate, k, h[k])
      BY <1>6, <1>8, <2>1
    <3> QED
      BY <3>1, <3>2, <3>3, DecideOne
  <2> QED
    BY <1>6, <2>1
<1>9. Nat \subseteq T
  BY <1>7, <1>8, D!NatSetInduction
<1>10. Decided(open, fate, n, D!Fold(none, s))
  BY <1>5, <1>6, <1>9
<1>11. D!Fold(none, s) = Changes(open, fate)
  BY <1>1, <1>3, ChangesAreFold
<1> QED
  BY <1>10, <1>11

-----------------------------------------------------------------------------
(* The types: of what is listed, delivered, sent and read.                   *)
Listing  == {"OrderStatus", "New", "Replaced", "PartialFill"}
Open     == {r \in OrderResponse : r.side \in TwoSides /\ r.q # 0}
Reply    == {r \in OrderResponse :
               r.type # "Complete" /\ (r.type \in Listing => r.side \in TwoSides /\ r.q # 0)}
Balances == [type : {"Position"}, symbol : Assets, position : Int]
Delivery == Reply \cup Balances \cup {CompleteMsg}
Sent     == {r \in Draft : r.id \in Ids}
Copied   == [id : Ids, side : TwoSides]
Reading  == [at : Stages, pos : Int, open : Seq(Copied), found : SUBSET Sides]

FlowTyped ==
  /\ positions \in [Assets -> Int]
  /\ open_orders \in Seq(Open) /\ Unique(open_orders)
  /\ agent \in AgentKinds /\ legacy \in Legacies[agent]
  /\ next_id \in 1..(MaxOrders[agent] + 1)
  /\ requests \in Seq(Sent)
  /\ IsFiniteSet(DOMAIN live)
  /\ \A id \in DOMAIN live : id \in Ids /\ live[id] \in [side : TwoSides, q : Nat \ {0}]
  /\ wire \in Seq(Delivery)
  /\ read \in [Threads -> Reading]
  /\ ready \in BOOLEAN /\ slipped \in BOOLEAN /\ stale \in Nat

-----------------------------------------------------------------------------
(* What a pass sends.                                                        *)
Proper(batch) ==
  /\ batch \in Seq(Draft)
  /\ \A i \in 1..Len(batch) : ~IsNew(batch[i]) => batch[i].id \in Ids

Limits(s) == {r \in Draft : r.action = "Limit" /\ r.side = s}

Asks(batch, id) == \E i \in 1..Len(batch) : batch[i].action = "Cancel" /\ batch[i].id = id

\* A sequence followed by another.
LEMMA ConcatAt ==
  ASSUME NEW R, NEW p \in Seq(R), NEW q \in Seq(R), NEW s, s = p \o q
  PROVE  /\ s \in Seq(R) /\ Len(s) = Len(p) + Len(q) /\ Len(p) \in Nat /\ Len(q) \in Nat
         /\ \A i \in 1..Len(p) : i \in 1..Len(s) /\ s[i] = p[i]
         /\ \A i \in 1..Len(q) : Len(p) + i \in 1..Len(s) /\ s[Len(p) + i] = q[i]
         /\ \A i \in 1..Len(s) : i \in 1..Len(p) \/ (i - Len(p) \in 1..Len(q) /\ s[i] = q[i - Len(p)])
  OBVIOUS

\* Two parts of what a pass sends.
LEMMA ProperConcat ==
  ASSUME NEW p, NEW q, Proper(p), Proper(q)
  PROVE  /\ Proper(p \o q)
         /\ \A id : Asks(p \o q, id) <=> Asks(p, id) \/ Asks(q, id)
         /\ \A s : Count(p \o q, Limits(s)) = Count(p, Limits(s)) + Count(q, Limits(s))
<1>1. PICK b : b = p \o q
  OBVIOUS
<1>2. p \in Seq(Draft) /\ q \in Seq(Draft)
  BY DEF Proper
<1>3. /\ b \in Seq(Draft) /\ Len(b) = Len(p) + Len(q) /\ Len(p) \in Nat /\ Len(q) \in Nat
      /\ \A i \in 1..Len(p) : i \in 1..Len(b) /\ b[i] = p[i]
      /\ \A i \in 1..Len(q) : Len(p) + i \in 1..Len(b) /\ b[Len(p) + i] = q[i]
      /\ \A i \in 1..Len(b) : i \in 1..Len(p) \/ (i - Len(p) \in 1..Len(q) /\ b[i] = q[i - Len(p)])
  BY <1>1, <1>2, ConcatAt
<1>4. Proper(b)
  BY <1>3 DEF Proper
<1>5. ASSUME NEW id PROVE Asks(b, id) <=> Asks(p, id) \/ Asks(q, id)
  <2>1. Asks(p, id) \/ Asks(q, id) => Asks(b, id)
    <3>1. ASSUME NEW i \in 1..Len(p), p[i].action = "Cancel", p[i].id = id PROVE Asks(b, id)
      BY <1>3, <3>1 DEF Asks
    <3>2. ASSUME NEW i \in 1..Len(q), q[i].action = "Cancel", q[i].id = id PROVE Asks(b, id)
      <4>1. Len(p) + i \in 1..Len(b) /\ b[Len(p) + i] = q[i]
        BY <1>3
      <4> QED
        BY <3>2, <4>1 DEF Asks
    <3> QED
      BY <3>1, <3>2 DEF Asks
  <2>2. Asks(b, id) => Asks(p, id) \/ Asks(q, id)
    <3>1. ASSUME NEW i \in 1..Len(b), b[i].action = "Cancel", b[i].id = id
          PROVE  Asks(p, id) \/ Asks(q, id)
      <4>1. CASE i \in 1..Len(p)
        BY <1>3, <3>1, <4>1 DEF Asks
      <4>2. CASE i - Len(p) \in 1..Len(q) /\ b[i] = q[i - Len(p)]
        <5>1. q[i - Len(p)].action = "Cancel" /\ q[i - Len(p)].id = id
          BY <3>1, <4>2
        <5> QED
          BY <4>2, <5>1 DEF Asks
      <4> QED
        BY <1>3, <4>1, <4>2
    <3> QED
      BY <3>1 DEF Asks
  <2> QED
    BY <2>1, <2>2
<1>6. ASSUME NEW s PROVE Count(b, Limits(s)) = Count(p, Limits(s)) + Count(q, Limits(s))
  BY <1>1, <1>2, CountConcat
<1> QED
  BY <1>1, <1>4, <1>5, <1>6

(* A batch of one order, or of none.                                         *)
LEMMA ProperNone ==
  Proper(<<>>) /\ (\A id : ~Asks(<<>>, id)) /\ \A s : Count(<<>>, Limits(s)) = 0
<1>1. Proper(<<>>)
  BY DEF Proper
<1>2. \A id : ~Asks(<<>>, id)
  BY DEF Asks
<1>3. ASSUME NEW s PROVE Count(<<>>, Limits(s)) = 0
  <2>1. PICK none : none = <<>>
    OBVIOUS
  <2>2. \A i \in 1..Len(none) : none[i] \notin Limits(s)
    BY <2>1
  <2>3. Count(none, Limits(s)) = 0
    BY <2>2, CountNone
  <2> QED
    BY <2>1, <2>3
<1> QED
  BY <1>1, <1>2, <1>3

\* A new order.
LEMMA OrderIs ==
  ASSUME NEW side \in TwoSides, NEW q \in Nat \ {0}
  PROVE  /\ LimitOrder(side, q) \in Draft /\ MarketOrder(side, q) \in Draft
         /\ LimitOrder(side, q).action = "Limit" /\ LimitOrder(side, q).side = side
         /\ MarketOrder(side, q).action = "Market"
  BY DEF LimitOrder, MarketOrder, Request, Draft

\* A pass may send one new order.
LEMMA ProperOrder ==
  ASSUME NEW side \in TwoSides, NEW q \in Nat \ {0}
  PROVE  /\ Proper(<<LimitOrder(side, q)>>) /\ Proper(<<MarketOrder(side, q)>>)
         /\ \A id : ~Asks(<<LimitOrder(side, q)>>, id) /\ ~Asks(<<MarketOrder(side, q)>>, id)
         /\ \A s : /\ Count(<<LimitOrder(side, q)>>, Limits(s)) = IF s = side THEN 1 ELSE 0
                   /\ Count(<<MarketOrder(side, q)>>, Limits(s)) = 0
<1>1. PICK l, m : l = LimitOrder(side, q) /\ m = MarketOrder(side, q)
  OBVIOUS
<1>2. l \in Draft /\ m \in Draft /\ l.action = "Limit" /\ l.side = side /\ m.action = "Market"
  BY <1>1, OrderIs
<1>3. PICK b, c : b = <<l>> /\ c = <<m>>
  OBVIOUS
<1>4. /\ b \in Seq(Draft) /\ Len(b) = 1 /\ b[1] = l
      /\ c \in Seq(Draft) /\ Len(c) = 1 /\ c[1] = m
  BY <1>2, <1>3
<1>5. Proper(b) /\ Proper(c)
  BY <1>2, <1>4 DEF Proper, IsNew
<1>6. \A id : ~Asks(b, id) /\ ~Asks(c, id)
  BY <1>2, <1>4 DEF Asks
<1>7. ASSUME NEW s PROVE Count(b, Limits(s)) = IF s = side THEN 1 ELSE 0
  <2>1. CASE s = side
    <3>1. Places(b, Limits(s)) = {1}
      BY <1>2, <1>4, <2>1 DEF Places, Limits
    <3> QED
      BY <2>1, <3>1, FS_Singleton DEF Count
  <2>2. CASE s # side
    <3>1. \A i \in 1..Len(b) : b[i] \notin Limits(s)
      BY <1>2, <1>4, <2>2 DEF Limits
    <3> QED
      BY <2>2, <3>1, CountNone
  <2> QED
    BY <2>1, <2>2
<1>8. ASSUME NEW s PROVE Count(c, Limits(s)) = 0
  <2>1. \A i \in 1..Len(c) : c[i] \notin Limits(s)
    BY <1>2, <1>4 DEF Limits
  <2> QED
    BY <2>1, CountNone
<1> QED
  BY <1>1, <1>3, <1>5, <1>6, <1>7, <1>8

\* One new limit order, or none.
LimitOrNone(b, side) ==
  /\ Proper(b)
  /\ \A id : ~Asks(b, id)
  /\ \A s : s # side => Count(b, Limits(s)) = 0

\* One.
LEMMA LimitOne ==
  ASSUME NEW side \in TwoSides, NEW q \in Nat \ {0}, NEW b, b = <<LimitOrder(side, q)>>
  PROVE  LimitOrNone(b, side) /\ Count(b, Limits(side)) = 1
<1>1. Proper(b)
  BY ProperOrder, Zenon
<1>2. \A id : ~Asks(b, id)
  BY ProperOrder, Zenon
<1>3. ASSUME NEW s PROVE Count(b, Limits(s)) = IF s = side THEN 1 ELSE 0
  BY ProperOrder, Zenon
<1> QED
  BY <1>1, <1>2, <1>3 DEF LimitOrNone

\* None.
LEMMA LimitNone ==
  ASSUME NEW side, NEW b, b = <<>>
  PROVE  LimitOrNone(b, side) /\ Count(b, Limits(side)) = 0
  BY ProperNone, Zenon DEF LimitOrNone

(* Changes to orders.                                                        *)
LEMMA ProperChanges ==
  ASSUME NEW open, NEW fate, NEW n \in Nat, DOMAIN open = 1..n,
         \A j \in 1..n : Decidable(open[j], fate[j]) /\ open[j].id \in Ids
  PROVE  /\ Proper(Changes(open, fate))
         /\ \A j \in 1..n : fate[j] = "cancel" => Asks(Changes(open, fate), open[j].id)
         /\ \A s : Count(Changes(open, fate), Limits(s)) = 0
<1>1. PICK b : b = Changes(open, fate)
  OBVIOUS
<1>2. /\ b \in Seq(Draft)
      /\ \A i \in 1..Len(b) : \E j \in 1..n : b[i] = Modify(open[j]) \/ b[i] = Cancel(open[j])
      /\ \A j \in 1..n : fate[j] = "cancel" => \E i \in 1..Len(b) : b[i] = Cancel(open[j])
  <2>1. Decided(open, fate, n, b)
    BY <1>1, ChangesIs
  <2> QED
    BY <2>1 DEF Decided
<1>3. \A o : /\ Modify(o).action = "Modify" /\ Modify(o).id = o.id /\ Modify(o).side = o.side
             /\ Cancel(o).action = "Cancel" /\ Cancel(o).id = o.id /\ Cancel(o).side = o.side
  BY DEF Modify, Cancel, Request
<1>4. Proper(b)
  <2>1. ASSUME NEW i \in 1..Len(b) PROVE b[i].id \in Ids
    <3>1. PICK j \in 1..n : b[i] = Modify(open[j]) \/ b[i] = Cancel(open[j])
      BY <1>2
    <3>2. b[i].id = open[j].id
      BY <1>3, <3>1
    <3> QED
      BY <3>2
  <2> QED
    BY <1>2, <2>1 DEF Proper
<1>5. \A j \in 1..n : fate[j] = "cancel" => Asks(b, open[j].id)
  BY <1>2, <1>3 DEF Asks
<1>6. ASSUME NEW s PROVE Count(b, Limits(s)) = 0
  <2>1. \A i \in 1..Len(b) : b[i] \notin Limits(s)
    BY <1>2, <1>3 DEF Limits
  <2> QED
    BY <2>1, CountNone
<1> QED
  BY <1>1, <1>4, <1>5, <1>6

Makers == {"mm-native", "mm-advanced", "insider"}

\* The listed orders of a side that the batch does not cancel.
Left(batch, s) ==
  {i \in 1..Len(open_orders) : open_orders[i].side = s /\ ~Asks(batch, open_orders[i].id)}

(* A maker adds no more than it means to have; on an account in step, no more *)
(* than that and what it leaves, and nothing else is on its way there.        *)
Fits(batch, late) ==
  agent \in Makers => \A s \in TwoSides :
    /\ Count(batch, Limits(s)) <= Intended
    /\ ~late /\ Count(batch, Limits(s)) # 0 =>
         /\ wire = <<>> /\ Count(requests, Limits(s)) = 0
         /\ Count(batch, Limits(s)) + Cardinality(Left(batch, s)) <= Intended

\* What a thread may read.
ReadsOn == read' \in [Threads -> Reading]

Pass(batch, late) ==
  /\ Proper(batch) /\ Fits(batch, late) /\ Send(batch, late) /\ ReadsOn
  /\ UNCHANGED <<account, who, live, wire, ready, slipped>>

\* What each maker intends.
LEMMA IntendedIs ==
  /\ agent = "mm-native" => Intended = Target
  /\ agent # "mm-native" => Intended = 1
  BY DEF Intended

\* Nothing is on its way.
LEMMA NotInFlight ==
  ASSUME ~InFlight PROVE wire = <<>> /\ \A s : Count(requests, Limits(s)) = 0
<1>1. wire = <<>> /\ requests = <<>>
  BY DEF InFlight
<1> QED
  BY <1>1, ProperNone, Zenon

\* A thread reads nothing.
LEMMA ReadsSame ==
  ASSUME FlowTyped, UNCHANGED read PROVE ReadsOn
  BY DEF FlowTyped, ReadsOn

\* The listed orders, one by one.
LEMMA ListedAre ==
  ASSUME FlowTyped
  PROVE  /\ DOMAIN open_orders = 1..Len(open_orders) /\ Len(open_orders) \in Nat
         /\ \A i \in 1..Len(open_orders) :
              /\ open_orders[i].id \in Ids /\ open_orders[i].id \in Nat
              /\ open_orders[i].side \in TwoSides /\ open_orders[i].q \in Nat \ {0}
<1>1. open_orders \in Seq(Open) /\ Ids \subseteq Nat
  BY IdsAreNumbers DEF FlowTyped
<1>2. \A o \in Open : o.id \in Ids /\ o.side \in TwoSides /\ o.q \in Nat \ {0}
  BY DEF Open, OrderResponse
<1>4. \A i \in 1..Len(open_orders) : open_orders[i] \in Open
  BY <1>1
<1>5. ASSUME NEW i \in 1..Len(open_orders)
      PROVE  /\ open_orders[i].id \in Ids /\ open_orders[i].id \in Nat
             /\ open_orders[i].side \in TwoSides /\ open_orders[i].q \in Nat \ {0}
  BY <1>1, <1>2, <1>4
<1>6. DOMAIN open_orders = 1..Len(open_orders) /\ Len(open_orders) \in Nat
  BY <1>1
<1> QED
  BY <1>5, <1>6

\* Changes to the listed orders, whatever is decided on them.
LEMMA ListedChanges ==
  ASSUME FlowTyped, NEW fate,
         \A j \in 1..Len(open_orders) : fate[j] \in {"keep", "replace", "cancel"}
  PROVE  /\ Proper(Changes(open_orders, fate))
         /\ \A j \in 1..Len(open_orders) :
              fate[j] = "cancel" => Asks(Changes(open_orders, fate), open_orders[j].id)
         /\ \A s : Count(Changes(open_orders, fate), Limits(s)) = 0
<1>1. PICK n : n = Len(open_orders)
  OBVIOUS
<1>2. /\ n \in Nat /\ DOMAIN open_orders = 1..n
      /\ \A j \in 1..n : Decidable(open_orders[j], fate[j]) /\ open_orders[j].id \in Ids
  BY <1>1, ListedAre DEF Decidable
<1> QED
  BY <1>1, <1>2, ProperChanges

\* What is left is no more than a set of places that contains it.
LEMMA LeftIs ==
  ASSUME FlowTyped, NEW batch, NEW s, NEW K, Left(batch, s) \subseteq K,
         K \subseteq 1..Len(open_orders)
  PROVE  /\ IsFiniteSet(K) /\ Cardinality(K) \in Nat
         /\ Cardinality(Left(batch, s)) \in Nat /\ Cardinality(Left(batch, s)) <= Cardinality(K)
<1>1. IsFiniteSet(1..Len(open_orders))
  BY ListedAre, FS_Interval
<1>2. IsFiniteSet(K)
  BY <1>1, FS_Subset
<1>3. IsFiniteSet(Left(batch, s)) /\ Cardinality(Left(batch, s)) <= Cardinality(K)
  BY <1>2, FS_Subset
<1> QED
  BY <1>2, <1>3, FS_CardinalityType

-----------------------------------------------------------------------------
(* The native maker.                                                         *)
LEMMA TopUpIs ==
  ASSUME NEW fate, NEW s \in TwoSides,
         NEW qty \in [TwoSides -> [1..Target -> NativeQtys]], Kept(fate, s) \in Nat
  PROVE  /\ Proper(TopUp(fate, s, qty))
         /\ \A id : ~Asks(TopUp(fate, s, qty), id)
         /\ \A side : side # s => Count(TopUp(fate, s, qty), Limits(side)) = 0
         /\ Count(TopUp(fate, s, qty), Limits(s)) \in Nat
         /\ Count(TopUp(fate, s, qty), Limits(s)) <= Target
         /\ Count(TopUp(fate, s, qty), Limits(s)) # 0 =>
              Count(TopUp(fate, s, qty), Limits(s)) + Kept(fate, s) <= Target
<1>1. PICK k, b : k = Kept(fate, s) /\ b = TopUp(fate, s, qty)
  OBVIOUS
<1>2. k \in Nat /\ Target \in Nat
  BY <1>1, NativeAssumption
<1>3. PICK q : q = [i \in 1..Target |-> LimitOrder(s, qty[s][i])]
  OBVIOUS
<1>4. \A i \in 1..Target : q[i] \in Draft /\ q[i].action = "Limit" /\ q[i].side = s
  <2>1. ASSUME NEW i \in 1..Target PROVE qty[s][i] \in Nat \ {0}
    BY NativeAssumption
  <2> QED
    BY <1>3, <2>1, OrderIs
<1>5. /\ b \in Seq(Draft) /\ Len(b) \in Nat /\ Len(b) <= Target
      /\ Len(b) # 0 => Len(b) + k <= Target
      /\ \A i \in 1..Len(b) : b[i].action = "Limit" /\ b[i].side = s
  <2>1. CASE s \in NativeSides
    <3>1. 1..(Target - k) \subseteq 1..Target
      BY <1>2
    <3>2. b = [i \in 1..(Target - k) |-> q[i]]
      BY <1>1, <1>3, <2>1, <3>1 DEF TopUp
    <3>3. PICK m \in Nat : 1..(Target - k) = 1..m /\ (m = 0 \/ m = Target - k)
      <4>1. CASE k >= Target
        BY <1>2, <4>1
      <4>2. CASE k < Target
        <5>1. Target - k \in Nat
          BY <1>2, <4>2
        <5> QED
          BY <5>1
      <4> QED
        BY <1>2, <4>1, <4>2
    <3>4. b \in [1..m -> Draft] /\ \A i \in 1..m : b[i].action = "Limit" /\ b[i].side = s
      BY <1>4, <3>1, <3>2, <3>3
    <3>5. b \in Seq(Draft) /\ Len(b) = m
      BY <3>3, <3>4
    <3> QED
      BY <1>2, <3>3, <3>4, <3>5
  <2>2. CASE s \notin NativeSides
    BY <1>1, <1>2, <2>2 DEF TopUp
  <2> QED
    BY <2>1, <2>2
<1>6. Proper(b)
  BY <1>5 DEF Proper, IsNew
<1>7. \A id : ~Asks(b, id)
  BY <1>5 DEF Asks
<1>8. ASSUME NEW side, side # s PROVE Count(b, Limits(side)) = 0
  <2>1. \A i \in 1..Len(b) : b[i] \notin Limits(side)
    BY <1>5, <1>8 DEF Limits
  <2> QED
    BY <2>1, CountNone
<1>9. Count(b, Limits(s)) \in Nat /\ Count(b, Limits(s)) <= Len(b)
  BY <1>5, CountIs, CountLen
<1>10. Count(b, Limits(s)) # 0 => Len(b) # 0
  BY <1>5, <1>9
<1> QED
  BY <1>1, <1>2, <1>5, <1>6, <1>7, <1>8, <1>9, <1>10

\* manage_orders: Kept is at least what is left, and TopUp adds what is missing.
LEMMA NativePass ==
  ASSUME FlowTyped, ManageOrders
  PROVE  \E batch, late : Pass(batch, late)
<1>1. PICK fate \in [DOMAIN open_orders -> {"keep", "replace", "cancel"}],
           qty \in [TwoSides -> [1..Target -> NativeQtys]] :
        Send(Changes(open_orders, fate) \o Replenish(fate, qty), InFlight)
  BY DEF ManageOrders
<1>2. /\ agent = "mm-native" /\ UNCHANGED <<account, who, live, wire, ready, slipped>>
      /\ UNCHANGED read
  BY DEF ManageOrders
<1>3. Target \in Nat
  BY NativeAssumption
<1>4. PICK c, u, d : /\ c = Changes(open_orders, fate)
                     /\ u = TopUp(fate, "Buy", qty) /\ d = TopUp(fate, "Sell", qty)
  OBVIOUS
<1>5. PICK batch : batch = c \o (u \o d)
  OBVIOUS
<1>6. \A j \in 1..Len(open_orders) : fate[j] \in {"keep", "replace", "cancel"}
  BY ListedAre
<1>7. /\ Proper(c) /\ \A s : Count(c, Limits(s)) = 0
      /\ \A j \in 1..Len(open_orders) : fate[j] = "cancel" => Asks(c, open_orders[j].id)
  BY <1>4, <1>6, ListedChanges
<1>8. ASSUME NEW s \in TwoSides
      PROVE  Kept(fate, s) \in Nat
  <2>1. PICK K : K = {i \in Listed(open_orders, s) : fate[i] # "cancel"}
    OBVIOUS
  <2>2. K \subseteq 1..Len(open_orders)
    BY <2>1, ListedAre DEF Listed
  <2>3. IsFiniteSet(K)
    <3>1. IsFiniteSet(1..Len(open_orders))
      BY ListedAre, FS_Interval
    <3> QED
      BY <2>2, <3>1, FS_Subset
  <2> QED
    BY <2>1, <2>3, FS_CardinalityType DEF Kept
<1>9. "Buy" \in TwoSides /\ "Sell" \in TwoSides /\ TwoSides = {"Buy", "Sell"}
  BY DEF TwoSides
<1>10. Proper(u) /\ Proper(d)
  BY <1>3, <1>4, <1>8, <1>9, TopUpIs
<1>11. Proper(batch) /\ Proper(u \o d)
  BY <1>5, <1>7, <1>10, ProperConcat
<1>12. \A s : Count(batch, Limits(s)) = 0 + (Count(u, Limits(s)) + Count(d, Limits(s)))
  BY <1>5, <1>7, <1>10, <1>11, ProperConcat
<1>13. \A id : Asks(c, id) => Asks(batch, id)
  BY <1>5, <1>7, <1>11, ProperConcat
<1>14. ASSUME NEW s \in TwoSides
       PROVE  /\ Count(batch, Limits(s)) \in Nat /\ Count(batch, Limits(s)) <= Target
              /\ Count(batch, Limits(s)) # 0 => Count(batch, Limits(s)) + Kept(fate, s) <= Target
  <2>1. CASE s = "Buy"
    <3>1. Count(d, Limits(s)) = 0
      BY <1>3, <1>4, <1>8, <1>9, <2>1, TopUpIs
    <3>2. /\ Count(u, Limits(s)) \in Nat /\ Count(u, Limits(s)) <= Target
          /\ Count(u, Limits(s)) # 0 => Count(u, Limits(s)) + Kept(fate, s) <= Target
      BY <1>3, <1>4, <1>8, <1>9, <2>1, TopUpIs
    <3> QED
      BY <1>12, <3>1, <3>2
  <2>2. CASE s = "Sell"
    <3>1. Count(u, Limits(s)) = 0
      BY <1>3, <1>4, <1>8, <1>9, <2>2, TopUpIs
    <3>2. /\ Count(d, Limits(s)) \in Nat /\ Count(d, Limits(s)) <= Target
          /\ Count(d, Limits(s)) # 0 => Count(d, Limits(s)) + Kept(fate, s) <= Target
      BY <1>3, <1>4, <1>8, <1>9, <2>2, TopUpIs
    <3> QED
      BY <1>12, <3>1, <3>2
  <2> QED
    BY <1>9, <1>14, <2>1, <2>2
<1>15. ASSUME NEW s \in TwoSides
       PROVE  Cardinality(Left(batch, s)) \in Nat /\ Cardinality(Left(batch, s)) <= Kept(fate, s)
  <2>1. PICK K : K = {i \in Listed(open_orders, s) : fate[i] # "cancel"}
    OBVIOUS
  <2>2. K \subseteq 1..Len(open_orders)
    BY <2>1, ListedAre DEF Listed
  <2>3. Left(batch, s) \subseteq K
    <3>1. ASSUME NEW i \in Left(batch, s) PROVE i \in K
      <4>1. i \in DOMAIN open_orders /\ open_orders[i].side = s /\ fate[i] # "cancel"
        BY <1>7, <1>13, <3>1, ListedAre DEF Left
      <4> QED
        BY <2>1, <4>1 DEF Listed
    <3> QED
      BY <3>1
  <2> QED
    BY <2>1, <2>2, <2>3, LeftIs DEF Kept
<1>16. Fits(batch, InFlight)
  <2>1. ASSUME NEW s \in TwoSides
        PROVE  /\ Count(batch, Limits(s)) <= Intended
               /\ ~InFlight /\ Count(batch, Limits(s)) # 0 =>
                    /\ wire = <<>> /\ Count(requests, Limits(s)) = 0
                    /\ Count(batch, Limits(s)) + Cardinality(Left(batch, s)) <= Intended
    <3>1. Intended = Target
      BY <1>2, IntendedIs
    <3>2. Kept(fate, s) \in Nat
      BY <1>8
    <3>3. Count(batch, Limits(s)) # 0 => Count(batch, Limits(s)) + Cardinality(Left(batch, s)) <= Target
      BY <1>3, <1>14, <1>15, <3>2
    <3>4. ~InFlight => wire = <<>> /\ Count(requests, Limits(s)) = 0
      BY NotInFlight
    <3> QED
      BY <1>14, <3>1, <3>3, <3>4
  <2> QED
    BY <2>1 DEF Fits
<1>17. Send(batch, InFlight)
  BY <1>1, <1>4, <1>5 DEF Replenish
<1> QED
  BY <1>2, <1>11, <1>16, <1>17, ReadsSame DEF Pass

(* The advanced maker.                                                       *)
LEMMA QuoteIs ==
  ASSUME NEW fate, NEW quote, NEW s \in TwoSides, NEW b, b = Quote(fate, quote, s)
  PROVE  /\ LimitOrNone(b, s)
         /\ \/ Count(b, Limits(s)) = 0
            \/ /\ Count(b, Limits(s)) = 1
               /\ \A i \in Listed(open_orders, s) : fate[i] = "cancel"
<1>1. QuoteQty \in Nat \ {0}
  BY AdvancedAssumption
<1>2. CASE b = <<>>
  BY <1>2, LimitNone
<1>3. CASE b = <<LimitOrder(s, QuoteQty)>> /\ \A i \in Listed(open_orders, s) : fate[i] = "cancel"
  BY <1>1, <1>3, LimitOne
<1> QED
  BY <1>2, <1>3 DEF Quote

\* A market order of opportunistic_take, or none.
LEMMA TakeIs ==
  ASSUME NEW take \in OpportunisticTake
  PROVE  Proper(take) /\ (\A id : ~Asks(take, id)) /\ \A s : Count(take, Limits(s)) = 0
<1>1. TakeQty \in Nat \ {0}
  BY AdvancedAssumption
<1>2. CASE take = <<>>
  BY <1>2, ProperNone
<1>3. ASSUME NEW s \in TwoSides, take = <<MarketOrder(s, TakeQty)>>
      PROVE  Proper(take) /\ (\A id : ~Asks(take, id)) /\ \A x : Count(take, Limits(x)) = 0
  BY <1>1, <1>3, ProperOrder
<1> QED
  BY <1>2, <1>3 DEF OpportunisticTake

\* manage_quotes: a side with an order that is kept gets no quote.
LEMMA QuotesPass ==
  ASSUME FlowTyped, ManageQuotes
  PROVE  \E batch, late : Pass(batch, late)
<1>1. PICK quote \in SUBSET TwoSides, fate \in [DOMAIN open_orders -> {"keep", "cancel"}],
           take \in OpportunisticTake :
        Send(Changes(open_orders, fate) \o NewQuotes(fate, quote) \o take, InFlight)
  BY DEF ManageQuotes
<1>2. /\ agent = "mm-advanced" /\ UNCHANGED <<account, who, live, wire, ready, slipped>>
      /\ UNCHANGED read
  BY DEF ManageQuotes
<1>3. PICK c, u, d : /\ c = Changes(open_orders, fate)
                     /\ u = Quote(fate, quote, "Buy") /\ d = Quote(fate, quote, "Sell")
  OBVIOUS
<1>4. PICK batch : batch = (c \o (u \o d)) \o take
  OBVIOUS
<1>5. \A j \in 1..Len(open_orders) : fate[j] \in {"keep", "replace", "cancel"}
  BY ListedAre
<1>6. /\ Proper(c) /\ \A s : Count(c, Limits(s)) = 0
      /\ \A j \in 1..Len(open_orders) : fate[j] = "cancel" => Asks(c, open_orders[j].id)
  BY <1>3, <1>5, ListedChanges
<1>7. "Buy" \in TwoSides /\ "Sell" \in TwoSides /\ TwoSides = {"Buy", "Sell"} /\ "Buy" # "Sell"
  BY DEF TwoSides
<1>8. Proper(u) /\ Proper(d)
  BY <1>3, <1>7, QuoteIs DEF LimitOrNone
<1>9. Proper(take) /\ \A s : Count(take, Limits(s)) = 0
  BY TakeIs
<1>10. Proper(batch) /\ Proper(c \o (u \o d)) /\ Proper(u \o d)
  BY <1>4, <1>6, <1>8, <1>9, ProperConcat
<1>11. \A s : Count(batch, Limits(s)) = (0 + (Count(u, Limits(s)) + Count(d, Limits(s)))) + 0
  BY <1>4, <1>6, <1>8, <1>9, <1>10, ProperConcat
<1>12. \A id : Asks(c, id) => Asks(batch, id)
  BY <1>4, <1>6, <1>8, <1>9, <1>10, ProperConcat
<1>13. ASSUME NEW s \in TwoSides
       PROVE  \/ Count(batch, Limits(s)) = 0
              \/ /\ Count(batch, Limits(s)) = 1
                 /\ \A i \in Listed(open_orders, s) : fate[i] = "cancel"
  <2>1. CASE s = "Buy"
    <3>1. Count(d, Limits(s)) = 0
      BY <1>3, <1>7, <2>1, QuoteIs DEF LimitOrNone
    <3>2. \/ Count(u, Limits(s)) = 0
          \/ /\ Count(u, Limits(s)) = 1
             /\ \A i \in Listed(open_orders, s) : fate[i] = "cancel"
      BY <1>3, <1>7, <2>1, QuoteIs DEF LimitOrNone
    <3> QED
      BY <1>11, <3>1, <3>2
  <2>2. CASE s = "Sell"
    <3>1. Count(u, Limits(s)) = 0
      BY <1>3, <1>7, <2>2, QuoteIs DEF LimitOrNone
    <3>2. \/ Count(d, Limits(s)) = 0
          \/ /\ Count(d, Limits(s)) = 1
             /\ \A i \in Listed(open_orders, s) : fate[i] = "cancel"
      BY <1>3, <1>7, <2>2, QuoteIs DEF LimitOrNone
    <3> QED
      BY <1>11, <3>1, <3>2
  <2> QED
    BY <1>7, <1>13, <2>1, <2>2
<1>14. ASSUME NEW s \in TwoSides, \A i \in Listed(open_orders, s) : fate[i] = "cancel"
       PROVE  Cardinality(Left(batch, s)) = 0
  <2>1. Left(batch, s) = {}
    <3>1. ASSUME NEW i \in Left(batch, s) PROVE FALSE
      <4>1. i \in 1..Len(open_orders) /\ open_orders[i].side = s /\ ~Asks(c, open_orders[i].id)
        BY <1>12, <3>1 DEF Left
      <4>2. fate[i] = "cancel"
        BY <1>14, <4>1, ListedAre DEF Listed
      <4> QED
        BY <1>6, <4>1, <4>2
    <3> QED
      BY <3>1
  <2> QED
    BY <2>1, FS_EmptySet
<1>15. Fits(batch, InFlight)
  <2>1. Intended = 1
    BY <1>2, IntendedIs
  <2> QED
    BY <1>13, <1>14, <2>1, NotInFlight DEF Fits
<1>16. Send(batch, InFlight)
  BY <1>1, <1>3, <1>4 DEF NewQuotes
<1> QED
  BY <1>2, <1>10, <1>15, <1>16, ReadsSame DEF Pass

(* A batch without new limit orders fits.                                    *)
LEMMA FitsNone ==
  ASSUME NEW batch, NEW late, \A s : Count(batch, Limits(s)) = 0
  PROVE  Fits(batch, late)
<1>1. 0 <= Intended
  <2>1. Target \in Nat
    BY NativeAssumption
  <2>2. Intended = Target \/ Intended = 1
    BY IntendedIs
  <2> QED
    BY <2>1, <2>2
<1> QED
  BY <1>1 DEF Fits

\* fast_cancel_protection only cancels.
LEMMA ProtectionPass ==
  ASSUME FlowTyped, FastCancelProtection
  PROVE  \E batch, late : Pass(batch, late)
<1>1. PICK fate \in [DOMAIN open_orders -> {"keep", "cancel"}] :
        Send(Changes(open_orders, fate), InFlight)
  BY DEF FastCancelProtection
<1>2. UNCHANGED <<account, who, live, wire, ready, slipped>> /\ UNCHANGED read
  BY DEF FastCancelProtection
<1>3. \A j \in 1..Len(open_orders) : fate[j] \in {"keep", "replace", "cancel"}
  BY ListedAre
<1>4. PICK batch : batch = Changes(open_orders, fate)
  OBVIOUS
<1>5. Proper(batch) /\ \A s : Count(batch, Limits(s)) = 0
  BY <1>3, <1>4, ListedChanges
<1>6. Fits(batch, InFlight)
  BY <1>5, FitsNone
<1> QED
  BY <1>1, <1>2, <1>4, <1>5, <1>6, ReadsSame DEF Pass

-----------------------------------------------------------------------------
(* The insider.                                                              *)
\* A thread goes on.
LEMMA ReadsOne ==
  ASSUME FlowTyped, NEW t \in Threads, NEW r \in Reading, read' = [read EXCEPT ![t] = r]
  PROVE  ReadsOn
  BY DEF FlowTyped, ReadsOn

\* The copy of get_open_orders.
LEMMA CopyIs ==
  ASSUME FlowTyped
  PROVE  /\ Copy(open_orders) \in Seq(Copied) /\ Len(Copy(open_orders)) = Len(open_orders)
         /\ \A i \in 1..Len(open_orders) :
              /\ Copy(open_orders)[i].id = open_orders[i].id
              /\ Copy(open_orders)[i].side = open_orders[i].side
<1>1. PICK n, c : n = Len(open_orders) /\ c = Copy(open_orders)
  OBVIOUS
<1>2. n \in Nat /\ c = [i \in 1..n |-> [id |-> open_orders[i].id, side |-> open_orders[i].side]]
  BY <1>1, ListedAre DEF Copy
<1>3. c \in [1..n -> Copied]
  BY <1>1, <1>2, ListedAre DEF Copied
<1>4. c \in Seq(Copied) /\ Len(c) = n
  BY <1>2, <1>3
<1> QED
  BY <1>1, <1>2, <1>4

\* A thread between two passes has read nothing.
LEMMA IdleIs == Idle \in Reading
<1>1. <<>> \in Seq(Copied) /\ {} \in SUBSET Sides
  OBVIOUS
<1> QED
  BY <1>1 DEF Idle, Reading, Stages

\* What a pass that has begun goes on with.
LEMMA ReadIs ==
  ASSUME FlowTyped, NEW t \in Threads
  PROVE  /\ read[t] \in Reading /\ read[t].pos \in Int /\ read[t].open \in Seq(Copied)
         /\ read[t].open # <<>> =>
              /\ Head(read[t].open) \in Copied /\ Tail(read[t].open) \in Seq(Copied)
              /\ Head(read[t].open).id \in Ids /\ Head(read[t].open).id \in Nat
              /\ Head(read[t].open).side \in TwoSides
<1>1. read[t] \in Reading
  BY DEF FlowTyped
<1>2. PICK c : c = read[t].open
  OBVIOUS
<1>3. c \in Seq(Copied) /\ read[t].pos \in Int
  BY <1>1, <1>2 DEF Reading
<1>4. c # <<>> => Head(c) \in Copied /\ Tail(c) \in Seq(Copied)
  BY <1>3
<1>5. \A o \in Copied : o.id \in Ids /\ o.id \in Nat /\ o.side \in TwoSides
  BY IdsAreNumbers DEF Copied
<1> QED
  BY <1>1, <1>2, <1>3, <1>4, <1>5

\* The position is a number.
LEMMA PositionIs == FlowTyped => Position \in Int
<1>1. Symbol \in Assets
  BY ClientAssumption DEF Symbol, Assets
<1> QED
  BY <1>1 DEF FlowTyped, Position

\* A pass that is through with the bid.
LEMMA StageIs ==
  ASSUME NEW r \in Reading
  PROVE  [r EXCEPT !.at = "bid done", !.pos = 0] \in Reading
<1>1. ASSUME NEW at \in Stages, NEW pos \in Int PROVE [r EXCEPT !.at = at, !.pos = pos] \in Reading
  BY DEF Reading
<1>2. "bid done" \in Stages /\ 0 \in Int
  BY DEF Stages
<1> QED
  BY <1>1, <1>2

\* A thread that reads, decides or ends a pass.
LEMMA Goes1 ==
  ASSUME FlowTyped, NEW t \in Threads, NEW r, Goes(t, r),
         \/ r = [Idle EXCEPT !.at = "deciding", !.pos = Position]
         \/ r = [Idle EXCEPT !.at = "moving", !.open = Copy(open_orders)]
         \/ r = Idle
         \/ \E side \in TwoSides : \/ r = [read[t] EXCEPT !.at = side, !.pos = Position]
                                   \/ r = Past(t, side)
         \/ /\ read[t].open # <<>>
            /\ r = [read[t] EXCEPT !.open = Tail(@), !.found = @ \cup {Head(read[t].open).side}]
  PROVE  ReadsOn
<1>1. Idle \in Reading /\ read[t] \in Reading /\ Position \in Int /\ Copy(open_orders) \in Seq(Copied)
  BY IdleIs, ReadIs, PositionIs, CopyIs
<1>2. r \in Reading
  <2>1. CASE r = [Idle EXCEPT !.at = "deciding", !.pos = Position]
    BY <1>1, <2>1 DEF Reading, Stages
  <2>2. CASE r = [Idle EXCEPT !.at = "moving", !.open = Copy(open_orders)]
    BY <1>1, <2>2 DEF Reading, Stages
  <2>3. ASSUME NEW side \in TwoSides, r = [read[t] EXCEPT !.at = side, !.pos = Position]
        PROVE  r \in Reading
    BY <1>1, <2>3 DEF Reading, Stages, TwoSides
  <2>4. ASSUME NEW side \in TwoSides, r = Past(t, side)
        PROVE  r \in Reading
    <3>1. r = Idle \/ r = [read[t] EXCEPT !.at = "bid done", !.pos = 0]
      BY <2>4, Zenon DEF Past
    <3>2. [read[t] EXCEPT !.at = "bid done", !.pos = 0] \in Reading
      BY <1>1, StageIs, Zenon
    <3> QED
      BY <1>1, <3>1, <3>2
  <2>5. CASE /\ read[t].open # <<>>
             /\ r = [read[t] EXCEPT !.open = Tail(@), !.found = @ \cup {Head(read[t].open).side}]
    <3>1. Tail(read[t].open) \in Seq(Copied) /\ Head(read[t].open).side \in Sides
      BY <2>5, ReadIs DEF TwoSides, Sides
    <3> QED
      BY <1>1, <2>5, <3>1 DEF Reading
  <2> QED
    BY <1>1, <2>1, <2>2, <2>3, <2>4, <2>5
<1> QED
  BY <1>2, ReadsOne DEF Goes

\* A market order, on the position read.
LEMMA SnipePass ==
  ASSUME FlowTyped, NEW t \in Threads, Snipe(t)
  PROVE  \E side \in TwoSides :
           /\ Within(side, read[t].pos)
           /\ Pass(<<MarketOrder(side, SnipeQty)>>, Outdated(t, side))
<1>1. PICK side \in TwoSides : /\ Within(side, read[t].pos)
                               /\ Send(<<MarketOrder(side, SnipeQty)>>, Outdated(t, side))
  BY DEF Snipe
<1>2. UNCHANGED <<account, who, live, wire, ready, slipped>> /\ ReadsOn
  BY Goes1 DEF Snipe
<1>3. PICK batch : batch = <<MarketOrder(side, SnipeQty)>>
  OBVIOUS
<1>4. Proper(batch) /\ \A s : Count(batch, Limits(s)) = 0
  BY <1>3, InsiderAssumption, ProperOrder
<1>5. Fits(batch, Outdated(t, side))
  BY <1>4, FitsNone
<1> QED
  BY <1>1, <1>2, <1>3, <1>4, <1>5 DEF Pass

\* A replacement, or none.
MoveOf(t) == Modify([id |-> Head(read[t].open).id, side |-> Head(read[t].open).side, q |-> PassiveQty])

LEMMA MovePass ==
  ASSUME FlowTyped, NEW t \in Threads, MoveOrder(t)
  PROVE  \E batch : /\ batch = <<>> \/ batch = <<MoveOf(t)>>
                    /\ read[t].open # <<>> /\ refills' = refills + Len(batch)
                    /\ Pass(batch, FALSE)
<1>1. PICK batch : /\ batch = <<>> \/ batch = <<MoveOf(t)>>
                   /\ Send(batch, FALSE) /\ refills' = refills + Len(batch)
  BY DEF MoveOrder, MoveOf
<1>2. UNCHANGED <<account, who, live, wire, ready, slipped>> /\ ReadsOn /\ read[t].open # <<>>
  BY Goes1 DEF MoveOrder
<1>3. PICK r : r = MoveOf(t)
  OBVIOUS
<1>4. r \in Draft /\ r.id \in Ids /\ r.action = "Modify"
  BY <1>2, <1>3, ReadIs, InsiderAssumption DEF MoveOf, Modify, Request, Draft
<1>5. Proper(batch) /\ \A s : Count(batch, Limits(s)) = 0
  <2>1. CASE batch = <<>>
    BY <2>1, ProperNone
  <2>2. CASE batch = <<r>>
    <3>1. batch \in Seq(Draft) /\ Len(batch) = 1 /\ batch[1] = r
      BY <1>4, <2>2
    <3>2. \A s : \A i \in 1..Len(batch) : batch[i] \notin Limits(s)
      BY <1>4, <3>1 DEF Limits
    <3> QED
      BY <1>4, <3>1, <3>2, CountNone DEF Proper
  <2> QED
    BY <1>1, <1>3, <2>1, <2>2
<1>6. Fits(batch, FALSE)
  BY <1>5, FitsNone
<1> QED
  BY <1>1, <1>2, <1>5, <1>6 DEF Pass

\* A quote.
LEMMA QuotePass ==
  ASSUME FlowTyped, NEW t \in Threads, NEW side \in TwoSides, SendQuote(t, side)
  PROVE  Pass(<<LimitOrder(side, PassiveQty)>>, Outdated(t, side) \/ Listed(open_orders, side) # {})
<1>1. PICK batch, late : /\ batch = <<LimitOrder(side, PassiveQty)>>
                         /\ late = (Outdated(t, side) \/ Listed(open_orders, side) # {})
  OBVIOUS
<1>2. /\ agent = "insider" /\ Send(batch, late)
      /\ UNCHANGED <<account, who, live, wire, ready, slipped>> /\ ReadsOn
  BY <1>1, Goes1 DEF SendQuote, At
<1>3. LimitOrNone(batch, side) /\ Count(batch, Limits(side)) = 1
  BY <1>1, InsiderAssumption, LimitOne
<1>4. ASSUME ~late
      PROVE  wire = <<>> /\ Count(requests, Limits(side)) = 0 /\ Cardinality(Left(batch, side)) = 0
  <2>1. /\ wire = <<>> /\ Listed(open_orders, side) = {}
        /\ \A i \in DOMAIN requests : ~(IsNew(requests[i]) /\ requests[i].side = side)
    BY <1>1, <1>4 DEF Outdated
  <2>2. \A i \in 1..Len(requests) : requests[i] \notin Limits(side)
    <3>1. DOMAIN requests = 1..Len(requests)
      BY DEF FlowTyped
    <3> QED
      BY <2>1, <3>1 DEF Limits, IsNew
  <2>3. Left(batch, side) = {}
    BY <2>1, ListedAre DEF Left, Listed
  <2> QED
    BY <2>1, <2>2, <2>3, CountNone, FS_EmptySet
<1>5. Fits(batch, late)
  <2>1. Intended = 1
    BY <1>2, IntendedIs
  <2>2. \A s : s # side => Count(batch, Limits(s)) = 0
    BY <1>3 DEF LimitOrNone
  <2> QED
    BY <1>3, <1>4, <2>1, <2>2 DEF Fits
<1> QED
  BY <1>1, <1>2, <1>3, <1>5 DEF Pass, LimitOrNone

-----------------------------------------------------------------------------
(* The noise trader.                                                         *)
LEMMA TimerIs == Timer \in Threads
  BY ClientAssumption DEF Timer

\* Fits says nothing of the noise trader and the monitor's client.
LEMMA FitsOthers ==
  ASSUME agent \notin Makers, NEW batch, NEW late PROVE Fits(batch, late)
  BY DEF Fits

\* A position that is not flat has a quantity to trade.
LEMMA AbsIs == ASSUME NEW n \in Int, n # 0 PROVE Abs(n) \in Nat \ {0}
  BY DEF Abs

\* What a tick sends: flat, an entry or cancellations; else the take-profit, and
\* perhaps the stop-loss.
Profit(exit, pos) == IF TakeProfit(exit) THEN <<LimitOrder(exit, Abs(pos))>> ELSE <<>>
Ticks(batch, pos, exit) ==
  \/ pos = 0 /\ batch \in Flat
  \/ pos # 0 /\ batch = Profit(exit, pos)
  \/ /\ pos # 0 /\ batch = (Profit(exit, pos) \o CancelAll(exit)) \o <<MarketOrder(exit, Abs(pos))>>
     /\ doubled' = (doubled \/ Profit(exit, pos) # <<>>)

\* The rest of a tick, in each of its three outcomes.
LEMMA TickPass ==
  ASSUME FlowTyped, Tick
  PROVE  \E batch, late, pos, exit :
           /\ pos = read[Timer].pos /\ exit = IF pos > 0 THEN "Sell" ELSE "Buy"
           /\ late = (InFlight \/ pos # Position)
           /\ Ticks(batch, pos, exit) /\ Pass(batch, late)
<1>1. PICK pos, exit, profit, late :
        /\ pos = read[Timer].pos
        /\ exit = IF pos > 0 THEN "Sell" ELSE "Buy"
        /\ profit = IF TakeProfit(exit) THEN <<LimitOrder(exit, Abs(pos))>> ELSE <<>>
        /\ late = (InFlight \/ pos # Position)
  OBVIOUS
<1>2. /\ agent = "noise" /\ UNCHANGED <<account, who, live, wire, ready, slipped>>
      /\ read' = [read EXCEPT ![Timer] = Idle]
  BY DEF Tick
<1>3. \/ pos = 0 /\ \E batch \in Flat : Send(batch, late)
      \/ pos # 0 /\ Send(profit, late)
      \/ /\ pos # 0 /\ Send(profit \o CancelAll(exit) \o <<MarketOrder(exit, Abs(pos))>>, late)
         /\ doubled' = (doubled \/ profit # <<>>)
  BY <1>1 DEF Tick
<1>4. pos \in Int /\ exit \in TwoSides
  BY <1>1, TimerIs, ReadIs DEF TwoSides
<1>5. ReadsOn
  BY <1>2, TimerIs, IdleIs, ReadsOne
<1>6. ASSUME NEW batch, Proper(batch), Send(batch, late), Ticks(batch, pos, exit)
      PROVE  \E b, l, p, e : /\ p = read[Timer].pos /\ e = IF p > 0 THEN "Sell" ELSE "Buy"
                             /\ l = (InFlight \/ p # Position)
                             /\ Ticks(b, p, e) /\ Pass(b, l)
  <2>1. Fits(batch, late)
    BY <1>2, FitsOthers DEF Makers
  <2>2. Pass(batch, late)
    BY <1>2, <1>5, <1>6, <2>1 DEF Pass
  <2> QED
    BY <1>1, <1>6, <2>2
<1>7. \A side : Proper(CancelAll(side))
  <2>1. ASSUME NEW side PROVE Proper(CancelAll(side))
    <3>1. PICK fate : fate = [i \in DOMAIN open_orders |->
                               IF open_orders[i].side = side THEN "cancel" ELSE "keep"]
      OBVIOUS
    <3>2. \A j \in 1..Len(open_orders) : fate[j] \in {"keep", "replace", "cancel"}
      BY <3>1, ListedAre
    <3>3. Proper(Changes(open_orders, fate))
      BY <3>2, ListedChanges
    <3> QED
      BY <3>1, <3>3 DEF CancelAll
  <2> QED
    BY <2>1
<1>8. ASSUME NEW batch \in Flat PROVE Proper(batch)
  <2>1. PICK fate : fate = [i \in DOMAIN open_orders |-> "cancel"]
    OBVIOUS
  <2>2. \A j \in 1..Len(open_orders) : fate[j] \in {"keep", "replace", "cancel"}
    BY <2>1, ListedAre
  <2>3. Proper(Changes(open_orders, fate))
    BY <2>2, ListedChanges
  <2>4. \A side \in TwoSides : Proper(<<LimitOrder(side, EntryQty)>>)
    BY NoiseAssumption, ProperOrder
  <2>5. \/ batch = Changes(open_orders, fate) \/ batch = <<>>
        \/ \E side \in TwoSides : batch = <<LimitOrder(side, EntryQty)>>
    BY <2>1 DEF Flat
  <2> QED
    BY <2>3, <2>4, <2>5, ProperNone
<1>9. CASE pos = 0 /\ \E batch \in Flat : Send(batch, late)
  BY <1>6, <1>8, <1>9 DEF Ticks
<1>10. ASSUME pos # 0 PROVE Proper(profit) /\ Proper(<<MarketOrder(exit, Abs(pos))>>)
  <2>1. Abs(pos) \in Nat \ {0}
    BY <1>4, <1>10, AbsIs
  <2>2. Proper(<<LimitOrder(exit, Abs(pos))>>) /\ Proper(<<MarketOrder(exit, Abs(pos))>>)
    BY <1>4, <2>1, ProperOrder
  <2> QED
    BY <1>1, <2>2, ProperNone
<1>11. CASE pos # 0 /\ Send(profit, late)
  BY <1>1, <1>6, <1>10, <1>11 DEF Ticks, Profit
<1>12. CASE /\ pos # 0 /\ Send(profit \o CancelAll(exit) \o <<MarketOrder(exit, Abs(pos))>>, late)
            /\ doubled' = (doubled \/ profit # <<>>)
  <2>1. PICK a, b : a = CancelAll(exit) /\ b = <<MarketOrder(exit, Abs(pos))>>
    OBVIOUS
  <2>2. Proper(profit) /\ Proper(a) /\ Proper(b)
    BY <1>7, <1>10, <1>12, <2>1
  <2>3. Proper((profit \o a) \o b)
    BY <2>2, ProperConcat
  <2>4. Send((profit \o a) \o b, late)
    BY <1>12, <2>1
  <2>5. Ticks((profit \o a) \o b, pos, exit)
    BY <1>1, <1>12, <2>1 DEF Ticks, Profit
  <2> QED
    BY <1>6, <2>3, <2>4, <2>5
<1> QED
  BY <1>3, <1>9, <1>11, <1>12

-----------------------------------------------------------------------------
(* Another program of the monitor's client.                                  *)
LEMMA SomebodyPass ==
  ASSUME FlowTyped, SomebodySends
  PROVE  \E batch, late : Pass(batch, late)
<1>1. /\ agent = "monitor" /\ UNCHANGED <<account, who, live, wire, ready, slipped>>
      /\ UNCHANGED read
  BY DEF SomebodySends
<1>2. ASSUME NEW batch, Proper(batch), Send(batch, FALSE) PROVE Pass(batch, FALSE)
  <2>1. Fits(batch, FALSE)
    BY <1>1, FitsOthers DEF Makers
  <2> QED
    BY <1>1, <1>2, <2>1, ReadsSame DEF Pass
<1>3. ASSUME NEW side \in TwoSides, NEW q \in 1..2, Send(<<LimitOrder(side, q)>>, FALSE)
      PROVE  \E batch, late : Pass(batch, late)
  <2>1. Proper(<<LimitOrder(side, q)>>)
    <3>1. q \in Nat \ {0}
      OBVIOUS
    <3> QED
      BY <3>1, ProperOrder
  <2> QED
    BY <1>2, <1>3, <2>1
<1>4. ASSUME NEW id \in DOMAIN live, Send(<<Cancel([id |-> id, side |-> live[id].side])>>, FALSE)
      PROVE  \E batch, late : Pass(batch, late)
  <2>1. PICK r, b : r = Cancel([id |-> id, side |-> live[id].side]) /\ b = <<r>>
    OBVIOUS
  <2>2. id \in Ids /\ id \in Nat /\ live[id].side \in TwoSides
    BY IdsAreNumbers DEF FlowTyped
  <2>3. r \in Draft /\ r.action = "Cancel" /\ r.id = id /\ r.side = live[id].side
    BY <2>1, <2>2 DEF Cancel, Request, Draft
  <2>4. b \in Seq(Draft) /\ Len(b) = 1 /\ b[1] = r
    BY <2>1, <2>3
  <2>6. Proper(b)
    BY <2>2, <2>3, <2>4 DEF Proper
  <2> QED
    BY <1>2, <1>4, <2>1, <2>6
<1> QED
  BY <1>3, <1>4 DEF SomebodySends

-----------------------------------------------------------------------------
(* Every step, as it bears on the requests, the exchange and the account.    *)
Looks ==
  /\ ReadsOn
  /\ UNCHANGED <<account, who, next_id, requests, live, wire, ready, stale, slipped>>

FlowStep ==
  \/ UNCHANGED flow
  \/ ExchangeStep
  \/ wire # <<>> /\ Apply(Head(wire))
  \/ Looks
  \/ \E batch, late : Pass(batch, late)

\* A thread of the insider only reads.
LEMMA InsiderLooks ==
  ASSUME FlowTyped, NEW t \in Threads,
         \/ ReadFirst(t) \/ CopyOrders(t) \/ \E side \in TwoSides : CheckQuote(t, side)
  PROVE  Looks
<1>1. UNCHANGED <<account, who, next_id, requests, live, wire, ready, stale, slipped>>
  BY DEF ReadFirst, CopyOrders, CheckQuote
<1>2. ReadsOn
  BY Goes1 DEF ReadFirst, CopyOrders, CheckQuote
<1> QED
  BY <1>1, <1>2 DEF Looks

\* get_position only reads.
LEMMA PositionLooks ==
  ASSUME FlowTyped, ReadPosition PROVE Looks
<1>1. /\ read' = [read EXCEPT ![Timer] = [Idle EXCEPT !.at = "reading", !.pos = Position]]
      /\ UNCHANGED <<account, who, next_id, requests, live, wire, ready, stale, slipped>>
  BY DEF ReadPosition
<1>2. [Idle EXCEPT !.at = "reading", !.pos = Position] \in Reading
  BY IdleIs, PositionIs DEF Reading, Stages
<1> QED
  BY <1>1, <1>2, TimerIs, ReadsOne DEF Looks

\* Every step of every agent is one of the five.
LEMMA StepIs ==
  ASSUME FlowTyped, [Next]_vars PROVE FlowStep
<1>1. CASE ExchangeStep \/ UNCHANGED vars
  BY <1>1 DEF FlowStep, vars
<1>2. CASE OnResponse
  <2>1. (wire # <<>> /\ Apply(Head(wire))) \/ UNCHANGED flow
    BY <1>2 DEF OnResponse, OnMakerResponse, OnNoiseResponse, OnMonitorResponse, Handle
  <2> QED
    BY <2>1 DEF FlowStep
<1>3. CASE MakerPass
  BY <1>3, NativePass, QuotesPass, ProtectionPass DEF MakerPass, FlowStep
<1>4. ASSUME NEW t \in Threads, InsiderStep(t) PROVE FlowStep
  <2>1. CASE Snipe(t) \/ MoveOrder(t)
    BY <2>1, SnipePass, MovePass DEF FlowStep
  <2>2. ASSUME NEW side \in TwoSides, SendQuote(t, side) PROVE FlowStep
    BY <2>2, QuotePass DEF FlowStep
  <2>3. CASE ReadFirst(t) \/ CopyOrders(t) \/ \E side \in TwoSides : CheckQuote(t, side)
    BY <2>3, InsiderLooks DEF FlowStep
  <2> QED
    BY <1>4, <2>1, <2>2, <2>3 DEF InsiderStep
<1>5. CASE InsiderPass
  BY <1>4, <1>5 DEF InsiderPass
<1>6. CASE NoisePass
  BY <1>6, TickPass, PositionLooks DEF NoisePass, FlowStep
<1>7. CASE MonitorPass
  <2>1. CASE OnMonitorTimer
    BY <2>1 DEF OnMonitorTimer, DisplayCash, DisplayPositions, DisplayOrders, LowerFlag, FlowStep
  <2>2. CASE SomebodySends
    BY <2>2, SomebodyPass DEF FlowStep
  <2> QED
    BY <1>7, <2>1, <2>2 DEF MonitorPass
<1> QED
  BY <1>1, <1>2, <1>3, <1>5, <1>6, <1>7 DEF Next

-----------------------------------------------------------------------------
(* The ids that send_order_request gives to the new orders of a pass.        *)
NewBefore(batch, n) == {j \in 1..n : IsNew(batch[j])}

\* A new order of a batch has fewer new ones before it than there are.
LEMMA NewsAre ==
  ASSUME NEW batch, NEW n \in Nat, NEW i \in 1..n, IsNew(batch[i])
  PROVE  /\ Cardinality(NewBefore(batch, i - 1)) \in Nat /\ Cardinality(NewBefore(batch, n)) \in Nat
         /\ Cardinality(NewBefore(batch, i - 1)) < Cardinality(NewBefore(batch, n))
<1>1. PICK A, B : A = NewBefore(batch, i - 1) /\ B = NewBefore(batch, n)
  OBVIOUS
<1>2. IsFiniteSet(1..(i - 1)) /\ IsFiniteSet(1..n)
  <2>1. i - 1 \in Int /\ n \in Int /\ 1 \in Int
    OBVIOUS
  <2> QED
    BY <2>1, FS_Interval
<1>3. IsFiniteSet(A) /\ IsFiniteSet(B)
  BY <1>1, <1>2, FS_Subset DEF NewBefore
<1>4. i \notin A /\ A \cup {i} \subseteq B
  BY <1>1 DEF NewBefore
<1>5. Cardinality(A \cup {i}) = Cardinality(A) + 1
  BY <1>3, <1>4, FS_AddElement
<1>6. Cardinality(A \cup {i}) <= Cardinality(B)
  BY <1>3, <1>4, FS_Subset
<1>7. Cardinality(A) \in Nat /\ Cardinality(B) \in Nat
  BY <1>3, FS_CardinalityType
<1> QED
  BY <1>1, <1>5, <1>6, <1>7

\* A request is a draft, but for the id of a new one.
Likeness(r, d) ==
  /\ r \in Draft /\ r.action = d.action /\ r.side = d.side /\ r.q = d.q
  /\ ~IsNew(d) => r = d

\* What send_order_request makes of a batch: new orders named apart, the others as they were.
LEMMA NumberedIs ==
  ASSUME NEW batch \in Seq(Draft), NEW b, b = Numbered(batch), NEW total, next_id \in Nat,
         total = Cardinality({i \in DOMAIN batch : IsNew(batch[i])})
  PROVE  /\ b \in Seq(Draft) /\ Len(b) = Len(batch) /\ total \in Nat
         /\ \A i \in 1..Len(batch) : Likeness(b[i], batch[i])
         /\ \A i \in 1..Len(batch) : IsNew(batch[i]) =>
              b[i].id \in Nat /\ next_id <= b[i].id /\ b[i].id < next_id + total
         /\ \A i, j \in 1..Len(batch) :
              IsNew(batch[i]) /\ IsNew(batch[j]) /\ b[i].id = b[j].id => i = j
<1>1. PICK n : n = Len(batch)
  OBVIOUS
<1>2. n \in Nat /\ DOMAIN batch = 1..n /\ \A i \in 1..n : batch[i] \in Draft
  BY <1>1
<1>3. total = Cardinality(NewBefore(batch, n))
  BY <1>2 DEF NewBefore
<1>4. total \in Nat
  <2>1. IsFiniteSet(1..n)
    BY <1>2, FS_Interval
  <2>2. IsFiniteSet(NewBefore(batch, n))
    BY <2>1, FS_Subset DEF NewBefore
  <2> QED
    BY <1>3, <2>2, FS_CardinalityType
<1>5. PICK c : c = [i \in 1..n |-> Cardinality(NewBefore(batch, i - 1))]
  OBVIOUS
<1>6. ASSUME NEW i \in 1..n, IsNew(batch[i]) PROVE c[i] \in Nat /\ c[i] < total
  BY <1>2, <1>3, <1>5, <1>6, NewsAre
<1>7. ASSUME NEW i \in 1..n, NEW j \in 1..n, IsNew(batch[i]), IsNew(batch[j]), i < j
      PROVE  c[i] < c[j]
  <2>1. j - 1 \in Nat /\ i \in 1..(j - 1)
    BY <1>2, <1>7
  <2> QED
    BY <1>5, <1>7, <2>1, NewsAre
<1>8. /\ DOMAIN b = 1..n
      /\ \A i \in 1..n : b[i] = IF IsNew(batch[i]) THEN [batch[i] EXCEPT !.id = next_id + c[i]]
                                ELSE batch[i]
  BY <1>2, <1>5 DEF Numbered, NewBefore
<1>9. ASSUME NEW i \in 1..n
      PROVE  Likeness(b[i], batch[i]) /\ (IsNew(batch[i]) => b[i].id = next_id + c[i])
  <2>1. CASE IsNew(batch[i])
    <3>1. PICK d : d = batch[i]
      OBVIOUS
    <3>2. d \in Draft /\ IsNew(d) /\ c[i] \in Nat
      BY <1>2, <1>6, <2>1, <3>1
    <3>3. b[i] = [d EXCEPT !.id = next_id + c[i]]
      BY <1>8, <2>1, <3>1
    <3>4. /\ b[i] \in Draft /\ b[i].action = d.action /\ b[i].side = d.side /\ b[i].q = d.q
          /\ b[i].id = next_id + c[i]
      BY <3>2, <3>3 DEF Draft
    <3> QED
      BY <3>1, <3>2, <3>4 DEF Likeness
  <2>2. CASE ~IsNew(batch[i])
    BY <1>2, <1>8, <2>2 DEF Likeness
  <2> QED
    BY <2>1, <2>2
<1>10. b \in Seq(Draft) /\ Len(b) = n
  <2>1. \A i \in 1..n : b[i] \in Draft
    BY <1>9 DEF Likeness
  <2>2. b = [i \in 1..n |-> b[i]]
    <3>1. b = [i \in DOMAIN batch |-> b[i]]
      BY <1>8, <1>2 DEF Numbered
    <3> QED
      BY <1>2, <3>1
  <2> QED
    BY <1>2, <2>1, <2>2
<1>11. ASSUME NEW i \in 1..n, NEW j \in 1..n, IsNew(batch[i]), IsNew(batch[j]), b[i].id = b[j].id
       PROVE  i = j
  <2>1. c[i] = c[j]
    BY <1>6, <1>9, <1>11
  <2> QED
    BY <1>2, <1>6, <1>7, <1>11, <2>1
<1>12. ASSUME NEW i \in 1..n, IsNew(batch[i])
       PROVE  b[i].id \in Nat /\ next_id <= b[i].id /\ b[i].id < next_id + total
  BY <1>4, <1>6, <1>9, <1>12
<1> QED
  BY <1>1, <1>4, <1>9, <1>10, <1>11, <1>12

(* The requests after a pass: those before, and then those it sends.         *)
Added(batch, b) ==
  /\ b \in Seq(Sent) /\ Len(b) = Len(batch) /\ requests' = requests \o b
  /\ \A i \in 1..Len(batch) : Likeness(b[i], batch[i])
  /\ \A i \in 1..Len(batch) : IsNew(batch[i]) => next_id <= b[i].id /\ b[i].id < next_id'
  /\ \A i, j \in 1..Len(batch) :
       IsNew(batch[i]) /\ IsNew(batch[j]) /\ b[i].id = b[j].id => i = j

\* The ids that the assumptions provide.
LEMMA BoundsAre ==
  ASSUME FlowTyped
  PROVE  /\ MaxOrders[agent] \in Nat /\ 1..MaxOrders[agent] \subseteq Ids
         /\ next_id \in Nat /\ next_id >= 1
<1>1. MaxOrders[agent] \in Nat /\ 1..MaxOrders[agent] \subseteq Ids
  BY IdsAreNumbers DEF FlowTyped
<1>2. next_id \in 1..(MaxOrders[agent] + 1)
  BY DEF FlowTyped
<1> QED
  BY <1>1, <1>2

\* What a pass does to the requests, the ids and the history.
LEMMA PassAdds ==
  ASSUME FlowTyped, NEW batch, NEW late, Pass(batch, late)
  PROVE  /\ \E b : Added(batch, b)
         /\ next_id' \in 1..(MaxOrders[agent] + 1) /\ next_id <= next_id'
         /\ stale' \in Nat /\ (stale' = stale \/ stale' = stale + 1)
         /\ batch # <<>> /\ late => stale' = stale + 1
<1>1. PICK b, total : b = Numbered(batch) /\ total = Cardinality({i \in DOMAIN batch : IsNew(batch[i])})
  OBVIOUS
<1>2. /\ requests' = requests \o b /\ next_id' = next_id + total
      /\ stale' = IF batch # <<>> /\ late THEN stale + 1 ELSE stale
      /\ next_id' <= MaxOrders[agent] + 1
  BY <1>1 DEF Pass, Send
<1>3. batch \in Seq(Draft) /\ \A i \in 1..Len(batch) : ~IsNew(batch[i]) => batch[i].id \in Ids
  BY DEF Pass, Proper
<1>4. /\ next_id \in Nat /\ next_id >= 1
      /\ MaxOrders[agent] \in Nat /\ 1..MaxOrders[agent] \subseteq Ids
  BY BoundsAre
<1>5. /\ b \in Seq(Draft) /\ Len(b) = Len(batch) /\ total \in Nat
      /\ \A i \in 1..Len(batch) : Likeness(b[i], batch[i])
      /\ \A i \in 1..Len(batch) : IsNew(batch[i]) =>
           b[i].id \in Nat /\ next_id <= b[i].id /\ b[i].id < next_id + total
      /\ \A i, j \in 1..Len(batch) :
           IsNew(batch[i]) /\ IsNew(batch[j]) /\ b[i].id = b[j].id => i = j
  BY <1>1, <1>3, <1>4, NumberedIs
<1>6. next_id' \in 1..(MaxOrders[agent] + 1) /\ next_id <= next_id'
  BY <1>2, <1>4, <1>5
<1>7. \A i \in 1..Len(b) : b[i] \in Sent
  <2>1. ASSUME NEW i \in 1..Len(b) PROVE b[i] \in Sent
    <3>1. b[i] \in Draft
      BY <1>5 DEF Likeness
    <3>2. CASE IsNew(batch[i])
      <4>1. b[i].id \in 1..MaxOrders[agent]
        BY <1>2, <1>4, <1>5, <1>6, <3>2
      <4> QED
        BY <1>4, <3>1, <4>1 DEF Sent
    <3>3. CASE ~IsNew(batch[i])
      <4>1. b[i] = batch[i] /\ batch[i].id \in Ids
        BY <1>3, <1>5, <3>3 DEF Likeness
      <4> QED
        BY <3>1, <4>1 DEF Sent
    <3> QED
      BY <3>2, <3>3
  <2> QED
    BY <2>1
<1>8. b \in Seq(Sent)
  BY <1>5, <1>7
<1>9. Added(batch, b)
  BY <1>2, <1>5, <1>8 DEF Added
<1>10. stale \in Nat
  BY DEF FlowTyped
<1> QED
  BY <1>2, <1>6, <1>9, <1>10

\* A pass keeps the types.
LEMMA PassTyped ==
  ASSUME FlowTyped, NEW batch, NEW late, Pass(batch, late)
  PROVE  FlowTyped'
<1>1. PICK b : Added(batch, b)
  BY PassAdds
<1>2. requests \in Seq(Sent) /\ b \in Seq(Sent) /\ requests' = requests \o b
  BY <1>1 DEF Added, FlowTyped
<1>3. requests' \in Seq(Sent)
  BY <1>2
<1>4. next_id' \in 1..(MaxOrders[agent] + 1) /\ stale' \in Nat
  BY PassAdds
<1>5. UNCHANGED <<positions, open_orders, agent, legacy, live, wire, ready, slipped>>
  BY DEF Pass, account, who
<1>6. read' \in [Threads -> Reading]
  BY DEF Pass, ReadsOn
<1> QED
  BY <1>3, <1>4, <1>5, <1>6 DEF FlowTyped

(* What is not a request of a pass was there before it.                      *)
LEMMA AddedAre ==
  ASSUME FlowTyped, NEW batch, NEW b, Added(batch, b), NEW i \in 1..Len(requests')
  PROVE  \/ i \in 1..Len(requests) /\ requests'[i] = requests[i]
         \/ \E k \in 1..Len(batch) : i = Len(requests) + k /\ requests'[i] = b[k]
<1>1. /\ requests \in Seq(Sent) /\ b \in Seq(Sent) /\ Len(b) = Len(batch)
      /\ requests' = requests \o b
  BY DEF Added, FlowTyped
<1>2. CASE i \in 1..Len(requests)
  BY <1>1, <1>2
<1>3. CASE i \notin 1..Len(requests)
  <2>1. PICK k : k = i - Len(requests)
    OBVIOUS
  <2>2. k \in 1..Len(batch) /\ i = Len(requests) + k /\ requests'[i] = b[k]
    BY <1>1, <1>3, <2>1
  <2> QED
    BY <2>2
<1> QED
  BY <1>2, <1>3

-----------------------------------------------------------------------------
(* The exchange: what a message says became of the client's orders.          *)
Becomes(l, m, l2) ==
  /\ m.type \in Listing =>
       /\ DOMAIN l2 = DOMAIN l \cup {m.id} /\ l2[m.id].side = m.side
       /\ \A x \in DOMAIN l \ {m.id} : l2[x].side = l[x].side
  /\ m.type \in {"Fill", "Cancelled"} =>
       DOMAIN l2 = DOMAIN l \ {m.id} /\ \A x \in DOMAIN l2 : l2[x].side = l[x].side
  /\ m.type \notin Listing \cup {"Fill", "Cancelled"} =>
       DOMAIN l2 = DOMAIN l /\ \A x \in DOMAIN l : l2[x].side = l[x].side

LiveTyped ==
  /\ IsFiniteSet(DOMAIN live)
  /\ \A id \in DOMAIN live : id \in Ids /\ live[id] \in [side : TwoSides, q : Nat \ {0}]

Delivered ==
  \/ \E m \in Delivery : wire' = Append(wire, m) /\ Becomes(live, m, live')
  \/ \E m1, m2 \in Delivery : \E l1 :
       /\ wire' = Append(Append(wire, m1), m2)
       /\ Becomes(live, m1, l1) /\ Becomes(l1, m2, live')
  \/ \E m1, m2, m3 \in Delivery : \E l1, l2 :
       /\ wire' = Append(Append(Append(wire, m1), m2), m3)
       /\ Becomes(live, m1, l1) /\ Becomes(l1, m2, l2) /\ Becomes(l2, m3, live')

Outcome == LiveTyped' /\ Delivered

\* A response of the exchange.
LEMMA ResponseIs ==
  ASSUME NEW type \in ExecTypes, NEW id \in Ids, NEW side \in Sides, NEW q \in Nat,
         NEW m, m = Response(type, id, side, q)
  PROVE  /\ m \in OrderResponse /\ m.type = type /\ m.id = id /\ m.side = side /\ m.q = q
         /\ type # "Complete" /\ (type \in Listing => side \in TwoSides /\ q # 0) =>
              m \in Reply /\ m \in Delivery
<1>1. Symbol \in Symbols
  BY ClientAssumption DEF Symbol
<1>2. m = [type |-> type, id |-> id, symbol |-> Symbol, side |-> side, p |-> 0, q |-> q]
  BY DEF Response
<1>3. m \in OrderResponse /\ m.type = type /\ m.id = id /\ m.side = side /\ m.q = q
  BY <1>1, <1>2 DEF OrderResponse
<1> QED
  BY <1>3 DEF Reply, Delivery

\* The request that the exchange takes.
LEMMA HeadIs ==
  ASSUME FlowTyped, NEW r, requests # <<>>, r = Head(requests)
  PROVE  /\ r \in Sent /\ r.id \in Ids /\ r.side \in TwoSides /\ r.side \in Sides
         /\ r.q \in Nat /\ (r.action # "Cancel" => r.q # 0)
<1>1. requests \in Seq(Sent) /\ Len(requests) \in Nat
  BY DEF FlowTyped
<1>2. 1 \in 1..Len(requests) /\ r = requests[1]
  BY <1>1
<1>3. r \in Sent
  BY <1>1, <1>2
<1>4. /\ r.id \in Ids /\ r.side \in TwoSides /\ r.side \in Sides
      /\ r.q \in Nat /\ (r.action # "Cancel" => r.q # 0)
  BY <1>3 DEF Sent, Draft, TwoSides, Sides
<1> QED
  BY <1>3, <1>4

\* A limit order opens.
LEMMA LimitOutcome ==
  ASSUME FlowTyped, NEW r, requests # <<>>, r = Head(requests), AcceptLimit(r)
  PROVE  Outcome
<1>1. /\ r.id \in Ids /\ r.side \in TwoSides /\ r.side \in Sides /\ r.q \in Nat \ {0}
  BY HeadIs DEF AcceptLimit
<1>2. live' = [x \in DOMAIN live \cup {r.id} |-> IF x = r.id THEN [side |-> r.side, q |-> r.q] ELSE live[x]]
  BY DEF AcceptLimit, LiveWith
<1>3. PICK m : m = Response("New", r.id, r.side, r.q)
  OBVIOUS
<1>4. m \in Delivery /\ m.type = "New" /\ m.id = r.id /\ m.side = r.side
  BY <1>1, <1>3, ResponseIs DEF ExecTypes
<1>5. wire' = Append(wire, m)
  BY <1>3 DEF AcceptLimit, Answer, FlowTyped
<1>7. Becomes(live, m, live')
  BY <1>2, <1>4 DEF Becomes, Listing
<1>8. LiveTyped'
  <2>1. IsFiniteSet(DOMAIN live \cup {r.id})
    BY FS_AddElement DEF FlowTyped
  <2> QED
    BY <1>1, <1>2, <2>1 DEF LiveTyped, FlowTyped
<1> QED
  BY <1>4, <1>5, <1>7, <1>8 DEF Outcome, Delivered

\* A market order is announced, filled as far as it goes, and gone.
LEMMA MarketOutcome ==
  ASSUME FlowTyped, NEW r, requests # <<>>, r = Head(requests), NEW filled \in 0..r.q, ExecuteMarket(r, filled)
  PROVE  Outcome
<1>1. /\ r.id \in Ids /\ r.side \in TwoSides /\ r.side \in Sides /\ r.q \in Nat \ {0}
      /\ r.id \notin DOMAIN live
  BY HeadIs DEF ExecuteMarket
<1>2. PICK m, f, c, p, d :
        /\ m = Response("New", r.id, r.side, r.q) /\ f = Response("Fill", r.id, r.side, r.q)
        /\ c = Response("Cancelled", r.id, r.side, r.q)
        /\ p = Response("PartialFill", r.id, r.side, filled)
        /\ d = Response("Cancelled", r.id, r.side, r.q - filled)
  OBVIOUS
<1>3. /\ m \in Delivery /\ m.type = "New" /\ m.id = r.id /\ m.side = r.side
      /\ f \in Delivery /\ f.type = "Fill" /\ f.id = r.id
      /\ c \in Delivery /\ c.type = "Cancelled" /\ c.id = r.id
  <2>1. "New" \in ExecTypes /\ "Fill" \in ExecTypes /\ "Cancelled" \in ExecTypes
    BY DEF ExecTypes
  <2> QED
    BY <1>1, <1>2, <2>1, ResponseIs DEF Listing
<1>4. live' = live /\ wire' = wire \o (<<m>> \o (IF filled = r.q THEN <<f>> ELSE IF filled = 0 THEN <<c>> ELSE <<p, d>>))
  BY <1>2 DEF ExecuteMarket, Answer
<1>5. PICK l1 : l1 = [x \in DOMAIN live \cup {r.id} |-> IF x = r.id THEN [side |-> r.side] ELSE live[x]]
  OBVIOUS
<1>6. Becomes(live, m, l1)
  BY <1>1, <1>3, <1>5 DEF Becomes, Listing
<1>7. ASSUME NEW e, e.type = "Fill" \/ e.type = "Cancelled", e.id = r.id PROVE Becomes(l1, e, live')
  <2>1. DOMAIN live = DOMAIN l1 \ {r.id} /\ \A x \in DOMAIN live : live[x].side = l1[x].side
    BY <1>1, <1>5
  <2> QED
    BY <1>4, <1>7, <2>1 DEF Becomes, Listing
<1>9. LiveTyped'
  BY <1>4 DEF LiveTyped, FlowTyped
<1>10. wire \in Seq(Delivery)
  BY DEF FlowTyped
<1>11. CASE filled = r.q
  <2>1. wire' = Append(Append(wire, m), f)
    BY <1>3, <1>4, <1>10, <1>11
  <2> QED
    BY <1>3, <1>4, <1>6, <1>7, <1>9, <2>1 DEF Outcome, Delivered
<1>12. CASE filled # r.q /\ filled = 0
  <2>1. wire' = Append(Append(wire, m), c)
    BY <1>3, <1>4, <1>10, <1>12
  <2> QED
    BY <1>3, <1>4, <1>6, <1>7, <1>9, <2>1 DEF Outcome, Delivered
<1>13. CASE filled # r.q /\ filled # 0
  <2>1. /\ p \in Delivery /\ p.type = "PartialFill" /\ p.id = r.id /\ p.side = r.side
        /\ d \in Delivery /\ d.type = "Cancelled" /\ d.id = r.id
    <3>1. "PartialFill" \in ExecTypes /\ "Cancelled" \in ExecTypes
      BY DEF ExecTypes
    <3>2. filled \in Nat /\ filled # 0 /\ r.q - filled \in Nat
      BY <1>1, <1>13
    <3> QED
      BY <1>1, <1>2, <3>1, <3>2, ResponseIs DEF Listing
  <2>2. wire' = Append(Append(Append(wire, m), p), d)
    BY <1>3, <1>4, <1>10, <1>13, <2>1
  <2>3. Becomes(l1, p, l1)
    BY <1>1, <1>5, <2>1 DEF Becomes, Listing
  <2>5. Becomes(l1, d, live')
    BY <1>7, <2>1
  <2>6. Delivered
    BY <1>3, <1>6, <2>1, <2>2, <2>3, <2>5, Zenon DEF Delivered
  <2> QED
    BY <1>4, <1>9, <2>6 DEF Outcome
<1> QED
  BY <1>11, <1>12, <1>13

\* A change of an order, or its refusal.
LEMMA ChangeOutcome ==
  ASSUME FlowTyped, NEW r, requests # <<>>, r = Head(requests), Replace(r) \/ Withdraw(r) \/ Refuse(r)
  PROVE  Outcome
<1>1. /\ r.id \in Ids /\ r.side \in TwoSides /\ r.side \in Sides /\ r.q \in Nat
      /\ (r.action # "Cancel" => r.q # 0)
      /\ r.id \in DOMAIN live => live[r.id].side \in TwoSides /\ live[r.id].side \in Sides
  BY HeadIs DEF FlowTyped, TwoSides, Sides
<1>2. wire \in Seq(Delivery) /\ LiveTyped
  BY DEF FlowTyped, LiveTyped
<1>3. CASE Replace(r)
  <2>1. r.id \in DOMAIN live /\ live' = [live EXCEPT ![r.id].q = r.q] /\ r.q \in Nat \ {0}
    BY <1>1, <1>3 DEF Replace
  <2>2. PICK m : m = Response("Replaced", r.id, live[r.id].side, r.q)
    OBVIOUS
  <2>3. m \in Delivery /\ m.type = "Replaced" /\ m.id = r.id /\ m.side = live[r.id].side
    BY <1>1, <2>1, <2>2, ResponseIs DEF ExecTypes
  <2>4. wire' = Append(wire, m)
    BY <1>2, <1>3, <2>2, <2>3 DEF Replace, Answer
  <2>6. DOMAIN live' = DOMAIN live /\ \A x \in DOMAIN live : live'[x].side = live[x].side
    BY <1>2, <2>1 DEF LiveTyped
  <2>7. Becomes(live, m, live')
    BY <2>1, <2>3, <2>6 DEF Becomes, Listing
  <2>8. LiveTyped'
    BY <1>2, <2>1 DEF LiveTyped
  <2> QED
    BY <2>3, <2>4, <2>7, <2>8 DEF Outcome, Delivered
<1>4. CASE Withdraw(r)
  <2>1. r.id \in DOMAIN live /\ live' = [x \in DOMAIN live \ {r.id} |-> live[x]]
    BY <1>4 DEF Withdraw, LiveWithout
  <2>2. PICK m : m = Response("Cancelled", r.id, live[r.id].side, live[r.id].q)
    OBVIOUS
  <2>3. m \in Delivery /\ m.type = "Cancelled" /\ m.id = r.id
    <3>1. live[r.id].q \in Nat /\ "Cancelled" \in ExecTypes
      BY <1>2, <2>1 DEF LiveTyped, ExecTypes
    <3> QED
      BY <1>1, <2>1, <2>2, <3>1, ResponseIs DEF Listing
  <2>4. wire' = Append(wire, m)
    BY <1>2, <1>4, <2>2, <2>3 DEF Withdraw, Answer
  <2>5. Becomes(live, m, live')
    BY <2>1, <2>3 DEF Becomes, Listing
  <2>6. LiveTyped'
    <3>1. IsFiniteSet(DOMAIN live \ {r.id})
      BY <1>2, FS_RemoveElement DEF LiveTyped
    <3> QED
      BY <1>2, <2>1, <3>1 DEF LiveTyped
  <2> QED
    BY <2>3, <2>4, <2>5, <2>6 DEF Outcome, Delivered
<1>5. CASE Refuse(r)
  <2>1. PICK m : m = Response("Unknown", r.id, "None", 0)
    OBVIOUS
  <2>2. m \in Delivery /\ m.type = "Unknown" /\ m.id = r.id
    BY <1>1, <2>1, ResponseIs DEF Listing, ExecTypes, Sides
  <2>3. wire' = Append(wire, m) /\ live' = live
    BY <1>2, <1>5, <2>1, <2>2 DEF Refuse, Answer
  <2>4. Becomes(live, m, live')
    BY <2>2, <2>3 DEF Becomes, Listing
  <2>5. LiveTyped'
    BY <1>2, <2>3 DEF LiveTyped
  <2> QED
    BY <2>2, <2>3, <2>4, <2>5 DEF Outcome, Delivered
<1> QED
  BY <1>3, <1>4, <1>5

\* An order is filled, in part or in full.
LEMMA FillOutcome ==
  ASSUME FlowTyped, NEW id \in DOMAIN live, NEW q \in 1..live[id].q, Fill(id, q)
  PROVE  Outcome
<1>1. /\ id \in Ids /\ live[id].side \in TwoSides /\ live[id].side \in Sides
      /\ live[id].q \in Nat \ {0} /\ q \in Nat \ {0}
  BY DEF FlowTyped, TwoSides, Sides
<1>2. wire \in Seq(Delivery) /\ LiveTyped
  BY DEF FlowTyped, LiveTyped
<1>3. CASE q = live[id].q
  <2>1. live' = [x \in DOMAIN live \ {id} |-> live[x]]
    BY <1>3 DEF Fill, LiveWithout
  <2>2. PICK m : m = Response("Fill", id, live[id].side, q)
    OBVIOUS
  <2>3. m \in Delivery /\ m.type = "Fill" /\ m.id = id
    BY <1>1, <2>2, ResponseIs DEF ExecTypes
  <2>4. wire' = Append(wire, m)
    BY <1>2, <1>3, <2>2, <2>3 DEF Fill, Answer
  <2>5. Becomes(live, m, live')
    BY <2>1, <2>3 DEF Becomes, Listing
  <2>6. LiveTyped'
    <3>1. IsFiniteSet(DOMAIN live \ {id})
      BY <1>2, FS_RemoveElement DEF LiveTyped
    <3> QED
      BY <1>2, <2>1, <3>1 DEF LiveTyped
  <2> QED
    BY <2>3, <2>4, <2>5, <2>6 DEF Outcome, Delivered
<1>4. CASE q # live[id].q
  <2>1. live' = [live EXCEPT ![id].q = @ - q]
    BY <1>4 DEF Fill
  <2>2. PICK m : m = Response("PartialFill", id, live[id].side, q)
    OBVIOUS
  <2>3. m \in Delivery /\ m.type = "PartialFill" /\ m.id = id /\ m.side = live[id].side
    BY <1>1, <2>2, ResponseIs DEF ExecTypes
  <2>4. wire' = Append(wire, m)
    BY <1>2, <1>4, <2>2, <2>3 DEF Fill, Answer
  <2>5. DOMAIN live' = DOMAIN live /\ \A x \in DOMAIN live : live'[x].side = live[x].side
    BY <1>2, <2>1 DEF LiveTyped
  <2>6. Becomes(live, m, live')
    BY <2>3, <2>5 DEF Becomes, Listing
  <2>7. LiveTyped'
    <3>1. live[id].q - q \in Nat \ {0}
      BY <1>1, <1>4
    <3> QED
      BY <1>2, <2>1, <3>1 DEF LiveTyped
  <2> QED
    BY <2>3, <2>4, <2>6, <2>7 DEF Outcome, Delivered
<1> QED
  BY <1>3, <1>4

\* Every step of the exchange.
LEMMA ExchangeOutcome ==
  ASSUME FlowTyped, ExchangeStep
  PROVE  /\ Outcome
         /\ UNCHANGED <<account, who, next_id, ready, read, stale>> /\ slipped' \in BOOLEAN
         /\ requests' = requests \/ (requests # <<>> /\ requests' = Tail(requests))
<1>1. CASE TakeRequest
  <2>1. PICK r : r = Head(requests)
    OBVIOUS
  <2>2. requests # <<>> /\ requests' = Tail(requests)
    BY <1>1 DEF TakeRequest
  <2>3. \/ AcceptLimit(r) \/ \E filled \in 0..r.q : ExecuteMarket(r, filled)
        \/ Replace(r) \/ Withdraw(r) \/ Refuse(r)
    BY <1>1, <2>1 DEF TakeRequest
  <2>4. Outcome
    BY <2>1, <2>2, <2>3, LimitOutcome, MarketOutcome, ChangeOutcome
  <2> QED
    BY <1>1, <2>2, <2>4 DEF TakeRequest, FlowTyped
<1>2. ASSUME NEW id \in DOMAIN live, NEW q \in 1..live[id].q, Fill(id, q)
      PROVE  /\ Outcome
             /\ UNCHANGED <<account, who, next_id, ready, read, stale>> /\ slipped' \in BOOLEAN
             /\ requests' = requests
  BY <1>2, FillOutcome DEF Fill, FlowTyped
<1> QED
  BY <1>1, <1>2 DEF ExchangeStep

\* A sequence without its first element.
LEMMA TailAt ==
  ASSUME NEW R, NEW q \in Seq(R), q # <<>>, NEW s, s = Tail(q)
  PROVE  /\ s \in Seq(R) /\ Len(s) = Len(q) - 1 /\ Len(q) \in Nat /\ Len(s) \in Nat
         /\ \A i \in 1..Len(s) : i + 1 \in 1..Len(q) /\ s[i] = q[i + 1]
  OBVIOUS

\* What is left of the requests after a step of the exchange.
LEMMA RequestsLeft ==
  ASSUME FlowTyped, requests' = requests \/ (requests # <<>> /\ requests' = Tail(requests))
  PROVE  /\ requests' \in Seq(Sent)
         /\ \E d \in {0, 1} : /\ d = 1 => requests # <<>> /\ requests' = Tail(requests)
                              /\ \A i \in 1..Len(requests') :
                                   i + d \in 1..Len(requests) /\ requests'[i] = requests[i + d]
<1>1. requests \in Seq(Sent)
  BY DEF FlowTyped
<1>2. CASE requests' = requests
  <2>1. \A i \in 1..Len(requests') : i + 0 \in 1..Len(requests) /\ requests'[i] = requests[i + 0]
    BY <1>2
  <2> QED
    BY <1>1, <1>2, <2>1
<1>3. CASE requests # <<>> /\ requests' = Tail(requests)
  <2>1. /\ requests' \in Seq(Sent)
        /\ \A i \in 1..Len(requests') : i + 1 \in 1..Len(requests) /\ requests'[i] = requests[i + 1]
    BY <1>1, <1>3, TailAt
  <2> QED
    BY <1>3, <2>1
<1> QED
  BY <1>2, <1>3

\* What is on the wire after a step of the exchange.
LEMMA WireLeft ==
  ASSUME FlowTyped, Delivered PROVE wire' \in Seq(Delivery)
<1>1. wire \in Seq(Delivery)
  BY DEF FlowTyped
<1>2. \A w \in Seq(Delivery) : \A m \in Delivery : Append(w, m) \in Seq(Delivery)
  OBVIOUS
<1> QED
  BY <1>1, <1>2 DEF Delivered

\* The exchange keeps the types.
LEMMA ExchangeTyped ==
  ASSUME FlowTyped, ExchangeStep
  PROVE  FlowTyped'
<1>1. /\ Outcome
      /\ UNCHANGED <<account, who, next_id, ready, read, stale>> /\ slipped' \in BOOLEAN
      /\ requests' = requests \/ (requests # <<>> /\ requests' = Tail(requests))
  BY ExchangeOutcome
<1>2. requests' \in Seq(Sent)
  BY <1>1, RequestsLeft
<1>3. wire' \in Seq(Delivery) /\ LiveTyped'
  BY <1>1, WireLeft DEF Outcome
<1>4. UNCHANGED <<positions, open_orders, agent, legacy>>
  BY <1>1 DEF account, who
<1> QED
  BY <1>1, <1>2, <1>3, <1>4 DEF FlowTyped, LiveTyped

-----------------------------------------------------------------------------
(* The account lists what the exchange will have when the responses on their  *)
(* way are applied.                                                            *)
Lists(open, l) ==
  /\ open \in Seq(Open) /\ Unique(open)
  /\ \A i \in 1..Len(open) : open[i].id \in DOMAIN l /\ l[open[i].id].side = open[i].side
  /\ \A id \in DOMAIN l : \E i \in 1..Len(open) : open[i].id = id

StepInv == Lists(O!Fold(open_orders, wire), live)

\* The operators of the instance are those of the account.
LEMMA SameLists ==
  /\ \A open, id : O!Find(open, id) = Find(open, id) /\ O!Erase(open, id) = Erase(open, id)
  /\ \A open, r : O!Upsert(open, r) = Upsert(open, r)
  /\ \A open : O!Unique(open) <=> Unique(open)
  BY DEF O!Find, Find, O!Erase, Erase, O!Upsert, Upsert, O!Unique, Unique

\* What a message makes of the listed orders, by its type.
LEMMA OpenOrdersOnceIs ==
  ASSUME NEW open, NEW m
  PROVE  /\ m.type \in Listing => OpenOrdersOnce(open, m) = Upsert(open, m)
         /\ m.type \in {"Fill", "Cancelled"} => OpenOrdersOnce(open, m) = Erase(open, m.id)
         /\ m.type \notin Listing \cup {"Fill", "Cancelled"} => OpenOrdersOnce(open, m) = open
  BY DEF OpenOrdersOnce, OpenOrdersAfter, Listing

\* What a message makes of the positions, by its type.
LEMMA PositionsOnceIs ==
  ASSUME NEW pos, NEW m
  PROVE  /\ m.type = "Position" => PositionsOnce(pos, m) = [pos EXCEPT ![m.symbol] = m.position]
         /\ m.type \in {"PartialFill", "Fill"} => PositionsOnce(pos, m) = UpdatePositionAndCash(pos, m)
         /\ m.type \notin {"Position", "PartialFill", "Fill"} => PositionsOnce(pos, m) = pos
<1>1. CASE m.type = "Position"
  BY <1>1 DEF PositionsOnce
<1>2. CASE m.type = "Complete"
  BY <1>2 DEF PositionsOnce
<1>3. CASE m.type \notin {"Position", "Complete"}
  <2>1. PositionsOnce(pos, m) = PositionsAfter(pos, m)
    BY <1>3 DEF PositionsOnce
  <2> QED
    BY <1>3, <2>1 DEF PositionsAfter
<1> QED
  BY <1>1, <1>2, <1>3

\* What may be on its way to the agent.
LEMMA DeliveryIs ==
  ASSUME NEW m \in Delivery
  PROVE  /\ m.type \in Listing => m \in Open
         /\ m.type \in {"PartialFill", "Fill"} => m \in OrderResponse
         /\ m.type = "Position" => m.symbol \in Assets /\ m.position \in Int
<1>1. CASE m \in Reply
  BY <1>1 DEF Reply, Open, OrderResponse, ExecTypes
<1>2. CASE m \in Balances
  BY <1>2 DEF Balances, Listing
<1>3. CASE m = CompleteMsg
  BY <1>3 DEF CompleteMsg, Listing
<1> QED
  BY <1>1, <1>2, <1>3 DEF Delivery

\* What is listed after an upsert.
LEMMA UpsertIs ==
  ASSUME NEW open \in Seq(Open), NEW r \in Open, Unique(open), NEW s, s = Upsert(open, r)
  PROVE  O!Upserted(Open, open, r, s) /\ Unique(s)
<1>1. O!Unique(open) /\ s = O!Upsert(open, r)
  BY SameLists
<1>2. O!Upserted(Open, open, r, s)
  BY <1>1, O!UpsertIs
<1> QED
  BY <1>2, SameLists DEF O!Upserted

\* What is listed after an erase.
LEMMA EraseIs ==
  ASSUME NEW open \in Seq(Open), NEW id, Unique(open), NEW s, s = Erase(open, id)
  PROVE  O!Erased(Open, open, id, s) /\ Unique(s)
<1>1. O!Unique(open) /\ s = O!Erase(open, id)
  BY SameLists
<1>2. O!Erased(Open, open, id, s)
  BY <1>1, O!EraseIs
<1> QED
  BY <1>2, SameLists DEF O!Erased

(* One response, applied.                                                      *)
LEMMA ListsAfter ==
  ASSUME NEW open, NEW l, NEW m \in Delivery, NEW l2, Lists(open, l), Becomes(l, m, l2),
         NEW s, s = OpenOrdersOnce(open, m)
  PROVE  Lists(s, l2)
<1>1. /\ open \in Seq(Open) /\ Unique(open)
      /\ \A i \in 1..Len(open) : open[i].id \in DOMAIN l /\ l[open[i].id].side = open[i].side
      /\ \A id \in DOMAIN l : \E i \in 1..Len(open) : open[i].id = id
  BY DEF Lists
<1>2. CASE m.type \in Listing
  <2>1. m \in Open /\ s = Upsert(open, m)
    BY <1>2, OpenOrdersOnceIs, DeliveryIs
  <2>2. /\ s \in Seq(Open) /\ Unique(s)
        /\ \A i \in 1 .. Len(s) : s[i] = m \/ \E j \in 1 .. Len(open) : s[i] = open[j]
        /\ \E i \in 1 .. Len(s) : s[i] = m
        /\ \A j \in 1 .. Len(open) : open[j].id # m.id => \E i \in 1 .. Len(s) : s[i] = open[j]
    <3>1. O!Upserted(Open, open, m, s) /\ Unique(s)
      BY <1>1, <2>1, UpsertIs
    <3> QED
      BY <3>1 DEF O!Upserted
  <2>3. /\ DOMAIN l2 = DOMAIN l \cup {m.id} /\ l2[m.id].side = m.side
        /\ \A x \in DOMAIN l \ {m.id} : l2[x].side = l[x].side
    BY <1>2 DEF Becomes
  <2>4. ASSUME NEW i \in 1..Len(s) PROVE s[i].id \in DOMAIN l2 /\ l2[s[i].id].side = s[i].side
    <3>1. CASE s[i] = m
      BY <2>3, <3>1
    <3>2. CASE s[i] # m
      <4>1. PICK j \in 1..Len(open) : s[i] = open[j]
        BY <2>2, <3>2
      <4>2. PICK k \in 1..Len(s) : s[k] = m
        BY <2>2
      <4>3. s[i].id # m.id
        BY <2>2, <3>2, <4>2 DEF Unique
      <4>4. open[j].id \in DOMAIN l \ {m.id} /\ l[open[j].id].side = open[j].side
        BY <1>1, <4>1, <4>3
      <4> QED
        BY <2>3, <4>1, <4>4
    <3> QED
      BY <3>1, <3>2
  <2>5. ASSUME NEW id \in DOMAIN l2 PROVE \E i \in 1..Len(s) : s[i].id = id
    <3>1. CASE id = m.id
      BY <2>2, <3>1
    <3>2. CASE id # m.id
      <4>1. PICK j \in 1..Len(open) : open[j].id = id
        BY <1>1, <2>3, <3>2
      <4> QED
        BY <2>2, <3>2, <4>1
    <3> QED
      BY <3>1, <3>2
  <2> QED
    BY <2>2, <2>4, <2>5 DEF Lists
<1>3. CASE m.type \in {"Fill", "Cancelled"}
  <2>1. s = Erase(open, m.id)
    BY <1>3, OpenOrdersOnceIs
  <2>2. /\ s \in Seq(Open) /\ Unique(s)
        /\ \A i \in 1 .. Len(s) : \E j \in 1 .. Len(open) : s[i] = open[j] /\ open[j].id # m.id
        /\ \A j \in 1 .. Len(open) : open[j].id # m.id => \E i \in 1 .. Len(s) : s[i] = open[j]
    <3>1. O!Erased(Open, open, m.id, s) /\ Unique(s)
      BY <1>1, <2>1, EraseIs
    <3> QED
      BY <3>1 DEF O!Erased
  <2>3. DOMAIN l2 = DOMAIN l \ {m.id} /\ \A x \in DOMAIN l2 : l2[x].side = l[x].side
    BY <1>3 DEF Becomes
  <2>4. ASSUME NEW i \in 1..Len(s) PROVE s[i].id \in DOMAIN l2 /\ l2[s[i].id].side = s[i].side
    <3>1. PICK j \in 1..Len(open) : s[i] = open[j] /\ open[j].id # m.id
      BY <2>2
    <3>2. open[j].id \in DOMAIN l \ {m.id} /\ l[open[j].id].side = open[j].side
      BY <1>1, <3>1
    <3> QED
      BY <2>3, <3>1, <3>2
  <2>5. ASSUME NEW id \in DOMAIN l2 PROVE \E i \in 1..Len(s) : s[i].id = id
    <3>1. PICK j \in 1..Len(open) : open[j].id = id
      BY <1>1, <2>3
    <3> QED
      BY <2>2, <2>3, <3>1
  <2> QED
    BY <2>2, <2>4, <2>5 DEF Lists
<1>4. CASE m.type \notin Listing \cup {"Fill", "Cancelled"}
  <2>1. s = open /\ DOMAIN l2 = DOMAIN l /\ \A x \in DOMAIN l : l2[x].side = l[x].side
    BY <1>4, OpenOrdersOnceIs DEF Becomes
  <2> QED
    BY <1>1, <2>1 DEF Lists
<1> QED
  BY <1>2, <1>3, <1>4

(* One response, put on the wire.                                              *)
LEMMA ListsAppend ==
  ASSUME NEW open, NEW w \in Seq(Delivery), NEW l, Lists(O!Fold(open, w), l),
         NEW m \in Delivery, NEW l2, Becomes(l, m, l2), NEW v, v = Append(w, m)
  PROVE  v \in Seq(Delivery) /\ Lists(O!Fold(open, v), l2)
<1>1. O!Fold(open, v) = OpenOrdersOnce(O!Fold(open, w), m)
  BY O!FoldAppend
<1>2. Lists(O!Fold(open, v), l2)
  BY <1>1, ListsAfter
<1> QED
  BY <1>2, AppendIs

\* The exchange keeps the account in step.
LEMMA ExchangeStepInv ==
  ASSUME FlowTyped, StepInv, ExchangeStep
  PROVE  StepInv'
<1>1. Delivered /\ UNCHANGED open_orders /\ wire \in Seq(Delivery)
  BY ExchangeOutcome DEF Outcome, account, FlowTyped
<1>2. Lists(O!Fold(open_orders, wire), live)
  BY DEF StepInv
<1>3. Lists(O!Fold(open_orders, wire'), live')
  <2>1. ASSUME NEW m \in Delivery, wire' = Append(wire, m), Becomes(live, m, live')
        PROVE  Lists(O!Fold(open_orders, wire'), live')
    BY <1>1, <1>2, <2>1, ListsAppend
  <2>2. ASSUME NEW m1 \in Delivery, NEW m2 \in Delivery, NEW l1,
               wire' = Append(Append(wire, m1), m2), Becomes(live, m1, l1), Becomes(l1, m2, live')
        PROVE  Lists(O!Fold(open_orders, wire'), live')
    <3>1. PICK w : w = Append(wire, m1)
      OBVIOUS
    <3>2. w \in Seq(Delivery) /\ Lists(O!Fold(open_orders, w), l1)
      BY <1>1, <1>2, <2>2, <3>1, ListsAppend
    <3> QED
      BY <2>2, <3>1, <3>2, ListsAppend
  <2>3. ASSUME NEW m1 \in Delivery, NEW m2 \in Delivery, NEW m3 \in Delivery, NEW l1, NEW l2,
               wire' = Append(Append(Append(wire, m1), m2), m3),
               Becomes(live, m1, l1), Becomes(l1, m2, l2), Becomes(l2, m3, live')
        PROVE  Lists(O!Fold(open_orders, wire'), live')
    <3>1. PICK w, v : w = Append(wire, m1) /\ v = Append(w, m2)
      OBVIOUS
    <3>2. w \in Seq(Delivery) /\ Lists(O!Fold(open_orders, w), l1)
      BY <1>1, <1>2, <2>3, <3>1, ListsAppend
    <3>3. v \in Seq(Delivery) /\ Lists(O!Fold(open_orders, v), l2)
      BY <2>3, <3>1, <3>2, ListsAppend
    <3> QED
      BY <2>3, <3>1, <3>3, ListsAppend
  <2> QED
    BY <1>1, <2>1, <2>2, <2>3 DEF Delivered
<1> QED
  BY <1>1, <1>3 DEF StepInv

-----------------------------------------------------------------------------
(* The agent: a response applied, or a read at the start of a pass.           *)
LEMMA UpdateTyped ==
  ASSUME NEW pos \in [Assets -> Int], NEW r \in OrderResponse
  PROVE  UpdatePositionAndCash(pos, r) \in [Assets -> Int]
<1>1. r.q \in Int /\ r.p \in Int /\ r.symbol \in Assets /\ Cash \in Assets
  BY DEF OrderResponse, Assets
<1>2. PICK b : b = Bought(r)
  OBVIOUS
<1>3. b \in Int
  BY <1>1, <1>2 DEF Bought
<1>4. PICK c : c = b * r.p
  OBVIOUS
<1>5. c \in Int
  BY <1>1, <1>3, <1>4
<1>6. [pos EXCEPT ![r.symbol] = @ + b, ![Cash] = @ - c] \in [Assets -> Int]
  BY <1>1, <1>3, <1>5
<1> QED
  BY <1>2, <1>4, <1>6 DEF UpdatePositionAndCash

\* The account after a message.
LEMMA AppliedIs ==
  ASSUME NEW pos \in [Assets -> Int], NEW open \in Seq(Open), Unique(open), NEW m \in Delivery
  PROVE  /\ PositionsOnce(pos, m) \in [Assets -> Int]
         /\ OpenOrdersOnce(open, m) \in Seq(Open) /\ Unique(OpenOrdersOnce(open, m))
<1>1. PositionsOnce(pos, m) \in [Assets -> Int]
  <2>1. CASE m.type = "Position"
    BY <2>1, DeliveryIs, PositionsOnceIs
  <2>2. CASE m.type \in {"PartialFill", "Fill"}
    BY <2>2, DeliveryIs, PositionsOnceIs, UpdateTyped
  <2>3. CASE m.type \notin {"Position", "PartialFill", "Fill"}
    BY <2>3, PositionsOnceIs
  <2> QED
    BY <2>1, <2>2, <2>3
<1>2. CASE m.type \in Listing
  <2>1. m \in Open /\ OpenOrdersOnce(open, m) = Upsert(open, m)
    BY <1>2, OpenOrdersOnceIs, DeliveryIs
  <2>2. O!Upserted(Open, open, m, Upsert(open, m)) /\ Unique(Upsert(open, m))
    BY <2>1, UpsertIs
  <2> QED
    BY <1>1, <2>1, <2>2 DEF O!Upserted
<1>3. CASE m.type \in {"Fill", "Cancelled"}
  <2>1. OpenOrdersOnce(open, m) = Erase(open, m.id)
    BY <1>3, OpenOrdersOnceIs
  <2>2. O!Erased(Open, open, m.id, Erase(open, m.id)) /\ Unique(Erase(open, m.id))
    BY EraseIs
  <2> QED
    BY <1>1, <2>1, <2>2 DEF O!Erased
<1>4. CASE m.type \notin Listing \cup {"Fill", "Cancelled"}
  BY <1>1, <1>4, OpenOrdersOnceIs
<1> QED
  BY <1>2, <1>3, <1>4

\* A message applied keeps the types.
LEMMA ApplyTyped ==
  ASSUME FlowTyped, wire # <<>>, Apply(Head(wire)) PROVE FlowTyped'
<1>1. PICK m : m = Head(wire)
  OBVIOUS
<1>2. /\ wire' = Tail(wire) /\ ready' = (ready \/ m.type = "Complete")
      /\ positions' = PositionsOnce(positions, m) /\ open_orders' = OpenOrdersOnce(open_orders, m)
      /\ UNCHANGED <<agent, legacy, next_id, requests, live, read, stale, slipped>>
  BY <1>1 DEF Apply, who
<1>3. wire \in Seq(Delivery)
  BY DEF FlowTyped
<1>4. m \in Delivery /\ wire' \in Seq(Delivery)
  BY <1>1, <1>2, <1>3
<1>5. /\ positions' \in [Assets -> Int]
      /\ open_orders' \in Seq(Open) /\ Unique(open_orders')
  BY <1>2, <1>4, AppliedIs DEF FlowTyped
<1>6. ready' \in BOOLEAN
  BY <1>2 DEF FlowTyped
<1> QED
  BY <1>2, <1>4, <1>5, <1>6 DEF FlowTyped

\* A response applied keeps the account in step: it was first on the wire.
LEMMA ApplyStepInv ==
  ASSUME FlowTyped, StepInv, wire # <<>>, Apply(Head(wire))
  PROVE  StepInv'
<1>1. PICK m : m = Head(wire)
  OBVIOUS
<1>2. wire' = Tail(wire) /\ open_orders' = OpenOrdersOnce(open_orders, m) /\ live' = live
  BY <1>1 DEF Apply
<1>3. O!Fold(open_orders, wire) = O!Fold(OpenOrdersOnce(open_orders, m), Tail(wire))
  BY <1>1, O!FoldTail DEF FlowTyped
<1> QED
  BY <1>2, <1>3 DEF StepInv

-----------------------------------------------------------------------------
(* The requests, the exchange and the account, for every agent.               *)
FlowInv == FlowTyped /\ StepInv

\* Every step keeps both.
LEMMA FlowSteps ==
  ASSUME FlowInv, FlowStep PROVE FlowInv'
<1>1. CASE UNCHANGED flow
  <2>1. UNCHANGED <<positions, open_orders, agent, legacy, next_id, requests, live, wire, ready, read, stale, slipped>>
    BY <1>1 DEF flow, account, who
  <2> QED
    BY <2>1 DEF FlowInv, FlowTyped, StepInv
<1>2. CASE ExchangeStep
  BY <1>2, ExchangeTyped, ExchangeStepInv DEF FlowInv
<1>3. CASE wire # <<>> /\ Apply(Head(wire))
  BY <1>3, ApplyTyped, ApplyStepInv DEF FlowInv
<1>4. CASE Looks
  <2>1. /\ UNCHANGED <<positions, open_orders, agent, legacy, next_id, requests, live, wire, ready, stale, slipped>>
        /\ read' \in [Threads -> Reading]
    BY <1>4 DEF Looks, ReadsOn, account, who
  <2> QED
    BY <2>1 DEF FlowInv, FlowTyped, StepInv
<1>5. ASSUME NEW batch, NEW late, Pass(batch, late) PROVE FlowInv'
  <2>1. UNCHANGED <<open_orders, wire, live>>
    BY <1>5 DEF Pass, account
  <2>2. StepInv'
    BY <2>1 DEF FlowInv, StepInv
  <2> QED
    BY <1>5, <2>2, PassTyped DEF FlowInv
<1> QED
  BY <1>1, <1>2, <1>3, <1>4, <1>5 DEF FlowStep

-----------------------------------------------------------------------------
(* SetToSeq lists every element of a finite set once.                        *)
LEMMA SetToSeqIs ==
  ASSUME NEW S, IsFiniteSet(S)
  PROVE  \E n \in Nat : /\ SetToSeq(S) \in [1..n -> S]
                        /\ \A i, j \in 1..n : SetToSeq(S)[i] = SetToSeq(S)[j] => i = j
                        /\ \A x \in S : \E i \in 1..n : SetToSeq(S)[i] = x
<1>1. PICK n : n = Cardinality(S)
  OBVIOUS
<1>2. n \in Nat /\ ExistsBijection(1..n, S)
  BY <1>1, FS_CardinalityType
<1>3. PICK f \in Bijection(1..n, S) : TRUE
  BY <1>2 DEF ExistsBijection
<1>4. f \in [1..n -> S] /\ IsInjective(f)
  BY <1>3 DEF Bijection, Injection
<1>5. PICK g : g = SetToSeq(S)
  OBVIOUS
<1>6. g \in [1..n -> S] /\ IsInjective(g)
  BY <1>1, <1>4, <1>5, Zenon DEF SetToSeq
<1>7. g \in Injection(1..n, S)
  BY <1>6 DEF Injection
<1>8. IsFiniteSet(1..n) /\ Cardinality(1..n) = n
  BY <1>2, FS_Interval
<1>9. g \in Surjection(1..n, S)
  BY <1>1, <1>7, <1>8, FS_Injection
<1>10. \A x \in S : \E i \in 1..n : g[i] = x
  BY <1>9 DEF Surjection
<1>11. \A i, j \in 1..n : g[i] = g[j] => i = j
  BY <1>6 DEF IsInjective
<1> QED
  BY <1>2, <1>5, <1>6, <1>10, <1>11

Status(l, id) == Response("OrderStatus", id, l.orders[id].side, l.orders[id].q)

(* The login replay: every order left, each once, every position, Complete.  *)
Replayed(l, w, n, k, ids, assets) ==
  /\ ids \in [1..n -> DOMAIN l.orders] /\ assets \in [1..k -> Assets]
  /\ \A i, j \in 1..n : ids[i] = ids[j] => i = j
  /\ \A id \in DOMAIN l.orders : \E i \in 1..n : ids[i] = id
  /\ \A a \in Assets : \E i \in 1..k : assets[i] = a
  /\ w \in Seq(Delivery) /\ Len(w) = n + k + 1
  /\ \A i \in 1..n : w[i] = Status(l, ids[i])
  /\ \A i \in 1..k : w[n + i] = PositionMsg(assets[i], l.positions[assets[i]])
  /\ w[n + k + 1] = CompleteMsg

\* What a process left.
LEMMA LegacyIs ==
  ASSUME agent \in AgentKinds, legacy \in Legacies[agent]
  PROVE  /\ IsFiniteSet(DOMAIN legacy.orders) /\ legacy.positions \in [Assets -> Int]
         /\ \A id \in DOMAIN legacy.orders :
              id \in Ids /\ legacy.orders[id] \in [side : TwoSides, q : Nat \ {0}]
  BY LegacyAssumption DEF TwoSides

\* The replayed state of an order.
LEMMA StatusIs ==
  ASSUME agent \in AgentKinds, legacy \in Legacies[agent], NEW id \in DOMAIN legacy.orders
  PROVE  /\ Status(legacy, id) \in Delivery /\ Status(legacy, id).type = "OrderStatus"
         /\ Status(legacy, id).id = id /\ Status(legacy, id).side = legacy.orders[id].side
<1>1. id \in Ids /\ legacy.orders[id].side \in TwoSides /\ legacy.orders[id].q \in Nat \ {0}
  BY LegacyIs
<1>2. legacy.orders[id].side \in Sides /\ "OrderStatus" \in ExecTypes
  BY <1>1 DEF TwoSides, Sides, ExecTypes
<1> QED
  BY <1>1, <1>2, ResponseIs DEF Status

\* The replay of what was left.
LEMMA ReplayIs ==
  ASSUME agent \in AgentKinds, legacy \in Legacies[agent]
  PROVE  \E n \in Nat, k \in Nat : \E ids, assets :
           Replayed(legacy, Replay(legacy), n, k, ids, assets)
<1>1. PICK l, ids, assets : l = legacy /\ ids = SetToSeq(DOMAIN l.orders) /\ assets = SetToSeq(Assets)
  OBVIOUS
<1>2. PICK n \in Nat : /\ ids \in [1..n -> DOMAIN l.orders]
                       /\ \A i, j \in 1..n : ids[i] = ids[j] => i = j
                       /\ \A id \in DOMAIN l.orders : \E i \in 1..n : ids[i] = id
  BY <1>1, LegacyIs, SetToSeqIs
<1>3. PICK k \in Nat : assets \in [1..k -> Assets] /\ \A a \in Assets : \E i \in 1..k : assets[i] = a
  <2>1. IsFiniteSet(Assets)
    BY ClientAssumption, FS_AddElement DEF Assets
  <2> QED
    BY <1>1, <2>1, SetToSeqIs
<1>4. PICK p, q, c : /\ p = [i \in 1..n |-> Status(l, ids[i])]
                     /\ q = [i \in 1..k |-> PositionMsg(assets[i], l.positions[assets[i]])]
                     /\ c = <<CompleteMsg>>
  OBVIOUS
<1>5. Replay(legacy) = p \o q \o c
  <2>1. DOMAIN ids = 1..n /\ DOMAIN assets = 1..k
    BY <1>2, <1>3
  <2>2. p = [i \in DOMAIN ids |-> Response("OrderStatus", ids[i], l.orders[ids[i]].side, l.orders[ids[i]].q)]
    BY <1>4, <2>1, Zenon DEF Status
  <2>3. q = [i \in DOMAIN assets |-> PositionMsg(assets[i], l.positions[assets[i]])]
    BY <1>4, <2>1, Zenon
  <2> QED
    BY <1>1, <1>4, <2>2, <2>3, Zenon DEF Replay, Each
<1>6. p \in Seq(Delivery) /\ Len(p) = n /\ \A i \in 1..n : p[i] = Status(l, ids[i])
  <2>1. \A i \in 1..n : Status(l, ids[i]) \in Delivery
    BY <1>1, <1>2, StatusIs
  <2>2. p \in [1..n -> Delivery]
    BY <1>4, <2>1
  <2> QED
    BY <1>4, <2>2
<1>7. /\ q \in Seq(Delivery) /\ Len(q) = k
      /\ \A i \in 1..k : q[i] = PositionMsg(assets[i], l.positions[assets[i]])
  <2>1. \A i \in 1..k : PositionMsg(assets[i], l.positions[assets[i]]) \in Delivery
    BY <1>1, <1>3, LegacyIs DEF PositionMsg, Delivery, Balances
  <2>2. q \in [1..k -> Delivery]
    BY <1>4, <2>1
  <2> QED
    BY <1>4, <2>2
<1>8. c \in Seq(Delivery) /\ Len(c) = 1 /\ c[1] = CompleteMsg
  BY <1>4 DEF Delivery
<1>9. PICK pq, w : pq = p \o q /\ w = pq \o c
  OBVIOUS
<1>10. /\ pq \in Seq(Delivery) /\ Len(pq) = n + k
       /\ \A i \in 1..n : i \in 1..Len(pq) /\ pq[i] = p[i]
       /\ \A i \in 1..k : n + i \in 1..Len(pq) /\ pq[n + i] = q[i]
  <2>1. p \in Seq(Delivery) /\ q \in Seq(Delivery) /\ pq = p \o q /\ Len(p) = n /\ Len(q) = k
    BY <1>6, <1>7, <1>9
  <2>2. /\ pq \in Seq(Delivery) /\ Len(pq) = Len(p) + Len(q)
        /\ \A i \in 1..Len(p) : i \in 1..Len(pq) /\ pq[i] = p[i]
        /\ \A i \in 1..Len(q) : Len(p) + i \in 1..Len(pq) /\ pq[Len(p) + i] = q[i]
    BY <2>1, ConcatAt
  <2> QED
    BY <2>1, <2>2, Zenon
<1>11. /\ w \in Seq(Delivery) /\ Len(w) = n + k + 1
       /\ \A i \in 1..Len(pq) : w[i] = pq[i]
       /\ w[n + k + 1] = CompleteMsg
  <2>1. pq \in Seq(Delivery) /\ c \in Seq(Delivery) /\ w = pq \o c
    BY <1>8, <1>9, <1>10
  <2>3. Len(pq) = n + k /\ 1 \in 1..Len(c) /\ Len(c) = 1
    BY <1>8, <1>10
  <2>2. /\ w \in Seq(Delivery) /\ Len(w) = Len(pq) + Len(c)
        /\ \A i \in 1..Len(pq) : w[i] = pq[i]
        /\ \A i \in 1..Len(c) : w[Len(pq) + i] = c[i]
    BY <2>1, ConcatAt
  <2> QED
    BY <1>8, <2>2, <2>3
<1>12. Replayed(l, w, n, k, ids, assets)
  <2>1. \A i \in 1..n : w[i] = Status(l, ids[i])
    BY <1>6, <1>10, <1>11, Zenon
  <2>2. \A i \in 1..k : w[n + i] = PositionMsg(assets[i], l.positions[assets[i]])
    BY <1>7, <1>10, <1>11, Zenon
  <2> QED
    BY <1>2, <1>3, <1>11, <2>1, <2>2, Zenon DEF Replayed
<1> QED
  BY <1>1, <1>5, <1>9, <1>12

(* The replay makes a list of the orders that were left.                     *)
LEMMA ReplayLists ==
  ASSUME agent \in AgentKinds, legacy \in Legacies[agent],
         NEW n \in Nat, NEW k \in Nat, NEW ids, NEW assets, NEW w,
         Replayed(legacy, w, n, k, ids, assets), NEW none, none = <<>>
  PROVE  Lists(O!Fold(none, w), legacy.orders)
<1>1. PICK l, N : l = legacy.orders /\ N = n + k + 1
  OBVIOUS
<1>2. /\ ids \in [1..n -> DOMAIN l] /\ N \in Nat /\ DOMAIN w = 1..N /\ Len(w) = N
      /\ \A i \in 1..N : w[i] \in Delivery
      /\ \A id \in DOMAIN l : \E i \in 1..n : ids[i] = id
  BY <1>1 DEF Replayed
<1>3. PICK G : G = [j \in 0..N |-> {ids[i] : i \in {x \in 1..n : x <= j}}]
  OBVIOUS
<1>4. PICK h : O!Leads(h, none, w, N)
  BY <1>2, O!FoldHas
<1>5. /\ h[0] = none /\ h[N] = O!Fold(none, w)
      /\ \A j \in 1..N : h[j] = OpenOrdersOnce(h[j - 1], w[j])
  BY <1>4 DEF O!Leads
<1>13. PICK L : L = [j \in 0..N |-> [id \in G[j] |-> l[id]]]
  OBVIOUS
<1>6. PICK T : T = {j \in Nat : j <= N => Lists(h[j], L[j])}
  OBVIOUS
<1>7. 0 \in T
  <2>1. 0 \in 0..N /\ {x \in 1..n : x <= 0} = {}
    BY <1>2
  <2>2. G[0] = {}
    BY <1>3, <2>1
  <2>3. none \in Seq(Open) /\ Unique(none) /\ Len(none) = 0
    BY DEF Unique
  <2>4. Lists(none, L[0])
    BY <1>13, <2>1, <2>2, <2>3 DEF Lists
  <2> QED
    BY <1>5, <1>6, <2>4
<1>8. ASSUME NEW j \in Nat, j \in T PROVE j + 1 \in T
  <2>1. ASSUME j + 1 <= N PROVE Lists(h[j + 1], L[j + 1])
    <3>1. /\ j \in 0..N /\ j + 1 \in 0..N /\ j + 1 \in 1..N /\ (j + 1) - 1 = j
      BY <1>2, <2>1
    <3>2. /\ G[j] = {ids[i] : i \in {x \in 1..n : x <= j}}
          /\ G[j + 1] = {ids[i] : i \in {x \in 1..n : x <= j + 1}}
      BY <1>3, <3>1
    <3>3. PICK a, b : a = L[j] /\ b = L[j + 1]
      OBVIOUS
    <3>7. a = [id \in G[j] |-> l[id]] /\ b = [id \in G[j + 1] |-> l[id]]
      BY <1>13, <3>1, <3>3
    <3>4. Lists(h[j], a)
      BY <1>2, <1>6, <1>8, <2>1, <3>3
    <3>5. h[j + 1] = OpenOrdersOnce(h[j], w[j + 1]) /\ w[j + 1] \in Delivery
      BY <1>2, <1>5, <3>1
    <3>6. Becomes(a, w[j + 1], b)
      <4>1. CASE j + 1 <= n
        <5>1. w[j + 1] = Status(legacy, ids[j + 1]) /\ ids[j + 1] \in DOMAIN legacy.orders
          BY <1>1, <1>2, <3>1, <4>1 DEF Replayed
        <5>2. w[j + 1].type = "OrderStatus" /\ w[j + 1].id = ids[j + 1] /\ w[j + 1].side = l[ids[j + 1]].side
          BY <1>1, <5>1, StatusIs
        <5>3. {x \in 1..n : x <= j + 1} = {x \in 1..n : x <= j} \cup {j + 1}
          BY <4>1
        <5>4. G[j + 1] = G[j] \cup {ids[j + 1]}
          BY <3>2, <5>3
        <5> QED
          BY <3>7, <5>2, <5>4 DEF Becomes, Listing
      <4>2. CASE ~(j + 1 <= n)
        <5>1. w[j + 1].type \in {"Position", "Complete"}
          <6>1. CASE j + 1 = N
            BY <1>1, <6>1 DEF Replayed, CompleteMsg
          <6>2. CASE j + 1 # N
            <7>1. PICK i \in 1..k : j + 1 = n + i
              <8>1. j + 1 - n \in 1..k /\ j + 1 = n + (j + 1 - n)
                BY <1>1, <2>1, <4>2, <6>2
              <8> QED
                BY <8>1
            <7>2. w[n + i] = PositionMsg(assets[i], legacy.positions[assets[i]])
              BY DEF Replayed
            <7> QED
              BY <7>1, <7>2 DEF PositionMsg
          <6> QED
            BY <6>1, <6>2
        <5>2. {x \in 1..n : x <= j + 1} = {x \in 1..n : x <= j}
          BY <4>2
        <5>3. a = b
          BY <3>2, <3>7, <5>2
        <5> QED
          BY <5>1, <5>3 DEF Becomes, Listing
      <4> QED
        BY <4>1, <4>2
    <3> QED
      BY <3>3, <3>4, <3>5, <3>6, ListsAfter
  <2> QED
    BY <1>6, <2>1
<1>9. Nat \subseteq T
  BY <1>7, <1>8, O!NatSetInduction
<1>10. Lists(h[N], L[N]) /\ L[N] = [id \in G[N] |-> l[id]]
  <2>1. N \in Nat /\ N \in 0..N /\ N <= N
    BY <1>2
  <2>2. N \in T
    BY <1>9, <2>1
  <2>3. Lists(h[N], L[N])
    BY <1>6, <2>1, <2>2, Zenon
  <2> QED
    BY <1>13, <2>1, <2>3
<1>11. G[N] = DOMAIN l
  <2>1. N \in 0..N /\ {x \in 1..n : x <= N} = 1..n
    BY <1>1, <1>2
  <2>2. G[N] = {ids[i] : i \in 1..n}
    BY <1>3, <2>1
  <2>3. ASSUME NEW id \in DOMAIN l PROVE id \in G[N]
    BY <1>2, <2>2
  <2>4. ASSUME NEW id \in G[N] PROVE id \in DOMAIN l
    BY <1>2, <2>2
  <2> QED
    BY <2>3, <2>4
<1>12. Lists(h[N], l)
  BY <1>10, <1>11 DEF Lists
<1> QED
  BY <1>1, <1>5, <1>12

(* A new process, whatever the one before left.                              *)
LEMMA FlowStart ==
  ASSUME FlowInit PROVE FlowInv
<1>1. /\ agent \in AgentKinds /\ legacy \in Legacies[agent]
      /\ positions = EmptyPositions /\ open_orders = <<>>
      /\ next_id = 1 /\ requests = <<>> /\ ready = FALSE
      /\ live = legacy.orders /\ wire = Replay(legacy)
      /\ read = [t \in Threads |-> Idle] /\ stale = 0 /\ slipped = FALSE
  BY DEF FlowInit, AccountInit
<1>2. PICK n \in Nat, k \in Nat : \E ids, assets : Replayed(legacy, wire, n, k, ids, assets)
  BY <1>1, ReplayIs
<1>10. PICK ids, assets : Replayed(legacy, wire, n, k, ids, assets)
  BY <1>2
<1>3. wire \in Seq(Delivery)
  BY <1>10 DEF Replayed
<1>4. StepInv
  BY <1>1, <1>10, ReplayLists DEF StepInv
<1>5. LiveTyped
  BY <1>1, LegacyIs DEF LiveTyped
<1>6. positions \in [Assets -> Int]
  BY <1>1 DEF EmptyPositions
<1>7. read \in [Threads -> Reading]
  BY <1>1, IdleIs
<1>8. open_orders \in Seq(Open) /\ Unique(open_orders) /\ requests \in Seq(Sent)
  BY <1>1 DEF Unique
<1>9. next_id \in 1..(MaxOrders[agent] + 1)
  BY <1>1, IdsAreNumbers
<1> QED
  BY <1>1, <1>3, <1>4, <1>5, <1>6, <1>7, <1>8, <1>9 DEF FlowInv, FlowTyped, LiveTyped

\* For every agent and every behaviour.
LEMMA FlowInductive == Spec => []FlowInv
<1>1. Init => FlowInv
  BY FlowStart DEF Init
<1>2. FlowInv /\ [Next]_vars => FlowInv'
  BY StepIs, FlowSteps DEF FlowInv
<1> QED
  BY <1>1, <1>2, PTL DEF Spec

\* The fold of OrderFlow's community module, and the one of the instance.
LEMMA MessagesAreFold ==
  ASSUME NEW open, NEW w
  PROVE  FoldLeft(OpenOrdersOnce, open, w) = O!Fold(open, w)
  BY Zenon DEF O!Fold, O!FoldLeft, O!MapThenFoldSet, O!Max, FoldLeft, MapThenFoldSet, Max

\* Being listed is having the same ids and sides.
LEMMA ListsAre ==
  ASSUME NEW open, NEW l, Lists(open, l)
  PROVE  {<<open[i].id, open[i].side>> : i \in DOMAIN open} = {<<id, l[id].side>> : id \in DOMAIN l}
<1>1. /\ DOMAIN open = 1..Len(open)
      /\ \A i \in 1..Len(open) : open[i].id \in DOMAIN l /\ l[open[i].id].side = open[i].side
      /\ \A id \in DOMAIN l : \E i \in 1..Len(open) : open[i].id = id
  BY DEF Lists
<1>2. PICK A, B : /\ A = {<<open[i].id, open[i].side>> : i \in DOMAIN open}
                  /\ B = {<<id, l[id].side>> : id \in DOMAIN l}
  OBVIOUS
<1>3. ASSUME NEW i \in 1..Len(open) PROVE <<open[i].id, open[i].side>> \in B
  BY <1>1, <1>2
<1>4. ASSUME NEW id \in DOMAIN l PROVE <<id, l[id].side>> \in A
  <2>1. PICK i \in 1..Len(open) : open[i].id = id
    BY <1>1
  <2>2. <<id, l[id].side>> = <<open[i].id, open[i].side>>
    BY <1>1, <2>1
  <2> QED
    BY <1>1, <1>2, <2>2
<1>5. A \subseteq B
  BY <1>1, <1>2, <1>3
<1>6. B \subseteq A
  BY <1>2, <1>4
<1> QED
  BY <1>2, <1>5, <1>6

(* Every agent, through fills, replacements, cancellations and refusals, and   *)
(* whatever is on its way: once the responses that have been sent are applied  *)
(* (on_order_response), the account lists exactly the client's orders at the   *)
(* exchange, each once and on its side.                                         *)
THEOREM AgentAccountFollows == Spec => []AccountFollows
<1>1. FlowInv => AccountFollows
  <2> SUFFICES ASSUME FlowInv PROVE AccountFollows
    OBVIOUS
  <2>1. PICK open : open = FoldLeft(OpenOrdersOnce, open_orders, wire)
    OBVIOUS
  <2>2. Lists(open, live)
    BY <2>1, MessagesAreFold DEF FlowInv, StepInv
  <2>3. Unique(open)
    BY <2>2 DEF Lists
  <2>4. {<<open[i].id, open[i].side>> : i \in DOMAIN open}
          = {<<id, live[id].side>> : id \in DOMAIN live}
    BY <2>2, ListsAre
  <2> QED
    BY <2>1, <2>3, <2>4, Zenon DEF AccountFollows
<1> QED
  BY <1>1, FlowInductive, PTL

-----------------------------------------------------------------------------
(* Types.  The variables of the single agents, besides those they share.      *)
OwnTyped ==
  /\ refills \in Nat
  /\ closing \in BOOLEAN /\ waiting \in BOOLEAN /\ doubled \in BOOLEAN
  /\ needs_display \in BOOLEAN /\ raising \in BOOLEAN /\ overtaken \in BOOLEAN
  /\ phase \in {"waiting", "cash shown", "positions shown", "shown"}
  /\ screen \in [cash : Int, positions : [Symbols -> Int], open_orders : Seq(OrderResponse)]

\* A sequence of a subset.
LEMMA SeqSub ==
  ASSUME NEW A, NEW B, A \subseteq B, NEW s \in Seq(A)
  PROVE  s \in Seq(B)
<1>1. Len(s) \in Nat /\ s \in [1..Len(s) -> B]
  <2>1. s \in [1..Len(s) -> A] /\ Len(s) \in Nat
    OBVIOUS
  <2>2. \A i \in 1..Len(s) : s[i] \in B
    BY <2>1
  <2> QED
    BY <2>1, <2>2
<1> QED
  BY <1>1

\* What the monitor shows.
LEMMA ShownIs ==
  ASSUME FlowTyped
  PROVE  /\ positions[Cash] \in Int /\ SymbolPositions \in [Symbols -> Int]
         /\ open_orders \in Seq(OrderResponse)
<1>1. positions \in [Assets -> Int] /\ open_orders \in Seq(Open)
  BY DEF FlowTyped
<1>2. Open \subseteq OrderResponse
  BY DEF Open
<1>3. SymbolPositions \in [Symbols -> Int]
  BY <1>1 DEF SymbolPositions, Assets
<1> QED
  BY <1>1, <1>2, <1>3, SeqSub DEF Assets

\* Every step keeps the types of the single agents' variables.
LEMMA OwnSteps ==
  ASSUME FlowTyped, OwnTyped, [Next]_vars PROVE OwnTyped'
<1>1. CASE UNCHANGED <<refills, bracket, monitor>>
  BY <1>1 DEF OwnTyped, bracket, monitor
<1>2. CASE OnNoiseResponse /\ UNCHANGED <<refills, monitor>>
  <2>1. waiting' \in BOOLEAN
    BY <1>2 DEF OnNoiseResponse
  <2> QED
    BY <1>2, <2>1 DEF OnNoiseResponse, OwnTyped, monitor
<1>3. CASE OnMonitorResponse /\ UNCHANGED <<refills, bracket>>
  <2>1. needs_display' \in BOOLEAN /\ raising' \in BOOLEAN /\ overtaken' \in BOOLEAN
    BY <1>3 DEF OnMonitorResponse, Handle, OwnTyped, Raises
  <2> QED
    BY <1>3, <2>1 DEF OnMonitorResponse, OwnTyped, bracket
<1>4. CASE InsiderPass
  <2>1. refills' \in Nat
    <3>1. refills \in Nat
      BY DEF OwnTyped
    <3>2. ASSUME NEW t \in Threads, MoveOrder(t) PROVE refills' \in Nat
      <4>1. PICK batch : /\ batch = <<>> \/ batch = <<MoveOf(t)>>
                         /\ refills' = refills + Len(batch)
        BY <3>2, MovePass, Zenon
      <4>2. Len(batch) \in Nat
        <5>1. Len(<<>>) = 0 /\ \A x : Len(<<x>>) = 1
          OBVIOUS
        <5> QED
          BY <4>1, <5>1
      <4> QED
        BY <3>1, <4>1, <4>2
    <3>3. ASSUME NEW t \in Threads, InsiderStep(t) PROVE MoveOrder(t) \/ refills' = refills
      BY <3>3 DEF InsiderStep, ReadFirst, Snipe, CopyOrders, CheckQuote, SendQuote
    <3> QED
      BY <1>4, <3>1, <3>2, <3>3 DEF InsiderPass
  <2> QED
    BY <1>4, <2>1 DEF InsiderPass, OwnTyped, bracket, monitor
<1>5. CASE NoisePass
  <2>1. closing' \in BOOLEAN /\ waiting' \in BOOLEAN /\ doubled' \in BOOLEAN
    <3>1. CASE ReadPosition
      BY <3>1 DEF ReadPosition, bracket, OwnTyped
    <3>2. CASE Tick
      <4>1. UNCHANGED doubled \/ \E b : doubled' = (doubled \/ b # <<>>)
        BY <3>2 DEF Tick
      <4>2. closing' \in {closing, TRUE, FALSE} /\ waiting' = FALSE
        BY <3>2 DEF Tick
      <4> QED
        BY <4>1, <4>2 DEF OwnTyped
    <3> QED
      BY <1>5, <3>1, <3>2 DEF NoisePass
  <2> QED
    BY <1>5, <2>1 DEF NoisePass, OwnTyped, monitor
<1>6. CASE OnMonitorTimer /\ UNCHANGED <<refills, bracket>>
  <2>1. needs_display' \in BOOLEAN /\ raising' \in BOOLEAN /\ overtaken' \in BOOLEAN
    BY <1>6 DEF OnMonitorTimer, DisplayCash, DisplayPositions, DisplayOrders, LowerFlag, OwnTyped
  <2>2. phase' \in {"waiting", "cash shown", "positions shown", "shown"}
    BY <1>6 DEF OnMonitorTimer, DisplayCash, DisplayPositions, DisplayOrders, LowerFlag
  <2>3. screen' \in [cash : Int, positions : [Symbols -> Int], open_orders : Seq(OrderResponse)]
    BY <1>6, ShownIs
       DEF OnMonitorTimer, DisplayCash, DisplayPositions, DisplayOrders, LowerFlag, OwnTyped
  <2> QED
    BY <1>6, <2>1, <2>2, <2>3 DEF OwnTyped, bracket
<1>7. UNCHANGED <<refills, bracket, monitor>> <=> UNCHANGED <<refills, bracket>> /\ UNCHANGED monitor
  OBVIOUS
<1>8. CASE (ExchangeStep /\ UNCHANGED <<refills, bracket, monitor>>) \/ MakerPass \/ UNCHANGED vars
  BY <1>1, <1>8 DEF MakerPass, vars
<1>9. CASE OnResponse
  BY <1>1, <1>2, <1>3, <1>9 DEF OnResponse, OnMakerResponse
<1>10. CASE MonitorPass
  <2>1. CASE SomebodySends
    BY <1>1, <1>10, <2>1 DEF MonitorPass, SomebodySends
  <2> QED
    BY <1>6, <1>10, <2>1 DEF MonitorPass
<1> QED
  BY <1>4, <1>5, <1>8, <1>9, <1>10 DEF Next

\* They have them in a new process.
LEMMA OwnStart ==
  ASSUME Init PROVE OwnTyped
<1>1. screen = Shown /\ FlowTyped
  BY FlowStart DEF Init, FlowInv
<1>2. screen \in [cash : Int, positions : [Symbols -> Int], open_orders : Seq(OrderResponse)]
  BY <1>1, ShownIs DEF Shown
<1> QED
  BY <1>2 DEF Init, OwnTyped

\* The types the proofs use are no weaker than those of the checked invariant.
LEMMA TypesAre ==
  ASSUME FlowTyped, OwnTyped PROVE TypeOK
<1>1. /\ Draft \subseteq [action : {"Limit", "Market", "Modify", "Cancel"},
                          id : Nat, side : TwoSides, q : Nat]
      /\ Sent \subseteq Draft /\ Copied \subseteq [id : Ids, side : Sides]
      /\ Delivery \subseteq OrderResponse \cup Balances \cup {CompleteMsg}
  BY DEF Draft, Sent, Reply, Delivery, Copied, TwoSides, Sides
<1>2. PICK W : W = [action : {"Limit", "Market", "Modify", "Cancel"},
                    id : Nat, side : TwoSides, q : Nat]
  OBVIOUS
<1>3. requests \in Seq(W)
  <2>1. requests \in Seq(Sent) /\ Sent \subseteq W
    BY <1>1, <1>2 DEF FlowTyped
  <2> QED
    BY <2>1, SeqSub
<1>4. wire \in Seq(OrderResponse \cup Balances \cup {CompleteMsg})
  <2>1. wire \in Seq(Delivery)
    BY DEF FlowTyped
  <2> QED
    BY <1>1, <2>1, SeqSub
<1>5. read \in [Threads -> [at : Stages, pos : Int, open : Seq([id : Ids, side : Sides]),
                           found : SUBSET Sides]]
  <2>1. ASSUME NEW r \in Reading
        PROVE  r \in [at : Stages, pos : Int, open : Seq([id : Ids, side : Sides]),
                      found : SUBSET Sides]
    <3>1. PICK S : S = [id : Ids, side : Sides]
      OBVIOUS
    <3>2. PICK C : C = Copied
      OBVIOUS
    <3>3. C \subseteq S /\ r.open \in Seq(C)
      BY <1>1, <3>1, <3>2 DEF Reading
    <3>4. r.open \in Seq(S)
      BY <3>3, SeqSub
    <3> QED
      BY <3>1, <3>4 DEF Reading
  <2>2. read \in [Threads -> Reading]
    BY DEF FlowTyped
  <2> QED
    BY <2>1, <2>2
<1>6. next_id \in Nat \ {0}
  BY BoundsAre DEF FlowTyped
<1>7. open_orders \in Seq(OrderResponse)
  BY ShownIs
<1>8. FlowTypeOK
  BY <1>2, <1>3, <1>4, <1>5, <1>6, <1>7 DEF FlowTyped, FlowTypeOK, AccountTypeOK, Balances
<1> QED
  BY <1>8 DEF OwnTyped, TypeOK

(* Every agent, for any account, ids, quantities and bounds: the variables    *)
(* have their types: a request has an order id, which send_order_request gives *)
(* to the new ones, an order is kept under an id of this client with a side    *)
(* and what is left of its quantity, and no thread is lost within a pass.      *)
THEOREM AgentsTypeCorrect == Spec => []TypeOK
<1>1. Init => FlowInv /\ OwnTyped
  BY FlowStart, OwnStart DEF Init
<1>2. (FlowInv /\ OwnTyped) /\ [Next]_vars => (FlowInv /\ OwnTyped)'
  BY StepIs, FlowSteps, OwnSteps DEF FlowInv
<1>3. FlowInv /\ OwnTyped => TypeOK
  BY TypesAre DEF FlowInv
<1> QED
  BY <1>1, <1>2, <1>3, PTL DEF Spec

-----------------------------------------------------------------------------
(* How many limit orders a maker has on a side, those on their way included.  *)
Load(s) == Cardinality(Standing(s)) + Count(requests, Limits(s))

\* What it means to have there, or what the process before left there.
Base(s) == Larger(Intended, Cardinality(LeftOn(s)))

Loaded == agent \in Makers => \A s \in TwoSides : Load(s) <= Base(s) + Intended * stale

\* An order is being cancelled when a request asks for it.
LEMMA CancelledIs ==
  ASSUME FlowTyped, NEW id
  PROVE  id \in BeingCancelled <=> Asks(requests, id)
<1>1. DOMAIN requests = 1..Len(requests)
  BY DEF FlowTyped
<1> QED
  BY <1>1 DEF BeingCancelled, Asks

\* What stands on a side.
LEMMA StandingIs ==
  ASSUME FlowTyped, NEW s, NEW S, S = Standing(s)
  PROVE  /\ \A id : id \in S <=> id \in DOMAIN live /\ live[id].side = s /\ ~Asks(requests, id)
         /\ IsFiniteSet(S) /\ Cardinality(S) \in Nat
<1>1. \A id : id \in S <=> id \in DOMAIN live /\ live[id].side = s /\ ~Asks(requests, id)
  BY CancelledIs DEF Standing
<1>2. S \in SUBSET DOMAIN live /\ IsFiniteSet(DOMAIN live)
  BY <1>1 DEF FlowTyped
<1> QED
  BY <1>1, <1>2, FS_Subset, FS_CardinalityType

\* The same after a step.
LEMMA StandingNext ==
  ASSUME requests' \in Seq(Sent), NEW s, NEW S, S = Standing(s)'
  PROVE  \A id : id \in S <=> id \in DOMAIN live' /\ live'[id].side = s /\ ~Asks(requests', id)
<1>1. DOMAIN requests' = 1..Len(requests')
  OBVIOUS
<1>2. \A id : id \in BeingCancelled' <=> Asks(requests', id)
  BY <1>1 DEF BeingCancelled, Asks
<1> QED
  BY <1>2 DEF Standing

\* The limit orders on their way, counted.
LEMMA PendingIs ==
  ASSUME FlowTyped, NEW s
  PROVE  /\ Cardinality(Pending("Limit", s)) = Count(requests, Limits(s))
         /\ Count(requests, Limits(s)) \in Nat
<1>1. requests \in Seq(Sent) /\ DOMAIN requests = 1..Len(requests)
  BY DEF FlowTyped
<1>2. \A i \in 1..Len(requests) :
        requests[i] \in Limits(s) <=> requests[i].action = "Limit" /\ requests[i].side = s
  BY <1>1 DEF Limits, Sent
<1>3. Pending("Limit", s) = Places(requests, Limits(s))
  BY <1>1, <1>2 DEF Pending, Places
<1>4. Count(requests, Limits(s)) \in Nat
  BY <1>1, CountIs
<1> QED
  BY <1>3, <1>4 DEF Count

\* Every maker intends at least one order a side.
LEMMA IntendedNat == Intended \in Nat \ {0}
  BY IntendedIs, NativeAssumption

\* A part of a finite set.
LEMMA SmallerCard ==
  ASSUME NEW A, NEW B, IsFiniteSet(B), A \subseteq B
  PROVE  IsFiniteSet(A) /\ Cardinality(A) \in Nat /\ Cardinality(B) \in Nat
         /\ Cardinality(A) <= Cardinality(B)
<1>1. A \in SUBSET B
  OBVIOUS
<1> QED
  BY <1>1, FS_Subset, FS_CardinalityType

\* What was left is finite, and the bound no smaller.
LEMMA BaseIs ==
  ASSUME FlowTyped, NEW s
  PROVE  /\ IsFiniteSet(LeftOn(s)) /\ Cardinality(LeftOn(s)) \in Nat
         /\ Base(s) \in Nat /\ Intended <= Base(s) /\ Cardinality(LeftOn(s)) <= Base(s)
<1>1. IsFiniteSet(DOMAIN legacy.orders)
  BY LegacyIs DEF FlowTyped
<1>2. LeftOn(s) \subseteq DOMAIN legacy.orders
  BY DEF LeftOn
<1>3. IsFiniteSet(LeftOn(s)) /\ Cardinality(LeftOn(s)) \in Nat
  BY <1>1, <1>2, SmallerCard
<1> QED
  BY <1>3, IntendedNat DEF Base, Larger

-----------------------------------------------------------------------------
(* The exchange adds nothing: an order that it opens was on its way.          *)
LEMMA TakenAre ==
  ASSUME FlowTyped, NEW r, r = Head(requests), requests # <<>>, requests' = Tail(requests)
  PROVE  /\ r \in Draft /\ requests' \in Seq(Sent)
         /\ \A id : Asks(requests, id) => Asks(requests', id) \/ (r.action = "Cancel" /\ r.id = id)
         /\ \A s : Count(requests, Limits(s)) =
                     Count(requests', Limits(s)) + (IF r \in Limits(s) THEN 1 ELSE 0)
<1>1. requests \in Seq(Sent) /\ requests' \in Seq(Sent) /\ Sent \subseteq Draft
  BY DEF FlowTyped, Sent
<1>2. r \in Draft /\ r = requests[1]
  BY <1>1
<1>3. ASSUME NEW id, Asks(requests, id)
      PROVE  Asks(requests', id) \/ (r.action = "Cancel" /\ r.id = id)
  <2>1. PICK i \in 1..Len(requests) : requests[i].action = "Cancel" /\ requests[i].id = id
    BY <1>3 DEF Asks
  <2>2. CASE i = 1
    BY <1>2, <2>1, <2>2
  <2>3. CASE i # 1
    <3>1. i - 1 \in 1..Len(requests') /\ requests'[i - 1] = requests[i]
      BY <1>1, <2>1, <2>3
    <3> QED
      BY <2>1, <3>1 DEF Asks
  <2> QED
    BY <2>2, <2>3
<1>4. \A s : Count(requests, Limits(s)) =
               Count(requests', Limits(s)) + (IF r \in Limits(s) THEN 1 ELSE 0)
  BY <1>1, CountTail, Zenon
<1> QED
  BY <1>1, <1>2, <1>3, <1>4

\* What becomes of the client's orders when the exchange takes a request.
Takes(r) ==
  \A id \in DOMAIN live' :
    \/ r.action = "Limit" /\ id = r.id /\ live'[id].side = r.side
    \/ id \in DOMAIN live /\ live'[id].side = live[id].side /\ (r.action = "Cancel" => id # r.id)

\* An order that the exchange opens was requested; one it withdraws is gone.
LEMMA RequestTakes ==
  ASSUME FlowTyped, TakeRequest, NEW r, r = Head(requests) PROVE Takes(r)
<1>2. CASE AcceptLimit(r)
  BY <1>2 DEF AcceptLimit, LiveWith, Takes
<1>3. CASE (\E filled \in 0..r.q : ExecuteMarket(r, filled)) \/ Refuse(r)
  <2>1. live' = live /\ (r.action = "Cancel" => r.id \notin DOMAIN live)
    BY <1>3 DEF ExecuteMarket, Refuse, IsNew
  <2> QED
    BY <2>1 DEF Takes
<1>4. CASE Replace(r)
  <2>1. live' = [live EXCEPT ![r.id].q = r.q] /\ r.action # "Cancel" /\ r.id \in DOMAIN live
    BY <1>4 DEF Replace
  <2>2. DOMAIN live' = DOMAIN live /\ \A id \in DOMAIN live : live'[id].side = live[id].side
    <3>1. live[r.id] \in [side : TwoSides, q : Nat \ {0}]
      BY <2>1 DEF FlowTyped
    <3> QED
      BY <2>1, <3>1
  <2> QED
    BY <2>1, <2>2 DEF Takes
<1>5. CASE Withdraw(r)
  BY <1>5 DEF Withdraw, LiveWithout, Takes
<1> QED
  BY <1>2, <1>3, <1>4, <1>5 DEF TakeRequest

\* A request taken: what opens was counted as on its way.
LEMMA TakeLoad ==
  ASSUME FlowTyped, TakeRequest, NEW s \in TwoSides
  PROVE  Load(s) \in Nat /\ Load(s)' \in Nat /\ Load(s)' <= Load(s)
<1>1. PICK r : r = Head(requests)
  OBVIOUS
<1>2. requests # <<>> /\ requests' = Tail(requests)
  BY DEF TakeRequest
<1>3. /\ r \in Draft
      /\ \A id : Asks(requests, id) => Asks(requests', id) \/ (r.action = "Cancel" /\ r.id = id)
      /\ Count(requests, Limits(s)) = Count(requests', Limits(s)) + (IF r \in Limits(s) THEN 1 ELSE 0)
  BY <1>1, <1>2, TakenAre
<1>4. PICK S, T : S = Standing(s) /\ T = Standing(s)'
  OBVIOUS
<1>5. /\ \A id : id \in S <=> id \in DOMAIN live /\ live[id].side = s /\ ~Asks(requests, id)
      /\ IsFiniteSet(S) /\ Cardinality(S) \in Nat
  BY <1>4, StandingIs
<1>6. \A id : id \in T <=> id \in DOMAIN live' /\ live'[id].side = s /\ ~Asks(requests', id)
  <2>1. requests' \in Seq(Sent)
    BY <1>1, <1>2, TakenAre
  <2> QED
    BY <1>4, <2>1, StandingNext
<1>7. PICK m, n : m = Count(requests, Limits(s)) /\ n = Count(requests', Limits(s))
  OBVIOUS
<1>8. m \in Nat /\ n \in Nat
  <2>1. requests' \in Seq(Sent)
    BY <1>1, <1>2, TakenAre
  <2> QED
    BY <1>7, <2>1, PendingIs, CountIs
<1>9. ASSUME NEW id \in T PROVE id \in S \/ (r \in Limits(s) /\ id = r.id)
  <2>1. CASE r.action = "Limit" /\ id = r.id /\ live'[id].side = r.side
    BY <1>3, <1>6, <2>1 DEF Limits
  <2>2. CASE id \in DOMAIN live /\ live'[id].side = live[id].side /\ (r.action = "Cancel" => id # r.id)
    BY <1>3, <1>5, <1>6, <2>2
  <2> QED
    BY <1>1, <1>6, <2>1, <2>2, RequestTakes DEF Takes
<1>10. CASE r \in Limits(s)
  <2>1. T \subseteq S \cup {r.id}
    BY <1>9
  <2>2. /\ IsFiniteSet(S \cup {r.id})
        /\ Cardinality(S \cup {r.id}) = IF r.id \in S THEN Cardinality(S) ELSE Cardinality(S) + 1
    BY <1>5, FS_AddElement, Zenon
  <2>3. /\ Cardinality(T) <= Cardinality(S \cup {r.id}) /\ Cardinality(S \cup {r.id}) \in Nat
        /\ Cardinality(T) \in Nat
    BY <2>1, <2>2, SmallerCard
  <2>4. m = n + 1
    BY <1>3, <1>7, <1>10
  <2> QED
    BY <1>4, <1>5, <1>6, <1>7, <1>8, <2>2, <2>3, <2>4 DEF Load
<1>11. CASE r \notin Limits(s)
  <2>1. T \subseteq S
    BY <1>9, <1>11
  <2>2. Cardinality(T) <= Cardinality(S) /\ Cardinality(T) \in Nat
    BY <1>5, <2>1, SmallerCard
  <2>3. m = n
    BY <1>3, <1>7, <1>8, <1>11
  <2> QED
    BY <1>4, <1>5, <1>6, <1>7, <1>8, <2>2, <2>3 DEF Load
<1> QED
  BY <1>10, <1>11

\* A fill: what stood may stand no longer.
LEMMA FillLoad ==
  ASSUME FlowTyped, NEW id \in DOMAIN live, NEW q \in 1..live[id].q, Fill(id, q),
         NEW s \in TwoSides
  PROVE  Load(s) \in Nat /\ Load(s)' \in Nat /\ Load(s)' <= Load(s)
<1>1. requests' = requests
  BY DEF Fill
<1>2. \A x \in DOMAIN live' : x \in DOMAIN live /\ live'[x].side = live[x].side
  <2>1. CASE q = live[id].q
    BY <2>1 DEF Fill, LiveWithout
  <2>2. CASE q # live[id].q
    <3>1. live' = [live EXCEPT ![id].q = @ - q]
      BY <2>2 DEF Fill
    <3>2. live[id] \in [side : TwoSides, q : Nat \ {0}]
      BY DEF FlowTyped
    <3> QED
      BY <3>1, <3>2
  <2> QED
    BY <2>1, <2>2
<1>3. PICK S, T : S = Standing(s) /\ T = Standing(s)'
  OBVIOUS
<1>4. /\ \A x : x \in S <=> x \in DOMAIN live /\ live[x].side = s /\ ~Asks(requests, x)
      /\ IsFiniteSet(S) /\ Cardinality(S) \in Nat
  BY <1>3, StandingIs
<1>5. \A x : x \in T <=> x \in DOMAIN live' /\ live'[x].side = s /\ ~Asks(requests', x)
  <2>1. requests' \in Seq(Sent)
    BY <1>1 DEF FlowTyped
  <2> QED
    BY <1>3, <2>1, StandingNext
<1>6. T \subseteq S
  BY <1>1, <1>2, <1>4, <1>5
<1>7. Cardinality(T) <= Cardinality(S) /\ Cardinality(T) \in Nat
  BY <1>4, <1>6, SmallerCard
<1>8. Count(requests, Limits(s)) \in Nat
  BY PendingIs
<1> QED
  BY <1>1, <1>3, <1>4, <1>7, <1>8 DEF Load

\* What a pass leaves standing.
LEMMA PassStands ==
  ASSUME FlowTyped, NEW batch, NEW late, Pass(batch, late), NEW b, Added(batch, b), NEW s,
         NEW S, NEW T, S = Standing(s), T = Standing(s)'
  PROVE  /\ T \subseteq S
         /\ \A id \in T : id \in DOMAIN live /\ live[id].side = s /\ ~Asks(batch, id)
<1>1. /\ batch \in Seq(Draft) /\ b \in Seq(Sent) /\ Len(b) = Len(batch)
      /\ requests \in Seq(Sent) /\ requests' = requests \o b /\ live' = live
      /\ \A i \in 1..Len(batch) : Likeness(b[i], batch[i])
  BY DEF Added, Pass, Proper, FlowTyped
<1>2. /\ requests' \in Seq(Sent)
      /\ \A i \in 1..Len(requests) : i \in 1..Len(requests') /\ requests'[i] = requests[i]
      /\ \A i \in 1..Len(b) : Len(requests) + i \in 1..Len(requests') /\ requests'[Len(requests) + i] = b[i]
  BY <1>1, ConcatAt
<1>3. ASSUME NEW id, Asks(requests, id) PROVE Asks(requests', id)
  BY <1>2, <1>3 DEF Asks
<1>4. ASSUME NEW id, Asks(batch, id) PROVE Asks(requests', id)
  <2>1. PICK i \in 1..Len(batch) : batch[i].action = "Cancel" /\ batch[i].id = id
    BY <1>4 DEF Asks
  <2>2. b[i] = batch[i]
    BY <1>1, <2>1 DEF Likeness, IsNew
  <2>3. Len(requests) + i \in 1..Len(requests') /\ requests'[Len(requests) + i] = b[i]
    BY <1>1, <1>2
  <2> QED
    BY <2>1, <2>2, <2>3 DEF Asks
<1>5. \A id : id \in S <=> id \in DOMAIN live /\ live[id].side = s /\ ~Asks(requests, id)
  BY StandingIs
<1>6. \A id : id \in T <=> id \in DOMAIN live' /\ live'[id].side = s /\ ~Asks(requests', id)
  BY <1>2, StandingNext
<1> QED
  BY <1>1, <1>3, <1>4, <1>5, <1>6

\* How many limit orders it sends.
LEMMA PassSends ==
  ASSUME FlowTyped, NEW batch, NEW late, Pass(batch, late), NEW b, Added(batch, b), NEW s
  PROVE  /\ Count(requests', Limits(s)) = Count(requests, Limits(s)) + Count(batch, Limits(s))
         /\ Count(requests, Limits(s)) \in Nat /\ Count(batch, Limits(s)) \in Nat
<1>1. /\ batch \in Seq(Draft) /\ b \in Seq(Sent) /\ Len(b) = Len(batch)
      /\ requests \in Seq(Sent) /\ requests' = requests \o b
      /\ \A i \in 1..Len(batch) : Likeness(b[i], batch[i])
  BY DEF Added, Pass, Proper, FlowTyped
<1>2. Count(requests', Limits(s)) = Count(requests, Limits(s)) + Count(b, Limits(s))
  BY <1>1, CountConcat, Zenon
<1>3. \A i \in 1..Len(batch) : b[i] \in Limits(s) <=> batch[i] \in Limits(s)
  <2>1. \A i \in 1..Len(batch) : b[i] \in Draft /\ batch[i] \in Draft
    BY <1>1 DEF Likeness
  <2> QED
    BY <1>1, <2>1 DEF Likeness, Limits
<1>4. Count(b, Limits(s)) = Count(batch, Limits(s))
  BY <1>1, <1>3, CountSame
<1> QED
  BY <1>1, <1>2, <1>4, CountIs

(* On an account in step with the exchange, what stands on a side after a     *)
(* pass is listed, and the pass did not cancel it.                             *)
LEMMA LeftStands ==
  ASSUME FlowTyped, StepInv, wire = <<>>, NEW batch, NEW s, NEW T,
         \A id \in T : id \in DOMAIN live /\ live[id].side = s /\ ~Asks(batch, id)
  PROVE  /\ IsFiniteSet(T) /\ Cardinality(T) \in Nat /\ Cardinality(Left(batch, s)) \in Nat
         /\ Cardinality(T) <= Cardinality(Left(batch, s))
<1>1. Lists(open_orders, live)
  <2>1. PICK none : none = <<>>
    OBVIOUS
  <2>2. O!Fold(open_orders, none) = open_orders
    BY <2>1, O!FoldEmpty
  <2> QED
    BY <2>1, <2>2 DEF StepInv
<1>2. PICK L : L = Left(batch, s)
  OBVIOUS
<1>3. IsFiniteSet(L) /\ L \subseteq 1..Len(open_orders)
  <2>1. L \subseteq 1..Len(open_orders)
    BY <1>2 DEF Left
  <2>2. IsFiniteSet(1..Len(open_orders))
    <3>1. Len(open_orders) \in Nat
      BY ListedAre
    <3> QED
      BY <3>1, FS_Interval
  <2> QED
    BY <2>1, <2>2, SmallerCard
<1>4. PICK U : U = {open_orders[i].id : i \in L}
  OBVIOUS
<1>5. PICK f : f = [i \in L |-> open_orders[i].id]
  OBVIOUS
<1>6. f \in Surjection(L, U)
  BY <1>4, <1>5 DEF Surjection
<1>7. IsFiniteSet(U) /\ Cardinality(U) <= Cardinality(L)
  BY <1>3, <1>6, FS_Surjection
<1>8. ASSUME NEW id \in T PROVE id \in U
  <2>1. PICK i \in 1..Len(open_orders) : open_orders[i].id = id
    BY <1>1, <1>8 DEF Lists
  <2>2. open_orders[i].side = s
    BY <1>1, <1>8, <2>1 DEF Lists
  <2>3. i \in L
    BY <1>2, <1>8, <2>1, <2>2 DEF Left
  <2> QED
    BY <1>4, <2>1, <2>3
<1>9. T \subseteq U
  BY <1>8
<1>10. Cardinality(L) \in Nat
  BY <1>3, FS_CardinalityType
<1>11. IsFiniteSet(T) /\ Cardinality(T) \in Nat /\ Cardinality(U) \in Nat /\ Cardinality(T) <= Cardinality(U)
  BY <1>7, <1>9, SmallerCard
<1> QED
  BY <1>2, <1>7, <1>10, <1>11

\* One more late pass allows one more set.
LEMMA Allowance ==
  ASSUME NEW B \in Nat, NEW I \in Nat, NEW n \in Nat
  PROVE  /\ B + I * n \in Nat /\ B <= B + I * n
         /\ B + I * (n + 1) = (B + I * n) + I
<1>1. I * (n + 1) = I * n + I /\ I * n \in Nat
  OBVIOUS
<1> QED
  BY <1>1

\* A pass: a late one adds a set and is counted, another fills up what is missing.
LEMMA PassLoad ==
  ASSUME FlowInv, Loaded, NEW batch, NEW late, Pass(batch, late), agent \in Makers,
         NEW s \in TwoSides
  PROVE  Load(s)' <= Base(s) + Intended * stale'
<1>1. FlowTyped /\ StepInv
  BY DEF FlowInv
<1>2. PICK b : Added(batch, b)
  BY <1>1, PassAdds
<1>3. /\ stale' \in Nat /\ (stale' = stale \/ stale' = stale + 1)
      /\ batch # <<>> /\ late => stale' = stale + 1
  BY <1>1, PassAdds
<1>4. stale \in Nat
  BY <1>1 DEF FlowTyped
<1>5. PICK I, B : I = Intended /\ B = Base(s)
  OBVIOUS
<1>6. I \in Nat \ {0} /\ B \in Nat /\ I <= B
  BY <1>1, <1>5, IntendedNat, BaseIs
<1>7. PICK S, T : S = Standing(s) /\ T = Standing(s)'
  OBVIOUS
<1>8. /\ T \subseteq S
      /\ \A id \in T : id \in DOMAIN live /\ live[id].side = s /\ ~Asks(batch, id)
  BY <1>1, <1>2, <1>7, PassStands
<1>9. IsFiniteSet(S) /\ Cardinality(S) \in Nat
  BY <1>1, <1>7, StandingIs
<1>10. Cardinality(T) \in Nat /\ Cardinality(T) <= Cardinality(S)
  BY <1>8, <1>9, SmallerCard
<1>11. PICK m, n, k : /\ m = Count(requests, Limits(s)) /\ n = Count(requests', Limits(s))
                      /\ k = Count(batch, Limits(s))
  OBVIOUS
<1>12. n = m + k /\ m \in Nat /\ k \in Nat
  BY <1>1, <1>2, <1>11, PassSends
<1>13. Cardinality(S) + m <= B + I * stale
  BY <1>5, <1>7, <1>11 DEF Loaded, Load
<1>14. k <= I
  BY <1>5, <1>11 DEF Pass, Fits
<1>15. Load(s)' = Cardinality(T) + n
  BY <1>7, <1>11 DEF Load
<1>16. Cardinality(T) + n <= B + I * stale'
  <2>1. PICK c, d : c = Cardinality(S) /\ d = Cardinality(T)
    OBVIOUS
  <2>2. PICK v, w : v = B + I * stale /\ w = B + I * stale'
    OBVIOUS
  <2>3. /\ v \in Nat /\ w \in Nat /\ B <= w
        /\ stale' = stale + 1 => w = v + I
        /\ stale' = stale => w = v
    <3>1. B + I * stale \in Nat /\ B + I * (stale + 1) = (B + I * stale) + I
      BY <1>4, <1>6, Allowance
    <3>2. B + I * stale' \in Nat /\ B <= B + I * stale'
      BY <1>3, <1>6, Allowance
    <3> QED
      BY <2>2, <3>1, <3>2
  <2>4. /\ c \in Nat /\ d \in Nat /\ d <= c /\ c + m <= v
        /\ n = m + k /\ m \in Nat /\ k \in Nat /\ k <= I /\ I \in Nat \ {0}
        /\ B \in Nat /\ I <= B
    BY <1>6, <1>9, <1>10, <1>12, <1>13, <1>14, <2>1, <2>2
  <2>5. d + n <= w => Cardinality(T) + n <= B + I * stale'
    BY <2>1, <2>2
  <2>6. CASE k = 0
    <3>1. v <= w
      BY <1>3, <2>3, <2>4
    <3> QED
      BY <2>3, <2>4, <2>6, <2>5, <3>1
  <2>7. CASE k # 0 /\ late
    <3>1. batch # <<>>
      <4>1. ASSUME batch = <<>> PROVE FALSE
        <5>1. k = 0
          BY <1>11, <4>1, ProperNone, Zenon
        <5> QED
          BY <2>7, <5>1
      <4> QED
        BY <4>1
    <3>2. stale' = stale + 1
      BY <1>3, <2>7, <3>1
    <3> QED
      BY <2>3, <2>4, <2>5, <3>2
  <2>8. CASE k # 0 /\ ~late
    <3>1. m = 0 /\ wire = <<>> /\ k + Cardinality(Left(batch, s)) <= I
      BY <1>5, <1>11, <2>8 DEF Pass, Fits
    <3>3. Cardinality(Left(batch, s)) \in Nat /\ d <= Cardinality(Left(batch, s))
      BY <1>1, <1>8, <2>1, <3>1, LeftStands
    <3>4. d + n <= I
      BY <2>4, <3>1, <3>3
    <3> QED
      BY <2>3, <2>4, <2>5, <3>4
  <2> QED
    BY <2>6, <2>7, <2>8
<1> QED
  BY <1>5, <1>15, <1>16

-----------------------------------------------------------------------------
\* Every step keeps the makers' orders within bounds.
LEMMA LoadedSteps ==
  ASSUME FlowInv, Loaded, FlowStep PROVE Loaded'
<1>1. FlowTyped /\ stale \in Nat
  BY DEF FlowInv, FlowTyped
<1>2. Intended \in Nat \ {0} /\ \A s : Base(s) \in Nat
  BY <1>1, IntendedNat, BaseIs
<1>9. ASSUME UNCHANGED <<agent, legacy>> PROVE Intended' = Intended /\ \A s : Base(s)' = Base(s)
  <2>1. Intended' = Intended
    BY <1>9 DEF Intended
  <2> QED
    BY <1>9, <2>1 DEF Base, LeftOn
<1>3. CASE UNCHANGED <<agent, legacy, requests, live, stale>>
  <2>1. \A s \in TwoSides : Load(s)' = Load(s)
    BY <1>3 DEF Load, Standing, BeingCancelled
  <2>2. Intended' = Intended /\ \A s : Base(s)' = Base(s)
    BY <1>3, <1>9
  <2> QED
    BY <1>3, <2>1, <2>2 DEF Loaded
<1>4. CASE ExchangeStep
  <2>1. UNCHANGED <<agent, legacy, stale>>
    BY <1>1, <1>4, ExchangeOutcome DEF who
  <2>2. Intended' = Intended /\ \A s : Base(s)' = Base(s)
    BY <1>9, <2>1
  <2>3. ASSUME NEW s \in TwoSides PROVE Load(s) \in Nat /\ Load(s)' \in Nat /\ Load(s)' <= Load(s)
    <3>1. CASE TakeRequest
      BY <1>1, <3>1, TakeLoad
    <3>2. ASSUME NEW id \in DOMAIN live, NEW q \in 1..live[id].q, Fill(id, q)
          PROVE  Load(s) \in Nat /\ Load(s)' \in Nat /\ Load(s)' <= Load(s)
      BY <1>1, <3>2, FillLoad
    <3> QED
      BY <1>4, <3>1, <3>2 DEF ExchangeStep
  <2>4. ASSUME NEW s \in TwoSides, agent \in Makers PROVE Load(s)' <= Base(s)' + Intended' * stale'
    <3>1. PICK v : v = Base(s) + Intended * stale
      OBVIOUS
    <3>2. v \in Nat /\ Load(s) <= v
      BY <1>1, <1>2, <2>4, <3>1, Allowance DEF Loaded
    <3>3. Base(s)' + Intended' * stale' = v
      BY <2>1, <2>2, <3>1
    <3> QED
      BY <2>3, <3>2, <3>3
  <2> QED
    BY <2>1, <2>4 DEF Loaded
<1>5. ASSUME NEW batch, NEW late, Pass(batch, late) PROVE Loaded'
  <2>1. agent' = agent /\ legacy' = legacy
    BY <1>5 DEF Pass, who
  <2>2. Intended' = Intended /\ \A s : Base(s)' = Base(s)
    BY <1>9, <2>1
  <2> QED
    BY <1>5, <2>1, <2>2, PassLoad DEF Loaded
<1>6. CASE UNCHANGED flow
  BY <1>3, <1>6 DEF flow, who
<1>7. CASE wire # <<>> /\ Apply(Head(wire))
  BY <1>3, <1>7 DEF Apply, who
<1>8. CASE Looks
  BY <1>3, <1>8 DEF Looks, who
<1> QED
  BY <1>4, <1>5, <1>6, <1>7, <1>8 DEF FlowStep

\* At the start, what stands is what the process before left.
LEMMA LoadedStart ==
  ASSUME Init PROVE Loaded
<1>1. FlowTyped /\ requests = <<>> /\ stale = 0 /\ live = legacy.orders
  BY FlowStart DEF Init, FlowInit, FlowInv
<1>2. ASSUME NEW s \in TwoSides PROVE Load(s) <= Base(s) + Intended * stale
  <2>1. PICK S : S = Standing(s)
    OBVIOUS
  <2>2. S \subseteq LeftOn(s)
    BY <1>1, <2>1, StandingIs DEF LeftOn
  <2>3. /\ IsFiniteSet(LeftOn(s)) /\ Cardinality(LeftOn(s)) \in Nat
        /\ Base(s) \in Nat /\ Cardinality(LeftOn(s)) <= Base(s)
    BY <1>1, BaseIs
  <2>4. Cardinality(S) \in Nat /\ Cardinality(S) <= Cardinality(LeftOn(s))
    BY <2>2, <2>3, SmallerCard
  <2>5. Count(requests, Limits(s)) = 0
    <3>1. \A i \in 1..Len(requests) : requests[i] \notin Limits(s)
      BY <1>1
    <3> QED
      BY <3>1, CountNone
  <2>6. Load(s) \in Nat /\ Load(s) <= Base(s)
    BY <2>1, <2>3, <2>4, <2>5 DEF Load
  <2>7. Base(s) + Intended * stale = Base(s)
    BY <1>1, <2>3, IntendedNat
  <2> QED
    BY <2>6, <2>7
<1> QED
  BY <1>2 DEF Loaded

(* Every market maker and the insider, for any number of orders a side, any    *)
(* delays and whatever the process before left: the standing orders of a side, *)
(* those on their way included, never exceed what the agent means to have      *)
(* there, or what was left there, by more than one set for each time that it   *)
(* sent on an account out of date (on_timer asks for no confirmation of the     *)
(* orders of the last tick).                                                    *)
THEOREM PileUp == Spec => []PileUpBounded
<1>1. Init => FlowInv /\ Loaded
  BY FlowStart, LoadedStart DEF Init
<1>2. (FlowInv /\ Loaded) /\ [Next]_vars => (FlowInv /\ Loaded)'
  BY StepIs, FlowSteps, LoadedSteps DEF FlowInv
<1>3. FlowInv /\ Loaded => PileUpBounded
  <2> SUFFICES ASSUME FlowInv, Loaded, agent \in Makers, NEW s \in TwoSides
               PROVE  Cardinality(Standing(s)) + Cardinality(Pending("Limit", s))
                        <= Base(s) + Intended * stale
    BY DEF PileUpBounded, Makers, Base
  <2>1. Cardinality(Pending("Limit", s)) = Count(requests, Limits(s))
    BY PendingIs DEF FlowInv
  <2> QED
    BY <2>1 DEF Loaded, Load
<1> QED
  BY <1>1, <1>2, <1>3, PTL DEF Spec

-----------------------------------------------------------------------------
(* From here to the screen, all is about positions: what an agent holds, what *)
(* the responses on their way will make of it, and what it has offered.  P's   *)
(* fold is the position once some responses are applied; its sums are          *)
(* quantities.                                                                *)
P == INSTANCE FoldFacts WITH Op <- PositionsOnce

(* How much the requests of a set ask for.                                    *)
Qtys(q) == [i \in 1..Len(q) |-> q[i].q]
Vol(q, T) == P!Sum(Qtys(q), Places(q, T))

\* The instance's finite sets are ours, and so are its cardinalities.
LEMMA FiniteAlike == \A S : IsFiniteSet(S) <=> P!IsFiniteSet(S)
  BY DEF IsFiniteSet, P!IsFiniteSet

\* The places and the quantities.
LEMMA QtysAre ==
  ASSUME NEW q \in Seq(Draft), NEW T
  PROVE  /\ IsFiniteSet(Places(q, T)) /\ P!IsFiniteSet(Places(q, T)) /\ Len(q) \in Nat
         /\ Places(q, T) \subseteq 1..Len(q)
         /\ \A i \in 1..Len(q) : q[i] \in Draft /\ Qtys(q)[i] = q[i].q /\ Qtys(q)[i] \in Nat
         /\ Vol(q, T) \in Nat
<1>1. IsFiniteSet(Places(q, T)) /\ P!IsFiniteSet(Places(q, T)) /\ Len(q) \in Nat
  BY CountIs, FiniteAlike
<1>2. Places(q, T) \subseteq 1..Len(q)
  BY DEF Places
<1>3. \A i \in 1..Len(q) : q[i] \in Draft
  OBVIOUS
<1>4. \A i \in 1..Len(q) : Qtys(q)[i] = q[i].q /\ Qtys(q)[i] \in Nat
  BY <1>3 DEF Qtys, Draft
<1>5. Vol(q, T) \in Nat
  <2>1. \A i \in Places(q, T) : Qtys(q)[i] \in Nat
    BY <1>2, <1>4
  <2> QED
    BY <1>1, <2>1, P!SumPart DEF Vol
<1> QED
  BY <1>1, <1>2, <1>3, <1>4, <1>5

\* None of them is.
LEMMA VolNone ==
  ASSUME NEW q \in Seq(Draft), NEW T, \A i \in 1..Len(q) : q[i] \notin T
  PROVE  Vol(q, T) = 0
<1>1. Places(q, T) = {}
  BY DEF Places
<1>2. P!Adds(Qtys(q), {})
  <2>1. P!IsFiniteSet({})
    BY FS_EmptySet, FiniteAlike
  <2> QED
    BY <2>1, P!SumAdds
<1> QED
  BY <1>1, <1>2 DEF Vol, P!Adds

\* The same quantities in the same places.
LEMMA VolSame ==
  ASSUME NEW p \in Seq(Draft), NEW q \in Seq(Draft), NEW T, Len(p) = Len(q),
         \A i \in 1..Len(q) : (p[i] \in T <=> q[i] \in T) /\ p[i].q = q[i].q
  PROVE  Vol(p, T) = Vol(q, T)
<1>1. Places(p, T) = Places(q, T)
  BY DEF Places
<1>2. \A i \in Places(q, T) : Qtys(q)[i] \in Nat /\ Qtys(p)[i] = Qtys(q)[i]
  BY QtysAre
<1>3. P!Sum(Qtys(p), Places(q, T)) = P!Sum(Qtys(q), Places(q, T))
  BY <1>2, QtysAre, P!SumSame
<1> QED
  BY <1>1, <1>3 DEF Vol

(* Of two sequences, one after the other.                                    *)
LEMMA VolConcat ==
  ASSUME NEW p \in Seq(Draft), NEW q \in Seq(Draft), NEW T
  PROVE  Vol(p \o q, T) = Vol(p, T) + Vol(q, T)
<1>1. PICK s, n, A, B : s = p \o q /\ n = Len(p) /\ A = Places(p, T) /\ B = Places(q, T)
  OBVIOUS
<1>2. PICK C : C = {n + i : i \in B}
  OBVIOUS
<1>3. Places(s, T) = A \cup C /\ A \cap C = {}
  BY <1>1, <1>2, PlacesConcat
<1>4. PICK f, g, h : f = Qtys(s) /\ g = Qtys(p) /\ h = Qtys(q)
  OBVIOUS
<1>5. /\ s \in Seq(Draft) /\ n \in Nat /\ Len(s) = n + Len(q) /\ Len(q) \in Nat
      /\ \A i \in 1..n : s[i] = p[i]
      /\ \A i \in 1..Len(q) : s[n + i] = q[i]
  BY <1>1
<1>6. /\ P!IsFiniteSet(A) /\ P!IsFiniteSet(B) /\ A \subseteq 1..n /\ B \subseteq 1..Len(q)
      /\ \A i \in A : g[i] \in Nat /\ f[i] = g[i]
      /\ \A i \in B : h[i] \in Nat /\ f[n + i] = h[i]
      /\ P!IsFiniteSet(A \cup C)
      /\ \A i \in A \cup C : f[i] \in Nat
  <2>1. P!IsFiniteSet(A) /\ P!IsFiniteSet(B) /\ A \subseteq 1..n /\ B \subseteq 1..Len(q)
    BY <1>1, QtysAre
  <2>2. /\ \A i \in A : g[i] = p[i].q /\ g[i] \in Nat
        /\ \A i \in B : h[i] = q[i].q /\ h[i] \in Nat
    BY <1>1, <1>4, <2>1, QtysAre
  <2>3. /\ P!IsFiniteSet(Places(s, T)) /\ Places(s, T) \subseteq 1..Len(s)
        /\ \A i \in 1..Len(s) : f[i] = s[i].q /\ f[i] \in Nat
    BY <1>4, <1>5, QtysAre
  <2>4. A \cup C \subseteq 1..Len(s)
    BY <1>3, <2>3
  <2>5. \A i \in A : f[i] = g[i]
    <3>1. \A i \in A : i \in 1..Len(s) /\ i \in 1..n
      BY <2>1, <2>4
    <3> QED
      BY <1>5, <2>2, <2>3, <3>1
  <2>6. \A i \in B : f[n + i] = h[i]
    <3>1. \A i \in B : i \in 1..Len(q) /\ n + i \in 1..Len(s)
      BY <1>2, <2>1, <2>4
    <3> QED
      BY <1>5, <2>2, <2>3, <3>1
  <2>7. \A i \in A \cup C : f[i] \in Nat
    BY <2>3, <2>4
  <2>8. P!IsFiniteSet(A \cup C)
    BY <1>3, <2>3
  <2> QED
    BY <2>1, <2>2, <2>5, <2>6, <2>7, <2>8
<1>7. P!Sum(f, A) = P!Sum(g, A)
  BY <1>6, P!SumSame
<1>8. P!Sum(f, C) = P!Sum(h, B)
  <2>1. PICK e : e = [i \in 1..Len(q) |-> n + i]
    OBVIOUS
  <2>2. \A i \in B : e[i] = n + i /\ f[e[i]] = h[i]
    BY <1>6, <2>1
  <2>3. \A i, j \in B : e[i] = e[j] => i = j
    BY <1>5, <1>6, <2>2
  <2>4. (\A i \in B : e[i] \in C) /\ \A c \in C : \E i \in B : c = e[i]
    BY <1>2, <2>2
  <2>5. (\A i \in B : h[i] \in Nat) /\ (\A i \in B : f[e[i]] = h[i]) /\ P!IsFiniteSet(B)
    BY <1>6, <2>2
  <2> QED
    BY <2>3, <2>4, <2>5, P!SumRenamed
<1>9. P!Sum(f, A \cup C) = P!Sum(f, A) + P!Sum(f, C)
  <2>1. P!IsFiniteSet(C)
    BY <1>6, FiniteAlike, FS_Subset
  <2> QED
    BY <1>3, <1>6, <2>1, P!SumUnion
<1> QED
  BY <1>1, <1>3, <1>4, <1>7, <1>8, <1>9 DEF Vol

\* Of one request.
LEMMA VolOne ==
  ASSUME NEW r \in Draft, NEW T
  PROVE  Vol(<<r>>, T) = IF r \in T THEN r.q ELSE 0
<1>1. PICK h : h = <<r>>
  OBVIOUS
<1>2. h \in Seq(Draft) /\ Len(h) = 1 /\ h[1] = r
  BY <1>1
<1>3. CASE r \notin T
  <2>1. \A i \in 1..Len(h) : h[i] \notin T
    BY <1>2, <1>3
  <2> QED
    BY <1>1, <1>2, <1>3, <2>1, VolNone
<1>4. CASE r \in T
  <2>1. Places(h, T) = {1}
    BY <1>2, <1>4 DEF Places
  <2>2. P!IsFiniteSet({1}) /\ \A i \in {1} : Qtys(h)[i] \in Nat
    BY <1>2, <2>1, QtysAre
  <2>3. P!Adds(Qtys(h), {1})
    BY <2>2, P!SumAdds
  <2>4. P!Sum(Qtys(h), {1}) = Qtys(h)[1] + P!Sum(Qtys(h), {1} \ {1}) /\ P!Sum(Qtys(h), {}) = 0
    BY <2>3 DEF P!Adds
  <2>5. Qtys(h)[1] = r.q /\ r.q \in Nat
    BY <1>2, QtysAre
  <2> QED
    BY <1>1, <1>4, <2>1, <2>4, <2>5 DEF Vol
<1> QED
  BY <1>3, <1>4

\* Of a sequence without its first element.
LEMMA VolTail ==
  ASSUME NEW q \in Seq(Draft), q # <<>>, NEW T
  PROVE  Vol(q, T) = Vol(Tail(q), T) + (IF Head(q) \in T THEN Head(q).q ELSE 0)
<1>1. PICK h, t : h = <<Head(q)>> /\ t = Tail(q)
  OBVIOUS
<1>2. h \in Seq(Draft) /\ t \in Seq(Draft) /\ Head(q) \in Draft /\ Len(h) = 1 /\ h[1] = Head(q)
  BY <1>1
<1>3. q = h \o t
  <2>1. PICK s : s = h \o t
    OBVIOUS
  <2>2. s \in Seq(Draft) /\ Len(s) = Len(q) /\ \A i \in 1..Len(q) : s[i] = q[i]
    BY <1>1, <1>2, <2>1
  <2>3. s = q
    BY <2>2
  <2> QED BY <2>1, <2>3
<1>4. Vol(q, T) = Vol(h, T) + Vol(t, T)
  BY <1>2, <1>3, VolConcat
<1>5. Vol(h, T) = IF Head(q) \in T THEN Head(q).q ELSE 0
  BY <1>1, <1>2, VolOne
<1>6. Vol(h, T) \in Nat /\ Vol(t, T) \in Nat
  BY <1>2, QtysAre
<1> QED
  BY <1>1, <1>4, <1>5, <1>6

-----------------------------------------------------------------------------
(* The sums of OrderFlow's community module, and those of the instance.       *)
IsTally(it, os, S) ==
  it = [A \in SUBSET S |-> IF A = {} THEN 0 ELSE os[P!One(A)].q + it[A \ {P!One(A)}]]

\* The community module's sum of quantities, by its definition.
LEMMA TallyIsIt ==
  ASSUME NEW os, NEW S
  PROVE  MapThenSumSet(LAMBDA x : os[x].q, S) = (CHOOSE it : IsTally(it, os, S))[S]
  BY Zenon DEF MapThenSumSet, MapThenFoldSet, IsTally, P!One

\* It is the sum the facts about folds speak of.
LEMMA TallyIs ==
  ASSUME NEW os, NEW S, IsFiniteSet(S), NEW g, \A x \in S : g[x] = os[x].q /\ g[x] \in Nat
  PROVE  MapThenSumSet(LAMBDA x : os[x].q, S) = P!Sum(g, S)
<1>1. ASSUME NEW it
      PROVE  IsTally(it, os, S) <=> P!IsSum(it, g, S)
  <2>1. ASSUME NEW A \in SUBSET S
        PROVE  (IF A = {} THEN 0 ELSE os[P!One(A)].q + it[A \ {P!One(A)}])
                 = (IF A = {} THEN 0 ELSE g[P!One(A)] + it[A \ {P!One(A)}])
    <3>1. A # {} => P!One(A) \in S
      BY P!OneIs
    <3>2. A # {} => g[P!One(A)] = os[P!One(A)].q
      BY <3>1
    <3> QED
      BY <3>2
  <2>2. [A \in SUBSET S |-> IF A = {} THEN 0 ELSE os[P!One(A)].q + it[A \ {P!One(A)}]]
          = [A \in SUBSET S |-> IF A = {} THEN 0 ELSE g[P!One(A)] + it[A \ {P!One(A)}]]
    BY <2>1, Zenon
  <2> QED
    BY <2>2, Zenon DEF IsTally, P!IsSum
<1>2. PICK it : it = CHOOSE jt : IsTally(jt, os, S)
  OBVIOUS
<1>3. \E jt : IsTally(jt, os, S)
  <2>1. PICK jt : P!IsSum(jt, g, S)
    BY FiniteAlike, P!SumExists
  <2> QED
    BY <1>1, <2>1
<1>4. P!IsSum(it, g, S)
  <2>1. IsTally(it, os, S)
    BY <1>2, <1>3, Zenon
  <2> QED
    BY <1>1, <2>1
<1>5. P!Sum(g, S) = it[S]
  <2>1. S \in SUBSET S /\ \A x \in S : g[x] \in Nat
    OBVIOUS
  <2> QED
    BY <1>4, <2>1, FiniteAlike, P!SumIs
<1>6. MapThenSumSet(LAMBDA x : os[x].q, S) = it[S]
  BY <1>2, TallyIsIt, Zenon
<1> QED
  BY <1>5, <1>6

-----------------------------------------------------------------------------
(* What the orders of a side, and the requests on their way, may still trade. *)
News(s) == {r \in Draft : IsNew(r) /\ r.side = s}
Rested(l) == [id \in DOMAIN l |-> l[id].q]
Rest(s) == P!Sum(Rested(live), Standing(s))
Offer(s) == Rest(s) + Vol(requests, News(s))

\* The same of limit orders alone.
Asked(s) == Rest(s) + Vol(requests, Limits(s))

\* The quantities that stand.
LEMMA RestedAre ==
  ASSUME FlowTyped, NEW S, S \subseteq DOMAIN live
  PROVE  /\ IsFiniteSet(S) /\ P!IsFiniteSet(S)
         /\ \A id \in S : Rested(live)[id] = live[id].q /\ Rested(live)[id] \in Nat
  BY FiniteAlike, FS_Subset DEF FlowTyped, Rested

\* They are natural numbers.
LEMMA OfferIs ==
  ASSUME FlowTyped, NEW s
  PROVE  /\ Rest(s) \in Nat /\ Vol(requests, News(s)) \in Nat /\ Offer(s) \in Nat
         /\ Vol(requests, Limits(s)) \in Nat /\ Asked(s) \in Nat
<1>1. Standing(s) \subseteq DOMAIN live
  BY DEF Standing
<1>2. Rest(s) \in Nat
  BY <1>1, RestedAre, P!SumPart DEF Rest
<1>3. requests \in Seq(Draft)
  BY DEF FlowTyped, Sent
<1>4. Vol(requests, News(s)) \in Nat /\ Vol(requests, Limits(s)) \in Nat
  BY <1>3, QtysAre
<1> QED
  BY <1>2, <1>4 DEF Offer, Asked

\* What the checked invariants say of them.
LEMMA OfferedIs ==
  ASSUME FlowTyped, NEW s
  PROVE  Offered(s) = Offer(s)
<1>1. requests \in Seq(Draft)
  BY DEF FlowTyped, Sent
<1>2. DOMAIN requests = 1..Len(requests)
  BY <1>1
<1>3. Pending("Limit", s) \cup Pending("Market", s) = Places(requests, News(s))
  <2>1. ASSUME NEW i \in 1..Len(requests)
        PROVE  requests[i] \in News(s) <=>
                 (requests[i].action = "Limit" \/ requests[i].action = "Market") /\ requests[i].side = s
    BY <1>1, <2>1 DEF News, IsNew
  <2> QED
    BY <1>2, <2>1 DEF Pending, Places
<1>4. MapThenSumSet(LAMBDA i : requests[i].q, Places(requests, News(s))) = Vol(requests, News(s))
  <2>1. PICK S, g : S = Places(requests, News(s)) /\ g = Qtys(requests)
    OBVIOUS
  <2>2. IsFiniteSet(S) /\ \A i \in S : g[i] = requests[i].q /\ g[i] \in Nat
    BY <1>1, <2>1, QtysAre
  <2>3. MapThenSumSet(LAMBDA i : requests[i].q, S) = P!Sum(g, S)
    BY <2>2, TallyIs, Zenon
  <2> QED
    BY <2>1, <2>3, Zenon DEF Vol
<1>5. MapThenSumSet(LAMBDA id : live[id].q, Standing(s)) = Rest(s)
  <2>1. PICK S, g : S = Standing(s) /\ g = Rested(live)
    OBVIOUS
  <2>2. IsFiniteSet(S) /\ \A i \in S : g[i] = live[i].q /\ g[i] \in Nat
    <3>1. S \subseteq DOMAIN live
      BY <2>1 DEF Standing
    <3> QED
      BY <2>1, <3>1, RestedAre
  <2>3. MapThenSumSet(LAMBDA i : live[i].q, S) = P!Sum(g, S)
    BY <2>2, TallyIs, Zenon
  <2> QED
    BY <2>1, <2>3, Zenon DEF Rest
<1>6. /\ MapThenSumSet(LAMBDA i : requests[i].q, Pending("Limit", s) \cup Pending("Market", s))
           = Vol(requests, News(s))
      /\ MapThenSumSet(LAMBDA id : live[id].q, Standing(s)) = Rest(s)
  BY <1>3, <1>4, <1>5, Zenon
<1> QED
  BY <1>6, Zenon DEF Offered, Offer

-----------------------------------------------------------------------------
(* The position once some responses are applied.                              *)
Held(pos, w) == P!Fold(pos, w)[Symbol]
Gain(m) == IF m.type \in {"PartialFill", "Fill"} THEN Bought(m) ELSE 0

\* The balance is the position held once the responses on the wire are applied.
LEMMA BalanceIs == Balance = Held(positions, wire) /\ Balance' = Held(positions', wire')
  BY Zenon DEF Balance, Held, P!Fold, P!FoldLeft, P!MapThenFoldSet, P!Max, FoldLeft, MapThenFoldSet, Max

\* Positions stay numbers.
LEMMA HeldIs ==
  ASSUME NEW pos \in [Assets -> Int], NEW w \in Seq(Delivery)
  PROVE  P!Fold(pos, w) \in [Assets -> Int] /\ Symbol \in Assets /\ Held(pos, w) \in Int
<1>1. PICK T : T = [Assets -> Int]
  OBVIOUS
<1>2. \A x \in T, m \in Delivery : PositionsOnce(x, m) \in T
  <2>1. ASSUME NEW x \in T, NEW m \in Delivery PROVE PositionsOnce(x, m) \in T
    <3>1. PICK none : none = <<>>
      OBVIOUS
    <3>2. none \in Seq(Open) /\ Unique(none)
      BY <3>1 DEF Unique
    <3> QED
      BY <1>1, <3>2, AppliedIs
  <2> QED
    BY <2>1
<1>3. P!Fold(pos, w) \in T
  BY <1>1, <1>2, P!FoldStays
<1>4. Symbol \in Assets
  BY ClientAssumption DEF Symbol, Assets
<1> QED
  BY <1>1, <1>3, <1>4 DEF Held

\* A response put on the wire.
LEMMA HeldAppend ==
  ASSUME NEW pos \in [Assets -> Int], NEW w \in Seq(Delivery), NEW m \in Reply,
         m.symbol = Symbol, m.p = 0, NEW v, v = Append(w, m)
  PROVE  Held(pos, v) = Held(pos, w) + Gain(m) /\ Gain(m) \in Int /\ v \in Seq(Delivery)
<1>1. PICK x : x = P!Fold(pos, w)
  OBVIOUS
<1>2. x \in [Assets -> Int] /\ Symbol \in Assets /\ x[Symbol] \in Int /\ Held(pos, w) = x[Symbol]
  BY <1>1, HeldIs DEF Held
<1>3. P!Fold(pos, v) = PositionsOnce(x, m) /\ m \in Delivery /\ m \in OrderResponse
  BY <1>1, P!FoldAppend DEF Delivery, Reply
<1>4. PICK b : b = Bought(m)
  OBVIOUS
<1>5. b \in Int
  <2>1. m.q \in Nat
    BY <1>3 DEF OrderResponse
  <2> QED
    BY <1>4, <2>1 DEF Bought
<1>6. b * 0 = 0
  BY <1>5
<1>7. PositionsOnce(x, m)[Symbol] = x[Symbol] + Gain(m)
  <2>1. CASE m.type \in {"PartialFill", "Fill"}
    <3>1. PositionsOnce(x, m) = [x EXCEPT ![Symbol] = @ + b, ![Cash] = @ - b * 0]
      BY <1>4, <2>1, PositionsOnceIs DEF UpdatePositionAndCash
    <3>2. PositionsOnce(x, m) = [x EXCEPT ![Symbol] = @ + b, ![Cash] = @ - 0]
      BY <1>6, <3>1
    <3>3. Cash \in Assets
      BY DEF Assets
    <3>4. [x EXCEPT ![Symbol] = @ + b, ![Cash] = @ - 0][Symbol] = x[Symbol] + b
      <4>1. Cash # Symbol
        BY ClientAssumption DEF Symbol
      <4> QED
        BY <1>2, <1>5, <3>3, <4>1
    <3> QED
      BY <1>4, <2>1, <3>2, <3>4 DEF Gain
  <2>2. CASE m.type \notin {"PartialFill", "Fill"}
    <3>1. m.type # "Position"
      BY <1>3 DEF OrderResponse, ExecTypes
    <3> QED
      BY <1>2, <2>2, <3>1, PositionsOnceIs DEF Gain
  <2> QED
    BY <2>1, <2>2
<1> QED
  BY <1>2, <1>3, <1>4, <1>5, <1>7 DEF Held, Gain

\* The balance of an account that is in step is its position.
LEMMA BalanceHere ==
  ASSUME FlowTyped, wire = <<>>
  PROVE  Balance = Position
  BY BalanceIs, P!FoldEmpty DEF Held, Position

\* Balances and positions are integers.
LEMMA BalanceInt ==
  ASSUME FlowTyped
  PROVE  Balance \in Int /\ Position \in Int
  BY BalanceIs, HeldIs, PositionIs DEF FlowTyped

\* A response applied was on its way.
LEMMA BalanceApplied ==
  ASSUME FlowTyped, wire # <<>>, Apply(Head(wire))
  PROVE  Balance' = Balance
<1>1. wire \in Seq(Delivery) /\ wire' = Tail(wire) /\ positions' = PositionsOnce(positions, Head(wire))
  BY DEF FlowTyped, Apply
<1>2. P!Fold(positions, wire) = P!Fold(PositionsOnce(positions, Head(wire)), Tail(wire))
  BY <1>1, P!FoldTail
<1>3. Balance' = Held(positions', wire')
  BY BalanceIs
<1> QED
  BY <1>1, <1>2, <1>3, BalanceIs DEF Held

-----------------------------------------------------------------------------
(* The exchange trades no more than is offered.                               *)
Moves == {r \in Draft : r.action = "Modify"}
Moving == Count(requests, Moves)

(* f is traded on a side: the position moves by it, and the offers shrink.    *)
Trade(side, f) ==
  /\ Balance' = Balance + Signed(side, f) /\ Moving' <= Moving
  /\ \A s \in TwoSides : /\ Offer(s)' + (IF s = side THEN f ELSE 0) <= Offer(s)
                         /\ Asked(s)' <= Asked(s)

(* A change is taken: the order may stand for up to the quantity asked for.  *)
Moved(r) ==
  /\ r.action = "Modify" /\ Balance' = Balance /\ Moving' + 1 <= Moving
  /\ \A s \in TwoSides : /\ Offer(s)' <= Offer(s) + r.q - 1
                         /\ Asked(s)' <= Asked(s) + r.q - 1

\* All the orders that stand after a step stood before it, but one.
LEMMA RestAtMost ==
  ASSUME FlowTyped, FlowTyped', NEW s, NEW x, NEW c \in Nat,
         \A id \in Standing(s)' : id # x => id \in Standing(s) /\ live'[id].q = live[id].q,
         x \in Standing(s)' => live'[x].q <= c
  PROVE  /\ Rest(s) \in Nat /\ Rest(s)' \in Nat
         /\ x \notin Standing(s) => Rest(s)' <= Rest(s) + c
         /\ x \in Standing(s) => live[x].q \in Nat \ {0} /\ Rest(s)' + live[x].q <= Rest(s) + c
<1>1. PICK S, T, g, h : /\ S = Standing(s) /\ T = Standing(s)'
                        /\ g = Rested(live) /\ h = Rested(live')
  OBVIOUS
<1>2. /\ S \subseteq DOMAIN live /\ IsFiniteSet(S) /\ P!IsFiniteSet(S)
      /\ \A id \in S : g[id] = live[id].q /\ g[id] \in Nat
  BY <1>1, RestedAre DEF Standing
<1>3. /\ T \subseteq DOMAIN live' /\ IsFiniteSet(T) /\ P!IsFiniteSet(T)
      /\ \A id \in T : h[id] = live'[id].q /\ h[id] \in Nat
  <2>1. T \subseteq DOMAIN live'
    BY <1>1 DEF Standing
  <2>2. IsFiniteSet(DOMAIN live') /\ \A id \in DOMAIN live' : live'[id] \in [side : TwoSides, q : Nat \ {0}]
    BY DEF FlowTyped
  <2> QED
    BY <1>1, <2>1, <2>2, FiniteAlike, FS_Subset DEF Rested
<1>4. PICK S0, T0 : S0 = S \ {x} /\ T0 = T \ {x}
  OBVIOUS
<1>5. /\ T0 \subseteq S0 /\ \A id \in T0 : h[id] = g[id] /\ g[id] \in Nat
      /\ P!IsFiniteSet(T0) /\ P!IsFiniteSet(S0)
  <2>1. T0 \subseteq S0
    BY <1>1, <1>4
  <2>2. \A id \in T0 : h[id] = g[id] /\ g[id] \in Nat
    BY <1>1, <1>2, <1>3, <1>4, <2>1
  <2>3. IsFiniteSet(T0) /\ IsFiniteSet(S0)
    BY <1>2, <1>3, <1>4, FS_Subset
  <2> QED
    BY <2>1, <2>2, <2>3, FiniteAlike
<1>6. P!Sum(h, T0) = P!Sum(g, T0)
  BY <1>5, P!SumSame
<1>7. /\ P!Sum(g, T0) \in Nat /\ P!Sum(g, S0) \in Nat /\ P!Sum(g, T0) <= P!Sum(g, S0)
  <2>1. \A id \in S0 : g[id] \in Nat
    BY <1>2, <1>4
  <2> QED
    BY <1>5, <2>1, P!SumPart
<1>8. P!Adds(g, S) /\ P!Adds(h, T)
  BY <1>2, <1>3, P!SumAdds
<1>9. Rest(s) = P!Sum(g, S) /\ Rest(s)' = P!Sum(h, T)
  BY <1>1 DEF Rest
<1>10. P!Sum(h, T) \in Nat /\ P!Sum(h, T) <= P!Sum(h, T0) + c
  <2>1. CASE x \in T
    <3>1. P!Sum(h, T) = h[x] + P!Sum(h, T0) /\ P!Sum(h, T) \in Nat
      BY <1>4, <1>8, <2>1 DEF P!Adds
    <3>2. h[x] \in Nat /\ h[x] <= c
      BY <1>1, <1>3, <2>1
    <3> QED
      BY <1>6, <1>7, <3>1, <3>2
  <2>2. CASE x \notin T
    <3>1. T0 = T
      BY <1>4, <2>2
    <3> QED
      BY <1>6, <1>7, <3>1
  <2> QED
    BY <2>1, <2>2
<1>11. CASE x \in S
  <2>1. P!Sum(g, S) = g[x] + P!Sum(g, S0) /\ P!Sum(g, S) \in Nat
    BY <1>4, <1>8, <1>11 DEF P!Adds
  <2>2. g[x] = live[x].q /\ g[x] \in Nat \ {0}
    BY <1>2, <1>11 DEF FlowTyped
  <2> QED
    BY <1>1, <1>6, <1>7, <1>9, <1>10, <1>11, <2>1, <2>2
<1>12. CASE x \notin S
  <2>1. S0 = S
    BY <1>4, <1>12
  <2> QED
    BY <1>1, <1>6, <1>7, <1>9, <1>10, <1>12, <2>1
<1> QED
  BY <1>11, <1>12

\* What a response of the exchange adds to the position.
LEMMA AnswerGains ==
  ASSUME NEW pos \in [Assets -> Int], NEW w \in Seq(Delivery),
         NEW type \in ExecTypes, type # "Complete", NEW id \in Ids, NEW side \in Sides, NEW q \in Nat,
         type \in Listing \cup {"Fill"} => side \in TwoSides /\ q # 0
  PROVE  /\ Response(type, id, side, q) \in Delivery /\ Held(pos, w) \in Int
         /\ Append(w, Response(type, id, side, q)) \in Seq(Delivery)
         /\ Held(pos, Append(w, Response(type, id, side, q))) =
              Held(pos, w) + (IF type \in {"PartialFill", "Fill"} THEN Signed(side, q) ELSE 0)
<1> DEFINE m == Response(type, id, side, q)
           v == Append(w, m)
<1> HIDE DEF m, v
<1>1. m \in Delivery /\ m \in Reply
  BY ResponseIs DEF m
<1>2. m = [type |-> type, id |-> id, symbol |-> Symbol, side |-> side, p |-> 0, q |-> q]
  BY DEF Response, m
<1>3. m.symbol = Symbol /\ m.p = 0 /\ m.type = type /\ m.side = side /\ m.q = q
  BY <1>2
<1>4. Held(pos, v) = Held(pos, w) + Gain(m) /\ v \in Seq(Delivery)
  BY <1>1, <1>3, HeldAppend DEF v
<1>5. Gain(m) = IF type \in {"PartialFill", "Fill"} THEN Signed(side, q) ELSE 0
  BY <1>3 DEF Gain, Bought, Signed, Listing, TwoSides
<1> QED
  BY <1>1, <1>4, <1>5, HeldIs DEF m, v

\* One response.
LEMMA AnswerOne ==
  ASSUME FlowTyped, positions' = positions,
         NEW type \in ExecTypes, type # "Complete", NEW id \in Ids, NEW side \in Sides, NEW q \in Nat,
         type \in Listing \cup {"Fill"} => side \in TwoSides /\ q # 0,
         Answer(<<Response(type, id, side, q)>>)
  PROVE  /\ Balance \in Int
         /\ Balance' = Balance + (IF type \in {"PartialFill", "Fill"} THEN Signed(side, q) ELSE 0)
<1>1. PICK m : m = Response(type, id, side, q)
  OBVIOUS
<1>2. positions \in [Assets -> Int] /\ wire \in Seq(Delivery)
  BY DEF FlowTyped
<1>3. wire' = Append(wire, m)
  BY <1>1, <1>2 DEF Answer
<1>4. Held(positions, wire') = Held(positions, wire) +
                               (IF type \in {"PartialFill", "Fill"} THEN Signed(side, q) ELSE 0)
  BY <1>1, <1>2, <1>3, AnswerGains
<1> QED
  BY <1>4, BalanceIs, BalanceInt

\* What is signed is a number.
LEMMA SignedIs ==
  ASSUME NEW side, NEW n \in Int
  PROVE  Signed(side, n) \in Int /\ (n = 0 => Signed(side, n) = 0)
  BY DEF Signed

\* The responses to a market order, of which some is filled.
LEMMA MarketTrades ==
  ASSUME FlowTyped, positions' = positions, NEW r, r.id \in Ids, r.side \in TwoSides,
         r.q \in Nat \ {0}, NEW filled \in 0..r.q, ExecuteMarket(r, filled)
  PROVE  Balance' = Balance + Signed(r.side, filled)
<1>1. positions \in [Assets -> Int] /\ wire \in Seq(Delivery) /\ filled \in Nat /\ r.q - filled \in Nat
  BY DEF FlowTyped
<1>2. PICK m, f, c, p, d :
        /\ m = Response("New", r.id, r.side, r.q) /\ f = Response("Fill", r.id, r.side, r.q)
        /\ c = Response("Cancelled", r.id, r.side, r.q)
        /\ p = Response("PartialFill", r.id, r.side, filled)
        /\ d = Response("Cancelled", r.id, r.side, r.q - filled)
  OBVIOUS
<1>3. PICK u, v, w : u = Append(wire, m) /\ v = Append(u, p) /\ w = Append(v, d)
  OBVIOUS
<1>4. /\ r.side \in Sides /\ {"New", "Fill", "Cancelled", "PartialFill"} \subseteq ExecTypes
      /\ "New" \in Listing /\ "PartialFill" \in Listing
      /\ "Cancelled" \notin Listing \cup {"Fill"} /\ "New" \notin {"PartialFill", "Fill"}
  BY DEF TwoSides, Sides, ExecTypes, Listing
<1>5. /\ m \in Delivery /\ u \in Seq(Delivery) /\ Held(positions, wire) \in Int
      /\ Held(positions, u) = Held(positions, wire)
  <2>1. /\ Held(positions, Append(wire, m)) = Held(positions, wire) + 0
        /\ Held(positions, wire) \in Int /\ m \in Delivery /\ Append(wire, m) \in Seq(Delivery)
    BY <1>1, <1>2, <1>4, AnswerGains
  <2> QED
    BY <1>3, <2>1
<1>6. wire' = wire \o (<<m>> \o (IF filled = r.q THEN <<f>> ELSE IF filled = 0 THEN <<c>> ELSE <<p, d>>))
  BY <1>2 DEF ExecuteMarket, Answer
<1>7. CASE filled = r.q
  <2>1. f \in Delivery /\ Held(positions, Append(u, f)) = Held(positions, u) + Signed(r.side, r.q)
    <3>1. /\ Response("Fill", r.id, r.side, r.q) \in Delivery
          /\ Held(positions, Append(u, Response("Fill", r.id, r.side, r.q))) =
               Held(positions, u) + Signed(r.side, r.q)
      BY <1>1, <1>4, <1>5, AnswerGains
    <3> QED
      BY <1>2, <3>1
  <2>2. wire' = Append(u, f)
    BY <1>1, <1>3, <1>5, <1>6, <1>7, <2>1
  <2> QED
    BY <1>5, <1>7, <2>1, <2>2, BalanceIs
<1>8. CASE filled # r.q /\ filled = 0
  <2>1. c \in Delivery /\ Held(positions, Append(u, c)) = Held(positions, u) + 0
    BY <1>1, <1>2, <1>4, <1>5, AnswerGains
  <2>2. wire' = Append(u, c)
    BY <1>1, <1>3, <1>5, <1>6, <1>8, <2>1
  <2>3. Signed(r.side, filled) = 0
    BY <1>8, SignedIs
  <2> QED
    BY <1>5, <2>1, <2>2, <2>3, BalanceIs
<1>9. CASE filled # r.q /\ filled # 0
  <2>1. /\ p \in Delivery /\ v \in Seq(Delivery) /\ Held(positions, v) \in Int
        /\ Held(positions, v) = Held(positions, u) + Signed(r.side, filled)
    <3>1. /\ p \in Delivery /\ Append(u, p) \in Seq(Delivery)
          /\ Held(positions, Append(u, p)) = Held(positions, u) + Signed(r.side, filled)
      BY <1>1, <1>2, <1>4, <1>5, <1>9, AnswerGains
    <3> QED
      BY <1>1, <1>3, <3>1, HeldIs
  <2>2. d \in Delivery /\ Held(positions, w) = Held(positions, v)
    <3>1. d \in Delivery /\ Held(positions, Append(v, d)) = Held(positions, v) + 0
      BY <1>1, <1>2, <1>4, <2>1, AnswerGains
    <3> QED
      BY <1>3, <2>1, <3>1
  <2>3. wire' = w
    BY <1>1, <1>3, <1>5, <1>6, <1>9, <2>1, <2>2
  <2>4. Signed(r.side, filled) \in Int
    BY <1>1, SignedIs
  <2> QED
    BY <1>5, <2>1, <2>2, <2>3, <2>4, BalanceIs
<1> QED
  BY <1>7, <1>8, <1>9

-----------------------------------------------------------------------------
(* A fill of an order that nobody has asked to cancel.                        *)
LEMMA FillTrades ==
  ASSUME FlowTyped, FlowTyped', NEW id \in DOMAIN live, NEW q \in 1..live[id].q, Fill(id, q),
         ~Asks(requests, id)
  PROVE  Trade(live[id].side, q)
<1>1. /\ id \in Ids /\ live[id].side \in TwoSides /\ live[id].side \in Sides
      /\ live[id].q \in Nat \ {0} /\ q \in Nat \ {0} /\ q \in Nat /\ q <= live[id].q
      /\ requests' = requests /\ positions' = positions
  BY DEF FlowTyped, TwoSides, Sides, Fill, account
<1>2. PICK c : c = live[id].q - q
  OBVIOUS
<1>3. /\ c \in Nat
      /\ \A x \in DOMAIN live' : x \in DOMAIN live /\ live'[x].side = live[x].side
      /\ \A x \in DOMAIN live' : x # id => live'[x].q = live[x].q
      /\ id \in DOMAIN live' => live'[id].q = c
  <2>1. CASE q = live[id].q
    BY <1>1, <1>2, <2>1 DEF Fill, LiveWithout
  <2>2. CASE q # live[id].q
    <3>1. live' = [live EXCEPT ![id].q = @ - q]
      BY <2>2 DEF Fill
    <3>2. live[id] \in [side : TwoSides, q : Nat \ {0}]
      BY DEF FlowTyped
    <3> QED
      BY <1>1, <1>2, <3>1, <3>2
  <2> QED
    BY <2>1, <2>2
<1>4. Balance' = Balance + Signed(live[id].side, q)
  <2>1. CASE q = live[id].q
    <3>1. Answer(<<Response("Fill", id, live[id].side, q)>>)
      BY <2>1 DEF Fill
    <3> QED
      BY <1>1, <3>1, AnswerOne DEF ExecTypes
  <2>2. CASE q # live[id].q
    <3>1. Answer(<<Response("PartialFill", id, live[id].side, q)>>)
      BY <2>2 DEF Fill
    <3> QED
      BY <1>1, <3>1, AnswerOne DEF ExecTypes
  <2> QED
    BY <2>1, <2>2
<1>5. ASSUME NEW s \in TwoSides
      PROVE  Offer(s)' + (IF s = live[id].side THEN q ELSE 0) <= Offer(s) /\ Asked(s)' <= Asked(s)
  <2>1. PICK S, T : S = Standing(s) /\ T = Standing(s)'
    OBVIOUS
  <2>2. \A x : x \in S <=> x \in DOMAIN live /\ live[x].side = s /\ ~Asks(requests, x)
    BY <2>1, StandingIs
  <2>3. \A x : x \in T <=> x \in DOMAIN live' /\ live'[x].side = s /\ ~Asks(requests', x)
    BY <2>1, StandingNext DEF FlowTyped
  <2>4. \A x \in T : x \in S
    BY <1>1, <1>3, <2>2, <2>3
  <2>5. \A x \in T : x # id => x \in S /\ live'[x].q = live[x].q
    BY <1>3, <2>3, <2>4
  <2>6. id \in T => live'[id].q <= c
    BY <1>2, <1>3, <2>3
  <2>7. /\ Rest(s) \in Nat /\ Rest(s)' \in Nat
        /\ id \in S => Rest(s)' + live[id].q <= Rest(s) + c
        /\ id \notin S => Rest(s)' <= Rest(s) + 0
    <3>1. id \notin S => id \notin T
      BY <2>4
    <3>2. id \notin S => Rest(s)' <= Rest(s) + 0
      BY <2>1, <2>5, <3>1, RestAtMost
    <3> QED
      BY <1>3, <2>1, <2>5, <2>6, <3>2, RestAtMost
  <2>8. id \in S <=> s = live[id].side
    BY <2>2
  <2>9. Vol(requests, News(s)) \in Nat /\ Vol(requests, Limits(s)) \in Nat
    BY OfferIs
  <2>10. /\ Offer(s) = Rest(s) + Vol(requests, News(s)) /\ Offer(s)' = Rest(s)' + Vol(requests, News(s))
         /\ Asked(s) = Rest(s) + Vol(requests, Limits(s))
         /\ Asked(s)' = Rest(s)' + Vol(requests, Limits(s))
    BY <1>1 DEF Offer, Asked
  <2> QED
    BY <1>1, <1>2, <2>7, <2>8, <2>9, <2>10
<1>6. Moving' = Moving /\ Moving \in Nat
  BY <1>1, CountIs DEF Moving, FlowTyped
<1> QED
  BY <1>4, <1>5, <1>6 DEF Trade

\* What stands before and after a request is taken.
LEMMA TakeStands ==
  ASSUME FlowTyped, FlowTyped', TakeRequest, NEW r, r = Head(requests), NEW s
  PROVE  /\ \A x : x \in Standing(s) <=> x \in DOMAIN live /\ live[x].side = s /\ ~Asks(requests, x)
         /\ \A x : x \in Standing(s)' <=> x \in DOMAIN live' /\ live'[x].side = s /\ ~Asks(requests', x)
         /\ \A x : x # r.id \/ r.action # "Cancel" => (Asks(requests, x) => Asks(requests', x))
         /\ \A x \in DOMAIN live' : x # r.id => x \in DOMAIN live /\ live'[x] = live[x]
<1>1. requests # <<>> /\ requests' = Tail(requests)
  BY DEF TakeRequest
<1>2. \A x : x # r.id \/ r.action # "Cancel" => (Asks(requests, x) => Asks(requests', x))
  BY <1>1, TakenAre
<1>3. \A x \in DOMAIN live' : x # r.id => x \in DOMAIN live /\ live'[x] = live[x]
  <2>1. CASE AcceptLimit(r)
    BY <2>1 DEF AcceptLimit, LiveWith
  <2>2. CASE (\E filled \in 0..r.q : ExecuteMarket(r, filled)) \/ Refuse(r)
    BY <2>2 DEF ExecuteMarket, Refuse
  <2>3. CASE Replace(r)
    BY <2>3 DEF Replace
  <2>4. CASE Withdraw(r)
    BY <2>4 DEF Withdraw, LiveWithout
  <2> QED
    BY <2>1, <2>2, <2>3, <2>4 DEF TakeRequest
<1>4. \A x : x \in Standing(s) <=> x \in DOMAIN live /\ live[x].side = s /\ ~Asks(requests, x)
  BY StandingIs
<1>5. \A x : x \in Standing(s)' <=> x \in DOMAIN live' /\ live'[x].side = s /\ ~Asks(requests', x)
  BY StandingNext DEF FlowTyped
<1> QED
  BY <1>2, <1>3, <1>4, <1>5

\* What it leaves of the quantities: but for its own order, no more than there was.
LEMMA TakeRest ==
  ASSUME FlowTyped, FlowTyped', TakeRequest, NEW r, r = Head(requests), NEW s, NEW c \in Nat,
         r.id \in Standing(s)' => live'[r.id].q <= c
  PROVE  /\ Rest(s) \in Nat /\ Rest(s)' \in Nat
         /\ r.id \notin Standing(s) => Rest(s)' <= Rest(s) + c
         /\ r.id \in Standing(s) => live[r.id].q \in Nat \ {0} /\ Rest(s)' + live[r.id].q <= Rest(s) + c
<1>1. \A x \in Standing(s)' : x # r.id => x \in Standing(s) /\ live'[x].q = live[x].q
  BY TakeStands
<1> QED
  BY <1>1, RestAtMost

\* What it takes from those on their way.
LEMMA TakeVol ==
  ASSUME FlowTyped, FlowTyped', TakeRequest, NEW r, r = Head(requests), NEW s
  PROVE  /\ Vol(requests', News(s)) \in Nat /\ Moving' \in Nat
         /\ Vol(requests, News(s)) = Vol(requests', News(s)) + (IF r \in News(s) THEN r.q ELSE 0)
         /\ Moving = Moving' + (IF r \in Moves THEN 1 ELSE 0)
         /\ Offer(s) = Rest(s) + Vol(requests, News(s))
         /\ Offer(s)' = Rest(s)' + Vol(requests', News(s))
         /\ Vol(requests', Limits(s)) \in Nat
         /\ Vol(requests, Limits(s)) = Vol(requests', Limits(s)) + (IF r \in Limits(s) THEN r.q ELSE 0)
         /\ Asked(s) = Rest(s) + Vol(requests, Limits(s))
         /\ Asked(s)' = Rest(s)' + Vol(requests', Limits(s))
<1>1. requests # <<>> /\ requests' = Tail(requests)
  BY DEF TakeRequest
<1>2. requests \in Seq(Draft) /\ requests' \in Seq(Draft)
  BY DEF FlowTyped, Sent
<1>3. /\ Vol(requests, News(s)) = Vol(requests', News(s)) + (IF r \in News(s) THEN r.q ELSE 0)
      /\ Vol(requests, Limits(s)) = Vol(requests', Limits(s)) + (IF r \in Limits(s) THEN r.q ELSE 0)
  BY <1>1, <1>2, VolTail
<1>4. Moving = Moving' + (IF r \in Moves THEN 1 ELSE 0)
  BY <1>1, <1>2, CountTail DEF Moving
<1>5. Vol(requests', News(s)) \in Nat /\ Vol(requests', Limits(s)) \in Nat /\ Moving' \in Nat
  BY <1>2, QtysAre, CountIs DEF Moving
<1> QED
  BY <1>3, <1>4, <1>5 DEF Offer, Asked

\* A request that only takes away, and trades nothing.
LEMMA TakeNothing ==
  ASSUME FlowTyped, FlowTyped', TakeRequest, NEW r, r = Head(requests), r.side \in TwoSides,
         r.q \in Nat, Balance \in Int, NEW f \in Nat, Balance' = Balance + Signed(r.side, f),
         f = 0 \/ (IsNew(r) /\ r \in Draft /\ f <= r.q),
         \A s : r.id \in Standing(s)' => r.id \in Standing(s) /\ live'[r.id].q = live[r.id].q
  PROVE  Trade(r.side, f)
<1>1. ASSUME NEW s \in TwoSides
      PROVE  Offer(s)' + (IF s = r.side THEN f ELSE 0) <= Offer(s) /\ Asked(s)' <= Asked(s)
  <2>1. Rest(s) \in Nat /\ Rest(s)' \in Nat /\ Rest(s)' <= Rest(s)
    <3>1. CASE r.id \in Standing(s)
      <4>1. PICK c : c = live[r.id].q
        OBVIOUS
      <4>2. c \in Nat
        BY <3>1, <4>1 DEF Standing, FlowTyped
      <4>3. r.id \in Standing(s)' => live'[r.id].q <= c
        BY <4>1, <4>2
      <4> QED
        BY <3>1, <4>1, <4>2, <4>3, TakeRest
    <3>2. CASE r.id \notin Standing(s)
      <4>1. 0 \in Nat /\ (r.id \in Standing(s)' => live'[r.id].q <= 0)
        BY <3>2
      <4>2. Rest(s) \in Nat /\ Rest(s)' \in Nat /\ Rest(s)' <= Rest(s) + 0
        BY <3>2, <4>1, TakeRest
      <4> QED
        BY <4>2
    <3> QED
      BY <3>1, <3>2
  <2>2. s = r.side /\ f # 0 => r \in News(s)
    BY DEF News
  <2> QED
    BY <2>1, <2>2, TakeVol
<1>2. Moving' <= Moving
  BY TakeVol
<1> QED
  BY <1>1, <1>2 DEF Trade

\* A limit order opens: what was on its way stands.
LEMMA LimitTrades ==
  ASSUME FlowTyped, FlowTyped', TakeRequest, NEW r, r = Head(requests), r \in Draft,
         r.id \in Ids, r.id \notin DOMAIN live, AcceptLimit(r)
  PROVE  Trade(r.side, 0)
<1>1. /\ r.side \in TwoSides /\ r.side \in Sides /\ r.q \in Nat \ {0} /\ r.action = "Limit"
      /\ positions' = positions
  BY DEF AcceptLimit, Draft, TwoSides, Sides, TakeRequest, account
<1>2. live' = [x \in DOMAIN live \cup {r.id} |->
                IF x = r.id THEN [side |-> r.side, q |-> r.q] ELSE live[x]]
  BY DEF AcceptLimit, LiveWith
<1>3. Balance \in Int /\ Balance' = Balance + 0
  <2>1. Answer(<<Response("New", r.id, r.side, r.q)>>)
    BY DEF AcceptLimit
  <2> QED
    BY <1>1, <2>1, AnswerOne DEF ExecTypes
<1>4. ASSUME NEW s \in TwoSides PROVE Offer(s)' \in Nat /\ Offer(s)' <= Offer(s) /\ Asked(s)' <= Asked(s)
  <2>1. r.id \notin Standing(s) /\ (r.id \in Standing(s)' => s = r.side)
    BY <1>2, TakeStands
  <2>2. live'[r.id].q = r.q
    BY <1>2
  <2>3. (r \in News(s) <=> s = r.side) /\ (r \in Limits(s) <=> s = r.side)
    BY <1>1 DEF News, IsNew, Limits
  <2>4. CASE s = r.side
    <3>1. Rest(s) \in Nat /\ Rest(s)' \in Nat /\ Rest(s)' <= Rest(s) + r.q
      BY <1>1, <2>1, <2>2, TakeRest
    <3> QED
      BY <1>1, <2>3, <2>4, <3>1, TakeVol
  <2>5. CASE s # r.side
    <3>1. 0 \in Nat /\ (r.id \in Standing(s)' => live'[r.id].q <= 0)
      BY <2>1, <2>5
    <3>2. Rest(s) \in Nat /\ Rest(s)' \in Nat /\ Rest(s)' <= Rest(s) + 0
      BY <2>1, <3>1, TakeRest
    <3> QED
      BY <2>3, <2>5, <3>2, TakeVol
  <2> QED
    BY <2>4, <2>5
<1>5. Moving' <= Moving
  BY TakeVol
<1> QED
  BY <1>1, <1>3, <1>4, <1>5, SignedIs DEF Trade

\* A change is taken: the order, smaller as it may have become, is of the new quantity.
LEMMA ReplaceMoves ==
  ASSUME FlowTyped, FlowTyped', TakeRequest, NEW r, r = Head(requests), r \in Draft,
         r.id \in Ids, Replace(r)
  PROVE  Moved(r)
<1>1. /\ r.q \in Nat \ {0} /\ r.action = "Modify"
      /\ positions' = positions /\ r.id \in DOMAIN live
      /\ live[r.id].side \in TwoSides /\ live[r.id].side \in Sides
  BY DEF Replace, Draft, TwoSides, Sides, TakeRequest, account, FlowTyped
<1>2. live' = [live EXCEPT ![r.id].q = r.q] /\ live[r.id] \in [side : TwoSides, q : Nat \ {0}]
  BY <1>1 DEF Replace, FlowTyped
<1>3. live'[r.id].side = live[r.id].side /\ live'[r.id].q = r.q /\ DOMAIN live' = DOMAIN live
  BY <1>1, <1>2
<1>4. Balance \in Int /\ Balance' = Balance + 0
  <2>1. Answer(<<Response("Replaced", r.id, live[r.id].side, r.q)>>)
    BY DEF Replace
  <2> QED
    BY <1>1, <2>1, AnswerOne DEF ExecTypes
<1>5. ASSUME NEW s \in TwoSides
      PROVE  Offer(s)' <= Offer(s) + r.q - 1 /\ Asked(s)' <= Asked(s) + r.q - 1
  <2>1. r.id \in Standing(s)' => r.id \in Standing(s)
    BY <1>1, <1>3, TakeStands
  <2>2. r \notin News(s) /\ r \notin Limits(s)
    BY <1>1 DEF News, IsNew, Limits
  <2>3. CASE r.id \in Standing(s)
    <3>1. /\ Rest(s) \in Nat /\ Rest(s)' \in Nat
          /\ live[r.id].q \in Nat \ {0} /\ Rest(s)' + live[r.id].q <= Rest(s) + r.q
      BY <1>1, <1>3, <2>3, TakeRest
    <3>2. Rest(s)' <= Rest(s) + r.q - 1
      BY <1>1, <3>1
    <3> QED
      BY <1>1, <2>2, <3>1, <3>2, TakeVol
  <2>4. CASE r.id \notin Standing(s)
    <3>1. 0 \in Nat /\ (r.id \in Standing(s)' => live'[r.id].q <= 0)
      BY <2>1, <2>4
    <3>2. Rest(s) \in Nat /\ Rest(s)' \in Nat /\ Rest(s)' <= Rest(s) + 0
      BY <2>4, <3>1, TakeRest
    <3> QED
      BY <1>1, <2>2, <3>2, TakeVol
  <2> QED
    BY <2>3, <2>4
<1>6. Moving' + 1 <= Moving
  <2>1. r \in Moves
    BY <1>1 DEF Moves
  <2> QED
    BY <2>1, TakeVol
<1> QED
  BY <1>1, <1>4, <1>5, <1>6 DEF Moved

(* A request taken: a trade, perhaps of nothing, or a change of an order.     *)
LEMMA TakeTrades ==
  ASSUME FlowTyped, FlowTyped', TakeRequest, NEW r, r = Head(requests)
  PROVE  (\E side \in TwoSides, f \in Nat : Trade(side, f)) \/ Moved(r)
<1>1. requests # <<>> /\ requests' = Tail(requests) /\ positions' = positions
  BY DEF TakeRequest, account
<1>2. /\ r \in Sent /\ r \in Draft /\ r.id \in Ids /\ r.side \in TwoSides /\ r.side \in Sides
      /\ r.q \in Nat /\ (r.action # "Cancel" => r.q # 0)
  BY <1>1, HeadIs DEF Sent
<1>3. Balance \in Int /\ 0 \in Nat
  BY BalanceInt
<1>4. CASE AcceptLimit(r)
  BY <1>2, <1>3, <1>4, LimitTrades DEF AcceptLimit, IsNew
<1>5. ASSUME NEW filled \in 0..r.q, ExecuteMarket(r, filled)
      PROVE  \E side \in TwoSides, f \in Nat : Trade(side, f)
  <2>1. r.action = "Market" /\ r.id \notin DOMAIN live /\ live' = live /\ r.q \in Nat \ {0} /\ filled \in Nat /\ filled <= r.q
    BY <1>2, <1>5 DEF ExecuteMarket
  <2>2. Balance' = Balance + Signed(r.side, filled)
    BY <1>1, <1>2, <1>5, <2>1, MarketTrades
  <2>3. IsNew(r) /\ \A s : r.id \notin Standing(s)'
    BY <2>1, TakeStands DEF IsNew
  <2>4. Trade(r.side, filled)
    BY <1>2, <1>3, <2>1, <2>2, <2>3, TakeNothing
  <2> QED
    BY <1>2, <2>1, <2>4
<1>6. CASE Replace(r)
  BY <1>2, <1>6, ReplaceMoves
<1>7. CASE Withdraw(r) \/ Refuse(r)
  <2>1. \A s : r.id \in Standing(s)' => r.id \in Standing(s) /\ live'[r.id].q = live[r.id].q
    <3>1. CASE Withdraw(r)
      <4>1. r.id \notin DOMAIN live'
        BY <3>1 DEF Withdraw, LiveWithout
      <4> QED
        BY <4>1, TakeStands
    <3>2. CASE Refuse(r)
      <4>1. live' = live /\ (r.action = "Cancel" => r.id \notin DOMAIN live)
        BY <3>2 DEF Refuse, IsNew
      <4> QED
        BY <4>1, TakeStands
    <3> QED
      BY <1>7, <3>1, <3>2
  <2>2. Balance' = Balance + 0
    <3>1. CASE Withdraw(r)
      <4>1. /\ Answer(<<Response("Cancelled", r.id, live[r.id].side, live[r.id].q)>>)
            /\ live[r.id].q \in Nat /\ live[r.id].side \in Sides
        BY <3>1 DEF Withdraw, FlowTyped, TwoSides, Sides
      <4> QED
        BY <1>1, <1>2, <4>1, AnswerOne DEF ExecTypes, Listing
    <3>2. CASE Refuse(r)
      <4>1. Answer(<<Response("Unknown", r.id, "None", 0)>>)
        BY <3>2 DEF Refuse
      <4> QED
        BY <1>1, <1>2, <4>1, AnswerOne DEF ExecTypes, Listing, Sides
    <3> QED
      BY <1>7, <3>1, <3>2
  <2>3. Signed(r.side, 0) = 0
    BY SignedIs
  <2>4. Trade(r.side, 0)
    BY <1>2, <1>3, <2>1, <2>2, <2>3, TakeNothing
  <2> QED
    BY <1>2, <1>3, <2>4
<1> QED
  BY <1>4, <1>2, <1>3, <1>5, <1>6, <1>7 DEF TakeRequest

-----------------------------------------------------------------------------
(* What a pass adds to what is offered, and to the changes on their way.      *)
LEMMA PassOffers ==
  ASSUME FlowTyped, NEW batch, NEW late, Pass(batch, late), NEW s
  PROVE  /\ batch \in Seq(Draft) /\ requests' \in Seq(Draft) /\ requests \in Seq(Draft)
         /\ Vol(batch, News(s)) \in Nat /\ Count(batch, Moves) \in Nat
         /\ Rest(s)' \in Nat /\ Rest(s)' <= Rest(s) /\ Offer(s)' \in Nat /\ Offer(s) \in Nat
         /\ Offer(s)' = Rest(s)' + Vol(requests, News(s)) + Vol(batch, News(s))
         /\ Offer(s)' <= Offer(s) + Vol(batch, News(s))
         /\ Vol(batch, Limits(s)) \in Nat /\ Asked(s) \in Nat /\ Asked(s)' \in Nat
         /\ Asked(s)' = Rest(s)' + Vol(requests, Limits(s)) + Vol(batch, Limits(s))
         /\ Asked(s)' <= Asked(s) + Vol(batch, Limits(s))
         /\ Moving \in Nat /\ Moving' = Moving + Count(batch, Moves)
         /\ Balance \in Int /\ Balance' = Balance
<1>1. batch \in Seq(Draft) /\ requests \in Seq(Draft) /\ UNCHANGED <<positions, wire, live>>
  BY DEF Pass, Proper, FlowTyped, Sent, account
<1>2. FlowTyped'
  BY PassTyped
<1>3. requests' \in Seq(Draft)
  BY <1>2 DEF FlowTyped, Sent
<1>4. PICK b : Added(batch, b)
  BY PassAdds
<1>5. b \in Seq(Draft) /\ Len(b) = Len(batch) /\ requests' = requests \o b
  BY <1>4 DEF Added, Sent
<1>6. \A i \in 1..Len(batch) : /\ b[i] \in News(s) <=> batch[i] \in News(s)
                               /\ b[i] \in Limits(s) <=> batch[i] \in Limits(s)
                               /\ b[i] \in Moves <=> batch[i] \in Moves
                               /\ b[i].q = batch[i].q
  <2>1. ASSUME NEW i \in 1..Len(batch)
        PROVE  /\ b[i] \in News(s) <=> batch[i] \in News(s)
               /\ b[i] \in Limits(s) <=> batch[i] \in Limits(s)
               /\ b[i] \in Moves <=> batch[i] \in Moves
               /\ b[i].q = batch[i].q
    <3>1. batch[i] \in Draft /\ b[i] \in Draft /\ Likeness(b[i], batch[i])
      BY <1>1, <1>4, <1>5 DEF Added
    <3> QED
      BY <3>1 DEF Likeness, News, Moves, Limits, IsNew
  <2> QED
    BY <2>1
<1>7. Vol(b, News(s)) = Vol(batch, News(s)) /\ Vol(b, Limits(s)) = Vol(batch, Limits(s)) /\ Count(b, Moves) = Count(batch, Moves)
  BY <1>1, <1>5, <1>6, VolSame, CountSame
<1>8. /\ Vol(requests', News(s)) = Vol(requests, News(s)) + Vol(batch, News(s))
      /\ Vol(requests', Limits(s)) = Vol(requests, Limits(s)) + Vol(batch, Limits(s))
  BY <1>1, <1>5, <1>7, VolConcat
<1>9. Moving' = Moving + Count(batch, Moves)
  <2>1. Count(requests \o b, Moves) = Count(requests, Moves) + Count(b, Moves)
    BY <1>1, <1>5, CountConcat
  <2> QED
    BY <1>5, <1>7, <2>1 DEF Moving
<1>10. /\ Vol(batch, News(s)) \in Nat /\ Vol(requests, News(s)) \in Nat
       /\ Vol(batch, Limits(s)) \in Nat /\ Vol(requests, Limits(s)) \in Nat
       /\ Count(batch, Moves) \in Nat /\ Moving \in Nat
  BY <1>1, QtysAre, CountIs DEF Moving
<1>11. Rest(s) \in Nat /\ Rest(s)' \in Nat /\ Rest(s)' <= Rest(s)
  <2>1. PICK S, T, g : S = Standing(s) /\ T = Standing(s)' /\ g = Rested(live)
    OBVIOUS
  <2>2. T \subseteq S
    BY <1>4, <2>1, PassStands
  <2>3. P!IsFiniteSet(S) /\ \A id \in S : g[id] \in Nat
    BY <2>1, RestedAre DEF Standing
  <2>4. P!Sum(g, T) \in Nat /\ P!Sum(g, S) \in Nat /\ P!Sum(g, T) <= P!Sum(g, S)
    BY <2>2, <2>3, P!SumPart
  <2>5. Rest(s) = P!Sum(g, S) /\ Rest(s)' = P!Sum(g, T)
    BY <1>1, <2>1 DEF Rest
  <2> QED
    BY <2>4, <2>5
<1>12. /\ Offer(s) = Rest(s) + Vol(requests, News(s)) /\ Offer(s)' = Rest(s)' + Vol(requests', News(s))
       /\ Asked(s) = Rest(s) + Vol(requests, Limits(s)) /\ Asked(s)' = Rest(s)' + Vol(requests', Limits(s))
  BY DEF Offer, Asked
<1>13. Balance \in Int /\ Balance' = Balance
  BY <1>1, BalanceIs, BalanceInt
<1>14. PICK R, RR, n, nn, l, ll, bn, bl :
         /\ R = Rest(s) /\ RR = Rest(s)' /\ n = Vol(requests, News(s)) /\ nn = Vol(requests', News(s))
         /\ l = Vol(requests, Limits(s)) /\ ll = Vol(requests', Limits(s))
         /\ bn = Vol(batch, News(s)) /\ bl = Vol(batch, Limits(s))
  OBVIOUS
<1>15. /\ R \in Nat /\ RR \in Nat /\ RR <= R /\ n \in Nat /\ l \in Nat /\ bn \in Nat /\ bl \in Nat
       /\ nn = n + bn /\ ll = l + bl
  BY <1>8, <1>10, <1>11, <1>14
<1>16. /\ RR + nn = RR + n + bn /\ RR + nn <= R + n + bn /\ R + n \in Nat /\ RR + nn \in Nat
       /\ RR + ll = RR + l + bl /\ RR + ll <= R + l + bl /\ R + l \in Nat /\ RR + ll \in Nat
  BY <1>15
<1>17. Offer(s) = R + n /\ Offer(s)' = RR + nn /\ Asked(s) = R + l /\ Asked(s)' = RR + ll
  BY <1>12, <1>14
<1>18. /\ Rest(s)' \in Nat /\ Rest(s)' <= Rest(s) /\ Offer(s)' \in Nat /\ Offer(s) \in Nat
       /\ Offer(s)' = Rest(s)' + Vol(requests, News(s)) + Vol(batch, News(s))
       /\ Offer(s)' <= Offer(s) + Vol(batch, News(s))
       /\ Asked(s) \in Nat /\ Asked(s)' \in Nat
       /\ Asked(s)' = Rest(s)' + Vol(requests, Limits(s)) + Vol(batch, Limits(s))
       /\ Asked(s)' <= Asked(s) + Vol(batch, Limits(s))
  BY ONLY <1>14, <1>15, <1>16, <1>17
<1> QED
  BY <1>1, <1>3, <1>9, <1>10, <1>13, <1>18

\* On an account in step, nothing is on its way.
LEMMA OfferHere ==
  ASSUME FlowTyped, requests = <<>>, NEW s
  PROVE  /\ Vol(requests, News(s)) = 0 /\ Moving = 0
         /\ Rest(s) \in Nat /\ Offer(s) = Rest(s)
<1>1. requests \in Seq(Draft) /\ Len(requests) = 0
  BY DEF FlowTyped, Sent
<1>2. \A T : \A i \in 1..Len(requests) : requests[i] \notin T
  BY <1>1
<1>3. Vol(requests, News(s)) = 0 /\ Moving = 0
  BY <1>1, <1>2, VolNone, CountNone DEF Moving
<1> QED
  BY <1>3, OfferIs DEF Offer

\* A batch of one order, or of none.
LEMMA SendOne ==
  ASSUME NEW r \in Draft, NEW s
  PROVE  /\ Vol(<<r>>, News(s)) = IF IsNew(r) /\ r.side = s THEN r.q ELSE 0
         /\ Vol(<<r>>, Limits(s)) = IF r.action = "Limit" /\ r.side = s THEN r.q ELSE 0
         /\ Count(<<r>>, Moves) = IF r.action = "Modify" THEN 1 ELSE 0
<1>1. /\ Vol(<<r>>, News(s)) = IF IsNew(r) /\ r.side = s THEN r.q ELSE 0
      /\ Vol(<<r>>, Limits(s)) = IF r.action = "Limit" /\ r.side = s THEN r.q ELSE 0
  BY VolOne DEF News, Limits
<1>2. PICK h : h = <<r>>
  OBVIOUS
<1>3. h \in Seq(Draft) /\ h # <<>> /\ Head(h) = r /\ Tail(h) = <<>>
  BY <1>2
<1>4. Count(h, Moves) = Count(<<>>, Moves) + (IF r \in Moves THEN 1 ELSE 0)
  BY <1>3, CountTail
<1>5. Count(<<>>, Moves) = 0
  <2>1. \A i \in 1..Len(<<>>) : <<>>[i] \notin Moves
    OBVIOUS
  <2> QED
    BY <2>1, CountNone
<1> QED
  BY <1>1, <1>2, <1>4, <1>5 DEF Moves

\* No request asks for anything or moves an order.
LEMMA SendNone ==
  ASSUME NEW s
  PROVE  /\ <<>> \in Seq(Draft) /\ Vol(<<>>, News(s)) = 0 /\ Count(<<>>, Moves) = 0
         /\ Vol(<<>>, Limits(s)) = 0
<1>1. PICK e : e = <<>>
  OBVIOUS
<1>2. e \in Seq(Draft) /\ Len(e) = 0
  BY <1>1
<1>3. \A T : \A i \in 1..Len(e) : e[i] \notin T
  BY <1>2
<1> QED
  BY <1>1, <1>2, <1>3, VolNone, CountNone

\* The orders that an agent changes or cancels, and none of them new.
LEMMA ChangesOffer ==
  ASSUME NEW open, NEW fate, NEW n \in Nat, NEW batch, Decided(open, fate, n, batch), NEW s
  PROVE  /\ batch \in Seq(Draft) /\ Vol(batch, News(s)) = 0
         /\ \A i \in 1..Len(batch) : ~IsNew(batch[i])
<1>1. batch \in Seq(Draft)
  BY DEF Decided
<1>2. ASSUME NEW i \in 1..Len(batch) PROVE ~IsNew(batch[i])
  <2>1. \A o : ~IsNew(Modify(o)) /\ ~IsNew(Cancel(o))
    BY DEF Modify, Cancel, Request, IsNew
  <2>2. \E o : batch[i] = Modify(o) \/ batch[i] = Cancel(o)
    BY <1>2 DEF Decided
  <2> QED
    BY <2>1, <2>2
<1> QED
  BY <1>1, <1>2, VolNone DEF News

-----------------------------------------------------------------------------

(* The insider's inventory.  Its replacements are of PassiveQty, and it        *)
(* cancels nothing.                                                           *)
SmallRequest(r) == r.action # "Cancel" /\ (r.action = "Modify" => r.q <= PassiveQty)

Small == \A i \in 1..Len(requests) : SmallRequest(requests[i])

\* The position that a side would reach, were all of its orders to trade, each
\* replaced one after all but one of its quantity has; and its limit orders alone.
Reach(s)  == Signed(s, Balance) + Offer(s) + (PassiveQty - 1) * Moving
Quoted(s) == Asked(s) + (PassiveQty - 1) * Moving

\* Where the position may be when something is sent, and what may be offered then.
Room(s)   == Larger(MaxPos - 1, Signed(s, legacy.positions[Symbol]))
Inherited(s) == P!Sum(Rested(legacy.orders), LeftOn(s))
Quotes(s)    == Larger(PassiveQty, Inherited(s))

\* What the replacements, and what is sent on an account out of date, add.
Extra == (PassiveQty - 1) * refills + PassiveQty * stale

\* A thread that is to send a quote has found the position within the limit.
ReadsWithin == \A t \in Threads : read[t].at \in TwoSides => Within(read[t].at, read[t].pos)

Bounded(s) ==
  /\ Reach(s) <= Room(s) + SnipeQty + Quotes(s) + Extra
  /\ Quoted(s) <= Quotes(s) + Extra

InsiderInv ==
  agent = "insider" =>
    Small /\ ReadsWithin /\ Moving <= refills /\ \A s \in TwoSides : Bounded(s)

\* Products of natural numbers.
LEMMA Times ==
  ASSUME NEW c \in Nat, NEW m \in Nat, NEW n \in Nat
  PROVE  /\ c * m \in Nat /\ c * n \in Nat /\ c * (m + n) = c * m + c * n
         /\ n <= m => c * n <= c * m
<1>1. c * m \in Nat /\ c * n \in Nat /\ c * (m + n) = c * m + c * n
  OBVIOUS
<1>2. ASSUME n <= m PROVE c * n <= c * m
  <2>1. PICK d \in Nat : m = n + d
    <3>1. m - n \in Nat /\ m = n + (m - n)
      BY <1>2
    <3> QED
      BY <3>1
  <2>2. c * m = c * n + c * d /\ c * d \in Nat
    BY <2>1
  <2> QED
    BY <1>1, <2>2
<1> QED
  BY <1>1, <1>2

\* What is offered and on its way are numbers.
Numbers == \A s : Offer(s) \in Nat /\ Asked(s) \in Nat /\ Moving \in Nat /\ Balance \in Int

\* They are, by the types of what they count.
LEMMA NumbersAre == FlowTyped => Numbers
<1> SUFFICES ASSUME FlowTyped, NEW s
             PROVE  Offer(s) \in Nat /\ Asked(s) \in Nat /\ Moving \in Nat /\ Balance \in Int
  BY DEF Numbers
<1>1. requests \in Seq(Draft)
  BY DEF FlowTyped, Sent
<1> QED
  BY <1>1, OfferIs, CountIs, BalanceInt DEF Moving

\* The same after a step.
LEMMA NumbersNext ==
  ASSUME FlowTyped', NEW s
  PROVE  Offer(s)' \in Nat /\ Asked(s)' \in Nat /\ Moving' \in Nat /\ Balance' \in Int
<1>1. FlowTyped' => Numbers'
  BY NumbersAre, PTL
<1>2. Numbers'
  BY <1>1
<1> QED
  BY <1>2 DEF Numbers

\* Its numbers.
LEMMA InsiderNumbers ==
  /\ MaxPos \in Nat /\ PassiveQty \in Nat \ {0} /\ PassiveQty - 1 \in Nat
  /\ SnipeQty \in Nat \ {0} /\ SnipeQty <= PassiveQty
BY InsiderAssumption

\* The quantity that the process before left.
LEMMA LeftOfferedIs ==
  ASSUME FlowTyped, NEW s
  PROVE  LeftOffered(s) \in Nat /\ LeftOffered(s) = Inherited(s)
<1>1. PICK S, g : S = LeftOn(s) /\ g = Rested(legacy.orders)
  OBVIOUS
<1>2. IsFiniteSet(S) /\ S \subseteq DOMAIN legacy.orders
  BY <1>1, BaseIs DEF LeftOn
<1>3. \A id \in S : g[id] = legacy.orders[id].q /\ g[id] \in Nat
  <2>1. \A id \in DOMAIN legacy.orders : legacy.orders[id] \in [side : TwoSides, q : Nat \ {0}]
    BY LegacyIs DEF FlowTyped
  <2> QED
    BY <1>1, <1>2, <2>1 DEF Rested
<1>4. MapThenSumSet(LAMBDA id : legacy.orders[id].q, S) = P!Sum(g, S)
  BY <1>2, <1>3, TallyIs, Zenon
<1>5. P!Sum(g, S) \in Nat
  BY <1>2, <1>3, FiniteAlike, P!SumPart
<1>6. LeftOffered(s) = P!Sum(g, S)
  BY <1>1, <1>4, Zenon DEF LeftOffered
<1> QED
  BY <1>1, <1>5, <1>6 DEF Inherited

\* The numbers of the bound.
LEMMA BoundIs ==
  ASSUME FlowTyped, refills \in Nat, NEW s
  PROVE  /\ Room(s) \in Int /\ MaxPos - 1 <= Room(s)
         /\ Signed(s, legacy.positions[Symbol]) \in Int /\ Signed(s, legacy.positions[Symbol]) <= Room(s)
         /\ Quotes(s) \in Nat /\ PassiveQty <= Quotes(s) /\ Inherited(s) <= Quotes(s)
         /\ (PassiveQty - 1) * refills \in Nat /\ PassiveQty * stale \in Nat /\ Extra \in Nat
<1>1. legacy.positions[Symbol] \in Int
  <2>1. Symbol \in Assets /\ legacy.positions \in [Assets -> Int]
    BY LegacyIs, ClientAssumption DEF FlowTyped, Symbol, Assets
  <2> QED
    BY <2>1
<1>2. PICK b : b = Signed(s, legacy.positions[Symbol])
  OBVIOUS
<1>3. b \in Int
  BY <1>1, <1>2, SignedIs
<1>4. Room(s) = Larger(MaxPos - 1, b)
  BY <1>2 DEF Room
<1>5. Room(s) \in Int /\ MaxPos - 1 <= Room(s) /\ b <= Room(s)
  BY <1>3, <1>4, InsiderNumbers DEF Larger
<1>6. Quotes(s) \in Nat /\ PassiveQty <= Quotes(s) /\ Inherited(s) <= Quotes(s)
  BY LeftOfferedIs, InsiderNumbers DEF Quotes, Larger
<1>7. (PassiveQty - 1) * refills \in Nat /\ PassiveQty * stale \in Nat
  BY InsiderNumbers, Times DEF FlowTyped
<1>8. Extra \in Nat
  BY <1>7 DEF Extra
<1> QED
  BY <1>2, <1>3, <1>5, <1>6, <1>7, <1>8

\* What was left stays what it was.
LEMMA BoundSame ==
  ASSUME UNCHANGED who, NEW s
  PROVE  Room(s)' = Room(s) /\ Quotes(s)' = Quotes(s)
<1>1. legacy' = legacy
  BY DEF who
<1>2. LeftOn(s)' = LeftOn(s)
  BY <1>1 DEF LeftOn
<1>3. Inherited(s)' = Inherited(s)
  BY <1>1, <1>2 DEF Inherited
<1> QED
  BY <1>1, <1>3 DEF Room, Quotes, Signed

\* What is reached, as a sum of numbers.
LEMMA ReachIs ==
  ASSUME NEW b \in Int, NEW o \in Nat, NEW m \in Nat, NEW s
  PROVE  /\ Signed(s, b) \in Int /\ (PassiveQty - 1) * m \in Nat
         /\ Signed(s, b) + o + (PassiveQty - 1) * m \in Int
<1>1. Signed(s, b) \in Int
  BY SignedIs
<1>2. (PassiveQty - 1) * m \in Nat
  BY InsiderNumbers, Times
<1> QED
  BY <1>1, <1>2

\* A trade moves the position towards what was counted as offered.
LEMMA ReachTrade ==
  ASSUME FlowTyped, FlowTyped', NEW side \in TwoSides, NEW f \in Nat, Trade(side, f),
         NEW s \in TwoSides
  PROVE  /\ Reach(s)' \in Int /\ Reach(s) \in Int /\ Reach(s)' <= Reach(s)
         /\ Quoted(s)' \in Int /\ Quoted(s) \in Int /\ Quoted(s)' <= Quoted(s)
<1>1. PICK b, o, a, m, c, p, aa, n, k :
        /\ b = Balance /\ o = Offer(s) /\ a = Asked(s) /\ m = Moving
        /\ c = Balance' /\ p = Offer(s)' /\ aa = Asked(s)' /\ n = Moving'
        /\ k = PassiveQty - 1
  OBVIOUS
<1>2. /\ b \in Int /\ o \in Nat /\ a \in Nat /\ m \in Nat
      /\ c \in Int /\ p \in Nat /\ aa \in Nat /\ n \in Nat /\ k \in Nat
  BY <1>1, NumbersAre, NumbersNext, InsiderNumbers DEF Numbers
<1>3. /\ c = b + Signed(side, f) /\ n <= m
      /\ p + (IF s = side THEN f ELSE 0) <= o /\ aa <= a
  BY <1>1 DEF Trade
<1>4. /\ Reach(s) = Signed(s, b) + o + k * m /\ Reach(s)' = Signed(s, c) + p + k * n
      /\ Quoted(s) = a + k * m /\ Quoted(s)' = aa + k * n
  BY <1>1 DEF Reach, Quoted, Signed
<1>5. k * n \in Nat /\ k * m \in Nat /\ k * n <= k * m
  BY <1>2, <1>3, Times
<1>6. Signed(s, c) = Signed(s, b) + (IF s = side THEN f ELSE -f)
  BY <1>2, <1>3 DEF Signed, TwoSides
<1>7. Signed(s, b) \in Int
  BY <1>2, SignedIs
<1>8. PICK x, y, v, w : x = Signed(s, c) /\ y = Signed(s, b) /\ v = k * n /\ w = k * m
  OBVIOUS
<1>9. /\ y \in Int /\ v \in Nat /\ w \in Nat /\ v <= w /\ x = y + (IF s = side THEN f ELSE -f)
  BY <1>5, <1>6, <1>7, <1>8
<1>10. x \in Int /\ x + p + v <= y + o + w /\ aa + v <= a + w
  BY <1>2, <1>3, <1>9
<1> QED
  BY <1>2, <1>4, <1>8, <1>9, <1>10

\* A change that is taken was counted when it was sent.
LEMMA ReachMoved ==
  ASSUME FlowTyped, FlowTyped', NEW r, r.q \in Nat, r.q <= PassiveQty, Moved(r), NEW s \in TwoSides
  PROVE  /\ Reach(s)' \in Int /\ Reach(s) \in Int /\ Reach(s)' <= Reach(s)
         /\ Quoted(s)' \in Int /\ Quoted(s) \in Int /\ Quoted(s)' <= Quoted(s)
<1>1. PICK b, o, a, m, p, aa, n, k :
        /\ b = Balance /\ o = Offer(s) /\ a = Asked(s) /\ m = Moving
        /\ p = Offer(s)' /\ aa = Asked(s)' /\ n = Moving' /\ k = PassiveQty - 1
  OBVIOUS
<1>2. /\ b \in Int /\ o \in Nat /\ a \in Nat /\ m \in Nat /\ p \in Nat /\ aa \in Nat /\ n \in Nat
      /\ k \in Nat /\ PassiveQty \in Nat
  BY <1>1, NumbersAre, NumbersNext, InsiderNumbers DEF Numbers
<1>3. Balance' = b /\ p <= o + k /\ aa <= a + k /\ n + 1 <= m
  <2>1. Balance' = Balance /\ p <= o + r.q - 1 /\ aa <= a + r.q - 1 /\ n + 1 <= m
    BY <1>1 DEF Moved
  <2>2. PICK q, l : q = r.q /\ l = PassiveQty
    OBVIOUS
  <2>3. q \in Nat /\ q <= l /\ l \in Nat /\ k = l - 1
    BY <1>1, <1>2, <2>2
  <2>4. Balance' = Balance /\ p <= o + q - 1 /\ aa <= a + q - 1 /\ n + 1 <= m
    BY <2>1, <2>2
  <2>5. p <= o + k /\ aa <= a + k
    BY ONLY <1>2, <2>3, <2>4
  <2> QED
    BY <1>1, <2>4, <2>5
<1>4. /\ Reach(s) = Signed(s, b) + o + k * m /\ Reach(s)' = Signed(s, b) + p + k * n
      /\ Quoted(s) = a + k * m /\ Quoted(s)' = aa + k * n
  BY <1>1, <1>3 DEF Reach, Quoted, Signed
<1>5. Signed(s, b) \in Int
  BY <1>2, SignedIs
<1>6. PICK y, v, w : y = Signed(s, b) /\ v = k * n /\ w = k * m
  OBVIOUS
<1>7. y \in Int /\ v \in Nat /\ w \in Nat
  BY <1>2, <1>5, <1>6, Times
<1>8. v + k <= w
  <2>1. k * (n + 1) <= k * m /\ k * (n + 1) = k * n + k * 1
    BY <1>2, <1>3, Times
  <2> QED
    BY <1>2, <1>6, <2>1
<1>9. y + p + v <= y + o + w /\ aa + v <= a + w
  BY <1>2, <1>3, <1>7, <1>8
<1> QED
  BY <1>2, <1>4, <1>6, <1>7, <1>9

\* The exchange takes the first request.
LEMMA SmallTakes ==
  ASSUME FlowTyped, Small, TakeRequest PROVE Small'
<1>1. requests \in Seq(Sent) /\ requests # <<>> /\ requests' = Tail(requests)
  BY DEF FlowTyped, TakeRequest
<1>2. \A i \in 1..Len(requests') : i + 1 \in 1..Len(requests) /\ requests'[i] = requests[i + 1]
  BY <1>1, TailAt
<1> QED
  BY <1>2 DEF Small

\* A pass that sends small requests.
LEMMA SmallPass ==
  ASSUME FlowTyped, Small, NEW batch, NEW late, Pass(batch, late),
         \A i \in 1..Len(batch) : SmallRequest(batch[i])
  PROVE  Small'
<1>1. PICK b : Added(batch, b)
  BY PassAdds
<1>2. ASSUME NEW i \in 1..Len(requests') PROVE SmallRequest(requests'[i])
  <2>1. CASE i \in 1..Len(requests) /\ requests'[i] = requests[i]
    BY <2>1 DEF Small
  <2>2. ASSUME NEW k \in 1..Len(batch), i = Len(requests) + k /\ requests'[i] = b[k]
        PROVE  SmallRequest(requests'[i])
    <3>1. Likeness(b[k], batch[k])
      BY <1>1 DEF Added
    <3> QED
      BY <2>2, <3>1 DEF Likeness, SmallRequest
  <2> QED
    BY <1>1, <1>2, <2>1, <2>2, AddedAre
<1> QED
  BY <1>2 DEF Small

\* A thread goes on with what it has read.
LEMMA ReadsKept ==
  ASSUME FlowTyped, ReadsWithin, NEW t \in Threads, NEW r, Goes(t, r),
         r.at \in TwoSides => Within(r.at, r.pos)
  PROVE  ReadsWithin'
<1>1. read' = [read EXCEPT ![t] = r] /\ read \in [Threads -> Reading]
  BY DEF Goes, FlowTyped
<1>2. ASSUME NEW u \in Threads, read'[u].at \in TwoSides
      PROVE  Within(read'[u].at, read'[u].pos)
  <2>1. CASE u = t
    BY <1>1, <1>2, <2>1
  <2>2. CASE u # t
    <3>1. read'[u] = read[u]
      BY <1>1, <2>2
    <3> QED
      BY <1>2, <3>1 DEF ReadsWithin
  <2> QED
    BY <2>1, <2>2
<1> QED
  BY <1>2 DEF ReadsWithin, Within, Signed

\* Where nothing stands, nothing rests.
LEMMA RestNone ==
  ASSUME NEW s
  PROVE  (Standing(s) = {} => Rest(s) = 0) /\ (Standing(s)' = {} => Rest(s)' = 0)
<1>1. ASSUME NEW g PROVE P!Sum(g, {}) = 0
  <2>1. P!IsFiniteSet({})
    BY FS_EmptySet, FiniteAlike
  <2>2. P!Adds(g, {})
    BY <2>1, P!SumAdds
  <2> QED
    BY <2>2 DEF P!Adds
<1> QED
  BY <1>1 DEF Rest

(* On an account in step, nothing stands on a side of which nothing is listed  *)
(* that the pass does not cancel.                                             *)
LEMMA Cleared ==
  ASSUME FlowTyped, StepInv, wire = <<>>, NEW batch, NEW late, Pass(batch, late), NEW s,
         \A i \in 1..Len(open_orders) :
           open_orders[i].side = s => Asks(batch, open_orders[i].id)
  PROVE  Rest(s)' = 0
<1>1. Lists(open_orders, live)
  <2>1. PICK none : none = <<>>
    OBVIOUS
  <2>2. O!Fold(open_orders, none) = open_orders
    BY <2>1, O!FoldEmpty
  <2> QED
    BY <2>1, <2>2 DEF StepInv
<1>2. PICK b : Added(batch, b)
  BY PassAdds
<1>3. PICK S, T : S = Standing(s) /\ T = Standing(s)'
  OBVIOUS
<1>4. \A id \in T : id \in DOMAIN live /\ live[id].side = s /\ ~Asks(batch, id)
  BY <1>2, <1>3, PassStands
<1>5. ASSUME NEW id \in T PROVE FALSE
  <2>1. PICK i \in 1..Len(open_orders) : open_orders[i].id = id
    BY <1>1, <1>4 DEF Lists
  <2>2. open_orders[i].side = s
    BY <1>1, <1>4, <2>1 DEF Lists
  <2> QED
    BY <1>4, <2>1, <2>2
<1>6. Standing(s)' = {}
  BY <1>3, <1>5
<1> QED
  BY <1>6, RestNone

(* What is sent, as numbers: x the position and o, a what is offered and asked  *)
(* of a side before, p and aa after, v, w, c and d of the replacements, e and f *)
(* of what was sent late.                                                       *)
LEMMA SentSum ==
  ASSUME NEW x \in Int, NEW o \in Nat, NEW p \in Nat, NEW a \in Nat, NEW aa \in Nat,
         NEW v \in Nat, NEW g \in Nat, NEW c \in Nat, NEW e \in Nat, NEW f \in Nat,
         NEW room \in Int, NEW quotes \in Nat, NEW sn \in Nat, NEW q \in Nat,
         sn <= q, q <= quotes, v <= c,
         x + o + v <= room + sn + quotes + (c + e), a + v <= quotes + (c + e),
         \/ p <= o /\ aa <= a /\ e <= f
         \/ p <= o + q /\ aa <= a + q /\ f = e + q
         \/ x <= room /\ p <= a + sn /\ aa <= a /\ e <= f
         \/ x <= room /\ p <= q /\ aa <= q /\ e <= f
  PROVE  /\ x + p + (v + g) <= room + sn + quotes + ((c + g) + f)
         /\ aa + (v + g) <= quotes + ((c + g) + f)
<1>1. CASE p <= o /\ aa <= a /\ e <= f
  BY <1>1
<1>2. CASE p <= o + q /\ aa <= a + q /\ f = e + q
  BY <1>2
<1>3. CASE x <= room /\ p <= a + sn /\ aa <= a /\ e <= f
  BY <1>3
<1>4. CASE x <= room /\ p <= q /\ aa <= q /\ e <= f
  BY <1>4
<1> QED
  BY <1>1, <1>2, <1>3, <1>4

(* A pass of a thread keeps a side within the bound: it adds nothing there; or *)
(* no more than a quote, late; or, on an account in step and within the limit,  *)
(* a market order, or a quote with nothing else there.                          *)
LEMMA SentKeeps ==
  ASSUME FlowTyped, refills \in Nat, refills' \in Nat, Moving <= refills,
         NEW s \in TwoSides, Bounded(s), NEW batch, NEW late, Pass(batch, late),
         refills' = refills + Count(batch, Moves),
         \/ Vol(batch, News(s)) = 0 /\ Vol(batch, Limits(s)) = 0
         \/ /\ late /\ batch # <<>>
            /\ Vol(batch, News(s)) <= PassiveQty /\ Vol(batch, Limits(s)) <= PassiveQty
         \/ /\ Within(s, Balance)
            /\ Vol(requests, News(s)) = 0 /\ Vol(requests, Limits(s)) = 0
            /\ \/ Vol(batch, News(s)) <= SnipeQty /\ Vol(batch, Limits(s)) = 0
               \/ /\ Vol(batch, News(s)) <= PassiveQty /\ Vol(batch, Limits(s)) <= PassiveQty
                  /\ Rest(s)' = 0
  PROVE  Bounded(s)' /\ Moving' <= refills'
<1>1. PICK x, o, p, a, aa, g, mb, q, k :
        /\ x = Signed(s, Balance) /\ o = Offer(s) /\ p = Offer(s)' /\ a = Asked(s) /\ aa = Asked(s)'
        /\ mb = Count(batch, Moves) /\ q = PassiveQty /\ k = PassiveQty - 1 /\ g = k * mb
  OBVIOUS
<1>2. PICK v, c, e, f, room, quotes, sn :
        /\ v = k * Moving /\ c = k * refills /\ e = q * stale /\ f = q * stale'
        /\ room = Room(s) /\ quotes = Quotes(s) /\ sn = SnipeQty
  OBVIOUS
<1>3. PICK r, rr, n, l, bn, bl :
        /\ r = Rest(s) /\ rr = Rest(s)' /\ n = Vol(requests, News(s)) /\ l = Vol(requests, Limits(s))
        /\ bn = Vol(batch, News(s)) /\ bl = Vol(batch, Limits(s))
  OBVIOUS
<1>4. /\ stale \in Nat /\ stale' \in Nat /\ (stale' = stale \/ stale' = stale + 1)
      /\ batch # <<>> /\ late => stale' = stale + 1
  BY PassAdds DEF FlowTyped
<1>5. /\ mb \in Nat /\ bn \in Nat /\ bl \in Nat /\ o \in Nat /\ p \in Nat /\ a \in Nat /\ aa \in Nat
      /\ rr \in Nat /\ p = rr + n + bn /\ p <= o + bn /\ aa = rr + l + bl /\ aa <= a + bl
      /\ Moving \in Nat /\ Moving' = Moving + mb /\ Balance' = Balance /\ Balance \in Int
      /\ rr <= r
  BY <1>1, <1>3, PassOffers
<1>6. r \in Nat /\ n \in Nat /\ l \in Nat /\ a = r + l
  BY <1>1, <1>3, OfferIs DEF Asked
<1>7. /\ q \in Nat /\ k \in Nat /\ sn \in Nat /\ sn <= q /\ x \in Int
      /\ room \in Int /\ quotes \in Nat /\ q <= quotes /\ MaxPos - 1 <= room /\ MaxPos \in Nat
  BY <1>1, <1>2, <1>5, InsiderNumbers, BoundIs, SignedIs
<1>8. /\ v \in Nat /\ c \in Nat /\ g \in Nat /\ v <= c
      /\ k * (Moving + mb) = v + g /\ k * (refills + mb) = c + g
  <2>1. PICK m, h : m = Moving /\ h = refills
    OBVIOUS
  <2>2. m \in Nat /\ h \in Nat /\ m <= h /\ mb \in Nat /\ k \in Nat
    BY <1>5, <1>7, <2>1
  <2>3. k * m \in Nat /\ k * mb \in Nat /\ k * (m + mb) = k * m + k * mb
    BY ONLY <2>2, Times
  <2>4. k * h \in Nat /\ k * (h + mb) = k * h + k * mb
    BY ONLY <2>2, Times
  <2>5. k * m <= k * h
    BY ONLY <2>2, Times
  <2>6. v = k * m /\ c = k * h /\ g = k * mb
    BY <1>1, <1>2, <2>1
  <2> QED
    BY <2>1, <2>3, <2>4, <2>5, <2>6
<1>9. e \in Nat /\ f \in Nat /\ e <= f /\ (stale' = stale + 1 => f = e + q)
  <2>1. PICK m, n1 : m = stale /\ n1 = stale'
    OBVIOUS
  <2>2. m \in Nat /\ n1 \in Nat /\ (n1 = m \/ n1 = m + 1) /\ q \in Nat /\ 1 \in Nat
    BY <1>4, <1>7, <2>1
  <2>3. q * m \in Nat /\ q * 1 = q /\ q * (m + 1) = q * m + q * 1
    BY ONLY <2>2, Times
  <2>4. e = q * m /\ f = q * n1
    BY <1>2, <2>1
  <2>5. n1 = m + 1 => f = e + q
    BY ONLY <2>3, <2>4
  <2>6. n1 = m => f = e
    BY ONLY <2>4
  <2>7. e \in Nat /\ f \in Nat /\ e <= f
    BY ONLY <2>2, <2>3, <2>4, <2>5, <2>6
  <2> QED
    BY <2>1, <2>5, <2>7
<1>10. /\ Reach(s) = x + o + v /\ Quoted(s) = a + v /\ Extra = c + e
       /\ Reach(s)' = x + p + k * (Moving + mb) /\ Quoted(s)' = aa + k * (Moving + mb)
       /\ Extra' = k * (refills + mb) + f
  <2>1. Signed(s, Balance)' = x
    BY <1>1, <1>5 DEF Signed
  <2> QED
    BY <1>1, <1>2, <1>5, <2>1 DEF Reach, Quoted, Extra
<1>11. /\ x + o + v <= room + sn + quotes + (c + e) /\ a + v <= quotes + (c + e)
  BY <1>2, <1>10 DEF Bounded
<1>12. \/ p <= o /\ aa <= a /\ e <= f
       \/ p <= o + q /\ aa <= a + q /\ f = e + q
       \/ x <= room /\ p <= a + sn /\ aa <= a /\ e <= f
       \/ x <= room /\ p <= q /\ aa <= q /\ e <= f
  <2>1. CASE bn = 0 /\ bl = 0
    BY <1>5, <1>9, <2>1
  <2>2. CASE late /\ batch # <<>> /\ bn <= q /\ bl <= q
    BY <1>4, <1>5, <1>7, <1>9, <2>2
  <2>3. CASE Within(s, Balance) /\ n = 0 /\ l = 0
    <3>1. x <= room
      <4>1. x < MaxPos
        BY <1>1, <2>3 DEF Within
      <4> QED
        BY <1>7, <4>1
    <3>2. CASE bn <= sn /\ bl = 0
      <4>1. p <= a + sn /\ aa <= a
        BY <1>5, <1>6, <1>7, <2>3, <3>2
      <4> QED
        BY <1>9, <3>1, <4>1
    <3>3. CASE bn <= q /\ bl <= q /\ rr = 0
      <4>1. p <= q /\ aa <= q
        BY <1>5, <1>6, <1>7, <2>3, <3>3
      <4> QED
        BY <1>9, <3>1, <4>1
    <3> QED
      BY <1>1, <1>2, <1>3, <2>1, <2>2, <2>3, <3>2, <3>3
  <2> QED
    BY <1>1, <1>2, <1>3, <2>1, <2>2, <2>3
<1>13. /\ x + p + (v + g) <= room + sn + quotes + ((c + g) + f)
       /\ aa + (v + g) <= quotes + ((c + g) + f)
  BY ONLY <1>5, <1>7, <1>8, <1>9, <1>11, <1>12, SentSum
<1>14. Room(s)' = room /\ Quotes(s)' = quotes
  <2>1. UNCHANGED who
    BY DEF Pass
  <2> QED
    BY <1>2, <2>1, BoundSame
<1>15. /\ Reach(s)' = x + p + (v + g) /\ Quoted(s)' = aa + (v + g) /\ Extra' = (c + g) + f
  BY <1>8, <1>10
<1>16. Bounded(s)'
  BY <1>2, <1>13, <1>14, <1>15 DEF Bounded
<1>17. Moving' <= refills'
  <2>1. PICK m, n1, h, h1 : m = Moving /\ n1 = Moving' /\ h = refills /\ h1 = refills'
    OBVIOUS
  <2>2. m \in Nat /\ h \in Nat /\ mb \in Nat /\ m <= h /\ n1 = m + mb /\ h1 = h + mb
    BY <1>1, <1>5, <2>1
  <2>3. n1 <= h1
    BY ONLY <2>2
  <2> QED
    BY <2>1, <2>3
<1> QED
  BY <1>16, <1>17

\* On an account in step, what a thread has read is the balance.
LEMMA InStep ==
  ASSUME FlowTyped, NEW t \in Threads, NEW s \in TwoSides, ~Outdated(t, s)
  PROVE  /\ wire = <<>> /\ Balance = read[t].pos
         /\ Vol(requests, News(s)) = 0 /\ Vol(requests, Limits(s)) = 0
<1>1. /\ wire = <<>> /\ Position = read[t].pos
      /\ \A i \in DOMAIN requests : ~(IsNew(requests[i]) /\ requests[i].side = s)
  BY DEF Outdated
<1>2. requests \in Seq(Draft) /\ DOMAIN requests = 1..Len(requests)
  BY DEF FlowTyped, Sent
<1>3. /\ \A i \in 1..Len(requests) : requests[i] \notin News(s)
      /\ \A i \in 1..Len(requests) : requests[i] \notin Limits(s)
  BY <1>1, <1>2 DEF News, Limits, IsNew
<1> QED
  BY <1>1, <1>2, <1>3, BalanceHere, VolNone

\* A market order.
LEMMA SnipeKeeps ==
  ASSUME FlowInv, OwnTyped, InsiderInv, NEW t \in Threads, Snipe(t)
  PROVE  InsiderInv'
<1>1. FlowTyped /\ refills \in Nat /\ agent = "insider" /\ UNCHANGED <<agent, refills>> /\ Goes(t, Idle)
  BY DEF FlowInv, OwnTyped, Snipe, At, who
<1>2. PICK side \in TwoSides :
        /\ Within(side, read[t].pos)
        /\ Pass(<<MarketOrder(side, SnipeQty)>>, Outdated(t, side))
  BY <1>1, SnipePass
<1>3. PICK r, batch, late : r = MarketOrder(side, SnipeQty) /\ batch = <<r>> /\ late = Outdated(t, side)
  OBVIOUS
<1>4. /\ r \in Draft /\ r.action = "Market" /\ r.side = side /\ r.q = SnipeQty
  BY <1>3, OrderIs, InsiderNumbers DEF MarketOrder, Request
<1>5. Small /\ ReadsWithin /\ Moving <= refills /\ \A s \in TwoSides : Bounded(s)
  BY <1>1 DEF InsiderInv
<1>6. Pass(batch, late)
  BY <1>2, <1>3
<1>7. Small'
  <2>1. \A i \in 1..Len(batch) : SmallRequest(batch[i])
    BY <1>3, <1>4 DEF SmallRequest
  <2> QED
    BY <1>1, <1>5, <1>6, <2>1, SmallPass
<1>8. ReadsWithin'
  BY <1>1, <1>5, ReadsKept DEF Idle, TwoSides
<1>9. ASSUME NEW s \in TwoSides PROVE Bounded(s)' /\ Moving' <= refills'
  <2>1. /\ Vol(batch, News(s)) = IF s = side THEN SnipeQty ELSE 0
        /\ Vol(batch, Limits(s)) = 0 /\ Count(batch, Moves) = 0
    BY <1>3, <1>4, SendOne DEF IsNew
  <2>2. /\ \/ Vol(batch, News(s)) = 0 /\ Vol(batch, Limits(s)) = 0
           \/ /\ late /\ batch # <<>>
              /\ Vol(batch, News(s)) <= PassiveQty /\ Vol(batch, Limits(s)) <= PassiveQty
           \/ /\ Within(s, Balance)
              /\ Vol(requests, News(s)) = 0 /\ Vol(requests, Limits(s)) = 0
              /\ Vol(batch, News(s)) <= SnipeQty /\ Vol(batch, Limits(s)) = 0
    <3>1. CASE s # side
      BY <2>1, <3>1
    <3>2. CASE s = side /\ late
      BY <1>3, <2>1, <3>2, InsiderNumbers
    <3>3. CASE s = side /\ ~late
      <4>1. Balance = read[t].pos /\ Vol(requests, News(s)) = 0 /\ Vol(requests, Limits(s)) = 0
        BY <1>1, <1>3, <3>3, InStep
      <4> QED
        BY <1>2, <2>1, <3>3, <4>1, InsiderNumbers
    <3> QED
      BY <3>1, <3>2, <3>3
  <2>3. refills' = refills + Count(batch, Moves) /\ refills' \in Nat
    BY <1>1, <2>1
  <2> QED
    BY <1>1, <1>5, <1>6, <2>2, <2>3, SentKeeps
<1>10. PICK s \in TwoSides : TRUE
  BY DEF TwoSides
<1> QED
  BY <1>7, <1>8, <1>9, <1>10 DEF InsiderInv

\* A replacement.
LEMMA MoveKeeps ==
  ASSUME FlowInv, OwnTyped, OwnTyped', InsiderInv, NEW t \in Threads, MoveOrder(t)
  PROVE  InsiderInv'
<1>1. /\ FlowTyped /\ refills \in Nat /\ refills' \in Nat /\ agent = "insider" /\ agent' = agent
      /\ read[t].at = "moving" /\ read[t] \in Reading
  BY ReadIs DEF FlowInv, OwnTyped, MoveOrder, At, who
<1>2. PICK batch : /\ batch = <<>> \/ batch = <<MoveOf(t)>>
                   /\ read[t].open # <<>> /\ refills' = refills + Len(batch) /\ Pass(batch, FALSE)
  BY <1>1, MovePass
<1>3. Small /\ ReadsWithin /\ Moving <= refills /\ \A s \in TwoSides : Bounded(s)
  BY <1>1 DEF InsiderInv
<1>4. PICK r : r = MoveOf(t)
  OBVIOUS
<1>5. r \in Draft /\ r.action = "Modify" /\ r.q = PassiveQty
  BY <1>1, <1>2, <1>4, ReadIs, InsiderAssumption DEF MoveOf, Modify, Request, Draft
<1>6. ASSUME NEW s
      PROVE  /\ Vol(batch, News(s)) = 0 /\ Vol(batch, Limits(s)) = 0
             /\ Count(batch, Moves) = Len(batch)
             /\ \A i \in 1..Len(batch) : SmallRequest(batch[i])
  <2>1. CASE batch = <<>>
    <3>1. Len(batch) = 0
      BY <2>1
    <3> QED
      BY <2>1, <3>1, SendNone
  <2>2. CASE batch = <<r>>
    <3>1. Len(batch) = 1 /\ \A i \in 1..Len(batch) : SmallRequest(batch[i])
      BY <1>5, <2>2, InsiderNumbers DEF SmallRequest
    <3>2. /\ Vol(batch, News(s)) = IF IsNew(r) /\ r.side = s THEN r.q ELSE 0
          /\ Vol(batch, Limits(s)) = IF r.action = "Limit" /\ r.side = s THEN r.q ELSE 0
          /\ Count(batch, Moves) = IF r.action = "Modify" THEN 1 ELSE 0
      BY <1>5, <2>2, SendOne
    <3> QED
      BY <1>5, <3>1, <3>2 DEF IsNew
  <2> QED
    BY <1>2, <1>4, <2>1, <2>2
<1>7. Small'
  BY <1>1, <1>2, <1>3, <1>6, SmallPass
<1>8. ReadsWithin'
  <2>1. PICK u : u = [read[t] EXCEPT !.open = Tail(@), !.found = @ \cup {Head(read[t].open).side}]
    OBVIOUS
  <2>2. Goes(t, u)
    BY <2>1 DEF MoveOrder
  <2>3. u.at = "moving"
    BY <1>1, <2>1 DEF Reading
  <2> QED
    BY <1>1, <1>3, <2>2, <2>3, ReadsKept DEF TwoSides
<1>9. ASSUME NEW s \in TwoSides PROVE Bounded(s)' /\ Moving' <= refills'
  BY <1>1, <1>2, <1>3, <1>6, SentKeeps
<1>10. PICK s \in TwoSides : TRUE
  BY DEF TwoSides
<1> QED
  BY <1>7, <1>8, <1>9, <1>10 DEF InsiderInv

\* A thread past a quote is to send none on that side.
LEMMA PastWithin ==
  ASSUME FlowTyped, NEW t \in Threads, NEW side
  PROVE  Past(t, side).at \notin TwoSides
<1>1. read[t] \in Reading
  BY ReadIs
<1>2. [read[t] EXCEPT !.at = "bid done", !.pos = 0].at = "bid done"
  BY <1>1 DEF Reading
<1>3. Idle.at = "idle"
  BY DEF Idle
<1>4. Past(t, side) = [read[t] EXCEPT !.at = "bid done", !.pos = 0] \/ Past(t, side) = Idle
  BY Zenon DEF Past
<1> QED
  BY <1>2, <1>3, <1>4 DEF TwoSides

\* A quote: on an account in step, nothing else is there.
LEMMA QuoteKeeps ==
  ASSUME FlowInv, OwnTyped, InsiderInv, NEW t \in Threads, NEW side \in TwoSides, SendQuote(t, side)
  PROVE  InsiderInv'
<1>1. /\ FlowTyped /\ StepInv /\ refills \in Nat /\ agent = "insider" /\ UNCHANGED <<agent, refills>>
      /\ Goes(t, Past(t, side)) /\ read[t].at = side
  BY DEF FlowInv, OwnTyped, SendQuote, At, who
<1>2. PICK r, batch, late : /\ r = LimitOrder(side, PassiveQty) /\ batch = <<r>>
                            /\ late = (Outdated(t, side) \/ Listed(open_orders, side) # {})
  OBVIOUS
<1>3. /\ r \in Draft /\ r.action = "Limit" /\ r.side = side /\ r.q = PassiveQty
  BY <1>2, OrderIs, InsiderNumbers DEF LimitOrder, Request
<1>4. Small /\ ReadsWithin /\ Moving <= refills /\ \A s \in TwoSides : Bounded(s)
  BY <1>1 DEF InsiderInv
<1>5. Pass(batch, late)
  BY <1>1, <1>2, QuotePass
<1>6. Small'
  <2>1. \A i \in 1..Len(batch) : SmallRequest(batch[i])
    BY <1>2, <1>3 DEF SmallRequest
  <2> QED
    BY <1>1, <1>4, <1>5, <2>1, SmallPass
<1>7. ReadsWithin'
  BY <1>1, <1>4, PastWithin, ReadsKept
<1>8. ASSUME NEW s \in TwoSides PROVE Bounded(s)' /\ Moving' <= refills'
  <2>1. /\ Vol(batch, News(s)) = IF s = side THEN PassiveQty ELSE 0
        /\ Vol(batch, Limits(s)) = IF s = side THEN PassiveQty ELSE 0
        /\ Count(batch, Moves) = 0
    BY <1>2, <1>3, SendOne DEF IsNew
  <2>2. /\ \/ Vol(batch, News(s)) = 0 /\ Vol(batch, Limits(s)) = 0
           \/ /\ late /\ batch # <<>>
              /\ Vol(batch, News(s)) <= PassiveQty /\ Vol(batch, Limits(s)) <= PassiveQty
           \/ /\ Within(s, Balance)
              /\ Vol(requests, News(s)) = 0 /\ Vol(requests, Limits(s)) = 0
              /\ Vol(batch, News(s)) <= PassiveQty /\ Vol(batch, Limits(s)) <= PassiveQty
              /\ Rest(s)' = 0
    <3>1. CASE s # side
      BY <2>1, <3>1
    <3>2. CASE s = side /\ late
      BY <1>2, <2>1, <3>2, InsiderNumbers
    <3>3. CASE s = side /\ ~late
      <4>1. ~Outdated(t, side) /\ Listed(open_orders, side) = {}
        BY <1>2, <3>3
      <4>2. /\ wire = <<>> /\ Balance = read[t].pos
            /\ Vol(requests, News(s)) = 0 /\ Vol(requests, Limits(s)) = 0
        BY <1>1, <3>3, <4>1, InStep
      <4>3. \A i \in 1..Len(open_orders) : open_orders[i].side # s
        BY <1>1, <3>3, <4>1, ListedAre DEF Listed
      <4>4. Rest(s)' = 0
        BY <1>1, <1>5, <4>2, <4>3, Cleared
      <4>5. Within(s, Balance)
        BY <1>1, <1>4, <3>3, <4>2 DEF ReadsWithin
      <4> QED
        BY <2>1, <3>3, <4>2, <4>4, <4>5, InsiderNumbers
    <3> QED
      BY <3>1, <3>2, <3>3
  <2>3. refills' = refills + Count(batch, Moves) /\ refills' \in Nat
    BY <1>1, <2>1
  <2> QED
    BY <1>1, <1>4, <1>5, <2>2, <2>3, SentKeeps
<1>9. PICK s \in TwoSides : TRUE
  BY DEF TwoSides
<1> QED
  BY <1>6, <1>7, <1>8, <1>9 DEF InsiderInv

\* Nothing that the bound is about changes.
LEMMA InsiderSame ==
  ASSUME InsiderInv, UNCHANGED <<who, requests, live, stale, refills>>, Balance' = Balance,
         ReadsWithin => ReadsWithin'
  PROVE  InsiderInv'
<1>1. Small' <=> Small
  BY DEF Small
<1>2. agent' = agent /\ Extra' = Extra /\ Moving' = Moving
  BY DEF Extra, Moving, who
<1>3. ASSUME NEW s PROVE Bounded(s)' <=> Bounded(s)
  <2>1. Offer(s)' = Offer(s) /\ Asked(s)' = Asked(s)
    BY DEF Offer, Asked, Rest, Standing, BeingCancelled
  <2>2. Reach(s)' = Reach(s) /\ Quoted(s)' = Quoted(s)
    BY <1>2, <2>1 DEF Reach, Quoted, Signed
  <2>3. Room(s)' = Room(s) /\ Quotes(s)' = Quotes(s)
    BY BoundSame
  <2> QED
    BY <1>2, <2>2, <2>3 DEF Bounded
<1> QED
  BY <1>1, <1>2, <1>3 DEF InsiderInv

\* A thread that reads: it is to send a quote only within the limit.
LEMMA InsiderReads ==
  ASSUME FlowInv, InsiderInv, refills' = refills, NEW t \in Threads,
         \/ ReadFirst(t) \/ CopyOrders(t) \/ \E side \in TwoSides : CheckQuote(t, side)
  PROVE  InsiderInv'
<1>1. FlowTyped /\ Looks
  BY InsiderLooks DEF FlowInv
<1>2. Balance' = Balance
  BY <1>1, BalanceIs DEF Looks, account
<1>3. ASSUME ReadsWithin PROVE ReadsWithin'
  <2>1. CASE ReadFirst(t)
    <3>1. PICK r : r = [Idle EXCEPT !.at = "deciding", !.pos = Position]
      OBVIOUS
    <3>2. Goes(t, r) /\ r.at = "deciding"
      BY <2>1, <3>1 DEF ReadFirst, Idle
    <3> QED
      BY <1>1, <1>3, <3>2, ReadsKept DEF TwoSides
  <2>2. CASE CopyOrders(t)
    <3>1. PICK r : r = [Idle EXCEPT !.at = "moving", !.open = Copy(open_orders)]
      OBVIOUS
    <3>2. Goes(t, r) /\ r.at = "moving"
      BY <2>2, <3>1 DEF CopyOrders, Idle
    <3> QED
      BY <1>1, <1>3, <3>2, ReadsKept DEF TwoSides
  <2>3. ASSUME NEW side \in TwoSides, CheckQuote(t, side) PROVE ReadsWithin'
    <3>1. PICK r : r = [read[t] EXCEPT !.at = side, !.pos = Position]
      OBVIOUS
    <3>2. (Misses(t, side) /\ Goes(t, r)) \/ Goes(t, Past(t, side))
      BY <2>3, <3>1, Zenon DEF CheckQuote
    <3>3. CASE Misses(t, side) /\ Goes(t, r)
      <4>1. r.at = side /\ r.pos = Position
        BY <1>1, <3>1, ReadIs DEF Reading
      <4>2. Within(side, Position)
        BY <3>3 DEF Misses
      <4> QED
        BY <1>1, <1>3, <3>3, <4>1, <4>2, ReadsKept
    <3>4. CASE Goes(t, Past(t, side))
      BY <1>1, <1>3, <3>4, PastWithin, ReadsKept
    <3> QED
      BY <3>2, <3>3, <3>4
  <2> QED
    BY <2>1, <2>2, <2>3
<1> QED
  BY <1>1, <1>2, <1>3, InsiderSame DEF Looks

\* A step of the exchange.
LEMMA InsiderTraded ==
  ASSUME FlowInv, FlowInv', OwnTyped, InsiderInv, ExchangeStep, refills' = refills
  PROVE  InsiderInv'
<1>1. FlowTyped /\ FlowTyped'
  BY DEF FlowInv
<1>2. UNCHANGED <<who, stale, read>>
  BY DEF ExchangeStep, TakeRequest, Fill
<1>3. SUFFICES ASSUME agent = "insider"
               PROVE  Small' /\ ReadsWithin' /\ Moving' <= refills' /\ \A s \in TwoSides : Bounded(s)'
  BY <1>2 DEF InsiderInv, who
<1>4. Small /\ ReadsWithin /\ Moving <= refills /\ \A s \in TwoSides : Bounded(s)
  BY <1>3 DEF InsiderInv
<1>5. ReadsWithin'
  BY <1>2, <1>4 DEF ReadsWithin
<1>6. ASSUME NEW s \in TwoSides,
             Reach(s)' \in Int, Reach(s) \in Int, Reach(s)' <= Reach(s),
             Quoted(s)' \in Int, Quoted(s) \in Int, Quoted(s)' <= Quoted(s)
      PROVE  Bounded(s)'
  <2>1. Room(s)' = Room(s) /\ Quotes(s)' = Quotes(s) /\ Extra' = Extra
    BY <1>2, BoundSame DEF Extra
  <2>2. PICK a, b : a = Room(s) + SnipeQty + Quotes(s) + Extra /\ b = Quotes(s) + Extra
    OBVIOUS
  <2>3. a \in Int /\ b \in Int
    <3>1. refills \in Nat
      BY DEF OwnTyped
    <3>2. Room(s) \in Int /\ Quotes(s) \in Nat /\ Extra \in Nat
      BY <1>1, <3>1, BoundIs
    <3> QED
      BY <2>2, <3>2, InsiderNumbers
  <2>4. Reach(s) <= a /\ Quoted(s) <= b
    BY <1>4, <2>2 DEF Bounded
  <2>5. Reach(s)' <= a /\ Quoted(s)' <= b
    BY <1>6, <2>3, <2>4
  <2> QED
    BY <2>1, <2>2, <2>5 DEF Bounded
<1>7. Moving \in Nat /\ Moving' \in Nat /\ refills \in Nat
  BY <1>1, NumbersAre, NumbersNext DEF Numbers, OwnTyped
<1>8. ASSUME NEW side \in TwoSides, NEW f \in Nat, Trade(side, f)
      PROVE  Moving' <= refills' /\ \A s \in TwoSides : Bounded(s)'
  <2>1. Moving' <= refills'
    BY <1>4, <1>7, <1>8 DEF Trade
  <2>2. ASSUME NEW s \in TwoSides PROVE Bounded(s)'
    BY <1>1, <1>6, <1>8, ReachTrade
  <2> QED
    BY <2>1, <2>2
<1>9. CASE TakeRequest
  <2>1. PICK r : r = Head(requests)
    OBVIOUS
  <2>2. r.q \in Nat /\ SmallRequest(r)
    <3>1. requests \in Seq(Sent) /\ requests # <<>>
      BY <1>1, <1>9 DEF FlowTyped, TakeRequest
    <3>2. 1 \in 1..Len(requests) /\ r = requests[1] /\ r \in Sent
      BY <2>1, <3>1
    <3> QED
      BY <1>4, <3>2 DEF Small, Sent, Draft
  <2>3. Small'
    BY <1>1, <1>4, <1>9, SmallTakes
  <2>4. CASE Moved(r)
    <3>1. r.q <= PassiveQty
      BY <2>2, <2>4 DEF Moved, SmallRequest
    <3>2. ASSUME NEW s \in TwoSides PROVE Bounded(s)'
      BY <1>1, <1>6, <2>2, <2>4, <3>1, ReachMoved
    <3>3. Moving' <= refills'
      <4>1. Moving' + 1 <= Moving
        BY <2>4 DEF Moved
      <4>2. PICK m, m1, h : m = Moving /\ m1 = Moving' /\ h = refills
        OBVIOUS
      <4>3. m \in Nat /\ m1 \in Nat /\ h \in Nat /\ m1 + 1 <= m /\ m <= h
        BY <1>4, <1>7, <4>1, <4>2
      <4>4. m1 <= h
        BY ONLY <4>3
      <4> QED
        BY <4>2, <4>4
    <3> QED
      BY <1>5, <2>3, <3>2, <3>3
  <2>5. ASSUME NEW side \in TwoSides, NEW f \in Nat, Trade(side, f)
        PROVE  Small' /\ ReadsWithin' /\ Moving' <= refills' /\ \A s \in TwoSides : Bounded(s)'
    BY <1>5, <1>8, <2>3, <2>5
  <2> QED
    BY <1>1, <1>9, <2>1, <2>4, <2>5, TakeTrades
<1>10. ASSUME NEW id \in DOMAIN live, NEW q \in 1..live[id].q, Fill(id, q)
       PROVE  Small' /\ Moving' <= refills' /\ \A s \in TwoSides : Bounded(s)'
  <2>1. Small'
    <3>1. requests' = requests
      BY <1>10 DEF Fill
    <3> QED
      BY <1>4, <3>1 DEF Small
  <2>2. ~Asks(requests, id)
    BY <1>4 DEF Small, SmallRequest, Asks
  <2>3. Trade(live[id].side, q)
    BY <1>1, <1>10, <2>2, FillTrades
  <2>4. live[id] \in [side : TwoSides, q : Nat \ {0}]
    BY <1>1 DEF FlowTyped
  <2>5. live[id].side \in TwoSides /\ q \in Nat
    BY <2>4
  <2> QED
    BY <1>8, <2>1, <2>3, <2>5
<1> QED
  BY <1>5, <1>9, <1>10 DEF ExchangeStep

-----------------------------------------------------------------------------
(* The start.  The replayed position becomes the balance.                     *)
LEMMA ReplayHeld ==
  ASSUME agent \in AgentKinds, legacy \in Legacies[agent],
         NEW n \in Nat, NEW k \in Nat, NEW ids, NEW assets, NEW w,
         Replayed(legacy, w, n, k, ids, assets), NEW pos \in [Assets -> Int]
  PROVE  Held(pos, w) = legacy.positions[Symbol]
<1>1. PICK N, lp : N = n + k + 1 /\ lp = legacy.positions
  OBVIOUS
<1>2. /\ assets \in [1..k -> Assets] /\ N \in Nat /\ DOMAIN w = 1..N /\ Len(w) = N
      /\ \A i \in 1..n : w[i] = Status(legacy, ids[i])
      /\ \A i \in 1..n : ids[i] \in DOMAIN legacy.orders
      /\ \A i \in 1..k : w[n + i] = PositionMsg(assets[i], lp[assets[i]])
      /\ w[N] = CompleteMsg
      /\ \A a \in Assets : \E i \in 1..k : assets[i] = a
      /\ w \in Seq(Delivery)
  <2>1. /\ ids \in [1..n -> DOMAIN legacy.orders] /\ assets \in [1..k -> Assets]
        /\ \A a \in Assets : \E i \in 1..k : assets[i] = a
        /\ w \in Seq(Delivery) /\ Len(w) = N
    BY <1>1 DEF Replayed
  <2>2. \A i \in 1..n : w[i] = Status(legacy, ids[i])
    BY DEF Replayed
  <2>3. /\ \A i \in 1..k : w[n + i] = PositionMsg(assets[i], lp[assets[i]])
        /\ w[N] = CompleteMsg
    BY <1>1 DEF Replayed
  <2>4. N \in Nat /\ DOMAIN w = 1..N
    BY <1>1, <2>1
  <2>5. \A i \in 1..n : ids[i] \in DOMAIN legacy.orders
    BY <2>1
  <2> QED
    BY <2>1, <2>2, <2>3, <2>4, <2>5
<1>3. lp \in [Assets -> Int] /\ Symbol \in Assets
  BY <1>1, LegacyIs, ClientAssumption DEF Symbol, Assets
<1>4. PICK h : P!Leads(h, pos, w, N)
  BY <1>2, P!FoldHas
<1>5. /\ h[0] = pos /\ h[N] = P!Fold(pos, w)
      /\ \A j \in 1..N : h[j] = PositionsOnce(h[j - 1], w[j])
  BY <1>4 DEF P!Leads
<1>6. PICK T : T = {j \in Nat : j <= N =>
                      /\ h[j] \in [Assets -> Int]
                      /\ (\E i \in 1..k : n + i <= j /\ assets[i] = Symbol) => h[j][Symbol] = lp[Symbol]}
  OBVIOUS
<1>7. 0 \in T
  <2>1. \A i \in 1..k : ~(n + i <= 0)
    OBVIOUS
  <2> QED
    BY <1>5, <1>6, <2>1
<1>8. ASSUME NEW j \in Nat, j \in T PROVE j + 1 \in T
  <2>1. ASSUME j + 1 <= N
        PROVE  /\ h[j + 1] \in [Assets -> Int]
               /\ (\E i \in 1..k : n + i <= j + 1 /\ assets[i] = Symbol)
                    => h[j + 1][Symbol] = lp[Symbol]
    <3>1. j <= N /\ j + 1 \in 1..N /\ (j + 1) - 1 = j
      BY <1>2, <2>1
    <3>2. PICK x, m : x = h[j] /\ m = w[j + 1]
      OBVIOUS
    <3>3. /\ x \in [Assets -> Int]
          /\ (\E i \in 1..k : n + i <= j /\ assets[i] = Symbol) => x[Symbol] = lp[Symbol]
      BY <1>6, <1>8, <3>1, <3>2
    <3>4. h[j + 1] = PositionsOnce(x, m)
      BY <1>5, <3>1, <3>2
    <3>5. CASE j + 1 <= n \/ j + 1 = N
      <4>1. m.type \in {"OrderStatus", "Complete"}
        <5>1. CASE j + 1 <= n
          <6>1. j + 1 \in 1..n /\ m = Status(legacy, ids[j + 1]) /\ ids[j + 1] \in DOMAIN legacy.orders
            BY <1>2, <3>2, <5>1
          <6> QED
            BY <6>1, StatusIs
        <5>2. CASE j + 1 = N
          BY <1>2, <3>2, <5>2 DEF CompleteMsg
        <5> QED
          BY <3>5, <5>1, <5>2
      <4>2. h[j + 1] = x
        BY <3>4, <4>1 DEF PositionsOnce, PositionsAfter
      <4>3. \A i \in 1..k : n + i <= j + 1 => n + i <= j
        BY <1>1, <3>5
      <4> QED
        BY <3>3, <4>2, <4>3
    <3>6. CASE ~(j + 1 <= n) /\ j + 1 # N
      <4>1. PICK i \in 1..k : j + 1 = n + i
        <5>1. j + 1 - n \in 1..k /\ j + 1 = n + (j + 1 - n)
          BY <1>1, <2>1, <3>6
        <5> QED
          BY <5>1
      <4>2. PICK a : a = assets[i]
        OBVIOUS
      <4>3. a \in Assets /\ m = PositionMsg(a, lp[a])
        BY <1>2, <3>2, <4>1, <4>2
      <4>4. m.type = "Position" /\ m.symbol = a /\ m.position = lp[a]
        BY <4>3 DEF PositionMsg
      <4>5. h[j + 1] = [x EXCEPT ![a] = lp[a]]
        BY <3>4, <4>4 DEF PositionsOnce
      <4>6. h[j + 1] \in [Assets -> Int]
        BY <1>3, <3>3, <4>3, <4>5
      <4>7. ASSUME NEW l \in 1..k, n + l <= j + 1, assets[l] = Symbol
            PROVE  h[j + 1][Symbol] = lp[Symbol]
        <5>1. CASE a = Symbol
          BY <1>3, <3>3, <4>5, <5>1
        <5>2. CASE a # Symbol
          <6>1. l # i
            BY <4>2, <4>7, <5>2
          <6>2. n + l <= j
            BY <4>1, <4>7, <6>1
          <6>3. x[Symbol] = lp[Symbol]
            BY <3>3, <4>7, <6>2
          <6> QED
            BY <1>3, <3>3, <4>5, <5>2, <6>3
        <5> QED
          BY <5>1, <5>2
      <4> QED
        BY <4>6, <4>7
    <3> QED
      BY <3>5, <3>6
  <2> QED
    BY <1>6, <2>1
<1>9. Nat \subseteq T
  BY <1>7, <1>8, P!NatSetInduction
<1>10. PICK i \in 1..k : assets[i] = Symbol
  BY <1>2, <1>3
<1>11. n + i <= N
  BY <1>1
<1>12. h[N][Symbol] = lp[Symbol]
  <2>1. N \in T /\ N <= N
    BY <1>2, <1>9
  <2> QED
    BY <1>6, <1>10, <1>11, <2>1
<1> QED
  BY <1>1, <1>5, <1>12 DEF Held

\* A new process has the position of the one before.
LEMMA BalanceStart ==
  ASSUME FlowInit PROVE Balance = legacy.positions[Symbol]
<1>1. /\ agent \in AgentKinds /\ legacy \in Legacies[agent]
      /\ positions = EmptyPositions /\ wire = Replay(legacy)
  BY DEF FlowInit, AccountInit
<1>2. PICK n \in Nat, k \in Nat : \E ids, assets : Replayed(legacy, wire, n, k, ids, assets)
  BY <1>1, ReplayIs
<1>3. PICK ids, assets : Replayed(legacy, wire, n, k, ids, assets)
  BY <1>2
<1>4. positions \in [Assets -> Int]
  BY <1>1 DEF EmptyPositions
<1>5. Held(positions, wire) = legacy.positions[Symbol]
  BY <1>1, <1>3, <1>4, ReplayHeld
<1> QED
  BY <1>5, BalanceIs

\* At first the orders that were left stand, and nothing else is offered.
LEMMA StandsAtFirst ==
  ASSUME FlowInit, NEW s
  PROVE  /\ FlowTyped /\ requests = <<>> /\ Moving = 0 /\ stale = 0 /\ Offer(s) \in Nat
         /\ Offer(s) = LeftOffered(s) /\ Asked(s) = LeftOffered(s)
<1>1. FlowTyped /\ requests = <<>> /\ stale = 0 /\ live = legacy.orders
  BY FlowStart DEF FlowInit, FlowInv
<1>2. Moving = 0 /\ Offer(s) = Rest(s) /\ Rest(s) \in Nat
  BY <1>1, OfferHere
<1>3. Vol(requests, Limits(s)) = 0
  <2>1. \A i \in 1..Len(requests) : requests[i] \notin Limits(s)
    BY <1>1
  <2>2. requests \in Seq(Draft)
    BY <1>1
  <2> QED
    BY <2>1, <2>2, VolNone
<1>4. Asked(s) = Rest(s)
  BY <1>2, <1>3 DEF Asked
<1>5. Standing(s) = LeftOn(s)
  <2>1. BeingCancelled = {}
    BY <1>1 DEF BeingCancelled
  <2> QED
    BY <1>1, <2>1 DEF Standing, LeftOn
<1>6. Rest(s) = LeftOffered(s)
  BY <1>1, <1>5, LeftOfferedIs DEF Rest, Inherited
<1> QED
  BY <1>1, <1>2, <1>4, <1>6

\* The insider's inventory at first.
LEMMA InsiderStart ==
  ASSUME Init PROVE InsiderInv
<1>1. FlowInit /\ refills = 0 /\ read = [t \in Threads |-> Idle]
  BY DEF Init, FlowInit
<1>2. FlowTyped /\ requests = <<>> /\ stale = 0 /\ Moving = 0
  BY <1>1, StandsAtFirst
<1>3. Small
  <2>1. Len(requests) = 0
    BY <1>2
  <2> QED
    BY <2>1 DEF Small
<1>4. ReadsWithin
  BY <1>1 DEF ReadsWithin, Idle, TwoSides
<1>5. ASSUME NEW s \in TwoSides PROVE Bounded(s)
  <2>1. PICK x, o : x = Signed(s, legacy.positions[Symbol]) /\ o = LeftOffered(s)
    OBVIOUS
  <2>2. Balance = legacy.positions[Symbol] /\ Offer(s) = o /\ Asked(s) = o /\ o \in Nat
    BY <1>1, <2>1, BalanceStart, StandsAtFirst
  <2>3. (PassiveQty - 1) * Moving = 0
    BY <1>2, InsiderNumbers
  <2>4. /\ Room(s) \in Int /\ x \in Int /\ x <= Room(s)
        /\ Quotes(s) \in Nat /\ o <= Quotes(s) /\ Extra \in Nat
    BY <1>1, <1>2, <2>1, BoundIs, LeftOfferedIs
  <2>5. Reach(s) = x + o /\ Quoted(s) = o
    BY <2>1, <2>2, <2>3, <2>4 DEF Reach, Quoted
  <2>6. PICK room, quotes, extra : room = Room(s) /\ quotes = Quotes(s) /\ extra = Extra
    OBVIOUS
  <2>7. x + o <= room + SnipeQty + quotes + extra /\ o <= quotes + extra
    BY <2>2, <2>4, <2>6, InsiderNumbers
  <2> QED
    BY <2>5, <2>6, <2>7 DEF Bounded
<1> QED
  BY <1>1, <1>2, <1>3, <1>4, <1>5 DEF InsiderInv

\* Every step keeps the inventory within the bound.
LEMMA InsiderSteps ==
  ASSUME FlowInv, FlowInv', OwnTyped, OwnTyped', InsiderInv, [Next]_vars
  PROVE  InsiderInv'
<1>1. FlowTyped
  BY DEF FlowInv
<1>2. CASE ExchangeStep /\ refills' = refills
  BY <1>2, InsiderTraded
<1>3. CASE agent # "insider" /\ agent' = agent
  BY <1>3 DEF InsiderInv
<1>4. ASSUME wire # <<>>, Apply(Head(wire)), refills' = refills PROVE InsiderInv'
  <2>1. Balance' = Balance /\ UNCHANGED <<who, requests, live, stale, read>>
    BY <1>1, <1>4, BalanceApplied DEF Apply
  <2>2. ReadsWithin => ReadsWithin'
    BY <2>1 DEF ReadsWithin
  <2> QED
    BY <1>4, <2>1, <2>2, InsiderSame
<1>5. CASE UNCHANGED <<flow, refills>>
  <2>1. UNCHANGED <<positions, who, requests, live, wire, stale, refills, read>>
    BY <1>5 DEF flow, account
  <2>2. Balance' = Balance
    BY <2>1, BalanceIs
  <2>3. ReadsWithin => ReadsWithin'
    BY <2>1 DEF ReadsWithin
  <2> QED
    BY <2>1, <2>2, <2>3, InsiderSame
<1>6. CASE OnResponse
  <2>1. CASE OnMakerResponse \/ (OnNoiseResponse /\ UNCHANGED <<refills, monitor>>)
    BY <1>4, <2>1 DEF OnMakerResponse, OnNoiseResponse
  <2>2. CASE OnMonitorResponse /\ UNCHANGED <<refills, bracket>>
    <3>1. CASE ~raising /\ Handle
      BY <1>4, <2>2, <3>1 DEF Handle
    <3>2. CASE UNCHANGED flow
      BY <1>5, <2>2, <3>2
    <3> QED
      BY <2>2, <3>1, <3>2 DEF OnMonitorResponse
  <2> QED
    BY <1>6, <2>1, <2>2 DEF OnResponse
<1>7. CASE MakerPass
  BY <1>3, <1>7 DEF MakerPass, ManageOrders, ManageQuotes, FastCancelProtection, who
<1>8. CASE NoisePass
  BY <1>3, <1>8 DEF NoisePass, ReadPosition, Tick, who
<1>9. CASE MonitorPass
  BY <1>3, <1>9 DEF MonitorPass, OnMonitorTimer, DisplayCash, DisplayPositions, DisplayOrders,
                    LowerFlag, SomebodySends, flow, who
<1>10. ASSUME NEW t \in Threads, InsiderStep(t) PROVE InsiderInv'
  <2>1. CASE Snipe(t)
    BY <2>1, SnipeKeeps
  <2>2. CASE MoveOrder(t)
    BY <2>2, MoveKeeps
  <2>3. ASSUME NEW side \in TwoSides, SendQuote(t, side) PROVE InsiderInv'
    BY <2>3, QuoteKeeps
  <2>4. CASE ReadFirst(t) \/ CopyOrders(t) \/ \E side \in TwoSides : CheckQuote(t, side)
    <3>1. refills' = refills
      BY <2>4 DEF ReadFirst, CopyOrders, CheckQuote
    <3> QED
      BY <2>4, <3>1, InsiderReads
  <2> QED
    BY <1>10, <2>1, <2>2, <2>3, <2>4 DEF InsiderStep
<1>11. CASE UNCHANGED vars
  BY <1>5, <1>11 DEF vars
<1> QED
  BY <1>2, <1>6, <1>7, <1>8, <1>9, <1>10, <1>11 DEF Next, InsiderPass

(* The insider, for any limit, quantities, threads, delays and distances       *)
(* between a read and a send (execute_strategy, manage_passive_orders), and     *)
(* whatever the process before left: the position, were every order of a side   *)
(* to trade, passes max_pos_, or where it started, by no more than one market   *)
(* order and one quote, or what was left, another quote for each time something *)
(* was sent on an account out of date, and what a quote may have traded for     *)
(* each replacement.                                                            *)
THEOREM InsiderInventory == Spec => []InventoryBound
<1>1. Init => FlowInv /\ OwnTyped /\ InsiderInv
  BY FlowStart, OwnStart, InsiderStart DEF Init
<1>2. (FlowInv /\ OwnTyped /\ InsiderInv) /\ [Next]_vars => (FlowInv /\ OwnTyped /\ InsiderInv)'
  <2> SUFFICES ASSUME FlowInv, OwnTyped, InsiderInv, [Next]_vars
               PROVE  FlowInv' /\ OwnTyped' /\ InsiderInv'
    OBVIOUS
  <2>1. FlowInv' /\ OwnTyped'
    BY StepIs, FlowSteps, OwnSteps DEF FlowInv
  <2> QED
    BY <2>1, InsiderSteps
<1>3. FlowInv /\ OwnTyped /\ InsiderInv => InventoryBound
  <2> SUFFICES ASSUME FlowInv, OwnTyped, InsiderInv, agent = "insider", NEW s \in TwoSides
               PROVE  Signed(s, Balance) + Offered(s)
                        <= Room(s) + SnipeQty + Quotes(s)
                             + (PassiveQty - 1) * refills + PassiveQty * stale
    <3> SUFFICES ASSUME FlowInv, OwnTyped, InsiderInv, agent = "insider", NEW s \in TwoSides,
                        Signed(s, Balance) + Offered(s)
                          <= Room(s) + SnipeQty + Quotes(s)
                               + (PassiveQty - 1) * refills + PassiveQty * stale
                 PROVE  Signed(s, Balance) + Offered(s)
                          <= Larger(MaxPos - 1, Signed(s, legacy.positions[Symbol]))
                               + SnipeQty + Larger(PassiveQty, LeftOffered(s))
                               + (PassiveQty - 1) * refills + PassiveQty * stale
      BY DEF InventoryBound
    <3>1. LeftOffered(s) = Inherited(s)
      BY LeftOfferedIs DEF FlowInv
    <3> QED
      BY <3>1 DEF Room, Quotes
  <2>1. FlowTyped
    BY DEF FlowInv
  <2>2. PICK x, o, v, room, quotes, c, e :
          /\ x = Signed(s, Balance) /\ o = Offer(s) /\ v = (PassiveQty - 1) * Moving
          /\ room = Room(s) /\ quotes = Quotes(s)
          /\ c = (PassiveQty - 1) * refills /\ e = PassiveQty * stale
    OBVIOUS
  <2>3. x \in Int /\ o \in Nat /\ v \in Nat
    BY <2>1, <2>2, NumbersAre, ReachIs DEF Numbers
  <2>4. room \in Int /\ quotes \in Nat /\ c \in Nat /\ e \in Nat
    BY <2>1, <2>2, BoundIs DEF OwnTyped
  <2>5. x + o + v <= room + SnipeQty + quotes + (c + e)
    BY <2>2 DEF InsiderInv, Bounded, Reach, Extra
  <2>6. x + o <= room + SnipeQty + quotes + c + e
    BY <2>3, <2>4, <2>5, InsiderNumbers
  <2> QED
    BY <2>1, <2>2, <2>6, OfferedIs
<1> QED
  BY <1>1, <1>2, <1>3, PTL DEF Spec

-----------------------------------------------------------------------------
(* The noise trader's exits.  It changes no order; and on some side, all that  *)
(* is offered, were it to trade, brings the position to zero at most.  It is   *)
(* the side of the exit when there is a position, and the side where there is  *)
(* no entry when there is none.                                                *)
NoModify == \A i \in 1..Len(requests) : requests[i].action # "Modify"

Closes(s) == Signed(s, Balance) + Offer(s) <= 0

\* On some side, what the process before left brought its position to zero at most.
LeftCloses == \E s \in TwoSides : Signed(s, legacy.positions[Symbol]) + Inherited(s) <= 0

NoiseInv ==
  agent = "noise" =>
    /\ NoModify
    /\ LeftCloses /\ stale = 0 /\ ~slipped /\ ~doubled => \E s \in TwoSides : Closes(s)

\* What was left stays what it was.
LEMMA LeftSame ==
  ASSUME UNCHANGED who PROVE LeftCloses' <=> LeftCloses
<1>1. legacy' = legacy
  BY DEF who
<1>2. ASSUME NEW s PROVE Inherited(s)' = Inherited(s)
  <2>1. LeftOn(s)' = LeftOn(s)
    BY <1>1 DEF LeftOn
  <2> QED
    BY <1>1, <2>1 DEF Inherited
<1> QED
  BY <1>1, <1>2 DEF LeftCloses, Signed

\* A trade keeps a side within the position.
LEMMA TradeCloses ==
  ASSUME FlowTyped, FlowTyped', NEW side \in TwoSides, NEW f \in Nat, Trade(side, f),
         NEW s \in TwoSides, Closes(s)
  PROVE  Closes(s)'
<1>1. PICK b, o, c, p : /\ b = Balance /\ o = Offer(s) /\ c = Balance' /\ p = Offer(s)'
  OBVIOUS
<1>2. b \in Int /\ o \in Nat /\ c \in Int /\ p \in Nat
  BY <1>1, NumbersAre, NumbersNext DEF Numbers
<1>3. c = b + Signed(side, f) /\ p + (IF s = side THEN f ELSE 0) <= o
  BY <1>1 DEF Trade
<1>4. Signed(s, c) = Signed(s, b) + (IF s = side THEN f ELSE -f)
  BY <1>2, <1>3 DEF Signed, TwoSides
<1>5. Signed(s, b) + o <= 0 /\ Signed(s, b) \in Int
  BY <1>1, <1>2, SignedIs DEF Closes
<1>6. Signed(s, c) + p <= 0
  BY <1>2, <1>3, <1>4, <1>5
<1>7. Closes(s)' <=> Signed(s, c) + p <= 0
  BY <1>1 DEF Closes, Signed
<1> QED
  BY <1>6, <1>7

\* Nothing is moved, and no more is offered.
LEMMA ClosesStill ==
  ASSUME FlowTyped, NEW s, Closes(s), Balance' = Balance, Offer(s)' \in Nat, Offer(s)' <= Offer(s)
  PROVE  Closes(s)'
<1>1. PICK b, o, p : b = Balance /\ o = Offer(s) /\ p = Offer(s)'
  OBVIOUS
<1>2. b \in Int /\ o \in Nat /\ p \in Nat /\ p <= o
  BY <1>1, NumbersAre DEF Numbers
<1>3. Signed(s, b) \in Int /\ Signed(s, b) + o <= 0
  BY <1>1, <1>2, SignedIs DEF Closes
<1>4. Closes(s)' <=> Signed(s, b) + p <= 0
  BY <1>1 DEF Closes, Signed
<1> QED
  BY <1>2, <1>3, <1>4

\* The orders of the exchange become no changes.
LEMMA NoModifyLess ==
  ASSUME FlowTyped, NoModify, requests' = requests \/ (requests # <<>> /\ requests' = Tail(requests))
  PROVE  NoModify'
<1>1. CASE requests' = requests
  BY <1>1 DEF NoModify
<1>2. CASE requests # <<>> /\ requests' = Tail(requests)
  <2>1. requests \in Seq(Sent)
    BY DEF FlowTyped
  <2>2. \A i \in 1..Len(requests') : i + 1 \in 1..Len(requests) /\ requests'[i] = requests[i + 1]
    BY <1>2, <2>1, TailAt
  <2> QED
    BY <2>2 DEF NoModify
<1> QED
  BY <1>1, <1>2

\* A step of the exchange.
LEMMA NoiseTraded ==
  ASSUME FlowInv, FlowInv', NoiseInv, ExchangeStep, doubled' = doubled
  PROVE  NoiseInv'
<1>1. FlowTyped /\ FlowTyped'
  BY DEF FlowInv
<1>2. /\ UNCHANGED <<who, agent, stale>> /\ (LeftCloses' <=> LeftCloses)
      /\ requests' = requests \/ (requests # <<>> /\ requests' = Tail(requests))
  BY <1>1, ExchangeOutcome, LeftSame DEF who
<1>3. SUFFICES ASSUME agent = "noise" PROVE NoiseInv'
  BY <1>2 DEF NoiseInv
<1>4. NoModify /\ NoModify'
  BY <1>1, <1>2, <1>3, NoModifyLess DEF NoiseInv
<1>5. slipped => slipped'
  BY <1>1 DEF ExchangeStep, TakeRequest, Fill, FlowTyped
<1>6. SUFFICES ASSUME LeftCloses, stale = 0, ~slipped, ~slipped', ~doubled
               PROVE  \E s \in TwoSides : Closes(s)'
  BY <1>2, <1>4, <1>5 DEF NoiseInv
<1>7. PICK s \in TwoSides : Closes(s)
  BY <1>3, <1>6 DEF NoiseInv
<1>8. ASSUME NEW side \in TwoSides, NEW f \in Nat, Trade(side, f) PROVE Closes(s)'
  BY <1>1, <1>7, <1>8, TradeCloses
<1>9. CASE TakeRequest
  <2>1. PICK r : r = Head(requests)
    OBVIOUS
  <2>2. ~Moved(r)
    <3>1. requests \in Seq(Sent) /\ requests # <<>>
      BY <1>1, <1>9 DEF FlowTyped, TakeRequest
    <3>2. 1 \in 1..Len(requests) /\ r = requests[1]
      BY <2>1, <3>1
    <3> QED
      BY <1>4, <3>2 DEF NoModify, Moved
  <2> QED
    BY <1>1, <1>8, <1>9, <2>1, <2>2, TakeTrades
<1>10. ASSUME NEW id \in DOMAIN live, NEW q \in 1..live[id].q, Fill(id, q) PROVE Closes(s)'
  <2>1. id \notin BeingCancelled
    BY <1>6, <1>10 DEF Fill
  <2>2. ~Asks(requests, id)
    BY <1>1, <2>1, CancelledIs
  <2>3. live[id] \in [side : TwoSides, q : Nat \ {0}]
    BY <1>1 DEF FlowTyped
  <2>4. live[id].side \in TwoSides /\ q \in Nat
    BY <2>3
  <2> QED
    BY <1>1, <1>8, <1>10, <2>2, <2>4, FillTrades
<1> QED
  BY <1>9, <1>10 DEF ExchangeStep

\* The cancellations of a tick.
LEMMA CancelsSend ==
  ASSUME FlowTyped, NEW fate, \A j \in 1..Len(open_orders) : fate[j] \in {"keep", "cancel"},
         NEW c, c = Changes(open_orders, fate)
  PROVE  /\ Proper(c) /\ c \in Seq(Draft) /\ \A s : Vol(c, News(s)) = 0
         /\ \A i \in 1..Len(c) : c[i].action # "Modify"
         /\ \A j \in 1..Len(open_orders) : fate[j] = "cancel" => Asks(c, open_orders[j].id)
<1>1. PICK n : n = Len(open_orders)
  OBVIOUS
<1>2. /\ n \in Nat /\ DOMAIN open_orders = 1..n
      /\ \A j \in 1..n : open_orders[j].id \in Nat /\ open_orders[j].side \in TwoSides
  BY <1>1, ListedAre
<1>3. \A j \in 1..n : fate[j] \in {"keep", "cancel"}
  BY <1>1
<1>4. \A j \in 1..n : Decidable(open_orders[j], fate[j])
  BY <1>2, <1>3 DEF Decidable
<1>5. Decided(open_orders, fate, n, c)
  BY <1>2, <1>4, ChangesIs
<1>6. c \in Seq(Draft) /\ \A s : Vol(c, News(s)) = 0
  BY <1>2, <1>5, ChangesOffer
<1>7. ASSUME NEW i \in 1..Len(c) PROVE c[i].action # "Modify"
  <2>1. PICK j \in 1..n : \/ fate[j] = "replace" /\ c[i] = Modify(open_orders[j])
                          \/ fate[j] = "cancel" /\ c[i] = Cancel(open_orders[j])
    BY <1>5 DEF Decided
  <2>2. c[i] = Cancel(open_orders[j])
    BY <1>3, <2>1
  <2> QED
    BY <2>2 DEF Cancel, Request
<1>8. /\ Proper(c)
      /\ \A j \in 1..Len(open_orders) : fate[j] = "cancel" => Asks(c, open_orders[j].id)
  BY <1>1, <1>3, ListedChanges
<1> QED
  BY <1>6, <1>7, <1>8

\* A part of a tick: it offers n on a side, nothing on the other, and changes nothing.
Offers(b, x, n) ==
  /\ b \in Seq(Draft)
  /\ \A i \in 1..Len(b) : b[i].action # "Modify"
  /\ \A s : Vol(b, News(s)) = IF s = x THEN n ELSE 0

\* Nothing.
LEMMA OffersNone ==
  ASSUME NEW x PROVE Offers(<<>>, x, 0)
<1>1. PICK e : e = <<>>
  OBVIOUS
<1>2. e \in Seq(Draft) /\ Len(e) = 0
  BY <1>1
<1>3. \A s : Vol(e, News(s)) = 0
  BY <1>1, SendNone
<1> QED
  BY <1>1, <1>2, <1>3 DEF Offers

\* A new order.
LEMMA OffersOne ==
  ASSUME NEW x \in TwoSides, NEW n \in Nat \ {0}, NEW b,
         b = <<LimitOrder(x, n)>> \/ b = <<MarketOrder(x, n)>>
  PROVE  Offers(b, x, n)
<1>1. PICK r : b = <<r>> /\ (r = LimitOrder(x, n) \/ r = MarketOrder(x, n))
  OBVIOUS
<1>2. r \in Draft /\ IsNew(r) /\ r.action # "Modify" /\ r.side = x /\ r.q = n
  <2>1. LimitOrder(x, n) \in Draft /\ MarketOrder(x, n) \in Draft
    BY OrderIs
  <2>2. CASE r = LimitOrder(x, n)
    BY <2>1, <2>2 DEF LimitOrder, Request, IsNew
  <2>3. CASE r = MarketOrder(x, n)
    BY <2>1, <2>3 DEF MarketOrder, Request, IsNew
  <2> QED
    BY <1>1, <2>2, <2>3
<1>3. b \in Seq(Draft) /\ \A i \in 1..Len(b) : b[i].action # "Modify"
  BY <1>1, <1>2
<1>4. \A s : Vol(b, News(s)) = IF s = x THEN n ELSE 0
  BY <1>1, <1>2, SendOne
<1> QED
  BY <1>3, <1>4 DEF Offers

\* Two parts.
LEMMA OffersBoth ==
  ASSUME NEW x, NEW m \in Nat, NEW n \in Nat, NEW p, NEW q, Offers(p, x, m), Offers(q, x, n)
  PROVE  Offers(p \o q, x, m + n)
<1>1. p \in Seq(Draft) /\ q \in Seq(Draft)
  BY DEF Offers
<1>2. PICK b : b = p \o q
  OBVIOUS
<1>3. /\ b \in Seq(Draft)
      /\ \A i \in 1..Len(p) : i \in 1..Len(b) /\ b[i] = p[i]
      /\ \A i \in 1..Len(b) : i \in 1..Len(p) \/ (i - Len(p) \in 1..Len(q) /\ b[i] = q[i - Len(p)])
  <2>1. p \in Seq(Draft) /\ q \in Seq(Draft) /\ b = p \o q
    BY <1>1, <1>2
  <2> QED
    BY <2>1, ConcatAt
<1>4. \A i \in 1..Len(b) : b[i].action # "Modify"
  <2>1. /\ \A i \in 1..Len(p) : p[i].action # "Modify"
        /\ \A i \in 1..Len(q) : q[i].action # "Modify"
    BY DEF Offers
  <2> QED
    BY <1>3, <2>1
<1>5. ASSUME NEW s PROVE Vol(b, News(s)) = IF s = x THEN m + n ELSE 0
  <2>1. Vol(b, News(s)) = Vol(p, News(s)) + Vol(q, News(s))
    BY <1>1, <1>2, VolConcat
  <2>2. Vol(p, News(s)) = (IF s = x THEN m ELSE 0) /\ Vol(q, News(s)) = (IF s = x THEN n ELSE 0)
    BY DEF Offers
  <2> QED
    BY <2>1, <2>2
<1> QED
  BY <1>2, <1>3, <1>4, <1>5 DEF Offers

\* The take-profit.
LEMMA ProfitOffers ==
  ASSUME FlowTyped, NEW pos \in Int, pos # 0, NEW exit \in TwoSides
  PROVE  /\ Proper(Profit(exit, pos))
         /\ \/ Profit(exit, pos) = <<>> /\ Offers(Profit(exit, pos), exit, 0)
            \/ /\ Profit(exit, pos) # <<>> /\ Offers(Profit(exit, pos), exit, Abs(pos))
               /\ \A i \in 1..Len(open_orders) : open_orders[i].side # exit
<1>1. Abs(pos) \in Nat \ {0}
  BY AbsIs
<1>2. PICK b : b = Profit(exit, pos)
  OBVIOUS
<1>3. CASE b = <<>>
  BY <1>2, <1>3, ProperNone, OffersNone
<1>4. CASE TakeProfit(exit) /\ b = <<LimitOrder(exit, Abs(pos))>>
  <2>1. Proper(b) /\ Offers(b, exit, Abs(pos))
    BY <1>1, <1>4, ProperOrder, OffersOne
  <2>2. DOMAIN open_orders = 1..Len(open_orders)
    BY ListedAre
  <2>3. \A i \in 1..Len(open_orders) : open_orders[i].side # exit
    BY <1>4, <2>2 DEF TakeProfit, Listed
  <2>4. b # <<>>
    BY <1>4
  <2> QED
    BY <1>2, <2>1, <2>3, <2>4
<1> QED
  BY <1>2, <1>3, <1>4 DEF Profit

\* The cancellation of all the orders of a side.
LEMMA CancelAllOffers ==
  ASSUME FlowTyped, NEW exit
  PROVE  /\ Proper(CancelAll(exit)) /\ Offers(CancelAll(exit), exit, 0)
         /\ \A i \in 1..Len(open_orders) :
              open_orders[i].side = exit => Asks(CancelAll(exit), open_orders[i].id)
<1>1. PICK fate : fate = [i \in DOMAIN open_orders |->
                            IF open_orders[i].side = exit THEN "cancel" ELSE "keep"]
  OBVIOUS
<1>2. DOMAIN open_orders = 1..Len(open_orders)
  BY ListedAre
<1>3. \A i \in 1..Len(open_orders) :
        /\ fate[i] \in {"keep", "cancel"}
        /\ open_orders[i].side = exit => fate[i] = "cancel"
  BY <1>1, <1>2
<1>4. PICK c : c = Changes(open_orders, fate)
  OBVIOUS
<1>5. /\ Proper(c) /\ c \in Seq(Draft) /\ \A s : Vol(c, News(s)) = 0
      /\ \A i \in 1..Len(c) : c[i].action # "Modify"
      /\ \A j \in 1..Len(open_orders) : fate[j] = "cancel" => Asks(c, open_orders[j].id)
  BY <1>3, <1>4, CancelsSend
<1>6. c = CancelAll(exit)
  BY <1>1, <1>4 DEF CancelAll
<1>7. Offers(c, exit, 0)
  BY <1>5 DEF Offers
<1> QED
  BY <1>3, <1>5, <1>6, <1>7

\* Flat: nothing, cancellations, or an entry when nothing is listed.
LEMMA FlatOffers ==
  ASSUME FlowTyped, NEW batch \in Flat
  PROVE  \E x \in TwoSides, n \in Nat : Offers(batch, x, n) /\ (n = 0 \/ open_orders = <<>>)
<1>1. PICK y : y \in TwoSides
  BY DEF TwoSides
<1>2. CASE open_orders # <<>>
  <2>1. PICK fate : fate = [i \in DOMAIN open_orders |-> "cancel"]
    OBVIOUS
  <2>2. batch = Changes(open_orders, fate)
    BY <1>2, <2>1 DEF Flat
  <2>3. \A i \in 1..Len(open_orders) : fate[i] \in {"keep", "cancel"}
    BY <2>1, ListedAre
  <2>4. Offers(batch, y, 0)
    BY <2>2, <2>3, CancelsSend DEF Offers
  <2> QED
    BY <1>1, <2>4
<1>3. CASE open_orders = <<>>
  <2>1. CASE batch = <<>>
    BY <1>1, <2>1, OffersNone
  <2>2. ASSUME NEW side \in TwoSides, batch = <<LimitOrder(side, EntryQty)>>
        PROVE  Offers(batch, side, EntryQty) /\ EntryQty \in Nat
    BY <2>2, NoiseAssumption, OffersOne
  <2> QED
    BY <1>3, <2>1, <2>2 DEF Flat
<1> QED
  BY <1>2, <1>3

(* What a tick offers: nothing more; an entry, with nothing listed; or, on the *)
(* side of the exit, all of the position, with nothing else left there.        *)
LEMMA TickOffers ==
  ASSUME FlowTyped, NEW batch, NEW pos \in Int, NEW exit \in TwoSides, Ticks(batch, pos, exit)
  PROVE  \E x \in TwoSides, n \in Nat :
           /\ Offers(batch, x, n)
           /\ \/ n = 0
              \/ pos = 0 /\ open_orders = <<>>
              \/ /\ pos # 0 /\ x = exit /\ (~doubled' => n = Abs(pos))
                 /\ \A i \in 1..Len(open_orders) :
                      open_orders[i].side = exit => Asks(batch, open_orders[i].id)
<1>1. CASE pos = 0 /\ batch \in Flat
  BY <1>1, FlatOffers
<1>2. SUFFICES ASSUME pos # 0, ~(pos = 0 /\ batch \in Flat)
               PROVE  \E n \in Nat :
                        /\ Offers(batch, exit, n)
                        /\ \/ n = 0
                           \/ /\ ~doubled' => n = Abs(pos)
                              /\ \A i \in 1..Len(open_orders) :
                                   open_orders[i].side = exit => Asks(batch, open_orders[i].id)
  BY <1>1 DEF Ticks
<1>3. Abs(pos) \in Nat \ {0} /\ Abs(pos) \in Nat
  BY <1>2, AbsIs
<1>4. PICK p : p = Profit(exit, pos)
  OBVIOUS
<1>5. /\ Proper(p)
      /\ \/ p = <<>> /\ Offers(p, exit, 0)
         \/ /\ p # <<>> /\ Offers(p, exit, Abs(pos))
            /\ \A i \in 1..Len(open_orders) : open_orders[i].side # exit
  BY <1>2, <1>4, ProfitOffers
<1>6. CASE batch = p
  BY <1>3, <1>5, <1>6
<1>7. ASSUME batch = (p \o CancelAll(exit)) \o <<MarketOrder(exit, Abs(pos))>>,
             doubled' = (doubled \/ p # <<>>)
      PROVE  \E n \in Nat :
               /\ Offers(batch, exit, n)
               /\ ~doubled' => n = Abs(pos)
               /\ \A i \in 1..Len(open_orders) :
                    open_orders[i].side = exit => Asks(batch, open_orders[i].id)
  <2>1. PICK c, m : c = CancelAll(exit) /\ m = <<MarketOrder(exit, Abs(pos))>>
    OBVIOUS
  <2>2. PICK k \in Nat : Offers(p, exit, k) /\ (p = <<>> => k = 0)
    BY <1>3, <1>5
  <2>3. /\ Proper(c) /\ Offers(c, exit, 0)
        /\ \A i \in 1..Len(open_orders) : open_orders[i].side = exit => Asks(c, open_orders[i].id)
    BY <2>1, CancelAllOffers
  <2>4. Proper(m) /\ Offers(m, exit, Abs(pos))
    BY <1>3, <2>1, ProperOrder, OffersOne
  <2>5. PICK pc : pc = p \o c
    OBVIOUS
  <2>6. batch = pc \o m
    BY <1>7, <2>1, <2>5
  <2>7. Offers(pc, exit, k + 0) /\ Proper(pc) /\ \A id : Asks(c, id) => Asks(pc, id)
    BY <1>5, <2>2, <2>3, <2>5, OffersBoth, ProperConcat
  <2>8. Offers(batch, exit, k + Abs(pos)) /\ \A id : Asks(pc, id) => Asks(batch, id)
    <3>1. k + 0 = k /\ k + 0 \in Nat
      BY <2>2
    <3> QED
      BY <1>3, <2>4, <2>6, <2>7, <3>1, OffersBoth, ProperConcat
  <2>9. k + Abs(pos) \in Nat /\ (~doubled' => k + Abs(pos) = Abs(pos))
    <3>1. ~doubled' => p = <<>>
      BY <1>7, Zenon
    <3>2. PICK a : a = Abs(pos)
      OBVIOUS
    <3>3. a \in Nat /\ (~doubled' => k = 0)
      BY <1>3, <2>2, <3>1, <3>2
    <3>4. k + a \in Nat /\ (k = 0 => k + a = a)
      BY <2>2, <3>3
    <3> QED
      BY <3>2, <3>3, <3>4
  <2> QED
    BY <2>3, <2>7, <2>8, <2>9
<1> QED
  BY <1>2, <1>4, <1>6, <1>7 DEF Ticks

\* A pass that changes no order.
LEMMA NoModifyPass ==
  ASSUME FlowTyped, NoModify, NEW batch, NEW late, Pass(batch, late),
         \A i \in 1..Len(batch) : batch[i].action # "Modify"
  PROVE  NoModify'
<1>1. PICK b : Added(batch, b)
  BY PassAdds
<1>2. ASSUME NEW i \in 1..Len(requests') PROVE requests'[i].action # "Modify"
  <2>1. CASE i \in 1..Len(requests) /\ requests'[i] = requests[i]
    BY <2>1 DEF NoModify
  <2>2. ASSUME NEW k \in 1..Len(batch), i = Len(requests) + k /\ requests'[i] = b[k]
        PROVE  requests'[i].action # "Modify"
    <3>1. Likeness(b[k], batch[k])
      BY <1>1 DEF Added
    <3> QED
      BY <2>2, <3>1 DEF Likeness
  <2> QED
    BY <1>1, <1>2, <2>1, <2>2, AddedAre
<1> QED
  BY <1>2 DEF NoModify

(* A tick on an account in step: an entry is all that is offered, on its side, *)
(* and an exit is all that is offered on the side that closes the position.     *)
LEMMA TickCloses ==
  ASSUME FlowInv, Tick, NEW batch, NEW pos, NEW exit, NEW late,
         pos = read[Timer].pos, exit = IF pos > 0 THEN "Sell" ELSE "Buy",
         ~InFlight, pos = Position, Pass(batch, late),
         NEW x \in TwoSides, NEW n \in Nat \ {0}, Offers(batch, x, n),
         \/ pos = 0 /\ open_orders = <<>>
         \/ /\ pos # 0 /\ x = exit /\ n = Abs(pos)
            /\ \A i \in 1..Len(open_orders) :
                 open_orders[i].side = exit => Asks(batch, open_orders[i].id)
  PROVE  \E s \in TwoSides : Closes(s)'
<1>1. FlowTyped /\ StepInv /\ requests = <<>> /\ wire = <<>>
  BY DEF FlowInv, InFlight
<1>2. Balance = pos /\ pos \in Int /\ Balance' = Balance
  BY <1>1, BalanceHere, BalanceInt, PassOffers
<1>3. ASSUME NEW s PROVE Offer(s)' = Rest(s)' + (IF s = x THEN n ELSE 0) /\ Rest(s)' \in Nat
  <2>1. Vol(requests, News(s)) = 0
    BY <1>1, OfferHere
  <2>2. /\ Offer(s)' = Rest(s)' + Vol(requests, News(s)) + Vol(batch, News(s))
        /\ Rest(s)' \in Nat
    BY <1>1, PassOffers
  <2>3. Vol(batch, News(s)) = IF s = x THEN n ELSE 0
    BY DEF Offers
  <2> QED
    BY <2>1, <2>2, <2>3
<1>4. CASE pos = 0 /\ open_orders = <<>>
  <2>1. PICK s \in TwoSides : s # x
    BY DEF TwoSides
  <2>2. Rest(s)' = 0
    <3>1. Len(open_orders) = 0
      BY <1>4
    <3>2. \A i \in 1..Len(open_orders) :
            open_orders[i].side = s => Asks(batch, open_orders[i].id)
      BY <3>1
    <3> QED
      BY <1>1, <3>2, Cleared
  <2>3. Offer(s)' = 0 /\ Balance' = 0
    BY <1>2, <1>3, <1>4, <2>1, <2>2
  <2>4. Signed(s, 0) + 0 <= 0
    BY SignedIs
  <2>5. Closes(s)' <=> Signed(s, Balance') + Offer(s)' <= 0
    BY DEF Closes, Signed
  <2> QED
    BY <2>3, <2>4, <2>5
<1>5. CASE /\ pos # 0 /\ x = exit /\ n = Abs(pos)
           /\ \A i \in 1..Len(open_orders) :
                open_orders[i].side = exit => Asks(batch, open_orders[i].id)
  <2>1. Rest(x)' = 0
    BY <1>1, <1>5, Cleared
  <2>2. Offer(x)' = Abs(pos) /\ Balance' = pos
    BY <1>2, <1>3, <1>5, <2>1, AbsIs
  <2>3. Signed(x, pos) + Abs(pos) <= 0
    BY <1>2, <1>5 DEF Signed, Abs
  <2>4. Closes(x)' <=> Signed(x, Balance') + Offer(x)' <= 0
    BY DEF Closes, Signed
  <2> QED
    BY <2>2, <2>3, <2>4
<1> QED
  BY <1>4, <1>5

\* A tick.
LEMMA NoiseTicks ==
  ASSUME FlowInv, OwnTyped, NoiseInv, Tick PROVE NoiseInv'
<1>1. /\ FlowTyped /\ agent = "noise" /\ agent' = agent /\ slipped' = slipped
      /\ (~doubled' => ~doubled) /\ (LeftCloses' <=> LeftCloses)
  <2>1. /\ FlowTyped /\ agent = "noise" /\ agent' = agent /\ slipped' = slipped
        /\ (LeftCloses' <=> LeftCloses)
    BY LeftSame DEF FlowInv, Tick, who
  <2>2. ASSUME ~doubled' PROVE ~doubled
    BY <2>2, Zenon DEF Tick
  <2> QED
    BY <2>1, <2>2
<1>2. PICK batch, late, pos, exit :
        /\ pos = read[Timer].pos /\ exit = IF pos > 0 THEN "Sell" ELSE "Buy"
        /\ late = (InFlight \/ pos # Position)
        /\ Ticks(batch, pos, exit) /\ Pass(batch, late)
  BY <1>1, TickPass
<1>3. pos \in Int /\ exit \in TwoSides
  BY <1>1, <1>2, TimerIs, ReadIs DEF TwoSides
<1>4. PICK x \in TwoSides, n \in Nat :
        /\ Offers(batch, x, n)
        /\ \/ n = 0
           \/ pos = 0 /\ open_orders = <<>>
           \/ /\ pos # 0 /\ x = exit /\ (~doubled' => n = Abs(pos))
              /\ \A i \in 1..Len(open_orders) :
                   open_orders[i].side = exit => Asks(batch, open_orders[i].id)
  BY <1>1, <1>2, <1>3, TickOffers
<1>5. NoModify'
  BY <1>1, <1>2, <1>4, NoModifyPass DEF NoiseInv, Offers
<1>6. SUFFICES ASSUME LeftCloses, stale' = 0, ~slipped', ~doubled'
               PROVE  \E s \in TwoSides : Closes(s)'
  BY <1>1, <1>5 DEF NoiseInv
<1>7. stale = 0 /\ (batch # <<>> => ~late)
  <2>1. /\ stale' = stale \/ stale' = stale + 1
        /\ batch # <<>> /\ late => stale' = stale + 1
    BY <1>1, <1>2, PassAdds
  <2>2. stale \in Nat
    BY <1>1 DEF FlowTyped
  <2> QED
    BY <1>6, <2>1, <2>2
<1>8. PICK s \in TwoSides : Closes(s)
  BY <1>1, <1>6, <1>7 DEF NoiseInv
<1>9. CASE n = 0
  <2>1. Vol(batch, News(s)) = 0
    BY <1>4, <1>9 DEF Offers
  <2>2. /\ Offer(s)' \in Nat /\ Offer(s) \in Nat /\ Offer(s)' <= Offer(s) + Vol(batch, News(s))
        /\ Balance' = Balance
    BY <1>1, <1>2, PassOffers
  <2>3. Offer(s)' <= Offer(s)
    BY <2>1, <2>2
  <2> QED
    BY <1>1, <1>8, <2>2, <2>3, ClosesStill
<1>10. CASE n # 0
  <2>1. batch # <<>>
    <3>1. ASSUME batch = <<>> PROVE FALSE
      <4>1. Vol(batch, News(x)) = n /\ Vol(batch, News(x)) = 0
        BY <1>4, <3>1, SendNone DEF Offers
      <4> QED
        BY <1>10, <4>1
    <3> QED
      BY <3>1
  <2>2. ~InFlight /\ pos = Position
    BY <1>2, <1>7, <2>1
  <2>3. \/ pos = 0 /\ open_orders = <<>>
        \/ /\ pos # 0 /\ x = exit /\ n = Abs(pos)
           /\ \A i \in 1..Len(open_orders) :
                open_orders[i].side = exit => Asks(batch, open_orders[i].id)
    BY <1>4, <1>6, <1>10
  <2>4. n \in Nat \ {0}
    BY <1>10
  <2> QED
    BY <1>2, <1>4, <2>2, <2>3, <2>4, TickCloses
<1> QED
  BY <1>9, <1>10

\* Nothing that the invariant is about changes.
LEMMA NoiseSame ==
  ASSUME NoiseInv, UNCHANGED <<who, requests, live, stale, slipped, doubled>>, Balance' = Balance
  PROVE  NoiseInv'
<1>1. (NoModify' <=> NoModify) /\ (LeftCloses' <=> LeftCloses) /\ agent' = agent
  BY LeftSame DEF NoModify, who
<1>2. ASSUME NEW s PROVE Closes(s)' <=> Closes(s)
  <2>1. Offer(s)' = Offer(s)
    BY DEF Offer, Rest, Standing, BeingCancelled
  <2> QED
    BY <2>1 DEF Closes, Signed
<1> QED
  BY <1>1, <1>2 DEF NoiseInv

\* At first the position and the orders are those that were left.
LEMMA NoiseStart ==
  ASSUME Init PROVE NoiseInv
<1>1. FlowInit /\ FlowTyped /\ requests = <<>> /\ Balance = legacy.positions[Symbol]
  BY StandsAtFirst, BalanceStart DEF Init
<1>2. NoModify
  <2>1. Len(requests) = 0
    BY <1>1
  <2> QED
    BY <2>1 DEF NoModify
<1>3. ASSUME LeftCloses PROVE \E s \in TwoSides : Closes(s)
  <2>1. PICK s \in TwoSides : Signed(s, legacy.positions[Symbol]) + Inherited(s) <= 0
    BY <1>3 DEF LeftCloses
  <2>2. Offer(s) = Inherited(s)
    BY <1>1, StandsAtFirst, LeftOfferedIs
  <2>3. Closes(s)
    BY <1>1, <2>1, <2>2 DEF Closes
  <2> QED
    BY <2>3
<1> QED
  BY <1>2, <1>3 DEF NoiseInv

\* Every step keeps the exits within the position.
LEMMA NoiseSteps ==
  ASSUME FlowInv, FlowInv', OwnTyped, NoiseInv, [Next]_vars PROVE NoiseInv'
<1>1. FlowTyped
  BY DEF FlowInv
<1>2. CASE ExchangeStep /\ UNCHANGED bracket
  BY <1>2, NoiseTraded DEF bracket
<1>3. CASE agent # "noise" /\ agent' = agent
  BY <1>3 DEF NoiseInv
<1>4. CASE OnResponse
  <2>1. CASE OnNoiseResponse
    <3>1. wire # <<>> /\ Apply(Head(wire)) /\ doubled' = doubled
      BY <2>1 DEF OnNoiseResponse
    <3>2. Balance' = Balance /\ UNCHANGED <<who, requests, live, stale, slipped>>
      BY <1>1, <3>1, BalanceApplied DEF Apply
    <3> QED
      BY <3>1, <3>2, NoiseSame
  <2>2. CASE OnMakerResponse
    BY <1>3, <2>2 DEF OnMakerResponse, Apply, who
  <2>3. CASE OnMonitorResponse
    BY <1>3, <2>3 DEF OnMonitorResponse, Handle, Apply, flow, who
  <2> QED
    BY <1>4, <2>1, <2>2, <2>3 DEF OnResponse
<1>5. CASE MakerPass
  BY <1>3, <1>5 DEF MakerPass, ManageOrders, ManageQuotes, FastCancelProtection, who
<1>6. CASE InsiderPass
  BY <1>3, <1>6 DEF InsiderPass, InsiderStep, ReadFirst, Snipe, CopyOrders, MoveOrder, CheckQuote,
                    SendQuote, At, who
<1>7. CASE MonitorPass
  BY <1>3, <1>7 DEF MonitorPass, OnMonitorTimer, DisplayCash, DisplayPositions, DisplayOrders,
                    LowerFlag, SomebodySends, flow, who
<1>8. CASE Tick
  BY <1>8, NoiseTicks
<1>9. CASE ReadPosition
  <2>1. UNCHANGED <<positions, who, requests, live, wire, stale, slipped, doubled>>
    BY <1>9 DEF ReadPosition, account, bracket
  <2>2. Balance' = Balance
    BY <2>1, BalanceIs
  <2> QED
    BY <2>1, <2>2, NoiseSame
<1>10. CASE UNCHANGED vars
  <2>1. UNCHANGED <<positions, who, requests, live, wire, stale, slipped, doubled>>
    BY <1>10 DEF vars, flow, account, bracket
  <2>2. Balance' = Balance
    BY <2>1, BalanceIs
  <2> QED
    BY <2>1, <2>2, NoiseSame
<1> QED
  BY <1>2, <1>4, <1>5, <1>6, <1>7, <1>8, <1>9, <1>10 DEF Next, NoisePass

(* The noise trader, for any quantities and delays (on_timer), whatever it      *)
(* starts with that does not offer more than its position: while every tick     *)
(* acts on an account in step, no order is filled with its cancellation on the  *)
(* way, and no tick sends both exits, the exits offer no more than the          *)
(* position, and cannot turn it around.                                        *)
THEOREM NoiseExits == Spec => []ExitsWithinPosition
<1>1. Init => FlowInv /\ OwnTyped /\ NoiseInv
  BY FlowStart, OwnStart, NoiseStart DEF Init
<1>2. (FlowInv /\ OwnTyped /\ NoiseInv) /\ [Next]_vars => (FlowInv /\ OwnTyped /\ NoiseInv)'
  <2> SUFFICES ASSUME FlowInv, OwnTyped, NoiseInv, [Next]_vars
               PROVE  FlowInv' /\ OwnTyped' /\ NoiseInv'
    OBVIOUS
  <2>1. FlowInv' /\ OwnTyped'
    BY StepIs, FlowSteps, OwnSteps DEF FlowInv
  <2> QED
    BY <2>1, NoiseSteps
<1>3. FlowInv /\ NoiseInv => ExitsWithinPosition
  <2> SUFFICES ASSUME FlowInv, NoiseInv, agent = "noise", LeftWithin, stale = 0, ~slipped, ~doubled,
                      Balance # 0
               PROVE  Offered(IF Balance > 0 THEN "Sell" ELSE "Buy") <= Abs(Balance)
    BY DEF ExitsWithinPosition
  <2>1. FlowTyped
    BY DEF FlowInv
  <2>2. PICK s \in TwoSides : Closes(s)
    <3>1. \A t \in TwoSides : LeftOffered(t) = Inherited(t)
      BY <2>1, LeftOfferedIs
    <3>2. LeftCloses
      BY <3>1, Zenon DEF LeftWithin, LeftCloses
    <3> QED
      BY <3>2 DEF NoiseInv
  <2>3. PICK b, o : b = Balance /\ o = Offer(s)
    OBVIOUS
  <2>4. b \in Int /\ b # 0 /\ o \in Nat /\ Signed(s, b) + o <= 0
    BY <2>1, <2>2, <2>3, NumbersAre DEF Numbers, Closes
  <2>5. s = (IF b > 0 THEN "Sell" ELSE "Buy") /\ o <= Abs(b)
    BY <2>4 DEF Signed, Abs, TwoSides
  <2> QED
    BY <2>1, <2>3, <2>5, OfferedIs
<1> QED
  BY <1>1, <1>2, <1>3, PTL DEF Spec

-----------------------------------------------------------------------------
(* The screen of the account monitor: for any account, any number of orders *)
(* and any responses, a lowered needs_display_ means that the screen shows   *)
(* the account, unless a response came while the last display was going on,  *)
(* or the io thread is between the change of the account and the flag.       *)
Flags ==
  /\ needs_display \in BOOLEAN /\ raising \in BOOLEAN /\ overtaken \in BOOLEAN
  /\ phase \in {"waiting", "cash shown", "positions shown", "shown"}
  /\ screen = [cash |-> screen.cash, positions |-> screen.positions,
               open_orders |-> screen.open_orders]

(* How far the display has come, on an account that does not change meanwhile. *)
ShownSoFar ==
  agent = "monitor" /\ ~overtaken =>
    /\ phase \in {"cash shown", "positions shown"} => screen.cash = positions[Cash]
    /\ phase = "positions shown" => screen.positions = SymbolPositions
    /\ phase = "shown" => screen = Shown

IInv == Flags /\ ShownSoFar /\ ScreenIsCurrent

-----------------------------------------------------------------------------
(* A step that leaves the account and the monitor alone, or another agent's.  *)
Elsewhere ==
  /\ agent' = agent /\ UNCHANGED monitor
  /\ agent = "monitor" => UNCHANGED account

\* Such a step keeps the screen as current as it was.
LEMMA ElsewhereKeeps ==
  ASSUME IInv, Elsewhere PROVE IInv'
<1>1. UNCHANGED <<agent, needs_display, phase, screen, raising, overtaken>>
  BY DEF Elsewhere, monitor
<1>2. agent = "monitor" => UNCHANGED <<positions, open_orders>>
  BY DEF Elsewhere, account
<1>3. Flags'
  BY <1>1 DEF IInv, Flags
<1>4. agent = "monitor" => Shown' = Shown /\ SymbolPositions' = SymbolPositions
  BY <1>2 DEF Shown, SymbolPositions
<1>5. ShownSoFar'
  BY <1>1, <1>2, <1>4 DEF IInv, ShownSoFar
<1>6. ScreenIsCurrent'
  BY <1>1, <1>4 DEF IInv, ScreenIsCurrent
<1> QED BY <1>3, <1>5, <1>6 DEF IInv

(* The exchange applies nothing to the account.                               *)
LEMMA ExchangeElsewhere ==
  ASSUME ExchangeStep, UNCHANGED monitor PROVE Elsewhere
<1>1. CASE TakeRequest
  BY <1>1 DEF TakeRequest, Elsewhere, who
<1>2. ASSUME NEW id \in DOMAIN live, NEW q \in 1..live[id].q, Fill(id, q) PROVE Elsewhere
  BY <1>2 DEF Fill, Elsewhere, who
<1> QED BY <1>1, <1>2 DEF ExchangeStep

(* The passes of the agents send, and the responses are theirs.               *)
LEMMA AgentsElsewhere ==
  ASSUME OnMakerResponse \/ OnNoiseResponse \/ MakerPass \/ InsiderPass \/ NoisePass
           \/ SomebodySends,
         UNCHANGED monitor
  PROVE  Elsewhere
<1>1. CASE OnMakerResponse
  BY <1>1 DEF OnMakerResponse, Apply, Elsewhere, who
<1>2. CASE OnNoiseResponse
  BY <1>2 DEF OnNoiseResponse, Apply, Elsewhere, who
<1>3. CASE MakerPass
  BY <1>3 DEF MakerPass, ManageOrders, ManageQuotes, FastCancelProtection, Elsewhere, who
<1>4. CASE InsiderPass
  BY <1>4 DEF InsiderPass, InsiderStep, ReadFirst, Snipe, CopyOrders, MoveOrder, CheckQuote, SendQuote,
              At, Elsewhere, who
<1>5. CASE NoisePass
  BY <1>5 DEF NoisePass, ReadPosition, Tick, Elsewhere, who
<1>6. CASE SomebodySends
  BY <1>6 DEF SomebodySends, Elsewhere, who
<1> QED BY <1>1, <1>2, <1>3, <1>4, <1>5, <1>6

(* A response is to raise the flag, or leaves the account as it is; one that  *)
(* comes during a display overtakes it.                                       *)
LEMMA HandleKeeps ==
  ASSUME IInv, agent = "monitor", ~raising, Handle, raising' = Raises(Head(wire)),
         UNCHANGED <<phase, screen, needs_display>>
  PROVE  IInv'
<1>1. /\ agent' = agent /\ overtaken' = (overtaken \/ phase # "waiting")
      /\ positions' = PositionsOnce(positions, Head(wire))
      /\ open_orders' = OpenOrdersOnce(open_orders, Head(wire))
  BY DEF Handle, Apply, who
<1>2. Flags'
  BY <1>1 DEF IInv, Flags, Raises
<1>3. ShownSoFar'
  BY <1>1 DEF IInv, Flags, ShownSoFar
<1>4. ~Raises(Head(wire)) => UNCHANGED <<positions, open_orders>>
  BY <1>1 DEF Raises, PositionsOnce, OpenOrdersOnce, PositionsAfter, OpenOrdersAfter
<1>5. ~Raises(Head(wire)) => Shown' = Shown
  BY <1>4 DEF Shown, SymbolPositions
<1>6. ScreenIsCurrent'
  BY <1>1, <1>5 DEF IInv, Flags, ScreenIsCurrent
<1> QED BY <1>2, <1>3, <1>6 DEF IInv

\* The io thread changes the account, or raises the flag.
LEMMA ResponseKeeps ==
  ASSUME IInv, OnMonitorResponse PROVE IInv'
<1>1. CASE ~raising /\ Handle /\ raising' = Raises(Head(wire)) /\ UNCHANGED needs_display
  BY <1>1, HandleKeeps DEF OnMonitorResponse
<1>2. CASE raising /\ raising' = FALSE /\ needs_display' = TRUE /\ UNCHANGED <<flow, overtaken>>
  <2>1. UNCHANGED <<agent, phase, screen, overtaken, positions, open_orders>>
    BY <1>2 DEF OnMonitorResponse, flow, account, who
  <2>2. Shown' = Shown /\ SymbolPositions' = SymbolPositions
    BY <2>1 DEF Shown, SymbolPositions
  <2>3. Flags'
    BY <1>2, <2>1 DEF IInv, Flags
  <2>4. ShownSoFar'
    BY <2>1, <2>2 DEF IInv, ShownSoFar
  <2>5. ScreenIsCurrent'
    BY <1>2 DEF ScreenIsCurrent
  <2> QED BY <2>3, <2>4, <2>5 DEF IInv
<1> QED BY <1>1, <1>2 DEF OnMonitorResponse

\* The timer shows what the account is.
LEMMA TimerKeeps ==
  ASSUME IInv, OnMonitorTimer PROVE IInv'
<1>1. UNCHANGED <<agent, positions, open_orders, raising>>
  BY DEF OnMonitorTimer, DisplayCash, DisplayPositions, DisplayOrders, LowerFlag, flow, account, who
<1>2. Shown' = Shown /\ SymbolPositions' = SymbolPositions
  BY <1>1 DEF Shown, SymbolPositions
<1>3. CASE DisplayCash
  <2>1. screen' = [cash |-> positions[Cash], positions |-> screen.positions,
                   open_orders |-> screen.open_orders]
    BY <1>3 DEF DisplayCash, IInv, Flags
  <2> QED BY <1>1, <1>2, <1>3, <2>1 DEF DisplayCash, IInv, Flags, ShownSoFar, ScreenIsCurrent
<1>4. CASE DisplayPositions
  <2>1. screen' = [cash |-> screen.cash, positions |-> SymbolPositions,
                   open_orders |-> screen.open_orders]
    BY <1>4 DEF DisplayPositions, IInv, Flags
  <2> QED BY <1>1, <1>2, <1>4, <2>1 DEF DisplayPositions, IInv, Flags, ShownSoFar, ScreenIsCurrent
<1>5. CASE DisplayOrders
  <2>1. screen' = [cash |-> screen.cash, positions |-> screen.positions,
                   open_orders |-> open_orders]
    BY <1>5 DEF DisplayOrders, IInv, Flags
  <2>2. agent = "monitor" /\ ~overtaken => screen' = Shown
    BY <1>5, <2>1 DEF DisplayOrders, IInv, ShownSoFar, Shown
  <2> QED BY <1>1, <1>2, <1>5, <2>1, <2>2 DEF DisplayOrders, IInv, Flags, ShownSoFar, ScreenIsCurrent
<1>6. CASE LowerFlag
  BY <1>1, <1>2, <1>6 DEF LowerFlag, flow, IInv, Flags, ShownSoFar, ScreenIsCurrent
<1> QED BY <1>3, <1>4, <1>5, <1>6 DEF OnMonitorTimer

-----------------------------------------------------------------------------
(* The account monitor's screen is current whenever nothing is left to show  *)
(* (AccountMonitor::on_timer), but for a response during the last display,   *)
(* and for the moment between a change of the account and its flag.          *)
THEOREM ScreenCurrent == Spec => []ScreenIsCurrent
<1>1. Init => IInv
  <2> SUFFICES ASSUME Init PROVE IInv
    OBVIOUS
  <2>1. /\ screen = Shown /\ phase = "waiting" /\ needs_display = TRUE /\ raising = FALSE
        /\ overtaken = FALSE
    BY DEF Init
  <2> QED BY <2>1 DEF IInv, Flags, ShownSoFar, ScreenIsCurrent, Shown
<1>2. IInv /\ [Next]_vars => IInv'
  <2> SUFFICES ASSUME IInv, [Next]_vars PROVE IInv'
    OBVIOUS
  <2>1. CASE ExchangeStep /\ UNCHANGED <<refills, bracket, monitor>>
    BY <2>1, ExchangeElsewhere, ElsewhereKeeps
  <2>2. CASE OnResponse
    <3>1. CASE OnMonitorResponse
      BY <3>1, ResponseKeeps
    <3>2. CASE (OnMakerResponse \/ OnNoiseResponse) /\ UNCHANGED monitor
      BY <3>2, AgentsElsewhere, ElsewhereKeeps
    <3> QED BY <2>2, <3>1, <3>2 DEF OnResponse, OnMakerResponse
  <2>3. CASE MakerPass \/ InsiderPass \/ NoisePass
    <3>1. UNCHANGED monitor
      BY <2>3 DEF MakerPass, InsiderPass, NoisePass
    <3> QED BY <2>3, <3>1, AgentsElsewhere, ElsewhereKeeps
  <2>4. CASE MonitorPass
    <3>1. CASE OnMonitorTimer
      BY <3>1, TimerKeeps
    <3>2. CASE SomebodySends
      <4>1. UNCHANGED monitor
        BY <3>2 DEF SomebodySends
      <4> QED BY <3>2, <4>1, AgentsElsewhere, ElsewhereKeeps
    <3> QED BY <2>4, <3>1, <3>2 DEF MonitorPass
  <2>5. CASE UNCHANGED vars
    <3>1. Elsewhere
      BY <2>5 DEF vars, flow, who, Elsewhere
    <3> QED BY <3>1, ElsewhereKeeps
  <2> QED BY <2>1, <2>2, <2>3, <2>4, <2>5 DEF Next
<1>3. IInv => ScreenIsCurrent
  BY DEF IInv
<1> QED BY <1>1, <1>2, <1>3, PTL DEF Spec
=============================================================================
