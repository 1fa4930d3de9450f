----------------------------- MODULE OpenOrders -----------------------------
(***************************************************************************)
(* The vector open_orders_ of include/ClientAccount.hpp: responses in the   *)
(* order in which they were added, found by their order_id.                 *)
(***************************************************************************)
EXTENDS Naturals, Sequences

(* std::find_if: where the order is, or 0.                                   *)
Find(open, id) ==
  IF \E i \in DOMAIN open : open[i].id = id
  THEN CHOOSE i \in DOMAIN open :
         open[i].id = id /\ \A j \in DOMAIN open : j < i => open[j].id # id
  ELSE 0

\* Mutant: a response to a known order is added again.
UpsertAppends(open, r) == Append(open, r)

Upsert(open, r) ==
  LET i == Find(open, r.id)
  IN  IF i = 0 THEN Append(open, r) ELSE [open EXCEPT ![i] = r]

\* Mutant: the last open order is erased in place of the one found.
EraseLast(open, id) ==
  IF Find(open, id) = 0 THEN open ELSE SubSeq(open, 1, Len(open) - 1)

\* Mutant: the order found is moved out, but its slot stays.
EraseLeavesSlot(open, id) ==
  LET i == Find(open, id)
  IN  IF i = 0 THEN open ELSE [open EXCEPT ![i].type = "moved from"]

Erase(open, id) ==
  LET i == Find(open, id)
  IN  IF i = 0 THEN open
      ELSE [j \in 1..(Len(open) - 1) |-> IF j < i THEN open[j] ELSE open[j + 1]]

\* No order is there twice.
Unique(open) == \A i, j \in 1..Len(open) : open[i].id = open[j].id => i = j
=============================================================================
