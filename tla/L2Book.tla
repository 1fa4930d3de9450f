------------------------------- MODULE L2Book -------------------------------
(***************************************************************************)
(* The price-level book an L2 subscriber keeps (include/L2Book.hpp): for    *)
(* each side a map from price to the total quantity offered there.  An      *)
(* update carries the new total of one level, zero when the level is gone,  *)
(* and side None announces a snapshot.                                      *)
(***************************************************************************)
EXTENDS Naturals, Functions

NoLevels == [s \in {"Buy", "Sell"} |-> <<>>]

SetLevel(levels, p, q) ==
  [r \in DOMAIN levels \cup {p} |-> IF r = p THEN q ELSE levels[r]]

\* Mutant: a level whose total is zero stays in the map.
UpdateKeepsZero(book, u) ==
  IF u.side = "None" THEN NoLevels
  ELSE [book EXCEPT ![u.side] = SetLevel(@, u.p, u.q)]

UpdateL2(book, u) ==
  IF u.side = "None" THEN NoLevels
  ELSE [book EXCEPT ![u.side] =
          IF u.q = 0 THEN Restrict(@, DOMAIN @ \ {u.p}) ELSE SetLevel(@, u.p, u.q)]
=============================================================================
