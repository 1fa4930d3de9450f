--------------------------- MODULE OrderedChannel ---------------------------
(***************************************************************************)
(* What a user of SimpleWSClient relies on, whichever threads call send():  *)
(* messages leave in the order of the calls, each at most once and none     *)
(* skipped, until the connection is over; and while it is not, every        *)
(* message does leave.  Message k is the k-th call of send.  If the server  *)
(* pings, a damaged frame may leave in the place of a message.              *)
(***************************************************************************)
EXTENDS Naturals, Sequences

CONSTANTS
  MayDamage,   \* whether a frame may be damaged
  Damaged      \* what such a frame holds

VARIABLES
  sent,     \* how many messages were handed to the client
  frames,   \* the frames written to the connection, in order
  over      \* the connection was lost, or the client stopped

chan == <<sent, frames, over>>

Init == sent = 0 /\ frames = <<>> /\ over = FALSE

Send == sent' = sent + 1 /\ UNCHANGED <<frames, over>>

Leave ==
  /\ ~over /\ Len(frames) < sent
  /\ \E f \in {Len(frames) + 1} \cup (IF MayDamage THEN {Damaged} ELSE {}) :
       frames' = Append(frames, f)
  /\ UNCHANGED <<sent, over>>

End == ~over /\ over' = TRUE /\ UNCHANGED <<sent, frames>>

Next == Send \/ Leave \/ End

Spec == Init /\ [][Next]_chan /\ WF_chan(Leave)
=============================================================================
