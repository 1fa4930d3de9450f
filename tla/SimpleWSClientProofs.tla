------------------------ MODULE SimpleWSClientProofs ------------------------
(* For any number of messages: one write at a time, no stall and no message  *)
(* out of order; and each step of the client is a step of an OrderedChannel  *)
(* or none.                                                                  *)
EXTENDS SimpleWSClient, SequenceTheorems, TLAPS

(* Where the messages are.  While the connection is open they stand in one   *)
(* line: the frames written, the write in progress, write_queue_, and the    *)
(* posted handlers, each message one place behind the one before it.         *)
Line ==
  /\ \A i \in 1..Len(writes) : writes[i].msg = Len(frames) + i
  /\ \A i \in 1..Len(queue)  : queue[i]  = Len(frames) + Len(writes) + i
  /\ \A i \in 1..Len(posted) : posted[i] = Len(frames) + Len(writes) + Len(queue) + i
  /\ sent = Len(frames) + Len(writes) + Len(queue) + Len(posted)

IInv ==
  /\ TypeOK /\ OneWriteAtATime /\ QueueIsServed /\ FramesInOrder
  /\ conn = "open" => Line
  /\ ~Pings => ~pong /\ \A i \in 1..Len(writes) : writes[i].whole

(* What is used of a sequence that is not empty, of any kind of element.     *)
LEMMA NotEmpty ==
  ASSUME NEW S, NEW s \in Seq(S), s # <<>>
  PROVE  /\ Len(s) \in Nat /\ Len(s) >= 1 /\ Head(s) = s[1] /\ s[1] \in S
         /\ Len(s) <= 1 => Len(s) = 1 /\ Tail(s) = <<>>
<1>1. Len(s) \in Nat \ {0}
  BY EmptySeq
<1>2. Len(s) >= 1
  BY <1>1
<1>3. Head(s) = s[1] /\ s[1] \in S
  BY <1>1, ElementOfSeq
<1>4. ASSUME Len(s) <= 1 PROVE Len(s) = 1 /\ Tail(s) = <<>>
  <2>1. Len(s) = 1
    BY <1>1, <1>4
  <2>2. Tail(s) \in Seq(S)
    BY HeadTailProperties
  <2>3. Len(Tail(s)) = Len(s) - 1
    BY HeadTailProperties
  <2>4. Len(Tail(s)) = 0
    BY <2>1, <2>3
  <2>5. Tail(s) = <<>>
    BY <2>2, <2>4, EmptySeq
  <2> QED
    BY <2>1, <2>5
<1> QED
  BY <1>1, <1>2, <1>3, <1>4

LEMMA InitIInv == Init => IInv
<1> SUFFICES ASSUME Init PROVE IInv
  OBVIOUS
<1> USE DEF Init
<1>1. TypeOK
  <2>1. <<>> \in Seq(Nat) /\ <<>> \in Seq([msg: Nat, whole: BOOLEAN])
    OBVIOUS
  <2>2. writing \in BOOLEAN /\ reading \in BOOLEAN /\ pong \in BOOLEAN
    BY Zenon
  <2> QED
    BY <2>1, <2>2 DEF TypeOK
<1>2. OneWriteAtATime /\ QueueIsServed /\ FramesInOrder
  BY DEF OneWriteAtATime, QueueIsServed, FramesInOrder
<1>3. Line
  BY DEF Line
<1> QED
  BY <1>1, <1>2, <1>3 DEF IInv

-----------------------------------------------------------------------------
(* do_write, called with the line q of waiting messages and no write in      *)
(* progress, when f frames have been written.                                *)
LEMMA DoWriteKeeps ==
  ASSUME NEW q \in Seq(Nat), TypeOK, DoWrite(q, <<>>)
  PROVE  /\ queue' \in Seq(Nat) /\ writes' \in Seq([msg: Nat, whole: BOOLEAN])
         /\ writing' \in BOOLEAN
         /\ Len(writes') <= 1 /\ (writing' <=> writes' # <<>>)
         /\ ~writing' => queue' = <<>>
         /\ Len(writes') + Len(queue') = Len(q)
         /\ \A i \in 1..Len(writes') : writes'[i].msg = q[i] /\ (~pong => writes'[i].whole)
         /\ \A i \in 1..Len(queue') : queue'[i] = q[Len(writes') + i]
<1>1. CASE q = <<>>
  <2>1. writing' = FALSE /\ queue' = <<>> /\ writes' = <<>>
    BY <1>1 DEF DoWrite
  <2>2. <<>> \in Seq(Nat) /\ <<>> \in Seq([msg: Nat, whole: BOOLEAN])
    OBVIOUS
  <2>3. writing' \in BOOLEAN /\ (writing' <=> writes' # <<>>) /\ (~writing' => queue' = <<>>)
    BY <2>1, Zenon
  <2>4. Len(writes') = 0 /\ Len(queue') = 0 /\ Len(q) = 0
    BY <1>1, <2>1
  <2>5. /\ \A i \in 1..Len(writes') : writes'[i].msg = q[i] /\ (~pong => writes'[i].whole)
        /\ \A i \in 1..Len(queue') : queue'[i] = q[Len(writes') + i]
    BY <2>4
  <2>6. queue' \in Seq(Nat) /\ writes' \in Seq([msg: Nat, whole: BOOLEAN])
    BY <2>1, <2>2, Zenon
  <2> QED
    BY <2>3, <2>4, <2>5, <2>6
<1>2. CASE q # <<>>
  <2>1. PICK whole \in BOOLEAN :
          /\ writes' = Append(<<>>, [msg |-> Head(q), whole |-> whole])
          /\ ~pong => whole
    BY <1>2 DEF DoWrite, TypeOK
  <2>2. writing' = TRUE /\ queue' = Tail(q)
    BY <1>2 DEF DoWrite
  <2>3. /\ Len(writes') = 1 /\ writes'[1] = [msg |-> Head(q), whole |-> whole]
        /\ writes' \in Seq([msg: Nat, whole: BOOLEAN])
    <3>1. [msg |-> Head(q), whole |-> whole] \in [msg: Nat, whole: BOOLEAN]
      BY <1>2
    <3> QED
      BY <2>1, <3>1
  <2>4. Head(q) = q[1] /\ Len(queue') = Len(q) - 1 /\ queue' \in Seq(Nat)
    BY <1>2, <2>2
  <2>5. \A i \in 1..Len(queue') : queue'[i] = q[i + 1]
    BY <1>2, <2>2
  <2> QED
    BY <1>2, <2>1, <2>2, <2>3, <2>4, <2>5
<1> QED
  BY <1>1, <1>2

-----------------------------------------------------------------------------
(* The steps that move no message.                                           *)
Quiet == UNCHANGED <<sent, posted, queue, writing, writes, frames>>

LEMMA QuietKeeps ==
  ASSUME IInv, Quiet,
         reading' \in BOOLEAN, pong' \in BOOLEAN, ~Pings => ~pong',
         conn' \in {"open", "lost"}, conn' = "open" => conn = "open",
         ioc' \in {"new", "running", "stopped"}
  PROVE  IInv'
<1> USE DEF Quiet
<1>1. TypeOK'
  BY DEF IInv, TypeOK
<1>2. OneWriteAtATime' /\ QueueIsServed' /\ FramesInOrder'
  BY DEF IInv, OneWriteAtATime, QueueIsServed, FramesInOrder
<1>3. conn' = "open" => Line'
  BY DEF IInv, Line
<1> QED
  BY <1>1, <1>2, <1>3 DEF IInv

LEMMA SendKeeps == IInv /\ Send => IInv'
<1> SUFFICES ASSUME IInv, Send PROVE IInv'
  OBVIOUS
<1> USE DEF Send
<1>0. TypeOK /\ sent + 1 \in Nat
  BY DEF IInv, TypeOK
<1>1. TypeOK'
  BY <1>0 DEF TypeOK
<1>2. OneWriteAtATime' /\ QueueIsServed' /\ FramesInOrder'
  BY DEF IInv, OneWriteAtATime, QueueIsServed, FramesInOrder
<1>3. conn' = "open" => Line'
  <2> SUFFICES ASSUME conn = "open" PROVE Line'
    OBVIOUS
  <2>1. Line
    BY DEF IInv
  <2>2. /\ Len(posted') = Len(posted) + 1 /\ posted'[Len(posted) + 1] = sent + 1
        /\ \A i \in 1..Len(posted) : posted'[i] = posted[i]
    BY <1>0 DEF TypeOK
  <2>3. /\ Len(posted) \in Nat /\ Len(queue) \in Nat /\ Len(writes) \in Nat /\ Len(frames) \in Nat
    BY <1>0 DEF TypeOK
  <2> QED
    BY <1>0, <2>1, <2>2, <2>3 DEF Line
<1> QED
  BY <1>1, <1>2, <1>3 DEF IInv

LEMMA RunPostedKeeps == IInv /\ RunPosted => IInv'
<1> SUFFICES ASSUME IInv, RunPosted PROVE IInv'
  OBVIOUS
<1>0. /\ TypeOK /\ OneWriteAtATime /\ QueueIsServed /\ posted # <<>>
      /\ UNCHANGED <<sent, frames, reading, pong, conn, ioc>>
  BY DEF IInv, RunPosted
<1>1. PICK q : q = Append(queue, Head(posted))
  OBVIOUS
<1>2. /\ q \in Seq(Nat) /\ Len(q) = Len(queue) + 1 /\ q[Len(queue) + 1] = posted[1]
      /\ \A i \in 1..Len(queue) : q[i] = queue[i]
  BY <1>0, <1>1 DEF TypeOK
<1>3. /\ posted' \in Seq(Nat) /\ Len(posted') = Len(posted) - 1
      /\ \A i \in 1..Len(posted') : posted'[i] = posted[i + 1]
  BY <1>0 DEF TypeOK, RunPosted
<1>4. /\ Len(posted) \in Nat /\ Len(queue) \in Nat /\ Len(writes) \in Nat /\ Len(frames) \in Nat
  BY <1>0 DEF TypeOK
<1>5. CASE writing
  <2>1. queue' = q /\ UNCHANGED <<writing, writes>>
    BY <1>1, <1>5 DEF RunPosted
  <2>2. TypeOK'
    BY <1>0, <1>2, <1>3, <2>1 DEF TypeOK
  <2>3. OneWriteAtATime' /\ QueueIsServed' /\ FramesInOrder'
    BY <1>0, <1>5, <2>1 DEF IInv, OneWriteAtATime, QueueIsServed, FramesInOrder
  <2>4. ASSUME conn' = "open" PROVE Line'
    <3>1. Line
      BY <1>0, <2>4 DEF IInv
    <3>2. PICK n \in Nat, w \in Nat, k \in Nat :
            n = Len(frames) /\ w = Len(writes) /\ k = Len(queue)
      BY <1>4
    <3>3. posted[1] = n + w + k + 1
      BY <1>0, <1>3, <1>4, <3>1, <3>2 DEF Line, TypeOK
    <3>4. /\ \A i \in 1..k : q[i] = n + w + i
          /\ q[k + 1] = n + w + k + 1
      <4>1. \A i \in 1..k : queue[i] = n + w + i
        BY <3>1, <3>2 DEF Line
      <4> QED
        BY <1>2, <3>2, <3>3, <4>1
    <3>5. \A i \in 1..(k + 1) : q[i] = n + w + i
      BY <3>2, <3>4
    <3>6. \A i \in 1..Len(posted') : posted'[i] = n + w + (k + 1) + i
      BY <1>3, <1>4, <3>1, <3>2 DEF Line
    <3>7. sent = n + w + (k + 1) + Len(posted')
      BY <1>3, <1>4, <3>1, <3>2 DEF Line
    <3>8. \A i \in 1..w : writes[i].msg = n + i
      BY <3>1, <3>2 DEF Line
    <3> QED
      BY <1>0, <1>2, <2>1, <3>2, <3>5, <3>6, <3>7, <3>8 DEF Line
  <2> QED
    BY <1>0, <2>1, <2>2, <2>3, <2>4 DEF IInv
<1>6. CASE ~writing
  <2>1. writes = <<>> /\ Len(writes) = 0 /\ (conn = "open" => queue = <<>>)
    BY <1>0, <1>6 DEF OneWriteAtATime, QueueIsServed
  <2>2. DoWrite(q, <<>>)
    BY <1>1, <1>6, <2>1 DEF RunPosted
  <2>3. /\ queue' \in Seq(Nat) /\ writes' \in Seq([msg: Nat, whole: BOOLEAN])
        /\ writing' \in BOOLEAN
        /\ Len(writes') <= 1 /\ (writing' <=> writes' # <<>>)
        /\ ~writing' => queue' = <<>>
        /\ Len(writes') + Len(queue') = Len(q)
        /\ \A i \in 1..Len(writes') : writes'[i].msg = q[i] /\ (~pong => writes'[i].whole)
        /\ \A i \in 1..Len(queue') : queue'[i] = q[Len(writes') + i]
    BY <1>0, <1>2, <2>2, DoWriteKeeps
  <2>4. TypeOK'
    BY <1>0, <1>3, <2>3 DEF TypeOK
  <2>5. OneWriteAtATime' /\ QueueIsServed' /\ FramesInOrder'
    BY <1>0, <2>3 DEF IInv, OneWriteAtATime, QueueIsServed, FramesInOrder
  <2>6. ~Pings => ~pong' /\ \A i \in 1..Len(writes') : writes'[i].whole
    BY <1>0, <2>3 DEF IInv
  <2>7. ASSUME conn' = "open" PROVE Line'
    <3>1. Line /\ Len(queue) = 0 /\ Len(q) = 1 /\ q[1] = Len(frames) + 1
      BY <1>0, <1>2, <1>4, <2>1, <2>7 DEF IInv, Line
    <3>2. Len(writes') \in Nat /\ Len(queue') \in Nat /\ Len(posted') \in Nat
      BY <1>3, <2>3
    <3>3. Len(writes') = 1 /\ Len(queue') = 0
      <4>1. CASE ~writing'
        BY <2>3, <3>1, <4>1
      <4>2. CASE writing'
        <5>1. writes' # <<>>
          BY <2>3, <4>2, Zenon
        <5>2. Len(writes') >= 1
          BY <2>3, <5>1, NotEmpty
        <5>3. PICK w \in Nat, k \in Nat : w = Len(writes') /\ k = Len(queue')
          BY <3>2
        <5>4. w <= 1 /\ w >= 1 /\ w + k = 1
          BY <2>3, <3>1, <5>2, <5>3
        <5> QED
          BY <5>3, <5>4
      <4> QED
        BY <4>1, <4>2
    <3>4. writes'[1].msg = Len(frames) + 1
      BY <2>3, <3>1, <3>3
    <3>5. /\ Len(writes) = 0 /\ Len(posted') = Len(posted) - 1
          /\ \A i \in 1..Len(posted') : posted'[i] = Len(frames) + 1 + i
          /\ sent = Len(frames) + 1 + Len(posted')
      BY <1>3, <1>4, <2>1, <3>1 DEF Line
    <3> QED
      BY <1>0, <1>4, <3>3, <3>4, <3>5 DEF Line
  <2> QED
    BY <2>4, <2>5, <2>6, <2>7 DEF IInv
<1> QED
  BY <1>5, <1>6

(* What a completed write adds to the frames.                                *)
Leaves(f) == f = Len(frames) + 1 \/ (Pings /\ f = Damaged)

LEMMA WriteDoneKeeps ==
  IInv /\ WriteDone => IInv' /\ \E f : Leaves(f) /\ frames' = Append(frames, f)
<1> SUFFICES ASSUME IInv, WriteDone
             PROVE  IInv' /\ \E f : Leaves(f) /\ frames' = Append(frames, f)
  OBVIOUS
<1>0. /\ TypeOK /\ OneWriteAtATime /\ QueueIsServed /\ writes # <<>> /\ conn = "open" /\ Line
      /\ UNCHANGED <<sent, posted, reading, pong, conn, ioc>>
  BY DEF IInv, WriteDone
<1>1. /\ Len(posted) \in Nat /\ Len(queue) \in Nat /\ Len(frames) \in Nat
      /\ Len(writes) = 1 /\ Head(writes) = writes[1] /\ Tail(writes) = <<>>
      /\ writes[1] \in [msg: Nat, whole: BOOLEAN]
  <2>1. PICK R : R = [msg: Nat, whole: BOOLEAN]
    OBVIOUS
  <2>2. writes \in Seq(R) /\ writes # <<>> /\ Len(writes) <= 1
    BY <1>0, <2>1, Zenon DEF TypeOK, OneWriteAtATime
  <2>3. /\ Len(writes) = 1 /\ Head(writes) = writes[1] /\ Tail(writes) = <<>>
        /\ writes[1] \in R
    BY <2>2, NotEmpty
  <2>5. Len(posted) \in Nat /\ Len(queue) \in Nat /\ Len(frames) \in Nat
    BY <1>0 DEF TypeOK
  <2> QED
    BY <2>1, <2>3, <2>5
<1>2. DoWrite(queue, <<>>)
  BY <1>1 DEF WriteDone
<1>3. /\ queue' \in Seq(Nat) /\ writes' \in Seq([msg: Nat, whole: BOOLEAN])
      /\ writing' \in BOOLEAN
      /\ Len(writes') <= 1 /\ (writing' <=> writes' # <<>>)
      /\ ~writing' => queue' = <<>>
      /\ Len(writes') + Len(queue') = Len(queue)
      /\ \A i \in 1..Len(writes') : writes'[i].msg = queue[i] /\ (~pong => writes'[i].whole)
      /\ \A i \in 1..Len(queue') : queue'[i] = queue[Len(writes') + i]
  BY <1>0, <1>2, DoWriteKeeps DEF TypeOK
<1>4. PICK f : f = Frame(writes[1])
  OBVIOUS
<1>5. /\ f \in Nat /\ frames' = Append(frames, f)
      /\ f = Len(frames) + 1 \/ (Pings /\ f = Damaged)
  BY <1>0, <1>1, <1>4 DEF IInv, Line, Frame, Damaged, WriteDone
<1>6. /\ frames' \in Seq(Nat) /\ Len(frames') = Len(frames) + 1
      /\ frames'[Len(frames) + 1] = f
      /\ \A i \in 1..Len(frames) : frames'[i] = frames[i]
  BY <1>0, <1>5 DEF TypeOK
<1>7. TypeOK'
  BY <1>0, <1>3, <1>6 DEF TypeOK
<1>8. OneWriteAtATime' /\ QueueIsServed'
  BY <1>3 DEF OneWriteAtATime, QueueIsServed
<1>9. FramesInOrder'
  <2>1. DOMAIN frames' = 1..(Len(frames) + 1) /\ DOMAIN frames = 1..Len(frames)
    BY <1>0, <1>6 DEF TypeOK
  <2> QED
    BY <1>1, <1>5, <1>6, <2>1 DEF IInv, FramesInOrder
<1>10. Line'
  <2>1. PICK n \in Nat, w \in Nat, k \in Nat :
          n = Len(frames) /\ w = Len(writes') /\ k = Len(queue')
    <3>1. Len(writes') \in Nat /\ Len(queue') \in Nat
      BY <1>3
    <3> QED
      BY <1>1, <3>1
  <2>2. w <= 1 /\ w + k = Len(queue) /\ Len(frames') = n + 1
    BY <1>3, <1>6, <2>1
  <2>3. \A i \in 1..(w + k) : queue[i] = n + 1 + i
    BY <1>0, <1>1, <2>1, <2>2 DEF Line
  <2>4. \A i \in 1..w : writes'[i].msg = (n + 1) + i
    BY <1>3, <2>1, <2>3
  <2>5. \A i \in 1..k : queue'[i] = (n + 1) + w + i
    BY <1>3, <2>1, <2>3
  <2>6. /\ \A i \in 1..Len(posted) : posted[i] = (n + 1) + w + k + i
        /\ sent = (n + 1) + w + k + Len(posted)
    <3>1. /\ \A i \in 1..Len(posted) : posted[i] = n + 1 + Len(queue) + i
          /\ sent = n + 1 + Len(queue) + Len(posted)
      BY <1>0, <1>1, <2>1 DEF Line
    <3>2. Len(queue) = w + k /\ Len(posted) \in Nat
      BY <1>1, <2>2
    <3>3. \A i \in Nat : n + 1 + (w + k) + i = (n + 1) + w + k + i
      OBVIOUS
    <3>4. \A i \in 1..Len(posted) : i \in Nat /\ posted[i] = n + 1 + (w + k) + i
      BY <3>1, <3>2
    <3>5. sent = n + 1 + (w + k) + Len(posted)
      BY <3>1, <3>2
    <3> QED
      BY <3>2, <3>3, <3>4, <3>5
  <2> QED
    BY <1>0, <2>1, <2>2, <2>4, <2>5, <2>6 DEF Line
<1>11. ~Pings => ~pong' /\ \A i \in 1..Len(writes') : writes'[i].whole
  BY <1>0, <1>3 DEF IInv
<1> QED
  BY <1>5, <1>7, <1>8, <1>9, <1>10, <1>11 DEF IInv, Leaves

LEMMA WriteFailedKeeps == IInv /\ WriteFailed => IInv'
<1> SUFFICES ASSUME IInv, WriteFailed PROVE IInv'
  OBVIOUS
<1>1. /\ TypeOK /\ OneWriteAtATime /\ writes # <<>> /\ conn = "lost"
      /\ UNCHANGED <<sent, posted, queue, frames, reading, pong, conn, ioc>>
      /\ writes' = Tail(writes) /\ writing' = FALSE
  BY DEF IInv, WriteFailed
<1>2. writes' = <<>>
  <2>1. PICK R : R = [msg: Nat, whole: BOOLEAN]
    OBVIOUS
  <2>2. writes \in Seq(R) /\ writes # <<>> /\ Len(writes) <= 1
    BY <1>1, <2>1, Zenon DEF TypeOK, OneWriteAtATime
  <2> QED
    BY <1>1, <2>2, NotEmpty
<1>3. TypeOK'
  <2>1. writes' \in Seq([msg: Nat, whole: BOOLEAN])
    BY <1>2
  <2> QED
    BY <1>1, <2>1 DEF TypeOK
<1>4. OneWriteAtATime' /\ QueueIsServed' /\ FramesInOrder'
  BY <1>1, <1>2 DEF IInv, OneWriteAtATime, QueueIsServed, FramesInOrder
<1>5. conn' # "open"
  BY <1>1
<1>6. ~Pings => ~pong' /\ \A i \in 1..Len(writes') : writes'[i].whole
  BY <1>1, <1>2 DEF IInv
<1> QED
  BY <1>3, <1>4, <1>5, <1>6 DEF IInv

-----------------------------------------------------------------------------
LEMMA StepIInv == IInv /\ [Next]_vars => IInv'
<1> SUFFICES ASSUME IInv, [Next]_vars PROVE IInv'
  OBVIOUS
<1>0. TypeOK /\ (~Pings => ~pong)
  BY DEF IInv
<1>1. CASE UNCHANGED vars
  BY <1>0, <1>1, QuietKeeps DEF vars, Quiet, TypeOK
<1>2. CASE RunAsync
  BY <1>0, <1>2, QuietKeeps DEF RunAsync, Quiet, TypeOK
<1>3. CASE Send
  BY <1>3, SendKeeps
<1>4. CASE RunPosted
  BY <1>4, RunPostedKeeps
<1>5. CASE WriteDone
  BY <1>5, WriteDoneKeeps
<1>6. CASE WriteFailed
  BY <1>6, WriteFailedKeeps
<1>7. CASE PongDone
  BY <1>0, <1>7, QuietKeeps DEF PongDone, Quiet, TypeOK
<1>8. CASE ReadFailed
  BY <1>0, <1>8, QuietKeeps DEF ReadFailed, Quiet, TypeOK
<1>9. CASE OutOfWork
  BY <1>0, <1>9, QuietKeeps DEF OutOfWork, Quiet, TypeOK
<1>10. CASE PongStarts
  BY <1>0, <1>10, QuietKeeps DEF PongStarts, Quiet, TypeOK
<1>11. CASE Stop
  BY <1>0, <1>11, QuietKeeps DEF Stop, Quiet, TypeOK
<1>12. CASE LoseConnection
  BY <1>0, <1>12, QuietKeeps DEF LoseConnection, Quiet, TypeOK
<1> QED
  BY <1>1, <1>2, <1>3, <1>4, <1>5, <1>6, <1>7, <1>8, <1>9, <1>10, <1>11, <1>12
  DEF Next, Handler

LEMMA Inductive == Spec => []IInv
<1> QED
  BY InitIInv, StepIInv, PTL DEF Spec

(* Every value stays in its type, for any number of messages.                *)
THEOREM TypeCorrect == Spec => []TypeOK
<1>1. IInv => TypeOK
  BY DEF IInv
<1> QED
  BY <1>1, Inductive, PTL

(* Beast is never asked for a second write while one is in progress, and     *)
(* writing_ says truly whether one is.                                       *)
THEOREM OneWrite == Spec => []OneWriteAtATime
<1>1. IInv => OneWriteAtATime
  BY DEF IInv
<1> QED
  BY <1>1, Inductive, PTL

(* As long as the connection is open, a message in write_queue_ has a write  *)
(* before it whose completion will take it.                                  *)
THEOREM Served == Spec => []QueueIsServed
<1>1. IInv => QueueIsServed
  BY DEF IInv
<1> QED
  BY <1>1, Inductive, PTL

(* The k-th frame is the k-th message sent, or a damaged copy of it.         *)
THEOREM InOrder == Spec => []FramesInOrder
<1>1. IInv => FramesInOrder
  BY DEF IInv
<1> QED
  BY <1>1, Inductive, PTL

-----------------------------------------------------------------------------
(* The implementation of OrderedChannel.                                     *)
Over == conn = "lost" \/ ioc = "stopped"

LEMMA StepRefines ==
  IInv /\ [Next]_vars => [Channel!Next]_(Channel!chan)
<1> SUFFICES ASSUME IInv, [Next]_vars PROVE [Channel!Next]_(Channel!chan)
  OBVIOUS
<1>0. Over \in BOOLEAN /\ Over' \in BOOLEAN
  BY DEF Over
<1>1. ASSUME UNCHANGED <<sent, frames>>, Over => Over' PROVE [Channel!Next]_(Channel!chan)
  <2>1. CASE Over' = Over
    BY <1>1, <2>1 DEF Channel!chan, Over
  <2>2. CASE Over' # Over
    <3>1. ~Over /\ Over'
      BY <1>0, <1>1, <2>2, Zenon
    <3>2. Channel!End
      BY <1>1, <3>1 DEF Channel!End, Over
    <3> QED
      BY <3>2 DEF Channel!Next
  <2> QED
    BY <2>1, <2>2
<1>2. CASE Send
  BY <1>2 DEF Send, Channel!Next, Channel!Send
<1>3. CASE WriteDone
  <2>1. \E f \in {Len(frames) + 1} \cup (IF Pings THEN {Damaged} ELSE {}) :
          frames' = Append(frames, f)
    <3>1. PICK f : Leaves(f) /\ frames' = Append(frames, f)
      BY <1>3, WriteDoneKeeps
    <3>2. f \in {Len(frames) + 1} \cup (IF Pings THEN {Damaged} ELSE {})
      BY <3>1 DEF Leaves
    <3> QED
      BY <3>1, <3>2
  <2>2. conn = "open" /\ ioc = "running" /\ UNCHANGED <<sent, conn, ioc>> /\ Len(writes) >= 1
    <3>1. PICK R : R = [msg: Nat, whole: BOOLEAN]
      OBVIOUS
    <3>2. writes \in Seq(R) /\ writes # <<>>
      BY <1>3, <3>1, Zenon DEF IInv, TypeOK, WriteDone
    <3> QED
      BY <1>3, <3>2, NotEmpty DEF WriteDone
  <2>3. Len(frames) < sent
    <3>1. PICK n, w, k, p : n = Len(frames) /\ w = Len(writes) /\ k = Len(queue) /\ p = Len(posted)
      OBVIOUS
    <3>2. n \in Nat /\ w \in Nat /\ k \in Nat /\ p \in Nat
      BY <3>1 DEF IInv, TypeOK
    <3>3. sent = n + w + k + p /\ w >= 1
      BY <2>2, <3>1 DEF IInv, Line
    <3> QED
      BY <3>1, <3>2, <3>3
  <2> QED
    BY <2>1, <2>2, <2>3 DEF Channel!Next, Channel!Leave
<1>4. CASE UNCHANGED vars \/ RunAsync \/ RunPosted \/ WriteFailed \/ PongStarts \/ PongDone
           \/ ReadFailed \/ OutOfWork \/ Stop \/ LoseConnection
  <2>1. UNCHANGED <<sent, frames>>
    BY <1>4 DEF vars, RunAsync, RunPosted, WriteFailed, PongStarts, PongDone, ReadFailed,
                OutOfWork, Stop, LoseConnection
  <2>2. Over => Over'
    BY <1>4 DEF vars, RunAsync, RunPosted, WriteFailed, PongStarts, PongDone, ReadFailed,
                OutOfWork, Stop, LoseConnection, Over
  <2> QED
    BY <1>1, <2>1, <2>2
<1> QED
  BY <1>2, <1>3, <1>4 DEF Next, Handler

(* The client begins as an OrderedChannel does and each of its steps is one  *)
(* of the channel's steps or none: messages leave in the order of the calls  *)
(* of send, none skipped and none twice, and whole if the server never pings.*)
THEOREM RefinesOrderedChannel == Spec => Channel!Init /\ [][Channel!Next]_(Channel!chan)
<1>1. Init => Channel!Init
  BY DEF Init, Channel!Init
<1> QED
  BY <1>1, StepRefines, Inductive, PTL DEF Spec
=============================================================================
