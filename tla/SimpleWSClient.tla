--------------------------- MODULE SimpleWSClient ---------------------------
(***************************************************************************)
(* The websocket client under every agent (src/SimpleWSClient.cpp), from a  *)
(* successful connect() on.  Any thread may call send(), which posts a      *)
(* handler to the io_context; one io thread runs the posted handlers in     *)
(* order, and the completion handlers of the read and of the write that     *)
(* are in progress.  Those handlers keep write_queue_ and writing_ so that  *)
(* Beast never sees two writes at once.                                     *)
(*                                                                         *)
(* do_write hands async_write a buffer it owns itself.  Beast copies a      *)
(* frame into its own memory at once, unless the read has begun to answer   *)
(* a ping: then the write waits, do_write returns, and the frame is made    *)
(* later from a string that no longer exists.                               *)
(***************************************************************************)
EXTENDS Integers, Sequences

CONSTANTS
  MaxSends,   \* bound on calls of send, for TLC
  Pings       \* whether the server ever pings

ASSUME SendsAssumption == MaxSends \in Nat
ASSUME PingsAssumption == Pings \in BOOLEAN

VARIABLES
  sent,      \* calls of send so far; message k is the k-th of them
  posted,    \* handlers posted to the io_context and not yet run
  queue,     \* write_queue_
  writing,   \* writing_
  writes,    \* async_write operations in progress: [msg, whole]
  frames,    \* history: what has been written to the connection
  reading,   \* an async_read is in progress
  pong,      \* that read is writing a pong
  conn,      \* the connection: "open" or "lost"
  ioc        \* io_context and its thread: "new", "running" or "stopped"

vars == <<sent, posted, queue, writing, writes, frames, reading, pong, conn, ioc>>

Damaged == 0   \* a frame with bytes of a destroyed string

Init ==
  /\ sent = 0 /\ posted = <<>> /\ queue = <<>> /\ writing = FALSE
  /\ writes = <<>> /\ frames = <<>>
  /\ reading = FALSE /\ pong = FALSE /\ conn = "open" /\ ioc = "new"

-----------------------------------------------------------------------------
\* run_async: the first async_read, then the thread that runs the io_context.
RunAsync ==
  /\ ioc = "new"
  /\ reading' = TRUE /\ ioc' = "running"
  /\ UNCHANGED <<sent, posted, queue, writing, writes, frames, pong, conn>>

\* send and send_text: send_internal posts, on whatever thread.
Send ==
  /\ sent < MaxSends
  /\ sent' = sent + 1
  /\ posted' = Append(posted, sent + 1)
  /\ UNCHANGED <<queue, writing, writes, frames, reading, pong, conn, ioc>>

\* Mutant: do_write takes the front of an empty queue, which is no message.
DoWriteUnchecked(q, others) ==
  /\ writing' = TRUE
  /\ queue' = IF q = <<>> THEN q ELSE Tail(q)
  /\ writes' = Append(others, [msg |-> IF q = <<>> THEN -1 ELSE Head(q), whole |-> TRUE])

\* do_write, given the write_queue_ it finds.
DoWrite(q, others) ==
  IF q = <<>>
  THEN writing' = FALSE /\ queue' = q /\ writes' = others
  ELSE /\ writing' = TRUE
       /\ queue' = Tail(q)
       /\ \E whole \in (IF pong THEN BOOLEAN ELSE {TRUE}) :
            writes' = Append(others, [msg |-> Head(q), whole |-> whole])

\* Mutant: the posted handler does not look at writing_.
RunPostedAlwaysWrites ==
  /\ ioc = "running" /\ posted # <<>>
  /\ posted' = Tail(posted)
  /\ DoWrite(Append(queue, Head(posted)), writes)
  /\ UNCHANGED <<sent, frames, reading, pong, conn, ioc>>

\* The handler posted by send_internal.
RunPosted ==
  /\ ioc = "running" /\ posted # <<>>
  /\ posted' = Tail(posted)
  /\ LET q == Append(queue, Head(posted))
     IN  IF writing THEN queue' = q /\ UNCHANGED <<writing, writes>>
                    ELSE DoWrite(q, writes)
  /\ UNCHANGED <<sent, frames, reading, pong, conn, ioc>>

Frame(w) == IF w.whole THEN w.msg ELSE Damaged

\* Mutant: the completion handler forgets to start the next write.
WriteDoneNoNext ==
  /\ ioc = "running" /\ conn = "open" /\ writes # <<>> /\ ~pong
  /\ frames' = Append(frames, Frame(Head(writes)))
  /\ writes' = Tail(writes) /\ writing' = FALSE
  /\ UNCHANGED <<sent, posted, queue, reading, pong, conn, ioc>>

\* Mutant: the completion handler clears writing_ before it starts the next
\* write, and the queue is served from the back.
WriteDoneFromBack ==
  /\ ioc = "running" /\ conn = "open" /\ writes # <<>> /\ ~pong
  /\ frames' = Append(frames, Frame(Head(writes)))
  /\ DoWrite(IF queue = <<>> THEN queue
             ELSE <<queue[Len(queue)]>> \o SubSeq(queue, 1, Len(queue) - 1), Tail(writes))
  /\ UNCHANGED <<sent, posted, reading, pong, conn, ioc>>

\* A write completes; its handler starts the next one.
WriteDone ==
  /\ ioc = "running" /\ conn = "open" /\ writes # <<>> /\ ~pong
  /\ frames' = Append(frames, Frame(Head(writes)))
  /\ DoWrite(queue, Tail(writes))
  /\ UNCHANGED <<sent, posted, reading, pong, conn, ioc>>

\* A write ends with an error: nothing is started, the queue stays as it is.
WriteFailed ==
  /\ ioc = "running" /\ conn = "lost" /\ writes # <<>>
  /\ writes' = Tail(writes) /\ writing' = FALSE
  /\ UNCHANGED <<sent, posted, queue, frames, reading, pong, conn, ioc>>

-----------------------------------------------------------------------------
\* The read meets a ping, when no write holds the stream, and answers it.
PongStarts ==
  /\ Pings /\ ioc = "running" /\ conn = "open" /\ reading /\ ~pong /\ writes = <<>>
  /\ pong' = TRUE
  /\ UNCHANGED <<sent, posted, queue, writing, writes, frames, reading, conn, ioc>>

PongDone ==
  /\ ioc = "running" /\ conn = "open" /\ pong
  /\ pong' = FALSE
  /\ UNCHANGED <<sent, posted, queue, writing, writes, frames, reading, conn, ioc>>

\* Mutant: the read is started again after an error.
ReadFailedReadsAgain ==
  /\ ioc = "running" /\ conn = "lost" /\ reading
  /\ pong' = FALSE
  /\ UNCHANGED <<sent, posted, queue, writing, writes, frames, reading, conn, ioc>>

\* A read ends with an error: read_loop is not called again.
ReadFailed ==
  /\ ioc = "running" /\ conn = "lost" /\ reading
  /\ reading' = FALSE /\ pong' = FALSE
  /\ UNCHANGED <<sent, posted, queue, writing, writes, frames, conn, ioc>>

\* Nothing is left to do, so run() returns and the thread ends: the
\* io_context is stopped for good, and what is posted later never runs.
OutOfWork ==
  /\ ioc = "running" /\ posted = <<>> /\ writes = <<>> /\ ~reading
  /\ ioc' = "stopped"
  /\ UNCHANGED <<sent, posted, queue, writing, writes, frames, reading, pong, conn>>

\* stop(), from the thread that owns the client.
Stop ==
  /\ ioc = "running"
  /\ ioc' = "stopped"
  /\ UNCHANGED <<sent, posted, queue, writing, writes, frames, reading, pong, conn>>

\* The server closes the connection, or it breaks.
LoseConnection ==
  /\ conn = "open"
  /\ conn' = "lost"
  /\ UNCHANGED <<sent, posted, queue, writing, writes, frames, reading, pong, ioc>>

-----------------------------------------------------------------------------
Handler ==
  \/ RunPosted \/ WriteDone \/ WriteFailed
  \/ PongDone \/ ReadFailed \/ OutOfWork

Next == RunAsync \/ Send \/ Handler \/ PongStarts \/ Stop \/ LoseConnection

Spec == Init /\ [][Next]_vars

(* run() goes from connect() to run_async() without waiting; the io thread   *)
(* serves each kind of handler that stays ready.                             *)
Fairness ==
  /\ WF_vars(RunAsync) /\ WF_vars(RunPosted) /\ WF_vars(WriteDone)
  /\ WF_vars(PongDone) /\ WF_vars(WriteFailed) /\ WF_vars(ReadFailed) /\ WF_vars(OutOfWork)

FairSpec == Spec /\ Fairness

-----------------------------------------------------------------------------
(* What write_queue_, the writes in progress and the posted handlers hold is  *)
(* a message that was sent, and the flags are flags.                         *)
TypeOK ==
  /\ sent \in Nat /\ posted \in Seq(Nat) /\ queue \in Seq(Nat)
  /\ writes \in Seq([msg: Nat, whole: BOOLEAN]) /\ frames \in Seq(Nat)
  /\ writing \in BOOLEAN /\ reading \in BOOLEAN /\ pong \in BOOLEAN
  /\ conn \in {"open", "lost"} /\ ioc \in {"new", "running", "stopped"}

(* Beast forbids a second async_write on a stream before the first is done. *)
OneWriteAtATime == Len(writes) <= 1 /\ (writing <=> writes # <<>>)

(* Messages wait in write_queue_ with no write to drain it only once the     *)
(* connection is gone: while it is open, the queue cannot stall.             *)
QueueIsServed == conn = "open" /\ ~writing => queue = <<>>

(* Whatever is written is in the order of the calls of send: frame k is      *)
(* message k, or, if the server pings, a damaged copy in its place.          *)
FramesInOrder ==
  \A k \in DOMAIN frames : frames[k] = k \/ (Pings /\ frames[k] = Damaged)

(* The client is an OrderedChannel, liveness included.  The channel is over  *)
(* when the connection is lost or the client stopped.                        *)
Channel ==
  INSTANCE OrderedChannel WITH MayDamage <- Pings, over <- (conn = "lost" \/ ioc = "stopped")
IsOrderedChannel == Channel!Spec

(* Once the connection is lost, the io thread ends: it neither spins nor     *)
(* waits for ever with handlers still pending.                               *)
ThreadEnds == (conn = "lost" /\ sent = MaxSends) ~> ioc = "stopped"
=============================================================================
