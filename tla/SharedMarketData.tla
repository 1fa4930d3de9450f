-------------------------- MODULE SharedMarketData --------------------------
(***************************************************************************)
(* The price cell that mm-native shares with other agents through POSIX    *)
(* shared memory (include/SharedMarketData.hpp): a sequence lock with one   *)
(* writer, the market maker's timer, and any number of reading threads      *)
(* (stra-insider reads it from its timer thread and from its L2 thread).    *)
(*                                                                         *)
(* Every access to a shared word is a step of its own.  The steps are in    *)
(* program order: the project is built by g++ for x86-64, which neither     *)
(* moves plain accesses over the acquire/release ones nor lets the          *)
(* processor reorder stores with stores or loads with loads.                *)
(***************************************************************************)
EXTENDS Naturals, Sequences

CONSTANTS
  Readers,        \* the threads that call read_price
  Prices,         \* what the writer's clamped random walk may produce
  OpeningPrice,   \* the 5000.0 stored by setup_shm
  Zero,           \* the 0.0 a freshly truncated segment holds
  Garbage,        \* an uninitialised double of the caller of read_price
  Seq2Values,     \* what the uninitialised local seq2 may hold
  MaxUpdates      \* bound on calls of update_price, for TLC

ASSUME BoundAssumption == MaxUpdates \in Nat
ASSUME Seq2Assumption  == Seq2Values \subseteq Nat

VARIABLES
  sequence, curr_price, last_price,    \* the shared segment
  wpc, wseq, new_price,                \* the writer: next access and locals
  rpc, seq1, seq2, out_curr, out_last, \* each reader: next access and locals
  published    \* history: the <<curr, last>> pair of each finished update;
               \* published[k+1] is the pair that sequence 2k stands for

writerVars == <<sequence, curr_price, last_price, wpc, wseq, new_price, published>>
readerVars == <<rpc, seq1, seq2, out_curr, out_last>>
vars       == <<writerVars, readerVars>>

Value == Prices \cup {OpeningPrice, Zero}

WriterPC == {"setup_curr", "setup_last", "idle", "store_odd", "store_last",
             "store_curr", "store_even", "dead"}
ReaderPC == {"idle", "load_seq1", "copy_curr", "copy_last", "load_seq2",
             "test", "returned"}

-----------------------------------------------------------------------------
(* The segment exists and is zero-filled: shm_open and ftruncate are done,  *)
(* so a reader can already map it, but setup_shm has stored nothing yet.    *)
Init ==
  /\ sequence = 0 /\ curr_price = Zero /\ last_price = Zero
  /\ wpc = "setup_curr" /\ wseq = 0 /\ new_price = OpeningPrice
  /\ published = <<>>
  /\ rpc      = [r \in Readers |-> "idle"]
  /\ seq1     = [r \in Readers |-> 0]
  /\ seq2     = [r \in Readers |-> 0]
  /\ out_curr = [r \in Readers |-> Garbage]
  /\ out_last = [r \in Readers |-> Garbage]

-----------------------------------------------------------------------------
(* The writer: setup_shm, then one update_price for each timer tick.        *)

WriterAt(from, to) == wpc = from /\ wpc' = to

SetupCurr ==
  /\ WriterAt("setup_curr", "setup_last")
  /\ curr_price' = OpeningPrice
  /\ UNCHANGED <<sequence, last_price, wseq, new_price, published, readerVars>>

SetupLast ==
  /\ WriterAt("setup_last", "idle")
  /\ last_price' = OpeningPrice
  /\ published' = <<<<OpeningPrice, OpeningPrice>>>>
  /\ UNCHANGED <<sequence, curr_price, wseq, new_price, readerVars>>

\* update_price(new_price): the relaxed load of the sequence.
LoadSequence ==
  /\ WriterAt("idle", "store_odd")
  /\ Len(published) <= MaxUpdates
  /\ new_price' \in Prices
  /\ wseq' = sequence
  /\ UNCHANGED <<sequence, curr_price, last_price, published, readerVars>>

\* Mutant: the sequence is not marked odd before the prices are stored.
StoreOddUnmarked ==
  /\ WriterAt("store_odd", "store_last")
  /\ UNCHANGED <<sequence, curr_price, last_price, wseq, new_price, published, readerVars>>

StoreOdd ==
  /\ WriterAt("store_odd", "store_last")
  /\ sequence' = wseq + 1
  /\ UNCHANGED <<curr_price, last_price, wseq, new_price, published, readerVars>>

StoreLast ==
  /\ WriterAt("store_last", "store_curr")
  /\ last_price' = curr_price
  /\ UNCHANGED <<sequence, curr_price, wseq, new_price, published, readerVars>>

StoreCurr ==
  /\ WriterAt("store_curr", "store_even")
  /\ curr_price' = new_price
  /\ UNCHANGED <<sequence, last_price, wseq, new_price, published, readerVars>>

\* Mutant: the update ends on wseq + delta instead of wseq + 2.
StoreEvenBy(delta) ==
  /\ WriterAt("store_even", "idle")
  /\ sequence' = wseq + delta
  /\ published' = Append(published, <<new_price, published[Len(published)][1]>>)
  /\ UNCHANGED <<curr_price, last_price, wseq, new_price, readerVars>>
StoreEvenLeavesOdd  == StoreEvenBy(1)
StoreEvenRollsBack  == StoreEvenBy(0)
StoreEvenUnderflows == StoreEvenBy(0 - 2)

\* The pair this update stands for: the new price and the one before it.
StoreEven ==
  /\ WriterAt("store_even", "idle")
  /\ sequence' = wseq + 2
  /\ published' = Append(published, <<new_price, published[Len(published)][1]>>)
  /\ UNCHANGED <<curr_price, last_price, wseq, new_price, readerVars>>

\* mm-native is killed.  run_agents starts another one, whose setup_shm
\* unlinks the name and maps a new segment: this one is never written again.
WriterDies ==
  /\ wpc # "dead"
  /\ wpc' = "dead"
  /\ UNCHANGED <<sequence, curr_price, last_price, wseq, new_price, published, readerVars>>

WriterStep ==
  \/ SetupCurr \/ SetupLast
  \/ StoreOdd \/ StoreLast \/ StoreCurr \/ StoreEven

-----------------------------------------------------------------------------
(* A reader inside read_price(out_curr, out_last).                          *)

ReaderAt(r, from, to) == rpc[r] = from /\ rpc' = [rpc EXCEPT ![r] = to]

\* execute_strategy declares curr and last, read_price declares seq1 and
\* seq2, and none of the four is initialised.
CallRead(r) ==
  /\ rpc[r] \in {"idle", "returned"}
  /\ rpc' = [rpc EXCEPT ![r] = "load_seq1"]
  /\ \E g \in Seq2Values : seq2' = [seq2 EXCEPT ![r] = g]
  /\ out_curr' = [out_curr EXCEPT ![r] = Garbage]
  /\ out_last' = [out_last EXCEPT ![r] = Garbage]
  /\ UNCHANGED <<writerVars, seq1>>

\* The first load.  On an odd value "continue" jumps to the loop condition,
\* past the load of seq2.
LoadSeq1(r) ==
  /\ ReaderAt(r, "load_seq1", IF sequence % 2 # 0 THEN "test" ELSE "copy_curr")
  /\ seq1' = [seq1 EXCEPT ![r] = sequence]
  /\ UNCHANGED <<writerVars, seq2, out_curr, out_last>>

CopyCurr(r) ==
  /\ ReaderAt(r, "copy_curr", "copy_last")
  /\ out_curr' = [out_curr EXCEPT ![r] = curr_price]
  /\ UNCHANGED <<writerVars, seq1, seq2, out_last>>

CopyLast(r) ==
  /\ ReaderAt(r, "copy_last", "load_seq2")
  /\ out_last' = [out_last EXCEPT ![r] = last_price]
  /\ UNCHANGED <<writerVars, seq1, seq2, out_curr>>

LoadSeq2(r) ==
  /\ ReaderAt(r, "load_seq2", "test")
  /\ seq2' = [seq2 EXCEPT ![r] = sequence]
  /\ UNCHANGED <<writerVars, seq1, out_curr, out_last>>

\* while (seq1 != seq2)
Test(r) ==
  /\ ReaderAt(r, "test", IF seq1[r] # seq2[r] THEN "load_seq1" ELSE "returned")
  /\ UNCHANGED <<writerVars, seq1, seq2, out_curr, out_last>>

ReaderStep(r) ==
  \/ LoadSeq1(r) \/ CopyCurr(r) \/ CopyLast(r) \/ LoadSeq2(r) \/ Test(r)

-----------------------------------------------------------------------------
Next ==
  \/ LoadSequence \/ WriterStep \/ WriterDies
  \/ \E r \in Readers : CallRead(r) \/ ReaderStep(r)

Spec == Init /\ [][Next]_vars

(* A running thread that is inside update_price or read_price goes on; that *)
(* the timer ticks again, or that a reader calls again, is not assumed.      *)
Fairness == WF_vars(WriterStep) /\ \A r \in Readers : WF_vars(ReaderStep(r))
FairSpec == Spec /\ Fairness

-----------------------------------------------------------------------------
TypeOK ==
  /\ sequence \in Nat /\ curr_price \in Value /\ last_price \in Value
  /\ wpc \in WriterPC /\ wseq \in Nat /\ new_price \in Value
  /\ published \in Seq(Value \X Value)
  /\ rpc \in [Readers -> ReaderPC]
  /\ seq1 \in [Readers -> Nat] /\ seq2 \in [Readers -> Nat]
  /\ out_curr \in [Readers -> Value \cup {Garbage}]
  /\ out_last \in [Readers -> Value \cup {Garbage}]

\* What a reader that saw the even sequence s throughout holds: the pair of
\* update s/2, or, for a read that may have begun while setup_shm was still
\* storing, some mixture of 0.0 and the opening price.
PairOf(s, c, l) ==
  \/ /\ s \div 2 < Len(published)
     /\ <<c, l>> = published[(s \div 2) + 1]
  \/ s = 0 /\ {c, l} \subseteq {Zero, OpeningPrice}

(* A call of read_price that returns on an even sequence has copied exactly *)
(* the pair of one finished update_price: the two prices belong together,   *)
(* however the copies interleaved with the writer, and also if the writer   *)
(* was killed in between.                                                   *)
EvenReadIsSnapshot ==
  \A r \in Readers :
    rpc[r] = "returned" /\ seq1[r] % 2 = 0 => PairOf(seq1[r], out_curr[r], out_last[r])

(* Successive loads of one reader never go back to an older version, so a   *)
(* strategy that reads twice acts on the newer price the second time.       *)
ReadersMoveForward ==
  [][\A r \in Readers : seq1'[r] >= seq1[r]]_vars

(* The writer was killed between its two sequence stores: the segment stays *)
(* odd for ever.                                                            *)
DiedMidUpdate == wpc = "dead" /\ sequence % 2 = 1

(* read_price is a spin loop: a call returns unless the writer is killed in *)
(* the middle of update_price.                                              *)
ReadReturns ==
  \A r \in Readers : rpc[r] = "load_seq1" ~> (rpc[r] = "returned" \/ DiedMidUpdate)

(* "Helper to perform atomic reads" (SharedMarketData.hpp:24): the two       *)
(* prices that read_price hands out were written by one call of update_price *)
(* (a finished one, or the one in progress), or by setup_shm.                *)
ReadsAreAtomic ==
  \A r \in Readers :
    rpc[r] = "returned" =>
      \/ \E k \in DOMAIN published : <<out_curr[r], out_last[r]>> = published[k]
      \/ /\ published # <<>>
         /\ <<out_curr[r], out_last[r]>> = <<new_price, published[Len(published)][1]>>
      \/ {out_curr[r], out_last[r]} \subseteq {Zero, OpeningPrice}
=============================================================================
