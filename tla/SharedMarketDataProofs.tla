----------------------- MODULE SharedMarketDataProofs -----------------------
(* The sequence lock of SharedMarketData, for any number of readers, any     *)
(* prices, any number of updates and any contents of the uninitialised       *)
(* locals: the types, the snapshot property of even reads and the order of   *)
(* successive loads are invariant.                                           *)
EXTENDS SharedMarketData, TLAPS

-----------------------------------------------------------------------------
(* What holds of the segment and of the writer's place in its program.  An   *)
(* even sequence 2k stands for published[k+1], which is then also the data;  *)
(* an odd one says that update number Len(published) is being stored.        *)

InSetup  == wpc \in {"setup_curr", "setup_last"}
InUpdate == wpc \in {"store_last", "store_curr", "store_even"}

SegmentInv ==
  /\ published = <<>> =>
       sequence = 0 /\ {curr_price, last_price} \subseteq {Zero, OpeningPrice}
  /\ published # <<>> => published[1] = <<OpeningPrice, OpeningPrice>>
  /\ published # <<>> /\ sequence % 2 = 0 =>
       /\ sequence = 2 * (Len(published) - 1)
       /\ <<curr_price, last_price>> = published[Len(published)]
  /\ sequence % 2 = 1 => sequence = 2 * Len(published) - 1

WriterInv ==
  /\ InSetup => published = <<>>
  /\ wpc = "setup_last" => curr_price = OpeningPrice
  /\ wpc \in {"idle", "store_odd"} => published # <<>> /\ sequence % 2 = 0
  /\ wpc = "store_odd" => wseq = sequence
  /\ InUpdate => published # <<>> /\ wseq % 2 = 0 /\ sequence = wseq + 1
  /\ wpc \in {"store_last", "store_curr"} => curr_price = published[Len(published)][1]
  /\ wpc \in {"store_curr", "store_even"} => last_price = published[Len(published)][1]
  /\ wpc = "store_even" => curr_price = new_price

(* What a reader has copied, one word at a time: x is word i (1 for curr,    *)
(* 2 for last) of the pair that the even sequence s stands for in history h. *)
WordOf(h, s, i, x) ==
  \/ s \div 2 < Len(h) /\ x = h[(s \div 2) + 1][i]
  \/ s = 0 /\ x \in {Zero, OpeningPrice}

CurrCopied(r) == WordOf(published, seq1[r], 1, out_curr[r])
LastCopied(r) == WordOf(published, seq1[r], 2, out_last[r])

ReaderInv(r) ==
  /\ seq1[r] <= sequence
  /\ rpc[r] \in {"copy_curr", "copy_last", "load_seq2"} => seq1[r] % 2 = 0
  /\ rpc[r] \in {"copy_last", "load_seq2"} /\ seq1[r] = sequence => CurrCopied(r)
  /\ rpc[r] = "load_seq2" /\ seq1[r] = sequence => LastCopied(r)
  /\ rpc[r] = "test" /\ seq1[r] = seq2[r] /\ seq1[r] % 2 = 0 => CurrCopied(r) /\ LastCopied(r)
  /\ rpc[r] = "returned" /\ seq1[r] % 2 = 0 => CurrCopied(r) /\ LastCopied(r)

IInv == TypeOK /\ SegmentInv /\ WriterInv /\ \A r \in Readers : ReaderInv(r)

-----------------------------------------------------------------------------
(* What a writer's step grants the readers: the sequence does not go back,   *)
(* and the published pairs stay where they are.                              *)
History ==
  /\ sequence' >= sequence
  /\ published' = published \/ \E p \in Value \X Value : published' = Append(published, p)

LEMMA WordStable ==
  ASSUME NEW h \in Seq(Value \X Value), NEW p \in Value \X Value,
         NEW s \in Nat, NEW i \in {1, 2}, NEW x, WordOf(h, s, i, x)
  PROVE  WordOf(Append(h, p), s, i, x)
<1> DEFINE k == (s \div 2) + 1
<1>1. k \in Nat /\ k >= 1
  OBVIOUS
<1>2. CASE s \div 2 < Len(h) /\ x = h[k][i]
  <2>1. Len(Append(h, p)) = Len(h) + 1
    OBVIOUS
  <2>2. k \in 1..Len(h)
    BY <1>1, <1>2
  <2>3. Append(h, p)[k] = h[k]
    BY <2>2
  <2> QED
    BY <1>2, <2>1, <2>3 DEF WordOf
<1>3. CASE s = 0 /\ x \in {Zero, OpeningPrice}
  BY <1>3 DEF WordOf
<1> QED
  BY <1>2, <1>3 DEF WordOf

LEMMA ReadersKeep ==
  ASSUME IInv, TypeOK', History, UNCHANGED readerVars
  PROVE  \A r \in Readers : ReaderInv(r)'
<1> SUFFICES ASSUME NEW r \in Readers PROVE ReaderInv(r)'
  OBVIOUS
<1> USE DEF readerVars
<1>1. /\ sequence \in Nat /\ sequence' \in Nat /\ sequence' >= sequence
      /\ seq1[r] \in Nat /\ seq2[r] \in Nat
  BY DEF IInv, TypeOK, History
<1>2. ReaderInv(r)
  BY DEF IInv
<1>3. \A i \in {1, 2} : \A x :
        WordOf(published, seq1[r], i, x) => WordOf(published', seq1[r], i, x)
  <2>1. published \in Seq(Value \X Value)
    BY DEF IInv, TypeOK
  <2>2. CASE published' = published
    BY <2>2
  <2>3. CASE \E p \in Value \X Value : published' = Append(published, p)
    BY <1>1, <2>1, <2>3, WordStable
  <2> QED
    BY <2>2, <2>3 DEF History
<1>4. /\ CurrCopied(r) => CurrCopied(r)'
      /\ LastCopied(r) => LastCopied(r)'
  BY <1>3 DEF CurrCopied, LastCopied
<1>5. seq1'[r] <= sequence' /\ (seq1'[r] = sequence' => seq1[r] = sequence)
  BY <1>1, <1>2 DEF ReaderInv
<1> QED
  BY <1>1, <1>2, <1>3, <1>4, <1>5 DEF ReaderInv

(* What a reader's step grants everything else: it writes none of it, nor    *)
(* the locals of another reader.                                             *)
OnlyReader(r) ==
  /\ UNCHANGED writerVars
  /\ \A q \in Readers \ {r} :
       <<rpc'[q], seq1'[q], seq2'[q], out_curr'[q], out_last'[q]>>
         = <<rpc[q], seq1[q], seq2[q], out_curr[q], out_last[q]>>

LEMMA OthersKeep ==
  ASSUME IInv, NEW r \in Readers, OnlyReader(r), ReaderInv(r)'
  PROVE  SegmentInv' /\ WriterInv' /\ \A q \in Readers : ReaderInv(q)'
<1>1. SegmentInv' /\ WriterInv'
  BY DEF IInv, OnlyReader, writerVars, SegmentInv, WriterInv, InSetup, InUpdate
<1>2. ASSUME NEW q \in Readers, q # r PROVE ReaderInv(q)'
  <2>1. <<rpc'[q], seq1'[q], seq2'[q], out_curr'[q], out_last'[q]>>
          = <<rpc[q], seq1[q], seq2[q], out_curr[q], out_last[q]>>
    BY <1>2 DEF OnlyReader
  <2>2. ReaderInv(q) /\ sequence' = sequence /\ published' = published
    BY DEF IInv, OnlyReader, writerVars
  <2> QED
    BY <2>1, <2>2 DEF ReaderInv, CurrCopied, LastCopied
<1> QED
  BY <1>1, <1>2

-----------------------------------------------------------------------------
(* The writer's steps keep what holds of the segment and of the writer.      *)
WriterAction ==
  SetupCurr \/ SetupLast \/ LoadSequence \/ StoreOdd \/ StoreLast \/ StoreCurr
  \/ StoreEven \/ WriterDies

LEMMA WriterTypes == IInv /\ WriterAction => TypeOK'
<1> SUFFICES ASSUME IInv, WriterAction PROVE TypeOK'
  OBVIOUS
<1> USE DEF TypeOK, Value, WriterPC, readerVars, WriterAt
<1>0. TypeOK
  BY DEF IInv
<1>1. CASE SetupCurr
  BY <1>0, <1>1 DEF SetupCurr
<1>2. CASE SetupLast
  <2>1. <<<<OpeningPrice, OpeningPrice>>>> \in Seq(Value \X Value)
    OBVIOUS
  <2> QED
    BY <1>0, <1>2, <2>1 DEF SetupLast
<1>3. CASE LoadSequence
  BY <1>0, <1>3 DEF LoadSequence
<1>4. CASE StoreOdd
  BY <1>0, <1>4 DEF StoreOdd
<1>5. CASE StoreLast
  BY <1>0, <1>5 DEF StoreLast
<1>6. CASE StoreCurr
  BY <1>0, <1>6 DEF StoreCurr
<1>7. CASE StoreEven
  <2>1. published # <<>>
    BY <1>7 DEF IInv, WriterInv, InUpdate, StoreEven
  <2>2. published[Len(published)] \in Value \X Value
    BY <1>0, <2>1
  <2>3. <<new_price, published[Len(published)][1]>> \in Value \X Value
    BY <1>0, <2>2
  <2>4. published' \in Seq(Value \X Value)
    BY <1>0, <1>7, <2>3 DEF StoreEven
  <2> QED
    BY <1>0, <1>7, <2>4 DEF StoreEven
<1>8. CASE WriterDies
  BY <1>0, <1>8 DEF WriterDies
<1> QED
  BY <1>1, <1>2, <1>3, <1>4, <1>5, <1>6, <1>7, <1>8 DEF WriterAction

LEMMA WriterKeeps == IInv /\ WriterAction => SegmentInv' /\ WriterInv' /\ History
<1> SUFFICES ASSUME IInv, WriterAction PROVE SegmentInv' /\ WriterInv' /\ History
  OBVIOUS
<1>0. /\ TypeOK /\ SegmentInv /\ WriterInv
      /\ sequence \in Nat /\ wseq \in Nat /\ published \in Seq(Value \X Value)
      /\ Len(published) \in Nat
  BY DEF IInv, TypeOK
<1> USE DEF SegmentInv, WriterInv, History, InSetup, InUpdate, WriterAt
<1>1. CASE SetupCurr
  BY <1>0, <1>1 DEF SetupCurr
<1>2. CASE SetupLast
  BY <1>0, <1>2 DEF SetupLast, Value
<1>3. CASE LoadSequence
  BY <1>0, <1>3 DEF LoadSequence
<1>4. CASE StoreOdd
  BY <1>0, <1>4 DEF StoreOdd
<1>5. CASE StoreLast
  BY <1>0, <1>5 DEF StoreLast
<1>6. CASE StoreCurr
  BY <1>0, <1>6 DEF StoreCurr
<1>7. CASE StoreEven
  <2> DEFINE n == Len(published)
             p == <<new_price, published[n][1]>>
  <2>1. /\ published # <<>> /\ n >= 1 /\ wseq % 2 = 0 /\ sequence = wseq + 1
        /\ curr_price = new_price /\ last_price = published[n][1]
    BY <1>0, <1>7 DEF StoreEven
  <2>2. wseq = 2 * n - 2
    <3>1. sequence % 2 = 1
      BY <1>0, <2>1
    <3>2. sequence = 2 * n - 1
      BY <1>0, <3>1
    <3> QED
      BY <1>0, <2>1, <3>2
  <2>3. p \in Value \X Value
    <3>1. published[n] \in Value \X Value
      BY <1>0, <2>1
    <3> QED
      BY <1>0, <3>1 DEF TypeOK
  <2>4. /\ sequence' = 2 * n /\ published' = Append(published, p)
        /\ wpc' = "idle" /\ UNCHANGED <<curr_price, last_price>>
    BY <1>0, <1>7, <2>2 DEF StoreEven
  <2>5. /\ Len(published') = n + 1 /\ published' # <<>>
        /\ published'[n + 1] = p /\ published'[1] = published[1]
    BY <1>0, <2>1, <2>3, <2>4
  <2>6. History
    BY <1>0, <2>2, <2>1, <2>3, <2>4
  <2>7. SegmentInv'
    BY <1>0, <2>1, <2>4, <2>5
  <2>8. WriterInv'
    BY <1>0, <2>1, <2>4, <2>5
  <2> QED
    BY <2>6, <2>7, <2>8
<1>8. CASE WriterDies
  BY <1>0, <1>8 DEF WriterDies
<1> QED
  BY <1>1, <1>2, <1>3, <1>4, <1>5, <1>6, <1>7, <1>8 DEF WriterAction

-----------------------------------------------------------------------------
(* A reader's step keeps what holds of that reader.                          *)
ReaderAction(r) == CallRead(r) \/ ReaderStep(r)

LEMMA ReaderTypes ==
  ASSUME IInv, NEW r \in Readers, ReaderAction(r)
  PROVE  TypeOK' /\ OnlyReader(r)
<1> USE DEF TypeOK, Value, ReaderPC, writerVars, OnlyReader, ReaderAt
<1>0. TypeOK
  BY DEF IInv
<1>1. CASE CallRead(r)
  BY <1>0, <1>1, Seq2Assumption DEF CallRead
<1>2. CASE LoadSeq1(r)
  BY <1>0, <1>2 DEF LoadSeq1
<1>3. CASE CopyCurr(r)
  BY <1>0, <1>3 DEF CopyCurr
<1>4. CASE CopyLast(r)
  BY <1>0, <1>4 DEF CopyLast
<1>5. CASE LoadSeq2(r)
  BY <1>0, <1>5 DEF LoadSeq2
<1>6. CASE Test(r)
  BY <1>0, <1>6 DEF Test
<1> QED
  BY <1>1, <1>2, <1>3, <1>4, <1>5, <1>6 DEF ReaderAction, ReaderStep

(* The data that a reader copies while the sequence is even belongs to it.   *)
LEMMA EvenData ==
  ASSUME IInv, sequence % 2 = 0
  PROVE  WordOf(published, sequence, 1, curr_price) /\ WordOf(published, sequence, 2, last_price)
<1>0. sequence \in Nat /\ published \in Seq(Value \X Value) /\ SegmentInv
  BY DEF IInv, TypeOK
<1>1. CASE published = <<>>
  BY <1>0, <1>1 DEF SegmentInv, WordOf
<1>2. CASE published # <<>>
  <2>1. sequence = 2 * (Len(published) - 1) /\ Len(published) >= 1
    BY <1>0, <1>2 DEF SegmentInv
  <2>2. (sequence \div 2) + 1 = Len(published)
    BY <1>0, <2>1
  <2>3. <<curr_price, last_price>> = published[Len(published)]
    BY <1>0, <1>2 DEF SegmentInv
  <2>4. curr_price = published[Len(published)][1] /\ last_price = published[Len(published)][2]
    BY <2>3
  <2>5. sequence \div 2 < Len(published)
    BY <1>0, <2>1
  <2> QED
    BY <2>2, <2>4, <2>5 DEF WordOf
<1> QED
  BY <1>1, <1>2

LEMMA ReaderKeeps ==
  ASSUME IInv, NEW r \in Readers, ReaderAction(r)
  PROVE  ReaderInv(r)'
<1>0. /\ TypeOK /\ ReaderInv(r) /\ sequence \in Nat
      /\ seq1[r] \in Nat /\ seq2[r] \in Nat
  BY DEF IInv, TypeOK
<1>1. sequence % 2 = 0 =>
        /\ WordOf(published, sequence, 1, curr_price)
        /\ WordOf(published, sequence, 2, last_price)
  BY EvenData
<1> USE DEF TypeOK, ReaderInv, CurrCopied, LastCopied, writerVars, ReaderAt
<1>2. CASE CallRead(r)
  BY <1>0, <1>2 DEF CallRead
<1>3. CASE LoadSeq1(r)
  BY <1>0, <1>3 DEF LoadSeq1
<1>4. CASE CopyCurr(r)
  BY <1>0, <1>1, <1>4 DEF CopyCurr
<1>5. CASE CopyLast(r)
  BY <1>0, <1>1, <1>5 DEF CopyLast
<1>6. CASE LoadSeq2(r)
  BY <1>0, <1>6 DEF LoadSeq2
<1>7. CASE Test(r)
  BY <1>0, <1>7 DEF Test
<1> QED
  BY <1>2, <1>3, <1>4, <1>5, <1>6, <1>7 DEF ReaderAction, ReaderStep

-----------------------------------------------------------------------------
LEMMA InitIInv == Init => IInv
<1> SUFFICES ASSUME Init PROVE IInv
  OBVIOUS
<1> USE DEF Init
<1>1. TypeOK
  BY DEF TypeOK, Value, WriterPC, ReaderPC
<1>2. SegmentInv /\ WriterInv
  BY DEF SegmentInv, WriterInv, InSetup, InUpdate
<1>3. \A r \in Readers : ReaderInv(r)
  <2> SUFFICES ASSUME NEW r \in Readers PROVE ReaderInv(r)
    OBVIOUS
  <2>1. rpc[r] = "idle" /\ seq1[r] = 0 /\ sequence = 0
    OBVIOUS
  <2> QED
    BY <2>1 DEF ReaderInv
<1> QED
  BY <1>1, <1>2, <1>3 DEF IInv

LEMMA StepIInv == IInv /\ [Next]_vars => IInv'
<1> SUFFICES ASSUME IInv, [Next]_vars PROVE IInv'
  OBVIOUS
<1>1. CASE WriterAction
  <2>1. TypeOK' /\ SegmentInv' /\ WriterInv' /\ History
    BY <1>1, WriterTypes, WriterKeeps
  <2>2. UNCHANGED readerVars
    BY <1>1 DEF WriterAction, SetupCurr, SetupLast, LoadSequence, StoreOdd,
                StoreLast, StoreCurr, StoreEven, WriterDies, readerVars
  <2>3. \A r \in Readers : ReaderInv(r)'
    BY <2>1, <2>2, ReadersKeep
  <2> QED
    BY <2>1, <2>3 DEF IInv
<1>2. CASE \E r \in Readers : ReaderAction(r)
  <2>1. PICK r \in Readers : ReaderAction(r)
    BY <1>2
  <2>2. TypeOK' /\ OnlyReader(r) /\ ReaderInv(r)'
    BY <2>1, ReaderTypes, ReaderKeeps
  <2>3. SegmentInv' /\ WriterInv' /\ \A q \in Readers : ReaderInv(q)'
    BY <2>2, OthersKeep
  <2> QED
    BY <2>2, <2>3 DEF IInv
<1>3. CASE UNCHANGED vars
  BY <1>3 DEF vars, writerVars, readerVars, IInv, TypeOK, SegmentInv, WriterInv,
              InSetup, InUpdate, ReaderInv, CurrCopied, LastCopied
<1> QED
  BY <1>1, <1>2, <1>3 DEF Next, WriterAction, WriterStep, ReaderAction

LEMMA Inductive == Spec => []IInv
  BY InitIInv, StepIInv, PTL DEF Spec

(* Every word of the segment and every local of a thread stays of its type.  *)
THEOREM TypeCorrect == Spec => []TypeOK
<1>1. IInv => TypeOK
  BY DEF IInv
<1> QED
  BY Inductive, <1>1, PTL

(* read_price never hands out a pair that no single update_price published,  *)
(* provided the sequence it returned on was even.                            *)
THEOREM SnapshotCorrect == Spec => []EvenReadIsSnapshot
<1>1. IInv => EvenReadIsSnapshot
  <2> SUFFICES ASSUME IInv, NEW r \in Readers, rpc[r] = "returned", seq1[r] % 2 = 0
               PROVE  PairOf(seq1[r], out_curr[r], out_last[r])
    BY DEF EvenReadIsSnapshot
  <2> DEFINE k == (seq1[r] \div 2) + 1
  <2>1. /\ WordOf(published, seq1[r], 1, out_curr[r])
        /\ WordOf(published, seq1[r], 2, out_last[r])
    BY DEF IInv, ReaderInv, CurrCopied, LastCopied
  <2>2. /\ seq1[r] \in Nat /\ published \in Seq(Value \X Value)
        /\ published # <<>> => published[1] = <<OpeningPrice, OpeningPrice>>
    BY DEF IInv, TypeOK, SegmentInv
  <2>3. CASE seq1[r] = 0
    BY <2>1, <2>2, <2>3 DEF WordOf, PairOf
  <2>4. CASE seq1[r] # 0
    <3>1. /\ seq1[r] \div 2 < Len(published)
          /\ out_curr[r] = published[k][1] /\ out_last[r] = published[k][2]
      BY <2>1, <2>4 DEF WordOf
    <3>2. k \in 1..Len(published)
      BY <2>2, <3>1
    <3>3. published[k] \in Value \X Value
      BY <2>2, <3>2
    <3> QED
      BY <3>1, <3>3 DEF PairOf
  <2> QED
    BY <2>3, <2>4
<1> QED
  BY Inductive, <1>1, PTL

(* A reader's first load never returns an older sequence than the one before. *)
THEOREM MoveForward == Spec => ReadersMoveForward
<1>1. IInv /\ [Next]_vars => [\A r \in Readers : seq1'[r] >= seq1[r]]_vars
  <2> SUFFICES ASSUME IInv, [Next]_vars, NEW r \in Readers PROVE seq1'[r] >= seq1[r]
    OBVIOUS
  <2>1. seq1 \in [Readers -> Nat] /\ seq1[r] \in Nat /\ sequence \in Nat /\ seq1[r] <= sequence
    BY DEF IInv, TypeOK, ReaderInv
  <2>2. CASE \E q \in Readers : LoadSeq1(q)
    BY <2>1, <2>2 DEF LoadSeq1
  <2>3. CASE ~ \E q \in Readers : LoadSeq1(q)
    <3>1. seq1' = seq1
      BY <2>3 DEF Next, WriterStep, SetupCurr, SetupLast, LoadSequence, StoreOdd,
                  StoreLast, StoreCurr, StoreEven, WriterDies, ReaderStep, CallRead,
                  CopyCurr, CopyLast, LoadSeq2, Test, readerVars, writerVars, vars
    <3> QED
      BY <2>1, <3>1
  <2> QED
    BY <2>2, <2>3
<1> QED
  BY Inductive, <1>1, PTL DEF Spec, ReadersMoveForward
=============================================================================
