------------------------- MODULE StressTraderProofs -------------------------
(* The stress tester: what its threads share stays well typed, and every     *)
(* round-trip time is in exactly one row, whatever the server answers and    *)
(* however the three threads interleave.                                     *)
EXTENDS StressTrader, FiniteSetTheorems, SequenceTheorems, TLAPS

-----------------------------------------------------------------------------
LEMMA DivNat ==
  ASSUME NEW a \in Nat, NEW b \in Nat, b > 0
  PROVE  a \div b \in Nat
  BY SMT

(* The interval stays a natural number, whatever the latency.                *)
LEMMA NextIntervalNat ==
  ASSUME NEW i \in Nat, NEW latency \in Nat
  PROVE  NextInterval(i, latency) \in Nat
<1>1. Target \in Nat /\ 5 * Target \in Nat /\ 5 * Target > 0
  BY TimesAssumption
<1>2. CASE latency > Target
  <2>1. PICK more : more = (i * latency) \div (5 * Target)
    OBVIOUS
  <2>2. more \in Nat
    <3>1. i * latency \in Nat
      OBVIOUS
    <3> QED
      BY <1>1, <2>1, <3>1, DivNat
  <2>3. NextInterval(i, latency) = i + (IF more > i THEN i ELSE more)
    BY <1>2, <2>1 DEF NextInterval
  <2> QED
    BY <2>2, <2>3
<1>3. CASE ~ (latency > Target)
  <2>1. PICK cut : cut = (i * (Target - latency)) \div (5 * Target)
    OBVIOUS
  <2>2. cut \in Nat
    <3>1. Target - latency \in Nat
      BY <1>1, <1>3
    <3>2. i * (Target - latency) \in Nat
      BY <3>1
    <3> QED
      BY <1>1, <2>1, <3>2, DivNat
  <2>3. NextInterval(i, latency) = IF i - cut < 1000 THEN 1000 ELSE i - cut
    BY <1>3, <2>1 DEF NextInterval
  <2> QED
    BY <2>2, <2>3
<1> QED
  BY <1>2, <1>3

-----------------------------------------------------------------------------
(* What TypeOK rests on: a request that has left and is not yet counted is   *)
(* the last one, a response being handled names a request that was sent, and *)
(* no entry of request_send_times_ exists before it is noted.                *)
Uncounted == stress \in {"sent", "recorded"}

CountInv ==
  /\ sent_count = (IF Uncounted THEN posted - 1 ELSE posted)
  /\ Uncounted => posted > 0
  /\ reading.at # "idle" => reading.id \in 1 .. posted
  /\ \A e \in 1 .. MaxSends : e \notin Recorded => send_times[e] = None

TypeInv == TypeOK /\ CountInv

LEMMA InitTyped == Init => TypeInv
<1> SUFFICES ASSUME Init PROVE TypeInv
  OBVIOUS
<1>1. responses \in Seq([id : 1 .. posted, confirms : BOOLEAN])
  BY DEF Init
<1>2. send_times \in [1 .. MaxSends -> {None} \cup 0 .. MaxAge]
  BY DEF Init
<1>3. reading \in [at : {"idle", "matching", "measuring"}, id : 0 .. posted, age : 0 .. MaxAge]
  <2>1. 0 \in 0 .. posted /\ 0 \in 0 .. MaxAge
    BY TimesAssumption DEF Init
  <2>2. reading = [at |-> "idle", id |-> 0, age |-> 0]
    BY DEF Init, NotReading
  <2> QED
    BY <2>1, <2>2
<1>4. TypeOK
  <2>1. stats \in [sum : Nat, count : Nat]
    BY DEF Init, NoStats
  <2>2. row \in [sent : Nat, measured : Nat, average : Nat]
    BY DEF Init, NoRow
  <2>3. /\ in_flight \subseteq 1 .. posted /\ posted \in 0 .. MaxSends
        /\ sent_count \in 0 .. posted /\ last_sent_count \in 0 .. sent_count
        /\ silence \in 0 .. Limit /\ step_age \in 0 .. Limit
        /\ interval \in Nat /\ reported \in Nat
    BY TimesAssumption, IntervalAssumption, BoundsAssumption DEF Init
  <2> QED
    BY <1>1, <1>2, <1>3, <2>1, <2>2, <2>3 DEF Init, TypeOK
<1>5. CountInv
  BY BoundsAssumption DEF Init, CountInv, Uncounted, NotReading
<1> QED
  BY <1>4, <1>5 DEF TypeInv

LEMMA ServerTyped == TypeInv /\ Server => TypeInv'
<1> SUFFICES ASSUME TypeInv, Server PROVE TypeInv'
  OBVIOUS
<1>1. PICK R : R = [id : 1 .. posted, confirms : BOOLEAN]
  OBVIOUS
<1>2. responses \in Seq(R) /\ in_flight \subseteq 1 .. posted /\ posted \in Nat
  BY <1>1, BoundsAssumption DEF TypeInv, TypeOK
<1>3. UNCHANGED <<exited, stress, posted, sent_count, send_times, reading, stats, rows, clock>>
  BY DEF Server, Answer, FillResting, ServerDies, Login, wire
<1>4. responses' \in Seq(R)
  <2>1. ASSUME NEW r \in R PROVE Append(responses, r) \in Seq(R)
    BY <1>2
  <2>2. ASSUME NEW e \in in_flight, Answer(e) PROVE responses' \in Seq(R)
    BY <1>1, <1>2, <2>1, <2>2 DEF Answer
  <2>3. CASE FillResting
    BY <1>1, <1>2, <2>1, <2>3 DEF FillResting
  <2>4. CASE ServerDies \/ Login
    BY <1>2, <2>4 DEF ServerDies, Login, wire
  <2> QED
    BY <2>2, <2>3, <2>4 DEF Server
<1>5. in_flight' \subseteq in_flight /\ up' \in BOOLEAN /\ ready' \in BOOLEAN
  BY DEF Server, Answer, FillResting, ServerDies, Login, wire, TypeInv, TypeOK
<1>6. TypeOK'
  BY <1>1, <1>2, <1>3, <1>4, <1>5 DEF TypeInv, TypeOK, rows, clock
<1>7. CountInv'
  BY <1>3 DEF TypeInv, CountInv, Uncounted, Recorded
<1> QED
  BY <1>6, <1>7 DEF TypeInv

LEMMA TickTyped == TypeInv /\ Tick => TypeInv'
<1> SUFFICES ASSUME TypeInv, Tick PROVE TypeInv'
  OBVIOUS
<1>1. \A age \in 0 .. MaxAge : Older(age) \in 0 .. MaxAge
  BY TimesAssumption DEF Older
<1>2. UNCHANGED <<wire, ready, exited, stress, posted, sent_count, stats, rows>>
  BY DEF Tick
<1>3. silence' \in 0 .. Limit /\ step_age' \in 0 .. Limit
  <2>1. silence \in 0 .. Limit /\ step_age \in 0 .. Limit /\ Limit \in Nat
    BY TimesAssumption DEF TypeInv, TypeOK
  <2>2. \A n \in 0 .. Limit : (IF n < Limit THEN n + 1 ELSE Limit) \in 0 .. Limit
    BY <2>1
  <2> QED
    BY <2>1, <2>2 DEF Tick
<1>4. send_times' \in [1 .. MaxSends -> {None} \cup 0 .. MaxAge]
      /\ \A e \in 1 .. MaxSends : send_times'[e] = None <=> send_times[e] = None
  <2>1. send_times \in [1 .. MaxSends -> {None} \cup 0 .. MaxAge]
    BY DEF TypeInv, TypeOK
  <2>2. None \notin 0 .. MaxAge
    BY TimesAssumption DEF None
  <2>3. send_times' = [e \in 1 .. MaxSends |->
                        IF send_times[e] = None THEN None ELSE Older(send_times[e])]
    BY <2>1 DEF Tick
  <2>4. ASSUME NEW e \in 1 .. MaxSends
        PROVE  /\ send_times'[e] \in {None} \cup 0 .. MaxAge
               /\ send_times'[e] = None <=> send_times[e] = None
    <3>1. send_times'[e] = IF send_times[e] = None THEN None ELSE Older(send_times[e])
      BY <2>3
    <3> QED
      BY <1>1, <2>1, <2>2, <3>1
  <2> QED
    BY <2>3, <2>4
<1>5. /\ reading' \in [at : {"idle", "matching", "measuring"}, id : 0 .. posted, age : 0 .. MaxAge]
      /\ reading'.at = reading.at /\ reading'.id = reading.id
  BY <1>1 DEF Tick, TypeInv, TypeOK
<1>6. TypeOK'
  BY <1>2, <1>3, <1>4, <1>5 DEF TypeInv, TypeOK, wire, rows
<1>7. CountInv'
  BY <1>2, <1>4, <1>5 DEF TypeInv, CountInv, Uncounted, Recorded
<1> QED
  BY <1>6, <1>7 DEF TypeInv

LEMMA StressTyped == TypeInv /\ Stress => TypeInv'
<1> SUFFICES ASSUME TypeInv, Stress PROVE TypeInv'
  OBVIOUS
<1> USE DEF TypeInv
<1>1. CASE BeginStress
  <2>1. UNCHANGED <<wire, ready, exited, posted, sent_count, send_times, reading, stats, rows>>
        /\ stress = "login" /\ stress' = "idle" /\ step_age' = 0 /\ silence' = 0
    BY <1>1 DEF BeginStress
  <2>2. TypeOK'
    BY <2>1, TimesAssumption DEF TypeOK, wire, rows
  <2>3. CountInv'
    BY <2>1 DEF CountInv, Uncounted, Recorded
  <2> QED
    BY <2>2, <2>3
<1>2. CASE SendRequest
  <2>1. /\ stress = "idle" /\ posted < MaxSends /\ posted' = posted + 1 /\ stress' = "sent"
        /\ in_flight' = in_flight \cup {posted + 1}
        /\ UNCHANGED <<up, responses, ready, exited, sent_count, send_times, reading, stats,
                       rows, clock>>
    BY <1>2 DEF SendRequest
  <2>2. posted \in Nat /\ 1 .. posted \subseteq 1 .. posted' /\ 0 .. posted \subseteq 0 .. posted'
        /\ posted' \in 0 .. MaxSends /\ posted' \in 1 .. posted'
    BY <2>1, BoundsAssumption DEF TypeOK
  <2>3. responses' \in Seq([id : 1 .. posted', confirms : BOOLEAN])
    <3>1. [id : 1 .. posted, confirms : BOOLEAN] \subseteq [id : 1 .. posted', confirms : BOOLEAN]
      BY <2>2
    <3>2. responses' \in Seq([id : 1 .. posted, confirms : BOOLEAN])
      BY <2>1 DEF TypeOK
    <3> QED
      BY <3>1, <3>2, SeqMonotonic
  <2>4. in_flight' \subseteq 1 .. posted'
    BY <2>1, <2>2 DEF TypeOK
  <2>5. reading' \in [at : {"idle", "matching", "measuring"}, id : 0 .. posted', age : 0 .. MaxAge]
    BY <2>1, <2>2 DEF TypeOK
  <2>6. sent_count' \in 0 .. posted'
    BY <2>1, <2>2 DEF TypeOK
  <2>7. TypeOK'
    BY <2>1, <2>2, <2>3, <2>4, <2>5, <2>6 DEF TypeOK, rows, clock
  <2>8. CountInv'
    BY <2>1, <2>2 DEF CountInv, Uncounted, Recorded, TypeOK
  <2> QED
    BY <2>7, <2>8
<1>3. CASE RecordSendTime
  <2>1. /\ stress = "sent" /\ stress' = "recorded" /\ send_times' = [send_times EXCEPT ![posted] = 0]
        /\ UNCHANGED <<wire, ready, exited, posted, sent_count, reading, stats, rows, clock>>
    BY <1>3 DEF RecordSendTime
  <2>2. posted \in Nat /\ posted > 0 /\ posted \in 1 .. MaxSends
    BY <2>1, BoundsAssumption DEF TypeOK, CountInv, Uncounted
  <2>3. /\ send_times' \in [1 .. MaxSends -> {None} \cup 0 .. MaxAge]
        /\ \A e \in 1 .. MaxSends : e # posted => send_times'[e] = send_times[e]
    BY <2>1, <2>2, TimesAssumption DEF TypeOK
  <2>4. TypeOK'
    BY <2>1, <2>3 DEF TypeOK, wire, rows, clock
  <2>5. CountInv'
    <3>1. \A e \in 1 .. MaxSends : e \notin 1 .. posted => e \notin 1 .. (posted - 1) /\ e # posted
      BY <2>2
    <3>2. Recorded = 1 .. (posted - 1) /\ Recorded' = 1 .. posted
      BY <2>1 DEF Recorded
    <3> QED
      BY <2>1, <2>2, <2>3, <3>1, <3>2 DEF CountInv, Uncounted
  <2> QED
    BY <2>4, <2>5
<1>4. CASE CountSend
  <2>1. /\ stress = "recorded" /\ stress' = "idle" /\ sent_count' = sent_count + 1
        /\ UNCHANGED <<wire, ready, exited, posted, send_times, reading, stats, rows, clock>>
    BY <1>4 DEF CountSend
  <2>2. posted \in Nat /\ sent_count = posted - 1 /\ sent_count \in Nat
    BY <2>1, BoundsAssumption DEF TypeOK, CountInv, Uncounted
  <2>3. sent_count' \in 0 .. posted /\ last_sent_count \in 0 .. sent_count'
    BY <2>1, <2>2 DEF TypeOK
  <2>4. TypeOK'
    BY <2>1, <2>3 DEF TypeOK, wire, rows, clock
  <2>5. CountInv'
    BY <2>1, <2>2 DEF CountInv, Uncounted, Recorded
  <2> QED
    BY <2>4, <2>5
<1> QED
  BY <1>1, <1>2, <1>3, <1>4 DEF Stress

LEMMA ReaderTyped == TypeInv /\ Reader => TypeInv'
<1> SUFFICES ASSUME TypeInv, Reader PROVE TypeInv'
  OBVIOUS
<1> USE DEF TypeInv
<1>0. UNCHANGED <<up, in_flight, ready, exited, stress, posted, sent_count, rows, step_age>>
  BY DEF Reader, Heartbeat, Match, Measure, wire, clock
<1>1. PICK R : R = [id : 1 .. posted, confirms : BOOLEAN]
  OBVIOUS
<1>2. PICK Q : Q = [at : {"idle", "matching", "measuring"}, id : 0 .. posted, age : 0 .. MaxAge]
  OBVIOUS
<1>3. /\ posted \in Nat /\ responses \in Seq(R) /\ reading \in Q
      /\ send_times \in [1 .. MaxSends -> {None} \cup 0 .. MaxAge]
      /\ 1 .. posted \subseteq 1 .. MaxSends
  BY <1>1, <1>2, BoundsAssumption DEF TypeOK
<1>4. NotReading \in Q
  BY <1>2, <1>3, TimesAssumption DEF NotReading
<1>5. SUFFICES /\ responses' \in Seq(R) /\ reading' \in Q
               /\ send_times' \in [1 .. MaxSends -> {None} \cup 0 .. MaxAge]
               /\ stats' \in [sum : Nat, count : Nat]
               /\ silence' \in 0 .. Limit
               /\ reading'.at # "idle" => reading'.id \in 1 .. posted
               /\ \A e \in 1 .. MaxSends : send_times[e] = None => send_times'[e] = None
  <2>1. TypeOK'
    BY <1>0, <1>1, <1>2, <1>5 DEF TypeOK, rows
  <2>2. CountInv'
    BY <1>0, <1>5 DEF CountInv, Uncounted, Recorded
  <2> QED
    BY <2>1, <2>2
<1>6. CASE Heartbeat
  <2>1. PICK m : m = Head(responses)
    OBVIOUS
  <2>2. m \in R /\ responses' \in Seq(R)
    BY <1>3, <1>6, <2>1 DEF Heartbeat
  <2>3. m.id \in 1 .. posted /\ m.id \in 0 .. posted
    BY <1>1, <1>3, <2>2
  <2>4. \/ reading' = NotReading
        \/ reading' = [at |-> "matching", id |-> m.id, age |-> 0]
    BY <1>6, <2>1 DEF Heartbeat
  <2>5. reading' \in Q /\ (reading'.at # "idle" => reading'.id \in 1 .. posted)
    BY <1>2, <1>4, <2>3, <2>4, TimesAssumption DEF NotReading
  <2> QED
    BY <1>3, <1>6, <2>2, <2>5, TimesAssumption DEF Heartbeat, TypeOK
<1>7. CASE Match
  <2>1. reading.at = "matching" /\ reading.id \in 1 .. MaxSends /\ reading.id \in 1 .. posted
    BY <1>3, <1>7 DEF Match, CountInv
  <2>2. UNCHANGED <<responses, stats, silence>>
    BY <1>7 DEF Match, wire, clock
  <2>3. CASE send_times[reading.id] # None
    <3>1. /\ reading' = [reading EXCEPT !.at = "measuring", !.age = send_times[reading.id]]
          /\ send_times' = [send_times EXCEPT ![reading.id] = None]
      BY <1>7, <2>3 DEF Match
    <3>2. send_times[reading.id] \in 0 .. MaxAge
      BY <1>3, <2>1, <2>3
    <3>3. reading' \in Q /\ reading'.id = reading.id
      BY <1>2, <1>3, <3>1, <3>2
    <3>4. /\ send_times' \in [1 .. MaxSends -> {None} \cup 0 .. MaxAge]
          /\ \A e \in 1 .. MaxSends : send_times[e] = None => send_times'[e] = None
      BY <1>3, <2>1, <3>1
    <3> QED
      BY <1>3, <2>1, <2>2, <3>3, <3>4 DEF TypeOK
  <2>4. CASE send_times[reading.id] = None
    BY <1>3, <1>4, <1>7, <2>2, <2>4 DEF Match, TypeOK, NotReading
  <2> QED
    BY <2>3, <2>4
<1>8. CASE Measure
  <2>1. reading.age \in Nat /\ stats.sum \in Nat /\ stats.count \in Nat
    BY <1>2, <1>3, TimesAssumption DEF TypeOK
  <2>2. stats' \in [sum : Nat, count : Nat]
    BY <1>8, <2>1 DEF Measure
  <2> QED
    BY <1>3, <1>4, <1>8, <2>2 DEF Measure, wire, clock, TypeOK, NotReading
<1> QED
  BY <1>6, <1>7, <1>8 DEF Reader

LEMMA TimerTyped == TypeInv /\ Timer => TypeInv'
<1> SUFFICES ASSUME TypeInv, Timer PROVE TypeInv'
  OBVIOUS
<1> USE DEF TypeInv
<1>0. UNCHANGED <<wire, ready, stress, posted, sent_count, send_times, reading, silence>>
  BY DEF Timer, Exit, StartRow, TakeStats, JudgeLatency, StoreInterval, rows, clock
<1>1. CountInv'
  BY <1>0 DEF CountInv, Uncounted, Recorded
<1>2. PICK W : W = [sent : Nat, measured : Nat, average : Nat]
  OBVIOUS
<1>3. /\ row \in W /\ NoRow \in W
      /\ sent_count \in Nat /\ last_sent_count \in Nat /\ last_sent_count <= sent_count
      /\ stats \in [sum : Nat, count : Nat] /\ stats.sum \in Nat /\ stats.count \in Nat
  BY <1>2, BoundsAssumption DEF TypeOK, NoRow
<1>4. SUFFICES /\ exited' \in BOOLEAN /\ timer' \in {"idle", "row", "adjust", "store"}
               /\ row' \in W /\ last_sent_count' \in 0 .. sent_count
               /\ reported' \in Nat /\ stats' \in [sum : Nat, count : Nat]
               /\ interval' \in Nat /\ step_age' \in 0 .. Limit
  BY <1>0, <1>1, <1>2, <1>4 DEF TypeOK, wire
<1>5. CASE Exit
  BY <1>2, <1>5 DEF Exit, rows, clock, TypeOK
<1>6. CASE StartRow
  <2>1. row' = [NoRow EXCEPT !.sent = sent_count - last_sent_count]
    BY <1>6 DEF StartRow
  <2>2. sent_count - last_sent_count \in Nat
    BY <1>3
  <2>3. row' \in W
    BY <1>2, <2>1, <2>2 DEF NoRow
  <2> QED
    BY <1>3, <1>6, <2>3 DEF StartRow, clock, TypeOK
<1>7. CASE TakeStats
  <2>1. PICK average : average = IF stats.count > 0 THEN stats.sum \div stats.count ELSE 0
    OBVIOUS
  <2>2. average \in Nat
    BY <1>3, <2>1, DivNat
  <2>3. row' = [row EXCEPT !.measured = stats.count, !.average = average]
    BY <1>7, <2>1 DEF TakeStats
  <2>4. row' \in W
    BY <1>2, <1>3, <2>2, <2>3
  <2>5. reported' \in Nat /\ stats' \in [sum : Nat, count : Nat]
    BY <1>3, <1>7 DEF TakeStats, NoStats, TypeOK
  <2> QED
    BY <1>7, <2>4, <2>5 DEF TakeStats, clock, TypeOK
<1>8. CASE JudgeLatency
  <2>1. row' = row \/ row' = [row EXCEPT !.average = 5 * Target]
    BY <1>8 DEF JudgeLatency
  <2>2. 5 * Target \in Nat
    BY TimesAssumption
  <2>3. row' \in W
    BY <1>2, <1>3, <2>1, <2>2
  <2> QED
    BY <1>8, <2>3 DEF JudgeLatency, clock, TypeOK
<1>9. CASE StoreInterval
  <2>1. interval \in Nat /\ row.average \in Nat
    BY <1>2, <1>3 DEF TypeOK
  <2>2. interval' \in Nat
    BY <1>9, <2>1, NextIntervalNat DEF StoreInterval
  <2> QED
    BY <1>3, <1>9, <2>2, TimesAssumption DEF StoreInterval, TypeOK
<1> QED
  BY <1>5, <1>6, <1>7, <1>8, <1>9 DEF Timer

LEMMA TypeStep == TypeInv /\ [Next]_vars => TypeInv'
<1>1. ASSUME TypeInv, UNCHANGED vars PROVE TypeInv'
  BY <1>1 DEF TypeInv, TypeOK, CountInv, Uncounted, Recorded, vars, wire, rows, clock
<1> QED
  BY <1>1, ServerTyped, TickTyped, StressTyped, ReaderTyped, TimerTyped DEF Next

LEMMA TypeInvariant == Spec => []TypeInv
  BY InitTyped, TypeStep, PTL DEF Spec

(* Whatever the threads and the server do, what they share is well typed: in *)
(* particular no request is counted that was not sent, no row counts a       *)
(* negative number of sends, and the response being handled is that of a     *)
(* request that was sent.                                                    *)
THEOREM StressTypeCorrect == Spec => []TypeOK
<1>1. TypeInv => TypeOK
  BY DEF TypeInv
<1> QED
  BY <1>1, TypeInvariant, PTL

-----------------------------------------------------------------------------
(* The requests that were noted and have left request_send_times_.           *)
Matched == {e \in Recorded : send_times[e] = None}
BeingMeasured == IF reading.at = "measuring" THEN 1 ELSE 0

LEMMA MatchedFinite ==
  ASSUME TypeInv
  PROVE  IsFiniteSet(Matched) /\ Cardinality(Matched) \in Nat
<1>1. posted \in Int /\ posted - 1 \in Int
  BY BoundsAssumption DEF TypeInv, TypeOK
<1>2. PICK n \in Int : Recorded = 1 .. n
  BY <1>1 DEF Recorded
<1>3. IsFiniteSet(Recorded)
  BY <1>2, FS_Interval
<1>4. Matched \in SUBSET Recorded
  BY DEF Matched
<1> QED
  BY <1>3, <1>4, FS_Subset, FS_CardinalityType

(* Only a response that finds its request takes one out, and then starts     *)
(* measuring it; neither the clock nor a new request moves any.              *)
LEMMA MatchedStep ==
  ASSUME TypeInv, [Next]_vars
  PROVE  \/ Matched' = Matched
         \/ /\ reading.at = "matching" /\ reading'.at = "measuring"
            /\ UNCHANGED <<stats, reported>>
            /\ \E id \in Recorded \ Matched : Matched' = Matched \cup {id}
<1> USE DEF TypeInv
<1>0. /\ posted \in Nat /\ send_times \in [1 .. MaxSends -> {None} \cup 0 .. MaxAge]
      /\ Recorded \subseteq 1 .. MaxSends /\ 1 .. posted \subseteq 1 .. MaxSends
      /\ None \notin 0 .. MaxAge
  BY BoundsAssumption, TimesAssumption DEF TypeOK, Recorded, None
<1>1. CASE UNCHANGED <<stress, posted, send_times>>
  BY <1>1 DEF Matched, Recorded
<1>2. CASE Tick
  <2>1. Recorded' = Recorded
    BY <1>2 DEF Tick, Recorded
  <2>2. ASSUME NEW e \in Recorded PROVE send_times'[e] = None <=> send_times[e] = None
    <3>1. send_times'[e] = IF send_times[e] = None THEN None ELSE Older(send_times[e])
      BY <1>0, <1>2 DEF Tick
    <3>2. \A age \in 0 .. MaxAge : Older(age) \in 0 .. MaxAge
      BY TimesAssumption DEF Older
    <3> QED
      BY <1>0, <3>1, <3>2
  <2> QED
    BY <2>1, <2>2 DEF Matched
<1>3. CASE BeginStress \/ CountSend
  BY <1>3 DEF BeginStress, CountSend, Matched, Recorded
<1>4. CASE SendRequest
  <2>1. Recorded' = Recorded /\ send_times' = send_times
    BY <1>0, <1>4 DEF SendRequest, Recorded
  <2> QED
    BY <2>1 DEF Matched
<1>5. CASE RecordSendTime
  <2>1. posted \in 1 .. MaxSends
    BY <1>0, <1>5 DEF RecordSendTime, TypeOK, CountInv, Uncounted
  <2>2. Recorded = 1 .. (posted - 1) /\ Recorded' = 1 .. posted
    BY <1>5 DEF RecordSendTime, Recorded
  <2>3. Recorded' = Recorded \cup {posted} /\ posted \notin Recorded
    BY <1>0, <2>1, <2>2
  <2>4. send_times'[posted] # None /\ \A e \in Recorded : send_times'[e] = send_times[e]
    BY <1>0, <1>5, <2>1, <2>3 DEF RecordSendTime, None
  <2> QED
    BY <2>3, <2>4 DEF Matched
<1>6. CASE Match
  <2>1. reading.at = "matching" /\ reading.id \in 1 .. MaxSends
    BY <1>0, <1>6 DEF Match, CountInv
  <2>2. CASE send_times[reading.id] # None
    <3>1. reading.id \in Recorded /\ reading.id \notin Matched
      BY <2>1, <2>2 DEF CountInv, Matched
    <3>2. /\ Recorded' = Recorded /\ send_times' = [send_times EXCEPT ![reading.id] = None]
          /\ UNCHANGED <<stats, reported>>
      BY <1>6, <2>2 DEF Match, Recorded, rows
    <3>3. /\ send_times'[reading.id] = None
          /\ \A e \in Recorded : e # reading.id => send_times'[e] = send_times[e]
      BY <1>0, <2>1, <3>2
    <3>4. Matched' = Matched \cup {reading.id}
      BY <3>1, <3>2, <3>3 DEF Matched
    <3>5. reading'.at = "measuring"
      BY <1>6, <2>2 DEF Match, TypeOK
    <3> QED
      BY <2>1, <3>1, <3>2, <3>4, <3>5
  <2>3. CASE send_times[reading.id] = None
    BY <1>1, <1>6, <2>3 DEF Match
  <2> QED
    BY <2>2, <2>3
<1>7. CASE Heartbeat \/ Measure \/ Timer
  BY <1>1, <1>7 DEF Heartbeat, Measure, Timer, Exit, StartRow, TakeStats, JudgeLatency,
                    StoreInterval
<1>8. CASE Server \/ UNCHANGED vars
  BY <1>1, <1>8 DEF Server, Answer, FillResting, ServerDies, Login, vars
<1> QED
  BY <1>2, <1>3, <1>4, <1>5, <1>6, <1>7, <1>8 DEF Next, Stress, Reader

(* What a step moves between the accumulators, the rows and the response     *)
(* being handled, when it matches none.                                      *)
LEMMA SampleStep ==
  ASSUME TypeInv, [Next]_vars
  PROVE  \/ /\ reported' + stats'.count = reported + stats.count
            /\ BeingMeasured' = BeingMeasured
         \/ /\ reported' + stats'.count = reported + stats.count + 1
            /\ reading.at = "measuring" /\ reading'.at = "idle"
         \/ reading.at = "matching" /\ Matched' # Matched
<1> USE DEF TypeInv
<1>0. reported \in Nat /\ stats \in [sum : Nat, count : Nat] /\ stats.count \in Nat
  BY DEF TypeOK
<1>1. CASE UNCHANGED <<reading, stats, reported>>
  BY <1>1 DEF BeingMeasured
<1>2. CASE Tick
  <2>1. reading'.at = reading.at /\ UNCHANGED <<stats, reported>>
    BY <1>2 DEF Tick, rows, TypeOK
  <2> QED
    BY <2>1 DEF BeingMeasured
<1>3. CASE Heartbeat
  BY <1>3 DEF Heartbeat, rows, NotReading, BeingMeasured
<1>4. CASE Match
  <2>1. reading.at = "matching" /\ UNCHANGED <<stats, reported>>
    BY <1>4 DEF Match, rows
  <2>2. CASE send_times[reading.id] = None
    BY <1>4, <2>1, <2>2 DEF Match, NotReading, BeingMeasured
  <2>3. CASE send_times[reading.id] # None
    <3>1. reading.id \in Recorded /\ reading.id \in 1 .. MaxSends
      BY <2>1, <2>3, BoundsAssumption DEF CountInv, TypeOK
    <3>2. send_times' = [send_times EXCEPT ![reading.id] = None] /\ Recorded' = Recorded
      BY <1>4, <2>3 DEF Match, Recorded
    <3>3. send_times'[reading.id] = None
      BY <3>1, <3>2 DEF TypeOK
    <3>4. reading.id \in Matched' /\ reading.id \notin Matched
      BY <2>3, <3>1, <3>2, <3>3 DEF Matched
    <3> QED
      BY <2>1, <3>4
  <2> QED
    BY <2>2, <2>3
<1>5. CASE Measure
  <2>1. reading.at = "measuring" /\ reading'.at = "idle" /\ reported' = reported
        /\ stats'.count = stats.count + 1
    BY <1>5 DEF Measure, rows, NotReading
  <2> QED
    BY <1>0, <2>1
<1>6. CASE TakeStats
  <2>1. reported' = reported + stats.count /\ stats'.count = 0 /\ reading' = reading
    BY <1>6 DEF TakeStats, NoStats
  <2> QED
    BY <1>0, <2>1 DEF BeingMeasured
<1>7. CASE Exit \/ StartRow \/ JudgeLatency \/ StoreInterval
  BY <1>1, <1>7 DEF Exit, StartRow, JudgeLatency, StoreInterval, rows
<1>8. CASE Server \/ Stress \/ UNCHANGED vars
  BY <1>1, <1>8 DEF Server, Answer, FillResting, ServerDies, Login, Stress, BeginStress,
                    SendRequest, RecordSendTime, CountSend, rows, vars
<1> QED
  BY <1>2, <1>3, <1>4, <1>5, <1>6, <1>7, <1>8 DEF Next, Reader, Timer

SampleInv == TypeInv /\ EverySampleInOneRow

LEMMA SampleIs ==
  EverySampleInOneRow <=> Cardinality(Matched) = reported + stats.count + BeingMeasured
  BY DEF EverySampleInOneRow, Matched, BeingMeasured

LEMMA SampleInvStep == SampleInv /\ [Next]_vars => SampleInv'
<1> SUFFICES ASSUME SampleInv, [Next]_vars PROVE SampleInv'
  OBVIOUS
<1>0. TypeInv /\ TypeInv'
  BY TypeStep DEF SampleInv
<1>1. Cardinality(Matched) = reported + stats.count + BeingMeasured
  BY SampleIs DEF SampleInv
<1>2. /\ reported \in Nat /\ stats.count \in Nat /\ reported' \in Nat /\ stats'.count \in Nat
      /\ IsFiniteSet(Matched) /\ Cardinality(Matched) \in Nat
  BY <1>0, MatchedFinite DEF TypeInv, TypeOK
<1>3. CASE Matched' = Matched
  <2>1. ASSUME reported' + stats'.count = reported + stats.count + 1,
               reading.at = "measuring", reading'.at = "idle"
        PROVE  reported' + stats'.count + BeingMeasured' = reported + stats.count + BeingMeasured
    <3>1. BeingMeasured = 1 /\ BeingMeasured' = 0
      BY <2>1 DEF BeingMeasured
    <3> QED
      BY <1>2, <2>1, <3>1
  <2>2. reported' + stats'.count + BeingMeasured' = reported + stats.count + BeingMeasured
    BY <1>0, <1>3, <2>1, SampleStep
  <2>3. Cardinality(Matched') = reported' + stats'.count + BeingMeasured'
    BY <1>1, <1>3, <2>2
  <2>4. EverySampleInOneRow'
    BY <2>3 DEF EverySampleInOneRow, Matched, BeingMeasured
  <2> QED
    BY <1>0, <2>4 DEF SampleInv
<1>4. CASE Matched' # Matched
  <2>1. PICK id \in Recorded \ Matched :
          /\ reading.at = "matching" /\ reading'.at = "measuring"
          /\ UNCHANGED <<stats, reported>> /\ Matched' = Matched \cup {id}
    BY <1>0, <1>4, MatchedStep
  <2>2. Cardinality(Matched') = Cardinality(Matched) + 1
    BY <1>2, <2>1, FS_AddElement
  <2>3. BeingMeasured = 0 /\ BeingMeasured' = 1
    BY <2>1 DEF BeingMeasured
  <2>4. Cardinality(Matched') = reported' + stats'.count + BeingMeasured'
    BY <1>1, <1>2, <2>1, <2>2, <2>3
  <2>5. EverySampleInOneRow'
    BY <2>4 DEF EverySampleInOneRow, Matched, BeingMeasured
  <2> QED
    BY <1>0, <2>5 DEF SampleInv
<1> QED
  BY <1>3, <1>4

(* Every round-trip time is in exactly one row, or still to be reported,     *)
(* however often the timer empties the accumulators between the two locks of *)
(* the response handler.                                                     *)
THEOREM SamplesInOneRow == Spec => []EverySampleInOneRow
<1>1. Init => SampleInv
  <2> SUFFICES ASSUME Init PROVE SampleInv
    OBVIOUS
  <2>1. TypeInv
    BY InitTyped
  <2>2. Recorded = {} /\ Matched = {}
    BY DEF Init, Recorded, Matched
  <2>3. Cardinality(Matched) = 0
    BY <2>2, FS_EmptySet
  <2>4. reported = 0 /\ stats.count = 0 /\ BeingMeasured = 0
    BY DEF Init, NoStats, NotReading, BeingMeasured
  <2> QED
    BY <2>1, <2>3, <2>4, SampleIs DEF SampleInv
<1>2. SampleInv => EverySampleInOneRow
  BY DEF SampleInv
<1> QED
  BY <1>1, <1>2, SampleInvStep, PTL DEF Spec
=============================================================================
