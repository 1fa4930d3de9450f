---------------------------- MODULE StressTrader ----------------------------
(***************************************************************************)
(* The stress tester (agents/stress-trader.cpp).  Three threads share it:   *)
(*  - stress_thread_ sends a request, notes when it was sent and waits;     *)
(*  - the read thread of the management connection takes the responses,     *)
(*    finds the request each one confirms and accumulates the round-trip    *)
(*    time;                                                                 *)
(*  - the main thread's on_timer prints a row of every 10 s step, sets the  *)
(*    interval of the next, and ends the process when the server has been   *)
(*    silent for 10 s.                                                      *)
(*                                                                         *)
(* A request is its exec_id, counted from 1.  Times are kept as ages in     *)
(* ticks, which stop at a bound; intervals are in nanoseconds.  The server  *)
(* is outside the repository.  Not modelled: the monitoring thread's peaks  *)
(* of the rings and what a row prints beside the average.                   *)
(***************************************************************************)
EXTENDS Integers, Sequences, FiniteSets

CONSTANTS
  Limit,     \* 10 s: the length of a step, and the longest silence
  Target,    \* 1 s: the round-trip time the interval is steered to
  MaxAge,    \* bound on an age
  FirstInterval,
  MaxSends, MaxLag   \* bounds for TLC: requests, responses on the wire

ASSUME TimesAssumption ==
  Limit \in Nat \ {0} /\ Target \in Nat \ {0} /\ MaxAge \in Nat
ASSUME IntervalAssumption == FirstInterval \in Nat
ASSUME BoundsAssumption == MaxSends \in Nat /\ MaxLag \in Nat

VARIABLES
  up,              \* the server is alive
  in_flight,       \* the requests it has not answered
  responses,       \* its responses on the wire
  ready,           \* ready_
  exited,          \* std::exit was called
  stress,          \* where stress_loop is
  posted,          \* the exec_id of the last request
  sent_count, last_sent_count,
  send_times,      \* request_send_times_, as the age of each entry
  reading,         \* where on_order_response is, its request and start_time
  stats,           \* step_rtt_sum_us_, step_rtt_count_
  timer,           \* where on_timer is
  row,             \* the step being reported: sends, samples, and their average,
                   \*   which becomes the latency that the interval is set by
  reported,        \* history: the samples of all rows so far
  interval,        \* current_interval_us_, in nanoseconds
  silence,         \* time since last_response_time_
  step_age         \* time since step_start_time_

wire  == <<up, in_flight, responses>>
clock == <<silence, step_age>>
rows  == <<timer, row, reported, interval, last_sent_count>>
vars  == <<wire, ready, exited, stress, posted, sent_count, send_times, reading,
           stats, rows, clock>>

None     == -1
NoStats  == [sum |-> 0, count |-> 0]
NoRow    == [sent |-> 0, measured |-> 0, average |-> 0]
NotReading == [at |-> "idle", id |-> 0, age |-> 0]
-----------------------------------------------------------------------------
(* The server.  A response confirms a request if its exec_type is New,       *)
(* Replaced or Cancelled; a fill, or another answer, does not.               *)
Answer(e) ==
  /\ up /\ e \in in_flight /\ Len(responses) < MaxLag
  /\ \E confirms \in BOOLEAN :
       responses' = Append(responses, [id |-> e, confirms |-> confirms])
  /\ in_flight' = in_flight \ {e}
  /\ UNCHANGED <<up, ready, exited, stress, posted, sent_count, send_times, reading,
                 stats, rows, clock>>

FillResting ==
  /\ up /\ posted > 0 /\ Len(responses) < MaxLag
  /\ responses' = Append(responses, [id |-> 1, confirms |-> FALSE])
  /\ UNCHANGED <<up, in_flight, ready, exited, stress, posted, sent_count, send_times,
                 reading, stats, rows, clock>>

ServerDies ==
  /\ up /\ up' = FALSE
  /\ UNCHANGED <<in_flight, responses, ready, exited, stress, posted, sent_count,
                 send_times, reading, stats, rows, clock>>

\* The login of TradingSession completes.
Login ==
  /\ ~ready /\ up /\ ready' = TRUE
  /\ UNCHANGED <<wire, exited, stress, posted, sent_count, send_times, reading, stats,
                 rows, clock>>

Older(age) == IF age < MaxAge THEN age + 1 ELSE age

Tick ==
  /\ silence' = IF silence < Limit THEN silence + 1 ELSE Limit
  /\ step_age' = IF step_age < Limit THEN step_age + 1 ELSE Limit
  /\ send_times' = [e \in DOMAIN send_times |->
                      IF send_times[e] = None THEN None ELSE Older(send_times[e])]
  /\ reading' = IF reading.at = "measuring"
                THEN [reading EXCEPT !.age = Older(@)] ELSE reading
  /\ UNCHANGED <<wire, ready, exited, stress, posted, sent_count, stats, rows>>
-----------------------------------------------------------------------------
(* stress_thread_.  The wait of high_precision_delay is any time.            *)
BeginStress ==
  /\ stress = "login" /\ ready
  /\ stress' = "idle" /\ step_age' = 0 /\ silence' = 0
  /\ UNCHANGED <<wire, ready, exited, posted, sent_count, send_times, reading, stats, rows>>

\* do_trading_action, whatever its choice: one new, modify or cancel request.
SendRequest ==
  /\ stress = "idle" /\ posted < MaxSends
  /\ posted' = posted + 1 /\ in_flight' = in_flight \cup {posted + 1}
  /\ stress' = "sent"
  /\ UNCHANGED <<up, responses, ready, exited, sent_count, send_times, reading, stats,
                 rows, clock>>

\* The send time is noted after the request has left.
RecordSendTime ==
  /\ stress = "sent"
  /\ send_times' = [send_times EXCEPT ![posted] = 0]
  /\ stress' = "recorded"
  /\ UNCHANGED <<wire, ready, exited, posted, sent_count, reading, stats, rows, clock>>

\* Mutant: a scenario that builds on another one counts its request again.
CountSendTwice ==
  /\ stress = "recorded"
  /\ sent_count' = sent_count + 2 /\ stress' = "idle"
  /\ UNCHANGED <<wire, ready, exited, posted, send_times, reading, stats, rows, clock>>

CountSend ==
  /\ stress = "recorded"
  /\ sent_count' = sent_count + 1 /\ stress' = "idle"
  /\ UNCHANGED <<wire, ready, exited, posted, send_times, reading, stats, rows, clock>>
-----------------------------------------------------------------------------
(* on_order_response, in the read thread.                                    *)
Heartbeat ==
  /\ reading.at = "idle" /\ responses # <<>>
  /\ responses' = Tail(responses)
  /\ silence' = 0
  /\ reading' = IF Head(responses).confirms
                THEN [at |-> "matching", id |-> Head(responses).id, age |-> 0]
                ELSE NotReading
  /\ UNCHANGED <<up, in_flight, ready, exited, stress, posted, sent_count, send_times,
                 stats, rows, step_age>>

\* Mutant: the entry of a request that was not found is measured all the same.
MatchWithoutFind ==
  /\ reading.at = "matching"
  /\ reading' = [reading EXCEPT !.at = "measuring"]
  /\ send_times' = [send_times EXCEPT ![reading.id] = None]
  /\ UNCHANGED <<wire, ready, exited, stress, posted, sent_count, stats, rows, clock>>

\* Under send_times_mtx_.
Match ==
  /\ reading.at = "matching"
  /\ IF send_times[reading.id] # None
     THEN /\ reading' = [reading EXCEPT !.at = "measuring", !.age = send_times[reading.id]]
          /\ send_times' = [send_times EXCEPT ![reading.id] = None]
     ELSE reading' = NotReading /\ UNCHANGED send_times
  /\ UNCHANGED <<wire, ready, exited, stress, posted, sent_count, stats, rows, clock>>

\* Under step_stats_mtx_.
Measure ==
  /\ reading.at = "measuring"
  /\ stats' = [sum |-> stats.sum + reading.age, count |-> stats.count + 1]
  /\ reading' = NotReading
  /\ UNCHANGED <<wire, ready, exited, stress, posted, sent_count, send_times, rows, clock>>
-----------------------------------------------------------------------------
(* on_timer and report_step_row, in the main thread.                         *)
Silent == ready /\ sent_count > 0 /\ silence >= Limit

Exit ==
  /\ timer = "idle" /\ Silent
  /\ exited' = TRUE
  /\ UNCHANGED <<wire, ready, stress, posted, sent_count, send_times, reading, stats,
                 rows, clock>>

\* Mutant: a row is printed first, and resets both clocks as stress_loop does.
StartRowRevives ==
  /\ timer = "idle" /\ step_age >= Limit
  /\ row' = [NoRow EXCEPT !.sent = sent_count - last_sent_count]
  /\ last_sent_count' = sent_count
  /\ timer' = "row" /\ silence' = 0
  /\ UNCHANGED <<wire, ready, exited, stress, posted, sent_count, send_times, reading,
                 stats, reported, interval, step_age>>

StartRow ==
  /\ timer = "idle" /\ ~Silent /\ step_age >= Limit
  /\ row' = [NoRow EXCEPT !.sent = sent_count - last_sent_count]
  /\ last_sent_count' = sent_count
  /\ timer' = "row"
  /\ UNCHANGED <<wire, ready, exited, stress, posted, sent_count, send_times, reading,
                 stats, reported, interval, clock>>

\* Mutant: the accumulators are read in the lock and not reset in it.
TakeStatsKeeps ==
  /\ timer = "row"
  /\ row' = [row EXCEPT !.measured = stats.count,
               !.average = IF stats.count > 0 THEN stats.sum \div stats.count ELSE 0]
  /\ reported' = reported + stats.count
  /\ timer' = "adjust"
  /\ UNCHANGED <<wire, ready, exited, stress, posted, sent_count, send_times, reading,
                 stats, interval, last_sent_count, clock>>

\* Under step_stats_mtx_.
TakeStats ==
  /\ timer = "row"
  /\ row' = [row EXCEPT !.measured = stats.count,
               !.average = IF stats.count > 0 THEN stats.sum \div stats.count ELSE 0]
  /\ reported' = reported + stats.count
  /\ stats' = NoStats
  /\ timer' = "adjust"
  /\ UNCHANGED <<wire, ready, exited, stress, posted, sent_count, send_times, reading,
                 interval, last_sent_count, clock>>

(* The interval of the next step: up to twice as long if the average was     *)
(* above the target, down to 4/5 of it, and to 1 us, if it was below.        *)
NextInterval(i, latency) ==
  IF latency > Target
  THEN LET more == (i * latency) \div (5 * Target)
       IN  i + (IF more > i THEN i ELSE more)
  ELSE LET less == i - (i * (Target - latency)) \div (5 * Target)
       IN  IF less < 1000 THEN 1000 ELSE less

(* step_rtt_count_ and sent_count_ are read again, outside the lock.  A real *)
(* average is 0 only if there was no sample.                                 *)
JudgeLatency ==
  /\ timer = "adjust"
  /\ row' = IF row.measured = 0 /\ stats.count = 0 /\ sent_count > last_sent_count
            THEN [row EXCEPT !.average = 5 * Target] ELSE row
  /\ timer' = "store"
  /\ UNCHANGED <<wire, ready, exited, stress, posted, sent_count, send_times, reading,
                 stats, reported, interval, last_sent_count, clock>>

(* current_interval_us_ and step_start_time_.                                *)
StoreInterval ==
  /\ timer = "store"
  /\ interval' = NextInterval(interval, row.average)
  /\ step_age' = 0
  /\ timer' = "idle" /\ row' = NoRow
  /\ UNCHANGED <<wire, ready, exited, stress, posted, sent_count, send_times, reading,
                 stats, reported, last_sent_count, silence>>
-----------------------------------------------------------------------------
Init ==
  /\ up = TRUE /\ in_flight = {} /\ responses = <<>>
  /\ ready = FALSE /\ exited = FALSE
  /\ stress = "login" /\ posted = 0 /\ sent_count = 0 /\ last_sent_count = 0
  /\ send_times = [e \in 1 .. MaxSends |-> None]
  /\ reading = NotReading /\ stats = NoStats
  /\ timer = "idle" /\ row = NoRow /\ reported = 0
  /\ interval = FirstInterval
  /\ silence = 0 /\ step_age = 0

Server == (\E e \in in_flight : Answer(e)) \/ FillResting \/ ServerDies \/ Login
Stress == BeginStress \/ SendRequest \/ RecordSendTime \/ CountSend
Reader == Heartbeat \/ Match \/ Measure
Timer  == Exit \/ StartRow \/ TakeStats \/ JudgeLatency \/ StoreInterval

Next == ~exited /\ (Server \/ Tick \/ Stress \/ Reader \/ Timer)

Spec == Init /\ [][Next]_vars

(* Time passes and the threads run; the server need not do anything.         *)
FairSpec ==
  Spec /\ WF_vars(~exited /\ Tick) /\ WF_vars(~exited /\ Stress)
       /\ WF_vars(~exited /\ Reader) /\ WF_vars(~exited /\ Timer)
-----------------------------------------------------------------------------
(* Every variable has its type; what is counted has been sent, and what is    *)
(* reported has been counted.                                                *)
TypeOK ==
  /\ up \in BOOLEAN /\ ready \in BOOLEAN /\ exited \in BOOLEAN
  /\ in_flight \subseteq 1 .. posted
  /\ responses \in Seq([id : 1 .. posted, confirms : BOOLEAN])
  /\ stress \in {"login", "idle", "sent", "recorded"}
  /\ timer \in {"idle", "row", "adjust", "store"}
  /\ posted \in 0 .. MaxSends
  /\ sent_count \in 0 .. posted /\ last_sent_count \in 0 .. sent_count
  /\ send_times \in [1 .. MaxSends -> {None} \cup 0 .. MaxAge]
  /\ reading \in [at : {"idle", "matching", "measuring"}, id : 0 .. posted, age : 0 .. MaxAge]
  /\ stats \in [sum : Nat, count : Nat]
  /\ row \in [sent : Nat, measured : Nat, average : Nat]
  /\ reported \in Nat
  /\ interval \in Nat
  /\ silence \in 0 .. Limit /\ step_age \in 0 .. Limit

Recorded == 1 .. (IF stress = "sent" THEN posted - 1 ELSE posted)

(* Every round-trip time is in exactly one row, or still to be reported: the *)
(* noted requests that are no longer in request_send_times_ are those of the *)
(* rows printed, of the accumulators, and of the response being handled,     *)
(* although the two mutexes are taken one after the other and the timer      *)
(* empties the accumulators in between.                                      *)
EverySampleInOneRow ==
  Cardinality({e \in Recorded : send_times[e] = None})
    = reported + stats.count + (IF reading.at = "measuring" THEN 1 ELSE 0)

(* README.stress:20-22: once the test has sent something, a dead server ends *)
(* it, whatever responses were on their way and whichever step is under way. *)
DeadServerEndsTest == (~up /\ sent_count > 0) ~> exited

(* agents/stress-trader.cpp:393: "Handle the case where no responses were    *)
(* received but we sent orders. [...] latency is treated as very high", that *)
(* is, the interval grows.                                                   *)
SilentStepBacksOff ==
  [][ timer = "store" /\ timer' = "idle" /\ row.sent > 0
        /\ row.measured = 0 /\ stats.count = 0 => interval' > interval ]_vars
=============================================================================
