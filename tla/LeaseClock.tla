----------------------------- MODULE LeaseClock -----------------------------
(***************************************************************************)
(* The clocks of one claimed run: the age of its heartbeat in the table,   *)
(* the heartbeat loop of the worker that executes it (_heartbeat_loop of   *)
(* worker.py) with calls that take their time or fail, the cancellation of *)
(* the execution, and the poll loop of another worker, which recovers.     *)
(*                                                                         *)
(* Time is counted in units that the configuration chooses.  The two sides *)
(* count from different events: the table from the moment the server took  *)
(* the statement (now() is its start, or that of its transaction), the     *)
(* worker from the moment it got the answer.                               *)
(*                                                                         *)
(* A call of the store is as long as its statements and its connection     *)
(* make it.  The code limits the statements only: what a call waits for a  *)
(* connection is a constant here, so the times below are those of a        *)
(* deployment in which that wait has a limit, whatever it is.              *)
(***************************************************************************)
EXTENDS Naturals, FiniteSetsExt

CONSTANTS
  StaleSeconds,     \* WORKER_STALE_SECONDS
  LongestPause,     \* the 30 seconds of process_claim
  ShortestPause,    \* its 1 second
  Statement,        \* one statement: command_timeout, 30 seconds
  Checkout,         \* getting a connection and giving it back, per call
  Grace,            \* 5 seconds after SIGTERM and 5 after SIGKILL
  PollSeconds,      \* WORKER_POLL_SECONDS
  ShortestRecovery, \* the 10 seconds of _poll_cycle
  Unreadable,       \* the rows a claim may quarantine first, at most 9
  Recovered,        \* the stale rows of a recovery, at most its batch size
  CycleWork,        \* what a cycle of the other worker executes and delivers
  MaxMisses         \* bound: the recoveries that leave the row where it is

ASSUME ClockAssumption ==
  /\ StaleSeconds \in Nat \ {0}
  /\ LongestPause \in Nat \ {0}
  /\ ShortestPause \in 1..LongestPause
  /\ {Statement, Checkout, Grace, PollSeconds, ShortestRecovery} \subseteq Nat
  /\ {Unreadable, CycleWork, MaxMisses} \subseteq Nat
  /\ Recovered \in Nat \ {0}

VARIABLES
  age,        \* of worker_heartbeat_at
  row,        \* whether the row is still this worker's
  loop,       \* what the heartbeat loop is doing
  spent,      \* for how long
  confirmed,  \* the time since last_confirmed
  missed,     \* how many heartbeats in a row have raised, 0, 1 or 2
  exec,       \* the execution
  dying,      \* how long its clean-up has taken
  watch,      \* what the other worker is doing
  waited,     \* for how long: since it last looked at its clock
  since,      \* the time since its last_recovery
  misses      \* how many of its recoveries have left the row where it is

heartbeat == <<loop, spent, confirmed, missed>>

execution == <<exec, dying>>

watcher == <<watch, waited, since, misses>>

clocks == <<age, row, heartbeat, execution, watcher>>
-----------------------------------------------------------------------------
(* The times of the code.                                                  *)

HeartbeatIntervalOfStale ==     \* broken: no room for a failed heartbeat
  Max({ShortestPause, StaleSeconds})

HeartbeatInterval ==
  Max({ShortestPause, Min({LongestPause, StaleSeconds \div 3})})

RecoveryIntervalOfStale == 2 * StaleSeconds     \* broken: * 2 for / 2

RecoveryInterval == Max({ShortestRecovery, StaleSeconds \div 2})

LongestHeartbeat == Checkout + Statement

(* add_event: BEGIN, SELECT FOR UPDATE, INSERT, COMMIT or ROLLBACK. *)
LongestReport == Checkout + 4 * Statement

(* claim: BEGIN, whose time now() is, UPDATE, SELECT FOR UPDATE, INSERT and *)
(* COMMIT, and four statements for each row it quarantines on the way.     *)
LongestClaim == Checkout + (5 + 4 * Unreadable) * Statement

(* recover_stale: BEGIN, SELECT, COMMIT, and three statements for each row.*)
LongestRecovery == Checkout + (3 + 3 * Recovered) * Statement

(* From one look at the clock to the next: claim_summary, claim (BEGIN,    *)
(* UPDATE, COMMIT), what they find, and the pause of the poll loop.        *)
LongestCycle == PollSeconds + 2 * Checkout + 4 * Statement + CycleWork

(* The longest time without a confirmed heartbeat in which the execution   *)
(* still runs: the last check just before 0.9 of StaleSeconds, a pause, a  *)
(* heartbeat and a report.                                                 *)
LongestDoubt ==
  (9 * StaleSeconds) \div 10 + HeartbeatInterval
    + LongestHeartbeat + LongestReport

(* From one recovery with this interval to the end of the next. *)
Round(interval) ==
  Max({interval, LongestRecovery}) + LongestCycle + LongestRecovery
-----------------------------------------------------------------------------
(* In a heartbeat call the loop is first "calling", and "applied" once the *)
(* server has executed the UPDATE.                                         *)
Phases == {"sleep", "calling", "applied", "reporting", "over"}

(* Every variable keeps to its values, and the execution outlives its      *)
(* heartbeats only while it is stopped.                                    *)
ClockTypeOK ==
  /\ age \in Nat
  /\ row \in {"held", "locked", "recovered"}
  /\ loop \in Phases
  /\ spent \in Nat
  /\ confirmed \in Nat
  /\ missed \in 0..2
  /\ exec \in {"running", "stopping", "ended"}
  /\ dying \in 0..Grace
  /\ watch \in {"polling", "recovering"}
  /\ waited \in Nat
  /\ since \in Nat
  /\ misses \in 0..MaxMisses
  /\ exec = "running" => loop # "over"
  /\ exec = "stopping" => loop = "over"

(* How long each of the two may stay where it is. *)
PhaseLimit ==
  CASE loop = "sleep" -> HeartbeatInterval
    [] loop \in {"calling", "applied"} -> LongestHeartbeat
    [] loop = "reporting" -> LongestReport
    [] loop = "over" -> 1

WatchLimit == IF watch = "polling" THEN LongestCycle ELSE LongestRecovery

(* The answer of the claim has arrived; the other worker is anywhere.      *)
ClockInit ==
  /\ age \in 0..LongestClaim
  /\ row = "held" /\ loop = "sleep" /\ spent = 0
  /\ confirmed = 0 /\ missed = 0
  /\ exec = "running" /\ dying = 0
  /\ watch \in {"polling", "recovering"} /\ waited \in 0..WatchLimit
  /\ since \in waited..(RecoveryInterval + waited)
  /\ misses = 0
-----------------------------------------------------------------------------
(* _heartbeat_loop.                                                        *)

Goto(phase) == loop' = phase /\ spent' = 0

Call ==
  /\ loop = "sleep" /\ spent = HeartbeatInterval
  /\ Goto("calling")
  /\ UNCHANGED <<age, row, confirmed, missed, execution, watcher>>

(* The server took the statement at some moment since it was sent, and may *)
(* have let it wait for the row's lock.                                    *)
Apply ==
  /\ loop = "calling" /\ row = "held"
  /\ age' \in 0..spent
  /\ loop' = "applied"
  /\ UNCHANGED <<row, spent, confirmed, missed, execution, watcher>>

Owned ==
  /\ loop = "applied"
  /\ Goto("sleep")
  /\ confirmed' = 0 /\ missed' = 0
  /\ UNCHANGED <<age, row, execution, watcher>>

NotOwned ==
  /\ loop = "calling" /\ row = "recovered"
  /\ Goto("reporting")
  /\ UNCHANGED <<age, row, confirmed, missed, execution, watcher>>

InDoubtAtOnce == TRUE           \* broken: an exception means a lost lease

InDoubtNever == FALSE           \* broken: every exception is waited out

(* time.monotonic() - last_confirmed >= stale_seconds * 0.9 *)
InDoubt == 10 * confirmed >= 9 * StaleSeconds

(* The call raises, after its UPDATE or without it. *)
Raises ==
  /\ loop \in {"calling", "applied"}
  /\ Goto(IF InDoubt THEN "reporting" ELSE "sleep")
  /\ missed' = Min({2, missed + 1})
  /\ UNCHANGED <<age, row, confirmed, execution, watcher>>

(* add_event returns or raises; only then is the execution cancelled. *)
CancelExecution ==
  /\ loop = "reporting"
  /\ Goto("over")
  /\ exec' = IF exec = "running" THEN "stopping" ELSE exec
  /\ UNCHANGED <<age, row, confirmed, missed, dying, watcher>>

(* The execution ends by itself or in its clean-up, or the process dies.   *)
(* (A child the dead process leaves behind has nobody to report to.)       *)
ExecutionEnds ==
  /\ exec # "ended"
  /\ exec' = "ended"
  /\ UNCHANGED <<age, row, heartbeat, dying, watcher>>

(* The loop beats on until process_claim has recorded the end and stops it,*)
(* or dies with the process.                                               *)
StopHeartbeat ==
  /\ exec = "ended" /\ loop # "over"
  /\ Goto("over")
  /\ UNCHANGED <<age, row, confirmed, missed, execution, watcher>>
-----------------------------------------------------------------------------
(* The other worker.  It looks at its clock once per cycle.                *)

Look ==
  /\ watch = "polling"
  /\ watch' = IF since >= RecoveryInterval THEN "recovering" ELSE "polling"
  /\ waited' = 0
  /\ UNCHANGED <<age, row, heartbeat, execution, since, misses>>

(* The SELECT finds the row stale at the BEGIN, which is now or earlier,   *)
(* and locks it.                                                           *)
FindStale ==
  /\ watch = "recovering" /\ row = "held"
  /\ age > StaleSeconds
  /\ row' = "locked"
  /\ UNCHANGED <<age, heartbeat, execution, watcher>>

(* The call returns: it has recovered the row, or had found it not stale   *)
(* when its transaction began.  last_recovery is the time of the look.     *)
RecoverStale ==
  /\ watch = "recovering"
  /\ row = "held" => age <= StaleSeconds + waited
  /\ row' = IF row = "locked" THEN "recovered" ELSE row
  /\ watch' = "polling" /\ waited' = 0 /\ since' = waited
  /\ UNCHANGED <<age, heartbeat, execution, misses>>

Miss == misses < MaxMisses /\ misses' = misses + 1

(* SKIP LOCKED passes over a row that another transaction has locked, or   *)
(* the batch is full of older rows.                                        *)
PassOver ==
  /\ watch = "recovering" /\ row = "held"
  /\ Miss
  /\ watch' = "polling" /\ waited' = 0 /\ since' = waited
  /\ UNCHANGED <<age, row, heartbeat, execution>>

(* The call raises, its transaction committed or rolled back, or a later   *)
(* call of the same cycle does: last_recovery keeps its value.             *)
RecoveryRaises ==
  /\ watch = "recovering"
  /\ Miss
  /\ row' \in IF row = "locked" THEN {"held", "recovered"} ELSE {row}
  /\ watch' = "polling" /\ waited' = 0
  /\ UNCHANGED <<age, heartbeat, execution, since>>
-----------------------------------------------------------------------------
(* Time.  It does not pass a moment at which somebody has to act.          *)
Tick ==
  /\ loop # "over" \/ exec # "ended" \/ row # "recovered"
  /\ spent < PhaseLimit
  /\ exec = "stopping" => dying < Grace
  /\ waited < WatchLimit
  /\ waited' = waited + 1 /\ since' = since + 1
  /\ age' = IF row = "recovered" THEN age ELSE age + 1
  /\ confirmed' = IF loop = "over" /\ exec = "ended" THEN confirmed
                                                     ELSE confirmed + 1
  /\ spent' = IF loop = "over" THEN spent ELSE spent + 1
  /\ dying' = IF exec = "stopping" THEN dying + 1 ELSE dying
  /\ UNCHANGED <<row, loop, missed, exec, watch, misses>>

ClockNext ==
  \/ Call \/ Apply \/ Owned \/ NotOwned \/ Raises \/ CancelExecution
  \/ ExecutionEnds \/ StopHeartbeat
  \/ Look \/ FindStale \/ RecoverStale \/ PassOver \/ RecoveryRaises
  \/ Tick

ClockSpec == ClockInit /\ [][ClockNext]_clocks
-----------------------------------------------------------------------------
(* Two pauses and two heartbeats, the first of which may have failed, on   *)
(* top of the age the row has when the claim is answered.                  *)
RoomForOneFailure ==
  StaleSeconds >= LongestClaim + 2 * HeartbeatInterval + 2 * LongestHeartbeat

(* "One transient heartbeat exception does not imply lease loss"           *)
(* (README.md:21): a worker gives up a row that is still its own only      *)
(* after two heartbeats in a row, or more, have failed.                    *)
OneFailureIsTolerated ==
  (loop \in {"reporting", "over"} /\ exec # "ended" /\ row = "held")
    => missed = 2

(* As long as no two heartbeats in a row fail, the row of a live execution *)
(* is not recovered, however late the answers come.  This needs            *)
(* RoomForOneFailure; config.py takes any positive number.                 *)
KeptWhileHealthy ==
  (row = "recovered" /\ exec = "running") => missed = 2

(* "Continuous uncertainty near the stale deadline cancels the child"      *)
(* (README.md:22): an execution that has lost its row or cannot tell is    *)
(* over within a fixed time of its last confirmed heartbeat.               *)
StopsInTime ==
  /\ (exec = "running") => confirmed <= LongestDoubt
  /\ (exec = "stopping") => confirmed <= LongestDoubt + Grace

(* The run of a dead worker is recovered within a round of the other       *)
(* worker, whose interval is half of StaleSeconds, and one more round for  *)
(* each recovery that raised or passed the row over.                       *)
RecoveredInTime ==
  (row # "recovered" /\ 2 * ShortestRecovery <= StaleSeconds)
    => age <= StaleSeconds + (misses + 1) * Round(StaleSeconds \div 2)
=============================================================================
