-------------------------- MODULE LeaseClockProofs --------------------------
(***************************************************************************)
(* What the clocks of LeaseClock guarantee for every configuration.        *)
(*                                                                         *)
(* The inductive invariant bounds each clock by the phase the heartbeat    *)
(* loop is in: the doubt of the worker (Doubt) and the age of the row while*)
(* at most one heartbeat has failed (Fresh).  The age of a row that is not *)
(* recovered is bounded by where the other worker is in its cycle          *)
(* (Watched).                                                              *)
(***************************************************************************)
EXTENDS LeaseClock, TLAPS

H == HeartbeatInterval
C == LongestHeartbeat
R == LongestReport
A == LongestClaim

Calling == {"calling", "applied"}

(* How long the loop may have spent in its phase. *)
Paced ==
  /\ (loop = "sleep") => spent <= H
  /\ (loop \in Calling) => spent <= C
  /\ (loop = "reporting") => spent <= R

(* The time without a confirmation, counted from the last check that found *)
(* it short enough.                                                        *)
Doubt ==
  /\ (loop = "sleep") => 10 * confirmed <= 9 * StaleSeconds + 10 * spent
  /\ (loop \in Calling) => 10 * confirmed <= 9 * StaleSeconds + 10 * (H + spent)
  /\ (loop = "reporting") =>
       10 * confirmed <= 9 * StaleSeconds + 10 * (H + C + spent)
  /\ (exec = "stopping") =>
       10 * confirmed <= 9 * StaleSeconds + 10 * (H + C + R + dying)

(* While no heartbeat has failed the time is that of the phase; while at   *)
(* most one has, so is the age of a row that is not recovered.             *)
Fresh ==
  /\ (loop = "sleep" /\ missed = 0) => confirmed <= spent
  /\ (loop \in Calling /\ missed = 0) => confirmed <= H + spent
  /\ row # "recovered" =>
       /\ (loop = "applied") => age <= spent
       /\ (loop = "sleep" /\ missed = 0) => age <= A + spent
       /\ (loop \in Calling /\ missed = 0) => age <= A + H + spent
       /\ (loop = "sleep" /\ missed = 1) => age <= A + H + C + spent
       /\ (loop \in Calling /\ missed = 1) => age <= A + 2 * H + C + spent

(* With room for a failure, one failure neither loses the row nor stops the*)
(* execution.                                                              *)
Kept ==
  RoomForOneFailure =>
    /\ (row # "recovered" /\ loop \in {"reporting", "over"} /\ exec # "ended")
         => missed = 2
    /\ (row # "held" /\ exec = "running") => (missed = 2 /\ loop # "applied")

(* A round of the other worker, and as many as it has missed.              *)
Turn == Round(RecoveryInterval)

Base == Turn - LongestCycle - LongestRecovery

Missed == StaleSeconds + misses * Turn

(* The other worker has looked at the row when last_recovery says so, or   *)
(* has missed it, and looks again in time.                                 *)
Watched ==
  /\ (watch = "polling") => waited <= LongestCycle
  /\ (watch = "recovering") => waited <= LongestRecovery
  /\ (LongestClaim <= StaleSeconds /\ row # "recovered") =>
       /\ (watch = "polling") => age <= Missed + since
       /\ (watch = "polling") => age <= Missed + Base + waited
       /\ (watch = "recovering") => age <= Missed + Base + LongestCycle + waited

ClockInv == ClockTypeOK /\ Paced /\ Doubt /\ Fresh /\ Kept /\ Watched
-----------------------------------------------------------------------------
(* The larger of two numbers. *)
LEMMA MaxOfTwo ==
  ASSUME NEW a \in Nat, NEW b \in Nat
  PROVE  /\ Max({a, b}) \in {a, b}
         /\ Max({a, b}) >= a
         /\ Max({a, b}) >= b
<1>1. \E x \in {a, b} : \A y \in {a, b} : x >= y
  BY SMT
<1> QED
  BY <1>1, SMT DEF Max

(* The smaller of two numbers. *)
LEMMA MinOfTwo ==
  ASSUME NEW a \in Nat, NEW b \in Nat
  PROVE  Min({a, b}) \in {a, b}
<1>1. \E x \in {a, b} : \A y \in {a, b} : x <= y
  BY SMT
<1> QED
  BY <1>1, SMT DEF Min

(* The two intervals are numbers, and a heartbeat never follows at once. *)
LEMMA Intervals ==
  /\ HeartbeatInterval \in Nat \ {0}
  /\ RecoveryInterval \in Nat
  /\ 2 * ShortestRecovery <= StaleSeconds =>
       RecoveryInterval = StaleSeconds \div 2
<1>1. StaleSeconds \div 3 \in Nat /\ StaleSeconds \div 2 \in Nat
      /\ StaleSeconds <= 2 * (StaleSeconds \div 2) + 1
  BY ClockAssumption, SMT
<1>2. Min({LongestPause, StaleSeconds \div 3}) \in Nat
  BY <1>1, MinOfTwo, ClockAssumption
<1>3. HeartbeatInterval \in Nat /\ HeartbeatInterval >= ShortestPause
  BY <1>2, MaxOfTwo, ClockAssumption DEF HeartbeatInterval
<1>4. /\ RecoveryInterval \in {ShortestRecovery, StaleSeconds \div 2}
      /\ RecoveryInterval >= ShortestRecovery
      /\ RecoveryInterval >= StaleSeconds \div 2
  BY <1>1, MaxOfTwo, ClockAssumption DEF RecoveryInterval
<1> QED
  BY <1>1, <1>3, <1>4, ClockAssumption, SMT

(* So are the lengths of the calls; a claim is not shorter than a heartbeat*)
(* call.                                                                   *)
LEMMA Lengths ==
  /\ LongestHeartbeat \in Nat /\ LongestReport \in Nat /\ LongestClaim \in Nat
  /\ LongestHeartbeat <= LongestClaim
  /\ LongestRecovery \in Nat /\ LongestCycle \in Nat
<1> USE ClockAssumption
<1>1. 4 * Unreadable * Statement \in Nat /\ 3 * Recovered * Statement \in Nat
  BY SMT
<1>2. (5 + 4 * Unreadable) * Statement = 5 * Statement + 4 * Unreadable * Statement
  BY SMT
<1>3. (3 + 3 * Recovered) * Statement = 3 * Statement + 3 * Recovered * Statement
  BY SMT
<1>4. LongestClaim \in Nat /\ Checkout + 5 * Statement <= LongestClaim
  BY <1>1, <1>2, SMT DEF LongestClaim
<1>5. LongestRecovery \in Nat
  BY <1>1, <1>3, SMT DEF LongestRecovery
<1> QED
  BY <1>4, <1>5, SMT DEF LongestHeartbeat, LongestReport, LongestCycle

(* A round is its longest interval, a cycle and a recovery. *)
LEMMA Turns ==
  /\ Turn \in Nat /\ Base \in Nat
  /\ RecoveryInterval <= Base /\ LongestRecovery <= Base
  /\ Turn = Base + LongestCycle + LongestRecovery
<1>1. /\ Max({RecoveryInterval, LongestRecovery}) \in Nat
      /\ Max({RecoveryInterval, LongestRecovery}) >= RecoveryInterval
      /\ Max({RecoveryInterval, LongestRecovery}) >= LongestRecovery
  BY MaxOfTwo, Intervals, Lengths
<1> QED
  BY <1>1, Lengths, SMT DEF Turn, Base, Round

(* A round for every miss. *)
LEMMA Misses ==
  ASSUME NEW n \in Nat
  PROVE  n * Turn \in Nat /\ (n + 1) * Turn = n * Turn + Turn
<1> DEFINE t == Turn
<1>1. t \in Nat
  BY Turns
<1> HIDE DEF t
<1>2. n * t \in Nat /\ (n + 1) * t = n * t + t
  BY <1>1, SMT
<1> QED
  BY <1>2 DEF t
-----------------------------------------------------------------------------
LEMMA ClockInitInv == ClockInit => ClockInv
<1> SUFFICES ASSUME ClockInit PROVE ClockInv
  OBVIOUS
<1> USE Intervals, Lengths, Turns, ClockAssumption DEF ClockInit
<1>1. ClockTypeOK
  BY SMT DEF ClockTypeOK, Phases, WatchLimit
<1>2. Paced /\ Doubt /\ Fresh
  BY SMT DEF Paced, Doubt, Fresh, H, C, R, A, Calling
<1>3. Kept
  BY DEF Kept
<1>4. Missed = StaleSeconds
  BY <1>1, Misses, SMT DEF Missed
<1>5. Watched
  BY <1>1, <1>4, SMT DEF Watched, ClockTypeOK, WatchLimit
<1> QED
  BY <1>1, <1>2, <1>3, <1>5 DEF ClockInv

(* What a step of the heartbeat loop leaves of what is said of the watcher.*)
LEMMA LoopKeepsWatch ==
  ASSUME ClockInv, UNCHANGED watcher, row' = row,
         age' = age \/ (row = "held" /\ age' \in 0..LongestHeartbeat)
  PROVE  Watched'
<1> USE Intervals, Lengths, Turns, ClockAssumption
<1>1. Missed' = Missed /\ Missed \in Nat /\ StaleSeconds <= Missed
  BY Misses, SMT DEF Missed, watcher, ClockInv, ClockTypeOK
<1> QED
  BY <1>1, SMT DEF Watched, ClockInv, ClockTypeOK, watcher

(* What a step of the other worker leaves of what is said of the loop. *)
LEMMA WatchKeepsLoop ==
  ASSUME ClockInv, UNCHANGED <<age, heartbeat, execution>>,
         row = "recovered" => row' = "recovered"
  PROVE  Paced' /\ Doubt' /\ Fresh'
<1> USE DEF ClockInv, ClockTypeOK, heartbeat, execution
<1>1. Paced' /\ Doubt'
  BY DEF Paced, Doubt
<1> QED
  BY <1>1 DEF Fresh
-----------------------------------------------------------------------------
(* The steps of the heartbeat loop and of the execution.                   *)
LEMMA LoopNext ==
  ASSUME ClockInv,
         \/ Call \/ Apply \/ Owned \/ NotOwned \/ Raises \/ CancelExecution
         \/ ExecutionEnds \/ StopHeartbeat
  PROVE  ClockInv'
<1> USE Intervals, Lengths, ClockAssumption
        DEF ClockInv, ClockTypeOK, Paced, Doubt, Fresh, Kept, H, C, R, A,
            Calling, Phases, Goto, RoomForOneFailure
<1>0. Watched'
  <2>1. UNCHANGED watcher /\ row' = row
    BY DEF Call, Apply, Owned, NotOwned, Raises, CancelExecution,
           ExecutionEnds, StopHeartbeat
  <2>2. age' = age \/ (row = "held" /\ age' \in 0..LongestHeartbeat)
    BY SMT DEF Call, Apply, Owned, NotOwned, Raises, CancelExecution,
               ExecutionEnds, StopHeartbeat
  <2> QED
    BY <2>1, <2>2, LoopKeepsWatch
<1>1. CASE Call
  BY <1>0, <1>1, SMT DEF Call, execution, watcher
<1>2. CASE Apply
  BY <1>0, <1>2, SMT DEF Apply, execution, watcher
<1>3. CASE Owned
  BY <1>0, <1>3, SMT DEF Owned, execution, watcher
<1>4. CASE NotOwned
  BY <1>0, <1>4, SMT DEF NotOwned, execution, watcher
<1>5. CASE Raises
  <2>1. missed' = IF missed = 0 THEN 1 ELSE 2
    <3>1. Min({2, missed + 1}) \in {2, missed + 1}
          /\ Min({2, missed + 1}) <= 2 /\ Min({2, missed + 1}) <= missed + 1
      <4>1. \E x \in {2, missed + 1} : \A y \in {2, missed + 1} : x <= y
        BY SMT
      <4> QED
        BY <4>1, SMT DEF Min
    <3> QED
      BY <1>5, <3>1, SMT DEF Raises
  <2>2. CASE InDoubt
    BY <1>0, <1>5, <2>1, <2>2, SMT DEF Raises, InDoubt, execution, watcher
  <2>3. CASE ~InDoubt
    BY <1>0, <1>5, <2>1, <2>3, SMT DEF Raises, InDoubt, execution, watcher
  <2> QED
    BY <2>2, <2>3
<1>6. CASE CancelExecution
  BY <1>0, <1>6, SMT DEF CancelExecution, watcher
<1>7. CASE ExecutionEnds
  BY <1>0, <1>7, SMT DEF ExecutionEnds, heartbeat, watcher
<1>8. CASE StopHeartbeat
  BY <1>0, <1>8, SMT DEF StopHeartbeat, execution, watcher
<1> QED
  BY <1>1, <1>2, <1>3, <1>4, <1>5, <1>6, <1>7, <1>8
-----------------------------------------------------------------------------
(* The steps of the other worker.                                          *)
LEMMA WatchNext ==
  ASSUME ClockInv,
         Look \/ FindStale \/ RecoverStale \/ PassOver \/ RecoveryRaises
  PROVE  ClockInv'
<1> USE Intervals, Lengths, Turns, ClockAssumption
<1>1. UNCHANGED <<age, heartbeat, execution>>
  BY DEF Look, FindStale, RecoverStale, PassOver, RecoveryRaises
<1>2. row = "recovered" => row' = "recovered"
  BY DEF Look, FindStale, RecoverStale, PassOver, RecoveryRaises
<1>3. Paced' /\ Doubt' /\ Fresh'
  BY <1>1, <1>2, WatchKeepsLoop
<1>4. ClockTypeOK'
  <2> USE DEF ClockInv, ClockTypeOK, watcher, heartbeat, execution
  <2>1. row' \in {"held", "locked", "recovered"}
    BY DEF Look, FindStale, RecoverStale, PassOver, RecoveryRaises
  <2>2. watch' \in {"polling", "recovering"} /\ waited' \in Nat /\ since' \in Nat
    BY SMT DEF Look, FindStale, RecoverStale, PassOver, RecoveryRaises
  <2>3. misses' \in 0..MaxMisses
    BY SMT DEF Look, FindStale, RecoverStale, PassOver, RecoveryRaises, Miss
  <2> QED
    BY <1>1, <2>1, <2>2, <2>3
<1>5. Kept'
  <2>1. CASE FindStale
    BY <1>1, <2>1, SMT
       DEF FindStale, ClockInv, ClockTypeOK, Phases, Kept, Fresh, Paced,
           RoomForOneFailure, Calling, H, C, A, heartbeat, execution
  <2>2. CASE ~FindStale
    <3>1. row' # "held" => row # "held"
      BY <2>2 DEF Look, RecoverStale, PassOver, RecoveryRaises
    <3> QED
      BY <1>1, <1>2, <3>1 DEF ClockInv, Kept, RoomForOneFailure, heartbeat, execution
  <2> QED
    BY <2>1, <2>2
<1>6. Watched'
  <2> DEFINE m == misses * Turn
  <2>1. m \in Nat /\ Missed = StaleSeconds + m
    BY Misses DEF Missed, ClockInv, ClockTypeOK
  <2>2. misses' = misses => Missed' = Missed
    BY DEF Missed
  <2>3. misses' = misses + 1 => Missed' = StaleSeconds + m + Turn
    BY Misses, SMT DEF Missed, ClockInv, ClockTypeOK
  <2> HIDE DEF m
  <2> USE <1>1, <1>2, <2>1, <2>2, <2>3
          DEF ClockInv, ClockTypeOK, Watched, watcher
  <2>4. CASE Look
    BY <2>4, SMT DEF Look
  <2>5. CASE FindStale
    BY <2>5, SMT DEF FindStale
  <2>6. CASE RecoverStale
    BY <2>6, SMT DEF RecoverStale
  <2>7. CASE PassOver
    BY <2>7, SMT DEF PassOver, Miss
  <2>8. CASE RecoveryRaises
    BY <2>8, SMT DEF RecoveryRaises, Miss
  <2> QED
    BY <2>4, <2>5, <2>6, <2>7, <2>8
<1> QED
  BY <1>3, <1>4, <1>5, <1>6 DEF ClockInv
-----------------------------------------------------------------------------
(* Time passes. *)
LEMMA TickNext ==
  ASSUME ClockInv, Tick
  PROVE  ClockInv'
<1> USE Intervals, Lengths, Turns, ClockAssumption
        DEF ClockInv, ClockTypeOK, Phases, Tick, PhaseLimit
<1>1. ClockTypeOK'
  BY SMT
<1>2. Paced'
  BY SMT DEF Paced, H, C, R, Calling
<1>3. Doubt'
  BY SMT DEF Doubt, H, C, R, Calling
<1>4. Fresh'
  BY SMT DEF Fresh, H, C, A, Calling
<1>5. Kept'
  BY SMT DEF Kept, RoomForOneFailure
<1>6. Watched'
  <2>1. Missed' = Missed /\ Missed \in Nat
    BY Misses, SMT DEF Missed
  <2> QED
    BY <2>1, SMT DEF Watched, WatchLimit
<1> QED
  BY <1>1, <1>2, <1>3, <1>4, <1>5, <1>6

LEMMA ClockNextInv == ClockInv /\ [ClockNext]_clocks => ClockInv'
<1> SUFFICES ASSUME ClockInv, [ClockNext]_clocks PROVE ClockInv'
  OBVIOUS
<1>1. CASE UNCHANGED clocks
  BY <1>1 DEF clocks, heartbeat, execution, watcher, ClockInv, ClockTypeOK,
              Paced, Doubt, Fresh, Kept, Watched, Missed, RoomForOneFailure
<1> QED
  BY <1>1, LoopNext, WatchNext, TickNext DEF ClockNext
-----------------------------------------------------------------------------
(* The bounds on the clocks always hold. *)
THEOREM ClocksAreBounded == ClockSpec => []ClockInv
BY ClockInitInv, ClockNextInv, PTL DEF ClockSpec

(* With room for one failed heartbeat, a failure alone never makes a worker*)
(* give up a row that is still its own.                                    *)
THEOREM FailureIsTolerated ==
  RoomForOneFailure => (ClockSpec => []OneFailureIsTolerated)
<1>1. RoomForOneFailure /\ ClockInv => OneFailureIsTolerated
  BY DEF ClockInv, Kept, OneFailureIsTolerated
<1>2. CASE RoomForOneFailure
  <2>1. ClockInv => OneFailureIsTolerated
    BY <1>1, <1>2
  <2> QED
    BY <2>1, ClocksAreBounded, PTL
<1> QED
  BY <1>2

(* With room for one failed heartbeat, a run whose heartbeats never fail   *)
(* twice in a row is not taken from its live execution.                    *)
THEOREM HealthyRunIsKept ==
  RoomForOneFailure => (ClockSpec => []KeptWhileHealthy)
<1>1. RoomForOneFailure /\ ClockInv => KeptWhileHealthy
  BY DEF ClockInv, Kept, KeptWhileHealthy
<1>2. CASE RoomForOneFailure
  <2>1. ClockInv => KeptWhileHealthy
    BY <1>1, <1>2
  <2> QED
    BY <2>1, ClocksAreBounded, PTL
<1> QED
  BY <1>2

(* Whatever the configuration, an execution without a confirmed lease is   *)
(* over within LongestDoubt and the grace of its child.                    *)
THEOREM ExecutionStopsInTime == ClockSpec => []StopsInTime
<1>1. ClockInv => StopsInTime
  <2> SUFFICES ASSUME ClockInv PROVE StopsInTime
    OBVIOUS
  <2> DEFINE nine == (9 * StaleSeconds) \div 10
  <2>1. nine \in Nat /\ 10 * nine >= 9 * StaleSeconds - 9
    BY ClockAssumption, SMT
  <2> HIDE DEF nine
  <2>2. LongestDoubt = nine + HeartbeatInterval + LongestHeartbeat + LongestReport
    BY DEF LongestDoubt, nine
  <2> USE Intervals, Lengths, ClockAssumption
          DEF ClockInv, ClockTypeOK, Phases, Paced, Doubt, Calling, H, C, R
  <2>3. exec = "running" => confirmed <= LongestDoubt
    BY <2>1, <2>2, SMT
  <2>4. exec = "stopping" => confirmed <= LongestDoubt + Grace
    BY <2>1, <2>2, SMT
  <2> QED
    BY <2>3, <2>4 DEF StopsInTime
<1> QED
  BY <1>1, ClocksAreBounded, PTL

(* Where a claim cannot outlast StaleSeconds, the run of a dead worker is  *)
(* recovered in the time that the rounds of another worker take.           *)
THEOREM DeadWorkerIsNoticed ==
  LongestClaim <= StaleSeconds => (ClockSpec => []RecoveredInTime)
<1>1. LongestClaim <= StaleSeconds /\ ClockInv => RecoveredInTime
  <2> SUFFICES ASSUME LongestClaim <= StaleSeconds, ClockInv,
                      row # "recovered", 2 * ShortestRecovery <= StaleSeconds
               PROVE  age <= StaleSeconds + (misses + 1) * Round(StaleSeconds \div 2)
    BY DEF RecoveredInTime
  <2>1. Turn = Round(StaleSeconds \div 2)
    BY Intervals DEF Turn
  <2>2. Missed \in Nat /\ StaleSeconds + (misses + 1) * Turn = Missed + Turn
    <3> DEFINE m == misses * Turn
    <3>1. m \in Nat /\ (misses + 1) * Turn = m + Turn
      BY Misses DEF ClockInv, ClockTypeOK
    <3>2. Missed = StaleSeconds + m
      BY DEF Missed
    <3> HIDE DEF m
    <3> QED
      BY <3>1, <3>2, Turns, ClockAssumption, SMT
  <2>3. age <= Missed + Turn
    BY <2>2, Turns, Lengths, ClockAssumption, SMT
       DEF ClockInv, ClockTypeOK, Watched
  <2> QED
    BY <2>1, <2>2, <2>3
<1>2. CASE LongestClaim <= StaleSeconds
  <2>1. ClockInv => RecoveredInTime
    BY <1>1, <1>2
  <2> QED
    BY <2>1, ClocksAreBounded, PTL
<1> QED
  BY <1>2
=============================================================================
