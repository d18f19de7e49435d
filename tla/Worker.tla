------------------------------- MODULE Worker -------------------------------
(***************************************************************************)
(* The worker processes of worker.py on top of RunStore: the poll loop, the*)
(* batch of claims, process_claim with its heartbeat task, cancellation by *)
(* a lost lease or by a stop request, calls that raise, and crashes.       *)
(*                                                                         *)
(* Each worker runs three asyncio tasks that matter: the cycle (pc), the   *)
(* heartbeat loop of the current claim (hb) and the execution (part of pc: *)
(* the cycle only waits for it).  They interleave at every await.          *)
(*                                                                         *)
(* A call of the store is an await with two sides: the transaction, and    *)
(* its answer.  A call may raise, or be cancelled, before its transaction  *)
(* or after it.  Raising calls are bounded by MaxFaults in all.            *)
(*                                                                         *)
(* A recovery takes every stale row up to its batch size.  Delivering      *)
(* summaries is one step here; SummaryOutbox has the detail.               *)
(***************************************************************************)
EXTENDS RunStore, FiniteSetsExt

CONSTANTS
  Reliable,          \* the workers that are neither stopped nor crash
  BatchSize,         \* WORKER_BATCH_SIZE
  MaxPollFailures,   \* WORKER_MAX_POLL_FAILURES
  MaxFaults          \* bound: how many calls of the store raise

ASSUME WorkerAssumption ==
  /\ Reliable \subseteq Workers
  /\ BatchSize \in Nat \ {0}
  /\ MaxPollFailures \in Nat \ {0}
  /\ MaxFaults \in Nat

VARIABLES
  worker,   \* worker[w]: the local state of process w
  faults    \* how many calls have raised so far

wvars == <<vars, worker, faults>>

Exited == {"stopped", "gone"}

(* Where the cycle is.  A name ending in -ed after a call means that its   *)
(* transaction is over and its answer is still on the way.                 *)
PC == Exited \cup
  {"poll", "recover", "summaries", "claim", "await", "cancelling",
   "succeed", "succeeded", "settle", "record", "recorded", "closing"}

(* is_retryable_failure of what was raised; a timeout is retryable. *)
Verdicts == {"retryable", "final"}

Local ==
  [pc : PC,
   hb : {"none", "beating", "lost", "done"},     \* lost: lease_lost.set()
   stop : {"no", "requested", "delivered"},      \* delivered: cycle.cancel()
   left : 0..BatchSize,                          \* claims left in the cycle
   fails : 0..MaxPollFailures - 1,               \* consecutive_failures
   recovery : BOOLEAN,                           \* a recovery is due
   verdict : Verdicts \cup {"none"},
   outcome : {"return", "error", "cancel"}]      \* how process_claim ends

WorkerTypeOK ==
  /\ TypeOK
  /\ worker \in [Workers -> Local]
  /\ faults \in 0..MaxFaults

WorkerInit ==
  /\ Init
  /\ worker = [w \in Workers |->
       [pc |-> "poll", hb |-> "none", stop |-> "no", left |-> 0, fails |-> 0,
        recovery |-> TRUE, verdict |-> "none", outcome |-> "return"]]
  /\ faults = 0
-----------------------------------------------------------------------------
At(w, places) == worker[w].pc \in places

Become(w, local) == worker' = [worker EXCEPT ![w] = local]

Goto(w, place) == Become(w, [worker[w] EXCEPT !.pc = place])

Quiet == UNCHANGED faults

Fault == faults < MaxFaults /\ faults' = faults + 1

LeaseLost(w) == worker[w].hb \in {"lost", "done"}

JobOf(w) == {lease \in leases : lease.worker = w}

(* The cycle ended: after a cancellation the loop breaks, else it polls.   *)
CycleOver(w, local) ==
  IF local.stop = "delivered"
  THEN [local EXCEPT !.pc = "stopped"]
  ELSE [local EXCEPT !.pc = "poll", !.fails = 0]

(* The cycle raised: next_poll_failure_count ends the process at the limit.*)
CycleFailedLate(w, local) ==             \* broken: > instead of >=
  IF local.stop = "delivered"
  THEN [local EXCEPT !.pc = "stopped"]
  ELSE IF local.fails + 1 > MaxPollFailures
  THEN [local EXCEPT !.pc = "gone"]
  ELSE [local EXCEPT !.pc = "poll", !.fails = @ + 1]

CycleFailed(w, local) ==
  IF local.stop = "delivered"
  THEN [local EXCEPT !.pc = "stopped"]
  ELSE IF local.fails + 1 >= MaxPollFailures
  THEN [local EXCEPT !.pc = "gone"]
  ELSE [local EXCEPT !.pc = "poll", !.fails = @ + 1]
-----------------------------------------------------------------------------
(* run_worker_loop and the calls of _poll_cycle outside process_claim.     *)

Poll(w) ==
  /\ At(w, {"poll"})
  /\ worker[w].stop = "no"
  /\ Goto(w, IF worker[w].recovery THEN "recover" ELSE "summaries")
  /\ UNCHANGED vars /\ Quiet

LeaveLoopUntested(w) == FALSE            \* broken: stop_event is not looked at

LeaveLoop(w) ==
  /\ At(w, {"poll"})
  /\ worker[w].stop # "no"
  /\ Goto(w, "stopped")
  /\ UNCHANGED vars /\ Quiet

StaleRuns == {r \in Runs : Stale(r)}

Batches == kSubset(Min({RecoveryBatch, Cardinality(StaleRuns)}), StaleRuns)

RecoverTx ==
  \/ \E batch \in Batches : RecoverStale(batch)
  \/ StaleRuns = {} /\ UNCHANGED vars

Recover(w) ==
  /\ At(w, {"recover"})
  /\ RecoverTx
  /\ Become(w, [worker[w] EXCEPT !.pc = "summaries", !.recovery = FALSE])
  /\ Quiet

(* failure_status raised ValueError for a row of the batch. *)
RecoverRaises(w) ==
  /\ At(w, {"recover"})
  /\ \E batch \in Batches : \E r \in batch :
       ~ValidCounters(runs[r].attempts, runs[r].max)
  /\ Become(w, CycleFailed(w, worker[w]))
  /\ UNCHANGED vars /\ Quiet

DeliverSummaries(w) ==
  /\ At(w, {"summaries"})
  /\ Become(w, [worker[w] EXCEPT !.pc = "claim", !.left = BatchSize])
  /\ UNCHANGED vars /\ Quiet

ClaimRun(w) ==
  /\ At(w, {"claim"})
  /\ worker[w].left > 0
  /\ \E r \in Runs, poison \in SUBSET Runs :
       /\ ClaimTx(w, r, poison)
       /\ leases' = leases \cup {LeaseOf(w, r)}
  /\ Become(w, [worker[w] EXCEPT !.pc = "await", !.hb = "beating",
                                 !.left = @ - 1])
  /\ Quiet

Undecodable == {r \in Runs : Claimable(r) /\ ~runs[r].valid}

NoClaimTx ==
  /\ \/ \A r \in Runs : Claimable(r) => ~runs[r].valid
     \/ Cardinality(Undecodable) >= MaxQuarantined
  /\ \/ \E poison \in
          kSubset(Min({MaxQuarantined, Cardinality(Undecodable)}), Undecodable) :
            ClaimNothing(poison)
     \/ Undecodable = {} /\ UNCHANGED vars

ClaimNone(w) ==
  /\ At(w, {"claim"})
  /\ worker[w].left > 0
  /\ NoClaimTx
  /\ Become(w, CycleOver(w, worker[w]))
  /\ Quiet

BatchDone(w) ==
  /\ At(w, {"claim"})
  /\ worker[w].left = 0
  /\ Become(w, CycleOver(w, worker[w]))
  /\ UNCHANGED vars /\ Quiet

(* What the call that the cycle waits for may already have committed when  *)
(* it raises or is cancelled.                                              *)
Committed(w) ==
  \/ At(w, {"recover"}) /\ RecoverTx
  \/ At(w, {"claim"}) /\ NoClaimTx
  \/ /\ At(w, {"claim"})
     /\ \E r \in Runs, poison \in SUBSET Runs : ClaimTx(w, r, poison)
     /\ UNCHANGED leases

CycleCallRaises(w) ==
  /\ At(w, {"recover", "summaries", "claim"})
  /\ worker[w].left > 0 \/ ~At(w, {"claim"})
  /\ Fault
  /\ Become(w, CycleFailed(w, worker[w]))
  /\ UNCHANGED vars \/ Committed(w)
-----------------------------------------------------------------------------
(* process_claim.                                                          *)

ExecutionReturns(w) ==
  /\ At(w, {"await"})
  /\ Goto(w, "succeed")
  /\ UNCHANGED vars /\ Quiet

ExecutionRaises(w) ==
  /\ At(w, {"await"})
  /\ \E verdict \in Verdicts :
       Become(w, [worker[w] EXCEPT !.pc = "record", !.verdict = verdict])
  /\ UNCHANGED vars /\ Quiet

(* CancelledError reaches the try block of process_claim: it is swallowed  *)
(* when the lease is known to be lost, whoever asked for the cancellation. *)
CancelOutcome(w) == IF LeaseLost(w) THEN "return" ELSE "cancel"

ExecutionCancelled(w) ==
  /\ At(w, {"cancelling"})
  /\ Become(w, [worker[w] EXCEPT !.pc = "closing", !.outcome = CancelOutcome(w)])
  /\ UNCHANGED vars /\ Quiet

SucceedCommits(w) ==
  /\ At(w, {"succeed"})
  /\ \E lease \in JobOf(w) :
       \/ Succeed(lease)
       \/ ~Owns(lease) /\ UNCHANGED vars
  /\ Goto(w, "succeeded")
  /\ Quiet

SucceedAnswers(w) ==
  /\ At(w, {"succeeded"})
  /\ Goto(w, "settle")
  /\ UNCHANGED vars /\ Quiet

(* succeed raises inside the try: the except clauses record a failure, even*)
(* when the success was committed.                                         *)
SucceedRaises(w) ==
  /\ At(w, {"succeed", "succeeded"})
  /\ Fault
  /\ \E verdict \in Verdicts :
       Become(w, [worker[w] EXCEPT !.pc = "record", !.verdict = verdict])
  /\ UNCHANGED vars

(* _stop_task(heartbeat_task) at the end of the try block. *)
Settle(w) ==
  /\ At(w, {"settle"})
  /\ Become(w, [worker[w] EXCEPT !.pc = "closing", !.outcome = "return"])
  /\ UNCHANGED vars /\ Quiet

RecordCommits(w) ==
  /\ At(w, {"record"})
  /\ \E lease \in JobOf(w) :
       \/ Fail(lease, worker[w].verdict = "retryable")
       \/ ~Owns(lease) /\ UNCHANGED vars
  /\ Become(w, [worker[w] EXCEPT !.pc = "recorded", !.verdict = "none"])
  /\ Quiet

RecordAnswers(w) ==
  /\ At(w, {"recorded"})
  /\ Become(w, [worker[w] EXCEPT !.pc = "closing", !.outcome = "return"])
  /\ UNCHANGED vars /\ Quiet

RecordRaises(w) ==
  /\ At(w, {"record", "recorded"})
  /\ Fault
  /\ Become(w, [worker[w] EXCEPT !.pc = "closing", !.outcome = "error",
                                 !.verdict = "none"])
  /\ UNCHANGED vars

(* The finally clause: both tasks are over, process_claim returns or       *)
(* raises, and the lease leaves the worker's hands.                        *)
AfterClaim(w, local) ==
  CASE local.outcome = "return" -> [local EXCEPT !.pc = "claim"]
    [] local.outcome = "error"  -> CycleFailed(w, local)
    [] local.outcome = "cancel" -> [local EXCEPT !.pc = "stopped"]

Close(w) ==
  /\ At(w, {"closing"})
  /\ \E lease \in JobOf(w) : Release(lease)
  /\ Become(w, [AfterClaim(w, worker[w]) EXCEPT !.hb = "none",
                                                !.outcome = "return"])
  /\ Quiet
-----------------------------------------------------------------------------
(* _heartbeat_loop.  It runs until _stop_task cancels it, so it still beats*)
(* while succeed or fail is in flight.                                     *)

Beating(w) ==
  /\ worker[w].hb = "beating"
  /\ At(w, {"await", "cancelling", "succeed", "succeeded", "record", "recorded"})

HeartbeatOwned(w) ==
  /\ Beating(w)
  /\ \E lease \in JobOf(w) : Heartbeat(lease)
  /\ UNCHANGED worker /\ Quiet

HeartbeatNotOwned(w) ==
  /\ Beating(w)
  /\ \E lease \in JobOf(w) : ~Owns(lease)
  /\ Become(w, [worker[w] EXCEPT !.hb = "lost"])
  /\ UNCHANGED vars /\ Quiet

(* Heartbeats have raised for 0.9 * stale_seconds: the lease counts as lost*)
(* though the row may still be owned.                                      *)
HeartbeatUncertain(w) ==
  /\ Beating(w)
  /\ Fault
  /\ Become(w, [worker[w] EXCEPT !.hb = "lost"])
  /\ UNCHANGED vars

(* execution_task.cancel(), which does nothing to a finished execution. *)
LossHandledForgetful(w) == [worker[w] EXCEPT !.hb = "done"]   \* broken

LossHandledAbandons(w) ==       \* broken: the cycle does not wait for the end
  [worker[w] EXCEPT !.hb = "done", !.pc = IF @ = "await" THEN "claim" ELSE @]

LossHandled(w) ==
  [worker[w] EXCEPT !.hb = "done",
                    !.pc = IF @ = "await" THEN "cancelling" ELSE @]

ReportLoss(w) ==
  /\ worker[w].hb = "lost"
  /\ \E lease \in JobOf(w) : AddLeaseLost(lease)
  /\ Become(w, LossHandled(w))
  /\ Quiet

(* add_event raises: the report is missing, the execution is cancelled. *)
ReportLossRaises(w) ==
  /\ worker[w].hb = "lost"
  /\ Fault
  /\ Become(w, LossHandled(w))
  /\ UNCHANGED vars
-----------------------------------------------------------------------------
(* stop_event: _poll_cycle_or_stop cancels the cycle once, at the await it *)
(* has reached, and then waits for it to end.                              *)

RequestStop(w) ==
  /\ w \notin Reliable
  /\ ~At(w, Exited)
  /\ worker[w].stop = "no"
  /\ Become(w, [worker[w] EXCEPT !.stop = "requested"])
  /\ UNCHANGED vars /\ Quiet

Interrupted(w) ==
  [worker[w] EXCEPT
     !.stop = "delivered",
     !.verdict = "none",
     !.pc = CASE At(w, {"await", "cancelling"}) -> "cancelling"
              [] At(w, {"recover", "summaries", "claim"}) -> "stopped"
              [] OTHER -> "closing",
     !.outcome = IF At(w, {"succeed", "succeeded", "settle"})
                 THEN CancelOutcome(w)
                 ELSE IF At(w, {"record", "recorded", "closing"})
                 THEN "cancel" ELSE @]

DeliverStop(w) ==
  /\ worker[w].stop = "requested"
  /\ ~At(w, Exited \cup {"poll"})
  /\ Become(w, Interrupted(w))
  /\ UNCHANGED vars \/ Committed(w)
  /\ Quiet

Crash(w) ==
  /\ w \notin Reliable
  /\ ~At(w, Exited)
  /\ Become(w, [worker[w] EXCEPT !.pc = "gone", !.hb = "none",
                                 !.verdict = "none"])
  /\ leases' = leases \ JobOf(w)
  /\ UNCHANGED <<runs, events, outbox>>
  /\ Quiet

(* max(10, stale_seconds / 2) have passed since last_recovery. *)
RecoveryFallsDue(w) ==
  /\ At(w, {"poll"})
  /\ ~worker[w].recovery
  /\ Become(w, [worker[w] EXCEPT !.recovery = TRUE])
  /\ UNCHANGED vars /\ Quiet
-----------------------------------------------------------------------------
(* What the cycle of a worker does by itself. *)
CycleStep(w) ==
  \/ Poll(w) \/ LeaveLoop(w)
  \/ Recover(w) \/ RecoverRaises(w)
  \/ DeliverSummaries(w)
  \/ ClaimRun(w) \/ ClaimNone(w) \/ BatchDone(w)
  \/ ExecutionReturns(w) \/ ExecutionRaises(w) \/ ExecutionCancelled(w)
  \/ SucceedCommits(w) \/ SucceedAnswers(w) \/ Settle(w)
  \/ RecordCommits(w) \/ RecordAnswers(w)
  \/ Close(w)

HeartbeatStep(w) ==
  \/ HeartbeatOwned(w)
  \/ HeartbeatNotOwned(w)
  \/ ReportLoss(w)

FaultStep(w) ==
  \/ CycleCallRaises(w)
  \/ SucceedRaises(w)
  \/ RecordRaises(w)
  \/ HeartbeatUncertain(w)
  \/ ReportLossRaises(w)
  \/ Crash(w)

Environment ==
  /\ \/ \E r \in Runs, max \in 1..MaxAttempts, valid \in BOOLEAN :
          Enqueue(r, max, valid)
     \/ \E r \in Runs : BecomeDue(r) \/ BecomeStale(r)
  /\ UNCHANGED <<worker, faults>>

WorkerNext ==
  \/ \E w \in Workers :
       \/ CycleStep(w) \/ HeartbeatStep(w) \/ FaultStep(w)
       \/ RequestStop(w) \/ DeliverStop(w)
       \/ RecoveryFallsDue(w)
  \/ Environment

(* No live claim keeps the heartbeat of a running row fresh. *)
Abandoned(r) ==
  /\ runs[r].status = "running"
  /\ \A lease \in leases : lease.run = r => ~Owns(lease)

(* An execution ends within its timeout_s, every call of the store ends    *)
(* within command_timeout, a stop reaches the cycle, and time passes: a    *)
(* worker that polls forever comes to a poll with a recovery due (strong   *)
(* fairness, since the interval is only looked at between cycles).         *)
WorkerFairness ==
  /\ \A w \in Workers :
       /\ WF_wvars(CycleStep(w))
       /\ WF_wvars(DeliverStop(w))
       /\ SF_wvars(RecoveryFallsDue(w))
  /\ \A r \in Runs :
       /\ WF_wvars(BecomeDue(r) /\ UNCHANGED <<worker, faults>>)
       /\ WF_wvars(Abandoned(r) /\ BecomeStale(r) /\ UNCHANGED <<worker, faults>>)

WorkerSpec == WorkerInit /\ [][WorkerNext]_wvars /\ WorkerFairness
-----------------------------------------------------------------------------
(* What the workers promise together.                                      *)

(* The workers use the store as RunStore says: in particular a worker has  *)
(* at most one claim in its hands, which is what makes fencing by worker id*)
(* sound.                                                                  *)
ImplementsStore == Spec

(* Once the heartbeat loop has declared the lease lost and returned, the   *)
(* execution of that claim no longer runs.                                 *)
LostLeaseStopsExecution ==
  \A w \in Workers : worker[w].hb = "done" => ~At(w, {"await"})

(* A run that has attempts left is given up only by the worker at its very *)
(* attempt, whose execution raised something that is not retryable; never  *)
(* by a recovery, a timeout or a worker that lost the run.                 *)
GivenUpOnlyByVerdict ==
  [][\A r \in Runs :
       /\ runs[r].status = "running"
       /\ runs'[r].status = "failed"
       /\ runs[r].attempts < runs[r].max
       => \E w \in Workers :
            /\ At(w, {"record"})
            /\ worker[w].verdict = "final"
            /\ \E lease \in JobOf(w) :
                 lease.run = r /\ lease.attempt = runs[r].attempts]_wvars

(* Accepted work is not lost: whatever workers crash, stop or lose their   *)
(* lease, an accepted run is finished, as long as one worker stays.        *)
EveryRunEnds ==
  \A r \in Runs : runs[r].status = "queued" ~> runs[r].status \in Terminal

(* A worker that is asked to stop leaves its loop. *)
StopIsHonoured ==
  \A w \in Workers : worker[w].stop # "no" ~> At(w, Exited)
-----------------------------------------------------------------------------
(* What README.md says and the code does not do.                           *)

(* "Graceful shutdown stops polling, cancels the active run": a worker     *)
(* whose cycle was cancelled takes no other run.                           *)
NoClaimAfterStop ==
  [][\A lease \in leases' \ leases :
       worker[lease.worker].stop # "delivered"]_wvars

(* "Stale running rows are recovered and retried". *)
StaleRunIsRecovered ==
  \A r \in Runs : Stale(r) ~> runs[r].status # "running"
=============================================================================
