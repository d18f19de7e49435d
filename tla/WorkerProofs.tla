---------------------------- MODULE WorkerProofs ----------------------------
(***************************************************************************)
(* The workers use the store as RunStore says, for any number of runs and  *)
(* workers and any values of the bounds: whatever is proved of the store   *)
(* in RunStoreProofs is true of the worker processes.                      *)
(*                                                                         *)
(* The argument.  Every await of worker.py with a transaction behind it is *)
(* a step of the store, if a worker that claims has no claim in its hands. *)
(* That it has none is a matter of places: outside process_claim, and      *)
(* after it, a worker holds no lease (HandsInv).  With that, and the       *)
(* invariant Inv of the store, one step of a worker changes its own state  *)
(* and its own leases only.                                                *)
(***************************************************************************)
EXTENDS Worker, RunStoreProofs

(* Where a worker has no claim in its hands. *)
Outside == Exited \cup {"poll", "recover", "summaries", "claim"}

PlaceInv(w, local) ==
  /\ local \in Local
  /\ local.hb = "done" => local.pc # "await"
  /\ local.pc = "record" => local.verdict \in Verdicts

HandsInv(w) == At(w, Outside) => \A lease \in leases : lease.worker # w

WorkerInv ==
  /\ Inv
  /\ worker = [w \in Workers |-> worker[w]]
  /\ faults \in 0..MaxFaults
  /\ \A w \in Workers : PlaceInv(w, worker[w]) /\ HandsInv(w)

(* What a step of worker w does to the others. *)
Alone(w, local) ==
  /\ Become(w, local)
  /\ faults' \in 0..MaxFaults
  /\ \A lease \in leases' \ leases : lease.worker = w

-----------------------------------------------------------------------------
(* The invariant after a step of one worker that is a step of the store. *)
LEMMA StepKeeps ==
  ASSUME WorkerInv, NEW w \in Workers, NEW local, Alone(w, local),
         [Next]_vars, PlaceInv(w, local),
         local.pc \in Outside => \A lease \in leases' : lease.worker # w
  PROVE  WorkerInv'
<1>1. Inv'
  BY NextInv DEF WorkerInv
<1>2. /\ worker' = [v \in Workers |-> worker'[v]]
      /\ worker'[w] = local
      /\ \A v \in Workers \ {w} : worker'[v] = worker[v]
  BY DEF WorkerInv, Alone, Become
<1>3. ASSUME NEW v \in Workers PROVE PlaceInv(v, worker'[v])
  BY <1>2 DEF WorkerInv, PlaceInv
<1>4. ASSUME NEW v \in Workers PROVE HandsInv(v)'
  <2>1. CASE v = w
    BY <1>2, <2>1 DEF HandsInv, At
  <2>2. CASE v # w
    <3> SUFFICES ASSUME worker[v].pc \in Outside, NEW lease \in leases'
                 PROVE  lease.worker # v
      BY <1>2, <2>2 DEF HandsInv, At
    <3>1. CASE lease \in leases
      BY <3>1 DEF WorkerInv, HandsInv, At
    <3>2. CASE lease \notin leases
      BY <2>2, <3>2 DEF Alone
    <3> QED
      BY <3>1, <3>2
  <2> QED
    BY <2>1, <2>2
<1> QED
  BY <1>1, <1>2, <1>3, <1>4 DEF WorkerInv, Alone
-----------------------------------------------------------------------------
(* The transactions of the cycle are steps of the store, or change nothing.*)
LEMMA RecoverTxIsStep ==
  ASSUME RecoverTx
  PROVE  [Next]_vars /\ UNCHANGED leases
<1>1. CASE UNCHANGED vars
  BY <1>1 DEF vars
<1>2. CASE \E batch \in Batches : RecoverStale(batch)
  <2>1. PICK batch \in Batches : RecoverStale(batch)
    BY <1>2
  <2>2. batch \in SUBSET Runs
    BY DEF Batches, kSubset, StaleRuns
  <2> QED
    BY <2>1, <2>2 DEF Next, RecoverStale
<1> QED
  BY <1>1, <1>2 DEF RecoverTx

LEMMA NoClaimTxIsStep ==
  ASSUME NoClaimTx
  PROVE  [Next]_vars /\ UNCHANGED leases
<1>1. CASE UNCHANGED vars
  BY <1>1 DEF vars
<1>2. CASE \E poison \in
             kSubset(Min({MaxQuarantined, Cardinality(Undecodable)}), Undecodable) :
               ClaimNothing(poison)
  <2>1. PICK poison \in
             kSubset(Min({MaxQuarantined, Cardinality(Undecodable)}), Undecodable) :
               ClaimNothing(poison)
    BY <1>2
  <2>2. poison \in SUBSET Runs
    BY DEF kSubset, Undecodable
  <2> QED
    BY <2>1, <2>2 DEF Next, ClaimStep, ClaimNothing
<1> QED
  BY <1>1, <1>2 DEF NoClaimTx

(* A call that has committed although it raised or was cancelled. *)
LEMMA CommittedIsStep ==
  ASSUME WorkerInv, NEW w \in Workers, UNCHANGED vars \/ Committed(w)
  PROVE  [Next]_vars /\ UNCHANGED leases
<1>1. CASE UNCHANGED vars
  BY <1>1 DEF vars
<1>2. CASE At(w, {"recover"}) /\ RecoverTx
  BY <1>2, RecoverTxIsStep
<1>3. CASE At(w, {"claim"}) /\ NoClaimTx
  BY <1>3, NoClaimTxIsStep
<1>4. CASE /\ At(w, {"claim"})
           /\ \E r \in Runs, poison \in SUBSET Runs : ClaimTx(w, r, poison)
           /\ UNCHANGED leases
  <2>1. Idle(w)
    BY <1>4 DEF WorkerInv, HandsInv, At, Outside, Idle
  <2>2. PICK r \in Runs, poison \in SUBSET Runs : ClaimTx(w, r, poison)
    BY <1>4
  <2>3. ClaimLost(w, r, poison)
    BY <1>4, <2>1, <2>2 DEF ClaimLost
  <2> QED
    BY <1>4, <2>3 DEF Next, ClaimStep
<1> QED
  BY <1>1, <1>2, <1>3, <1>4 DEF Committed

(* What a worker does with the claim it has is a step of the store. *)
LEMMA LeaseStepIsStep ==
  ASSUME NEW w \in Workers, NEW lease \in JobOf(w), LeaseStep(lease)
  PROVE  Next
BY DEF JobOf, Next
-----------------------------------------------------------------------------
(* How a cycle goes on, after its end and after a call that raised. *)
LEMMA CycleEnds ==
  ASSUME NEW w, NEW local \in Local
  PROVE  /\ CycleOver(w, local) \in Local
         /\ CycleOver(w, local).pc \in {"stopped", "poll"}
         /\ CycleFailed(w, local) \in Local
         /\ CycleFailed(w, local).pc \in {"stopped", "gone", "poll"}
<1>1. 0 \in 0..MaxPollFailures - 1
  BY WorkerAssumption
<1>2. ~(local.fails + 1 >= MaxPollFailures) => local.fails + 1 \in 0..MaxPollFailures - 1
  BY WorkerAssumption DEF Local
<1>3. {"stopped", "gone", "poll"} \subseteq PC
  BY DEF PC, Exited
<1> QED
  BY <1>1, <1>2, <1>3 DEF CycleOver, CycleFailed, Local

(* A worker that moves without touching its claim, and keeps out of the    *)
(* store or does one transaction of it.                                    *)
LEMMA MovesOn ==
  ASSUME WorkerInv, NEW w \in Workers, NEW local, Become(w, local),
         [Next]_vars, UNCHANGED leases, Quiet \/ Fault,
         PlaceInv(w, local),
         local.pc \in Outside => At(w, Outside)
  PROVE  WorkerInv'
<1>1. faults' \in 0..MaxFaults
  BY WorkerAssumption DEF WorkerInv, Quiet, Fault
<1>2. Alone(w, local)
  BY <1>1 DEF Alone
<1>3. local.pc \in Outside => \A lease \in leases' : lease.worker # w
  BY DEF WorkerInv, HandsInv
<1> QED
  BY <1>2, <1>3, StepKeeps

(* No step of the store at all is one that leaves its variables alone. *)
LEMMA StoreStutters ==
  ASSUME UNCHANGED vars
  PROVE  [Next]_vars /\ UNCHANGED leases
BY DEF vars

(* The places of the loop and of the calls before a claim. *)
LEMMA LoopKeeps ==
  ASSUME WorkerInv, NEW w \in Workers,
         \/ Poll(w) \/ LeaveLoop(w) \/ Recover(w) \/ RecoverRaises(w)
         \/ DeliverSummaries(w) \/ ClaimNone(w) \/ BatchDone(w)
         \/ CycleCallRaises(w) \/ RecoveryFallsDue(w)
  PROVE  WorkerInv' /\ [Next]_vars
<1> DEFINE l == worker[w]
<1>1. l \in Local /\ PlaceInv(w, l)
  BY DEF WorkerInv, PlaceInv
<1>2. PICK local :
        /\ Become(w, local)
        /\ local \in Local
        /\ local.pc \in {"poll", "recover", "summaries", "claim", "stopped", "gone"}
  <2>1. CASE Poll(w) \/ LeaveLoop(w)
    <3>1. PICK place \in {"recover", "summaries", "stopped"} : Goto(w, place)
      BY <2>1 DEF Poll, LeaveLoop
    <3>2. [l EXCEPT !.pc = place] \in Local /\ [l EXCEPT !.pc = place].pc = place
      BY <1>1 DEF Local, PC, Exited
    <3> QED
      BY <3>1, <3>2 DEF Goto
  <2>2. CASE Recover(w)
    <3> DEFINE n == [l EXCEPT !.pc = "summaries", !.recovery = FALSE]
    <3>1. n \in Local /\ n.pc = "summaries"
      BY <1>1 DEF Local, PC
    <3> QED
      BY <2>2, <3>1 DEF Recover
  <2>3. CASE RecoverRaises(w) \/ CycleCallRaises(w)
    <3>1. Become(w, CycleFailed(w, l))
      BY <2>3 DEF RecoverRaises, CycleCallRaises
    <3> QED
      BY <1>1, <3>1, CycleEnds
  <2>4. CASE DeliverSummaries(w)
    <3> DEFINE n == [l EXCEPT !.pc = "claim", !.left = BatchSize]
    <3>0. BatchSize \in 0..BatchSize
      BY WorkerAssumption
    <3>1. n \in Local /\ n.pc = "claim"
      BY <1>1, <3>0 DEF Local, PC
    <3> QED
      BY <2>4, <3>1 DEF DeliverSummaries
  <2>5. CASE ClaimNone(w) \/ BatchDone(w)
    <3>1. Become(w, CycleOver(w, l))
      BY <2>5 DEF ClaimNone, BatchDone
    <3> QED
      BY <1>1, <3>1, CycleEnds
  <2>6. CASE RecoveryFallsDue(w)
    <3> DEFINE n == [l EXCEPT !.recovery = TRUE]
    <3>1. n \in Local /\ n.pc = "poll"
      BY <1>1, <2>6 DEF Local, RecoveryFallsDue, At
    <3> QED
      BY <2>6, <3>1 DEF RecoveryFallsDue
  <2> QED
    BY <2>1, <2>2, <2>3, <2>4, <2>5, <2>6
<1>3. At(w, Outside)
  BY DEF Poll, LeaveLoop, Recover, RecoverRaises, DeliverSummaries, ClaimNone,
         BatchDone, CycleCallRaises, RecoveryFallsDue, At, Outside
<1>4. [Next]_vars /\ UNCHANGED leases
  <2>1. CASE Recover(w)
    BY <2>1, RecoverTxIsStep DEF Recover
  <2>2. CASE ClaimNone(w)
    BY <2>2, NoClaimTxIsStep DEF ClaimNone
  <2>3. CASE CycleCallRaises(w)
    BY <2>3, CommittedIsStep DEF CycleCallRaises
  <2>4. CASE \/ Poll(w) \/ LeaveLoop(w) \/ RecoverRaises(w) \/ DeliverSummaries(w)
             \/ BatchDone(w) \/ RecoveryFallsDue(w)
    <3>1. UNCHANGED vars
      BY <2>4 DEF Poll, LeaveLoop, RecoverRaises, DeliverSummaries, BatchDone,
                  RecoveryFallsDue
    <3> QED
      BY <3>1, StoreStutters
  <2> QED
    BY <2>1, <2>2, <2>3, <2>4
<1>5. Quiet \/ Fault
  BY DEF Poll, LeaveLoop, Recover, RecoverRaises, DeliverSummaries, ClaimNone,
         BatchDone, CycleCallRaises, RecoveryFallsDue
<1>6. PlaceInv(w, local)
  BY <1>2 DEF PlaceInv
<1> QED
  BY <1>2, <1>3, <1>4, <1>5, <1>6, MovesOn

(* A claim puts one lease into hands that were empty. *)
LEMMA ClaimRunKeeps ==
  ASSUME WorkerInv, NEW w \in Workers, ClaimRun(w)
  PROVE  WorkerInv' /\ [Next]_vars
<1> DEFINE l == worker[w]
           n == [l EXCEPT !.pc = "await", !.hb = "beating", !.left = @ - 1]
<1>1. l \in Local /\ l.left > 0 /\ Become(w, n)
  BY DEF WorkerInv, PlaceInv, ClaimRun
<1>2. Idle(w)
  BY DEF WorkerInv, HandsInv, ClaimRun, At, Outside, Idle
<1>3. PICK r \in Runs, poison \in SUBSET Runs :
        ClaimTx(w, r, poison) /\ leases' = leases \cup {LeaseOf(w, r)}
  BY DEF ClaimRun
<1>4. Next
  BY <1>2, <1>3 DEF Next, ClaimStep, Claim
<1>5. n \in Local /\ n.pc = "await" /\ n.hb = "beating"
  <2>1. l.left - 1 \in 0..BatchSize
    BY <1>1, WorkerAssumption DEF Local
  <2> QED
    BY <1>1, <2>1 DEF Local, PC
<1> HIDE DEF n
<1>6. PlaceInv(w, n) /\ n.pc \notin Outside
  BY <1>5 DEF PlaceInv, Outside, Exited
<1>7. faults' \in 0..MaxFaults
  BY DEF WorkerInv, ClaimRun, Quiet
<1>8. Alone(w, n)
  BY <1>1, <1>3, <1>7 DEF Alone, LeaseOf
<1> QED
  BY <1>4, <1>6, <1>8, StepKeeps
-----------------------------------------------------------------------------
(* The places inside process_claim where no transaction is made: the       *)
(* answers, and the calls that raise.                                      *)
LEMMA AnswersKeep ==
  ASSUME WorkerInv, NEW w \in Workers,
         \/ ExecutionReturns(w) \/ ExecutionRaises(w) \/ ExecutionCancelled(w)
         \/ SucceedAnswers(w) \/ SucceedRaises(w) \/ Settle(w)
         \/ RecordAnswers(w) \/ RecordRaises(w)
  PROVE  WorkerInv' /\ [Next]_vars
<1> DEFINE l == worker[w]
<1>1. l \in Local /\ PlaceInv(w, l)
  BY DEF WorkerInv, PlaceInv
<1>2. PICK local : /\ Become(w, local)
                   /\ PlaceInv(w, local)
                   /\ local.pc \notin Outside
  <2>1. CASE ExecutionReturns(w) \/ SucceedAnswers(w)
    <3>1. PICK place \in {"succeed", "settle"} : Goto(w, place)
      BY <2>1 DEF ExecutionReturns, SucceedAnswers
    <3> DEFINE n == [l EXCEPT !.pc = place]
    <3>2. n \in Local /\ n.pc = place
      BY <1>1 DEF Local, PC
    <3>3. Become(w, n)
      BY <3>1 DEF Goto
    <3> HIDE DEF n
    <3>4. PlaceInv(w, n) /\ n.pc \notin Outside
      BY <3>2 DEF PlaceInv, Outside, Exited
    <3> QED
      BY <3>3, <3>4
  <2>2. CASE ExecutionRaises(w) \/ SucceedRaises(w)
    <3>1. PICK verdict \in Verdicts :
            Become(w, [l EXCEPT !.pc = "record", !.verdict = verdict])
      BY <2>2 DEF ExecutionRaises, SucceedRaises
    <3> DEFINE n == [l EXCEPT !.pc = "record", !.verdict = verdict]
    <3>2. n \in Local /\ n.pc = "record" /\ n.verdict = verdict
      BY <1>1 DEF Local, PC
    <3>3. Become(w, n)
      BY <3>1
    <3> HIDE DEF n
    <3>4. PlaceInv(w, n) /\ n.pc \notin Outside
      BY <3>2 DEF PlaceInv, Outside, Exited
    <3> QED
      BY <3>3, <3>4
  <2>3. CASE \/ ExecutionCancelled(w) \/ Settle(w)
             \/ RecordAnswers(w) \/ RecordRaises(w)
    <3>1. PICK outcome \in {"return", "error", "cancel"},
               verdict \in {l.verdict, "none"} :
            Become(w, [l EXCEPT !.pc = "closing", !.outcome = outcome,
                                !.verdict = verdict])
      <4>1. CASE ExecutionCancelled(w) \/ Settle(w) \/ RecordAnswers(w)
        <5>1. PICK outcome \in {"return", "error", "cancel"} :
                Become(w, [l EXCEPT !.pc = "closing", !.outcome = outcome])
          BY <4>1 DEF ExecutionCancelled, CancelOutcome, Settle, RecordAnswers
        <5>2. [l EXCEPT !.pc = "closing", !.outcome = outcome]
                = [l EXCEPT !.pc = "closing", !.outcome = outcome,
                            !.verdict = l.verdict]
          BY <1>1 DEF Local
        <5> QED
          BY <5>1, <5>2
      <4>2. CASE RecordRaises(w)
        BY <4>2 DEF RecordRaises
      <4> QED
        BY <2>3, <4>1, <4>2
    <3> DEFINE n == [l EXCEPT !.pc = "closing", !.outcome = outcome,
                              !.verdict = verdict]
    <3>2. n \in Local /\ n.pc = "closing"
      BY <1>1 DEF Local, PC
    <3>3. Become(w, n)
      BY <3>1
    <3> HIDE DEF n
    <3>4. PlaceInv(w, n) /\ n.pc \notin Outside
      BY <3>2 DEF PlaceInv, Outside, Exited
    <3> QED
      BY <3>3, <3>4
  <2> QED
    BY <2>1, <2>2, <2>3
<1>3. UNCHANGED vars /\ (Quiet \/ Fault)
  BY DEF ExecutionReturns, ExecutionRaises, ExecutionCancelled, SucceedAnswers,
         SucceedRaises, Settle, RecordAnswers, RecordRaises
<1>4. [Next]_vars /\ UNCHANGED leases
  BY <1>3, StoreStutters
<1> QED
  BY <1>2, <1>3, <1>4, MovesOn

(* The completions of a claim, which leave the lease in the worker's hands *)
(* until the claim is closed.                                              *)
LEMMA CompletionsKeep ==
  ASSUME WorkerInv, NEW w \in Workers, SucceedCommits(w) \/ RecordCommits(w)
  PROVE  WorkerInv' /\ [Next]_vars
<1> DEFINE l == worker[w]
<1>1. l \in Local /\ PlaceInv(w, l)
  BY DEF WorkerInv, PlaceInv
<1>2. [Next]_vars /\ UNCHANGED leases
  <2>1. PICK lease \in JobOf(w) :
          \/ Succeed(lease)
          \/ Fail(lease, l.verdict = "retryable")
          \/ UNCHANGED vars
    BY DEF SucceedCommits, RecordCommits
  <2>2. CASE Succeed(lease)
    BY <2>2, LeaseStepIsStep DEF LeaseStep, Succeed
  <2>3. CASE Fail(lease, l.verdict = "retryable")
    <3>1. PICK retryable \in BOOLEAN : Fail(lease, retryable)
      BY <2>3
    <3> QED
      BY <3>1, LeaseStepIsStep DEF LeaseStep, Fail
  <2> QED
    BY <2>1, <2>2, <2>3, StoreStutters
<1>3. PICK local : /\ Become(w, local)
                   /\ PlaceInv(w, local)
                   /\ local.pc \notin Outside
  <2>1. CASE SucceedCommits(w)
    <3> DEFINE n == [l EXCEPT !.pc = "succeeded"]
    <3>1. n \in Local /\ n.pc = "succeeded"
      BY <1>1 DEF Local, PC
    <3>2. Become(w, n)
      BY <2>1 DEF SucceedCommits, Goto
    <3> HIDE DEF n
    <3>3. PlaceInv(w, n) /\ n.pc \notin Outside
      BY <3>1 DEF PlaceInv, Outside, Exited
    <3> QED
      BY <3>2, <3>3
  <2>2. CASE RecordCommits(w)
    <3> DEFINE n == [l EXCEPT !.pc = "recorded", !.verdict = "none"]
    <3>1. n \in Local /\ n.pc = "recorded"
      BY <1>1 DEF Local, PC
    <3>2. Become(w, n)
      BY <2>2 DEF RecordCommits
    <3> HIDE DEF n
    <3>3. PlaceInv(w, n) /\ n.pc \notin Outside
      BY <3>1 DEF PlaceInv, Outside, Exited
    <3> QED
      BY <3>2, <3>3
  <2> QED
    BY <2>1, <2>2
<1>4. Quiet
  BY DEF SucceedCommits, RecordCommits
<1> QED
  BY <1>2, <1>3, <1>4, MovesOn

(* The heartbeat loop: it changes hb, and cancels what is executing before *)
(* it counts as done.                                                      *)
LEMMA HeartbeatsKeep ==
  ASSUME WorkerInv, NEW w \in Workers,
         \/ HeartbeatOwned(w) \/ HeartbeatNotOwned(w) \/ HeartbeatUncertain(w)
         \/ ReportLoss(w) \/ ReportLossRaises(w)
  PROVE  WorkerInv' /\ [Next]_vars
<1> DEFINE l == worker[w]
<1>1. l \in Local /\ PlaceInv(w, l)
  BY DEF WorkerInv, PlaceInv
<1>2. [Next]_vars /\ UNCHANGED leases
  <2>1. CASE HeartbeatOwned(w)
    <3>1. PICK lease \in JobOf(w) : Heartbeat(lease)
      BY <2>1 DEF HeartbeatOwned
    <3> QED
      BY <3>1, LeaseStepIsStep DEF LeaseStep, Heartbeat
  <2>2. CASE ReportLoss(w)
    <3>1. PICK lease \in JobOf(w) : AddLeaseLost(lease)
      BY <2>2 DEF ReportLoss
    <3> QED
      BY <3>1, LeaseStepIsStep DEF LeaseStep, AddLeaseLost
  <2>3. CASE HeartbeatNotOwned(w) \/ HeartbeatUncertain(w) \/ ReportLossRaises(w)
    BY <2>3, StoreStutters DEF HeartbeatNotOwned, HeartbeatUncertain, ReportLossRaises
  <2> QED
    BY <2>1, <2>2, <2>3
<1>3. PICK local : /\ Become(w, local)
                   /\ PlaceInv(w, local)
                   /\ local.pc = l.pc \/ local.pc \notin Outside
  <2>1. CASE HeartbeatOwned(w)
    <3>1. Become(w, l)
      BY <2>1 DEF HeartbeatOwned, Become, WorkerInv
    <3> QED
      BY <1>1, <3>1
  <2>2. CASE HeartbeatNotOwned(w) \/ HeartbeatUncertain(w)
    <3> DEFINE n == [l EXCEPT !.hb = "lost"]
    <3>1. n \in Local /\ n.pc = l.pc /\ n.hb = "lost" /\ n.verdict = l.verdict
      BY <1>1 DEF Local
    <3>2. Become(w, n)
      BY <2>2 DEF HeartbeatNotOwned, HeartbeatUncertain
    <3> HIDE DEF n
    <3>3. PlaceInv(w, n)
      BY <1>1, <3>1 DEF PlaceInv
    <3> QED
      BY <3>1, <3>2, <3>3
  <2>3. CASE ReportLoss(w) \/ ReportLossRaises(w)
    <3> DEFINE n == LossHandled(w)
    <3>1. /\ n \in Local /\ n.verdict = l.verdict
          /\ n.pc = IF l.pc = "await" THEN "cancelling" ELSE l.pc
      <4> DEFINE place == IF l.pc = "await" THEN "cancelling" ELSE l.pc
      <4>1. n = [l EXCEPT !.hb = "done", !.pc = place]
        BY DEF LossHandled
      <4>2. place \in PC
        BY <1>1 DEF Local, PC
      <4> HIDE DEF place, n
      <4>3. n \in Local /\ n.verdict = l.verdict /\ n.pc = place
        BY <1>1, <4>1, <4>2 DEF Local
      <4> QED
        BY <4>3 DEF place
    <3>2. Become(w, n)
      BY <2>3 DEF ReportLoss, ReportLossRaises
    <3> HIDE DEF n
    <3>3. PlaceInv(w, n) /\ (n.pc = l.pc \/ n.pc \notin Outside)
      BY <1>1, <3>1 DEF PlaceInv, Outside, Exited
    <3> QED
      BY <3>2, <3>3
  <2> QED
    BY <2>1, <2>2, <2>3
<1>4. local.pc \in Outside => At(w, Outside)
  BY <1>3 DEF At
<1>5. Quiet \/ Fault
  BY DEF HeartbeatOwned, HeartbeatNotOwned, HeartbeatUncertain, ReportLoss,
         ReportLossRaises
<1> QED
  BY <1>2, <1>3, <1>4, <1>5, MovesOn
-----------------------------------------------------------------------------
(* The end of a claim takes the only lease out of the worker's hands, and  *)
(* so does the end of a process.                                           *)
LEMMA CloseKeeps ==
  ASSUME WorkerInv, NEW w \in Workers, Close(w)
  PROVE  WorkerInv' /\ [Next]_vars
<1> DEFINE l == worker[w]
           a == AfterClaim(w, l)
           n == [a EXCEPT !.hb = "none", !.outcome = "return"]
<1>1. l \in Local
  BY DEF WorkerInv, PlaceInv
<1>2. PICK lease \in JobOf(w) : Release(lease)
  BY DEF Close
<1>3. Next
  BY <1>2, LeaseStepIsStep DEF LeaseStep
<1>4. \A other \in leases' : other.worker # w
  BY <1>2 DEF WorkerInv, Inv, LeasesApart, JobOf, Release
<1>5. a \in Local /\ a.pc \in {"claim", "stopped", "gone", "poll"}
  <2>1. CASE l.outcome = "return"
    <3>1. a = [l EXCEPT !.pc = "claim"]
      BY <2>1 DEF AfterClaim
    <3> QED
      BY <1>1, <3>1 DEF Local, PC
  <2>2. CASE l.outcome = "error"
    <3>1. a = CycleFailed(w, l)
      BY <2>2 DEF AfterClaim
    <3> HIDE DEF a
    <3> QED
      BY <1>1, <3>1, CycleEnds
  <2>3. CASE l.outcome = "cancel"
    <3>1. a = [l EXCEPT !.pc = "stopped"]
      BY <2>3 DEF AfterClaim
    <3> QED
      BY <1>1, <3>1 DEF Local, PC, Exited
  <2> QED
    BY <1>1, <2>1, <2>2, <2>3 DEF Local
<1> HIDE DEF a
<1>6. n \in Local /\ n.pc = a.pc /\ n.hb = "none"
  BY <1>5 DEF Local
<1>7. Become(w, n)
  BY DEF Close, a
<1> HIDE DEF n
<1>8. PlaceInv(w, n)
  BY <1>5, <1>6 DEF PlaceInv
<1>9. Alone(w, n)
  BY <1>2, <1>7 DEF Alone, Close, Quiet, WorkerInv, Release
<1> QED
  BY <1>3, <1>4, <1>8, <1>9, StepKeeps

LEMMA CrashKeeps ==
  ASSUME WorkerInv, NEW w \in Workers, Crash(w)
  PROVE  WorkerInv' /\ [Next]_vars
<1> DEFINE l == worker[w]
           n == [l EXCEPT !.pc = "gone", !.hb = "none", !.verdict = "none"]
<1>1. l \in Local
  BY DEF WorkerInv, PlaceInv
<1>2. [Next]_vars
  <2>1. CASE JobOf(w) = {}
    <3>1. leases' = leases
      BY <2>1 DEF Crash
    <3> QED
      BY <3>1 DEF Crash, vars
  <2>2. CASE JobOf(w) # {}
    <3>1. PICK lease : lease \in JobOf(w)
      BY <2>2
    <3>2. JobOf(w) = {lease}
      BY <3>1 DEF WorkerInv, Inv, LeasesApart, JobOf
    <3>3. Release(lease)
      BY <3>2 DEF Crash, Release
    <3> QED
      BY <3>1, <3>3, LeaseStepIsStep DEF LeaseStep
  <2> QED
    BY <2>1, <2>2
<1>3. \A other \in leases' : other.worker # w
  BY DEF Crash, JobOf
<1>4. n \in Local /\ n.pc = "gone" /\ n.hb = "none"
  BY <1>1 DEF Local, PC, Exited
<1>5. Become(w, n)
  BY DEF Crash
<1> HIDE DEF n
<1>6. PlaceInv(w, n)
  BY <1>4 DEF PlaceInv
<1>7. Alone(w, n)
  BY <1>5 DEF Alone, Crash, Quiet, WorkerInv
<1> QED
  BY <1>2, <1>3, <1>6, <1>7, StepKeeps

(* A stop request, and the cancellation it brings to the await the worker  *)
(* has reached: only a worker without a claim stops at once.               *)
LEMMA StopsKeep ==
  ASSUME WorkerInv, NEW w \in Workers, RequestStop(w) \/ DeliverStop(w)
  PROVE  WorkerInv' /\ [Next]_vars
<1> DEFINE l == worker[w]
<1>1. l \in Local /\ PlaceInv(w, l)
  BY DEF WorkerInv, PlaceInv
<1>2. [Next]_vars /\ UNCHANGED leases
  <2>1. UNCHANGED vars \/ Committed(w)
    BY DEF RequestStop, DeliverStop
  <2> QED
    BY <2>1, CommittedIsStep
<1>3. PICK local : /\ Become(w, local)
                   /\ PlaceInv(w, local)
                   /\ local.pc \in Outside => l.pc \in Outside
  <2>1. CASE RequestStop(w)
    <3> DEFINE n == [l EXCEPT !.stop = "requested"]
    <3>1. n \in Local /\ n.pc = l.pc /\ n.hb = l.hb /\ n.verdict = l.verdict
      BY <1>1 DEF Local
    <3>2. Become(w, n)
      BY <2>1 DEF RequestStop
    <3> HIDE DEF n
    <3>3. PlaceInv(w, n)
      BY <1>1, <3>1 DEF PlaceInv
    <3> QED
      BY <3>1, <3>2, <3>3
  <2>2. CASE DeliverStop(w)
    <3> DEFINE n == Interrupted(w)
               place == CASE At(w, {"await", "cancelling"}) -> "cancelling"
                          [] At(w, {"recover", "summaries", "claim"}) -> "stopped"
                          [] OTHER -> "closing"
               outcome == IF At(w, {"succeed", "succeeded", "settle"})
                          THEN CancelOutcome(w)
                          ELSE IF At(w, {"record", "recorded", "closing"})
                          THEN "cancel" ELSE l.outcome
    <3>1. n = [l EXCEPT !.stop = "delivered", !.verdict = "none",
                        !.pc = place, !.outcome = outcome]
      BY DEF Interrupted
    <3>2. /\ place \in {"cancelling", "stopped", "closing"}
          /\ place = "stopped" => At(w, {"recover", "summaries", "claim"})
      <4>1. CASE At(w, {"await", "cancelling"})
        <5>1. place = "cancelling" \/ At(w, {"recover", "summaries", "claim"})
          BY <4>1
        <5>2. ~At(w, {"recover", "summaries", "claim"})
          BY <4>1 DEF At
        <5> QED
          BY <4>1, <5>1, <5>2
      <4>2. CASE ~At(w, {"await", "cancelling"})
        BY <4>2
      <4> QED
        BY <4>1, <4>2
    <3>3. outcome \in {"return", "error", "cancel"}
      BY <1>1 DEF CancelOutcome, Local
    <3>4. n \in Local /\ n.pc = place
      <4>1. place \in PC
        BY <3>2 DEF PC, Exited
      <4> HIDE DEF place, outcome, n
      <4> QED
        BY <1>1, <3>1, <3>3, <4>1 DEF Local
    <3>5. Become(w, n)
      BY <2>2 DEF DeliverStop
    <3> HIDE DEF n, place
    <3>6. PlaceInv(w, n)
      BY <3>2, <3>4 DEF PlaceInv
    <3>7. n.pc \in Outside => l.pc \in Outside
      BY <3>2, <3>4 DEF Outside, Exited, At
    <3> QED
      BY <3>5, <3>6, <3>7
  <2> QED
    BY <2>1, <2>2
<1>4. Quiet
  BY DEF RequestStop, DeliverStop
<1> QED
  BY <1>2, <1>3, <1>4, MovesOn DEF At

(* What happens outside the workers leaves every claim where it is. *)
LEMMA EnvironmentKeeps ==
  ASSUME WorkerInv, Environment
  PROVE  WorkerInv' /\ [Next]_vars
<1>1. Next /\ UNCHANGED leases
  <2>1. CASE \E r \in Runs, max \in 1..MaxAttempts, valid \in BOOLEAN :
               Enqueue(r, max, valid)
    <3>1. UNCHANGED leases
      BY <2>1 DEF Enqueue
    <3> QED
      BY <2>1, <3>1 DEF Next
  <2>2. CASE \E r \in Runs : BecomeDue(r) \/ BecomeStale(r)
    <3>1. UNCHANGED leases
      BY <2>2 DEF BecomeDue, BecomeStale
    <3> QED
      BY <2>2, <3>1 DEF Next
  <2> QED
    BY <2>1, <2>2 DEF Environment
<1>2. Inv'
  BY <1>1, NextInv DEF WorkerInv
<1>3. UNCHANGED <<worker, faults>>
  BY DEF Environment
<1> QED
  BY <1>1, <1>2, <1>3 DEF WorkerInv, PlaceInv, HandsInv, At
-----------------------------------------------------------------------------
LEMMA WorkerInitInv == WorkerInit => WorkerInv
<1> SUFFICES ASSUME WorkerInit PROVE WorkerInv
  OBVIOUS
<1> DEFINE n == [pc |-> "poll", hb |-> "none", stop |-> "no", left |-> 0,
                 fails |-> 0, recovery |-> TRUE, verdict |-> "none",
                 outcome |-> "return"]
<1>1. Inv
  BY InitInv DEF WorkerInit
<1>2. 0 \in 0..BatchSize /\ 0 \in 0..MaxPollFailures - 1 /\ 0 \in 0..MaxFaults
  BY WorkerAssumption
<1>3. n \in Local
  BY <1>2 DEF Local, PC
<1>4. worker = [w \in Workers |-> n]
  BY DEF WorkerInit
<1>5. n.pc = "poll"
  OBVIOUS
<1> HIDE DEF n
<1>6. \A w \in Workers : PlaceInv(w, worker[w])
  BY <1>3, <1>4, <1>5 DEF PlaceInv
<1>7. leases = {}
  BY DEF WorkerInit, Init
<1>8. \A w \in Workers : HandsInv(w)
  BY <1>7 DEF HandsInv
<1>9. worker = [w \in Workers |-> worker[w]]
  BY <1>4
<1>10. faults \in 0..MaxFaults
  BY <1>2 DEF WorkerInit
<1> QED
  BY <1>1, <1>6, <1>8, <1>9, <1>10 DEF WorkerInv

(* One step of the workers: the invariant, and a step of the store. *)
LEMMA WorkerNextInv ==
  ASSUME WorkerInv, [WorkerNext]_wvars
  PROVE  WorkerInv' /\ [Next]_vars
<1>1. ASSUME NEW w \in Workers, CycleStep(w)
      PROVE  WorkerInv' /\ [Next]_vars
  BY <1>1, LoopKeeps, ClaimRunKeeps, AnswersKeep, CompletionsKeep, CloseKeeps
     DEF CycleStep
<1>2. ASSUME NEW w \in Workers, HeartbeatStep(w)
      PROVE  WorkerInv' /\ [Next]_vars
  BY <1>2, HeartbeatsKeep DEF HeartbeatStep
<1>3. ASSUME NEW w \in Workers, FaultStep(w)
      PROVE  WorkerInv' /\ [Next]_vars
  BY <1>3, LoopKeeps, AnswersKeep, HeartbeatsKeep, CrashKeeps DEF FaultStep
<1>4. ASSUME NEW w \in Workers,
             RequestStop(w) \/ DeliverStop(w) \/ RecoveryFallsDue(w)
      PROVE  WorkerInv' /\ [Next]_vars
  BY <1>4, StopsKeep, LoopKeeps
<1>5. CASE Environment
  BY <1>5, EnvironmentKeeps
<1>6. CASE UNCHANGED wvars
  <2>1. UNCHANGED vars /\ UNCHANGED <<worker, faults>>
    BY <1>6 DEF wvars
  <2>2. [Next]_vars /\ UNCHANGED leases
    BY <2>1, StoreStutters
  <2>3. Inv'
    BY <2>2, NextInv DEF WorkerInv
  <2> QED
    BY <2>1, <2>2, <2>3 DEF WorkerInv, PlaceInv, HandsInv, At
<1> QED
  BY <1>1, <1>2, <1>3, <1>4, <1>5, <1>6 DEF WorkerNext

(* Whatever workers claim, lose, raise, stop or crash, a worker outside    *)
(* process_claim holds no claim, and the store keeps its invariant.        *)
THEOREM WorkersInvariance == WorkerSpec => []WorkerInv
<1>1. WorkerInit => WorkerInv
  BY WorkerInitInv
<1>2. WorkerInv /\ [WorkerNext]_wvars => WorkerInv'
  BY WorkerNextInv
<1> QED
  BY <1>1, <1>2, PTL DEF WorkerSpec

(* worker.py uses run_store.py as RunStore says it is used, one claim per  *)
(* worker identity above all: what is proved of Spec holds of the workers. *)
THEOREM WorkersImplementStore == WorkerSpec => ImplementsStore
<1>1. WorkerInit => Init
  BY DEF WorkerInit
<1>2. WorkerInv /\ [WorkerNext]_wvars => [Next]_vars
  BY WorkerNextInv
<1> QED
  BY <1>1, <1>2, WorkersInvariance, PTL DEF WorkerSpec, ImplementsStore, Spec

(* So what RunStoreProofs proves of the store is true of the workers, with *)
(* their local states, heartbeat loops, stops and crashes: in every state, *)
(* the store's invariants ...                                              *)
THEOREM WorkersKeepStore ==
  WorkerSpec => []( /\ LeaseFencesAttempt /\ SoleOwner
                    /\ NoStrandedRun /\ FinishedRowIsWhole
                    /\ EventLogTellsHistory /\ LogIsBounded )
BY WorkersImplementStore, FencingIsSound, OneOwner, QueuedIsClaimable,
   FinishedIsWhole, EventLogIsHistory, RunEndsOnce, PTL DEF ImplementsStore

(* ... and in every step, what the client of the queue is promised.        *)
THEOREM WorkersKeepPromises ==
  WorkerSpec => TerminalIsFinal /\ LossIsFinal /\ ImplementsLifecycle
BY WorkersImplementStore, FinishedIsFinal, LostForGood,
   StoreImplementsLifecycle, PTL DEF ImplementsStore

(* The local state of every worker keeps its type: no failure counter that *)
(* passes the limit of next_poll_failure_count, no claim beyond the batch. *)
THEOREM WorkerTypes == WorkerSpec => []WorkerTypeOK
<1>1. WorkerInv => WorkerTypeOK
  BY DEF WorkerInv, PlaceInv, WorkerTypeOK, Inv
<1> QED
  BY <1>1, WorkersInvariance, PTL

(* An execution never runs on under a heartbeat loop that has declared its *)
(* lease lost and returned.                                                *)
THEOREM LostLeaseEnds == WorkerSpec => []LostLeaseStopsExecution
<1>1. WorkerInv => LostLeaseStopsExecution
  BY DEF WorkerInv, PlaceInv, LostLeaseStopsExecution, At
<1> QED
  BY <1>1, WorkersInvariance, PTL
-----------------------------------------------------------------------------
(* Who ends an attempt.  Nothing but the answers of process_claim and a    *)
(* recovery of stale rows takes a run out of 'running'.                    *)

(* The transactions that decide no attempt by its own lease. *)
OtherTx ==
  \/ UNCHANGED runs
  \/ RecoverTx
  \/ NoClaimTx
  \/ \E w \in Workers, x \in Runs, poison \in SUBSET Runs : ClaimTx(w, x, poison)
  \/ \E lease \in leases : Heartbeat(lease)
  \/ Environment

(* Every step of the workers is one of those, or the answer of a claim. *)
LEMMA WhoWritesRuns ==
  ASSUME [WorkerNext]_wvars
  PROVE  OtherTx \/ \E w \in Workers : SucceedCommits(w) \/ RecordCommits(w)
<1> SUFFICES ASSUME \A w \in Workers : ~SucceedCommits(w) /\ ~RecordCommits(w)
             PROVE  OtherTx
  OBVIOUS
<1> USE DEF OtherTx
<1>1. ASSUME NEW w \in Workers, CycleStep(w) PROVE OtherTx
  BY <1>1 DEF CycleStep, Poll, LeaveLoop, Recover, RecoverRaises,
     DeliverSummaries, ClaimRun, ClaimNone, BatchDone, ExecutionReturns,
     ExecutionRaises, ExecutionCancelled, SucceedAnswers, Settle,
     RecordAnswers, Close, Release, JobOf, vars
<1>2. ASSUME NEW w \in Workers, HeartbeatStep(w) PROVE OtherTx
  BY <1>2 DEF HeartbeatStep, HeartbeatOwned, HeartbeatNotOwned, ReportLoss,
     AddLeaseLost, JobOf, vars
<1>3. ASSUME NEW w \in Workers, UNCHANGED vars \/ Committed(w) PROVE OtherTx
  BY <1>3 DEF Committed, vars
<1>4. ASSUME NEW w \in Workers,
             \/ FaultStep(w) \/ RequestStop(w) \/ DeliverStop(w)
             \/ RecoveryFallsDue(w)
      PROVE  OtherTx
  <2>1. UNCHANGED runs \/ UNCHANGED vars \/ Committed(w)
    BY <1>4 DEF FaultStep, CycleCallRaises, SucceedRaises, RecordRaises,
       HeartbeatUncertain, ReportLossRaises, Crash, RequestStop, DeliverStop,
       RecoveryFallsDue
  <2> QED
    BY <1>3, <2>1
<1>5. ASSUME UNCHANGED wvars PROVE OtherTx
  BY <1>5 DEF wvars, vars
<1> QED
  BY <1>1, <1>2, <1>4, <1>5 DEF WorkerNext

(* What those transactions do to a running row: a recovery ends the attempt*)
(* of a stale one, and the others leave it running.                        *)
LEMMA OthersEndByRecovery ==
  ASSUME Inv, NEW r \in Runs, OtherTx, runs[r].status = "running"
  PROVE  \/ runs'[r].status = "running"
         \/ runs[r].stale /\ runs'[r] = Recovered(runs[r])
<1>0. /\ runs \in [Runs -> Row] /\ runs[r] \in Row
      /\ \A lease \in leases : lease.run \in Runs
  BY DEF Inv, TypeOK, Lease
<1>1. CASE UNCHANGED runs
  BY <1>1
<1>2. CASE RecoverTx
  BY <1>2 DEF RecoverTx, RecoverStale, Stale, vars
<1>3. CASE NoClaimTx
  <2> SUFFICES ASSUME NEW poison, ClaimNothing(poison)
               PROVE  runs'[r] = runs[r]
    BY <1>3 DEF NoClaimTx, vars
  <2>1. r \notin poison
    BY DEF ClaimNothing, Poisoned, Claimable
  <2> QED
    BY <2>1 DEF ClaimNothing
<1>4. ASSUME NEW w \in Workers, NEW x \in Runs, NEW poison \in SUBSET Runs,
             ClaimTx(w, x, poison)
      PROVE  runs'[r] = runs[r]
  <2>1. r # x /\ r \notin poison
    BY <1>4 DEF ClaimTx, Poisoned, Claimable
  <2> QED
    BY <1>4, <2>1 DEF ClaimTx
<1>5. ASSUME NEW lease \in leases, Heartbeat(lease)
      PROVE  runs'[r].status = "running"
  <2>1. lease.run \in Runs /\ runs[lease.run] \in Row
    BY <1>0
  <2>2. [runs[lease.run] EXCEPT !.stale = FALSE].status = runs[lease.run].status
    BY <2>1 DEF Row
  <2> QED
    BY <1>0, <1>5, <2>1, <2>2 DEF Heartbeat
<1>6. ASSUME Environment
      PROVE  runs'[r].status = "running"
  BY <1>0, <1>6 DEF Environment, Enqueue, BecomeDue, BecomeStale, Row
<1> QED
  BY <1>1, <1>2, <1>3, <1>4, <1>5, <1>6 DEF OtherTx

(* The answer of a claim decides the attempt of its own lease, or nothing. *)
Decides(w, place, r) ==
  /\ At(w, {place})
  /\ \E lease \in JobOf(w) :
       /\ lease.run = r /\ Owns(lease)
       /\ lease.attempt = runs[r].attempts

(* The answer of a claim changes the run of the lease it answers for, and  *)
(* only while that lease still owns the run.                               *)
LEMMA AnswersDecide ==
  ASSUME WorkerInv, NEW r \in Runs, runs'[r] # runs[r], NEW w \in Workers
  PROVE  /\ SucceedCommits(w) => Decides(w, "succeed", r)
         /\ RecordCommits(w) =>
              Decides(w, "record", r) /\ runs'[r].status # "succeeded"
<1>0. runs \in [Runs -> Row] /\ \A lease \in JobOf(w) : lease \in leases
  BY DEF WorkerInv, Inv, TypeOK, JobOf
<1>1. CASE SucceedCommits(w)
  <2>1. At(w, {"succeed"})
    BY <1>1 DEF SucceedCommits
  <2>2. PICK lease \in JobOf(w) : Succeed(lease)
    BY <1>1 DEF SucceedCommits, vars
  <2>3. /\ Owns(lease) /\ lease.run \in Runs
        /\ runs[lease.run].attempts = lease.attempt
    BY <1>0, <2>2, OwnedLease DEF Succeed, WorkerInv
  <2>4. lease.run = r
    BY <1>0, <2>2, <2>3 DEF Succeed
  <2>5. ~At(w, {"record"})
    BY <2>1 DEF At
  <2> QED
    BY <2>1, <2>2, <2>3, <2>4, <2>5 DEF Decides, RecordCommits
<1>2. CASE RecordCommits(w)
  <2> DEFINE retryable == worker[w].verdict = "retryable"
             next(lease) == failure_status(lease.attempt, lease.max, retryable)
  <2>1. At(w, {"record"}) /\ ~At(w, {"succeed"})
    BY <1>2 DEF RecordCommits, At
  <2>2. PICK lease \in JobOf(w) : Fail(lease, retryable)
    BY <1>2 DEF RecordCommits, vars
  <2>3. /\ Owns(lease) /\ lease.run \in Runs /\ runs[lease.run] \in Row
        /\ runs[lease.run].attempts = lease.attempt
    BY <1>0, <2>2, OwnedLease DEF Fail, WorkerInv
  <2>4. runs' = [runs EXCEPT ![lease.run] =
                   Unfinished(runs[lease.run], next(lease), "attempt_failed")]
    BY <2>2 DEF Fail
  <2>5. next(lease) # "succeeded"
    BY DEF failure_status
  <2> HIDE DEF next, retryable
  <2>6. lease.run = r
    BY <1>0, <2>3, <2>4
  <2>7. runs'[r].status = next(lease)
    BY <1>0, <2>3, <2>4, <2>6 DEF Unfinished, Row
  <2> QED
    BY <2>1, <2>3, <2>5, <2>6, <2>7 DEF Decides, SucceedCommits
<1> QED
  BY <1>1, <1>2

(* A running attempt ends in one of two ways: by the answer of the worker  *)
(* that owns the run at that very attempt, from the call of succeed or fail*)
(* it is waiting for, or by a recovery after its heartbeat went stale.  No *)
(* stop, crash, raised call, claim or late answer ends it, and a success is*)
(* never written by anyone but that worker.                                *)
AttemptEndsRightly ==
  [][\A r \in Runs :
       /\ runs[r].status = "running"
       /\ runs'[r].status # "running"
       => \/ \E w \in Workers : Decides(w, "succeed", r)
          \/ /\ runs'[r].status # "succeeded"
             /\ runs[r].stale \/ \E w \in Workers : Decides(w, "record", r)]_wvars

(* The workers take a run out of 'running' in those two ways only, in every*)
(* interleaving of their loops, tasks, stops and crashes.                  *)
THEOREM AttemptsEndRightly == WorkerSpec => AttemptEndsRightly
<1>1. ASSUME WorkerInv, [WorkerNext]_wvars, NEW r \in Runs,
             runs[r].status = "running", runs'[r].status # "running"
      PROVE  \/ \E w \in Workers : Decides(w, "succeed", r)
             \/ /\ runs'[r].status # "succeeded"
                /\ runs[r].stale \/ \E w \in Workers : Decides(w, "record", r)
  <2>1. CASE OtherTx
    <3>1. runs[r].stale /\ runs'[r] = Recovered(runs[r]) /\ runs[r] \in Row
      BY <1>1, <2>1, OthersEndByRecovery DEF WorkerInv, Inv, TypeOK
    <3>2. NextStatus(runs[r]) # "succeeded"
      BY DEF NextStatus, failure_status
    <3>3. runs'[r].status = NextStatus(runs[r])
      BY <3>1 DEF Recovered, Unfinished, Row
    <3> QED
      BY <3>1, <3>2, <3>3
  <2>2. ASSUME NEW w \in Workers, SucceedCommits(w) \/ RecordCommits(w)
        PROVE  \/ Decides(w, "succeed", r)
               \/ runs'[r].status # "succeeded" /\ Decides(w, "record", r)
    <3>1. runs'[r] # runs[r]
      BY <1>1
    <3> QED
      BY <1>1, <2>2, <3>1, AnswersDecide
  <2> QED
    BY <1>1, <2>1, <2>2, WhoWritesRuns
<1>2. WorkerInv /\ [WorkerNext]_wvars =>
        [\A r \in Runs :
           /\ runs[r].status = "running"
           /\ runs'[r].status # "running"
           => \/ \E w \in Workers : Decides(w, "succeed", r)
              \/ /\ runs'[r].status # "succeeded"
                 /\ runs[r].stale \/ \E w \in Workers : Decides(w, "record", r)]_wvars
  BY <1>1
<1> QED
  BY <1>2, WorkersInvariance, PTL DEF WorkerSpec, AttemptEndsRightly
-----------------------------------------------------------------------------
(* Who gives a run up.                                                     *)
GivenUp(r) ==
  /\ runs[r].status = "running"
  /\ runs'[r].status = "failed"
  /\ runs[r].attempts < runs[r].max

(* A transaction that is not a failure report gives nothing up: a recovery *)
(* of an attempt that has a successor requeues the run.                    *)
LEMMA OthersGiveNothingUp ==
  ASSUME WorkerInv, NEW r \in Runs, OtherTx PROVE ~GivenUp(r)
<1> SUFFICES ASSUME GivenUp(r) PROVE FALSE
  OBVIOUS
<1>1. runs[r] \in Row /\ runs'[r] = Recovered(runs[r])
  BY OthersEndByRecovery DEF GivenUp, WorkerInv, Inv, TypeOK
<1>2. NextStatus(runs[r]) = "queued"
  BY DEF GivenUp, NextStatus, failure_status
<1>3. runs'[r].status = "queued"
  BY <1>1, <1>2 DEF Recovered, Unfinished, Row
<1> QED
  BY <1>3 DEF GivenUp

LEMMA SuccessGivesNothingUp ==
  ASSUME WorkerInv, NEW r \in Runs, NEW w \in Workers, SucceedCommits(w)
  PROVE  ~GivenUp(r)
<1>0. runs \in [Runs -> Row] /\ \A lease \in JobOf(w) : lease.run \in Runs
  BY DEF WorkerInv, Inv, TypeOK, JobOf, Lease
<1>1. CASE UNCHANGED vars
  BY <1>1 DEF vars, GivenUp
<1>2. ASSUME NEW lease \in JobOf(w), Succeed(lease) PROVE ~GivenUp(r)
  <2> DEFINE row == Succeeded(runs[lease.run], lease.attempt)
  <2>1. lease.run \in Runs /\ runs[lease.run] \in Row
    BY <1>0
  <2>2. row.status = "succeeded"
    BY <2>1 DEF Succeeded, Row
  <2>3. runs' = [runs EXCEPT ![lease.run] = row]
    BY <1>2 DEF Succeed
  <2> HIDE DEF row
  <2> QED
    BY <1>0, <2>1, <2>2, <2>3 DEF GivenUp
<1> QED
  BY <1>1, <1>2 DEF SucceedCommits

(* A failure report gives up a run with attempts left only if its verdict  *)
(* was final, and then at the very attempt of the lease.                   *)
LEMMA ReportGivesUp ==
  ASSUME WorkerInv, NEW r \in Runs, NEW w \in Workers, RecordCommits(w), GivenUp(r)
  PROVE  /\ At(w, {"record"})
         /\ worker[w].verdict = "final"
         /\ \E lease \in JobOf(w) :
              lease.run = r /\ lease.attempt = runs[r].attempts
<1>0. runs \in [Runs -> Row]
  BY DEF WorkerInv, Inv, TypeOK
<1>1. At(w, {"record"}) /\ worker[w].verdict \in Verdicts
  BY DEF RecordCommits, WorkerInv, PlaceInv, At
<1>2. PICK lease \in JobOf(w) :
        \/ Fail(lease, worker[w].verdict = "retryable")
        \/ UNCHANGED vars
  BY DEF RecordCommits
<1>3. Fail(lease, worker[w].verdict = "retryable")
  BY <1>2 DEF GivenUp, vars
<1>4. lease \in leases
  BY DEF JobOf
<1>5. /\ Owns(lease) /\ lease.run \in Runs
      /\ runs[lease.run].attempts = lease.attempt
      /\ runs[lease.run].max = lease.max
  BY <1>3, <1>4, OwnedLease DEF Fail, WorkerInv
<1>6. lease.run = r
  BY <1>0, <1>3, <1>5 DEF Fail, GivenUp
<1>7. worker[w].verdict # "retryable"
  <2> SUFFICES ASSUME worker[w].verdict = "retryable" PROVE FALSE
    OBVIOUS
  <2>1. lease.attempt < lease.max
    BY <1>5, <1>6 DEF GivenUp
  <2>2. Fail(lease, TRUE)
    BY <1>3
  <2>3. runs'[r] = Unfinished(runs[r], "queued", "attempt_failed")
    BY <1>0, <1>6, <2>1, <2>2 DEF Fail, failure_status
  <2>4. runs'[r].status = "queued"
    BY <1>0, <2>3 DEF Unfinished, Row
  <2> QED
    BY <2>4 DEF GivenUp
<1> QED
  BY <1>1, <1>5, <1>6, <1>7 DEF Verdicts

(* So a run is given up by a failure report or not at all. *)
LEMMA OnlyReportsGiveUp ==
  ASSUME WorkerInv, [WorkerNext]_wvars, NEW r \in Runs, GivenUp(r)
  PROVE  \E w \in Workers : RecordCommits(w)
BY WhoWritesRuns, OthersGiveNothingUp, SuccessGivesNothingUp

(* A run with attempts left is never given up by a recovery, a timeout or a*)
(* worker that lost it: only by a final verdict on its very attempt.       *)
THEOREM VerdictGivesUp == WorkerSpec => GivenUpOnlyByVerdict
<1>1. ASSUME WorkerInv, [WorkerNext]_wvars
      PROVE  [\A r \in Runs :
                GivenUp(r) =>
                  \E w \in Workers :
                    /\ At(w, {"record"})
                    /\ worker[w].verdict = "final"
                    /\ \E lease \in JobOf(w) :
                         lease.run = r /\ lease.attempt = runs[r].attempts]_wvars
  BY <1>1, OnlyReportsGiveUp, ReportGivesUp
<1>2. WorkerInv /\ [WorkerNext]_wvars =>
        [\A r \in Runs :
           /\ runs[r].status = "running"
           /\ runs'[r].status = "failed"
           /\ runs[r].attempts < runs[r].max
           => \E w \in Workers :
                /\ At(w, {"record"})
                /\ worker[w].verdict = "final"
                /\ \E lease \in JobOf(w) :
                     lease.run = r /\ lease.attempt = runs[r].attempts]_wvars
  BY <1>1 DEF GivenUp
<1> QED
  BY <1>2, WorkersInvariance, PTL DEF WorkerSpec, GivenUpOnlyByVerdict
=============================================================================
