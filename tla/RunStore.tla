------------------------------ MODULE RunStore ------------------------------
(***************************************************************************)
(* The durable run queue of run_store.py: the tables rlm_runs, rlm_events  *)
(* and the keys of rlm_summary_outbox, and the transactions RunStore runs  *)
(* on them.                                                                *)
(*                                                                         *)
(* One method call is one atomic step.  Each transaction of the code locks *)
(* the row it is about (its UPDATE, or FOR UPDATE) before it writes        *)
(* anything else, so transactions on one row are serial, and a transaction *)
(* that raises leaves nothing behind.                                      *)
(*                                                                         *)
(* Time appears as two flags of a row, raised by BecomeDue and BecomeStale:*)
(*   due    available_at <= now(); only a retry puts available_at ahead    *)
(*   stale  the heartbeat is older than stale_seconds (while running)      *)
(* A worker may be slow or paused for any length of time, so a row may     *)
(* become stale at any moment, whether or not its worker is alive.         *)
(***************************************************************************)
EXTENDS Naturals, Sequences, FiniteSets, Functions

CONSTANTS
  Runs,            \* run ids
  Workers,         \* worker identities (host:pid:uuid, one per process life)
  NULL,            \* SQL NULL in the column worker_id
  MaxAttempts,     \* the largest max_attempts the API accepts
  MaxQuarantined,  \* claim's max_quarantined
  RecoveryBatch,   \* recover_stale's batch_size
  LegacyRuns       \* rows migration 004 leaves 'running' with attempts = 0

ASSUME StoreAssumption ==
  /\ NULL \notin Workers
  /\ MaxAttempts \in Nat \ {0}
  /\ MaxQuarantined \in Nat \ {0}
  /\ RecoveryBatch \in Nat \ {0}
  /\ LegacyRuns \subseteq Runs

VARIABLES
  runs,     \* runs[r]: the row of run r in rlm_runs
  events,   \* events[r]: the rows of rlm_events for run r, by sequence
  outbox,   \* the run_ids that have a row in rlm_summary_outbox
  leases    \* the ClaimedRun values in the hands of running worker code

vars == <<runs, events, outbox, leases>>

Status == {"absent", "queued", "running", "succeeded", "failed"}

Terminal == {"succeeded", "failed"}

(* The column error; attempt_failed is any public_error that fail is given.*)
Errors ==
  {"none", "attempt_failed", "worker_heartbeat_expired",
   "invalid_persisted_configuration"}

EventTypes ==
  {"queued", "started", "succeeded", "failed", "retry_scheduled",
   "stale_recovered", "worker_lease_lost"}

Counter == 0..MaxAttempts

Row ==
  [status : Status, attempts : Counter, max : Counter,
   worker : Workers \cup {NULL}, due : BOOLEAN, stale : BOOLEAN,
   valid : BOOLEAN,      \* decode_claimed_run accepts the row
   error : Errors, completed : BOOLEAN,
   result : Counter]     \* the attempt whose answer is stored, 0 for none

Event == [type : EventTypes, attempt : Counter]

Lease == [run : Runs, worker : Workers, attempt : Counter, max : Counter]

(* One type invariant for the tables and the leases. *)
TypeOK ==
  /\ runs \in [Runs -> Row]
  /\ events \in [Runs -> Seq(Event)]
  /\ outbox \subseteq Runs
  /\ leases \subseteq Lease
-----------------------------------------------------------------------------
NoRow ==
  [status |-> "absent", attempts |-> 0, max |-> 0, worker |-> NULL,
   due |-> FALSE, stale |-> FALSE, valid |-> TRUE, error |-> "none",
   completed |-> FALSE, result |-> 0]

(* A row that was 'running' when the upgrade ran and whose context was     *)
(* recovered: the new columns get their defaults, attempts 0 among them,   *)
(* and no worker.                                                          *)
LegacyRow ==
  [NoRow EXCEPT !.status = "running", !.max = MaxAttempts, !.due = TRUE]

Init ==
  /\ runs = [r \in Runs |-> IF r \in LegacyRuns THEN LegacyRow ELSE NoRow]
  /\ events = [r \in Runs |-> <<>>]
  /\ outbox = {}
  /\ leases = {}
-----------------------------------------------------------------------------
(* failure_status raises ValueError unless the counters are valid. *)
ValidCounters(attempts, max) == attempts \in 1..max

(* Broken: compares with <=, as if attempts did not count this one. *)
failure_status_one_more(attempts, max, retryable) ==
  IF retryable /\ attempts <= max THEN "queued" ELSE "failed"

(* Broken: gives up one attempt early. *)
failure_status_one_less(attempts, max, retryable) ==
  IF retryable /\ attempts + 1 < max THEN "queued" ELSE "failed"

failure_status(attempts, max, retryable) ==
  IF retryable /\ attempts < max THEN "queued" ELSE "failed"

(* The row after an attempt that did not succeed, as fail and              *)
(* recover_stale both write it; a retry waits for its delay.               *)
Unfinished(row, status, error) ==
  [row EXCEPT !.status = status, !.error = error, !.worker = NULL,
              !.due = @ /\ status = "failed", !.stale = FALSE,
              !.completed = status = "failed"]

Record(type, attempt) == [type |-> type, attempt |-> attempt]

append_event(r, event) == [events EXCEPT ![r] = Append(@, event)]

(* What recover_stale reports of a row, its retrying flag apart. *)
RecoveryEventAlwaysRetries(row, status) ==   \* broken: forgets exhaustion
  Record("stale_recovered", row.attempts)

RecoveryEvent(row, status) ==
  Record(IF status = "queued" THEN "stale_recovered" ELSE "failed",
         row.attempts)

(* The WHERE clause every completion and heartbeat carries.                *)
OwnsAnyWorker(lease) ==                      \* broken: drops worker_id = $2
  runs[lease.run].status = "running"

Owns(lease) ==
  /\ runs[lease.run].status = "running"
  /\ runs[lease.run].worker = lease.worker

ClaimableAnyStatus(r) ==                     \* broken: drops status = 'queued'
  runs[r].due /\ runs[r].attempts < runs[r].max

Claimable(r) ==
  /\ runs[r].status = "queued"
  /\ runs[r].due
  /\ runs[r].attempts < runs[r].max
-----------------------------------------------------------------------------
(* POST /v1/rlm/runs.  The API accepts text the decoder rejects (a query   *)
(* of blanks), so a row may be born undecodable.                           *)
Enqueued(max, valid) ==
  [NoRow EXCEPT !.status = "queued", !.max = max, !.due = TRUE, !.valid = valid]

Enqueue(r, max, valid) ==
  /\ runs[r].status = "absent"
  /\ runs' = [runs EXCEPT ![r] = Enqueued(max, valid)]
  /\ events' = append_event(r, Record("queued", 0))
  /\ UNCHANGED <<outbox, leases>>

(* The claim transaction as the tables see it: the candidates in poison,   *)
(* which do not decode, are quarantined on the way to the row that is      *)
(* returned.                                                               *)
ClaimedUncounted(row, w) ==                  \* broken: attempts not bumped
  [row EXCEPT !.status = "running", !.worker = w, !.stale = FALSE]

Claimed(row, w) ==
  [row EXCEPT !.status = "running", !.attempts = @ + 1, !.worker = w,
              !.stale = FALSE]

Quarantined(row) ==
  [row EXCEPT !.status = "failed", !.attempts = @ + 1, !.worker = NULL,
              !.error = "invalid_persisted_configuration",
              !.completed = TRUE, !.stale = FALSE]

Poisoned(poison) ==
  \A r \in poison : Claimable(r) /\ ~runs[r].valid

ClaimTx(w, r, poison) ==
  /\ Claimable(r)
  /\ runs[r].valid
  /\ Poisoned(poison)
  /\ Cardinality(poison) < MaxQuarantined
  /\ runs' = [x \in Runs |-> IF x = r THEN Claimed(runs[x], w)
                             ELSE IF x \in poison THEN Quarantined(runs[x])
                             ELSE runs[x]]
  /\ events' = [x \in Runs |->
                  IF x = r
                  THEN Append(events[x], Record("started", runs[x].attempts + 1))
                  ELSE IF x \in poison
                  THEN Append(events[x], Record("failed", 0))
                  ELSE events[x]]
  /\ UNCHANGED outbox

LeaseOfCountedTwice(w, r) ==                 \* broken: bumps RETURNING again
  [run |-> r, worker |-> w, attempt |-> runs[r].attempts + 2,
   max |-> runs[r].max]

LeaseOf(w, r) ==
  [run |-> r, worker |-> w, attempt |-> runs[r].attempts + 1,
   max |-> runs[r].max]

AlwaysIdle(w) == TRUE                        \* broken: claims run concurrently

Idle(w) == \A lease \in leases : lease.worker # w

(* A worker identity runs one claim at a time. *)
Claim(w, r, poison) ==
  /\ Idle(w)
  /\ ClaimTx(w, r, poison)
  /\ leases' = leases \cup {LeaseOf(w, r)}

(* The claim committed but its answer never arrived: the connection broke, *)
(* or the call was cancelled.  The row is running and nobody works on it.  *)
ClaimLost(w, r, poison) ==
  /\ Idle(w)
  /\ ClaimTx(w, r, poison)
  /\ UNCHANGED leases

(* claim returns None: it quarantined rows and found nothing to return, or *)
(* gave up after max_quarantined of them.                                  *)
ClaimNothing(poison) ==
  /\ poison # {}
  /\ Poisoned(poison)
  /\ Cardinality(poison) <= MaxQuarantined
  /\ runs' = [x \in Runs |-> IF x \in poison THEN Quarantined(runs[x])
                             ELSE runs[x]]
  /\ events' = [x \in Runs |-> IF x \in poison
                               THEN Append(events[x], Record("failed", 0))
                               ELSE events[x]]
  /\ UNCHANGED <<outbox, leases>>

Heartbeat(lease) ==
  /\ Owns(lease)
  /\ runs' = [runs EXCEPT ![lease.run].stale = FALSE]
  /\ UNCHANGED <<events, outbox, leases>>

(* The result, the outbox row and the event are one transaction. *)
Succeeded(row, attempt) ==
  [row EXCEPT !.status = "succeeded", !.error = "none", !.worker = NULL,
              !.stale = FALSE, !.completed = TRUE, !.result = attempt]

Succeed(lease) ==
  /\ Owns(lease)
  /\ runs' = [runs EXCEPT ![lease.run] = Succeeded(@, lease.attempt)]
  /\ outbox' = outbox \cup {lease.run}
  /\ events' = append_event(lease.run, Record("succeeded", lease.attempt))
  /\ UNCHANGED leases

(* The next status comes from the counters of the lease, not of the row.   *)
Fail(lease, retryable) ==
  LET next == failure_status(lease.attempt, lease.max, retryable)
  IN  /\ Owns(lease)
      /\ ValidCounters(lease.attempt, lease.max)
      /\ runs' = [runs EXCEPT ![lease.run] = Unfinished(@, next, "attempt_failed")]
      /\ events' = append_event(lease.run,
           Record(IF next = "queued" THEN "retry_scheduled" ELSE "failed",
                  lease.attempt))
      /\ UNCHANGED <<outbox, leases>>

Stale(r) == runs[r].status = "running" /\ runs[r].stale

(* Any worker may recover; rows another transaction holds are skipped, so  *)
(* the batch is any set of stale rows.  One row with invalid counters      *)
(* raises and rolls the whole batch back.                                  *)
NextStatus(row) == failure_status(row.attempts, row.max, TRUE)

Recovered(row) ==
  Unfinished(row, NextStatus(row), "worker_heartbeat_expired")

RecoverStale(batch) ==
  /\ batch # {}
  /\ Cardinality(batch) <= RecoveryBatch
  /\ \A r \in batch :
       Stale(r) /\ ValidCounters(runs[r].attempts, runs[r].max)
  /\ runs' = [x \in Runs |-> IF x \in batch THEN Recovered(runs[x])
                             ELSE runs[x]]
  /\ events' = [x \in Runs |->
                  IF x \in batch
                  THEN Append(events[x],
                              RecoveryEvent(runs[x], NextStatus(runs[x])))
                  ELSE events[x]]
  /\ UNCHANGED <<outbox, leases>>

(* add_event(worker_lease_lost), written without any check of the row. The *)
(* heartbeat loop of a lease returns after it, so a lease reports once.    *)
AddLeaseLost(lease) ==
  /\ Record("worker_lease_lost", lease.attempt) \notin Range(events[lease.run])
  /\ events' = append_event(lease.run,
                            Record("worker_lease_lost", lease.attempt))
  /\ UNCHANGED <<runs, outbox, leases>>

(* process_claim returned, or its process died. *)
Release(lease) ==
  /\ leases' = leases \ {lease}
  /\ UNCHANGED <<runs, events, outbox>>
-----------------------------------------------------------------------------
BecomeDue(r) ==
  /\ runs[r].status = "queued"
  /\ ~runs[r].due
  /\ runs' = [runs EXCEPT ![r].due = TRUE]
  /\ UNCHANGED <<events, outbox, leases>>

BecomeStale(r) ==
  /\ runs[r].status = "running"
  /\ ~runs[r].stale
  /\ runs' = [runs EXCEPT ![r].stale = TRUE]
  /\ UNCHANGED <<events, outbox, leases>>

ClaimStep ==
  \/ \E w \in Workers, r \in Runs, poison \in SUBSET Runs :
       Claim(w, r, poison) \/ ClaimLost(w, r, poison)
  \/ \E poison \in SUBSET Runs : ClaimNothing(poison)

LeaseStep(lease) ==
  \/ Heartbeat(lease)
  \/ Succeed(lease)
  \/ \E retryable \in BOOLEAN : Fail(lease, retryable)
  \/ AddLeaseLost(lease)
  \/ Release(lease)

Next ==
  \/ \E r \in Runs, max \in 1..MaxAttempts, valid \in BOOLEAN :
       Enqueue(r, max, valid)
  \/ ClaimStep
  \/ \E lease \in leases : LeaseStep(lease)
  \/ \E batch \in SUBSET Runs : RecoverStale(batch)
  \/ \E r \in Runs : BecomeDue(r) \/ BecomeStale(r)

Spec == Init /\ [][Next]_vars
-----------------------------------------------------------------------------
(* What the store promises.                                                *)

(* Completions and heartbeats carry only the worker's id, not the attempt  *)
(* they belong to.  That is enough: whenever a lease still passes Owns, the*)
(* row is at the very attempt the lease was claimed for, so a worker whose *)
(* run was recovered and claimed again cannot decide the newer attempt.    *)
LeaseFencesAttempt ==
  \A lease \in leases :
    Owns(lease) =>
      /\ runs[lease.run].attempts = lease.attempt
      /\ runs[lease.run].max = lease.max

(* claim skips a row without attempts left, and nothing else touches a     *)
(* queued row: fail and recover_stale must never requeue such a row, or it *)
(* would stay queued forever.                                              *)
NoStrandedRun ==
  \A r \in Runs :
    runs[r].status = "queued" => runs[r].attempts < runs[r].max

(* A finished row is whole: a success has the answer of the row's last     *)
(* attempt, no error and a summary to deliver; a failure has an error; and *)
(* nothing unfinished has an answer, a summary or a completion time.       *)
FinishedRowIsWhole ==
  \A r \in Runs :
    LET row == runs[r]
    IN  /\ row.completed <=> row.status \in Terminal
        /\ r \in outbox <=> row.status = "succeeded"
        /\ row.status = "succeeded" =>
             row.result = row.attempts /\ row.error = "none"
        /\ row.status # "succeeded" => row.result = 0
        /\ row.status = "failed" => row.error # "none"

(* The status the events of a run leave it in. *)
StatusAfter(type) ==
  CASE type \in {"queued", "retry_scheduled", "stale_recovered"} -> "queued"
    [] type = "started" -> "running"
    [] OTHER -> type

(* Where a log tells of the run: everywhere but in the reports of a lost   *)
(* lease, which change nothing.                                            *)
Told(log) == {i \in DOMAIN log : log[i].type # "worker_lease_lost"}

Starts(log) == {i \in DOMAIN log : log[i].type = "started"}

(* An attempt that started ends, with its own number; a run that waits     *)
(* starts or is given up.                                                  *)
Follows(before, after) ==
  IF before.type = "started"
  THEN /\ after.type \in {"retry_scheduled", "stale_recovered"} \cup Terminal
       /\ after.attempt = before.attempt
  ELSE /\ StatusAfter(before.type) = "queued"
       /\ after.type \in {"started", "failed"}

(* The attempts that began: a quarantine pays for one that did not. *)
Begun(row) ==
  row.attempts - (IF row.error = "invalid_persisted_configuration" THEN 1 ELSE 0)

Tells(log, row) ==
  LET told == Told(log)
  IN  /\ row.status = "absent" <=> told = {}
      /\ \A i \in told :
           /\ (\A j \in told : i <= j) => log[i] = Record("queued", 0)
           /\ (\A j \in told : j <= i) => StatusAfter(log[i].type) = row.status
      /\ \A i, j \in told :
           i < j /\ told \cap i+1..j-1 = {} => Follows(log[i], log[j])
      /\ {log[i].attempt : i \in Starts(log)} = 1..Begun(row)
      /\ \A i, j \in Starts(log) : i < j => log[i].attempt < log[j].attempt

(* Row and log are written together: replaying the events of a run gives   *)
(* the row's status, starts are numbered by the attempts they began, and   *)
(* an attempt that ended did so with its own number, once.                 *)
EventLogTellsHistory ==
  \A r \in Runs \ LegacyRuns : Tells(events[r], runs[r])

(* Nothing a late worker, a retried call or a recovery does changes a run  *)
(* the client has already seen finished.                                   *)
TerminalIsFinal ==
  [][\A r \in Runs :
       runs[r].status \in Terminal =>
         /\ runs'[r] = runs[r]
         /\ r \in outbox' <=> r \in outbox]_vars

(* What the client observes of a run is what RunLifecycle promises. *)
Lifecycle ==
  INSTANCE RunLifecycle WITH
    life <- [r \in Runs |-> [status   |-> runs[r].status,
                             attempts |-> runs[r].attempts,
                             max      |-> runs[r].max]]

ImplementsLifecycle == Lifecycle!Spec
=============================================================================
