---------------------------- MODULE Transactions ----------------------------
(***************************************************************************)
(* The transactions of run_store.py one SQL statement at a time, as        *)
(* PostgreSQL runs them at READ COMMITTED for several connections at once. *)
(* RunStore takes each of them as one atomic step; this module shows that  *)
(* the row locks the code takes make that true, and that the numbers       *)
(* _append_event computes with MAX(sequence) + 1 never collide.            *)
(*                                                                         *)
(* A statement sees the committed rows and what its own transaction wrote. *)
(* UPDATE and FOR UPDATE wait for a row another transaction has locked and *)
(* then test their WHERE clause again; SKIP LOCKED passes over such rows.  *)
(* A wait is a guard that is not yet true.  A completion whose WHERE clause*)
(* does not hold writes nothing and is left out.                           *)
(*                                                                         *)
(* A transaction may be rolled back between any two statements: a broken   *)
(* connection, command_timeout, a cancelled task, a worker that died.  A   *)
(* connection that was given up is over at the server before the worker    *)
(* makes its next claim or lets go of its lease.                           *)
(***************************************************************************)
EXTENDS Naturals, Sequences, FiniteSets, SequencesExt

CONSTANTS
  Runs, Workers, NULL, MaxAttempts, MaxQuarantined, RecoveryBatch, LegacyRuns,
  Sessions         \* the connections of all pools, API and workers

(* A table holds finitely many rows. *)
ASSUME SessionAssumption ==
  /\ NULL \notin Sessions \cup Workers
  /\ {MaxAttempts, MaxQuarantined, RecoveryBatch} \subseteq Nat \ {0}
  /\ LegacyRuns \subseteq Runs
  /\ IsFiniteSet(Runs)

VARIABLES
  runs,     \* the committed rows of rlm_runs
  log,      \* log[r]: the committed rows of rlm_events, a set
  outbox,   \* the committed keys of rlm_summary_outbox
  leases,   \* as in RunStore
  lock,     \* lock[r]: the session that holds the lock of row r, or NULL
  tx        \* tx[s]: the open transaction of session s

tvars == <<runs, log, outbox, leases, lock, tx>>

(* The log of a run as a reader sees it, ORDER BY sequence; that the numbers*)
(* are 1, 2, ... is EventNumbersUnique.                                    *)
InOrder(entries) ==
  [i \in 1..Cardinality(entries) |->
     (CHOOSE entry \in entries : entry.sequence = i).event]

Store ==
  INSTANCE RunStore WITH events <- [r \in Runs |-> InOrder(log[r])]

(* The open transaction of a session.                                      *)
(*   op       the method: enqueue, claim, succeed, fail, add_event, recover*)
(*   stage    the statement it executes next                               *)
(*   run      the row it is about, or NULL                                 *)
(*   lease    of a claim: the one it gives, or NULL                        *)
(*   event    the event it appends next, or NULL                           *)
(*   written  a partial function: the versions of rows only it sees        *)
(*   added    its event rows of each run, records of sequence and event    *)
(*   summary  the runs whose outbox row it has inserted                    *)
(*   todo     the rows a recovery has selected                             *)
NoTx ==
  [op |-> "none", stage |-> "idle", run |-> NULL, lease |-> NULL,
   event |-> NULL, written |-> [r \in {} |-> NULL],
   added |-> [r \in Runs |-> {}], summary |-> {}, todo |-> {}]

TxInit ==
  /\ runs = [r \in Runs |-> IF r \in LegacyRuns THEN Store!LegacyRow
                                                ELSE Store!NoRow]
  /\ log = [r \in Runs |-> {}]
  /\ outbox = {}
  /\ leases = {}
  /\ lock = [r \in Runs |-> NULL]
  /\ tx = [s \in Sessions |-> NoTx]

Tables == <<runs, log, outbox, leases>>
-----------------------------------------------------------------------------
At(s, stage) == tx[s].stage = stage

Open(s, t) == tx' = [tx EXCEPT ![s] = t]

(* The rows session s may lock or write now without waiting. *)
Unlocked(s, r) == lock[r] \in {NULL, s}

Lock(s, R) == lock' = [r \in Runs |-> IF r \in R THEN s ELSE lock[r]]

(* t after it wrote a version of row r that only it sees. *)
Wrote(t, r, row) ==
  [t EXCEPT !.run = r,
            !.written = [x \in DOMAIN @ \cup {r} |-> IF x = r THEN row ELSE @[x]]]

(* INSERT INTO rlm_runs under a fresh uuid. *)
EnqueueInsert(s, r, max, valid) ==
  /\ At(s, "idle")
  /\ runs[r].status = "absent"
  /\ lock[r] = NULL
  /\ Lock(s, {r})
  /\ Open(s, [Wrote(tx[s], r, Store!Enqueued(max, valid)) EXCEPT
                !.op = "enqueue", !.stage = "lock",
                !.event = Store!Record("queued", 0)])
  /\ UNCHANGED Tables

(* The rows _CLAIM_RUN_SQL chooses from: FOR UPDATE SKIP LOCKED. *)
CandidatesAndLocked(s) ==         \* broken: FOR UPDATE without SKIP LOCKED
  {r \in Runs \ DOMAIN tx[s].written : Store!Claimable(r)}

Candidates(s) ==
  {r \in Runs \ DOMAIN tx[s].written : Store!Claimable(r) /\ lock[r] = NULL}

(* A worker makes one claim at a time, and none while it works on another. *)
MayClaim(s, w) ==
  \/ /\ At(s, "idle")
     /\ Store!Idle(w)
     /\ \A x \in Sessions : tx[x].op = "claim" => tx[x].lease.worker # w
  \/ /\ At(s, "candidate")
     /\ tx[s].lease.worker = w

ClaimCandidate(s, w, r) ==
  /\ MayClaim(s, w)
  /\ r \in Candidates(s)
  /\ Unlocked(s, r)
  /\ Lock(s, {r})
  /\ Open(s, [Wrote(tx[s], r, Store!Claimed(runs[r], w)) EXCEPT
                !.op = "claim", !.lease = Store!LeaseOf(w, r),
                !.stage = IF runs[r].valid THEN "lock" ELSE "quarantine",
                !.event = Store!Record("started", runs[r].attempts + 1)])
  /\ UNCHANGED Tables

ClaimNoCandidate(s) ==
  /\ At(s, "candidate")
  /\ Candidates(s) = {}
  /\ Open(s, [tx[s] EXCEPT !.stage = "commit"])
  /\ UNCHANGED <<Tables, lock>>

(* decode_claimed_run raised for the row this transaction just claimed. *)
QuarantineUpdate(s) ==
  LET row == tx[s].written[tx[s].run]
  IN  /\ At(s, "quarantine")
      /\ Open(s, [Wrote(tx[s], tx[s].run,
                    [row EXCEPT !.status = "failed", !.worker = NULL,
                                !.error = "invalid_persisted_configuration",
                                !.completed = TRUE, !.stale = FALSE])
                  EXCEPT !.stage = "lock", !.event = Store!Record("failed", 0)])
      /\ UNCHANGED <<Tables, lock>>

(* An autocommitted UPDATE: it waits for the row, writes it and is done. *)
Heartbeat(lease) ==
  /\ Store!Owns(lease)
  /\ lock[lease.run] = NULL
  /\ runs' = [runs EXCEPT ![lease.run].stale = FALSE]
  /\ UNCHANGED <<log, outbox, leases, lock, tx>>

SucceedUpdate(s, lease) ==
  /\ At(s, "idle")
  /\ Store!Owns(lease)
  /\ lock[lease.run] = NULL
  /\ Lock(s, {lease.run})
  /\ Open(s, [Wrote(tx[s], lease.run,
                    Store!Succeeded(runs[lease.run], lease.attempt)) EXCEPT
                !.op = "succeed", !.lease = lease, !.stage = "outbox",
                !.event = Store!Record("succeeded", lease.attempt)])
  /\ UNCHANGED Tables

SucceedOutbox(s) ==
  /\ At(s, "outbox")
  /\ Open(s, [tx[s] EXCEPT !.summary = {tx[s].run}, !.stage = "lock"])
  /\ UNCHANGED <<Tables, lock>>

FailUpdate(s, lease, retryable) ==
  LET next == Store!failure_status(lease.attempt, lease.max, retryable)
  IN  /\ At(s, "idle")
      /\ Store!ValidCounters(lease.attempt, lease.max)
      /\ Store!Owns(lease)
      /\ lock[lease.run] = NULL
      /\ Lock(s, {lease.run})
      /\ Open(s, [Wrote(tx[s], lease.run,
                    Store!Unfinished(runs[lease.run], next, "attempt_failed"))
                  EXCEPT
                  !.op = "fail", !.lease = lease, !.stage = "lock",
                  !.event = Store!Record(
                    IF next = "queued" THEN "retry_scheduled" ELSE "failed",
                    lease.attempt)])
      /\ UNCHANGED Tables

(* add_event begins with the lock of _append_event and holds nothing yet. *)
AddEvent(s, lease) ==
  LET event == Store!Record("worker_lease_lost", lease.attempt)
  IN  /\ At(s, "idle")
      /\ \A entry \in log[lease.run] : entry.event # event
      /\ \A x \in Sessions : tx[x].op = "add_event" => tx[x].lease # lease
      /\ Open(s, [tx[s] EXCEPT !.op = "add_event", !.stage = "lock",
                    !.run = lease.run, !.lease = lease, !.event = event])
      /\ UNCHANGED <<Tables, lock>>
-----------------------------------------------------------------------------
(* recover_stale: one SELECT locks the batch, then row after row is        *)
(* updated and gets its event.  A row for which failure_status raises ends *)
(* the transaction: it can only be rolled back.                            *)
RecoverLocksNothing(s, R) == UNCHANGED lock   \* broken: no FOR UPDATE

RecoverLocks(s, R) == Lock(s, R)

StaleRows == {r \in Runs : Store!Stale(r) /\ lock[r] = NULL}

RecoverSelect(s) ==
  /\ At(s, "idle")
  /\ \E batch \in kSubset(Min({RecoveryBatch, Cardinality(StaleRows)}), StaleRows) :
       /\ batch # {}
       /\ RecoverLocks(s, batch)
       /\ Open(s, [tx[s] EXCEPT !.op = "recover", !.stage = "update",
                               !.todo = batch])
  /\ UNCHANGED Tables

RecoverUpdate(s, r) ==
  /\ At(s, "update")
  /\ r \in tx[s].todo
  /\ Store!ValidCounters(runs[r].attempts, runs[r].max)
  /\ Unlocked(s, r)
  /\ Lock(s, {r})
  /\ Open(s, [Wrote(tx[s], r, Store!Recovered(runs[r])) EXCEPT
                !.stage = "lock", !.todo = @ \ {r},
                !.event = Store!RecoveryEvent(runs[r],
                                              Store!NextStatus(runs[r]))])
  /\ UNCHANGED Tables
-----------------------------------------------------------------------------
(* _append_event: SELECT ... FOR UPDATE of the run, then the INSERT.       *)
AppendLocksNothing(s) ==          \* broken: the SELECT without FOR UPDATE
  /\ At(s, "lock")
  /\ Open(s, [tx[s] EXCEPT !.stage = "insert"])
  /\ UNCHANGED <<Tables, lock>>

AppendLock(s) ==
  /\ At(s, "lock")
  /\ Unlocked(s, tx[s].run)
  /\ Lock(s, {tx[s].run})
  /\ Open(s, [tx[s] EXCEPT !.stage = "insert"])
  /\ UNCHANGED Tables

Numbers(entries) == {entry.sequence : entry \in entries}

Seen(s, r) == log[r] \cup tx[s].added[r]

(* COALESCE(MAX(sequence), 0) + 1 *)
NextNumber(entries) == Max(Numbers(entries) \cup {0}) + 1

(* What follows the event: the next row, the next candidate, or the end. *)
AfterInsert(t) ==
  IF t.op = "recover" /\ t.todo # {} THEN "update"
  ELSE IF /\ t.op = "claim" /\ t.event.type = "failed"
          /\ Cardinality(DOMAIN t.written) < MaxQuarantined
       THEN "candidate" ELSE "commit"

AddTo(added, r, entry) == [added EXCEPT ![r] = @ \cup {entry}]

AppendInsert(s) ==
  LET r == tx[s].run
      entry == [sequence |-> NextNumber(Seen(s, r)), event |-> tx[s].event]
  IN  /\ At(s, "insert")
      /\ Open(s, [tx[s] EXCEPT !.added = AddTo(@, r, entry),
                               !.stage = AfterInsert(tx[s])])
      /\ UNCHANGED <<Tables, lock>>
-----------------------------------------------------------------------------
Unlock(s) == lock' = [r \in Runs |-> IF lock[r] = s THEN NULL ELSE lock[r]]

(* The lease claim returns, if it found a row. *)
Returned(t) ==
  IF t.op = "claim" /\ t.event.type = "started" THEN {t.lease} ELSE {}

(* The answer of a committed claim may be lost; the other answers tell the *)
(* tables nothing.                                                         *)
Commit(s) ==
  /\ At(s, "commit")
  /\ runs' = [r \in Runs |-> IF r \in DOMAIN tx[s].written
                             THEN tx[s].written[r] ELSE runs[r]]
  /\ log' = [r \in Runs |-> Seen(s, r)]
  /\ outbox' = outbox \cup tx[s].summary
  /\ \E arrived \in {Returned(tx[s]), {}} : leases' = leases \cup arrived
  /\ Unlock(s)
  /\ Open(s, NoTx)

Rollback(s) ==
  /\ ~At(s, "idle")
  /\ Unlock(s)
  /\ Open(s, NoTx)
  /\ UNCHANGED Tables

(* process_claim is over, and none of its calls is open. *)
Release(lease) ==
  /\ \A s \in Sessions : tx[s].op \in {"succeed", "fail", "add_event"} =>
                           tx[s].lease # lease
  /\ leases' = leases \ {lease}
  /\ UNCHANGED <<runs, log, outbox, lock, tx>>

Clock(r) ==
  /\ UNCHANGED <<log, lock, tx>>
  /\ Store!BecomeDue(r) \/ Store!BecomeStale(r)

(* The first statement of a call. *)
Begin(s) ==
  \/ \E r \in Runs, max \in 1..MaxAttempts, valid \in BOOLEAN :
       EnqueueInsert(s, r, max, valid)
  \/ \E lease \in leases :
       \/ SucceedUpdate(s, lease)
       \/ \E retryable \in BOOLEAN : FailUpdate(s, lease, retryable)
       \/ AddEvent(s, lease)
  \/ RecoverSelect(s)

(* A later statement, or the COMMIT; ClaimCandidate may be either. *)
Statement(s) ==
  \/ \E w \in Workers, r \in Runs : ClaimCandidate(s, w, r)
  \/ ClaimNoCandidate(s)
  \/ QuarantineUpdate(s)
  \/ SucceedOutbox(s)
  \/ \E r \in Runs : RecoverUpdate(s, r)
  \/ AppendLock(s)
  \/ AppendInsert(s)
  \/ Commit(s)

TxNext ==
  \/ \E s \in Sessions : Begin(s) \/ Statement(s) \/ Rollback(s)
  \/ \E lease \in leases : Heartbeat(lease) \/ Release(lease)
  \/ \E r \in Runs : Clock(r)

TxSpec == TxInit /\ [][TxNext]_tvars
-----------------------------------------------------------------------------
(* rlm_events has the primary key (run_id, sequence), so two transactions  *)
(* that compute the same MAX(sequence) + 1 would make one of them fail and *)
(* lose a result with it.  No number is ever computed twice for a run, and *)
(* the committed numbers have no holes.                                    *)
EventNumbersUnique ==
  \A r \in Runs :
    /\ Numbers(log[r]) = 1..Cardinality(log[r])
    /\ \A s \in Sessions :
         /\ Numbers(tx[s].added[r]) \cap Numbers(log[r]) = {}
         /\ \A x \in Sessions \ {s} :
              Numbers(tx[s].added[r]) \cap Numbers(tx[x].added[r]) = {}

(* A transaction that has locked a row can always execute its next         *)
(* statement at once: nobody who holds a lock waits for one, so the        *)
(* transactions of the store never deadlock, and a call waits at most for  *)
(* one other.                                                              *)
HoldersNeverWait ==
  \A s \in Sessions :
    (\E r \in Runs : lock[r] = s) => ENABLED Statement(s)

(* Read at their commits, the transactions are the atomic steps of         *)
(* RunStore: interleaved statements, waits and rollbacks show the tables   *)
(* nothing else.                                                           *)
ImplementsRunStore == Store!Spec
=============================================================================
