--------------------------- MODULE RunStoreProofs ---------------------------
(***************************************************************************)
(* Machine-checked theorems about RunStore, for any sets of runs and       *)
(* workers and any values of the bounds.                                   *)
(*                                                                         *)
(* The argument.  A row changes only by one of a few functions of the row  *)
(* (Enqueued, Claimed, Quarantined, Unfinished, Succeeded, and the two     *)
(* clock flags), so the row part of the invariant and the refinement of    *)
(* RunLifecycle are proved once per function, about one row.  What ties    *)
(* rows and leases together is LeaseFencesAttempt; it is inductive only    *)
(* with LeasesApart, which Claim's guard Idle maintains: a new claim of a  *)
(* row by w meets no older lease of w on that row.                         *)
(*                                                                         *)
(* The log of a run is related to its row by Tells, which is inductive     *)
(* with RejectedForGood.  EventTells is the one step of the argument that  *)
(* is about sequences: an event that follows the last one of a log, and    *)
(* leads to the status of the new row, extends the history.  NextLogStep   *)
(* then says what each action writes to the row and to the log.            *)
(***************************************************************************)
EXTENDS RunStore, FiniteSetTheorems, SequenceTheorems, TLAPS

(* A row on its own. *)
RowInv(row) ==
  /\ row.status = "absent" => row.attempts = 0 /\ row.max = 0
  /\ row.status # "absent" => row.max > 0
  /\ row.attempts <= row.max
  /\ row.status = "queued" => row.attempts < row.max
  /\ row.status = "running" =>
       IF row.worker = NULL THEN row.attempts = 0 ELSE row.attempts > 0
  /\ row.status # "running" => row.worker = NULL
  /\ row.completed <=> row.status \in Terminal
  /\ row.status = "succeeded" => row.result = row.attempts /\ row.error = "none"
  /\ row.status # "succeeded" => row.result = 0
  /\ row.status = "failed" => row.error # "none"

RowsInv == \A r \in Runs : RowInv(runs[r])

OutboxInv == \A r \in Runs : r \in outbox <=> runs[r].status = "succeeded"

(* A lease is never ahead of its row. *)
LeaseInv(lease) ==
  /\ runs[lease.run].status # "absent"
  /\ lease.max = runs[lease.run].max
  /\ lease.attempt > 0
  /\ lease.attempt <= runs[lease.run].attempts

LeasesInv == \A lease \in leases : LeaseInv(lease)

(* No worker has two, and no attempt of a run was leased twice. *)
LeasesApart ==
  \A a, b \in leases :
    (a.worker = b.worker \/ (a.run = b.run /\ a.attempt = b.attempt)) => a = b

Inv ==
  /\ TypeOK
  /\ RowsInv
  /\ OutboxInv
  /\ LeasesInv
  /\ LeasesApart
  /\ LeaseFencesAttempt
-----------------------------------------------------------------------------
(* The functions of a row. *)

(* A fresh row is a legal row. *)
LEMMA EnqueuedRow ==
  ASSUME NEW max \in 1..MaxAttempts, NEW valid \in BOOLEAN
  PROVE  /\ Enqueued(max, valid) \in Row
         /\ RowInv(Enqueued(max, valid))
<1>1. max \in Counter /\ 0 \in Counter /\ max > 0 /\ max \in Nat
  BY StoreAssumption DEF Counter
<1>2. NoRow \in Row
  BY <1>1 DEF NoRow, Row, Status, Errors
<1>3. Enqueued(max, valid) \in Row
  BY <1>1, <1>2 DEF Enqueued, NoRow, Row, Status
<1>4. RowInv(Enqueued(max, valid))
  BY <1>1 DEF Enqueued, NoRow, RowInv, Terminal
<1> QED
  BY <1>3, <1>4

(* Claiming a legal queued row gives a legal running row. *)
LEMMA ClaimedRow ==
  ASSUME NEW row \in Row, NEW w \in Workers,  RowInv(row), row.status = "queued"
  PROVE  /\ Claimed(row, w) \in Row
         /\ RowInv(Claimed(row, w))
<1>1. /\ row.attempts \in Nat /\ row.max \in Nat
      /\ row.attempts + 1 \in Counter
      /\ row.attempts < row.max
  BY StoreAssumption DEF Row, RowInv, Counter
<1>2. Claimed(row, w) \in Row
  BY <1>1 DEF Claimed, Row, Status, Errors
<1>3. RowInv(Claimed(row, w))
  BY <1>1, StoreAssumption DEF Claimed, Row, RowInv, Terminal
<1> QED
  BY <1>2, <1>3

(* Quarantining a legal queued row gives a legal failed row. *)
LEMMA QuarantinedRow ==
  ASSUME NEW row \in Row,  RowInv(row), row.status = "queued"
  PROVE  /\ Quarantined(row) \in Row
         /\ RowInv(Quarantined(row))
<1>1. /\ row.attempts \in Nat /\ row.max \in Nat
      /\ row.attempts + 1 \in Counter
      /\ row.attempts < row.max
  BY StoreAssumption DEF Row, RowInv, Counter
<1>2. Quarantined(row) \in Row
  BY <1>1 DEF Quarantined, Row, Status, Errors
<1>3. RowInv(Quarantined(row))
  BY <1>1, StoreAssumption DEF Quarantined, Row, RowInv, Terminal
<1> QED
  BY <1>2, <1>3

(* A running row at a counted attempt may be requeued when it has attempts *)
(* left, and failed in any case.                                           *)
LEMMA UnfinishedRow ==
  ASSUME NEW row \in Row,  NEW status \in {"queued", "failed"},
         NEW error \in {"attempt_failed", "worker_heartbeat_expired"},
         RowInv(row), row.status = "running",
         status = "queued" => row.attempts < row.max
  PROVE  /\ Unfinished(row, status, error) \in Row
         /\ RowInv(Unfinished(row, status, error))
<1> DEFINE next == Unfinished(row, status, error)
<1>1. next = [row EXCEPT !.status = status, !.error = error, !.worker = NULL,
                         !.due = @ /\ status = "failed", !.stale = FALSE,
                         !.completed = status = "failed"]
  BY DEF Unfinished
<1>2. next \in Row
  BY <1>1 DEF Row, Status, Errors
<1>3. /\ next.status = status /\ next.error = error /\ next.worker = NULL
      /\ next.completed = (status = "failed")
      /\ next.attempts = row.attempts /\ next.max = row.max
      /\ next.result = row.result
  BY <1>1 DEF Row
<1> HIDE DEF next
<1>4. row.max > 0 /\ row.attempts <= row.max /\ row.result = 0
  BY DEF RowInv
<1>5. RowInv(next)
  BY <1>3, <1>4 DEF RowInv, Terminal
<1> QED
  BY <1>2, <1>5 DEF next

(* A running row decided by the lease of its attempt is a whole success. *)
LEMMA SucceededRow ==
  ASSUME NEW row \in Row,  RowInv(row), row.status = "running"
  PROVE  /\ Succeeded(row, row.attempts) \in Row
         /\ RowInv(Succeeded(row, row.attempts))
BY StoreAssumption DEF Succeeded, Row, RowInv, Status, Terminal, Counter, Errors

(* The clock flags carry no promise. *)
LEMMA FlaggedRow ==
  ASSUME NEW row \in Row, RowInv(row),
         NEW flag \in BOOLEAN
  PROVE  /\ [row EXCEPT !.due = flag] \in Row
         /\ RowInv([row EXCEPT !.due = flag])
         /\ [row EXCEPT !.stale = flag] \in Row
         /\ RowInv([row EXCEPT !.stale = flag])
BY DEF Row, RowInv, Status, Terminal, Counter, Errors

(* failure_status requeues only an attempt that has a successor. *)
LEMMA FailureStatus ==
  ASSUME NEW attempts \in Nat, NEW max \in Nat, NEW retryable \in BOOLEAN
  PROVE  /\ failure_status(attempts, max, retryable) \in {"queued", "failed"}
         /\ failure_status(attempts, max, retryable) = "queued" => attempts < max
BY DEF failure_status

(* Appending an event keeps a log a log. *)
LEMMA AppendedEvent ==
  ASSUME NEW log \in Seq(Event), NEW type \in EventTypes, NEW attempt \in Counter
  PROVE  Append(log, Record(type, attempt)) \in Seq(Event)
BY DEF Record, Event

(* append_event keeps the logs logs. *)
LEMMA LoggedEvent ==
  ASSUME TypeOK, NEW r \in Runs, NEW type \in EventTypes, NEW attempt \in Counter
  PROVE  append_event(r, Record(type, attempt)) \in [Runs -> Seq(Event)]
<1>1. Append(events[r], Record(type, attempt)) \in Seq(Event)
  BY AppendedEvent DEF TypeOK
<1> QED
  BY <1>1 DEF TypeOK, append_event
-----------------------------------------------------------------------------
(* The leases.  A step leaves each row with the owner it had, at the same  *)
(* attempt, or with none, or with a worker that had no lease at all.       *)
KeepsOwner(a, b) ==
  /\ a.status # "absent" =>
       b.status # "absent" /\ b.max = a.max /\ b.attempts >= a.attempts
  /\ b.status = "running" /\ b.worker # NULL =>
       \/ a.status = "running" /\ a.worker = b.worker /\ a.attempts = b.attempts
       \/ Idle(b.worker)

Fenced(lease) ==
  Owns(lease) => /\ runs[lease.run].attempts = lease.attempt
                 /\ runs[lease.run].max = lease.max

(* Such a step keeps what ties a lease to its row. *)
LEMMA OldLease ==
  ASSUME Inv, runs' \in [Runs -> Row],
         \A r \in Runs : KeepsOwner(runs[r], runs'[r]),
         NEW lease \in leases
  PROVE  LeaseInv(lease)' /\ Fenced(lease)'
<1>1. /\ lease.run \in Runs /\ lease.worker \in Workers
      /\ lease.attempt \in Nat /\ lease.worker # NULL
  BY StoreAssumption DEF Inv, TypeOK, Lease, Counter
<1>2. /\ runs[lease.run].attempts \in Nat
      /\ runs'[lease.run].attempts \in Nat
  BY <1>1, StoreAssumption DEF Inv, TypeOK, Row, Counter
<1>3. KeepsOwner(runs[lease.run], runs'[lease.run]) /\ LeaseInv(lease)
  BY <1>1 DEF Inv, LeasesInv
<1>4. LeaseInv(lease)'
  BY <1>1, <1>2, <1>3 DEF KeepsOwner, LeaseInv
<1>5. Owns(lease)' => /\ Owns(lease)
                      /\ runs'[lease.run].attempts = runs[lease.run].attempts
  BY <1>1, <1>3 DEF KeepsOwner, Owns, Idle
<1>6. Fenced(lease)'
  BY <1>4, <1>5 DEF Fenced, Inv, LeaseFencesAttempt, LeaseInv
<1> QED
  BY <1>4, <1>6

(* Hence a step that adds no lease keeps the lease part of Inv. *)
LEMMA LeasesKept ==
  ASSUME Inv, runs' \in [Runs -> Row], leases' \subseteq leases,
         \A r \in Runs : KeepsOwner(runs[r], runs'[r])
  PROVE  LeasesInv' /\ LeasesApart' /\ LeaseFencesAttempt'
<1>1. LeasesApart'
  BY DEF Inv, LeasesApart
<1>2. \A lease \in leases' : LeaseInv(lease)' /\ Fenced(lease)'
  BY OldLease
<1> QED
  BY <1>1, <1>2 DEF LeasesInv, LeaseFencesAttempt, Fenced

(* What an owned lease knows of its row. *)
LEMMA OwnedLease ==
  ASSUME Inv, NEW lease \in leases, Owns(lease)
  PROVE  /\ lease.run \in Runs /\ lease.worker \in Workers
         /\ lease.attempt \in Counter /\ lease.max \in Counter
         /\ runs[lease.run] \in Row
         /\ RowInv(runs[lease.run])
         /\ runs[lease.run].status = "running"
         /\ runs[lease.run].attempts = lease.attempt
         /\ runs[lease.run].max = lease.max
BY DEF Inv, TypeOK, Lease, RowsInv, Owns, LeaseFencesAttempt
-----------------------------------------------------------------------------
(* The initial state and every action. *)

LEMMA InitInv == Init => Inv
<1> SUFFICES ASSUME Init PROVE Inv
  OBVIOUS
<1> USE DEF Init
<1>1. 0 \in Counter /\ MaxAttempts \in Counter /\ MaxAttempts > 0
  BY StoreAssumption DEF Counter
<1>2. NoRow \in Row /\ LegacyRow \in Row
  BY <1>1 DEF NoRow, LegacyRow, Row, Status, Errors
<1>3. RowInv(NoRow) /\ RowInv(LegacyRow)
  BY <1>1, StoreAssumption DEF NoRow, LegacyRow, RowInv, Terminal
<1>4. TypeOK
  BY <1>2 DEF TypeOK
<1>5. RowsInv /\ OutboxInv
  BY <1>3 DEF RowsInv, OutboxInv, NoRow, LegacyRow
<1> QED
  BY <1>4, <1>5 DEF Inv, LeasesInv, LeasesApart, LeaseFencesAttempt

(* Enqueue fills an empty row, which no lease is about. *)
LEMMA EnqueueInv ==
  ASSUME Inv, NEW r \in Runs, NEW max \in 1..MaxAttempts, NEW valid \in BOOLEAN,
         Enqueue(r, max, valid)
  PROVE  Inv'
<1> USE DEF Enqueue
<1>1. Enqueued(max, valid) \in Row /\ RowInv(Enqueued(max, valid))
  BY EnqueuedRow
<1>2. TypeOK'
  <2>1. events' \in [Runs -> Seq(Event)]
    BY LoggedEvent, StoreAssumption DEF Inv, EventTypes, Counter
  <2> QED
    BY <1>1, <2>1 DEF Inv, TypeOK
<1>3. RowsInv' /\ OutboxInv'
  BY <1>1 DEF Inv, TypeOK, RowsInv, OutboxInv, Enqueued, NoRow
<1>4. LeasesInv' /\ LeasesApart' /\ LeaseFencesAttempt'
  <2>1. ASSUME NEW x \in Runs PROVE KeepsOwner(runs[x], runs'[x])
    <3>1. CASE x = r
      BY <3>1 DEF Inv, TypeOK, KeepsOwner, Enqueued, NoRow
    <3>2. CASE x # r
      <4>1. runs[x].attempts \in Nat /\ runs'[x] = runs[x]
        BY <3>2, StoreAssumption DEF Inv, TypeOK, Row, Counter
      <4> QED
        BY <4>1 DEF KeepsOwner
    <3> QED
      BY <3>1, <3>2
  <2> QED
    BY <1>2, <2>1, LeasesKept DEF TypeOK
<1> QED
  BY <1>2, <1>3, <1>4 DEF Inv

(* The rows after a claim transaction, whether or not its answer arrives. *)
LEMMA ClaimTxRows ==
  ASSUME Inv, NEW w \in Workers, NEW r \in Runs, NEW poison \in SUBSET Runs,
         ClaimTx(w, r, poison), Idle(w)
  PROVE  /\ runs' \in [Runs -> Row]
         /\ events' \in [Runs -> Seq(Event)]
         /\ RowsInv' /\ OutboxInv'
         /\ \A x \in Runs : KeepsOwner(runs[x], runs'[x])
         /\ LeaseOf(w, r) \in Lease
         /\ runs'[r] = Claimed(runs[r], w)
<1> USE DEF ClaimTx
<1>1. \A x \in poison \cup {r} : runs[x].status = "queued"
  BY DEF Claimable, Poisoned
<1>2. \A x \in Runs :
        /\ runs[x] \in Row /\ RowInv(runs[x])
        /\ runs[x].attempts \in Nat /\ runs[x].max \in Nat
  BY StoreAssumption DEF Inv, TypeOK, RowsInv, Row, Counter
<1>3. ASSUME NEW x \in Runs
      PROVE  \/ x = r /\ runs'[x] = Claimed(runs[x], w)
             \/ /\ x # r /\ x \in poison
                /\ runs'[x] = Quarantined(runs[x])
             \/ x # r /\ runs'[x] = runs[x]
  OBVIOUS
<1>4. ASSUME NEW x \in Runs
      PROVE  /\ runs'[x] \in Row /\ RowInv(runs'[x])
             /\ runs'[x].status = "succeeded" <=> runs[x].status = "succeeded"
             /\ KeepsOwner(runs[x], runs'[x])
  <2>1. CASE x = r
    <3>1. runs'[x] \in Row /\ RowInv(runs'[x])
      BY <1>1, <1>2, <1>3, <2>1, ClaimedRow
    <3>2. /\ runs'[x].status = "running" /\ runs'[x].worker = w
          /\ runs'[x].attempts = runs[x].attempts + 1
          /\ runs'[x].max = runs[x].max
      BY <1>2, <1>3, <2>1 DEF Claimed, Row
    <3> QED
      BY <1>1, <1>2, <2>1, <3>1, <3>2 DEF KeepsOwner
  <2>2. CASE x # r /\ runs'[x] = Quarantined(runs[x]) /\ x \in poison
    <3>1. runs'[x] \in Row /\ RowInv(runs'[x])
      BY <1>1, <1>2, <2>2, QuarantinedRow
    <3>2. /\ runs'[x].status = "failed"
          /\ runs'[x].attempts = runs[x].attempts + 1
          /\ runs'[x].max = runs[x].max
      <4> DEFINE row == runs[x]
      <4>1. row \in Row
        BY <1>2
      <4> HIDE DEF row
      <4>2. /\ Quarantined(row).status = "failed"
            /\ Quarantined(row).attempts = row.attempts + 1
            /\ Quarantined(row).max = row.max
        BY <4>1 DEF Quarantined, Row
      <4> QED
        BY <2>2, <4>2 DEF row
    <3> QED
      BY <1>1, <1>2, <2>2, <3>1, <3>2 DEF KeepsOwner
  <2>3. CASE runs'[x] = runs[x]
    BY <1>2, <2>3 DEF KeepsOwner
  <2> QED
    BY <1>3, <2>1, <2>2, <2>3
<1>5. runs' \in [Runs -> Row]
  BY <1>4
<1>6. RowsInv' /\ OutboxInv'
  BY <1>4 DEF Inv, RowsInv, OutboxInv
<1>7. runs[r].attempts + 1 \in Counter /\ runs[r].max \in Counter /\ 0 \in Counter
  BY <1>1, <1>2, StoreAssumption DEF Row, RowInv, Counter
<1>8. events' \in [Runs -> Seq(Event)]
  <2>1. Append(events[r], Record("started", runs[r].attempts + 1)) \in Seq(Event)
    BY <1>7, AppendedEvent DEF Inv, TypeOK, EventTypes
  <2>2. \A x \in Runs : Append(events[x], Record("failed", 0)) \in Seq(Event)
    BY <1>7, AppendedEvent DEF Inv, TypeOK, EventTypes
  <2> QED
    BY <2>1, <2>2 DEF Inv, TypeOK
<1>9. LeaseOf(w, r) \in Lease
  BY <1>7 DEF LeaseOf, Lease
<1> QED
  BY <1>3, <1>4, <1>5, <1>6, <1>8, <1>9

(* A new lease is at the attempt it paid for, and its worker had no other. *)
LEMMA ClaimInv ==
  ASSUME Inv, NEW w \in Workers, NEW r \in Runs, NEW poison \in SUBSET Runs,
         Claim(w, r, poison)
  PROVE  Inv'
<1>1. Idle(w) /\ ClaimTx(w, r, poison)
  BY DEF Claim
<1>2. /\ runs' \in [Runs -> Row] /\ events' \in [Runs -> Seq(Event)]
      /\ RowsInv' /\ OutboxInv'
      /\ \A x \in Runs : KeepsOwner(runs[x], runs'[x])
      /\ LeaseOf(w, r) \in Lease /\ runs'[r] = Claimed(runs[r], w)
  BY <1>1, ClaimTxRows
<1>3. PICK new \in Lease : new = LeaseOf(w, r)
  BY <1>2
<1>4. leases' = leases \cup {new} /\ outbox' = outbox
  BY <1>3 DEF Claim, ClaimTx
<1>5. TypeOK'
  BY <1>2, <1>4 DEF Inv, TypeOK
<1>6. LeasesApart'
  <2>1. runs[r].attempts \in Nat
    BY StoreAssumption DEF Inv, TypeOK, Row, Counter
  <2>2. \A lease \in leases : lease.run = r => lease.attempt # new.attempt
    <3> TAKE lease \in leases
    <3>1. lease.attempt \in Nat /\ (lease.run = r => lease.attempt <= runs[r].attempts)
      BY StoreAssumption DEF Inv, TypeOK, LeasesInv, LeaseInv, Lease, Counter
    <3> QED
      BY <1>3, <2>1, <3>1 DEF LeaseOf
  <2>3. new.worker = w /\ new.run = r
    BY <1>3 DEF LeaseOf
  <2> QED
    BY <1>1, <1>4, <2>2, <2>3 DEF Inv, LeasesApart, Idle
<1>7. LeaseInv(new)' /\ Fenced(new)'
  <2>1. runs[r] \in Row /\ runs[r].attempts \in Nat
    BY StoreAssumption DEF Inv, TypeOK, Row, Counter
  <2>2. /\ new.run = r /\ new.attempt = runs[r].attempts + 1
        /\ new.max = runs[r].max
    BY <1>3 DEF LeaseOf
  <2>3. /\ runs'[r].status = "running" /\ runs'[r].max = runs[r].max
        /\ runs'[r].attempts = runs[r].attempts + 1
    BY <1>2, <2>1 DEF Claimed, Row
  <2> QED
    BY <2>1, <2>2, <2>3 DEF LeaseInv, Fenced
<1>8. \A lease \in leases : LeaseInv(lease)' /\ Fenced(lease)'
  BY <1>2, OldLease
<1>9. \A lease \in leases' : LeaseInv(lease)' /\ Fenced(lease)'
  BY <1>4, <1>7, <1>8
<1>10. LeasesInv' /\ LeaseFencesAttempt'
  BY <1>9 DEF LeasesInv, LeaseFencesAttempt, Fenced
<1> QED
  BY <1>2, <1>5, <1>6, <1>10 DEF Inv

(* A claim whose answer is lost leaves a running row without a lease. *)
LEMMA ClaimLostInv ==
  ASSUME Inv, NEW w \in Workers, NEW r \in Runs, NEW poison \in SUBSET Runs,
         ClaimLost(w, r, poison)
  PROVE  Inv'
<1>1. Idle(w) /\ ClaimTx(w, r, poison) /\ leases' = leases
  BY DEF ClaimLost
<1>2. /\ runs' \in [Runs -> Row] /\ events' \in [Runs -> Seq(Event)]
      /\ RowsInv' /\ OutboxInv'
      /\ \A x \in Runs : KeepsOwner(runs[x], runs'[x])
  BY <1>1, ClaimTxRows
<1>3. TypeOK'
  BY <1>1, <1>2 DEF Inv, TypeOK, ClaimTx
<1>4. LeasesInv' /\ LeasesApart' /\ LeaseFencesAttempt'
  BY <1>1, <1>2, LeasesKept
<1> QED
  BY <1>2, <1>3, <1>4 DEF Inv

(* A step that changes one row and adds no lease. *)
LEMMA OneRowInv ==
  ASSUME Inv, NEW r \in Runs, NEW row \in Row, RowInv(row),
         KeepsOwner(runs[r], row),
         runs' = [runs EXCEPT ![r] = row],
         events' \in [Runs -> Seq(Event)],
         outbox' = IF row.status = "succeeded" THEN outbox \cup {r} ELSE outbox,
         runs[r].status = "succeeded" => row.status = "succeeded",
         leases' \subseteq leases
  PROVE  Inv'
<1>1. runs' \in [Runs -> Row] /\ outbox' \subseteq Runs
  BY DEF Inv, TypeOK
<1>2. TypeOK'
  BY <1>1 DEF Inv, TypeOK
<1>3. \A x \in Runs : runs'[x] = IF x = r THEN row ELSE runs[x]
  BY DEF Inv, TypeOK
<1>4. RowsInv' /\ OutboxInv'
  BY <1>3 DEF Inv, RowsInv, OutboxInv
<1>5. ASSUME NEW x \in Runs PROVE KeepsOwner(runs[x], runs'[x])
  <2>1. runs[x].attempts \in Nat
    BY StoreAssumption DEF Inv, TypeOK, Row, Counter
  <2>2. KeepsOwner(runs[x], runs[x])
    BY <2>1 DEF KeepsOwner
  <2> QED
    BY <1>3, <2>2
<1>6. LeasesInv' /\ LeasesApart' /\ LeaseFencesAttempt'
  BY <1>1, <1>5, LeasesKept
<1> QED
  BY <1>2, <1>4, <1>6 DEF Inv

(* Quarantined rows are decided: no lease is about a queued row. *)
LEMMA ClaimNothingInv ==
  ASSUME Inv, NEW poison \in SUBSET Runs, ClaimNothing(poison)
  PROVE  Inv'
<1> USE DEF ClaimNothing
<1>1. ASSUME NEW x \in Runs
      PROVE  /\ runs'[x] \in Row /\ RowInv(runs'[x])
             /\ runs'[x].status = "succeeded" <=> runs[x].status = "succeeded"
             /\ KeepsOwner(runs[x], runs'[x])
  <2>1. /\ runs[x] \in Row /\ RowInv(runs[x])
        /\ runs[x].attempts \in Nat /\ runs[x].max \in Nat
    BY StoreAssumption DEF Inv, TypeOK, RowsInv, Row, Counter
  <2>2. CASE x \in poison
    <3>1. runs'[x] = Quarantined(runs[x]) /\ runs[x].status = "queued"
      BY <2>2 DEF Poisoned, Claimable
    <3>2. runs'[x] \in Row /\ RowInv(runs'[x])
      BY <2>1, <3>1, QuarantinedRow
    <3>3. /\ runs'[x].status = "failed"
          /\ runs'[x].attempts = runs[x].attempts + 1
          /\ runs'[x].max = runs[x].max
      BY <2>1, <3>1 DEF Quarantined, Row
    <3> QED
      BY <2>1, <3>1, <3>2, <3>3 DEF KeepsOwner
  <2>3. CASE x \notin poison
    <3>1. runs'[x] = runs[x]
      BY <2>3
    <3> QED
      BY <2>1, <3>1 DEF KeepsOwner
  <2> QED
    BY <2>2, <2>3
<1>2. runs' \in [Runs -> Row]
  BY <1>1
<1>3. events' \in [Runs -> Seq(Event)]
  <2>1. \A x \in Runs : Append(events[x], Record("failed", 0)) \in Seq(Event)
    BY StoreAssumption, AppendedEvent DEF Inv, TypeOK, EventTypes, Counter
  <2> QED
    BY <2>1 DEF Inv, TypeOK
<1>4. TypeOK'
  BY <1>2, <1>3 DEF Inv, TypeOK
<1>5. RowsInv' /\ OutboxInv'
  BY <1>1 DEF Inv, RowsInv, OutboxInv
<1>6. LeasesInv' /\ LeasesApart' /\ LeaseFencesAttempt'
  BY <1>1, <1>2, LeasesKept
<1> QED
  BY <1>4, <1>5, <1>6 DEF Inv

(* A heartbeat, or the passing of time, moves a clock flag only. *)
LEMMA FlagInv ==
  ASSUME Inv, NEW r \in Runs, NEW flag \in BOOLEAN,
         \/ runs' = [runs EXCEPT ![r].stale = flag]
         \/ runs' = [runs EXCEPT ![r].due = flag],
         UNCHANGED <<events, outbox, leases>>
  PROVE  Inv'
<1> DEFINE stale == [runs[r] EXCEPT !.stale = flag]
           due   == [runs[r] EXCEPT !.due = flag]
<1>1. /\ runs[r] \in Row /\ RowInv(runs[r])
      /\ runs[r].attempts \in Nat
  BY StoreAssumption DEF Inv, TypeOK, RowsInv, Row, Counter
<1>2. stale \in Row /\ RowInv(stale) /\ due \in Row /\ RowInv(due)
  BY <1>1, FlaggedRow
<1>3. KeepsOwner(runs[r], stale) /\ KeepsOwner(runs[r], due)
  BY <1>1 DEF KeepsOwner, Row
<1>4. /\ stale.status = runs[r].status
      /\ due.status = runs[r].status
  BY <1>1 DEF Row
<1>5. outbox = IF runs[r].status = "succeeded" THEN outbox \cup {r} ELSE outbox
  BY DEF Inv, OutboxInv
<1>6. /\ events' \in [Runs -> Seq(Event)]
      /\ runs' = [runs EXCEPT ![r] = stale] \/ runs' = [runs EXCEPT ![r] = due]
  BY DEF Inv, TypeOK
<1> HIDE DEF stale, due
<1>7. CASE runs' = [runs EXCEPT ![r] = stale]
  BY <1>2, <1>3, <1>4, <1>5, <1>6, <1>7, OneRowInv
<1>8. CASE runs' = [runs EXCEPT ![r] = due]
  BY <1>2, <1>3, <1>4, <1>5, <1>6, <1>8, OneRowInv
<1> QED
  BY <1>6, <1>7, <1>8

(* A success is the attempt's own: the owned lease is at the row's attempt.*)
LEMMA SucceedInv ==
  ASSUME Inv, NEW lease \in leases, Succeed(lease)
  PROVE  Inv'
<1> DEFINE row == Succeeded(runs[lease.run], lease.attempt)
<1>1. /\ lease.run \in Runs /\ lease.attempt \in Counter
      /\ runs[lease.run] \in Row /\ RowInv(runs[lease.run])
      /\ runs[lease.run].status = "running"
      /\ runs[lease.run].attempts = lease.attempt
      /\ runs[lease.run].attempts \in Nat
  BY OwnedLease, StoreAssumption DEF Succeed, Counter
<1>2. row \in Row /\ RowInv(row)
  BY <1>1, SucceededRow
<1>3. KeepsOwner(runs[lease.run], row) /\ row.status = "succeeded"
  BY <1>1 DEF KeepsOwner, Succeeded, Row
<1>4. events' \in [Runs -> Seq(Event)]
  BY <1>1, LoggedEvent DEF Inv, Succeed, EventTypes
<1>5. /\ runs' = [runs EXCEPT ![lease.run] = row]
      /\ outbox' = outbox \cup {lease.run} /\ leases' = leases
  BY DEF Succeed
<1> HIDE DEF row
<1> QED
  BY <1>1, <1>2, <1>3, <1>4, <1>5, OneRowInv

(* fail judges by the lease's counters, which are the row's. *)
LEMMA FailInv ==
  ASSUME Inv, NEW lease \in leases, NEW retryable \in BOOLEAN,
         Fail(lease, retryable)
  PROVE  Inv'
<1> DEFINE next == failure_status(lease.attempt, lease.max, retryable)
           row  == Unfinished(runs[lease.run], next, "attempt_failed")
<1>1. /\ lease.run \in Runs
      /\ lease.attempt \in Counter /\ lease.max \in Counter
      /\ runs[lease.run] \in Row /\ RowInv(runs[lease.run])
      /\ runs[lease.run].status = "running"
      /\ runs[lease.run].attempts = lease.attempt
      /\ runs[lease.run].max = lease.max
      /\ lease.attempt \in Nat /\ lease.max \in Nat
  BY OwnedLease, StoreAssumption DEF Fail, Counter
<1>2. next \in {"queued", "failed"} /\ (next = "queued" => lease.attempt < lease.max)
  BY <1>1, FailureStatus
<1>3. row \in Row /\ RowInv(row)
  BY <1>1, <1>2, UnfinishedRow
<1>4. /\ KeepsOwner(runs[lease.run], row)
      /\ row.status # "succeeded" /\ runs[lease.run].status # "succeeded"
  BY <1>1, <1>2 DEF KeepsOwner, Unfinished, Row
<1>5. events' \in [Runs -> Seq(Event)]
  <2>1. (IF next = "queued" THEN "retry_scheduled" ELSE "failed") \in EventTypes
    BY DEF EventTypes
  <2> QED
    BY <1>1, <2>1, LoggedEvent DEF Inv, Fail
<1>6. /\ runs' = [runs EXCEPT ![lease.run] = row]
      /\ outbox' = outbox /\ leases' = leases
  BY DEF Fail
<1> HIDE DEF row
<1> QED
  BY <1>1, <1>3, <1>4, <1>5, <1>6, OneRowInv

(* A recovery treats each row of its batch as fail would have. *)
LEMMA RecoverStaleInv ==
  ASSUME Inv, NEW batch \in SUBSET Runs, RecoverStale(batch)
  PROVE  Inv'
<1> USE DEF RecoverStale
<1>1. ASSUME NEW x \in Runs
      PROVE  /\ runs'[x] \in Row /\ RowInv(runs'[x])
             /\ runs'[x].status = "succeeded" <=> runs[x].status = "succeeded"
             /\ KeepsOwner(runs[x], runs'[x])
             /\ x \in batch => runs[x].attempts \in Counter
  <2>1. /\ runs[x] \in Row /\ RowInv(runs[x])
        /\ runs[x].attempts \in Nat /\ runs[x].max \in Nat
        /\ runs[x].attempts \in Counter
    BY StoreAssumption DEF Inv, TypeOK, RowsInv, Row, Counter
  <2>2. CASE x \in batch
    <3> DEFINE next == NextStatus(runs[x])
    <3>1. /\ runs'[x] = Unfinished(runs[x], next, "worker_heartbeat_expired")
          /\ runs[x].status = "running"
      BY <2>2 DEF Stale, Recovered
    <3>2. /\ next \in {"queued", "failed"}
          /\ next = "queued" => runs[x].attempts < runs[x].max
      BY <2>1, FailureStatus DEF NextStatus
    <3> HIDE DEF next
    <3>3. runs'[x] \in Row /\ RowInv(runs'[x])
      BY <2>1, <3>1, <3>2, UnfinishedRow
    <3>4. /\ runs'[x].status = next
          /\ runs'[x].attempts = runs[x].attempts
          /\ runs'[x].max = runs[x].max
      BY <2>1, <3>1 DEF Unfinished, Row
    <3> QED
      BY <2>1, <3>1, <3>2, <3>3, <3>4 DEF KeepsOwner
  <2>3. CASE x \notin batch
    <3>1. runs'[x] = runs[x]
      BY <2>3
    <3> QED
      BY <2>1, <2>3, <3>1 DEF KeepsOwner
  <2> QED
    BY <2>2, <2>3
<1>2. runs' \in [Runs -> Row]
  BY <1>1
<1>3. events' \in [Runs -> Seq(Event)]
  <2>1. ASSUME NEW x \in batch
        PROVE  Append(events[x], RecoveryEvent(runs[x], NextStatus(runs[x])))
                 \in Seq(Event)
    <3>1. /\ runs[x].attempts \in Counter
          /\ events[x] \in Seq(Event)
      BY <1>1 DEF Inv, TypeOK
    <3>2. (IF NextStatus(runs[x]) = "queued" THEN "stale_recovered" ELSE "failed")
            \in EventTypes
      BY DEF EventTypes
    <3> QED
      BY <3>1, <3>2, AppendedEvent DEF RecoveryEvent
  <2> QED
    BY <2>1 DEF Inv, TypeOK
<1>4. TypeOK'
  BY <1>2, <1>3 DEF Inv, TypeOK
<1>5. RowsInv' /\ OutboxInv'
  BY <1>1 DEF Inv, RowsInv, OutboxInv
<1>6. LeasesInv' /\ LeasesApart' /\ LeaseFencesAttempt'
  BY <1>1, <1>2, LeasesKept
<1> QED
  BY <1>4, <1>5, <1>6 DEF Inv

(* A report of a lost lease, and a lease that ends, leave the rows alone. *)
LEMMA ReportOrReleaseInv ==
  ASSUME Inv, NEW lease \in leases, AddLeaseLost(lease) \/ Release(lease)
  PROVE  Inv'
<1>1. /\ lease.run \in Runs /\ lease.attempt \in Counter
  BY DEF Inv, TypeOK, Lease
<1>2. events' \in [Runs -> Seq(Event)]
  <2>1. CASE AddLeaseLost(lease)
    BY <1>1, <2>1, LoggedEvent DEF AddLeaseLost, Inv, EventTypes
  <2>2. CASE Release(lease)
    BY <2>2 DEF Release, Inv, TypeOK
  <2> QED
    BY <2>1, <2>2
<1>3. runs' = runs /\ outbox' = outbox /\ leases' \subseteq leases
  BY DEF AddLeaseLost, Release
<1>4. TypeOK' /\ RowsInv' /\ OutboxInv'
  BY <1>2, <1>3 DEF Inv, TypeOK, RowsInv, OutboxInv
<1>5. ASSUME NEW x \in Runs PROVE KeepsOwner(runs[x], runs'[x])
  <2>1. runs[x].attempts \in Nat
    BY StoreAssumption DEF Inv, TypeOK, Row, Counter
  <2> QED
    BY <1>3, <2>1 DEF KeepsOwner
<1>6. LeasesInv' /\ LeasesApart' /\ LeaseFencesAttempt'
  BY <1>3, <1>4, <1>5, LeasesKept DEF TypeOK
<1> QED
  BY <1>4, <1>6 DEF Inv

(* Every step keeps the invariant. *)
LEMMA NextInv ==
  ASSUME Inv, [Next]_vars
  PROVE  Inv'
<1>1. ASSUME NEW r \in Runs, NEW max \in 1..MaxAttempts, NEW valid \in BOOLEAN,
             Enqueue(r, max, valid)
      PROVE  Inv'
  BY <1>1, EnqueueInv
<1>2. CASE ClaimStep
  BY <1>2, ClaimInv, ClaimLostInv, ClaimNothingInv DEF ClaimStep
<1>3. ASSUME NEW lease \in leases, LeaseStep(lease)
      PROVE  Inv'
  <2>1. CASE Heartbeat(lease)
    <3>1. lease.run \in Runs
      BY DEF Inv, TypeOK, Lease
    <3> QED
      BY <2>1, <3>1, FlagInv DEF Heartbeat
  <2>2. CASE Succeed(lease)
    BY <2>2, SucceedInv
  <2>3. CASE \E retryable \in BOOLEAN : Fail(lease, retryable)
    BY <2>3, FailInv
  <2>4. CASE AddLeaseLost(lease) \/ Release(lease)
    BY <2>4, ReportOrReleaseInv
  <2> QED
    BY <1>3, <2>1, <2>2, <2>3, <2>4 DEF LeaseStep
<1>4. ASSUME NEW batch \in SUBSET Runs, RecoverStale(batch)
      PROVE  Inv'
  BY <1>4, RecoverStaleInv
<1>5. ASSUME NEW r \in Runs, BecomeDue(r) \/ BecomeStale(r)
      PROVE  Inv'
  BY <1>5, FlagInv DEF BecomeDue, BecomeStale
<1>6. CASE UNCHANGED vars
  BY <1>6 DEF vars, Inv, TypeOK, RowsInv, OutboxInv, LeasesInv, LeaseInv,
              LeasesApart, LeaseFencesAttempt, Owns
<1> QED
  BY <1>1, <1>2, <1>3, <1>4, <1>5, <1>6 DEF Next

(* The invariant holds in every reachable state. *)
THEOREM Invariance == Spec => []Inv
<1>1. Init => Inv
  BY InitInv
<1>2. Inv /\ [Next]_vars => Inv'
  BY NextInv
<1> QED
  BY <1>1, <1>2, PTL DEF Spec

(* Tables and leases keep their types: attempts never exceed what a run was*)
(* given, whoever claims, fails or recovers it.                            *)
THEOREM TypeCorrect == Spec => []TypeOK
<1>1. Inv => TypeOK
  BY DEF Inv
<1> QED
  BY <1>1, Invariance, PTL

(* Fencing by worker id alone is sound: a lease that passes the WHERE      *)
(* clause of succeed, fail or heartbeat is the lease of the current attempt*)
THEOREM FencingIsSound == Spec => []LeaseFencesAttempt
<1>1. Inv => LeaseFencesAttempt
  BY DEF Inv
<1> QED
  BY <1>1, Invariance, PTL

(* No run is left queued that claim would skip forever. *)
THEOREM QueuedIsClaimable == Spec => []NoStrandedRun
<1>1. Inv => NoStrandedRun
  BY DEF Inv, RowsInv, RowInv, NoStrandedRun
<1> QED
  BY <1>1, Invariance, PTL

(* A finished row, its answer and its outbox entry come and stay together. *)
THEOREM FinishedIsWhole == Spec => []FinishedRowIsWhole
<1>1. Inv => FinishedRowIsWhole
  BY DEF Inv, RowsInv, OutboxInv, RowInv, FinishedRowIsWhole
<1> QED
  BY <1>1, Invariance, PTL
-----------------------------------------------------------------------------
(* What one step does to one row.                                          *)
RowStep(a, b) ==
  \/ b = a
  \/ a.status = "running" /\ \E flag \in BOOLEAN : b = [a EXCEPT !.stale = flag]
  \/ a.status = "queued" /\ b = [a EXCEPT !.due = TRUE]
  \/ /\ a.status = "absent"
     /\ \E max \in 1..MaxAttempts, valid \in BOOLEAN : b = Enqueued(max, valid)
  \/ /\ a.status = "queued" /\ a.attempts < a.max
     /\ \/ b = Quarantined(a)
        \/ \E w \in Workers : Idle(w) /\ b = Claimed(a, w)
  \/ /\ a.status = "running"
     /\ \E status \in {"queued", "failed"},
           error \in {"attempt_failed", "worker_heartbeat_expired"} :
          /\ status = "queued" => a.attempts < a.max
          /\ b = Unfinished(a, status, error)
  \/ /\ a.status = "running"
     /\ \E attempt \in Counter : b = Succeeded(a, attempt)

(* Every step is, for every row, one of these. *)
LEMMA NextRowStep ==
  ASSUME Inv, Next, NEW r \in Runs
  PROVE  RowStep(runs[r], runs'[r])
<1> USE DEF RowStep
<1>0. runs \in [Runs -> Row]
  BY DEF Inv, TypeOK
<1>1. ASSUME NEW x \in Runs, NEW max \in 1..MaxAttempts, NEW valid \in BOOLEAN,
             Enqueue(x, max, valid)
      PROVE  RowStep(runs[r], runs'[r])
  BY <1>0, <1>1 DEF Enqueue
<1>2. ASSUME NEW w \in Workers, NEW x \in Runs, NEW poison \in SUBSET Runs,
             Idle(w), ClaimTx(w, x, poison)
      PROVE  RowStep(runs[r], runs'[r])
  BY <1>0, <1>2 DEF ClaimTx, Poisoned, Claimable
<1>3. ASSUME NEW poison \in SUBSET Runs, ClaimNothing(poison)
      PROVE  RowStep(runs[r], runs'[r])
  BY <1>0, <1>3 DEF ClaimNothing, Poisoned, Claimable
<1>4. ASSUME NEW lease \in leases, LeaseStep(lease)
      PROVE  RowStep(runs[r], runs'[r])
  <2>0. lease.run \in Runs /\ lease.attempt \in Counter
    BY DEF Inv, TypeOK, Lease
  <2>1. CASE Heartbeat(lease)
    BY <1>0, <2>0, <2>1 DEF Heartbeat, Owns
  <2>2. CASE Succeed(lease)
    BY <1>0, <2>0, <2>2 DEF Succeed, Owns
  <2>3. ASSUME NEW retryable \in BOOLEAN, Fail(lease, retryable)
        PROVE  RowStep(runs[r], runs'[r])
    <3> DEFINE next == failure_status(lease.attempt, lease.max, retryable)
    <3>1. /\ runs[lease.run].status = "running"
          /\ runs[lease.run].attempts = lease.attempt
          /\ runs[lease.run].max = lease.max
          /\ lease.attempt \in Nat /\ lease.max \in Nat
      BY <2>3, OwnedLease, StoreAssumption DEF Fail, Counter
    <3>2. next \in {"queued", "failed"} /\ (next = "queued" => lease.attempt < lease.max)
      BY <3>1, FailureStatus
    <3>3. runs' = [runs EXCEPT ![lease.run] =
                     Unfinished(runs[lease.run], next, "attempt_failed")]
      BY <2>3 DEF Fail
    <3> HIDE DEF next
    <3> QED
      BY <1>0, <2>0, <3>1, <3>2, <3>3
  <2>4. CASE AddLeaseLost(lease) \/ Release(lease)
    BY <2>4 DEF AddLeaseLost, Release
  <2> QED
    BY <1>4, <2>1, <2>2, <2>3, <2>4 DEF LeaseStep
<1>5. ASSUME NEW batch \in SUBSET Runs, RecoverStale(batch)
      PROVE  RowStep(runs[r], runs'[r])
  <2>1. CASE r \in batch
    <3>1. /\ runs[r].status = "running"
          /\ runs[r].attempts \in Nat /\ runs[r].max \in Nat
          /\ runs'[r] = Unfinished(runs[r], NextStatus(runs[r]),
                                   "worker_heartbeat_expired")
      BY <1>0, <1>5, <2>1, StoreAssumption
         DEF RecoverStale, Stale, Recovered, Row, Counter
    <3>2. /\ NextStatus(runs[r]) \in {"queued", "failed"}
          /\ NextStatus(runs[r]) = "queued" => runs[r].attempts < runs[r].max
      BY <3>1, FailureStatus DEF NextStatus
    <3> QED
      BY <3>1, <3>2
  <2>2. CASE r \notin batch
    BY <1>5, <2>2 DEF RecoverStale
  <2> QED
    BY <2>1, <2>2
<1>6. ASSUME NEW x \in Runs, BecomeDue(x) \/ BecomeStale(x)
      PROVE  RowStep(runs[r], runs'[r])
  BY <1>0, <1>6 DEF BecomeDue, BecomeStale
<1> QED
  BY <1>1, <1>2, <1>3, <1>4, <1>5, <1>6
     DEF Next, ClaimStep, Claim, ClaimLost

(* No step touches a finished row: every function of a row starts from an  *)
(* unfinished one, and only a success of a running row fills the outbox.   *)
LEMMA FinalStep ==
  ASSUME Inv, Next, NEW r \in Runs, runs[r].status \in Terminal
  PROVE  runs'[r] = runs[r] /\ (r \in outbox' <=> r \in outbox)
<1>1. runs'[r] = runs[r]
  BY NextRowStep DEF RowStep, Terminal
<1>2. Inv'
  BY NextInv
<1> QED
  BY <1>1, <1>2 DEF Inv, OutboxInv

(* What the client has seen finished stays as it was seen. *)
THEOREM FinishedIsFinal == Spec => TerminalIsFinal
<1>1. Inv /\ [Next]_vars =>
        [\A r \in Runs :
           runs[r].status \in Terminal =>
             /\ runs'[r] = runs[r]
             /\ r \in outbox' <=> r \in outbox]_vars
  BY FinalStep
<1> QED
  BY <1>1, Invariance, PTL DEF Spec, TerminalIsFinal
-----------------------------------------------------------------------------
(* What a lease can count on. *)

(* A worker that has no lease is the only new owner a step gives a row. *)
LEMMA RowStepOwner ==
  ASSUME NEW a \in Row, NEW b, RowInv(a), RowStep(a, b)
  PROVE  KeepsOwner(a, b)
<1>0. a.attempts \in Nat /\ a.max \in Nat
  BY StoreAssumption DEF Row, Counter
<1> USE DEF KeepsOwner
<1>1. CASE b = a
  BY <1>0, <1>1
<1>2. CASE (\E flag \in BOOLEAN : b = [a EXCEPT !.stale = flag])
           \/ b = [a EXCEPT !.due = TRUE]
  BY <1>0, <1>2 DEF Row
<1>3. CASE a.status = "absent" /\ b.status = "queued"
  BY <1>3
<1>4. ASSUME NEW w \in Workers, Idle(w), b = Claimed(a, w)
      PROVE  KeepsOwner(a, b)
  BY <1>0, <1>4 DEF Claimed, Row
<1>5. CASE b = Quarantined(a)
  BY <1>0, <1>5 DEF Quarantined, Row
<1>6. ASSUME NEW status \in {"queued", "failed"}, NEW error,
             b = Unfinished(a, status, error)
      PROVE  KeepsOwner(a, b)
  BY <1>0, <1>6 DEF Unfinished, Row
<1>7. ASSUME NEW attempt, b = Succeeded(a, attempt)
      PROVE  KeepsOwner(a, b)
  BY <1>0, <1>7 DEF Succeeded, Row
<1>8. ASSUME NEW max, NEW valid, b = Enqueued(max, valid)
      PROVE  b.status = "queued"
  BY <1>8 DEF Enqueued, NoRow
<1> QED
  BY <1>1, <1>2, <1>3, <1>4, <1>5, <1>6, <1>7, <1>8 DEF RowStep

(* A step that finds a lease without its row leaves it without its row. *)
LEMMA LossStep ==
  ASSUME Inv, Next, NEW lease \in leases, ~Owns(lease)
  PROVE  ~Owns(lease)'
<1>1. lease.run \in Runs /\ lease.worker # NULL
  BY StoreAssumption DEF Inv, TypeOK, Lease
<1>2. runs[lease.run] \in Row /\ RowInv(runs[lease.run])
  BY <1>1 DEF Inv, TypeOK, RowsInv
<1>3. KeepsOwner(runs[lease.run], runs'[lease.run])
  BY <1>1, <1>2, NextRowStep, RowStepOwner
<1>4. ~Idle(lease.worker)
  BY DEF Idle
<1> QED
  BY <1>1, <1>3, <1>4 DEF KeepsOwner, Owns

(* A heartbeat that updated no row is final.  The worker that hears it may *)
(* cancel the execution at once: no later step, not even a claim by the    *)
(* same worker identity, can give the row back to that lease.              *)
LossIsFinal == [][\A lease \in leases : ~Owns(lease) => ~Owns(lease)']_vars

(* A lease that lost its row (heartbeat, succeed and fail match no row any *)
(* more) never matches it again, whatever the other workers do.            *)
THEOREM LostForGood == Spec => LossIsFinal
<1>1. ASSUME Inv, [Next]_vars
      PROVE  [\A lease \in leases : ~Owns(lease) => ~Owns(lease)']_vars
  BY <1>1, LossStep
<1>2. Inv /\ [Next]_vars =>
        [\A lease \in leases : ~Owns(lease) => ~Owns(lease)']_vars
  BY <1>1
<1> QED
  BY <1>2, Invariance, PTL DEF Spec, LossIsFinal

(* Of all the workers that hold a lease of one run, and there are several  *)
(* after a recovery, at most one passes the WHERE clause of succeed, fail  *)
(* and heartbeat.                                                          *)
SoleOwner ==
  \A a, b \in leases : a.run = b.run /\ Owns(a) /\ Owns(b) => a = b

(* In every reachable state one run has at most one lease that its row     *)
(* still answers to: the leases of a run differ in attempt or in token.    *)
THEOREM OneOwner == Spec => []SoleOwner
<1>1. Inv => SoleOwner
  BY DEF Inv, LeasesApart, SoleOwner, Owns
<1> QED
  BY <1>1, Invariance, PTL
-----------------------------------------------------------------------------
(* The event log.  A step appends at most one event to the log of a run,   *)
(* and what it appends fits the row as it was and as it becomes.           *)

(* The shape of a log that got one more event. *)
LEMMA AppendShape ==
  ASSUME NEW log \in Seq(Event), NEW event \in Event
  PROVE  /\ Len(log) \in Nat /\ DOMAIN log = 1..Len(log)
         /\ DOMAIN Append(log, event) = 1..Len(log) + 1
         /\ Append(log, event)[Len(log) + 1] = event
         /\ \A i \in 1..Len(log) : Append(log, event)[i] = log[i]
OBVIOUS

LEMMA ReportTells ==
  ASSUME NEW log \in Seq(Event), NEW event \in Event, NEW row, Tells(log, row),
         event.type = "worker_lease_lost"
  PROVE  Tells(Append(log, event), row)
<1> DEFINE n == Len(log)
           all == Append(log, event)
<1>1. /\ n \in Nat /\ DOMAIN log = 1..n /\ DOMAIN all = 1..n + 1
      /\ all[n + 1] = event /\ \A i \in 1..n : all[i] = log[i]
  BY AppendShape
<1> HIDE DEF n, all
<1>2. Told(all) = Told(log) /\ \A i \in Told(log) : all[i] = log[i]
  BY <1>1 DEF Told
<1>3. Starts(all) = Starts(log) /\ \A i \in Starts(log) : all[i] = log[i]
  BY <1>1 DEF Starts
<1>4. Tells(all, row)
  BY <1>2, <1>3 DEF Tells
<1> QED
  BY <1>4 DEF all

LEMMA EventTells ==
  ASSUME NEW log \in Seq(Event), NEW event \in Event, NEW row, NEW next,
         Tells(log, row), event.type # "worker_lease_lost",
         next.status = StatusAfter(event.type), next.status # "absent",
         Told(log) = {} => event = Record("queued", 0),
         \A i \in Told(log) :
           (\A j \in Told(log) : j <= i) => Follows(log[i], event),
         Begun(row) \in Nat,
         IF event.type = "started"
         THEN event.attempt = Begun(row) + 1 /\ Begun(next) = Begun(row) + 1
         ELSE Begun(next) = Begun(row)
  PROVE  Tells(Append(log, event), next)
<1> DEFINE n == Len(log)
           all == Append(log, event)
<1>1. /\ n \in Nat /\ DOMAIN log = 1..n /\ DOMAIN all = 1..n + 1
      /\ all[n + 1] = event /\ \A i \in 1..n : all[i] = log[i]
  BY AppendShape
<1> HIDE DEF n, all
<1>2. /\ Told(log) \subseteq 1..n /\ Told(all) = Told(log) \cup {n + 1}
      /\ \A i \in Told(log) : all[i] = log[i]
  BY <1>1 DEF Told
<1>3. ~(next.status = "absent") /\ ~(Told(all) = {})
  BY <1>2
<1>4. ASSUME NEW i \in Told(all)
      PROVE  /\ (\A j \in Told(all) : i <= j) => all[i] = Record("queued", 0)
             /\ (\A j \in Told(all) : j <= i) => StatusAfter(all[i].type) = next.status
  <2>1. CASE i = n + 1
    <3>1. ASSUME \A j \in Told(all) : i <= j PROVE Told(log) = {}
      BY <1>1, <1>2, <2>1, <3>1
    <3> QED
      BY <1>1, <2>1, <3>1
  <2>2. CASE i \in Told(log)
    <3>1. i \in 1..n /\ n + 1 \in Told(all)
      BY <1>2, <2>2
    <3>2. ~(\A j \in Told(all) : j <= i)
      BY <1>1, <3>1
    <3>3. (\A j \in Told(all) : i <= j) => \A j \in Told(log) : i <= j
      BY <1>2
    <3> QED
      BY <1>2, <2>2, <3>2, <3>3 DEF Tells
  <2> QED
    BY <1>2, <2>1, <2>2
<1>5. ASSUME NEW i \in Told(all), NEW j \in Told(all), i < j,
             Told(all) \cap i+1..j-1 = {}
      PROVE  Follows(all[i], all[j])
  <2>1. i \in Told(log)
    BY <1>1, <1>2, <1>5
  <2>2. CASE j = n + 1
    <3>1. \A k \in Told(log) : k <= i
      <4> SUFFICES ASSUME NEW k \in Told(log), ~(k <= i) PROVE FALSE
        OBVIOUS
      <4>1. k \in i+1..j-1
        BY <1>1, <1>2, <2>1, <2>2
      <4> QED
        BY <1>2, <1>5, <4>1
    <3> QED
      BY <1>1, <1>2, <2>1, <2>2, <3>1
  <2>3. CASE j \in Told(log)
    <3>1. Told(log) \cap i+1..j-1 = {}
      BY <1>2, <1>5
    <3> QED
      BY <1>2, <1>5, <2>1, <2>3, <3>1 DEF Tells
  <2> QED
    BY <1>2, <2>2, <2>3
<1>6. /\ Starts(log) \subseteq 1..n
      /\ Starts(all) = Starts(log) \cup (IF event.type = "started" THEN {n + 1} ELSE {})
      /\ \A i \in Starts(log) : all[i] = log[i]
  BY <1>1 DEF Starts
<1> DEFINE B == Begun(row)
<1>7. /\ {log[i].attempt : i \in Starts(log)} = 1..B
      /\ \A i, j \in Starts(log) : i < j => log[i].attempt < log[j].attempt
  BY DEF Tells
<1> HIDE DEF B
<1>8. /\ {all[i].attempt : i \in Starts(all)} = 1..Begun(next)
      /\ \A i, j \in Starts(all) : i < j => all[i].attempt < all[j].attempt
  <2>1. CASE event.type = "started"
    <3>1. /\ Starts(all) = Starts(log) \cup {n + 1}
          /\ all[n + 1].attempt = B + 1 /\ Begun(next) = B + 1 /\ B \in Nat
      BY <1>1, <1>6, <2>1 DEF B
    <3>2. {all[i].attempt : i \in Starts(all)}
            = {log[i].attempt : i \in Starts(log)} \cup {B + 1}
      BY <1>6, <3>1
    <3>3. (1..B) \cup {B + 1} = 1..B + 1
      BY <3>1
    <3>4. \A i \in Starts(log) : log[i].attempt \in 1..B
      BY <1>7
    <3>5. ASSUME NEW i \in Starts(all), NEW j \in Starts(all), i < j
          PROVE  all[i].attempt < all[j].attempt
      <4>1. i \in Starts(log)
        BY <1>1, <1>6, <3>1, <3>5
      <4>2. CASE j \in Starts(log)
        BY <1>6, <1>7, <3>5, <4>1, <4>2
      <4>3. CASE j = n + 1
        BY <1>6, <3>1, <3>4, <4>1, <4>3
      <4> QED
        BY <3>1, <4>2, <4>3
    <3> QED
      BY <1>7, <3>1, <3>2, <3>3, <3>5
  <2>2. CASE event.type # "started"
    <3>1. Starts(all) = Starts(log) /\ Begun(next) = B
      BY <1>6, <2>2 DEF B
    <3> QED
      BY <1>6, <1>7, <3>1
  <2> QED
    BY <2>1, <2>2
<1>9. Tells(all, next)
  BY <1>3, <1>4, <1>5, <1>8 DEF Tells
<1> QED
  BY <1>9 DEF all

(* Only a failed row says that its configuration is invalid. *)
RejectedForGood(row) ==
  row.error = "invalid_persisted_configuration" => row.status = "failed"

History(log, row) == RejectedForGood(row) /\ Tells(log, row)

Histories == \A r \in Runs \ LegacyRuns : History(events[r], runs[r])

(* How the row and the log of a run change in one step. *)
Flagged(row) ==
  {row, [row EXCEPT !.due = TRUE], [row EXCEPT !.stale = TRUE],
   [row EXCEPT !.stale = FALSE]}

Outcomes ==
  {"retry_scheduled", "stale_recovered", "failed", "succeeded"}

LogStep(row, log, next, all) ==
  \/ next \in Flagged(row) /\ all = log
  \/ /\ next = row
     /\ \E attempt \in Counter :
          all = Append(log, Record("worker_lease_lost", attempt))
  \/ /\ row.status = "absent"
     /\ \E max \in 1..MaxAttempts, valid \in BOOLEAN : next = Enqueued(max, valid)
     /\ all = Append(log, Record("queued", 0))
  \/ /\ row.status = "queued" /\ row.attempts < row.max
     /\ \E w \in Workers : next = Claimed(row, w)
     /\ all = Append(log, Record("started", row.attempts + 1))
  \/ /\ row.status = "queued" /\ row.attempts < row.max
     /\ next = Quarantined(row)
     /\ all = Append(log, Record("failed", 0))
  \/ /\ row.status = "running"
     /\ \E type \in Outcomes :
          /\ next.status = StatusAfter(type)
          /\ all = Append(log, Record(type, row.attempts))
     /\ next.attempts = row.attempts
     /\ next.error # "invalid_persisted_configuration"

(* While an attempt runs, the log ends with its start. *)
LEMMA RunningLog ==
  ASSUME NEW log \in Seq(Event), NEW row, History(log, row),
         row.status = "running", row.attempts \in Nat,
         NEW i \in Told(log), \A j \in Told(log) : j <= i
  PROVE  log[i].type = "started" /\ log[i].attempt = row.attempts
<1>1. Begun(row) = row.attempts
  BY DEF History, RejectedForGood, Begun
<1>2. log[i].type = "started"
  <2>1. StatusAfter(log[i].type) = "running"
    BY DEF History, Tells
  <2>2. log[i] \in Event
    BY ElementOfSeq DEF Told
  <2>3. log[i].type \in EventTypes
    BY <2>2 DEF Event
  <2> QED
    BY <2>1, <2>3 DEF StatusAfter, EventTypes
<1>3. /\ i \in Starts(log) /\ Starts(log) \subseteq Told(log)
      /\ Told(log) \subseteq Nat
  BY <1>2 DEF Starts, Told
<1>4. {log[j].attempt : j \in Starts(log)} = 1..row.attempts
  BY <1>1 DEF History, Tells
<1>5. log[i].attempt \in 1..row.attempts
  BY <1>3, <1>4
<1>6. PICK j \in Starts(log) : log[j].attempt = row.attempts
  <2>1. row.attempts \in 1..row.attempts
    BY <1>5
  <2> QED
    BY <1>4, <2>1
<1>7. CASE j = i
  BY <1>2, <1>6, <1>7
<1>8. CASE j # i
  <2>1. j < i
    BY <1>3, <1>8
  <2>2. log[j].attempt < log[i].attempt
    BY <1>3, <2>1 DEF History, Tells
  <2> QED
    BY <1>5, <1>6, <2>2
<1> QED
  BY <1>7, <1>8

LEMMA StepTells ==
  ASSUME NEW row \in Row, RowInv(row), NEW log \in Seq(Event), History(log, row),
         NEW next, NEW all, LogStep(row, log, next, all)
  PROVE  History(all, next)
<1> USE DEF History
<1>1. CASE next \in Flagged(row) /\ all = log
  <2>1. /\ next.status = row.status /\ next.error = row.error
        /\ next.attempts = row.attempts
    BY <1>1 DEF Flagged, Row
  <2> QED
    BY <1>1, <2>1 DEF RejectedForGood, Tells, Begun
<1>2. ASSUME NEW attempt \in Counter, next = row,
             all = Append(log, Record("worker_lease_lost", attempt))
      PROVE  History(all, next)
  <2>1. /\ Record("worker_lease_lost", attempt) \in Event
        /\ Record("worker_lease_lost", attempt).type = "worker_lease_lost"
    BY DEF Record, Event, EventTypes
  <2> QED
    BY <1>2, <2>1, ReportTells
<1>3. ASSUME row.status = "absent", NEW max \in 1..MaxAttempts, NEW valid \in BOOLEAN,
             next = Enqueued(max, valid), all = Append(log, Record("queued", 0))
      PROVE  History(all, next)
  <2> DEFINE event == Record("queued", 0)
  <2>1. event \in Event /\ event.type = "queued"
    BY StoreAssumption DEF Record, Event, EventTypes, Counter
  <2>2. next.status = "queued" /\ next.error = "none" /\ next.attempts = 0
    BY <1>3 DEF Enqueued, NoRow
  <2>3. Begun(row) = 0 /\ Begun(next) = 0
    <3>1. row.error # "invalid_persisted_configuration"
      BY <1>3 DEF RejectedForGood
    <3>2. Begun(row) = row.attempts
      BY <3>1, StoreAssumption DEF Begun, Row, Counter
    <3>3. row.attempts = 0
      BY <1>3 DEF RowInv
    <3>4. Begun(next) = 0
      BY <2>2 DEF Begun
    <3> QED
      BY <3>2, <3>3, <3>4
  <2>4. Told(log) = {} /\ StatusAfter("queued") = "queued"
    BY <1>3 DEF Tells, StatusAfter
  <2> HIDE DEF event
  <2>5. Tells(Append(log, event), next)
    BY <2>1, <2>2, <2>3, <2>4, EventTells DEF event
  <2> QED
    BY <1>3, <2>2, <2>5 DEF RejectedForGood, event
<1>4. ASSUME row.status = "queued"
      PROVE  /\ Begun(row) = row.attempts /\ Begun(row) \in Nat
             /\ Told(log) # {}
             /\ \A i \in Told(log) : (\A j \in Told(log) : j <= i) =>
                  StatusAfter(log[i].type) = "queued" /\ log[i].type # "started"
  <2>1. Begun(row) = row.attempts /\ row.attempts \in Nat
    BY <1>4, StoreAssumption DEF Begun, RejectedForGood, Row, Counter
  <2>2. Told(log) # {}
    BY <1>4 DEF Tells
  <2>3. \A i \in Told(log) : (\A j \in Told(log) : j <= i) =>
          StatusAfter(log[i].type) = "queued"
    BY <1>4 DEF Tells
  <2> QED
    BY <2>1, <2>2, <2>3 DEF StatusAfter
<1>5. ASSUME row.status = "queued", row.attempts < row.max, NEW w \in Workers,
             next = Claimed(row, w),
             all = Append(log, Record("started", row.attempts + 1))
      PROVE  History(all, next)
  <2> DEFINE event == Record("started", row.attempts + 1)
  <2>1. /\ event \in Event /\ event.type = "started"
        /\ event.attempt = row.attempts + 1
    BY <1>5, StoreAssumption DEF Record, Event, EventTypes, Counter, Row
  <2>2. /\ next.status = "running" /\ next.attempts = row.attempts + 1
        /\ next.error = row.error
    BY <1>5 DEF Claimed, Row
  <2>3. next.error # "invalid_persisted_configuration"
    BY <1>5, <2>2 DEF RejectedForGood
  <2>4. Begun(next) = Begun(row) + 1
    BY <1>4, <1>5, <2>2, <2>3, StoreAssumption DEF Begun, Row, Counter
  <2>5. \A i \in Told(log) : (\A j \in Told(log) : j <= i) => Follows(log[i], event)
    BY <1>4, <1>5, <2>1 DEF Follows
  <2>6. StatusAfter("started") = "running"
    BY DEF StatusAfter
  <2> HIDE DEF event
  <2>7. Tells(Append(log, event), next)
    BY <1>4, <1>5, <2>1, <2>2, <2>4, <2>5, <2>6, EventTells
  <2> QED
    BY <1>5, <2>3, <2>7 DEF RejectedForGood, event
<1>6. ASSUME row.status = "queued", row.attempts < row.max,
             next = Quarantined(row), all = Append(log, Record("failed", 0))
      PROVE  History(all, next)
  <2> DEFINE event == Record("failed", 0)
  <2>1. event \in Event /\ event.type = "failed"
    BY StoreAssumption DEF Record, Event, EventTypes, Counter
  <2>2. /\ next.status = "failed" /\ next.attempts = row.attempts + 1
        /\ next.error = "invalid_persisted_configuration"
    BY <1>6 DEF Quarantined, Row
  <2>3. Begun(next) = Begun(row)
    BY <1>4, <1>6, <2>2, StoreAssumption DEF Begun, Row, Counter
  <2>4. \A i \in Told(log) : (\A j \in Told(log) : j <= i) => Follows(log[i], event)
    BY <1>4, <1>6, <2>1 DEF Follows
  <2>5. StatusAfter("failed") = "failed"
    BY DEF StatusAfter
  <2> HIDE DEF event
  <2>6. Tells(Append(log, event), next)
    BY <1>4, <1>6, <2>1, <2>2, <2>3, <2>4, <2>5, EventTells
  <2> QED
    BY <1>6, <2>2, <2>6 DEF RejectedForGood, event
<1>7. ASSUME row.status = "running", NEW type \in Outcomes,
             next.status = StatusAfter(type),
             all = Append(log, Record(type, row.attempts)),
             next.attempts = row.attempts,
             next.error # "invalid_persisted_configuration"
      PROVE  History(all, next)
  <2> DEFINE event == Record(type, row.attempts)
  <2>1. /\ event \in Event /\ event.type = type
        /\ event.attempt = row.attempts
    BY DEF Record, Event, EventTypes, Row, Outcomes
  <2>2. row.attempts \in Nat /\ row.error # "invalid_persisted_configuration"
    BY <1>7, StoreAssumption DEF RejectedForGood, Row, Counter
  <2>3. Begun(row) = row.attempts /\ Begun(next) = row.attempts
    BY <1>7, <2>2 DEF Begun
  <2>4. \A i \in Told(log) : (\A j \in Told(log) : j <= i) => Follows(log[i], event)
    <3> SUFFICES ASSUME NEW i \in Told(log), \A j \in Told(log) : j <= i
                 PROVE  Follows(log[i], event)
      OBVIOUS
    <3>1. log[i].type = "started" /\ log[i].attempt = row.attempts
      BY <1>7, <2>2, RunningLog
    <3>2. event.type \in {"retry_scheduled", "stale_recovered"} \cup Terminal
      BY <2>1 DEF Outcomes, Terminal
    <3> HIDE DEF event
    <3> QED
      BY <2>1, <3>1, <3>2 DEF Follows
  <2>5. Told(log) # {} /\ StatusAfter(type) # "absent" /\ type # "started"
        /\ type # "worker_lease_lost"
    BY <1>7 DEF Tells, StatusAfter, Outcomes
  <2> HIDE DEF event
  <2>6. Tells(Append(log, event), next)
    BY <1>7, <2>1, <2>2, <2>3, <2>4, <2>5, EventTells
  <2> QED
    BY <1>7, <2>6 DEF RejectedForGood, event
<1> QED
  BY <1>1, <1>2, <1>3, <1>5, <1>6, <1>7 DEF LogStep

(* Every step is such a step, for every run. *)
LEMMA NextLogStep ==
  ASSUME Inv, Next, NEW r \in Runs
  PROVE  LogStep(runs[r], events[r], runs'[r], events'[r])
<1> DEFINE Goal == LogStep(runs[r], events[r], runs'[r], events'[r])
<1>0. /\ runs \in [Runs -> Row] /\ events \in [Runs -> Seq(Event)]
      /\ runs[r] \in Row
  BY DEF Inv, TypeOK
<1>1. ASSUME runs'[r] = runs[r], events'[r] = events[r]
      PROVE  Goal
  BY <1>1 DEF LogStep, Flagged
<1>2. ASSUME NEW x \in Runs, NEW max \in 1..MaxAttempts, NEW valid \in BOOLEAN,
             Enqueue(x, max, valid)
      PROVE  Goal
  <2>1. CASE x = r
    <3>1. /\ runs[r].status = "absent" /\ runs'[r] = Enqueued(max, valid)
          /\ events'[r] = Append(events[r], Record("queued", 0))
      BY <1>0, <1>2, <2>1 DEF Enqueue, append_event
    <3> QED
      BY <3>1 DEF LogStep
  <2>2. CASE x # r
    BY <1>0, <1>1, <1>2, <2>2 DEF Enqueue, append_event
  <2> QED
    BY <2>1, <2>2
<1>3. ASSUME runs[r].status = "queued", runs[r].attempts < runs[r].max,
             runs'[r] = Quarantined(runs[r]),
             events'[r] = Append(events[r], Record("failed", 0))
      PROVE  Goal
  BY <1>3 DEF LogStep
<1>4. ASSUME NEW w \in Workers, NEW x \in Runs, NEW poison \in SUBSET Runs,
             ClaimTx(w, x, poison)
      PROVE  Goal
  <2>1. CASE r = x
    <3>1. /\ runs[r].status = "queued" /\ runs[r].attempts < runs[r].max
          /\ runs'[r] = Claimed(runs[r], w)
          /\ events'[r] = Append(events[r],
                                 Record("started", runs[r].attempts + 1))
      BY <1>4, <2>1 DEF ClaimTx, Claimable
    <3> QED
      BY <3>1 DEF LogStep
  <2>2. CASE r # x /\ r \in poison
    <3>1. /\ runs[r].status = "queued" /\ runs[r].attempts < runs[r].max
          /\ runs'[r] = Quarantined(runs[r])
          /\ events'[r] = Append(events[r], Record("failed", 0))
      BY <1>4, <2>2 DEF ClaimTx, Poisoned, Claimable
    <3> QED
      BY <1>3, <3>1
  <2>3. CASE r # x /\ r \notin poison
    BY <1>1, <1>4, <2>3 DEF ClaimTx
  <2> QED
    BY <2>1, <2>2, <2>3
<1>5. ASSUME NEW poison \in SUBSET Runs, ClaimNothing(poison)
      PROVE  Goal
  <2>1. CASE r \in poison
    <3>1. /\ runs[r].status = "queued" /\ runs[r].attempts < runs[r].max
          /\ runs'[r] = Quarantined(runs[r])
          /\ events'[r] = Append(events[r], Record("failed", 0))
      BY <1>5, <2>1 DEF ClaimNothing, Poisoned, Claimable
    <3> QED
      BY <1>3, <3>1
  <2>2. CASE r \notin poison
    BY <1>1, <1>5, <2>2 DEF ClaimNothing
  <2> QED
    BY <2>1, <2>2
<1>6. ASSUME runs[r].status = "running", NEW type \in Outcomes,
             runs'[r].status = StatusAfter(type),
             events'[r] = Append(events[r], Record(type, runs[r].attempts)),
             runs'[r].attempts = runs[r].attempts,
             runs'[r].error # "invalid_persisted_configuration"
      PROVE  Goal
  BY <1>6 DEF LogStep
<1>7. ASSUME NEW flag \in BOOLEAN, events'[r] = events[r],
             \/ runs'[r] = [runs[r] EXCEPT !.stale = flag]
             \/ runs'[r] = [runs[r] EXCEPT !.due = TRUE]
      PROVE  Goal
  BY <1>7 DEF LogStep, Flagged
<1>8. ASSUME NEW lease \in leases, LeaseStep(lease)
      PROVE  Goal
  <2>0. lease.run \in Runs /\ lease.attempt \in Counter
    BY DEF Inv, TypeOK, Lease
  <2>1. CASE Heartbeat(lease)
    <3>1. events'[r] = events[r]
      BY <2>1 DEF Heartbeat
    <3>2. \/ runs'[r] = runs[r]
          \/ runs'[r] = [runs[r] EXCEPT !.stale = FALSE]
      BY <1>0, <2>0, <2>1 DEF Heartbeat
    <3> QED
      BY <1>1, <1>7, <3>1, <3>2
  <2>2. CASE Succeed(lease)
    <3>1. CASE lease.run = r
      <4>1. runs[r].status = "running" /\ runs[r].attempts = lease.attempt
        BY <2>2, <3>1, OwnedLease DEF Succeed
      <4>2. /\ runs'[r] = Succeeded(runs[r], lease.attempt)
            /\ events'[r] = Append(events[r], Record("succeeded", lease.attempt))
        BY <1>0, <2>2, <3>1 DEF Succeed, append_event
      <4>3. /\ runs'[r].status = "succeeded" /\ runs'[r].error = "none"
            /\ runs'[r].attempts = runs[r].attempts
        BY <1>0, <4>2 DEF Succeeded, Row
      <4>4. "succeeded" \in Outcomes /\ StatusAfter("succeeded") = "succeeded"
        BY DEF Outcomes, StatusAfter
      <4> QED
        BY <1>6, <4>1, <4>2, <4>3, <4>4
    <3>2. CASE lease.run # r
      BY <1>0, <1>1, <2>0, <2>2, <3>2 DEF Succeed, append_event
    <3> QED
      BY <3>1, <3>2
  <2>3. ASSUME NEW retryable \in BOOLEAN, Fail(lease, retryable)
        PROVE  Goal
    <3> DEFINE next == failure_status(lease.attempt, lease.max, retryable)
               type == IF next = "queued" THEN "retry_scheduled" ELSE "failed"
    <3>1. CASE lease.run = r
      <4>1. /\ runs[r].status = "running" /\ runs[r].attempts = lease.attempt
            /\ lease.attempt \in Nat /\ lease.max \in Nat
        BY <2>3, <3>1, OwnedLease, StoreAssumption DEF Fail, Counter
      <4>2. next \in {"queued", "failed"}
        BY <4>1, FailureStatus
      <4>3. /\ runs'[r] = Unfinished(runs[r], next, "attempt_failed")
            /\ events'[r] = Append(events[r], Record(type, lease.attempt))
        BY <1>0, <2>3, <3>1 DEF Fail, append_event
      <4> HIDE DEF next
      <4>4. /\ runs'[r].status = next /\ runs'[r].error = "attempt_failed"
            /\ runs'[r].attempts = runs[r].attempts
        BY <1>0, <4>3 DEF Unfinished, Row
      <4>5. type \in Outcomes /\ StatusAfter(type) = next
        BY <4>2 DEF Outcomes, StatusAfter
      <4> HIDE DEF type
      <4> QED
        BY <1>6, <4>1, <4>3, <4>4, <4>5
    <3>2. CASE lease.run # r
      <4>1. runs'[r] = runs[r]
        BY <1>0, <2>0, <2>3, <3>2 DEF Fail
      <4>2. events'[r] = events[r]
        BY <1>0, <2>0, <2>3, <3>2 DEF Fail, append_event
      <4> QED
        BY <1>1, <4>1, <4>2
    <3> QED
      BY <3>1, <3>2
  <2>4. CASE AddLeaseLost(lease)
    <3>1. CASE lease.run = r
      <4>1. /\ runs'[r] = runs[r]
            /\ events'[r] = Append(events[r],
                                   Record("worker_lease_lost", lease.attempt))
        BY <1>0, <2>4, <3>1 DEF AddLeaseLost, append_event
      <4> QED
        BY <2>0, <4>1 DEF LogStep
    <3>2. CASE lease.run # r
      BY <1>0, <1>1, <2>0, <2>4, <3>2 DEF AddLeaseLost, append_event
    <3> QED
      BY <3>1, <3>2
  <2>5. CASE Release(lease)
    BY <1>1, <2>5 DEF Release
  <2> QED
    BY <1>8, <2>1, <2>2, <2>3, <2>4, <2>5 DEF LeaseStep
<1>9. ASSUME NEW batch \in SUBSET Runs, RecoverStale(batch)
      PROVE  Goal
  <2> DEFINE next == NextStatus(runs[r])
             type == IF next = "queued" THEN "stale_recovered" ELSE "failed"
  <2>1. CASE r \in batch
    <3>1. /\ runs[r].status = "running"
          /\ runs[r].attempts \in Nat /\ runs[r].max \in Nat
          /\ runs'[r] = Unfinished(runs[r], next, "worker_heartbeat_expired")
          /\ events'[r] = Append(events[r], Record(type, runs[r].attempts))
      BY <1>0, <1>9, <2>1, StoreAssumption
         DEF RecoverStale, Stale, Recovered, RecoveryEvent, Row, Counter
    <3>2. next \in {"queued", "failed"}
      BY <3>1, FailureStatus DEF NextStatus
    <3> HIDE DEF next
    <3>3. /\ runs'[r].status = next
          /\ runs'[r].error = "worker_heartbeat_expired"
          /\ runs'[r].attempts = runs[r].attempts
      BY <1>0, <3>1 DEF Unfinished, Row
    <3>4. type \in Outcomes /\ StatusAfter(type) = next
      BY <3>2 DEF Outcomes, StatusAfter
    <3> HIDE DEF type
    <3> QED
      BY <1>6, <3>1, <3>3, <3>4
  <2>2. CASE r \notin batch
    BY <1>1, <1>9, <2>2 DEF RecoverStale
  <2> QED
    BY <2>1, <2>2
<1>10. ASSUME NEW x \in Runs, BecomeDue(x) \/ BecomeStale(x)
       PROVE  Goal
  <2>1. events'[r] = events[r]
    BY <1>10 DEF BecomeDue, BecomeStale
  <2>2. \/ runs'[r] = runs[r]
        \/ runs'[r] = [runs[r] EXCEPT !.due = TRUE]
        \/ runs'[r] = [runs[r] EXCEPT !.stale = TRUE]
    BY <1>0, <1>10 DEF BecomeDue, BecomeStale
  <2> QED
    BY <1>1, <1>7, <2>1, <2>2
<1> HIDE DEF Goal
<1>11. Goal
  BY <1>2, <1>4, <1>5, <1>8, <1>9, <1>10
     DEF Next, ClaimStep, Claim, ClaimLost
<1> QED
  BY <1>11 DEF Goal

(* A run that was never enqueued has nothing to tell. *)
LEMMA InitHistories == Init => Histories
<1> SUFFICES ASSUME Init, NEW r \in Runs \ LegacyRuns
             PROVE  History(events[r], runs[r])
  BY DEF Histories
<1>1. events[r] = <<>> /\ runs[r] = NoRow
  BY DEF Init
<1>2. Told(<<>>) = {} /\ Starts(<<>>) = {}
  BY DEF Told, Starts
<1>3. Begun(NoRow) = 0 /\ NoRow.status = "absent" /\ NoRow.error = "none"
  BY DEF Begun, NoRow
<1> HIDE DEF Told, Starts
<1>4. Tells(<<>>, NoRow)
  BY <1>2, <1>3 DEF Tells
<1> QED
  BY <1>1, <1>3, <1>4 DEF History, RejectedForGood

LEMMA HistoriesKept ==
  ASSUME Inv, Histories, [Next]_vars
  PROVE  Histories'
<1>1. CASE Next
  <2>1. ASSUME NEW r \in Runs \ LegacyRuns
        PROVE  History(events'[r], runs'[r])
    <3>1. /\ runs[r] \in Row /\ RowInv(runs[r])
          /\ events[r] \in Seq(Event) /\ History(events[r], runs[r])
      BY DEF Inv, TypeOK, RowsInv, Histories
    <3>2. LogStep(runs[r], events[r], runs'[r], events'[r])
      BY <1>1, NextLogStep
    <3> QED
      BY <3>1, <3>2, StepTells
  <2> QED
    BY <2>1 DEF Histories
<1>2. CASE UNCHANGED vars
  BY <1>2 DEF vars, Histories
<1> QED
  BY <1>1, <1>2

(* The logs are histories in every reachable state. *)
LEMMA LogsTell == Spec => []Histories
<1>1. Init => Histories
  BY InitHistories
<1>2. Inv /\ Histories /\ [Next]_vars => Histories'
  BY HistoriesKept
<1> QED
  BY <1>1, <1>2, Invariance, PTL DEF Spec

(* Replaying the log of a run gives its row, whatever workers, recoveries  *)
(* and quarantines wrote it: the status, the attempts that started, and for*)
(* each the one event that ended it.                                       *)
THEOREM EventLogIsHistory == Spec => []EventLogTellsHistory
<1>1. Histories => EventLogTellsHistory
  BY DEF Histories, History, EventLogTellsHistory
<1> QED
  BY <1>1, LogsTell, PTL

(* The next event that tells of a run, if there is one after i. *)
LEMMA NextTold ==
  ASSUME NEW log, Told(log) \subseteq Nat,
         NEW i \in Told(log), NEW k \in Told(log), i < k
  PROVE  \E j \in Told(log) : i < j /\ Told(log) \cap i+1..j-1 = {}
<1> DEFINE later == {j \in Told(log) : i < j}
           less == OpToRel(<, Nat)
<1>1. later # {} /\ later \subseteq Nat
  OBVIOUS
<1> HIDE DEF less
<1>2. PICK j \in later : \A x \in later : <<x, j>> \notin less
  BY <1>1, NatLessThanWellFounded, WFMin DEF less
<1>3. Told(log) \cap i+1..j-1 = {}
  <2> SUFFICES ASSUME NEW x \in Told(log), x \in i+1..j-1 PROVE FALSE
    OBVIOUS
  <2>1. i < x /\ x < j /\ x \in later
    BY <1>1
  <2>2. <<x, j>> \in less
    BY <1>1, <2>1 DEF less, OpToRel
  <2> QED
    BY <1>2, <2>1, <2>2
<1> QED
  BY <1>2, <1>3

(* A log that tells of its row has no more starts than attempts began:     *)
(* they are numbered in order.                                             *)
LEMMA StartsCounted ==
  ASSUME NEW log, NEW row, Tells(log, row), Starts(log) \subseteq Nat,
         NEW max \in Nat, Begun(row) \in Int, Begun(row) <= max
  PROVE  Cardinality(Starts(log)) <= max
<1> DEFINE S == Starts(log)
           n == Begun(row)
           number == [i \in S |-> log[i].attempt]
<1>1. \A i \in S : log[i].attempt \in 1..n
  BY DEF Tells
<1>2. \A i, j \in S : i < j => log[i].attempt < log[j].attempt
  BY DEF Tells
<1> HIDE DEF S, n
<1>3. \A i, j \in S : i # j => log[i].attempt # log[j].attempt
  <2> SUFFICES ASSUME NEW i \in S, NEW j \in S, i < j
               PROVE  log[i].attempt # log[j].attempt
    BY DEF S
  <2> QED
    BY <1>1, <1>2 DEF n
<1>4. number \in Injection(S, 1..n)
  BY <1>1, <1>3 DEF Injection, IsInjective
<1>5. IsFiniteSet(1..n) /\ Cardinality(1..n) = IF 1 > n THEN 0 ELSE n - 1 + 1
  BY FS_Interval DEF n
<1>6. IsFiniteSet(S) /\ Cardinality(S) <= Cardinality(1..n)
  BY <1>4, <1>5, FS_Injection
<1>7. Cardinality(S) \in Nat /\ n \in Int /\ n <= max
  BY <1>6, FS_CardinalityType DEF n
<1> QED
  BY <1>5, <1>6, <1>7 DEF S

(* What a client that streams the events of a run sees: the run starts at  *)
(* most max_attempts times, whoever lost and recovered it in between, and  *)
(* it ends at most once, with nothing but reports of lost leases after it. *)
LogIsBounded ==
  \A r \in Runs \ LegacyRuns :
    LET log == events[r]
    IN  /\ Cardinality(Starts(log)) <= runs[r].max
        /\ \A i, j \in Told(log) : log[i].type \in Terminal => j <= i

(* The events of a run tell of at most max_attempts starts and one end.    *)
THEOREM RunEndsOnce == Spec => []LogIsBounded
<1>1. ASSUME Inv, Histories, NEW r \in Runs \ LegacyRuns
      PROVE  /\ Cardinality(Starts(events[r])) <= runs[r].max
             /\ \A i, j \in Told(events[r]) :
                  events[r][i].type \in Terminal => j <= i
  <2> DEFINE log == events[r]
             row == runs[r]
  <2>1. row \in Row /\ RowInv(row) /\ log \in Seq(Event) /\ History(log, row)
    BY <1>1 DEF Inv, TypeOK, RowsInv, Histories
  <2> HIDE DEF log, row
  <2>2. Told(log) \subseteq Nat /\ Starts(log) \subseteq Nat
    BY <2>1 DEF Told, Starts
  <2>3. Begun(row) \in Int /\ row.max \in Nat /\ Begun(row) <= row.max
    BY <2>1, StoreAssumption DEF Begun, Row, Counter, RowInv
  <2>4. Cardinality(Starts(log)) <= row.max
    BY <2>1, <2>2, <2>3, StartsCounted DEF History
  <2>5. ASSUME NEW i \in Told(log), NEW k \in Told(log),
               log[i].type \in Terminal, i < k
        PROVE  FALSE
    <3>1. PICK j \in Told(log) : i < j /\ Told(log) \cap i+1..j-1 = {}
      BY <2>2, <2>5, NextTold
    <3>2. Follows(log[i], log[j])
      BY <2>1, <3>1 DEF History, Tells
    <3> QED
      BY <2>5, <3>2 DEF Follows, StatusAfter, Terminal
  <2>6. \A i, j \in Told(log) : log[i].type \in Terminal => j <= i
    BY <2>2, <2>5
  <2> QED
    BY <2>4, <2>6 DEF log, row
<1>2. Inv /\ Histories => LogIsBounded
  BY <1>1 DEF LogIsBounded
<1> QED
  BY <1>2, LogsTell, Invariance, PTL
-----------------------------------------------------------------------------
(* The refinement of RunLifecycle.                                         *)
Observed(row) ==
  [status |-> row.status, attempts |-> row.attempts, max |-> row.max]

(* What a step does to a row is a move of the run, or nothing to observe. *)
LEMMA MoveOfRow ==
  ASSUME NEW a \in Row, NEW b, RowInv(a), RowStep(a, b)
  PROVE  Observed(b) = Observed(a) \/ Lifecycle!Move(Observed(a), Observed(b))
<1> USE DEF Observed, Lifecycle!Move
<1>0. a.attempts \in Nat /\ a.max \in Nat /\ a.attempts <= a.max
  BY StoreAssumption DEF Row, Counter, RowInv
<1>1. CASE b = a
  BY <1>1
<1>2. CASE (\E flag \in BOOLEAN : b = [a EXCEPT !.stale = flag])
           \/ b = [a EXCEPT !.due = TRUE]
  BY <1>2 DEF Row
<1>3. ASSUME NEW max \in 1..MaxAttempts, NEW valid \in BOOLEAN,
             b = Enqueued(max, valid), a.status = "absent"
      PROVE  Lifecycle!Move(Observed(a), Observed(b))
  <2>1. /\ b.status = "queued" /\ b.attempts = 0 /\ b.max = max /\ max > 0
    BY <1>3, StoreAssumption DEF Enqueued, NoRow
  <2> QED
    BY <1>3, <2>1 DEF Lifecycle!Submit
<1>4. ASSUME NEW w \in Workers, b = Claimed(a, w),
             a.status = "queued", a.attempts < a.max
      PROVE  Lifecycle!Move(Observed(a), Observed(b))
  <2>1. b.status = "running" /\ b.attempts = a.attempts + 1 /\ b.max = a.max
    BY <1>4 DEF Claimed, Row
  <2> QED
    BY <1>0, <1>4, <2>1 DEF Lifecycle!Start
<1>5. ASSUME b = Quarantined(a), a.status = "queued", a.attempts < a.max
      PROVE  Lifecycle!Move(Observed(a), Observed(b))
  <2>1. b.status = "failed" /\ b.attempts = a.attempts + 1 /\ b.max = a.max
    BY <1>5 DEF Quarantined, Row
  <2> QED
    BY <1>0, <1>5, <2>1 DEF Lifecycle!Reject
<1>6. ASSUME NEW status \in {"queued", "failed"}, NEW error,
             status = "queued" => a.attempts < a.max,
             b = Unfinished(a, status, error), a.status = "running"
      PROVE  Lifecycle!Move(Observed(a), Observed(b))
  <2>1. b.status = status /\ b.attempts = a.attempts /\ b.max = a.max
    BY <1>6 DEF Unfinished, Row
  <2> QED
    BY <1>6, <2>1 DEF Lifecycle!Retry, Lifecycle!Finish, Lifecycle!Terminal
<1>7. ASSUME NEW attempt, b = Succeeded(a, attempt), a.status = "running"
      PROVE  Lifecycle!Move(Observed(a), Observed(b))
  <2>1. b.status = "succeeded" /\ b.attempts = a.attempts /\ b.max = a.max
    BY <1>7 DEF Succeeded, Row
  <2> QED
    BY <1>7, <2>1 DEF Lifecycle!Finish, Lifecycle!Terminal
<1> QED
  BY <1>1, <1>2, <1>3, <1>4, <1>5, <1>6, <1>7 DEF RowStep

(* The queue with its workers, leases, clocks and crashes keeps the promise*)
(* made to the client: every step, a batch of several runs included, maps  *)
(* to moves of RunLifecycle.                                               *)
THEOREM StoreImplementsLifecycle == Spec => ImplementsLifecycle
<1> DEFINE life == [r \in Runs |-> Observed(runs[r])]
<1>1. Init => Lifecycle!Init
  BY StoreAssumption
     DEF Init, Lifecycle!Init, Lifecycle!NotSubmitted, NoRow, LegacyRow
<1>2. ASSUME Inv, [Next]_vars
      PROVE  [Lifecycle!Next]_life
  <2>1. CASE UNCHANGED vars
    BY <2>1 DEF vars
  <2>2. CASE Next
    <3>1. ASSUME NEW r \in Runs
          PROVE  \/ Observed(runs'[r]) = Observed(runs[r])
                 \/ Lifecycle!Move(Observed(runs[r]), Observed(runs'[r]))
      <4>1. runs[r] \in Row /\ RowInv(runs[r])
        BY <1>2 DEF Inv, TypeOK, RowsInv
      <4> QED
        BY <1>2, <2>2, <4>1, NextRowStep, MoveOfRow
    <3>2. Lifecycle!Next
      BY <3>1 DEF Lifecycle!Next, Observed
    <3> QED
      BY <3>2
  <2> QED
    BY <1>2, <2>1, <2>2
<1>3. Inv /\ [Next]_vars => [Lifecycle!Next]_life
  BY <1>2
<1> QED
  BY <1>1, <1>3, Invariance, PTL
     DEF Spec, ImplementsLifecycle, Lifecycle!Spec, Observed
=============================================================================
