------------------------ MODULE TransactionsProofs ------------------------
(***************************************************************************)
(* What the statements of the queue guarantee, for any number of runs,     *)
(* workers and connections.                                                *)
(*                                                                         *)
(*   I.   Event numbers never collide.                                     *)
(*   II.  The transactions implement RunStore: each one takes effect at    *)
(*        its COMMIT, as one atomic operation.                             *)
(*   III. No deadlock: who holds a lock does not wait for one.             *)
(*                                                                         *)
(* The argument of I.  A transaction adds an event of a run only while it  *)
(* holds the lock of the run's row, and keeps the lock until it ends.  So  *)
(* of all transactions at most one has uncommitted events of a run, the    *)
(* committed ones do not change under it, and MAX + 1 over what it sees is *)
(* the next free number.                                                   *)
(***************************************************************************)
EXTENDS Transactions, FiniteSetTheorems, SequenceTheorems, TLAPS

Fields ==
  {"op", "stage", "run", "lease", "event", "written", "added", "summary",
   "todo"}

(* The statements that are about tx[s].run. *)
AboutRun == {"quarantine", "outbox", "lock", "insert"}

(* As much of the shape of a transaction as the argument needs. *)
TxShape(t) ==
  /\ DOMAIN t = Fields
  /\ t.added = [r \in Runs |-> t.added[r]]
  /\ t.stage \in AboutRun => t.run \in Runs
  /\ t.op = "claim" => t.lease.run \in Runs
  /\ t.todo \subseteq Runs

Shape ==
  /\ lock \in [Runs -> Sessions \cup {NULL}]
  /\ log = [r \in Runs |-> log[r]]
  /\ tx = [s \in Sessions |-> tx[s]]
  /\ \A s \in Sessions : TxShape(tx[s])
  /\ \A lease \in leases : lease.run \in Runs

(* Events are added under the lock. *)
Holding ==
  \A s \in Sessions :
    /\ \A r \in Runs : tx[s].added[r] # {} => lock[r] = s
    /\ tx[s].stage = "insert" => lock[tx[s].run] = s

(* The numbers 1, 2, ..., each once. *)
Dense(entries) ==
  /\ IsFiniteSet(entries)
  /\ Numbers(entries) = 1..Cardinality(entries)

(* Committed events, and those with the events of one transaction on top. *)
Numbering ==
  \A r \in Runs :
    /\ Dense(log[r])
    /\ \A s \in Sessions :
         /\ Dense(Seen(s, r))
         /\ Numbers(tx[s].added[r]) \cap Numbers(log[r]) = {}

Inv == Shape /\ Holding /\ Numbering
-----------------------------------------------------------------------------
(* MAX(sequence) + 1 over 1..n is n + 1, for n = 0 too. *)
LEMMA NextNumberIsFree ==
  ASSUME NEW entries, Dense(entries)
  PROVE  /\ Cardinality(entries) \in Nat
         /\ NextNumber(entries) = Cardinality(entries) + 1
<1> DEFINE n == Cardinality(entries)
<1>1. n \in Nat
  BY FS_CardinalityType DEF Dense
<1>2. Numbers(entries) \cup {0} = 0..n
  BY <1>1 DEF Dense
<1>3. Max(0..n) = n
  <2> HIDE DEF n
  <2>1. n \in 0..n /\ \A y \in 0..n : n >= y
    BY <1>1
  <2>2. \A x \in 0..n : (\A y \in 0..n : x >= y) => x = n
    BY <1>1
  <2> QED
    BY <2>1, <2>2 DEF Max
<1> QED
  BY <1>1, <1>2, <1>3 DEF NextNumber

(* An entry with the next number keeps the numbers dense. *)
LEMMA AddingKeepsDense ==
  ASSUME NEW entries, NEW entry, Dense(entries),
         entry.sequence = NextNumber(entries)
  PROVE  /\ Dense(entries \cup {entry})
         /\ entry.sequence \notin Numbers(entries)
<1> DEFINE n == Cardinality(entries)
<1>1. n \in Nat /\ entry.sequence = n + 1
  BY NextNumberIsFree
<1>2. Numbers(entries) = 1..n /\ IsFiniteSet(entries)
  BY DEF Dense
<1>3. entry.sequence \notin Numbers(entries)
  BY <1>1, <1>2
<1>4. entry \notin entries
  BY <1>3 DEF Numbers
<1>5. /\ IsFiniteSet(entries \cup {entry})
      /\ Cardinality(entries \cup {entry}) = n + 1
  BY <1>2, <1>4, FS_AddElement
<1>6. Numbers(entries \cup {entry}) = Numbers(entries) \cup {entry.sequence}
  BY DEF Numbers
<1>7. Numbers(entries) \cup {entry.sequence} = 1..(n + 1)
  <2> HIDE DEF n
  <2> QED
    BY <1>1, <1>2
<1> QED
  BY <1>3, <1>5, <1>6, <1>7 DEF Dense

LEMMA EmptyIsDense == Dense({})
<1>1. Numbers({}) = {}
  BY DEF Numbers
<1>2. IsFiniteSet({}) /\ Cardinality({}) = 0
  BY FS_EmptySet
<1>3. 1..0 = {}
  OBVIOUS
<1> QED
  BY <1>1, <1>2, <1>3 DEF Dense
-----------------------------------------------------------------------------
(* A statement that adds no event: session s goes on as t, and has locked  *)
(* the rows R, none of which another session held.                         *)
LEMMA QuietStep ==
  ASSUME Inv, NEW s \in Sessions, NEW t, NEW R \in SUBSET Runs,
         \A r \in R : Unlocked(s, r),
         Lock(s, R), Open(s, t), log' = log, leases' = leases,
         TxShape(t), t.added = tx[s].added,
         t.stage = "insert" => t.run \in R \/ lock[t.run] = s
  PROVE  Inv'
<1> USE SessionAssumption
<1>1. tx' = [tx EXCEPT ![s] = t] /\ lock' = [r \in Runs |-> IF r \in R THEN s ELSE lock[r]]
  BY DEF Open, Lock
<1>2. /\ tx'[s] = t
      /\ \A x \in Sessions : x # s => tx'[x] = tx[x]
      /\ \A x \in Sessions : tx'[x].added = tx[x].added
  BY <1>1 DEF Inv, Shape
<1>3. Shape'
  BY <1>1, <1>2 DEF Inv, Shape, TxShape
<1>4. Holding'
  <2> SUFFICES ASSUME NEW x \in Sessions
               PROVE  /\ \A r \in Runs : tx'[x].added[r] # {} => lock'[r] = x
                      /\ tx'[x].stage = "insert" => lock'[tx'[x].run] = x
    BY DEF Holding
  <2>1. \A r \in Runs : lock[r] = x => lock'[r] = x
    BY <1>1 DEF Unlocked
  <2>2. \A r \in Runs : tx'[x].added[r] # {} => lock'[r] = x
    BY <1>2, <2>1 DEF Inv, Holding
  <2>3. CASE x = s
    <3>1. t.stage = "insert" => t.run \in Runs
      BY DEF TxShape, AboutRun
    <3> QED
      BY <1>1, <1>2, <2>2, <2>3, <3>1
  <2>4. CASE x # s
    <3>1. tx[x].stage = "insert" => tx[x].run \in Runs /\ lock[tx[x].run] = x
      BY DEF Inv, Shape, TxShape, AboutRun, Holding
    <3> QED
      BY <1>2, <2>1, <2>2, <2>4, <3>1
  <2> QED
    BY <2>3, <2>4
<1>5. Numbering'
  BY <1>2 DEF Inv, Numbering, Seen
<1> QED
  BY <1>3, <1>4, <1>5 DEF Inv

(* The INSERT of _append_event. *)
LEMMA InsertStep ==
  ASSUME Inv, NEW s \in Sessions, AppendInsert(s)
  PROVE  Inv'
<1> USE SessionAssumption
<1> DEFINE r == tx[s].run
           entry == [sequence |-> NextNumber(Seen(s, r)), event |-> tx[s].event]
           t == [tx[s] EXCEPT !.added = AddTo(@, r, entry),
                              !.stage = AfterInsert(tx[s])]
<1>1. /\ tx' = [tx EXCEPT ![s] = t]
      /\ tx[s].stage = "insert"
      /\ UNCHANGED <<log, leases, lock>>
  BY DEF AppendInsert, At, Open, Tables
<1>2. r \in Runs /\ lock[r] = s /\ TxShape(tx[s])
  BY <1>1 DEF Inv, Shape, TxShape, AboutRun, Holding
<1>3. AfterInsert(tx[s]) \in {"update", "candidate", "commit"}
  BY DEF AfterInsert
<1>4. /\ tx'[s] = t
      /\ \A x \in Sessions : x # s => tx'[x] = tx[x]
  BY <1>1 DEF Inv, Shape
<1>5. /\ DOMAIN t = Fields
      /\ t.added = [x \in Runs |-> IF x = r THEN tx[s].added[r] \cup {entry}
                                   ELSE tx[s].added[x]]
      /\ t.stage = AfterInsert(tx[s]) /\ t.run = tx[s].run
      /\ t.op = tx[s].op /\ t.lease = tx[s].lease /\ t.todo = tx[s].todo
  <2> HIDE DEF entry, r
  <2>1. DOMAIN tx[s] = Fields /\ tx[s].added = [x \in Runs |-> tx[s].added[x]]
    BY <1>2 DEF TxShape
  <2>2. t.added = AddTo(tx[s].added, r, entry)
    BY <2>1 DEF Fields
  <2>3. t.added = [x \in Runs |-> IF x = r THEN tx[s].added[r] \cup {entry}
                                  ELSE tx[s].added[x]]
    BY <1>2, <2>1, <2>2 DEF AddTo
  <2>4. DOMAIN t = Fields /\ t.stage = AfterInsert(tx[s])
    BY <2>1 DEF Fields
  <2>5. t.run = tx[s].run /\ t.op = tx[s].op /\ t.lease = tx[s].lease
        /\ t.todo = tx[s].todo
    BY <2>1 DEF Fields
  <2> QED
    BY <2>3, <2>4, <2>5
<1> HIDE DEF t
<1>6. TxShape(t)
  BY <1>2, <1>3, <1>5 DEF TxShape, AboutRun
<1>7. Shape'
  BY <1>1, <1>4, <1>6 DEF Inv, Shape
<1>8. Holding'
  <2> SUFFICES ASSUME NEW x \in Sessions
               PROVE  /\ \A y \in Runs : tx'[x].added[y] # {} => lock[y] = x
                      /\ tx'[x].stage = "insert" => lock[tx'[x].run] = x
    BY <1>1 DEF Holding
  <2>1. CASE x = s
    BY <1>2, <1>3, <1>4, <1>5, <2>1 DEF Inv, Holding
  <2>2. CASE x # s
    BY <1>4, <2>2 DEF Inv, Holding
  <2> QED
    BY <2>1, <2>2
<1>9. Numbering'
  <2> DEFINE seen == Seen(s, r)
  <2>1. Dense(seen)
    BY <1>2 DEF Inv, Numbering
  <2>2. Dense(seen \cup {entry}) /\ entry.sequence \notin Numbers(seen)
    <3>1. entry.sequence = NextNumber(seen)
      OBVIOUS
    <3> HIDE DEF entry, seen
    <3> QED
      BY <2>1, <3>1, AddingKeepsDense
  <2> HIDE DEF entry
  <2>3. /\ \A x \in Runs : x # r => t.added[x] = tx[s].added[x]
        /\ t.added[r] = tx[s].added[r] \cup {entry}
    BY <1>2, <1>5
  <2>4. log'[r] \cup tx'[s].added[r] = seen \cup {entry}
    BY <1>1, <1>2, <1>4, <2>3 DEF Seen
  <2>6. Numbers(t.added[r]) \cap Numbers(log[r]) = {}
    <3>1. Numbers(tx[s].added[r]) \cap Numbers(log[r]) = {}
      BY <1>2 DEF Inv, Numbering
    <3>2. entry.sequence \notin Numbers(log[r])
      BY <2>2 DEF Seen, Numbers
    <3> QED
      BY <2>3, <3>1, <3>2 DEF Numbers
  <2> SUFFICES ASSUME NEW y \in Runs, NEW x \in Sessions
               PROVE  /\ Dense(log'[y])
                      /\ Dense(log'[y] \cup tx'[x].added[y])
                      /\ Numbers(tx'[x].added[y]) \cap Numbers(log'[y]) = {}
    <3>1. \A y \in Runs : Dense(log'[y])
      BY <1>1 DEF Inv, Numbering
    <3> QED
      BY <3>1 DEF Numbering, Seen, Dense, Numbers
  <2>7. /\ Dense(log[y]) /\ Dense(log[y] \cup tx[x].added[y])
        /\ Numbers(tx[x].added[y]) \cap Numbers(log[y]) = {}
    BY DEF Inv, Numbering, Seen
  <2>8. CASE x # s
    BY <1>1, <1>4, <2>7, <2>8
  <2>9. CASE x = s /\ y # r
    BY <1>1, <1>4, <2>3, <2>7, <2>9
  <2>10. CASE x = s /\ y = r
    <3>1. Dense(log'[r] \cup tx'[s].added[r])
      BY <2>2, <2>4
    <3>2. Numbers(tx'[s].added[r]) \cap Numbers(log'[r]) = {}
      <4> HIDE DEF r
      <4> QED
        BY <1>1, <1>4, <2>6
    <3>3. Dense(log'[y])
      BY <1>1, <2>7
    <3> HIDE DEF r
    <3> QED
      BY <2>10, <3>1, <3>2, <3>3
  <2> QED
    BY <2>8, <2>9, <2>10
<1> QED
  BY <1>7, <1>8, <1>9 DEF Inv

(* COMMIT and ROLLBACK: the session is idle and holds no lock; what it     *)
(* added to a run is now in the log of the run, or nowhere.                *)
LEMMA EndStep ==
  ASSUME Inv, NEW s \in Sessions, Unlock(s), Open(s, NoTx),
         \/ log' = log
         \/ log' = [r \in Runs |-> Seen(s, r)],
         \A lease \in leases' : lease.run \in Runs
  PROVE  Inv'
<1> USE SessionAssumption
<1>1. /\ tx' = [tx EXCEPT ![s] = NoTx]
      /\ lock' = [r \in Runs |-> IF lock[r] = s THEN NULL ELSE lock[r]]
  BY DEF Open, Unlock
<1>2. /\ tx'[s] = NoTx
      /\ \A x \in Sessions : x # s => tx'[x] = tx[x]
  BY <1>1 DEF Inv, Shape
<1>3. TxShape(NoTx) /\ NoTx.stage = "idle" /\ NoTx.added = [r \in Runs |-> {}]
  BY DEF NoTx, TxShape, Fields, AboutRun
<1>4. Shape'
  <2>1. log' = [r \in Runs |-> log'[r]]
    BY DEF Inv, Shape
  <2>2. lock' \in [Runs -> Sessions \cup {NULL}]
    BY <1>1 DEF Inv, Shape
  <2> QED
    BY <1>1, <1>2, <1>3, <2>1, <2>2 DEF Inv, Shape
<1>5. Holding'
  <2> SUFFICES ASSUME NEW x \in Sessions
               PROVE  /\ \A r \in Runs : tx'[x].added[r] # {} => lock'[r] = x
                      /\ tx'[x].stage = "insert" => lock'[tx'[x].run] = x
    BY DEF Holding
  <2>1. CASE x = s
    BY <1>2, <1>3, <2>1
  <2>2. CASE x # s
    <3>1. tx[x].stage = "insert" => tx[x].run \in Runs /\ lock[tx[x].run] = x
      BY DEF Inv, Shape, TxShape, AboutRun, Holding
    <3> QED
      BY <1>1, <1>2, <2>2, <3>1 DEF Inv, Holding
  <2> QED
    BY <2>1, <2>2
<1>6. Numbering'
  <2> SUFFICES ASSUME NEW r \in Runs
               PROVE  /\ Dense(log'[r])
                      /\ \A x \in Sessions :
                           /\ Dense(log'[r] \cup tx'[x].added[r])
                           /\ Numbers(tx'[x].added[r]) \cap Numbers(log'[r]) = {}
    BY DEF Numbering, Seen
  <2>1. Dense(log[r]) /\ Dense(Seen(s, r))
    BY DEF Inv, Numbering
  <2>2. Dense(log'[r]) /\ log'[r] \in {log[r], Seen(s, r)}
    BY <2>1
  <2>3. ASSUME NEW x \in Sessions, x # s, tx[x].added[r] # {}
        PROVE  log'[r] = log[r]
    <3>1. lock[r] = x
      BY <2>3 DEF Inv, Holding
    <3>2. tx[s].added[r] = {}
      BY <2>3, <3>1 DEF Inv, Holding
    <3> QED
      BY <2>2, <3>2 DEF Seen
  <2> SUFFICES ASSUME NEW x \in Sessions
               PROVE  /\ Dense(log'[r] \cup tx'[x].added[r])
                      /\ Numbers(tx'[x].added[r]) \cap Numbers(log'[r]) = {}
    BY <2>2
  <2>4. CASE tx'[x].added[r] = {}
    <3>1. Numbers(tx'[x].added[r]) = {}
      BY <2>4 DEF Numbers
    <3>2. log'[r] \cup tx'[x].added[r] = log'[r]
      BY <2>4
    <3> QED
      BY <2>2, <3>1, <3>2
  <2>5. CASE tx'[x].added[r] # {}
    <3>1. x # s
      BY <1>2, <1>3, <2>5
    <3>2. tx'[x].added[r] = tx[x].added[r] /\ log'[r] = log[r]
      BY <1>2, <2>3, <2>5, <3>1
    <3> QED
      BY <3>2 DEF Inv, Numbering, Seen
  <2> QED
    BY <2>4, <2>5
<1> QED
  BY <1>4, <1>5, <1>6 DEF Inv
-----------------------------------------------------------------------------
LEMMA InitEstablishesInv == TxInit => Inv
<1> SUFFICES ASSUME TxInit PROVE Inv
  OBVIOUS
<1> USE DEF TxInit
<1>1. TxShape(NoTx) /\ NoTx.stage = "idle" /\ NoTx.added = [r \in Runs |-> {}]
  BY DEF NoTx, TxShape, Fields, AboutRun
<1>2. Shape
  BY <1>1 DEF Shape
<1>3. Holding
  BY <1>1 DEF Holding
<1>4. Numbering
  BY <1>1, EmptyIsDense DEF Numbering, Seen, Numbers
<1> QED
  BY <1>2, <1>3, <1>4 DEF Inv

(* A statement that also leaves the locks alone. *)
LEMMA LocalStep ==
  ASSUME Inv, NEW s \in Sessions, NEW t,
         Open(s, t), UNCHANGED <<log, leases, lock>>,
         TxShape(t), t.added = tx[s].added, t.stage # "insert"
  PROVE  Inv'
<1>1. Lock(s, {})
  BY DEF Inv, Shape, Lock
<1> QED
  BY <1>1, QuietStep

(* Wrote keeps everything of a transaction but run and written. *)
LEMMA WroteShape ==
  ASSUME NEW t, TxShape(t), NEW r \in Runs, NEW row
  PROVE  /\ DOMAIN Wrote(t, r, row) = Fields
         /\ Wrote(t, r, row).run = r
         /\ Wrote(t, r, row).added = t.added
         /\ Wrote(t, r, row).todo = t.todo
         /\ Wrote(t, r, row).op = t.op
         /\ Wrote(t, r, row).lease = t.lease
<1>1. DOMAIN t = Fields
  BY DEF TxShape
<1> QED
  BY <1>1 DEF Wrote, Fields

LEMMA NoTxShape ==
  /\ TxShape(NoTx)
  /\ NoTx.op = "none" /\ NoTx.todo = {}
  /\ NoTx.added = [r \in Runs |-> {}]
BY DEF NoTx, TxShape, Fields, AboutRun

LEMMA EnqueuePreservesInv ==
  ASSUME Inv, NEW s \in Sessions, NEW r \in Runs, NEW max, NEW valid,
         EnqueueInsert(s, r, max, valid)
  PROVE  Inv'
<1> DEFINE w == Wrote(tx[s], r, Store!Enqueued(max, valid))
           t == [w EXCEPT !.op = "enqueue", !.stage = "lock",
                          !.event = Store!Record("queued", 0)]
<1>1. TxShape(tx[s])
  BY DEF Inv, Shape
<1>2. /\ DOMAIN w = Fields /\ w.run = r /\ w.added = tx[s].added
      /\ w.todo = tx[s].todo
  BY <1>1, WroteShape
<1>3. TxShape(t) /\ t.added = tx[s].added /\ t.stage = "lock"
  <2> HIDE DEF w
  <2> QED
    BY <1>1, <1>2 DEF TxShape, Fields
<1>4. Lock(s, {r}) /\ Open(s, t) /\ UNCHANGED Tables /\ Unlocked(s, r)
  BY DEF EnqueueInsert, Unlocked
<1> HIDE DEF t
<1> QED
  BY <1>3, <1>4, QuietStep DEF Tables

LEMMA ClaimPreservesInv ==
  ASSUME Inv, NEW s \in Sessions, NEW w \in Workers, NEW r \in Runs,
         ClaimCandidate(s, w, r)
  PROVE  Inv'
<1> DEFINE u == Wrote(tx[s], r, Store!Claimed(runs[r], w))
           t == [u EXCEPT
                  !.op = "claim", !.lease = Store!LeaseOf(w, r),
                  !.stage = IF runs[r].valid THEN "lock" ELSE "quarantine",
                  !.event = Store!Record("started", runs[r].attempts + 1)]
<1>1. TxShape(tx[s])
  BY DEF Inv, Shape
<1>2. /\ DOMAIN u = Fields /\ u.run = r /\ u.added = tx[s].added
      /\ u.todo = tx[s].todo
  BY <1>1, WroteShape
<1>3. TxShape(t) /\ t.added = tx[s].added /\ t.stage # "insert"
  <2>1. Store!LeaseOf(w, r).run = r
    BY DEF Store!LeaseOf
  <2> HIDE DEF u
  <2> QED
    BY <1>1, <1>2, <2>1 DEF TxShape, Fields
<1>4. Lock(s, {r}) /\ Open(s, t) /\ UNCHANGED Tables /\ Unlocked(s, r)
  BY DEF ClaimCandidate
<1> HIDE DEF t
<1> QED
  BY <1>3, <1>4, QuietStep DEF Tables

LEMMA NoCandidatePreservesInv ==
  ASSUME Inv, NEW s \in Sessions, ClaimNoCandidate(s)
  PROVE  Inv'
<1> DEFINE t == [tx[s] EXCEPT !.stage = "commit"]
<1>1. TxShape(tx[s])
  BY DEF Inv, Shape
<1>2. TxShape(t) /\ t.added = tx[s].added /\ t.stage # "insert"
  BY <1>1 DEF TxShape, Fields, AboutRun
<1>3. Open(s, t) /\ UNCHANGED <<log, leases, lock>>
  BY DEF ClaimNoCandidate, Tables
<1> HIDE DEF t
<1> QED
  BY <1>2, <1>3, LocalStep

LEMMA QuarantinePreservesInv ==
  ASSUME Inv, NEW s \in Sessions, QuarantineUpdate(s)
  PROVE  Inv'
<1> DEFINE row == tx[s].written[tx[s].run]
           u == Wrote(tx[s], tx[s].run,
                  [row EXCEPT !.status = "failed", !.worker = NULL,
                              !.error = "invalid_persisted_configuration",
                              !.completed = TRUE, !.stale = FALSE])
           t == [u EXCEPT !.stage = "lock", !.event = Store!Record("failed", 0)]
<1>1. TxShape(tx[s]) /\ tx[s].run \in Runs
  BY DEF Inv, Shape, QuarantineUpdate, At, TxShape, AboutRun
<1>2. /\ DOMAIN u = Fields /\ u.run = tx[s].run /\ u.added = tx[s].added
      /\ u.todo = tx[s].todo /\ u.op = tx[s].op /\ u.lease = tx[s].lease
  BY <1>1, WroteShape
<1>3. TxShape(t) /\ t.added = tx[s].added /\ t.stage # "insert"
  <2> HIDE DEF u
  <2> QED
    BY <1>1, <1>2 DEF TxShape, Fields
<1>4. Open(s, t) /\ UNCHANGED <<log, leases, lock>>
  BY DEF QuarantineUpdate, Tables
<1> HIDE DEF t
<1> QED
  BY <1>3, <1>4, LocalStep

LEMMA SucceedPreservesInv ==
  ASSUME Inv, NEW s \in Sessions, NEW lease \in leases,
         SucceedUpdate(s, lease)
  PROVE  Inv'
<1> DEFINE r == lease.run
           u == Wrote(tx[s], r, Store!Succeeded(runs[r], lease.attempt))
           t == [u EXCEPT
                  !.op = "succeed", !.lease = lease, !.stage = "outbox",
                  !.event = Store!Record("succeeded", lease.attempt)]
<1>1. TxShape(tx[s]) /\ r \in Runs
  BY DEF Inv, Shape
<1>2. /\ DOMAIN u = Fields /\ u.run = r /\ u.added = tx[s].added
      /\ u.todo = tx[s].todo
  BY <1>1, WroteShape
<1>3. TxShape(t) /\ t.added = tx[s].added /\ t.stage # "insert"
  <2> HIDE DEF u, r
  <2> QED
    BY <1>1, <1>2 DEF TxShape, Fields
<1>4. Lock(s, {r}) /\ Open(s, t) /\ UNCHANGED Tables /\ Unlocked(s, r)
  BY DEF SucceedUpdate, Unlocked
<1> HIDE DEF t, r
<1> QED
  BY <1>1, <1>3, <1>4, QuietStep DEF Tables

LEMMA OutboxPreservesInv ==
  ASSUME Inv, NEW s \in Sessions, SucceedOutbox(s)
  PROVE  Inv'
<1> DEFINE t == [tx[s] EXCEPT !.summary = {tx[s].run}, !.stage = "lock"]
<1>1. TxShape(tx[s]) /\ tx[s].run \in Runs
  BY DEF Inv, Shape, SucceedOutbox, At, TxShape, AboutRun
<1>2. TxShape(t) /\ t.added = tx[s].added /\ t.stage # "insert"
  BY <1>1 DEF TxShape, Fields
<1>3. Open(s, t) /\ UNCHANGED <<log, leases, lock>>
  BY DEF SucceedOutbox, Tables
<1> HIDE DEF t
<1> QED
  BY <1>2, <1>3, LocalStep

LEMMA FailPreservesInv ==
  ASSUME Inv, NEW s \in Sessions, NEW lease \in leases, NEW retryable,
         FailUpdate(s, lease, retryable)
  PROVE  Inv'
<1> DEFINE r == lease.run
           next == Store!failure_status(lease.attempt, lease.max, retryable)
           u == Wrote(tx[s], r,
                      Store!Unfinished(runs[r], next, "attempt_failed"))
           t == [u EXCEPT
                  !.op = "fail", !.lease = lease, !.stage = "lock",
                  !.event = Store!Record(
                    IF next = "queued" THEN "retry_scheduled" ELSE "failed",
                    lease.attempt)]
<1>1. TxShape(tx[s]) /\ r \in Runs
  BY DEF Inv, Shape
<1>2. /\ DOMAIN u = Fields /\ u.run = r /\ u.added = tx[s].added
      /\ u.todo = tx[s].todo
  BY <1>1, WroteShape
<1>3. TxShape(t) /\ t.added = tx[s].added /\ t.stage # "insert"
  <2> HIDE DEF u, r, next
  <2> QED
    BY <1>1, <1>2 DEF TxShape, Fields
<1>4. Lock(s, {r}) /\ Open(s, t) /\ UNCHANGED Tables /\ Unlocked(s, r)
  BY DEF FailUpdate, Unlocked
<1> HIDE DEF t, r
<1> QED
  BY <1>1, <1>3, <1>4, QuietStep DEF Tables

LEMMA AddEventPreservesInv ==
  ASSUME Inv, NEW s \in Sessions, NEW lease \in leases, AddEvent(s, lease)
  PROVE  Inv'
<1> DEFINE event == Store!Record("worker_lease_lost", lease.attempt)
           t == [tx[s] EXCEPT !.op = "add_event", !.stage = "lock",
                    !.run = lease.run, !.lease = lease, !.event = event]
<1>1. TxShape(tx[s]) /\ lease.run \in Runs
  BY DEF Inv, Shape
<1>2. TxShape(t) /\ t.added = tx[s].added /\ t.stage # "insert"
  <2> HIDE DEF event
  <2> QED
    BY <1>1 DEF TxShape, Fields
<1>3. Open(s, t) /\ UNCHANGED <<log, leases, lock>>
  BY DEF AddEvent, Tables
<1> HIDE DEF t
<1> QED
  BY <1>2, <1>3, LocalStep

LEMMA SelectPreservesInv ==
  ASSUME Inv, NEW s \in Sessions, RecoverSelect(s)
  PROVE  Inv'
<1>1. TxShape(tx[s])
  BY DEF Inv, Shape
<1>2. PICK batch \in kSubset(Min({RecoveryBatch, Cardinality(StaleRows)}), StaleRows) :
        /\ Lock(s, batch)
        /\ Open(s, [tx[s] EXCEPT !.op = "recover", !.stage = "update",
                                 !.todo = batch])
  BY DEF RecoverSelect, RecoverLocks
<1>3. batch \subseteq StaleRows
  BY <1>2 DEF kSubset
<1>4. batch \in SUBSET Runs /\ \A r \in batch : Unlocked(s, r)
  BY <1>3 DEF StaleRows, Unlocked
<1> DEFINE t == [tx[s] EXCEPT !.op = "recover", !.stage = "update",
                              !.todo = batch]
<1>5. TxShape(t) /\ t.added = tx[s].added /\ t.stage # "insert"
  BY <1>1, <1>4 DEF TxShape, Fields, AboutRun
<1>6. UNCHANGED <<log, leases>>
  BY DEF RecoverSelect, Tables
<1>7. Lock(s, batch) /\ Open(s, t)
  BY <1>2
<1> HIDE DEF t
<1> QED
  BY <1>4, <1>5, <1>6, <1>7, QuietStep

LEMMA RecoverPreservesInv ==
  ASSUME Inv, NEW s \in Sessions, NEW r \in Runs, RecoverUpdate(s, r)
  PROVE  Inv'
<1> DEFINE u == Wrote(tx[s], r, Store!Recovered(runs[r]))
           e == Store!RecoveryEvent(runs[r], Store!NextStatus(runs[r]))
           t == [u EXCEPT !.stage = "lock", !.todo = @ \ {r}, !.event = e]
<1>1. TxShape(tx[s])
  BY DEF Inv, Shape
<1>2. /\ DOMAIN u = Fields /\ u.run = r /\ u.added = tx[s].added
      /\ u.todo = tx[s].todo /\ u.op = tx[s].op /\ u.lease = tx[s].lease
  BY <1>1, WroteShape
<1>3. TxShape(t) /\ t.added = tx[s].added /\ t.stage # "insert"
  <2> HIDE DEF u, e
  <2> QED
    BY <1>1, <1>2 DEF TxShape, Fields
<1>4. Lock(s, {r}) /\ Open(s, t) /\ UNCHANGED Tables /\ Unlocked(s, r)
  BY DEF RecoverUpdate
<1> HIDE DEF t
<1> QED
  BY <1>3, <1>4, QuietStep DEF Tables

LEMMA AppendLockPreservesInv ==
  ASSUME Inv, NEW s \in Sessions, AppendLock(s)
  PROVE  Inv'
<1> DEFINE r == tx[s].run
           t == [tx[s] EXCEPT !.stage = "insert"]
<1>1. TxShape(tx[s]) /\ r \in Runs
  BY DEF Inv, Shape, AppendLock, At, TxShape, AboutRun
<1>2. TxShape(t) /\ t.added = tx[s].added /\ t.run = r
  BY <1>1 DEF TxShape, Fields
<1>3. Lock(s, {r}) /\ Open(s, t) /\ UNCHANGED Tables /\ Unlocked(s, r)
  BY DEF AppendLock
<1> HIDE DEF t, r
<1> QED
  BY <1>1, <1>2, <1>3, QuietStep DEF Tables

LEMMA CommitPreservesInv ==
  ASSUME Inv, NEW s \in Sessions, Commit(s)
  PROVE  Inv'
<1>1. \A lease \in Returned(tx[s]) : lease.run \in Runs
  BY DEF Inv, Shape, TxShape, Returned
<1>2. \A lease \in leases' : lease.run \in Runs
  BY <1>1 DEF Commit, Inv, Shape
<1> QED
  BY <1>2, EndStep DEF Commit

LEMMA RollbackPreservesInv ==
  ASSUME Inv, NEW s \in Sessions, Rollback(s)
  PROVE  Inv'
<1>1. \A lease \in leases' : lease.run \in Runs
  BY DEF Rollback, Tables, Inv, Shape
<1> QED
  BY <1>1, EndStep DEF Rollback, Tables

(* Heartbeats, the clock and a worker letting go touch no event, no lock   *)
(* and no transaction.                                                     *)
LEMMA OtherStepsPreserveInv ==
  ASSUME Inv, UNCHANGED <<log, lock, tx>>, leases' \subseteq leases
  PROVE  Inv'
BY DEF Inv, Shape, TxShape, Holding, Numbering, Seen

LEMMA NextPreservesInv ==
  ASSUME Inv, [TxNext]_tvars
  PROVE  Inv'
<1>1. ASSUME NEW s \in Sessions, Begin(s)
      PROVE  Inv'
  BY <1>1, EnqueuePreservesInv, SucceedPreservesInv, FailPreservesInv,
     AddEventPreservesInv, SelectPreservesInv DEF Begin
<1>2. ASSUME NEW s \in Sessions, Statement(s)
      PROVE  Inv'
  BY <1>2, ClaimPreservesInv, NoCandidatePreservesInv, QuarantinePreservesInv,
     OutboxPreservesInv, RecoverPreservesInv, AppendLockPreservesInv,
     InsertStep, CommitPreservesInv DEF Statement
<1>3. ASSUME NEW s \in Sessions, Rollback(s)
      PROVE  Inv'
  BY <1>3, RollbackPreservesInv
<1>4. ASSUME NEW lease \in leases, Heartbeat(lease) \/ Release(lease)
      PROVE  Inv'
  BY <1>4, OtherStepsPreserveInv DEF Heartbeat, Release
<1>5. ASSUME NEW r \in Runs, Clock(r)
      PROVE  Inv'
  BY <1>5, OtherStepsPreserveInv
     DEF Clock, Store!BecomeDue, Store!BecomeStale
<1>6. CASE UNCHANGED tvars
  BY <1>6, OtherStepsPreserveInv DEF tvars
<1> QED
  BY <1>1, <1>2, <1>3, <1>4, <1>5, <1>6 DEF TxNext
-----------------------------------------------------------------------------
(* The inductive invariant holds always: events are added under the lock   *)
(* of their run and numbered 1, 2, ...                                     *)
THEOREM Numbered == TxSpec => []Inv
<1>1. TxInit => Inv
  BY InitEstablishesInv
<1>2. Inv /\ [TxNext]_tvars => Inv'
  BY NextPreservesInv
<1> QED
  BY <1>1, <1>2, PTL DEF TxSpec

LEMMA InvSeparatesNumbers == Inv => EventNumbersUnique
<1> SUFFICES ASSUME Inv, NEW r \in Runs
             PROVE  /\ Numbers(log[r]) = 1..Cardinality(log[r])
                    /\ \A s \in Sessions :
                         /\ Numbers(tx[s].added[r]) \cap Numbers(log[r]) = {}
                         /\ \A x \in Sessions \ {s} :
                              Numbers(tx[s].added[r])
                                \cap Numbers(tx[x].added[r]) = {}
  BY DEF EventNumbersUnique
<1>1. ASSUME NEW s \in Sessions, NEW x \in Sessions \ {s}
      PROVE  Numbers(tx[s].added[r]) \cap Numbers(tx[x].added[r]) = {}
  <2>1. tx[s].added[r] = {} \/ tx[x].added[r] = {}
    BY <1>1 DEF Inv, Holding
  <2> QED
    BY <2>1 DEF Numbers
<1> QED
  BY <1>1 DEF Inv, Numbering, Dense

(* No two transactions compute the same MAX(sequence) + 1 for a run, and   *)
(* the committed numbers of a run are 1, 2, ... without holes: the primary *)
(* key of rlm_events never makes an append fail.                           *)
THEOREM EventNumbersNeverCollide == TxSpec => []EventNumbersUnique
BY Numbered, InvSeparatesNumbers, PTL
-----------------------------------------------------------------------------
(***************************************************************************)
(* II. Statement by statement, the transactions do what RunStore says in   *)
(* one step.                                                               *)
(*                                                                         *)
(* The argument.  All statements of a transaction but the COMMIT leave the *)
(* tables alone, so they are stutters of RunStore, and the COMMIT has to be*)
(* the step.  Its guards were tested by earlier statements; SessionInv says*)
(* what is still true of them: the rows it has written are those RunStore  *)
(* would write now, since they are locked and a locked row only ages.      *)
(***************************************************************************)

(* The event row r gets from session s: the one it appends next, or the one*)
(* it has appended.                                                        *)
Appends(t, entries, r, event) ==
  IF t.stage \in AboutRun /\ r = t.run
  THEN t.added[r] = {} /\ t.event = event
  ELSE t.added[r] = {[sequence |-> Cardinality(entries) + 1, event |-> event]}

Gets(s, r, event) == Appends(tx[s], log[r], r, event)

EnqueueInv(s) ==
  LET t == tx[s]
  IN  /\ t.op = "enqueue" /\ t.stage \in {"lock", "insert", "commit"}
      /\ t.run \in Runs /\ DOMAIN t.written = {t.run}
      /\ t.todo = {} /\ t.summary = {}
      /\ runs[t.run].status = "absent"
      /\ \E max \in 1..MaxAttempts, valid \in BOOLEAN :
           t.written[t.run] = Store!Enqueued(max, valid)
      /\ Gets(s, t.run, Store!Record("queued", 0))

Rejected(s, r) ==
  /\ ~runs[r].valid
  /\ tx[s].written[r] = Store!Quarantined(runs[r])
  /\ Gets(s, r, Store!Record("failed", 0))

(* The row it is about: one to return, one to quarantine, one quarantined. *)
Found(s) ==
  LET t == tx[s]
      row == runs[t.run]
  IN  /\ t.stage \in {"lock", "insert", "commit"}
      /\ row.valid
      /\ t.written[t.run] = Store!Claimed(row, t.lease.worker)
      /\ t.event = Store!Record("started", row.attempts + 1)
      /\ Gets(s, t.run, t.event)

Spoiled(s) ==
  LET t == tx[s]
  IN  /\ t.stage = "quarantine"
      /\ ~runs[t.run].valid
      /\ t.written[t.run] = Store!Claimed(runs[t.run], t.lease.worker)
      /\ t.added[t.run] = {}

Discarded(s) ==
  LET t == tx[s]
  IN  /\ t.stage \in {"lock", "insert", "candidate", "commit"}
      /\ t.event = Store!Record("failed", 0)
      /\ Rejected(s, t.run)

ClaimInv(s) ==
  LET t == tx[s]
  IN  /\ t.op = "claim"
      /\ t.todo = {} /\ t.summary = {}
      /\ t.run \in DOMAIN t.written
      /\ t.lease.worker \in Workers /\ Store!Idle(t.lease.worker)
      /\ t.lease = Store!LeaseOf(t.lease.worker, t.run)
      /\ Cardinality(DOMAIN t.written) <= MaxQuarantined
      /\ t.stage = "candidate" => Cardinality(DOMAIN t.written) < MaxQuarantined
      /\ \A r \in DOMAIN t.written : Store!Claimable(r)
      /\ \A r \in DOMAIN t.written \ {t.run} : Rejected(s, r)
      /\ Found(s) \/ Spoiled(s) \/ Discarded(s)

SucceedInv(s) ==
  LET t == tx[s]
  IN  /\ t.op = "succeed" /\ t.stage \in {"outbox", "lock", "insert", "commit"}
      /\ t.lease \in leases /\ t.run = t.lease.run
      /\ DOMAIN t.written = {t.run} /\ t.todo = {}
      /\ t.summary = IF t.stage = "outbox" THEN {} ELSE {t.run}
      /\ Store!Owns(t.lease)
      /\ t.written[t.run] = Store!Succeeded(runs[t.run], t.lease.attempt)
      /\ Gets(s, t.run, Store!Record("succeeded", t.lease.attempt))

FailInv(s) ==
  LET t == tx[s]
  IN  /\ t.op = "fail" /\ t.stage \in {"lock", "insert", "commit"}
      /\ t.lease \in leases /\ t.run = t.lease.run
      /\ DOMAIN t.written = {t.run} /\ t.todo = {} /\ t.summary = {}
      /\ Store!Owns(t.lease)
      /\ Store!ValidCounters(t.lease.attempt, t.lease.max)
      /\ \E retryable \in BOOLEAN :
           LET next == Store!failure_status(t.lease.attempt, t.lease.max, retryable)
           IN  /\ t.written[t.run] =
                    Store!Unfinished(runs[t.run], next, "attempt_failed")
               /\ Gets(s, t.run,
                       Store!Record(IF next = "queued" THEN "retry_scheduled"
                                    ELSE "failed", t.lease.attempt))

AddEventInv(s) ==
  LET t == tx[s]
      event == Store!Record("worker_lease_lost", t.lease.attempt)
  IN  /\ t.op = "add_event" /\ t.stage \in {"lock", "insert", "commit"}
      /\ t.lease \in leases /\ t.run = t.lease.run
      /\ DOMAIN t.written = {} /\ t.todo = {} /\ t.summary = {}
      /\ Gets(s, t.run, event)
      /\ \A entry \in log[t.run] : entry.event # event

RecoverInv(s) ==
  LET t == tx[s]
  IN  /\ t.op = "recover" /\ t.stage \in {"update", "lock", "insert", "commit"}
      /\ t.summary = {}
      /\ DOMAIN t.written \cap t.todo = {}
      /\ \A r \in Runs \ DOMAIN t.written : t.added[r] = {}
      /\ Cardinality(DOMAIN t.written \cup t.todo) <= RecoveryBatch
      /\ \A r \in DOMAIN t.written \cup t.todo : Store!Stale(r)
      /\ \A r \in DOMAIN t.written :
           /\ Store!ValidCounters(runs[r].attempts, runs[r].max)
           /\ t.written[r] = Store!Recovered(runs[r])
           /\ Gets(s, r, Store!RecoveryEvent(runs[r], Store!NextStatus(runs[r])))
      /\ t.stage \in {"lock", "insert"} => t.run \in DOMAIN t.written
      /\ t.stage = "commit" => t.todo = {} /\ DOMAIN t.written # {}

(* It holds the locks of what it has written or selected, and adds events  *)
(* to no other run.                                                        *)
Keeps(s) ==
  LET t == tx[s]
  IN  /\ \A r \in DOMAIN t.written \cup t.todo : r \in Runs /\ lock[r] = s
      /\ \A r \in Runs \ (DOMAIN t.written \cup {t.run}) : t.added[r] = {}

SessionInv(s) ==
  /\ Keeps(s)
  /\ \/ tx[s] = NoTx
     \/ EnqueueInv(s) \/ ClaimInv(s) \/ SucceedInv(s) \/ FailInv(s)
     \/ AddEventInv(s) \/ RecoverInv(s)

(* Two claims are of two workers, two reports of two leases. *)
Rivals ==
  \A s, x \in Sessions : s # x =>
    /\ (tx[s].op = "claim" /\ tx[x].op = "claim") =>
         tx[s].lease.worker # tx[x].lease.worker
    /\ (tx[s].op = "add_event" /\ tx[x].op = "add_event") =>
         tx[s].lease # tx[x].lease

Sound == \A s \in Sessions : SessionInv(s)

SP == INSTANCE RunStoreProofs WITH events <- [r \in Runs |-> InOrder(log[r])]

(* It is the store of Transactions whose invariant is proved there. *)
LEMMA SameStore ==
  /\ SP!StoreAssumption
  /\ Store!Init <=> SP!Init
  /\ [Store!Next]_(Store!vars) <=> [SP!Next]_(SP!vars)
<1>1. SP!StoreAssumption
  BY SessionAssumption DEF SP!StoreAssumption
<1>2. Store!Init <=> SP!Init
  BY DEF Store!Init, SP!Init, Store!LegacyRow, SP!LegacyRow, Store!NoRow, SP!NoRow
<1>3. [Store!Next]_(Store!vars) <=> [SP!Next]_(SP!vars)
  BY DEF Store!Next, SP!Next, Store!vars, SP!vars,
     Store!Enqueue, SP!Enqueue, Store!Enqueued, SP!Enqueued, Store!NoRow, SP!NoRow,
     Store!append_event, SP!append_event, Store!Record, SP!Record,
     Store!ClaimStep, SP!ClaimStep, Store!Claim, SP!Claim,
     Store!ClaimLost, SP!ClaimLost, Store!ClaimNothing, SP!ClaimNothing,
     Store!ClaimTx, SP!ClaimTx, Store!Idle, SP!Idle, Store!LeaseOf, SP!LeaseOf,
     Store!Claimable, SP!Claimable, Store!Poisoned, SP!Poisoned,
     Store!Claimed, SP!Claimed, Store!Quarantined, SP!Quarantined,
     Store!Cardinality, SP!Cardinality, Store!IsFiniteSet, SP!IsFiniteSet,
     Store!LeaseStep, SP!LeaseStep, Store!Heartbeat, SP!Heartbeat,
     Store!Owns, SP!Owns, Store!Succeed, SP!Succeed,
     Store!Succeeded, SP!Succeeded, Store!Fail, SP!Fail,
     Store!failure_status, SP!failure_status,
     Store!ValidCounters, SP!ValidCounters, Store!Unfinished, SP!Unfinished,
     Store!AddLeaseLost, SP!AddLeaseLost, Store!Range, SP!Range,
     Store!Release, SP!Release, Store!RecoverStale, SP!RecoverStale,
     Store!Stale, SP!Stale, Store!Recovered, SP!Recovered,
     Store!NextStatus, SP!NextStatus, Store!RecoveryEvent, SP!RecoveryEvent,
     Store!BecomeDue, SP!BecomeDue, Store!BecomeStale, SP!BecomeStale
<1> QED
  BY <1>1, <1>2, <1>3

(* What the invariant of the store says of the values here. *)
LEMMA StoreFacts ==
  ASSUME SP!Inv
  PROVE  /\ runs = [r \in Runs |-> runs[r]]
         /\ \A r \in Runs :
              /\ runs[r] \in Store!Row
              /\ runs[r].attempts \in Nat /\ runs[r].max \in Nat
              /\ InOrder(log[r]) \in Seq(Store!Event)
         /\ \A lease \in leases :
              /\ lease.run \in Runs /\ lease.worker \in Workers
              /\ lease.attempt \in Nat /\ lease.max \in Nat
         /\ \A a, b \in leases :
              (a.run = b.run /\ a.attempt = b.attempt) => a = b
<1>1. /\ runs \in [Runs -> Store!Row]
      /\ [r \in Runs |-> InOrder(log[r])] \in [Runs -> Seq(Store!Event)]
      /\ leases \subseteq Store!Lease
  BY DEF SP!Inv, SP!TypeOK, SP!Row, Store!Row, SP!Event, Store!Event,
     SP!Lease, Store!Lease, SP!Counter, Store!Counter, SP!Status, Store!Status,
     SP!Errors, Store!Errors, SP!EventTypes, Store!EventTypes
<1>2. \A row \in Store!Row : row.attempts \in Nat /\ row.max \in Nat
  BY SessionAssumption DEF Store!Row, Store!Counter
<1>3. \A lease \in Store!Lease :
        /\ lease.run \in Runs /\ lease.worker \in Workers
        /\ lease.attempt \in Nat /\ lease.max \in Nat
  BY SessionAssumption DEF Store!Lease, Store!Counter
<1>4. \A r \in Runs : InOrder(log[r]) \in Seq(Store!Event)
  BY <1>1
<1>5. \A a, b \in leases : (a.run = b.run /\ a.attempt = b.attempt) => a = b
  BY DEF SP!Inv, SP!LeasesApart
<1> QED
  BY <1>1, <1>2, <1>3, <1>4, <1>5

(* Cardinality is the same operator on both sides. *)
LEMMA SameCardinality ==
  ASSUME NEW S
  PROVE  Store!Cardinality(S) = Cardinality(S)
BY DEF Store!Cardinality, Cardinality
-----------------------------------------------------------------------------
(* Dense numbers name their entries. *)
LEMMA DenseIsUnique ==
  ASSUME NEW entries, Dense(entries), NEW a \in entries, NEW b \in entries,
         a.sequence = b.sequence
  PROVE  a = b
<1> DEFINE n == Cardinality(entries)
           f == [entry \in entries |-> entry.sequence]
<1>1. n \in Nat /\ IsFiniteSet(entries)
  BY FS_CardinalityType DEF Dense
<1>2. IsFiniteSet(1..n) /\ Cardinality(1..n) = n
  <2> HIDE DEF n
  <2>1. IsFiniteSet(1..n) /\ Cardinality(1..n) = IF 1 > n THEN 0 ELSE n - 1 + 1
    BY <1>1, FS_Interval
  <2> QED
    BY <1>1, <2>1
<1>3. f \in Surjection(entries, 1..n)
  <2>1. Numbers(entries) = 1..n
    BY DEF Dense
  <2>2. f \in [entries -> 1..n]
    BY <2>1 DEF Numbers
  <2>3. \A i \in 1..n : \E entry \in entries : f[entry] = i
    BY <2>1 DEF Numbers
  <2> QED
    BY <2>2, <2>3 DEF Surjection
<1>4. f \in Injection(entries, 1..n)
  BY <1>1, <1>2, <1>3, FS_SurjSameCardinalityImpliesInj
<1> QED
  BY <1>4 DEF Injection, IsInjective

(* A committed entry with the next number is the next event of the log. *)
LEMMA NextInOrder ==
  ASSUME NEW E, NEW entries, Dense(entries), NEW event \in E,
         NEW entry, entry = [sequence |-> Cardinality(entries) + 1, event |-> event],
         InOrder(entries) \in Seq(E)
  PROVE  InOrder(entries \cup {entry}) = Append(InOrder(entries), event)
<1> DEFINE n == Cardinality(entries)
           all == entries \cup {entry}
           At_(S, i) == CHOOSE x \in S : x.sequence = i
<1>1. n \in Nat /\ NextNumber(entries) = n + 1
  BY NextNumberIsFree
<1>2. entry.sequence = n + 1 /\ entry.event = event
  OBVIOUS
<1>3. Dense(all) /\ entry.sequence \notin Numbers(entries)
  BY <1>1, <1>2, AddingKeepsDense
<1>4. Cardinality(all) = n + 1
  <2>1. entry \notin entries
    BY <1>3 DEF Numbers
  <2> QED
    BY <2>1, FS_AddElement DEF Dense
<1>5. InOrder(entries) = [i \in 1..n |-> At_(entries, i).event]
  BY DEF InOrder
<1>6. InOrder(all) = [i \in 1..n + 1 |-> At_(all, i).event]
  BY <1>4 DEF InOrder
<1>7. \A i \in 1..n : At_(all, i) = At_(entries, i)
  <2> TAKE i \in 1..n
  <2>1. i \in Numbers(entries)
    BY DEF Dense
  <2>2. \E x \in entries : x.sequence = i
    BY <2>1 DEF Numbers
  <2>3. At_(entries, i) \in entries /\ At_(entries, i).sequence = i
    BY <2>2
  <2>4. At_(all, i) \in all /\ At_(all, i).sequence = i
    BY <2>2
  <2> QED
    <3> HIDE DEF At_
    <3> QED
      BY <1>3, <2>3, <2>4, DenseIsUnique
<1>8. At_(all, n + 1) = entry
  <2>1. At_(all, n + 1) \in all /\ At_(all, n + 1).sequence = n + 1
    BY <1>2
  <2> QED
    <3> HIDE DEF At_
    <3> QED
      BY <1>2, <1>3, <2>1, DenseIsUnique
<1>9. Len(InOrder(entries)) = n
  <2> HIDE DEF n, At_
  <2> QED
    BY <1>1, <1>5
<1> HIDE DEF n, At_, all
<1>10. /\ Append(InOrder(entries), event) \in Seq(E)
       /\ Len(Append(InOrder(entries), event)) = n + 1
       /\ \A i \in 1..n + 1 : Append(InOrder(entries), event)[i]
            = IF i = n + 1 THEN event ELSE InOrder(entries)[i]
  BY <1>1, <1>9
<1>11. \A i \in 1..n + 1 : At_(all, i).event
          = IF i = n + 1 THEN event ELSE InOrder(entries)[i]
  BY <1>1, <1>2, <1>5, <1>7, <1>8
<1>12. /\ InOrder(all) \in Seq(E) /\ Len(InOrder(all)) = n + 1
       /\ \A i \in 1..n + 1 : InOrder(all)[i] = Append(InOrder(entries), event)[i]
  <2>1. \A i \in 1..n + 1 : At_(all, i).event \in E
    BY <1>1, <1>9, <1>11
  <2> QED
    BY <1>1, <1>6, <1>10, <1>11, <2>1
<1>13. InOrder(all) = Append(InOrder(entries), event)
  BY <1>10, <1>12, SeqEqual
<1> QED
  BY <1>13 DEF all
-----------------------------------------------------------------------------
(* A row that a transaction has locked only ages. *)
Aged(a, b) ==
  \/ b = a
  \/ a.status = "running" /\ b = [a EXCEPT !.stale = TRUE]
  \/ a.status = "queued" /\ ~a.due /\ b = [a EXCEPT !.due = TRUE]

LEMMA AgedRow ==
  ASSUME NEW a \in Store!Row, NEW b, Aged(a, b)
  PROVE  /\ b.status = a.status /\ b.worker = a.worker /\ b.valid = a.valid
         /\ b.attempts = a.attempts /\ b.max = a.max
         /\ a.status = "queued" /\ a.due => b = a
         /\ a.stale => b.stale
<1>1. CASE b = a
  BY <1>1
<1>2. CASE a.status = "running" /\ b = [a EXCEPT !.stale = TRUE]
  BY <1>2 DEF Store!Row
<1>3. CASE a.status = "queued" /\ ~a.due /\ b = [a EXCEPT !.due = TRUE]
  BY <1>3 DEF Store!Row
<1> QED
  BY <1>1, <1>2, <1>3 DEF Aged

(* What an attempt that ends makes of its row does not depend on its age. *)
LEMMA AgedDue ==
  ASSUME NEW a \in Store!Row, NEW b, Aged(a, b), a.status = "running"
  PROVE  b = a \/ (b = [a EXCEPT !.stale = TRUE] /\ b.due = a.due)
BY DEF Aged, Store!Row

LEMMA AgedSuccess ==
  ASSUME NEW a \in Store!Row, NEW b, Aged(a, b), a.status = "running",
         NEW attempt
  PROVE  Store!Succeeded(b, attempt) = Store!Succeeded(a, attempt)
<1>1. CASE b = a
  BY <1>1
<1>2. CASE b = [a EXCEPT !.stale = TRUE]
  BY <1>2 DEF Store!Succeeded, Store!Row
<1> QED
  BY <1>1, <1>2, AgedDue

LEMMA AgedFailure ==
  ASSUME NEW a \in Store!Row, NEW b, Aged(a, b), a.status = "running",
         NEW status, NEW error
  PROVE  Store!Unfinished(b, status, error) = Store!Unfinished(a, status, error)
<1>1. CASE b = a
  BY <1>1
<1>2. CASE b = [a EXCEPT !.stale = TRUE]
  BY <1>2, AgedDue DEF Store!Unfinished, Store!Row
<1> QED
  BY <1>1, <1>2, AgedDue
-----------------------------------------------------------------------------
(* What the others do leaves session x with what it has achieved: its rows *)
(* only age, its events keep their numbers, its lease stays.               *)
Spared(x) ==
  /\ tx'[x] = tx[x]
  /\ \A r \in Runs : lock[r] = x =>
       lock'[r] = x /\ Aged(runs[r], runs'[r]) /\ log'[r] = log[r]
  /\ tx[x].op \in {"succeed", "fail", "add_event"} => tx[x].lease \in leases'
  /\ tx[x].op = "claim" =>
       \A lease \in leases' : lease.worker # tx[x].lease.worker
  /\ tx[x].op = "add_event" =>
       \A entry \in log'[tx[x].run] :
         entry.event # Store!Record("worker_lease_lost", tx[x].lease.attempt)

LEMMA SparedGets ==
  ASSUME Inv, NEW x \in Sessions, Spared(x)
  PROVE  \A r \in Runs : \A event :
           Gets(x, r, event) => Appends(tx[x], log'[r], r, event)
<1> TAKE r \in Runs
<1> TAKE event
<1> HAVE Gets(x, r, event)
<1>1. CASE tx[x].stage \in AboutRun /\ r = tx[x].run
  BY <1>1 DEF Gets, Appends, Spared
<1>2. CASE ~(tx[x].stage \in AboutRun /\ r = tx[x].run)
  <2>1. tx[x].added[r] = {[sequence |-> Cardinality(log[r]) + 1, event |-> event]}
    BY <1>2 DEF Gets, Appends
  <2>2. log'[r] = log[r]
    BY <2>1 DEF Inv, Holding, Spared
  <2> QED
    BY <1>2, <2>1, <2>2 DEF Appends
<1> QED
  BY <1>1, <1>2

LEMMA SparedKeeps ==
  ASSUME NEW x \in Sessions, Spared(x), Keeps(x)
  PROVE  Keeps(x)'
BY DEF Keeps, Spared

LEMMA SparedEnqueue ==
  ASSUME Inv, SP!Inv, NEW x \in Sessions, Spared(x), Keeps(x), EnqueueInv(x)
  PROVE  EnqueueInv(x)'
<1> DEFINE r == tx[x].run
<1>1. r \in Runs /\ lock[r] = x /\ runs[r] \in Store!Row
  BY StoreFacts DEF EnqueueInv, Keeps
<1>2. runs'[r].status = "absent"
  BY <1>1, AgedRow DEF EnqueueInv, Spared
<1>3. Appends(tx[x], log'[r], r, Store!Record("queued", 0))
  BY <1>1, SparedGets DEF EnqueueInv
<1> QED
  BY <1>2, <1>3 DEF EnqueueInv, Spared, Gets

LEMMA SparedSucceed ==
  ASSUME Inv, SP!Inv, NEW x \in Sessions, Spared(x), Keeps(x), SucceedInv(x)
  PROVE  SucceedInv(x)'
<1> DEFINE r == tx[x].run
<1>1. r \in Runs /\ lock[r] = x /\ runs[r] \in Store!Row
  BY StoreFacts DEF SucceedInv, Keeps
<1>2. Aged(runs[r], runs'[r]) /\ runs[r].status = "running"
  BY <1>1 DEF SucceedInv, Spared, Store!Owns
<1>3. /\ runs'[r].status = "running" /\ runs'[r].worker = runs[r].worker
      /\ Store!Succeeded(runs'[r], tx[x].lease.attempt)
           = Store!Succeeded(runs[r], tx[x].lease.attempt)
  BY <1>1, <1>2, AgedRow, AgedSuccess
<1>4. Appends(tx[x], log'[r], r, Store!Record("succeeded", tx[x].lease.attempt))
  BY <1>1, SparedGets DEF SucceedInv
<1> QED
  BY <1>3, <1>4 DEF SucceedInv, Spared, Gets, Store!Owns

LEMMA SparedFail ==
  ASSUME Inv, SP!Inv, NEW x \in Sessions, Spared(x), Keeps(x), FailInv(x)
  PROVE  FailInv(x)'
<1> DEFINE t == tx[x]
           r == t.run
           next(retryable) ==
             Store!failure_status(t.lease.attempt, t.lease.max, retryable)
           event(retryable) ==
             Store!Record(IF next(retryable) = "queued" THEN "retry_scheduled"
                          ELSE "failed", t.lease.attempt)
<1>1. r \in Runs /\ lock[r] = x /\ runs[r] \in Store!Row
  BY StoreFacts DEF FailInv, Keeps
<1>2. Aged(runs[r], runs'[r]) /\ runs[r].status = "running"
  BY <1>1 DEF FailInv, Spared, Store!Owns
<1>3. PICK retryable \in BOOLEAN :
        /\ t.written[r] = Store!Unfinished(runs[r], next(retryable), "attempt_failed")
        /\ Gets(x, r, event(retryable))
  BY DEF FailInv
<1>4. t.written[r] = Store!Unfinished(runs'[r], next(retryable), "attempt_failed")
  BY <1>1, <1>2, <1>3, AgedFailure
<1>5. Appends(t, log'[r], r, event(retryable))
  BY <1>1, <1>3, SparedGets
<1>6. runs'[r].status = "running" /\ runs'[r].worker = runs[r].worker
  BY <1>1, <1>2, AgedRow
<1> QED
  BY <1>4, <1>5, <1>6 DEF FailInv, Spared, Gets, Store!Owns

LEMMA SparedAddEvent ==
  ASSUME Inv, SP!Inv, NEW x \in Sessions, Spared(x), AddEventInv(x)
  PROVE  AddEventInv(x)'
<1> DEFINE r == tx[x].run
<1>1. r \in Runs
  BY StoreFacts DEF AddEventInv
<1>2. Appends(tx[x], log'[r], r,
              Store!Record("worker_lease_lost", tx[x].lease.attempt))
  BY <1>1, SparedGets DEF AddEventInv
<1> QED
  BY <1>2 DEF AddEventInv, Spared, Gets

LEMMA SparedRecover ==
  ASSUME Inv, SP!Inv, NEW x \in Sessions, Spared(x), Keeps(x), RecoverInv(x)
  PROVE  RecoverInv(x)'
<1> DEFINE t == tx[x]
           event(row) == Store!RecoveryEvent(row, Store!NextStatus(row))
<1>1. ASSUME NEW r \in DOMAIN t.written \cup t.todo
      PROVE  /\ r \in Runs /\ runs[r] \in Store!Row
             /\ Aged(runs[r], runs'[r]) /\ runs[r].status = "running"
             /\ runs'[r].status = "running" /\ runs'[r].stale
             /\ runs'[r].attempts = runs[r].attempts /\ runs'[r].max = runs[r].max
  <2>1. r \in Runs /\ lock[r] = x /\ runs[r] \in Store!Row
    BY <1>1, StoreFacts DEF Keeps
  <2>2. Aged(runs[r], runs'[r]) /\ runs[r].status = "running" /\ runs[r].stale
    BY <1>1, <2>1 DEF RecoverInv, Spared, Store!Stale
  <2> QED
    BY <2>1, <2>2, AgedRow
<1>2. ASSUME NEW r \in DOMAIN t.written
      PROVE  /\ Store!ValidCounters(runs'[r].attempts, runs'[r].max)
             /\ t.written[r] = Store!Recovered(runs'[r])
             /\ Appends(t, log'[r], r, event(runs'[r]))
  <2>1. /\ Store!ValidCounters(runs[r].attempts, runs[r].max)
        /\ t.written[r] = Store!Recovered(runs[r])
        /\ Gets(x, r, event(runs[r]))
    BY <1>2 DEF RecoverInv
  <2>2. Store!NextStatus(runs'[r]) = Store!NextStatus(runs[r])
    BY <1>1 DEF Store!NextStatus
  <2>3. event(runs'[r]) = event(runs[r])
    BY <1>1, <2>2 DEF Store!RecoveryEvent
  <2>4. Store!Recovered(runs'[r]) = Store!Recovered(runs[r])
    BY <1>1, <2>2, AgedFailure DEF Store!Recovered
  <2>5. Appends(t, log'[r], r, event(runs[r]))
    BY <1>1, <2>1, SparedGets
  <2> QED
    BY <1>1, <2>1, <2>3, <2>4, <2>5
<1>3. \A r \in DOMAIN t.written \cup t.todo : Store!Stale(r)'
  BY <1>1 DEF Store!Stale
<1>4. \A r \in DOMAIN tx'[x].written :
        /\ Store!ValidCounters(runs'[r].attempts, runs'[r].max)
        /\ tx'[x].written[r] = Store!Recovered(runs'[r])
        /\ Gets(x, r, event(runs[r]))'
  BY <1>2 DEF Gets, Spared
<1> QED
  BY <1>3, <1>4 DEF RecoverInv, Spared

(* A row that can be claimed does not even age. *)
LEMMA SparedClaim ==
  ASSUME Inv, SP!Inv, NEW x \in Sessions, Spared(x), Keeps(x), ClaimInv(x)
  PROVE  ClaimInv(x)'
<1> DEFINE t == tx[x]
           w == t.lease.worker
<1>1. ASSUME NEW r \in DOMAIN t.written
      PROVE  /\ r \in Runs /\ runs'[r] = runs[r] /\ Store!Claimable(r)
             /\ \A event : Gets(x, r, event) => Appends(t, log'[r], r, event)
  <2>1. r \in Runs /\ lock[r] = x /\ runs[r] \in Store!Row
    BY <1>1, StoreFacts DEF Keeps
  <2>2. /\ Aged(runs[r], runs'[r]) /\ runs[r].status = "queued" /\ runs[r].due
        /\ Store!Claimable(r)
    BY <1>1, <2>1 DEF ClaimInv, Spared, Store!Claimable
  <2>3. \A event : Gets(x, r, event) => Appends(t, log'[r], r, event)
    BY <2>1, SparedGets
  <2> QED
    BY <2>1, <2>2, <2>3, AgedRow
<1>2. tx'[x] = t
  BY DEF Spared
<1>3. t.run \in DOMAIN t.written
  BY DEF ClaimInv
<1>4. Store!Idle(w)'
  BY <1>2 DEF Spared, ClaimInv, Store!Idle
<1>5. t.lease = Store!LeaseOf(w, t.run)'
  BY <1>1, <1>2, <1>3 DEF ClaimInv, Store!LeaseOf
<1>6. \A r \in DOMAIN t.written : Store!Claimable(r)'
  BY <1>1 DEF Store!Claimable
<1>7. \A r \in DOMAIN t.written : Rejected(x, r) => Rejected(x, r)'
  BY <1>1, <1>2 DEF Rejected, Gets
<1>8. Found(x) => Found(x)'
  BY <1>1, <1>2, <1>3 DEF Found, Gets
<1>9. Spoiled(x) => Spoiled(x)'
  BY <1>1, <1>2, <1>3 DEF Spoiled
<1>10. Discarded(x) => Discarded(x)'
  <2>1. Rejected(x, t.run) => Rejected(x, tx[x].run)'
    BY <1>1, <1>2, <1>3 DEF Rejected, Gets
  <2> QED
    BY <1>2, <2>1 DEF Discarded
<1>11. \A r \in DOMAIN tx'[x].written \ {tx'[x].run} : Rejected(x, r)'
  BY <1>2, <1>7 DEF ClaimInv
<1>12. \A r \in DOMAIN tx'[x].written : Store!Claimable(r)'
  BY <1>2, <1>6
<1>13. Found(x)' \/ Spoiled(x)' \/ Discarded(x)'
  BY <1>8, <1>9, <1>10 DEF ClaimInv
<1> HIDE DEF t, w
<1> QED
  BY <1>2, <1>4, <1>5, <1>11, <1>12, <1>13 DEF ClaimInv, t, w

LEMMA SparedSession ==
  ASSUME Inv, SP!Inv, NEW x \in Sessions, Spared(x), SessionInv(x)
  PROVE  SessionInv(x)'
<1>1. Keeps(x)'
  BY SparedKeeps DEF SessionInv
<1>2. CASE tx[x] = NoTx
  BY <1>1, <1>2 DEF SessionInv, Spared, NoTx
<1>3. CASE tx[x] # NoTx
  BY <1>1, <1>3, SparedEnqueue, SparedClaim, SparedSucceed, SparedFail,
     SparedAddEvent, SparedRecover DEF SessionInv
<1> QED
  BY <1>2, <1>3
-----------------------------------------------------------------------------
(* What a stage says of the transaction. *)
LEMMA StagesOf ==
  ASSUME NEW s \in Sessions
  PROVE  /\ NoTx.stage = "idle"
         /\ EnqueueInv(s) => tx[s].stage \in {"lock", "insert", "commit"}
         /\ ClaimInv(s) =>
              \/ tx[s].stage = "quarantine" /\ Spoiled(s)
              \/ tx[s].stage = "candidate" /\ Discarded(s)
              \/ tx[s].stage \in {"lock", "insert", "commit"}
         /\ SucceedInv(s) =>
              tx[s].stage \in {"outbox", "lock", "insert", "commit"}
         /\ FailInv(s) => tx[s].stage \in {"lock", "insert", "commit"}
         /\ AddEventInv(s) => tx[s].stage \in {"lock", "insert", "commit"}
         /\ RecoverInv(s) =>
              tx[s].stage \in {"update", "lock", "insert", "commit"}
<1>1. NoTx.stage = "idle"
  BY DEF NoTx
<1>2. EnqueueInv(s) => tx[s].stage \in {"lock", "insert", "commit"}
  BY DEF EnqueueInv
<1>3. ClaimInv(s) =>
        \/ tx[s].stage = "quarantine" /\ Spoiled(s)
        \/ tx[s].stage = "candidate" /\ Discarded(s)
        \/ tx[s].stage \in {"lock", "insert", "commit"}
  <2>1. ClaimInv(s) => Found(s) \/ Spoiled(s) \/ Discarded(s)
    BY DEF ClaimInv
  <2>2. Found(s) => tx[s].stage \in {"lock", "insert", "commit"}
    BY DEF Found
  <2>3. Spoiled(s) => tx[s].stage = "quarantine"
    BY DEF Spoiled
  <2>4. Discarded(s) =>
          tx[s].stage \in {"lock", "insert", "candidate", "commit"}
    BY DEF Discarded
  <2> QED
    BY <2>1, <2>2, <2>3, <2>4
<1>4. SucceedInv(s) => tx[s].stage \in {"outbox", "lock", "insert", "commit"}
  BY DEF SucceedInv
<1>5. FailInv(s) => tx[s].stage \in {"lock", "insert", "commit"}
  BY DEF FailInv
<1>6. AddEventInv(s) => tx[s].stage \in {"lock", "insert", "commit"}
  BY DEF AddEventInv
<1>7. RecoverInv(s) => tx[s].stage \in {"update", "lock", "insert", "commit"}
  BY DEF RecoverInv
<1> QED
  BY <1>1, <1>2, <1>3, <1>4, <1>5, <1>6, <1>7

LEMMA StageTells ==
  ASSUME NEW s \in Sessions, SessionInv(s)
  PROVE  /\ At(s, "idle") <=> tx[s] = NoTx
         /\ At(s, "quarantine") => ClaimInv(s) /\ Spoiled(s)
         /\ At(s, "candidate") => ClaimInv(s) /\ Discarded(s)
         /\ At(s, "outbox") => SucceedInv(s)
         /\ At(s, "update") => RecoverInv(s)
BY StagesOf DEF SessionInv, At

LEMMA OpTells ==
  ASSUME NEW s \in Sessions
  PROVE  /\ EnqueueInv(s) => tx[s].op = "enqueue"
         /\ ClaimInv(s) => tx[s].op = "claim"
         /\ SucceedInv(s) => tx[s].op = "succeed"
         /\ FailInv(s) => tx[s].op = "fail"
         /\ AddEventInv(s) => tx[s].op = "add_event"
         /\ RecoverInv(s) => tx[s].op = "recover"
         /\ NoTx.op = "none"
BY DEF EnqueueInv, ClaimInv, SucceedInv, FailInv, AddEventInv, RecoverInv, NoTx

LEMMA Reopened ==
  ASSUME Inv, NEW s \in Sessions, NEW t, Open(s, t)
  PROVE  /\ tx'[s] = t
         /\ \A x \in Sessions : x # s => tx'[x] = tx[x]
BY DEF Inv, Shape, Open

(* A statement that is not the COMMIT leaves the others what they have. *)
LEMMA StatementSpares ==
  ASSUME Inv, Sound, NEW s \in Sessions, NEW t, NEW R \in SUBSET Runs,
         \A r \in R : Unlocked(s, r),
         Lock(s, R), Open(s, t), UNCHANGED Tables,
         NEW x \in Sessions, x # s
  PROVE  Spared(x)
<1>1. tx'[x] = tx[x]
  BY Reopened
<1>2. UNCHANGED <<runs, log, leases>>
  BY DEF Tables
<1>3. \A r \in Runs : lock[r] = x => lock'[r] = x
  BY SessionAssumption DEF Lock, Unlocked
<1>4. tx[x].op \in {"succeed", "fail", "add_event", "claim"} =>
        SucceedInv(x) \/ FailInv(x) \/ AddEventInv(x) \/ ClaimInv(x)
  BY OpTells DEF Sound, SessionInv
<1>5. tx[x].op \in {"succeed", "fail", "add_event"} => tx[x].lease \in leases
  BY <1>4, OpTells DEF SucceedInv, FailInv, AddEventInv
<1>6. tx[x].op = "claim" => Store!Idle(tx[x].lease.worker)
  BY <1>4, OpTells DEF ClaimInv
<1>7. tx[x].op = "add_event" =>
        \A entry \in log[tx[x].run] :
          entry.event # Store!Record("worker_lease_lost", tx[x].lease.attempt)
  BY <1>4, OpTells DEF AddEventInv
<1> QED
  BY <1>1, <1>2, <1>3, <1>5, <1>6, <1>7 DEF Spared, Aged, Store!Idle

LEMMA OwnStep ==
  ASSUME Inv, SP!Inv, Sound, NEW s \in Sessions, NEW t, NEW R \in SUBSET Runs,
         \A r \in R : Unlocked(s, r),
         Lock(s, R), Open(s, t), UNCHANGED Tables, SessionInv(s)'
  PROVE  Sound'
<1>1. ASSUME NEW x \in Sessions, x # s
      PROVE  SessionInv(x)'
  BY <1>1, StatementSpares, SparedSession DEF Sound
<1> QED
  BY <1>1 DEF Sound

(* A statement that also leaves the locks alone. *)
LEMMA NoLock ==
  ASSUME Inv, NEW s \in Sessions, UNCHANGED lock
  PROVE  Lock(s, {})
BY DEF Inv, Shape, Lock

(* The locks of a session and of one that has just got R. *)
LEMMA KeepsLocks ==
  ASSUME NEW s \in Sessions, NEW t, NEW R \in SUBSET Runs, Lock(s, R),
         Keeps(s), tx'[s] = t,
         DOMAIN t.written \cup t.todo
           \subseteq DOMAIN tx[s].written \cup tx[s].todo \cup R,
         \A r \in Runs \ (DOMAIN t.written \cup {t.run}) : t.added[r] = {}
  PROVE  Keeps(s)'
BY DEF Keeps, Lock

(* What the first row written by a transaction makes of it. *)
FirstRow(t, r, row) ==
  /\ DOMAIN t = Fields /\ t.run = r /\ DOMAIN t.written = {r}
  /\ t.written[r] = row
  /\ t.added = [x \in Runs |-> {}] /\ t.summary = {} /\ t.todo = {}

LEMMA FirstWrite ==
  ASSUME NEW r \in Runs, NEW row
  PROVE  FirstRow(Wrote(NoTx, r, row), r, row)
<1>1. DOMAIN NoTx = Fields /\ NoTx.written = [x \in {} |-> NULL]
  BY DEF NoTx, Fields
<1>2. Wrote(NoTx, r, row).written = [x \in {r} |-> row]
  BY <1>1 DEF Wrote, Fields
<1> QED
  BY <1>1, <1>2 DEF FirstRow, Wrote, NoTx, Fields

LEMMA EnqueueIsSound ==
  ASSUME Inv, SP!Inv, Sound, NEW s \in Sessions, NEW r \in Runs,
         NEW max \in 1..MaxAttempts, NEW valid \in BOOLEAN,
         EnqueueInsert(s, r, max, valid)
  PROVE  Sound'
<1> DEFINE w == Wrote(tx[s], r, Store!Enqueued(max, valid))
           t == [w EXCEPT !.op = "enqueue", !.stage = "lock",
                          !.event = Store!Record("queued", 0)]
<1>1. SessionInv(s) /\ tx[s] = NoTx
  BY StageTells DEF Sound, EnqueueInsert
<1>2. /\ DOMAIN w = Fields /\ w.run = r /\ DOMAIN w.written = {r}
      /\ w.written[r] = Store!Enqueued(max, valid)
      /\ w.added = [x \in Runs |-> {}] /\ w.summary = {} /\ w.todo = {}
  <2> DEFINE row == Store!Enqueued(max, valid)
             first == Wrote(NoTx, r, row)
  <2>1. w = first
    BY <1>1
  <2> HIDE DEF w, row
  <2>2. FirstRow(first, r, row)
    BY FirstWrite
  <2> HIDE DEF first
  <2> QED
    BY <2>1, <2>2 DEF row, FirstRow
<1>3. /\ t.op = "enqueue" /\ t.stage = "lock" /\ t.run = r
      /\ t.event = Store!Record("queued", 0)
      /\ DOMAIN t.written = {r} /\ t.written[r] = Store!Enqueued(max, valid)
      /\ t.added = [x \in Runs |-> {}] /\ t.summary = {} /\ t.todo = {}
  <2> HIDE DEF w
  <2> QED
    BY <1>2 DEF Fields
<1>4. Lock(s, {r}) /\ Open(s, t) /\ UNCHANGED Tables /\ Unlocked(s, r)
  BY DEF EnqueueInsert, Unlocked
<1> HIDE DEF t
<1>5. tx'[s] = t
  BY <1>4, Reopened
<1>6. EnqueueInv(s)'
  BY <1>3, <1>4, <1>5 DEF EnqueueInv, Gets, Appends, AboutRun, EnqueueInsert, Tables
<1>7. Keeps(s)'
  BY <1>1, <1>3, <1>4, <1>5, KeepsLocks DEF SessionInv
<1> QED
  BY <1>4, <1>6, <1>7, OwnStep DEF SessionInv

LEMMA SucceedIsSound ==
  ASSUME Inv, SP!Inv, Sound, NEW s \in Sessions, NEW lease \in leases,
         SucceedUpdate(s, lease)
  PROVE  Sound'
<1> DEFINE r == lease.run
           row == Store!Succeeded(runs[r], lease.attempt)
           w == Wrote(tx[s], r, row)
           t == [w EXCEPT
                  !.op = "succeed", !.lease = lease, !.stage = "outbox",
                  !.event = Store!Record("succeeded", lease.attempt)]
<1>1. SessionInv(s) /\ tx[s] = NoTx /\ r \in Runs
  BY StageTells DEF Sound, SucceedUpdate, Inv, Shape
<1>2. /\ DOMAIN w = Fields /\ w.run = r /\ DOMAIN w.written = {r}
      /\ w.written[r] = row
      /\ w.added = [x \in Runs |-> {}] /\ w.summary = {} /\ w.todo = {}
  <2>1. w = Wrote(NoTx, r, row)
    BY <1>1
  <2> HIDE DEF w, r, row
  <2> QED
    BY <1>1, <2>1, FirstWrite DEF FirstRow
<1>3. /\ t.op = "succeed" /\ t.stage = "outbox" /\ t.run = r /\ t.lease = lease
      /\ t.event = Store!Record("succeeded", lease.attempt)
      /\ DOMAIN t.written = {r} /\ t.written[r] = row
      /\ t.added = [x \in Runs |-> {}] /\ t.summary = {} /\ t.todo = {}
  <2> HIDE DEF w, r, row
  <2> QED
    BY <1>2 DEF Fields
<1>4. /\ Lock(s, {r}) /\ Open(s, t) /\ UNCHANGED Tables /\ Unlocked(s, r)
      /\ Store!Owns(lease)
  BY DEF SucceedUpdate, Unlocked
<1> HIDE DEF t
<1>5. tx'[s] = t
  BY <1>4, Reopened
<1>6. SucceedInv(s)'
  BY <1>1, <1>3, <1>4, <1>5
     DEF SucceedInv, Gets, Appends, AboutRun, Tables, Store!Owns
<1>7. Keeps(s)'
  <2> HIDE DEF r
  <2> QED
    BY <1>1, <1>3, <1>4, <1>5, KeepsLocks DEF SessionInv
<1>8. SessionInv(s)'
  BY <1>6, <1>7 DEF SessionInv
<1> HIDE DEF r
<1> QED
  BY <1>1, <1>4, <1>8, OwnStep

LEMMA FailIsSound ==
  ASSUME Inv, SP!Inv, Sound, NEW s \in Sessions, NEW lease \in leases,
         NEW retryable \in BOOLEAN, FailUpdate(s, lease, retryable)
  PROVE  Sound'
<1> DEFINE r == lease.run
           next == Store!failure_status(lease.attempt, lease.max, retryable)
           row == Store!Unfinished(runs[r], next, "attempt_failed")
           event == Store!Record(
                      IF next = "queued" THEN "retry_scheduled" ELSE "failed",
                      lease.attempt)
           w == Wrote(tx[s], r, row)
           t == [w EXCEPT
                  !.op = "fail", !.lease = lease, !.stage = "lock",
                  !.event = event]
<1>1. SessionInv(s) /\ tx[s] = NoTx /\ r \in Runs
  BY StageTells DEF Sound, FailUpdate, Inv, Shape
<1>2. /\ DOMAIN w = Fields /\ w.run = r /\ DOMAIN w.written = {r}
      /\ w.written[r] = row
      /\ w.added = [x \in Runs |-> {}] /\ w.summary = {} /\ w.todo = {}
  <2>1. w = Wrote(NoTx, r, row)
    BY <1>1
  <2> HIDE DEF w, r, row
  <2> QED
    BY <1>1, <2>1, FirstWrite DEF FirstRow
<1>3. /\ t.op = "fail" /\ t.stage = "lock" /\ t.run = r /\ t.lease = lease
      /\ t.event = event
      /\ DOMAIN t.written = {r} /\ t.written[r] = row
      /\ t.added = [x \in Runs |-> {}] /\ t.summary = {} /\ t.todo = {}
  <2> HIDE DEF w, r, row, event
  <2> QED
    BY <1>2 DEF Fields
<1>4. /\ Lock(s, {r}) /\ Open(s, t) /\ UNCHANGED Tables /\ Unlocked(s, r)
      /\ Store!Owns(lease) /\ Store!ValidCounters(lease.attempt, lease.max)
  BY DEF FailUpdate, Unlocked
<1> HIDE DEF t
<1>5. tx'[s] = t
  BY <1>4, Reopened
<1>6. FailInv(s)'
  <2>1. /\ tx'[s].written[r] = row
        /\ Gets(s, r, event)'
    BY <1>1, <1>3, <1>4, <1>5 DEF Gets, Appends, AboutRun, Tables
  <2> QED
    BY <1>1, <1>3, <1>4, <1>5, <2>1
       DEF FailInv, Tables, Store!Owns, Gets
<1>7. Keeps(s)'
  <2> HIDE DEF r
  <2> QED
    BY <1>1, <1>3, <1>4, <1>5, KeepsLocks DEF SessionInv
<1>8. SessionInv(s)'
  BY <1>6, <1>7 DEF SessionInv
<1> HIDE DEF r
<1> QED
  BY <1>1, <1>4, <1>8, OwnStep

LEMMA AddEventIsSound ==
  ASSUME Inv, SP!Inv, Sound, NEW s \in Sessions, NEW lease \in leases,
         AddEvent(s, lease)
  PROVE  Sound'
<1> DEFINE r == lease.run
           event == Store!Record("worker_lease_lost", lease.attempt)
           t == [tx[s] EXCEPT !.op = "add_event", !.stage = "lock",
                    !.run = r, !.lease = lease, !.event = event]
<1>1. SessionInv(s) /\ tx[s] = NoTx /\ r \in Runs
  BY StageTells DEF Sound, AddEvent, Inv, Shape
<1>2. /\ t.op = "add_event" /\ t.stage = "lock" /\ t.run = r
      /\ t.lease = lease /\ t.event = event
      /\ DOMAIN t.written = {}
      /\ t.added = [x \in Runs |-> {}] /\ t.summary = {} /\ t.todo = {}
  <2> HIDE DEF r, event
  <2> QED
    BY <1>1 DEF NoTx
<1>3. /\ UNCHANGED lock /\ Open(s, t) /\ UNCHANGED Tables
      /\ \A entry \in log[r] : entry.event # event
  BY DEF AddEvent
<1> HIDE DEF t
<1>4. tx'[s] = t /\ Lock(s, {})
  BY <1>3, Reopened, NoLock
<1>5. AddEventInv(s)'
  BY <1>1, <1>2, <1>3, <1>4 DEF AddEventInv, Gets, Appends, AboutRun, Tables
<1>6. Keeps(s)'
  <2> HIDE DEF r
  <2> QED
    BY <1>1, <1>2, <1>4, KeepsLocks DEF SessionInv
<1>7. SessionInv(s)'
  BY <1>5, <1>6 DEF SessionInv
<1> QED
  BY <1>3, <1>4, <1>7, OwnStep

LEMMA SelectIsSound ==
  ASSUME Inv, SP!Inv, Sound, NEW s \in Sessions, RecoverSelect(s)
  PROVE  Sound'
<1> DEFINE k == Min({RecoveryBatch, Cardinality(StaleRows)})
<1>1. SessionInv(s) /\ tx[s] = NoTx
  BY StageTells DEF Sound, RecoverSelect
<1>2. PICK batch \in kSubset(k, StaleRows) :
        /\ batch # {}
        /\ Lock(s, batch)
        /\ Open(s, [tx[s] EXCEPT !.op = "recover", !.stage = "update",
                                 !.todo = batch])
  BY DEF RecoverSelect, RecoverLocks
<1>3. batch \subseteq StaleRows /\ Cardinality(batch) = k
  BY <1>2 DEF kSubset
<1>4. k <= RecoveryBatch
  <2>1. IsFiniteSet(StaleRows)
    BY SessionAssumption, FS_Subset DEF StaleRows
  <2>2. Cardinality(StaleRows) \in Nat /\ RecoveryBatch \in Nat
    BY <2>1, SessionAssumption, FS_CardinalityType
  <2> DEFINE n == Cardinality(StaleRows)
  <2> HIDE DEF n
  <2>3. \E x \in {RecoveryBatch, n} : \A y \in {RecoveryBatch, n} : x =< y
    <3>1. CASE RecoveryBatch =< n
      BY <2>2, <3>1 DEF n
    <3>2. CASE n =< RecoveryBatch
      BY <2>2, <3>2 DEF n
    <3> QED
      BY <2>2, <3>1, <3>2 DEF n
  <2>4. Min({RecoveryBatch, n}) =< RecoveryBatch
    BY <2>3 DEF Min
  <2> QED
    BY <2>4 DEF n
<1> HIDE DEF k
<1>5. batch \in SUBSET Runs /\ \A r \in batch : Unlocked(s, r) /\ Store!Stale(r)
  BY <1>3 DEF StaleRows, Unlocked
<1> DEFINE t == [tx[s] EXCEPT !.op = "recover", !.stage = "update",
                              !.todo = batch]
<1>6. /\ t.op = "recover" /\ t.stage = "update" /\ DOMAIN t.written = {}
      /\ t.added = [x \in Runs |-> {}] /\ t.summary = {} /\ t.todo = batch
  BY <1>1 DEF NoTx
<1>7. Lock(s, batch) /\ Open(s, t) /\ UNCHANGED Tables
  BY <1>2 DEF RecoverSelect
<1> HIDE DEF t
<1>8. tx'[s] = t
  BY <1>7, Reopened
<1>9. RecoverInv(s)'
  BY <1>3, <1>4, <1>5, <1>6, <1>7, <1>8 DEF RecoverInv, Tables, Store!Stale
<1>10. Keeps(s)'
  BY <1>1, <1>5, <1>6, <1>7, <1>8, KeepsLocks DEF SessionInv
<1> QED
  BY <1>5, <1>7, <1>9, <1>10, OwnStep DEF SessionInv

LEMMA OutboxIsSound ==
  ASSUME Inv, SP!Inv, Sound, NEW s \in Sessions, SucceedOutbox(s)
  PROVE  Sound'
<1> DEFINE t == [tx[s] EXCEPT !.summary = {tx[s].run}, !.stage = "lock"]
<1>1. SessionInv(s) /\ SucceedInv(s) /\ tx[s].stage = "outbox"
  BY StageTells DEF Sound, SucceedOutbox, At
<1>2. DOMAIN tx[s] = Fields
  BY DEF Inv, Shape, TxShape
<1>3. /\ t.op = tx[s].op /\ t.stage = "lock" /\ t.run = tx[s].run
      /\ t.lease = tx[s].lease /\ t.event = tx[s].event
      /\ t.written = tx[s].written /\ t.added = tx[s].added
      /\ t.summary = {tx[s].run} /\ t.todo = tx[s].todo
  BY <1>2 DEF Fields
<1>4. UNCHANGED lock /\ Open(s, t) /\ UNCHANGED Tables
  BY DEF SucceedOutbox
<1> HIDE DEF t
<1>5. tx'[s] = t /\ Lock(s, {})
  BY <1>4, Reopened, NoLock
<1>6. SucceedInv(s)'
  BY <1>1, <1>3, <1>4, <1>5
     DEF SucceedInv, Gets, Appends, AboutRun, Tables, Store!Owns
<1>7. Keeps(s)'
  BY <1>1, <1>3, <1>5, KeepsLocks DEF SessionInv, Keeps
<1> QED
  BY <1>4, <1>5, <1>6, <1>7, OwnStep DEF SessionInv

LEMMA NextWrite ==
  ASSUME NEW t, DOMAIN t = Fields, NEW r, NEW row
  PROVE  /\ DOMAIN Wrote(t, r, row) = Fields
         /\ Wrote(t, r, row).run = r
         /\ DOMAIN Wrote(t, r, row).written = DOMAIN t.written \cup {r}
         /\ Wrote(t, r, row).written[r] = row
         /\ \A x \in DOMAIN t.written \ {r} :
              Wrote(t, r, row).written[x] = t.written[x]
         /\ Wrote(t, r, row).added = t.added /\ Wrote(t, r, row).todo = t.todo
         /\ Wrote(t, r, row).summary = t.summary /\ Wrote(t, r, row).op = t.op
         /\ Wrote(t, r, row).lease = t.lease
<1>1. Wrote(t, r, row).written
        = [x \in DOMAIN t.written \cup {r} |-> IF x = r THEN row ELSE t.written[x]]
  BY DEF Wrote, Fields
<1> QED
  BY <1>1 DEF Wrote, Fields

(* The event of a row that is not the one it is about has been appended. *)
AddedTo(s, r, event) ==
  tx[s].added[r] = {[sequence |-> Cardinality(log[r]) + 1, event |-> event]}

(* Before a claim takes a candidate, it has only quarantined rows. *)
LEMMA BeforeClaim ==
  ASSUME Inv, Sound, NEW s \in Sessions, NEW w \in Workers, MayClaim(s, w)
  PROVE  LET t == tx[s]
         IN  /\ Store!Idle(w) /\ t.todo = {} /\ t.summary = {}
             /\ IsFiniteSet(DOMAIN t.written)
             /\ Cardinality(DOMAIN t.written) < MaxQuarantined
             /\ \A x \in DOMAIN t.written :
                  /\ Store!Claimable(x) /\ ~runs[x].valid
                  /\ t.written[x] = Store!Quarantined(runs[x])
                  /\ AddedTo(s, x, Store!Record("failed", 0))
             /\ \A x \in Runs \ DOMAIN t.written : t.added[x] = {}
<1>1. CASE At(s, "idle")
  <2>1. tx[s] = NoTx /\ DOMAIN NoTx.written = {}
    BY <1>1, StageTells DEF Sound, NoTx
  <2>2. IsFiniteSet({}) /\ Cardinality({}) = 0
    BY FS_EmptySet
  <2>3. 0 < MaxQuarantined
    BY SessionAssumption
  <2> QED
    BY <1>1, <2>1, <2>2, <2>3 DEF MayClaim, NoTx, At
<1>2. CASE At(s, "candidate")
  <2>1. SessionInv(s) /\ ClaimInv(s) /\ Discarded(s) /\ tx[s].stage = "candidate"
    BY <1>2, StageTells DEF Sound, At
  <2>2. tx[s].lease.worker = w
    BY <1>2 DEF MayClaim, At
  <2>3. DOMAIN tx[s].written \subseteq Runs
    BY <2>1 DEF SessionInv, Keeps
  <2>4. IsFiniteSet(DOMAIN tx[s].written)
    BY <2>3, SessionAssumption, FS_Subset
  <2>5. \A x \in DOMAIN tx[s].written : Rejected(s, x)
    BY <2>1 DEF ClaimInv, Discarded
  <2>6. \A x \in DOMAIN tx[s].written : AddedTo(s, x, Store!Record("failed", 0))
    BY <2>1, <2>5 DEF Rejected, Gets, Appends, AboutRun, AddedTo
  <2>7. \A x \in Runs \ DOMAIN tx[s].written : tx[s].added[x] = {}
    BY <2>1 DEF SessionInv, Keeps, ClaimInv
  <2> QED
    BY <2>1, <2>2, <2>4, <2>5, <2>6, <2>7 DEF ClaimInv, Rejected
<1> QED
  BY <1>1, <1>2 DEF MayClaim

LEMMA ClaimIsSound ==
  ASSUME Inv, SP!Inv, Sound, NEW s \in Sessions, NEW w \in Workers,
         NEW r \in Runs, ClaimCandidate(s, w, r)
  PROVE  Sound'
<1> DEFINE D == DOMAIN tx[s].written
           row == Store!Claimed(runs[r], w)
           u == Wrote(tx[s], r, row)
           event == Store!Record("started", runs[r].attempts + 1)
           stage == IF runs[r].valid THEN "lock" ELSE "quarantine"
           lease == Store!LeaseOf(w, r)
           t == [u EXCEPT !.op = "claim", !.lease = lease, !.stage = stage,
                          !.event = event]
<1>1. SessionInv(s) /\ MayClaim(s, w)
  BY DEF Sound, ClaimCandidate
<1>2. /\ Store!Idle(w) /\ tx[s].todo = {} /\ tx[s].summary = {}
      /\ IsFiniteSet(D) /\ Cardinality(D) < MaxQuarantined
      /\ \A x \in D :
           /\ Store!Claimable(x) /\ ~runs[x].valid
           /\ tx[s].written[x] = Store!Quarantined(runs[x])
           /\ AddedTo(s, x, Store!Record("failed", 0))
      /\ \A x \in Runs \ D : tx[s].added[x] = {}
  BY <1>1, BeforeClaim
<1>3. Store!Claimable(r) /\ r \notin D
  BY DEF ClaimCandidate, Candidates
<1>4. DOMAIN tx[s] = Fields
  BY DEF Inv, Shape, TxShape
<1>5. /\ DOMAIN u = Fields /\ u.run = r /\ DOMAIN u.written = D \cup {r}
      /\ u.written[r] = row
      /\ \A x \in D \ {r} : u.written[x] = tx[s].written[x]
      /\ u.added = tx[s].added /\ u.todo = tx[s].todo
      /\ u.summary = tx[s].summary
  <2> HIDE DEF row
  <2> QED
    BY <1>4, NextWrite
<1>6. /\ t.op = "claim" /\ t.stage = stage /\ t.run = r /\ t.lease = lease
      /\ t.event = event /\ t.written = u.written /\ t.added = tx[s].added
      /\ t.todo = {} /\ t.summary = {}
  <2> HIDE DEF u, row, lease, event, stage
  <2> QED
    BY <1>2, <1>5 DEF Fields
<1>7. Lock(s, {r}) /\ Open(s, t) /\ UNCHANGED Tables /\ Unlocked(s, r)
  BY DEF ClaimCandidate
<1>8. Cardinality(D \cup {r}) <= MaxQuarantined
  <2>1. Cardinality(D) \in Nat /\ Cardinality(D \cup {r}) = Cardinality(D) + 1
    BY <1>2, <1>3, FS_CardinalityType, FS_AddElement
  <2> DEFINE n == Cardinality(D)
  <2> HIDE DEF n
  <2>2. n \in Nat /\ n < MaxQuarantined => n + 1 <= MaxQuarantined
    BY SessionAssumption
  <2> QED
    BY <1>2, <2>1, <2>2 DEF n
<1> HIDE DEF t, u
<1>9. tx'[s] = t
  BY <1>7, Reopened
<1>10. lease.worker = w /\ lease.run = r
  BY DEF Store!LeaseOf
<1>11. UNCHANGED <<runs, log, leases>>
  BY <1>7 DEF Tables
<1>12. \A x \in D : Rejected(s, x)'
  <2> SUFFICES ASSUME NEW x \in D PROVE Rejected(s, x)'
    OBVIOUS
  <2>1. x # r /\ tx'[s].written[x] = Store!Quarantined(runs[x]) /\ ~runs[x].valid
    BY <1>2, <1>3, <1>5, <1>6, <1>9
  <2>2. Appends(tx'[s], log[x], x, Store!Record("failed", 0))
    BY <1>2, <1>6, <1>9, <2>1 DEF Appends, AddedTo
  <2> QED
    BY <1>11, <2>1, <2>2 DEF Rejected, Gets
<1>13. Found(s)' \/ Spoiled(s)'
  <2>1. tx[s].added[r] = {}
    BY <1>2, <1>3
  <2>2. CASE runs[r].valid
    <3>1. stage = "lock"
      BY <2>2
    <3> HIDE DEF stage
    <3>2. Appends(t, log[r], r, event)
      BY <1>6, <2>1, <3>1 DEF Appends, AboutRun
    <3> QED
      BY <1>5, <1>6, <1>9, <1>10, <1>11, <2>2, <3>1, <3>2 DEF Found, Gets
  <2>3. CASE ~runs[r].valid
    <3>1. stage = "quarantine"
      BY <2>3
    <3> HIDE DEF stage
    <3> QED
      BY <1>5, <1>6, <1>9, <1>10, <1>11, <2>1, <2>3, <3>1 DEF Spoiled
  <2> QED
    BY <2>2, <2>3
<1>14. ClaimInv(s)'
  <2>1. tx'[s].lease = Store!LeaseOf(tx[s].lease.worker, tx[s].run)'
    BY <1>6, <1>9, <1>10, <1>11 DEF Store!LeaseOf
  <2>2. /\ Store!Idle(tx[s].lease.worker)'
        /\ \A x \in D \cup {r} : Store!Claimable(x)'
    BY <1>2, <1>3, <1>6, <1>9, <1>10, <1>11 DEF Store!Idle, Store!Claimable
  <2>3. DOMAIN t.written = D \cup {r} /\ t.run = r /\ t.lease.worker = w
        /\ t.stage # "candidate"
    BY <1>5, <1>6, <1>10
  <2> HIDE DEF D, event, lease, stage, row
  <2>4. \A x \in DOMAIN tx'[s].written \ {tx'[s].run} : Rejected(s, x)'
    BY <1>9, <1>12, <2>3
  <2>5. \A x \in DOMAIN tx'[s].written : Store!Claimable(x)'
    BY <1>9, <2>2, <2>3
  <2> QED
    BY <1>6, <1>8, <1>9, <1>13, <2>1, <2>2, <2>3, <2>4, <2>5 DEF ClaimInv
<1>15. Keeps(s)'
  <2>1. DOMAIN t.written = D \cup {r} /\ t.run = r /\ t.added = tx[s].added
        /\ t.todo = {}
    BY <1>5, <1>6
  <2> QED
    BY <1>1, <1>2, <1>7, <1>9, <2>1, KeepsLocks DEF SessionInv
<1> QED
  BY <1>7, <1>14, <1>15, OwnStep DEF SessionInv

LEMMA NoCandidateIsSound ==
  ASSUME Inv, SP!Inv, Sound, NEW s \in Sessions, ClaimNoCandidate(s)
  PROVE  Sound'
<1> DEFINE t == [tx[s] EXCEPT !.stage = "commit"]
<1>1. /\ SessionInv(s) /\ ClaimInv(s) /\ Discarded(s)
      /\ tx[s].stage = "candidate"
  BY StageTells DEF Sound, ClaimNoCandidate, At
<1>2. DOMAIN tx[s] = Fields
  BY DEF Inv, Shape, TxShape
<1>3. /\ t.op = tx[s].op /\ t.stage = "commit" /\ t.run = tx[s].run
      /\ t.lease = tx[s].lease /\ t.event = tx[s].event
      /\ t.written = tx[s].written /\ t.added = tx[s].added
      /\ t.summary = tx[s].summary /\ t.todo = tx[s].todo
  BY <1>2 DEF Fields
<1>4. UNCHANGED lock /\ Open(s, t) /\ UNCHANGED Tables
  BY DEF ClaimNoCandidate
<1> HIDE DEF t
<1>5. tx'[s] = t /\ Lock(s, {}) /\ UNCHANGED <<runs, log, leases>>
  BY <1>4, Reopened, NoLock DEF Tables
<1>6. \A r \in DOMAIN tx[s].written : Rejected(s, r)'
  <2>1. \A r \in DOMAIN tx[s].written : Rejected(s, r)
    BY <1>1 DEF ClaimInv, Discarded
  <2> QED
    BY <1>1, <1>3, <1>5, <2>1 DEF Rejected, Gets, Appends, AboutRun
<1>7. Discarded(s)'
  <2>1. tx[s].run \in DOMAIN tx[s].written
    BY <1>1 DEF ClaimInv
  <2>2. Rejected(s, tx[s].run)'
    <3>1. Rejected(s, tx[s].run)
      BY <1>1 DEF Discarded
    <3> QED
      BY <1>1, <1>3, <1>5, <3>1 DEF Rejected, Gets, Appends, AboutRun
  <2> QED
    BY <1>1, <1>3, <1>5, <2>2 DEF Discarded
<1>8. ClaimInv(s)'
  <2>1. /\ Store!Idle(tx[s].lease.worker)'
        /\ tx'[s].lease = Store!LeaseOf(tx[s].lease.worker, tx[s].run)'
        /\ \A x \in DOMAIN tx'[s].written : Store!Claimable(x)'
    BY <1>1, <1>3, <1>5 DEF ClaimInv, Store!Idle, Store!LeaseOf, Store!Claimable
  <2>2. \A x \in DOMAIN tx'[s].written \ {tx'[s].run} : Rejected(s, x)'
    BY <1>3, <1>5, <1>6
  <2> QED
    BY <1>1, <1>3, <1>5, <1>7, <2>1, <2>2 DEF ClaimInv
<1>9. Keeps(s)'
  BY <1>1, <1>3, <1>5, KeepsLocks DEF SessionInv, Keeps
<1> QED
  BY <1>4, <1>5, <1>8, <1>9, OwnStep DEF SessionInv

LEMMA QuarantineIsSound ==
  ASSUME Inv, SP!Inv, Sound, NEW s \in Sessions, QuarantineUpdate(s)
  PROVE  Sound'
<1> DEFINE r == tx[s].run
           row == tx[s].written[r]
           spoiled == [row EXCEPT
                         !.status = "failed", !.worker = NULL,
                         !.error = "invalid_persisted_configuration",
                         !.completed = TRUE, !.stale = FALSE]
           u == Wrote(tx[s], r, spoiled)
           t == [u EXCEPT !.stage = "lock", !.event = Store!Record("failed", 0)]
<1>1. SessionInv(s) /\ ClaimInv(s) /\ Spoiled(s) /\ tx[s].stage = "quarantine"
  BY StageTells DEF Sound, QuarantineUpdate, At
<1>2. DOMAIN tx[s] = Fields
  BY DEF Inv, Shape, TxShape
<1>3. r \in DOMAIN tx[s].written /\ r \in Runs /\ runs[r] \in Store!Row
  BY <1>1, StoreFacts DEF ClaimInv, SessionInv, Keeps
<1>4. spoiled = Store!Quarantined(runs[r])
  <2>1. row = Store!Claimed(runs[r], tx[s].lease.worker)
    BY <1>1 DEF Spoiled
  <2> DEFINE a == runs[r]
  <2>2. a \in Store!Row
    BY <1>3
  <2> HIDE DEF a
  <2> SUFFICES [Store!Claimed(a, tx[s].lease.worker) EXCEPT
                         !.status = "failed", !.worker = NULL,
                         !.error = "invalid_persisted_configuration",
                         !.completed = TRUE, !.stale = FALSE]
                = Store!Quarantined(a)
    BY <2>1 DEF a
  <2> QED
    BY <2>2 DEF Store!Row, Store!Claimed, Store!Quarantined
<1> HIDE DEF spoiled
<1>5. /\ DOMAIN u = Fields /\ u.run = r
      /\ DOMAIN u.written = DOMAIN tx[s].written
      /\ u.written[r] = spoiled
      /\ \A x \in DOMAIN tx[s].written \ {r} : u.written[x] = tx[s].written[x]
      /\ u.added = tx[s].added /\ u.todo = tx[s].todo
      /\ u.summary = tx[s].summary /\ u.op = tx[s].op /\ u.lease = tx[s].lease
  <2> HIDE DEF r
  <2>1. /\ DOMAIN u = Fields /\ u.run = r
        /\ DOMAIN u.written = DOMAIN tx[s].written \cup {r}
        /\ u.written[r] = spoiled
        /\ \A x \in DOMAIN tx[s].written \ {r} :
             u.written[x] = tx[s].written[x]
        /\ u.added = tx[s].added /\ u.todo = tx[s].todo
        /\ u.summary = tx[s].summary /\ u.op = tx[s].op
        /\ u.lease = tx[s].lease
    BY <1>2, NextWrite
  <2>2. DOMAIN tx[s].written \cup {r} = DOMAIN tx[s].written
    BY <1>3
  <2> QED
    BY <2>1, <2>2
<1>6. /\ t.op = tx[s].op /\ t.stage = "lock" /\ t.run = r
      /\ t.lease = tx[s].lease /\ t.event = Store!Record("failed", 0)
      /\ t.written = u.written /\ t.added = tx[s].added
      /\ t.summary = tx[s].summary /\ t.todo = tx[s].todo
  <2> HIDE DEF u, r
  <2> QED
    BY <1>5 DEF Fields
<1>7. UNCHANGED lock /\ Open(s, t) /\ UNCHANGED Tables
  BY DEF QuarantineUpdate, spoiled
<1> HIDE DEF t, u
<1>8. tx'[s] = t /\ Lock(s, {}) /\ UNCHANGED <<runs, log, leases>>
  BY <1>7, Reopened, NoLock DEF Tables
<1>9. \A x \in DOMAIN tx[s].written \ {r} : Rejected(s, x)'
  <2>1. \A x \in DOMAIN tx[s].written \ {r} : Rejected(s, x)
    BY <1>1 DEF ClaimInv
  <2> QED
    BY <1>1, <1>5, <1>6, <1>8, <2>1 DEF Rejected, Gets, Appends
<1>10. Discarded(s)'
  <2>1. ~runs[r].valid /\ tx[s].added[r] = {}
    BY <1>1 DEF Spoiled
  <2>2. Appends(t, log[r], r, Store!Record("failed", 0))
    BY <1>6, <2>1 DEF Appends, AboutRun
  <2>3. Rejected(s, tx[s].run)'
    BY <1>4, <1>5, <1>6, <1>8, <2>1, <2>2 DEF Rejected, Gets
  <2> QED
    BY <1>6, <1>8, <2>3 DEF Discarded
<1>11. ClaimInv(s)'
  <2>1. /\ Store!Idle(tx[s].lease.worker)'
        /\ tx'[s].lease = Store!LeaseOf(tx[s].lease.worker, tx[s].run)'
        /\ \A x \in DOMAIN tx'[s].written : Store!Claimable(x)'
    BY <1>1, <1>5, <1>6, <1>8
       DEF ClaimInv, Store!Idle, Store!LeaseOf, Store!Claimable
  <2>2. \A x \in DOMAIN tx'[s].written \ {tx'[s].run} : Rejected(s, x)'
    BY <1>5, <1>6, <1>8, <1>9
  <2> HIDE DEF r
  <2> QED
    BY <1>1, <1>3, <1>5, <1>6, <1>8, <1>10, <2>1, <2>2 DEF ClaimInv
<1>12. Keeps(s)'
  BY <1>1, <1>5, <1>6, <1>8, KeepsLocks DEF SessionInv, Keeps
<1> QED
  BY <1>7, <1>8, <1>11, <1>12, OwnStep DEF SessionInv

LEMMA RecoverIsSound ==
  ASSUME Inv, SP!Inv, Sound, NEW s \in Sessions, NEW r \in Runs,
         RecoverUpdate(s, r)
  PROVE  Sound'
<1> DEFINE D == DOMAIN tx[s].written
           event == Store!RecoveryEvent(runs[r], Store!NextStatus(runs[r]))
           u == Wrote(tx[s], r, Store!Recovered(runs[r]))
           t == [u EXCEPT !.stage = "lock", !.todo = @ \ {r}, !.event = event]
<1>1. /\ SessionInv(s) /\ RecoverInv(s) /\ tx[s].stage = "update"
      /\ r \in tx[s].todo
  BY StageTells DEF Sound, RecoverUpdate, At
<1>2. DOMAIN tx[s] = Fields
  BY DEF Inv, Shape, TxShape
<1>3. /\ DOMAIN u = Fields /\ u.run = r /\ DOMAIN u.written = D \cup {r}
      /\ u.written[r] = Store!Recovered(runs[r])
      /\ \A x \in D \ {r} : u.written[x] = tx[s].written[x]
      /\ u.added = tx[s].added /\ u.todo = tx[s].todo
      /\ u.summary = tx[s].summary /\ u.op = tx[s].op
  BY <1>2, NextWrite
<1>4. /\ t.op = tx[s].op /\ t.stage = "lock" /\ t.run = r /\ t.event = event
      /\ t.written = u.written /\ t.added = tx[s].added
      /\ t.summary = tx[s].summary /\ t.todo = tx[s].todo \ {r}
  <2> HIDE DEF u, event
  <2> QED
    BY <1>3 DEF Fields
<1>5. Lock(s, {r}) /\ Open(s, t) /\ UNCHANGED Tables /\ Unlocked(s, r)
  BY DEF RecoverUpdate
<1> HIDE DEF t, u
<1>6. tx'[s] = t /\ UNCHANGED <<runs, log, leases>>
  BY <1>5, Reopened DEF Tables
<1>7. /\ r \notin D /\ tx[s].added[r] = {}
      /\ Store!ValidCounters(runs[r].attempts, runs[r].max)
  BY <1>1 DEF RecoverInv, RecoverUpdate
<1>8. ASSUME NEW x \in D \cup {r}
      PROVE  /\ Store!ValidCounters(runs[x].attempts, runs[x].max)
             /\ t.written[x] = Store!Recovered(runs[x])
             /\ Appends(t, log[x], x,
                  Store!RecoveryEvent(runs[x], Store!NextStatus(runs[x])))
  <2>1. CASE x = r
    BY <1>3, <1>4, <1>7, <2>1 DEF Appends, AboutRun
  <2>2. CASE x # r
    <3>1. /\ Store!ValidCounters(runs[x].attempts, runs[x].max)
          /\ tx[s].written[x] = Store!Recovered(runs[x])
          /\ Gets(s, x, Store!RecoveryEvent(runs[x], Store!NextStatus(runs[x])))
      BY <1>1, <1>8, <2>2 DEF RecoverInv
    <3> QED
      BY <1>1, <1>3, <1>4, <1>8, <2>2, <3>1 DEF Gets, Appends, AboutRun
  <2> QED
    BY <2>1, <2>2
<1>9. DOMAIN t.written = D \cup {r} /\ D \cup {r} \cup t.todo = D \cup tx[s].todo
  BY <1>1, <1>3, <1>4
<1>10. RecoverInv(s)'
  <2>1. \A x \in DOMAIN tx'[s].written :
          /\ Store!ValidCounters(runs'[x].attempts, runs'[x].max)
          /\ tx'[s].written[x] = Store!Recovered(runs'[x])
          /\ Gets(s, x, Store!RecoveryEvent(runs[x], Store!NextStatus(runs[x])))'
    BY <1>6, <1>8, <1>9 DEF Gets
  <2>2. \A x \in DOMAIN tx'[s].written \cup tx'[s].todo : Store!Stale(x)'
    BY <1>1, <1>6, <1>9 DEF RecoverInv, Store!Stale
  <2>3. Cardinality(DOMAIN tx'[s].written \cup tx'[s].todo) <= RecoveryBatch
    BY <1>1, <1>6, <1>9 DEF RecoverInv
  <2>4. /\ DOMAIN tx'[s].written \cap tx'[s].todo = {}
        /\ \A x \in Runs \ DOMAIN tx'[s].written : tx'[s].added[x] = {}
    BY <1>1, <1>4, <1>6, <1>9 DEF RecoverInv
  <2> QED
    BY <1>1, <1>4, <1>6, <1>9, <2>1, <2>2, <2>3, <2>4 DEF RecoverInv
<1>11. Keeps(s)'
  <2>1. \A x \in Runs \ (DOMAIN t.written \cup {t.run}) : t.added[x] = {}
    <3> SUFFICES ASSUME NEW x \in Runs \ (D \cup {r})
                 PROVE  tx[s].added[x] = {}
      BY <1>4, <1>9
    <3> QED
      BY <1>1 DEF RecoverInv
  <2> QED
    BY <1>1, <1>4, <1>5, <1>6, <1>9, <2>1, KeepsLocks DEF SessionInv
<1> QED
  BY <1>5, <1>10, <1>11, OwnStep DEF SessionInv
-----------------------------------------------------------------------------
(* Session s, which is about to append an event, goes on as t: it has got  *)
(* the lock for it, or has appended it.                                    *)
Advances(s, t) ==
  /\ tx[s].stage \in {"lock", "insert"}
  /\ t.stage \in {"insert", AfterInsert(tx[s])}
  /\ tx'[s] = t
  /\ UNCHANGED <<runs, log, leases>>
  /\ t.op = tx[s].op /\ t.run = tx[s].run /\ t.lease = tx[s].lease
  /\ t.event = tx[s].event /\ t.written = tx[s].written
  /\ t.summary = tx[s].summary /\ t.todo = tx[s].todo
  /\ \A r \in Runs : r # t.run => t.added[r] = tx[s].added[r]
  /\ \A r \in Runs : \A event : Gets(s, r, event) => Appends(t, log[r], r, event)

LEMMA PlainAdvance ==
  ASSUME NEW s \in Sessions, NEW t, Advances(s, t), tx[s].op \notin {"claim", "recover"}
  PROVE  t.stage \in {"insert", "commit"}
BY DEF Advances, AfterInsert

LEMMA AdvanceEnqueue ==
  ASSUME NEW s \in Sessions, NEW t, Advances(s, t), EnqueueInv(s)
  PROVE  EnqueueInv(s)'
<1>1. t.stage \in {"insert", "commit"}
  BY OpTells, PlainAdvance
<1> QED
  BY <1>1 DEF EnqueueInv, Advances, Gets

LEMMA AdvanceSucceed ==
  ASSUME SP!Inv, NEW s \in Sessions, NEW t, Advances(s, t), SucceedInv(s)
  PROVE  SucceedInv(s)'
<1>1. t.stage \in {"insert", "commit"}
  BY OpTells, PlainAdvance
<1>2. tx[s].run \in Runs
  BY StoreFacts DEF SucceedInv
<1>3. Appends(t, log[tx[s].run], tx[s].run,
              Store!Record("succeeded", tx[s].lease.attempt))
  BY <1>2 DEF SucceedInv, Advances
<1> QED
  BY <1>1, <1>3 DEF SucceedInv, Advances, Gets, Store!Owns

LEMMA AdvanceFail ==
  ASSUME SP!Inv, NEW s \in Sessions, NEW t, Advances(s, t), FailInv(s)
  PROVE  FailInv(s)'
<1>1. t.stage \in {"insert", "commit"}
  BY OpTells, PlainAdvance
<1>2. tx[s].run \in Runs
  BY StoreFacts DEF FailInv
<1>3. \A event : Gets(s, tx[s].run, event) =>
                   Appends(t, log[tx[s].run], tx[s].run, event)
  BY <1>2 DEF Advances
<1> QED
  BY <1>1, <1>3 DEF FailInv, Advances, Gets, Store!Owns

LEMMA AdvanceAddEvent ==
  ASSUME SP!Inv, NEW s \in Sessions, NEW t, Advances(s, t), AddEventInv(s)
  PROVE  AddEventInv(s)'
<1>1. t.stage \in {"insert", "commit"}
  BY OpTells, PlainAdvance
<1>2. tx[s].run \in Runs
  BY StoreFacts DEF AddEventInv
<1>3. \A event : Gets(s, tx[s].run, event) =>
                   Appends(t, log[tx[s].run], tx[s].run, event)
  BY <1>2 DEF Advances
<1> QED
  BY <1>1, <1>3 DEF AddEventInv, Advances, Gets

LEMMA AdvanceRecover ==
  ASSUME NEW s \in Sessions, NEW t, Advances(s, t), Keeps(s), RecoverInv(s)
  PROVE  RecoverInv(s)'
<1>1. tx[s].op = "recover" /\ tx[s].run \in DOMAIN tx[s].written
  BY DEF RecoverInv, Advances
<1>2. /\ t.stage \in {"insert", "update", "commit"}
      /\ t.stage = "commit" => t.todo = {}
  BY <1>1 DEF Advances, AfterInsert
<1>3. \A r \in DOMAIN tx'[s].written :
        /\ Store!ValidCounters(runs'[r].attempts, runs'[r].max)
        /\ tx'[s].written[r] = Store!Recovered(runs'[r])
        /\ Gets(s, r, Store!RecoveryEvent(runs[r], Store!NextStatus(runs[r])))'
  BY DEF RecoverInv, Advances, Gets, Keeps
<1>4. \A r \in DOMAIN tx'[s].written \cup tx'[s].todo : Store!Stale(r)'
  BY DEF RecoverInv, Advances, Store!Stale
<1>5. \A r \in Runs \ DOMAIN tx'[s].written : tx'[s].added[r] = {}
  BY <1>1 DEF RecoverInv, Advances
<1> QED
  BY <1>1, <1>2, <1>3, <1>4, <1>5 DEF RecoverInv, Advances

LEMMA AdvanceClaim ==
  ASSUME NEW s \in Sessions, NEW t, Advances(s, t), Keeps(s), ClaimInv(s)
  PROVE  ClaimInv(s)'
<1>1. tx[s].op = "claim" /\ tx[s].run \in DOMAIN tx[s].written
  BY DEF ClaimInv
<1>2. tx'[s] = t /\ UNCHANGED <<runs, log, leases>>
  BY DEF Advances
<1>3. ASSUME NEW r \in DOMAIN tx[s].written, Rejected(s, r)
      PROVE  Rejected(s, r)'
  <2>1. r \in Runs
    BY DEF Keeps
  <2> QED
    BY <1>2, <1>3, <2>1 DEF Rejected, Gets, Advances
<1>4. /\ t.stage \in {"insert", "candidate", "commit"}
      /\ t.stage = "candidate" =>
           Cardinality(DOMAIN t.written) < MaxQuarantined /\ t.event.type = "failed"
  BY <1>1 DEF Advances, AfterInsert
<1>5. Found(s) \/ Discarded(s)
  BY DEF ClaimInv, Spoiled, Advances
<1>6. ASSUME Found(s) PROVE Found(s)'
  <2>1. t.stage # "candidate"
    BY <1>4, <1>6 DEF Found, Advances, Store!Record
  <2>2. Appends(t, log[tx[s].run], tx[s].run, tx[s].event)
    BY <1>1, <1>6 DEF Found, Advances, Keeps
  <2> QED
    BY <1>2, <1>4, <1>6, <2>1, <2>2 DEF Found, Gets, Advances
<1>7. ASSUME Discarded(s) PROVE Discarded(s)'
  <2>1. Rejected(s, tx[s].run)
    BY <1>7 DEF Discarded
  <2>2. Rejected(s, tx[s].run)'
    <3>1. tx[s].run \in Runs
      BY <1>1 DEF Keeps
    <3> QED
      BY <1>2, <2>1, <3>1 DEF Rejected, Gets, Advances
  <2> QED
    BY <1>2, <1>4, <1>7, <2>2 DEF Discarded, Advances
<1>8. /\ Store!Idle(tx[s].lease.worker)'
      /\ tx'[s].lease = Store!LeaseOf(tx[s].lease.worker, tx[s].run)'
      /\ \A x \in DOMAIN tx'[s].written : Store!Claimable(x)'
  BY DEF ClaimInv, Advances, Store!Idle, Store!LeaseOf, Store!Claimable
<1>9. \A x \in DOMAIN tx'[s].written \ {tx'[s].run} : Rejected(s, x)'
  <2>1. \A x \in DOMAIN tx[s].written \ {tx[s].run} : Rejected(s, x)
    BY DEF ClaimInv
  <2>2. t.written = tx[s].written /\ t.run = tx[s].run
    BY DEF Advances
  <2> QED
    BY <1>2, <1>3, <2>1, <2>2
<1>10. Found(s)' \/ Discarded(s)'
  BY <1>5, <1>6, <1>7
<1> QED
  BY <1>4, <1>8, <1>9, <1>10 DEF ClaimInv, Advances

LEMMA Advance ==
  ASSUME Inv, SP!Inv, Sound, NEW s \in Sessions, NEW t, Advances(s, t),
         NEW R \in SUBSET Runs, \A r \in R : Unlocked(s, r), Lock(s, R),
         Open(s, t), UNCHANGED Tables
  PROVE  Sound'
<1>1. SessionInv(s)
  BY DEF Sound
<1>2. tx[s] # NoTx
  BY DEF Advances, NoTx
<1>3. Keeps(s)'
  BY <1>1, KeepsLocks DEF SessionInv, Keeps, Advances
<1>4. SessionInv(s)'
  BY <1>1, <1>2, <1>3, AdvanceEnqueue, AdvanceSucceed, AdvanceFail,
     AdvanceAddEvent, AdvanceRecover, AdvanceClaim DEF SessionInv
<1> QED
  BY <1>4, OwnStep

LEMMA AppendLockIsSound ==
  ASSUME Inv, SP!Inv, Sound, NEW s \in Sessions, AppendLock(s)
  PROVE  Sound'
<1> DEFINE r == tx[s].run
           t == [tx[s] EXCEPT !.stage = "insert"]
<1>1. DOMAIN tx[s] = Fields /\ r \in Runs /\ tx[s].stage = "lock"
  BY DEF Inv, Shape, TxShape, AppendLock, At, AboutRun
<1>2. /\ t.stage = "insert"
      /\ t.op = tx[s].op /\ t.run = tx[s].run /\ t.lease = tx[s].lease
      /\ t.event = tx[s].event /\ t.written = tx[s].written
      /\ t.added = tx[s].added /\ t.summary = tx[s].summary
      /\ t.todo = tx[s].todo
  BY <1>1 DEF Fields
<1>3. Lock(s, {r}) /\ Open(s, t) /\ UNCHANGED Tables /\ Unlocked(s, r)
  BY DEF AppendLock
<1> HIDE DEF t, r
<1>4. tx'[s] = t
  BY <1>3, Reopened
<1>5. \A x \in Runs : \A event :
        Gets(s, x, event) => Appends(t, log[x], x, event)
  BY <1>1, <1>2 DEF Gets, Appends, AboutRun
<1>6. Advances(s, t)
  BY <1>1, <1>2, <1>3, <1>4, <1>5 DEF Advances, Tables
<1> QED
  BY <1>1, <1>3, <1>6, Advance

LEMMA InsertIsSound ==
  ASSUME Inv, SP!Inv, Sound, NEW s \in Sessions, AppendInsert(s)
  PROVE  Sound'
<1> DEFINE r == tx[s].run
           entry == [sequence |-> NextNumber(Seen(s, r)), event |-> tx[s].event]
           t == [tx[s] EXCEPT !.added = AddTo(@, r, entry),
                              !.stage = AfterInsert(tx[s])]
<1>1. /\ DOMAIN tx[s] = Fields /\ r \in Runs /\ tx[s].stage = "insert"
      /\ tx[s].added = [x \in Runs |-> tx[s].added[x]]
  BY DEF Inv, Shape, TxShape, AppendInsert, At, AboutRun
<1>2. /\ t.stage = AfterInsert(tx[s]) /\ t.added = AddTo(tx[s].added, r, entry)
      /\ t.op = tx[s].op /\ t.run = tx[s].run /\ t.lease = tx[s].lease
      /\ t.event = tx[s].event /\ t.written = tx[s].written
      /\ t.summary = tx[s].summary /\ t.todo = tx[s].todo
  <2> HIDE DEF entry, r
  <2> QED
    BY <1>1 DEF Fields
<1>3. UNCHANGED lock /\ Open(s, t) /\ UNCHANGED Tables
  BY DEF AppendInsert
<1> HIDE DEF t
<1>4. tx'[s] = t /\ Lock(s, {})
  BY <1>3, Reopened, NoLock
<1>5. /\ t.added[r] = tx[s].added[r] \cup {entry}
      /\ \A x \in Runs : x # r => t.added[x] = tx[s].added[x]
  <2> HIDE DEF entry, r
  <2> QED
    BY <1>1, <1>2 DEF AddTo
<1>6. ASSUME NEW x \in Runs, NEW event, Gets(s, x, event)
      PROVE  Appends(t, log[x], x, event)
  <2>1. t.stage \notin AboutRun
    BY <1>2 DEF AfterInsert, AboutRun
  <2>2. CASE x = r
    <3>1. tx[s].added[r] = {} /\ tx[s].event = event
      BY <1>1, <1>6, <2>2 DEF Gets, Appends, AboutRun
    <3>2. Seen(s, r) = log[r]
      BY <3>1 DEF Seen
    <3>3. entry.sequence = Cardinality(log[r]) + 1
      BY <1>1, <3>2, NextNumberIsFree DEF Inv, Numbering
    <3>4. entry = [sequence |-> Cardinality(log[r]) + 1, event |-> event]
      BY <3>1, <3>3
    <3> HIDE DEF entry, r
    <3> QED
      BY <1>5, <2>1, <2>2, <3>1, <3>4 DEF Appends
  <2>3. CASE x # r
    <3> HIDE DEF entry
    <3> QED
      BY <1>5, <1>6, <2>1, <2>3 DEF Gets, Appends
  <2> QED
    BY <2>2, <2>3
<1>7. Advances(s, t)
  <2> HIDE DEF entry
  <2> QED
    BY <1>1, <1>2, <1>3, <1>4, <1>5, <1>6 DEF Advances, Tables
<1> QED
  BY <1>3, <1>4, <1>7, Advance
-----------------------------------------------------------------------------
(* The COMMIT, run by run. *)
LEMMA CommitAppends ==
  ASSUME Inv, SP!Inv, NEW s \in Sessions, Commit(s),
         NEW r \in Runs, NEW event, AddedTo(s, r, event)
  PROVE  InOrder(log'[r]) = Append(InOrder(log[r]), event)
<1> DEFINE E == Store!Event \cup {event}
           entry == [sequence |-> Cardinality(log[r]) + 1, event |-> event]
<1>1. log'[r] = log[r] \cup {entry}
  BY DEF Commit, Seen, AddedTo
<1>2. InOrder(log[r]) \in Seq(Store!Event)
  BY StoreFacts
<1>3. InOrder(log[r]) \in Seq(E)
  BY <1>2
<1>4. Dense(log[r]) /\ event \in E
  BY DEF Inv, Numbering
<1> HIDE DEF entry, E
<1>5. entry = [sequence |-> Cardinality(log[r]) + 1, event |-> event]
  BY DEF entry
<1> QED
  BY <1>1, <1>3, <1>4, <1>5, NextInOrder

LEMMA CommitOmits ==
  ASSUME NEW s \in Sessions, Commit(s), NEW r \in Runs, tx[s].added[r] = {}
  PROVE  log'[r] = log[r] /\ InOrder(log'[r]) = InOrder(log[r])
BY DEF Commit, Seen

(* At the COMMIT everything is appended. *)
LEMMA AllAdded ==
  ASSUME NEW s \in Sessions, tx[s].stage = "commit"
  PROVE  \A r, event : Gets(s, r, event) <=> AddedTo(s, r, event)
BY DEF Gets, Appends, AboutRun, AddedTo

(* A transaction on one run that wrote its row. *)
LEMMA CommitOne ==
  ASSUME Inv, SP!Inv, NEW s \in Sessions, Commit(s), Keeps(s),
         NEW r \in Runs, tx[s].run = r, DOMAIN tx[s].written = {r},
         NEW event, Gets(s, r, event), tx[s].op # "claim"
  PROVE  /\ runs' = [runs EXCEPT ![r] = tx[s].written[r]]
         /\ [x \in Runs |-> InOrder(log[x])]'
              = [[x \in Runs |-> InOrder(log[x])] EXCEPT ![r] = Append(@, event)]
         /\ UNCHANGED leases
<1>1. tx[s].stage = "commit" /\ AddedTo(s, r, event)
  BY AllAdded DEF Commit, At
<1>2. \A x \in Runs \ {r} : tx[s].added[x] = {}
  BY DEF Keeps
<1>3. InOrder(log'[r]) = Append(InOrder(log[r]), event)
  BY <1>1, CommitAppends
<1>4. \A x \in Runs \ {r} : InOrder(log'[x]) = InOrder(log[x])
  BY <1>2, CommitOmits
<1>5. runs' = [runs EXCEPT ![r] = tx[s].written[r]]
  <2>1. runs' = [x \in Runs |-> IF x = r THEN tx[s].written[r] ELSE runs[x]]
    BY DEF Commit
  <2>2. runs = [x \in Runs |-> runs[x]]
    BY StoreFacts
  <2> QED
    BY <2>1, <2>2
<1>6. UNCHANGED leases
  BY DEF Commit, Returned
<1> QED
  BY <1>3, <1>4, <1>5, <1>6

LEMMA CommitEnqueue ==
  ASSUME Inv, SP!Inv, NEW s \in Sessions, Commit(s), Keeps(s), EnqueueInv(s)
  PROVE  Store!Next
<1> DEFINE r == tx[s].run
<1>1. PICK max \in 1..MaxAttempts, valid \in BOOLEAN :
        tx[s].written[r] = Store!Enqueued(max, valid)
  BY DEF EnqueueInv
<1>2. r \in Runs /\ runs[r].status = "absent"
  BY DEF EnqueueInv
<1>3. /\ runs' = [runs EXCEPT ![r] = tx[s].written[r]]
      /\ [x \in Runs |-> InOrder(log[x])]'
           = [[x \in Runs |-> InOrder(log[x])] EXCEPT
                ![r] = Append(@, Store!Record("queued", 0))]
      /\ UNCHANGED leases
  BY <1>2, CommitOne, OpTells DEF EnqueueInv
<1>4. UNCHANGED outbox
  BY DEF Commit, EnqueueInv
<1> HIDE DEF r
<1>5. Store!Enqueue(r, max, valid)
  BY <1>1, <1>2, <1>3, <1>4 DEF Store!Enqueue, Store!append_event
<1> QED
  BY <1>2, <1>5 DEF Store!Next

LEMMA CommitSucceed ==
  ASSUME Inv, SP!Inv, NEW s \in Sessions, Commit(s), Keeps(s), SucceedInv(s)
  PROVE  Store!Next
<1> DEFINE lease == tx[s].lease
           r == lease.run
<1>1. /\ lease \in leases /\ r \in Runs /\ tx[s].run = r /\ Store!Owns(lease)
      /\ tx[s].written[r] = Store!Succeeded(runs[r], lease.attempt)
      /\ tx[s].stage = "commit"
  BY StoreFacts DEF SucceedInv, Commit, At
<1>2. /\ runs' = [runs EXCEPT ![r] = tx[s].written[r]]
      /\ [x \in Runs |-> InOrder(log[x])]'
           = [[x \in Runs |-> InOrder(log[x])] EXCEPT
                ![r] = Append(@, Store!Record("succeeded", lease.attempt))]
      /\ UNCHANGED leases
  <2> DEFINE event == Store!Record("succeeded", lease.attempt)
  <2>1. DOMAIN tx[s].written = {r} /\ Gets(s, r, event) /\ tx[s].op # "claim"
    BY <1>1 DEF SucceedInv
  <2> HIDE DEF lease, event
  <2>2. /\ runs' = [runs EXCEPT ![r] = tx[s].written[r]]
        /\ [x \in Runs |-> InOrder(log[x])]'
             = [[x \in Runs |-> InOrder(log[x])] EXCEPT ![r] = Append(@, event)]
        /\ UNCHANGED leases
    BY <1>1, <2>1, CommitOne
  <2> QED
    BY <2>2 DEF event
<1>3. outbox' = outbox \cup {r}
  BY <1>1 DEF Commit, SucceedInv
<1> HIDE DEF lease
<1>4. Store!Succeed(lease)
  BY <1>1, <1>2, <1>3 DEF Store!Succeed, Store!append_event
<1> QED
  BY <1>1, <1>4 DEF Store!Next, Store!LeaseStep

LEMMA CommitFail ==
  ASSUME Inv, SP!Inv, NEW s \in Sessions, Commit(s), Keeps(s), FailInv(s)
  PROVE  Store!Next
<1> DEFINE lease == tx[s].lease
           r == lease.run
           next(retryable) ==
             Store!failure_status(lease.attempt, lease.max, retryable)
           event(retryable) ==
             Store!Record(IF next(retryable) = "queued" THEN "retry_scheduled"
                          ELSE "failed", lease.attempt)
<1>1. /\ lease \in leases /\ r \in Runs /\ tx[s].run = r /\ Store!Owns(lease)
      /\ Store!ValidCounters(lease.attempt, lease.max)
  BY StoreFacts DEF FailInv
<1>2. PICK retryable \in BOOLEAN :
        /\ tx[s].written[r]
             = Store!Unfinished(runs[r], next(retryable), "attempt_failed")
        /\ Gets(s, r, event(retryable))
  BY <1>1 DEF FailInv
<1>3. /\ runs' = [runs EXCEPT ![r] = tx[s].written[r]]
      /\ [x \in Runs |-> InOrder(log[x])]'
           = [[x \in Runs |-> InOrder(log[x])] EXCEPT
                ![r] = Append(@, event(retryable))]
      /\ UNCHANGED leases
  <2> DEFINE e == event(retryable)
  <2>1. DOMAIN tx[s].written = {r} /\ Gets(s, r, e) /\ tx[s].op # "claim"
    BY <1>1, <1>2 DEF FailInv
  <2> HIDE DEF lease, next, event, e
  <2>2. /\ runs' = [runs EXCEPT ![r] = tx[s].written[r]]
        /\ [x \in Runs |-> InOrder(log[x])]'
             = [[x \in Runs |-> InOrder(log[x])] EXCEPT ![r] = Append(@, e)]
        /\ UNCHANGED leases
    BY <1>1, <2>1, CommitOne
  <2> QED
    BY <2>2 DEF e
<1>4. UNCHANGED outbox
  BY DEF Commit, FailInv
<1> HIDE DEF lease
<1>5. Store!Fail(lease, retryable)
  BY <1>1, <1>2, <1>3, <1>4 DEF Store!Fail, Store!append_event
<1> QED
  BY <1>1, <1>5 DEF Store!Next, Store!LeaseStep

LEMMA CommitAddEvent ==
  ASSUME Inv, SP!Inv, NEW s \in Sessions, Commit(s), Keeps(s), AddEventInv(s)
  PROVE  Store!Next
<1> DEFINE lease == tx[s].lease
           r == lease.run
           event == Store!Record("worker_lease_lost", lease.attempt)
           events == [x \in Runs |-> InOrder(log[x])]
<1>1. /\ lease \in leases /\ r \in Runs /\ tx[s].run = r
      /\ DOMAIN tx[s].written = {} /\ tx[s].summary = {}
      /\ \A entry \in log[r] : entry.event # event
      /\ tx[s].op = "add_event" /\ tx[s].stage = "commit"
      /\ AddedTo(s, r, event)
  <2>1. tx[s].stage = "commit"
    BY DEF Commit, At
  <2> QED
    BY <2>1, StoreFacts, AllAdded DEF AddEventInv
<1>2. \A x \in Runs \ {r} : tx[s].added[x] = {}
  BY <1>1 DEF Keeps
<1>3. InOrder(log'[r]) = Append(InOrder(log[r]), event)
  <2> HIDE DEF event
  <2> QED
    BY <1>1, CommitAppends
<1>4. \A x \in Runs \ {r} : InOrder(log'[x]) = InOrder(log[x])
  BY <1>2, CommitOmits
<1>5. UNCHANGED <<runs, outbox, leases>>
  <2>1. runs' = [x \in Runs |-> runs[x]]
    BY <1>1 DEF Commit
  <2>2. runs = [x \in Runs |-> runs[x]]
    BY StoreFacts
  <2> QED
    BY <1>1, <2>1, <2>2 DEF Commit, Returned
<1>6. event \notin Store!Range(InOrder(log[r]))
  <2> SUFFICES ASSUME NEW i \in 1..Cardinality(log[r]),
                      (CHOOSE entry \in log[r] : entry.sequence = i).event = event
               PROVE  FALSE
    BY DEF InOrder, Store!Range
  <2>1. i \in Numbers(log[r])
    BY <1>1 DEF Inv, Numbering, Dense
  <2>2. \E entry \in log[r] : entry.sequence = i
    BY <2>1 DEF Numbers
  <2>3. (CHOOSE entry \in log[r] : entry.sequence = i) \in log[r]
    BY <2>2
  <2> HIDE DEF event
  <2> QED
    BY <1>1, <2>3
<1> HIDE DEF lease, event
<1>7. events' = [events EXCEPT ![r] = Append(@, event)]
  BY <1>1, <1>3, <1>4
<1>8. Store!AddLeaseLost(lease)
  BY <1>1, <1>5, <1>6, <1>7 DEF Store!AddLeaseLost, Store!append_event, event
<1> QED
  BY <1>1, <1>8 DEF Store!Next, Store!LeaseStep

LEMMA CommitRecover ==
  ASSUME Inv, SP!Inv, NEW s \in Sessions, Commit(s), Keeps(s), RecoverInv(s)
  PROVE  Store!Next
<1> DEFINE batch == DOMAIN tx[s].written
           event(row) == Store!RecoveryEvent(row, Store!NextStatus(row))
           events == [x \in Runs |-> InOrder(log[x])]
<1>1. /\ tx[s].stage = "commit" /\ tx[s].todo = {} /\ tx[s].summary = {}
      /\ tx[s].op = "recover" /\ batch # {}
      /\ \A r \in batch :
           /\ Store!Stale(r) /\ Store!ValidCounters(runs[r].attempts, runs[r].max)
           /\ tx[s].written[r] = Store!Recovered(runs[r])
           /\ Gets(s, r, event(runs[r]))
      /\ \A r \in Runs \ batch : tx[s].added[r] = {}
  BY DEF RecoverInv, Commit, At
<1>2. batch \in SUBSET Runs
  BY DEF Keeps
<1>3. Store!Cardinality(batch) <= RecoveryBatch
  <2>1. batch \cup tx[s].todo = batch
    BY <1>1
  <2> QED
    BY <2>1, SameCardinality DEF RecoverInv
<1>4. runs' = [x \in Runs |-> IF x \in batch THEN Store!Recovered(runs[x])
                              ELSE runs[x]]
  BY <1>1 DEF Commit
<1>5. \A x \in batch : InOrder(log'[x]) = Append(InOrder(log[x]), event(runs[x]))
  <2> SUFFICES ASSUME NEW x \in batch
               PROVE  InOrder(log'[x]) = Append(InOrder(log[x]), event(runs[x]))
    OBVIOUS
  <2>1. AddedTo(s, x, event(runs[x])) /\ x \in Runs
    BY <1>1, <1>2, AllAdded
  <2> HIDE DEF event
  <2> QED
    BY <2>1, CommitAppends
<1>6. \A x \in Runs \ batch : InOrder(log'[x]) = InOrder(log[x])
  BY <1>1, CommitOmits
<1>7. events' = [x \in Runs |-> IF x \in batch
                                THEN Append(events[x], event(runs[x]))
                                ELSE events[x]]
  <2> HIDE DEF event
  <2> QED
    BY <1>5, <1>6
<1>8. UNCHANGED <<outbox, leases>>
  BY <1>1 DEF Commit, Returned
<1> HIDE DEF batch
<1>9. Store!RecoverStale(batch)
  BY <1>1, <1>3, <1>4, <1>7, <1>8 DEF Store!RecoverStale
<1> QED
  BY <1>2, <1>9 DEF Store!Next

(* The rows a claim has quarantined and their events. *)
LEMMA CommitPoison ==
  ASSUME Inv, SP!Inv, NEW s \in Sessions, Commit(s), Keeps(s), ClaimInv(s),
         NEW r \in DOMAIN tx[s].written, Rejected(s, r)
  PROVE  /\ Store!Claimable(r) /\ ~runs[r].valid
         /\ runs'[r] = Store!Quarantined(runs[r])
         /\ InOrder(log'[r])
              = Append(InOrder(log[r]), Store!Record("failed", 0))
<1>1. r \in Runs /\ tx[s].stage = "commit"
  BY DEF Keeps, Commit, At
<1>2. AddedTo(s, r, Store!Record("failed", 0))
  BY <1>1, AllAdded DEF Rejected
<1> QED
  BY <1>1, <1>2, CommitAppends DEF Commit, Rejected, ClaimInv

LEMMA ClaimDomain ==
  ASSUME NEW s \in Sessions, Keeps(s), ClaimInv(s)
  PROVE  LET D == DOMAIN tx[s].written
         IN  /\ D \in SUBSET Runs /\ IsFiniteSet(D) /\ tx[s].run \in D
             /\ Cardinality(D) <= MaxQuarantined
             /\ Cardinality(D \ {tx[s].run}) < MaxQuarantined
             /\ \A x \in Runs \ D : tx[s].added[x] = {}
<1> DEFINE D == DOMAIN tx[s].written
           n == Cardinality(D)
<1>1. D \in SUBSET Runs /\ tx[s].run \in D /\ n <= MaxQuarantined
  BY DEF Keeps, ClaimInv
<1>2. IsFiniteSet(D)
  BY <1>1, SessionAssumption, FS_Subset
<1>3. n \in Nat /\ Cardinality(D \ {tx[s].run}) = n - 1
  <2>1. n \in Nat
    BY <1>2, FS_CardinalityType
  <2>2. Cardinality(D \ {tx[s].run}) = IF tx[s].run \in D THEN n - 1 ELSE n
    <3> HIDE DEF D
    <3> QED
      BY <1>2, FS_RemoveElement
  <2> QED
    BY <1>1, <2>1, <2>2
<1> HIDE DEF n
<1>4. n - 1 < MaxQuarantined
  BY <1>1, <1>3, SessionAssumption
<1>5. \A x \in Runs \ D : tx[s].added[x] = {}
  BY <1>1 DEF Keeps
<1> QED
  BY <1>1, <1>2, <1>3, <1>4, <1>5 DEF n

LEMMA CommitFound ==
  ASSUME Inv, SP!Inv, NEW s \in Sessions, Commit(s), Keeps(s), ClaimInv(s),
         Found(s)
  PROVE  Store!Next
<1> DEFINE D == DOMAIN tx[s].written
           r == tx[s].run
           w == tx[s].lease.worker
           poison == D \ {r}
           started == Store!Record("started", runs[r].attempts + 1)
           failed == Store!Record("failed", 0)
           events == [x \in Runs |-> InOrder(log[x])]
<1>1. /\ D \in SUBSET Runs /\ r \in D
      /\ Cardinality(poison) < MaxQuarantined
      /\ \A x \in Runs \ D : tx[s].added[x] = {}
  BY ClaimDomain
<1>2. /\ w \in Workers /\ Store!Idle(w) /\ tx[s].lease = Store!LeaseOf(w, r)
      /\ Store!Claimable(r) /\ runs[r].valid
      /\ tx[s].written[r] = Store!Claimed(runs[r], w)
      /\ tx[s].event = started /\ tx[s].op = "claim" /\ tx[s].summary = {}
  BY DEF ClaimInv, Found
<1>3. \A x \in poison :
        /\ Store!Claimable(x) /\ ~runs[x].valid
        /\ runs'[x] = Store!Quarantined(runs[x])
        /\ InOrder(log'[x]) = Append(InOrder(log[x]), failed)
  BY CommitPoison DEF ClaimInv
<1>4. InOrder(log'[r]) = Append(InOrder(log[r]), started)
  <2>1. AddedTo(s, r, started)
    BY <1>2, AllAdded DEF Found, Commit, At
  <2> HIDE DEF started
  <2> QED
    BY <1>1, <2>1, CommitAppends
<1>5. \A x \in Runs \ D : InOrder(log'[x]) = InOrder(log[x]) /\ runs'[x] = runs[x]
  BY <1>1, CommitOmits DEF Commit
<1>6. runs' = [x \in Runs |-> IF x = r THEN Store!Claimed(runs[x], w)
                              ELSE IF x \in poison THEN Store!Quarantined(runs[x])
                              ELSE runs[x]]
  <2>1. runs' = [x \in Runs |-> runs'[x]] /\ runs'[r] = Store!Claimed(runs[r], w)
    BY <1>1, <1>2 DEF Commit
  <2> HIDE DEF w
  <2> QED
    BY <1>1, <1>3, <1>5, <2>1
<1>7. events' = [x \in Runs |->
                  IF x = r
                  THEN Append(events[x],
                              Store!Record("started", runs[x].attempts + 1))
                  ELSE IF x \in poison THEN Append(events[x], failed)
                  ELSE events[x]]
  <2> SUFFICES ASSUME NEW x \in Runs
               PROVE  InOrder(log'[x]) =
                        IF x = r
                        THEN Append(events[x],
                                    Store!Record("started", runs[x].attempts + 1))
                        ELSE IF x \in poison THEN Append(events[x], failed)
                        ELSE events[x]
    OBVIOUS
  <2> HIDE DEF failed
  <2> QED
    BY <1>1, <1>3, <1>4, <1>5
<1>8. UNCHANGED outbox /\ leases' \in {leases \cup {tx[s].lease}, leases}
  <2>1. started.type = "started"
    BY DEF Store!Record
  <2> QED
    BY <1>2, <2>1 DEF Commit, Returned
<1>9. Store!Cardinality(poison) < MaxQuarantined
  BY <1>1, SameCardinality
<1> HIDE DEF poison, D, failed, started, r, w
<1>10. Store!ClaimTx(w, r, poison)
  BY <1>2, <1>3, <1>6, <1>7, <1>8, <1>9 DEF Store!ClaimTx, Store!Poisoned, failed
<1>11. Store!Claim(w, r, poison) \/ Store!ClaimLost(w, r, poison)
  BY <1>2, <1>8, <1>10 DEF Store!Claim, Store!ClaimLost
<1>12. poison \in SUBSET Runs /\ r \in Runs
  BY <1>1 DEF poison
<1> QED
  BY <1>2, <1>11, <1>12 DEF Store!Next, Store!ClaimStep

LEMMA CommitDiscarded ==
  ASSUME Inv, SP!Inv, NEW s \in Sessions, Commit(s), Keeps(s), ClaimInv(s),
         Discarded(s)
  PROVE  Store!Next
<1> DEFINE poison == DOMAIN tx[s].written
           failed == Store!Record("failed", 0)
           events == [x \in Runs |-> InOrder(log[x])]
<1>1. /\ poison \in SUBSET Runs /\ poison # {}
      /\ Cardinality(poison) <= MaxQuarantined
      /\ \A x \in Runs \ poison : tx[s].added[x] = {}
  BY ClaimDomain
<1>2. \A x \in poison :
        /\ Store!Claimable(x) /\ ~runs[x].valid
        /\ runs'[x] = Store!Quarantined(runs[x])
        /\ InOrder(log'[x]) = Append(InOrder(log[x]), failed)
  <2>1. \A x \in poison : Rejected(s, x)
    BY DEF ClaimInv, Discarded
  <2> QED
    BY <2>1, CommitPoison
<1>3. \A x \in Runs \ poison :
        InOrder(log'[x]) = InOrder(log[x]) /\ runs'[x] = runs[x]
  BY <1>1, CommitOmits DEF Commit
<1>4. runs' = [x \in Runs |-> IF x \in poison THEN Store!Quarantined(runs[x])
                              ELSE runs[x]]
  <2>1. runs' = [x \in Runs |-> runs'[x]]
    BY DEF Commit
  <2> QED
    BY <1>2, <1>3, <2>1
<1>5. events' = [x \in Runs |-> IF x \in poison THEN Append(events[x], failed)
                                ELSE events[x]]
  <2> HIDE DEF failed
  <2> QED
    BY <1>2, <1>3
<1>6. UNCHANGED <<outbox, leases>>
  <2>1. tx[s].summary = {} /\ tx[s].event = failed
    BY DEF ClaimInv, Discarded
  <2>2. failed.type # "started"
    BY DEF Store!Record
  <2> QED
    BY <2>1, <2>2 DEF Commit, Returned
<1>7. Store!Cardinality(poison) <= MaxQuarantined
  BY <1>1, SameCardinality
<1> HIDE DEF poison, failed
<1>8. Store!ClaimNothing(poison)
  BY <1>1, <1>2, <1>4, <1>5, <1>6, <1>7
     DEF Store!ClaimNothing, Store!Poisoned, failed
<1> QED
  BY <1>1, <1>8 DEF Store!Next, Store!ClaimStep

(* Every COMMIT is a step of the store. *)
LEMMA CommitIsAStep ==
  ASSUME Inv, SP!Inv, Sound, NEW s \in Sessions, Commit(s)
  PROVE  Store!Next
<1>1. SessionInv(s) /\ tx[s].stage = "commit"
  BY DEF Sound, Commit, At
<1>2. ASSUME ClaimInv(s) PROVE Found(s) \/ Discarded(s)
  BY <1>1, <1>2 DEF ClaimInv, Spoiled
<1> QED
  BY <1>1, <1>2, StagesOf, CommitEnqueue, CommitSucceed, CommitFail,
     CommitAddEvent, CommitRecover, CommitFound, CommitDiscarded DEF SessionInv
-----------------------------------------------------------------------------
(* Only add_event reports a lost lease. *)
LEMMA OnlyAddEventReports ==
  ASSUME SP!Inv, NEW s \in Sessions, Keeps(s), tx[s].stage = "commit",
         EnqueueInv(s) \/ ClaimInv(s) \/ SucceedInv(s) \/ FailInv(s) \/ RecoverInv(s),
         NEW r \in Runs, NEW entry \in tx[s].added[r]
  PROVE  entry.event.type # "worker_lease_lost"
<1>1. ASSUME NEW event, Gets(s, r, event)
      PROVE  entry.event = event
  BY <1>1, AllAdded DEF AddedTo
<1>2. CASE EnqueueInv(s)
  <2>1. r = tx[s].run
    BY <1>2 DEF Keeps, EnqueueInv
  <2> QED
    BY <1>1, <1>2, <2>1 DEF EnqueueInv, Store!Record
<1>3. CASE SucceedInv(s)
  <2>1. r = tx[s].run
    BY <1>3 DEF Keeps, SucceedInv
  <2> QED
    BY <1>1, <1>3, <2>1 DEF SucceedInv, Store!Record
<1>4. CASE FailInv(s)
  <2>1. r = tx[s].run
    BY <1>4 DEF Keeps, FailInv
  <2>2. PICK type \in {"retry_scheduled", "failed"} :
          Gets(s, tx[s].run, Store!Record(type, tx[s].lease.attempt))
    BY <1>4 DEF FailInv
  <2> QED
    BY <1>1, <2>1, <2>2 DEF Store!Record
<1>5. CASE RecoverInv(s)
  <2>1. r \in DOMAIN tx[s].written
    BY <1>5 DEF RecoverInv
  <2>2. Gets(s, r, Store!RecoveryEvent(runs[r], Store!NextStatus(runs[r])))
    BY <1>5, <2>1 DEF RecoverInv
  <2>3. Store!RecoveryEvent(runs[r], Store!NextStatus(runs[r])).type
          \in {"stale_recovered", "failed"}
    BY DEF Store!RecoveryEvent, Store!Record
  <2> QED
    BY <1>1, <2>2, <2>3
<1>6. CASE ClaimInv(s)
  <2>1. r \in DOMAIN tx[s].written
    BY <1>6 DEF Keeps, ClaimInv
  <2>2. Rejected(s, r) \/ (r = tx[s].run /\ Found(s))
    BY <1>6, <2>1 DEF ClaimInv, Discarded, Spoiled
  <2>3. ASSUME Rejected(s, r)
        PROVE  entry.event.type # "worker_lease_lost"
    BY <1>1, <2>3 DEF Rejected, Store!Record
  <2>4. ASSUME r = tx[s].run, Found(s)
        PROVE  entry.event.type # "worker_lease_lost"
    BY <1>1, <2>4 DEF Found, Store!Record
  <2> QED
    BY <2>2, <2>3, <2>4
<1> QED
  BY <1>2, <1>3, <1>4, <1>5, <1>6

LEMMA CommitSpares ==
  ASSUME Inv, SP!Inv, Sound, Rivals, NEW s \in Sessions, Commit(s),
         NEW x \in Sessions, x # s
  PROVE  Spared(x)
<1>1. tx'[x] = tx[x] /\ SessionInv(s) /\ SessionInv(x) /\ tx[s].stage = "commit"
  BY Reopened DEF Commit, At, Sound
<1>2. \A r \in Runs : lock[r] = x =>
        lock'[r] = x /\ Aged(runs[r], runs'[r]) /\ log'[r] = log[r]
  <2> SUFFICES ASSUME NEW r \in Runs, lock[r] = x
               PROVE  lock'[r] = x /\ runs'[r] = runs[r] /\ log'[r] = log[r]
    BY DEF Aged
  <2>1. r \notin DOMAIN tx[s].written
    BY <1>1 DEF SessionInv, Keeps
  <2>2. tx[s].added[r] = {}
    BY DEF Inv, Holding
  <2> QED
    BY <2>1, <2>2, CommitOmits DEF Commit, Unlock
<1>3. tx[x].op \in {"succeed", "fail", "add_event"} => tx[x].lease \in leases'
  <2>1. tx[x].op \in {"succeed", "fail", "add_event"} => tx[x].lease \in leases
    BY <1>1, OpTells DEF SessionInv, SucceedInv, FailInv, AddEventInv
  <2> QED
    BY <2>1 DEF Commit
<1>4. ASSUME tx[x].op = "claim", NEW lease \in leases'
      PROVE  lease.worker # tx[x].lease.worker
  <2>1. ClaimInv(x)
    BY <1>1, <1>4, OpTells DEF SessionInv
  <2>2. lease \in leases \/ (tx[s].op = "claim" /\ lease = tx[s].lease)
    BY <1>4 DEF Commit, Returned
  <2>3. ASSUME lease \in leases PROVE lease.worker # tx[x].lease.worker
    BY <2>1, <2>3 DEF ClaimInv, Store!Idle
  <2>4. ASSUME tx[s].op = "claim", lease = tx[s].lease
        PROVE  lease.worker # tx[x].lease.worker
    BY <1>4, <2>4 DEF Rivals
  <2> QED
    BY <2>2, <2>3, <2>4
<1>5. ASSUME tx[x].op = "add_event", NEW entry \in log'[tx[x].run]
      PROVE  entry.event # Store!Record("worker_lease_lost", tx[x].lease.attempt)
  <2> DEFINE r == tx[x].run
  <2>1. AddEventInv(x)
    BY <1>1, <1>5, OpTells DEF SessionInv
  <2>2. r \in Runs /\ r = tx[x].lease.run /\ tx[x].lease \in leases
    BY <2>1, StoreFacts DEF AddEventInv
  <2>3. entry \in log[r] \/ entry \in tx[s].added[r]
    BY <1>5, <2>2 DEF Commit, Seen
  <2>4. CASE entry \in log[r]
    BY <2>1, <2>4 DEF AddEventInv
  <2>5. CASE entry \in tx[s].added[r] /\ AddEventInv(s)
    <3>1. r = tx[s].run
      BY <1>1, <2>2, <2>5 DEF SessionInv, Keeps, AddEventInv
    <3>2. entry.event = Store!Record("worker_lease_lost", tx[s].lease.attempt)
      BY <1>1, <2>5, <3>1, AllAdded DEF AddEventInv, AddedTo
    <3>3. tx[s].lease \in leases /\ tx[s].lease.run = r /\ tx[s].op = "add_event"
      BY <2>5, <3>1 DEF AddEventInv
    <3>4. tx[s].lease # tx[x].lease
      BY <1>5, <3>3 DEF Rivals
    <3>5. tx[s].lease.attempt # tx[x].lease.attempt
      BY <2>2, <3>3, <3>4, StoreFacts
    <3> QED
      BY <3>2, <3>5 DEF Store!Record
  <2>6. CASE entry \in tx[s].added[r] /\ ~AddEventInv(s)
    <3>1. tx[s] # NoTx
      BY <1>1, StagesOf
    <3>2. entry.event.type # "worker_lease_lost"
      BY <1>1, <2>2, <2>6, <3>1, OnlyAddEventReports DEF SessionInv
    <3> QED
      BY <3>2 DEF Store!Record
  <2> QED
    BY <2>3, <2>4, <2>5, <2>6
<1> QED
  BY <1>1, <1>2, <1>3, <1>4, <1>5 DEF Spared

LEMMA RollbackSpares ==
  ASSUME Inv, Sound, NEW s \in Sessions, Rollback(s), NEW x \in Sessions, x # s
  PROVE  Spared(x)
<1>1. tx'[x] = tx[x] /\ SessionInv(x)
  BY Reopened DEF Rollback, Sound
<1>2. \A r \in Runs : lock[r] = x =>
        lock'[r] = x /\ Aged(runs[r], runs'[r]) /\ log'[r] = log[r]
  BY DEF Rollback, Unlock, Tables, Aged
<1>3. /\ tx[x].op \in {"succeed", "fail", "add_event"} => tx[x].lease \in leases
      /\ tx[x].op = "claim" => Store!Idle(tx[x].lease.worker)
  BY <1>1, OpTells DEF SessionInv, SucceedInv, FailInv, AddEventInv, ClaimInv
<1>4. tx[x].op = "add_event" =>
        \A entry \in log[tx[x].run] :
          entry.event # Store!Record("worker_lease_lost", tx[x].lease.attempt)
  BY <1>1, OpTells DEF SessionInv, AddEventInv
<1> QED
  BY <1>1, <1>2, <1>3, <1>4 DEF Spared, Rollback, Tables, Store!Idle

LEMMA EndIsSound ==
  ASSUME Inv, SP!Inv, Sound, Rivals, NEW s \in Sessions,
         Commit(s) \/ Rollback(s)
  PROVE  Sound'
<1>1. ASSUME NEW x \in Sessions, x # s
      PROVE  SessionInv(x)'
  BY <1>1, CommitSpares, RollbackSpares, SparedSession DEF Sound
<1>2. SessionInv(s)'
  <2>1. tx'[s] = NoTx
    BY Reopened DEF Commit, Rollback
  <2>2. DOMAIN NoTx.written = {} /\ NoTx.todo = {} /\ NoTx.added = [r \in Runs |-> {}]
    BY DEF NoTx
  <2>3. Keeps(s)'
    BY <2>1, <2>2 DEF Keeps
  <2> QED
    BY <2>1, <2>3 DEF SessionInv, NoTx
<1> QED
  BY <1>1, <1>2 DEF Sound

(* Steps that are of no transaction: a heartbeat, the clock, a release. *)
LEMMA OutsideIsSound ==
  ASSUME Inv, SP!Inv, Sound, UNCHANGED <<log, lock, tx>>,
         \A r \in Runs : lock[r] # NULL => Aged(runs[r], runs'[r]),
         leases' \subseteq leases,
         \A s \in Sessions : tx[s].op \in {"succeed", "fail", "add_event"} =>
           tx[s].lease \notin leases \ leases'
  PROVE  Sound'
<1> SUFFICES ASSUME NEW x \in Sessions PROVE SessionInv(x)'
  BY DEF Sound
<1>1. SessionInv(x)
  BY DEF Sound
<1>2. \A r \in Runs : lock[r] = x =>
        lock'[r] = x /\ Aged(runs[r], runs'[r]) /\ log'[r] = log[r]
  BY SessionAssumption
<1>3. tx[x].op \in {"succeed", "fail", "add_event"} => tx[x].lease \in leases
  BY <1>1, OpTells DEF SessionInv, SucceedInv, FailInv, AddEventInv
<1>4. tx[x].op = "claim" =>
        \A lease \in leases' : lease.worker # tx[x].lease.worker
  <2>1. tx[x].op = "claim" => Store!Idle(tx[x].lease.worker)
    BY <1>1, OpTells DEF SessionInv, ClaimInv
  <2> QED
    BY <2>1 DEF Store!Idle
<1>5. tx[x].op = "add_event" =>
        \A entry \in log[tx[x].run] :
          entry.event # Store!Record("worker_lease_lost", tx[x].lease.attempt)
  BY <1>1, OpTells DEF SessionInv, AddEventInv
<1>6. Spared(x)
  BY <1>2, <1>3, <1>4, <1>5 DEF Spared
<1> QED
  BY <1>1, <1>6, SparedSession

LEMMA HeartbeatIsSound ==
  ASSUME Inv, SP!Inv, Sound, NEW lease \in leases, Heartbeat(lease)
  PROVE  Sound' /\ Store!Next
<1>1. /\ runs' = [runs EXCEPT ![lease.run].stale = FALSE]
      /\ lock[lease.run] = NULL /\ Store!Owns(lease)
      /\ UNCHANGED <<log, outbox, leases, lock, tx>>
  BY DEF Heartbeat
<1>2. \A r \in Runs : lock[r] # NULL => Aged(runs[r], runs'[r])
  BY <1>1, StoreFacts DEF Aged
<1>3. Store!Heartbeat(lease)
  BY <1>1 DEF Store!Heartbeat
<1> QED
  BY <1>1, <1>2, <1>3, OutsideIsSound DEF Store!Next, Store!LeaseStep

LEMMA ReleaseIsSound ==
  ASSUME Inv, SP!Inv, Sound, NEW lease \in leases, Release(lease)
  PROVE  Sound' /\ Store!Next
<1>1. Sound'
  BY OutsideIsSound DEF Release, Aged
<1>2. Store!Release(lease)
  BY DEF Release, Store!Release
<1> QED
  BY <1>1, <1>2 DEF Store!Next, Store!LeaseStep

LEMMA ClockIsSound ==
  ASSUME Inv, SP!Inv, Sound, NEW r \in Runs, Clock(r)
  PROVE  Sound' /\ Store!Next
<1>1. \A x \in Runs : Aged(runs[x], runs'[x])
  BY StoreFacts DEF Clock, Store!BecomeDue, Store!BecomeStale, Aged
<1>2. UNCHANGED <<log, lock, tx, leases>>
  BY DEF Clock, Store!BecomeDue, Store!BecomeStale
<1>3. Sound'
  BY <1>1, <1>2, OutsideIsSound
<1> QED
  BY <1>3 DEF Clock, Store!Next
-----------------------------------------------------------------------------
(* The op and the lease of a transaction after one of its statements. *)
LEMMA BeginTells ==
  ASSUME Inv, NEW s \in Sessions
  PROVE  /\ \A r \in Runs : \A max, valid :
              EnqueueInsert(s, r, max, valid) => tx'[s].op = "enqueue"
         /\ \A lease \in leases :
              /\ SucceedUpdate(s, lease) => tx'[s].op = "succeed"
              /\ \A retryable :
                   FailUpdate(s, lease, retryable) => tx'[s].op = "fail"
              /\ AddEvent(s, lease) =>
                   tx'[s].op = "add_event" /\ tx'[s].lease = lease
         /\ RecoverSelect(s) => tx'[s].op = "recover"
<1>0. s \in DOMAIN tx
  BY DEF Inv, Shape
<1>1. DOMAIN tx[s] = Fields
  BY DEF Inv, Shape, TxShape
<1>2. \A r, row : DOMAIN Wrote(tx[s], r, row) = Fields
  BY <1>1 DEF Wrote
<1>3. ASSUME NEW r \in Runs, NEW max, NEW valid, EnqueueInsert(s, r, max, valid)
      PROVE  tx'[s].op = "enqueue"
  BY <1>2, <1>3, <1>0 DEF Open, EnqueueInsert, Fields
<1>4. ASSUME NEW lease \in leases, SucceedUpdate(s, lease)
      PROVE  tx'[s].op = "succeed"
  BY <1>2, <1>4, <1>0 DEF Open, SucceedUpdate, Fields
<1>5. ASSUME NEW lease \in leases, NEW retryable, FailUpdate(s, lease, retryable)
      PROVE  tx'[s].op = "fail"
  BY <1>2, <1>5, <1>0 DEF Open, FailUpdate, Fields
<1>6. ASSUME NEW lease \in leases, AddEvent(s, lease)
      PROVE  tx'[s].op = "add_event" /\ tx'[s].lease = lease
  BY <1>1, <1>6, <1>0 DEF Open, AddEvent, Fields
<1>7. ASSUME RecoverSelect(s) PROVE tx'[s].op = "recover"
  BY <1>1, <1>7, <1>0 DEF Open, RecoverSelect, Fields
<1> QED
  BY <1>3, <1>4, <1>5, <1>6, <1>7

LEMMA StatementTells ==
  ASSUME Inv, NEW s \in Sessions
  PROVE  /\ \A w \in Workers, r \in Runs : ClaimCandidate(s, w, r) =>
              tx'[s].op = "claim" /\ tx'[s].lease.worker = w
         /\ \/ ClaimNoCandidate(s) \/ QuarantineUpdate(s) \/ SucceedOutbox(s)
            \/ \E r \in Runs : RecoverUpdate(s, r)
            \/ AppendLock(s) \/ AppendInsert(s)
            => tx'[s].op = tx[s].op /\ tx'[s].lease = tx[s].lease
         /\ Commit(s) \/ Rollback(s) => tx'[s].op = "none"
<1>0. s \in DOMAIN tx
  BY DEF Inv, Shape
<1>1. DOMAIN tx[s] = Fields
  BY DEF Inv, Shape, TxShape
<1>2. \A r, row : /\ DOMAIN Wrote(tx[s], r, row) = Fields
                  /\ Wrote(tx[s], r, row).op = tx[s].op
                  /\ Wrote(tx[s], r, row).lease = tx[s].lease
  BY <1>1, NextWrite
<1>3. ASSUME NEW w \in Workers, NEW r \in Runs, ClaimCandidate(s, w, r)
      PROVE  tx'[s].op = "claim" /\ tx'[s].lease.worker = w
  <2>1. Store!LeaseOf(w, r).worker = w
    BY DEF Store!LeaseOf
  <2>2. tx'[s].op = "claim" /\ tx'[s].lease = Store!LeaseOf(w, r)
    BY <1>2, <1>3, <1>0 DEF Open, ClaimCandidate, Fields
  <2> QED
    BY <2>1, <2>2
<1>4. ASSUME ClaimNoCandidate(s) \/ SucceedOutbox(s) \/ AppendLock(s)
      PROVE  tx'[s].op = tx[s].op /\ tx'[s].lease = tx[s].lease
  BY <1>1, <1>4, <1>0 DEF Open, ClaimNoCandidate, SucceedOutbox, AppendLock, Fields
<1>5. ASSUME AppendInsert(s)
      PROVE  tx'[s].op = tx[s].op /\ tx'[s].lease = tx[s].lease
  BY <1>1, <1>5, <1>0 DEF Open, AppendInsert, Fields
<1>6. ASSUME QuarantineUpdate(s)
      PROVE  tx'[s].op = tx[s].op /\ tx'[s].lease = tx[s].lease
  BY <1>2, <1>6, <1>0 DEF Open, QuarantineUpdate, Fields
<1>7. ASSUME NEW r \in Runs, RecoverUpdate(s, r)
      PROVE  tx'[s].op = tx[s].op /\ tx'[s].lease = tx[s].lease
  BY <1>2, <1>7, <1>0 DEF Open, RecoverUpdate, Fields
<1>8. ASSUME Commit(s) \/ Rollback(s) PROVE tx'[s].op = "none"
  BY <1>8, <1>0 DEF Open, Commit, Rollback, NoTx
<1> QED
  BY <1>3, <1>4, <1>5, <1>6, <1>7, <1>8

(* A step of s that begins no claim and no report, or one of its own. *)
LEMMA KeepsRivals ==
  ASSUME Rivals, NEW s \in Sessions,
         \A x \in Sessions : x # s => tx'[x] = tx[x],
         tx'[s].op = "claim" =>
           \/ tx[s].op = "claim" /\ tx'[s].lease.worker = tx[s].lease.worker
           \/ \A x \in Sessions : tx[x].op = "claim" =>
                tx[x].lease.worker # tx'[s].lease.worker,
         tx'[s].op = "add_event" =>
           \/ tx[s].op = "add_event" /\ tx'[s].lease = tx[s].lease
           \/ \A x \in Sessions : tx[x].op = "add_event" =>
                tx[x].lease # tx'[s].lease
  PROVE  Rivals'
<1> SUFFICES ASSUME NEW a \in Sessions, NEW b \in Sessions, a # b
             PROVE  /\ tx'[a].op = "claim" /\ tx'[b].op = "claim" =>
                         tx'[a].lease.worker # tx'[b].lease.worker
                    /\ tx'[a].op = "add_event" /\ tx'[b].op = "add_event" =>
                         tx'[a].lease # tx'[b].lease
  BY DEF Rivals
<1>1. CASE a # s /\ b # s
  BY <1>1 DEF Rivals
<1>2. CASE a = s
  BY <1>2 DEF Rivals
<1>3. CASE b = s
  BY <1>3 DEF Rivals
<1> QED
  BY <1>1, <1>2, <1>3

LEMMA SessionKeepsRivals ==
  ASSUME Inv, Sound, Rivals, NEW s \in Sessions,
         Begin(s) \/ Statement(s) \/ Rollback(s)
  PROVE  Rivals'
<1>1. \A x \in Sessions : x # s => tx'[x] = tx[x]
  BY Reopened DEF Begin, Statement, EnqueueInsert, SucceedUpdate, FailUpdate,
     AddEvent, RecoverSelect, ClaimCandidate, ClaimNoCandidate,
     QuarantineUpdate, SucceedOutbox, RecoverUpdate, AppendLock, AppendInsert,
     Commit, Rollback
<1>2. CASE Begin(s)
  <2>1. ASSUME NEW lease \in leases, AddEvent(s, lease)
        PROVE  \A x \in Sessions : tx[x].op = "add_event" => tx[x].lease # lease
    BY <2>1 DEF AddEvent
  <2>2. \/ tx'[s].op \in {"enqueue", "succeed", "fail", "recover"}
        \/ /\ tx'[s].op = "add_event"
           /\ \A x \in Sessions : tx[x].op = "add_event" =>
                tx[x].lease # tx'[s].lease
    BY <1>2, <2>1, BeginTells DEF Begin
  <2> QED
    BY <1>1, <2>2, KeepsRivals
<1>3. CASE Statement(s) \/ Rollback(s)
  <2>1. ASSUME NEW w \in Workers, NEW r \in Runs, ClaimCandidate(s, w, r)
        PROVE  \/ tx[s].op = "claim" /\ tx[s].lease.worker = w
               \/ \A x \in Sessions : tx[x].op = "claim" =>
                    tx[x].lease.worker # w
    <3>1. At(s, "candidate") => tx[s].op = "claim"
      BY StageTells, OpTells DEF Sound
    <3> QED
      BY <2>1, <3>1 DEF ClaimCandidate, MayClaim
  <2>2. \/ /\ tx'[s].op = "claim"
           /\ \/ tx[s].op = "claim" /\ tx'[s].lease.worker = tx[s].lease.worker
              \/ \A x \in Sessions : tx[x].op = "claim" =>
                   tx[x].lease.worker # tx'[s].lease.worker
        \/ tx'[s].op = tx[s].op /\ tx'[s].lease = tx[s].lease
        \/ tx'[s].op = "none"
    BY <1>3, <2>1, StatementTells DEF Statement
  <2> QED
    BY <1>1, <2>2, KeepsRivals
<1> QED
  BY <1>2, <1>3
-----------------------------------------------------------------------------
TxInv ==
  /\ Inv
  /\ SP!Inv
  /\ Sound
  /\ Rivals

(* Every step of the transactions is one of the store, or none. *)
LEMMA StepsAreStoreSteps ==
  ASSUME TxInv, [TxNext]_tvars
  PROVE  [Store!Next]_(Store!vars) /\ Sound' /\ Rivals'
<1> USE DEF TxInv
<1> DEFINE Done == [Store!Next]_(Store!vars) /\ Sound' /\ Rivals'
<1>1. UNCHANGED Tables => UNCHANGED Store!vars
  BY DEF Tables, Store!vars
<1>2. ASSUME NEW s \in Sessions, Begin(s) PROVE Done
  <2>1. UNCHANGED Tables
    BY <1>2 DEF Begin, EnqueueInsert, SucceedUpdate, FailUpdate, AddEvent,
       RecoverSelect
  <2>2. Sound'
    BY <1>2, EnqueueIsSound, SucceedIsSound, FailIsSound, AddEventIsSound,
       SelectIsSound DEF Begin
  <2> QED
    BY <1>1, <1>2, <2>1, <2>2, SessionKeepsRivals
<1>3. ASSUME NEW s \in Sessions, Statement(s) PROVE Done
  <2>1. CASE Commit(s)
    BY <1>3, <2>1, CommitIsAStep, EndIsSound, SessionKeepsRivals
  <2>2. CASE ~Commit(s)
    <3>1. UNCHANGED Tables
      BY <1>3, <2>2 DEF Statement, ClaimCandidate, ClaimNoCandidate,
         QuarantineUpdate, SucceedOutbox, RecoverUpdate, AppendLock, AppendInsert
    <3>2. Sound'
      BY <1>3, <2>2, ClaimIsSound, NoCandidateIsSound, QuarantineIsSound,
         OutboxIsSound, RecoverIsSound, AppendLockIsSound, InsertIsSound
         DEF Statement
    <3> QED
      BY <1>1, <1>3, <3>1, <3>2, SessionKeepsRivals
  <2> QED
    BY <2>1, <2>2
<1>4. ASSUME NEW s \in Sessions, Rollback(s) PROVE Done
  BY <1>1, <1>4, EndIsSound, SessionKeepsRivals DEF Rollback
<1>5. ASSUME UNCHANGED tx PROVE Rivals'
  BY <1>5 DEF Rivals
<1>6. ASSUME NEW lease \in leases, Heartbeat(lease) \/ Release(lease) PROVE Done
  BY <1>5, <1>6, HeartbeatIsSound, ReleaseIsSound DEF Heartbeat, Release
<1>7. ASSUME NEW r \in Runs, Clock(r) PROVE Done
  BY <1>5, <1>7, ClockIsSound DEF Clock
<1>8. ASSUME UNCHANGED tvars PROVE Done
  <2>1. UNCHANGED Tables /\ UNCHANGED <<log, lock, tx, leases, runs>>
    BY <1>8 DEF tvars, Tables
  <2>2. Sound'
    BY <2>1, OutsideIsSound DEF Aged
  <2> QED
    BY <1>1, <1>5, <2>1, <2>2
<1> HIDE DEF Done
<1>9. Done
  BY <1>2, <1>3, <1>4, <1>6, <1>7, <1>8 DEF TxNext
<1> QED
  BY <1>9 DEF Done

LEMMA InitIsAnInitOfTheStore == TxInit => Store!Init
<1> SUFFICES ASSUME TxInit PROVE Store!Init
  OBVIOUS
<1>1. InOrder({}) = <<>>
  <2>1. Cardinality({}) = 0 /\ 1..0 = {}
    BY FS_EmptySet
  <2> QED
    BY <2>1 DEF InOrder
<1>2. [r \in Runs |-> InOrder(log[r])] = [r \in Runs |-> <<>>]
  BY <1>1 DEF TxInit
<1> QED
  BY <1>2 DEF TxInit, Store!Init

LEMMA InitEstablishesTxInv == TxInit => TxInv
<1> SUFFICES ASSUME TxInit PROVE TxInv
  OBVIOUS
<1>1. Inv
  BY InitEstablishesInv
<1>2. SP!Inv
  BY SameStore, InitIsAnInitOfTheStore, SP!InitInv
<1>3. Sound
  <2>1. DOMAIN NoTx.written = {} /\ NoTx.todo = {} /\ NoTx.added = [r \in Runs |-> {}]
    BY DEF NoTx
  <2>2. \A s \in Sessions : tx[s] = NoTx
    BY DEF TxInit
  <2> QED
    BY <2>1, <2>2 DEF Sound, SessionInv, Keeps
<1>4. Rivals
  BY DEF TxInit, Rivals, NoTx
<1> QED
  BY <1>1, <1>2, <1>3, <1>4 DEF TxInv

LEMMA NextPreservesTxInv ==
  ASSUME TxInv, [TxNext]_tvars
  PROVE  TxInv'
<1>1. Inv'
  BY NextPreservesInv DEF TxInv
<1>2. [Store!Next]_(Store!vars) /\ Sound' /\ Rivals'
  BY StepsAreStoreSteps
<1>3. SP!Inv'
  BY <1>2, SameStore, SP!NextInv DEF TxInv
<1> QED
  BY <1>1, <1>2, <1>3 DEF TxInv

(* Between its statements a transaction holds the locks of the rows it has *)
(* written or selected, and what it tested when it locked them is still    *)
(* true: the guards of RunStore hold at the COMMIT as they did at the first*)
(* statement.                                                              *)
THEOREM TransactionsStaySound == TxSpec => []TxInv
<1>1. TxInit => TxInv
  BY InitEstablishesTxInv
<1>2. TxInv /\ [TxNext]_tvars => TxInv'
  BY NextPreservesTxInv
<1> QED
  BY <1>1, <1>2, PTL DEF TxSpec

(* The transactions of run_store.py, statement by statement and interleaved*)
(* with each other, are the atomic steps of RunStore.                      *)
THEOREM TransactionsImplementRunStore == TxSpec => ImplementsRunStore
<1>1. TxInit => Store!Init
  BY InitIsAnInitOfTheStore
<1>2. TxInv /\ [TxNext]_tvars => [Store!Next]_(Store!vars)
  BY StepsAreStoreSteps
<1> QED
  BY <1>1, <1>2, TransactionsStaySound, PTL
     DEF TxSpec, ImplementsRunStore, Store!Spec

(* The same refinement, for the instance through which the theorems about  *)
(* the store are cited.                                                    *)
LEMMA TransactionsRunStore == TxSpec => SP!Spec
<1>1. /\ TxInit => SP!Init
      /\ TxInv /\ [TxNext]_tvars => [SP!Next]_(SP!vars)
  BY SameStore, InitIsAnInitOfTheStore, StepsAreStoreSteps
<1> QED
  BY <1>1, TransactionsStaySound, PTL DEF TxSpec, SP!Spec

(* So what RunStoreProofs proves of atomic transactions is true of the     *)
(* committed tables, whatever statements of other sessions ran in between: *)
(* in every state, the store's invariants ...                              *)
THEOREM CommittedTablesAreSafe ==
  TxSpec => []( /\ SP!LeaseFencesAttempt /\ SP!SoleOwner
                /\ SP!NoStrandedRun /\ SP!FinishedRowIsWhole
                /\ SP!EventLogTellsHistory /\ SP!LogIsBounded )
<1>1. SP!StoreAssumption
  BY SameStore
<1> QED
  BY <1>1, TransactionsRunStore, SP!FencingIsSound, SP!OneOwner,
     SP!QueuedIsClaimable, SP!FinishedIsWhole, SP!EventLogIsHistory,
     SP!RunEndsOnce, PTL

(* ... and from commit to commit, what the client is promised.             *)
THEOREM CommitsKeepPromises ==
  TxSpec => SP!TerminalIsFinal /\ SP!LossIsFinal /\ SP!ImplementsLifecycle
<1>1. SP!StoreAssumption
  BY SameStore
<1> QED
  BY <1>1, TransactionsRunStore, SP!FinishedIsFinal, SP!LostForGood,
     SP!StoreImplementsLifecycle, PTL
-----------------------------------------------------------------------------
(***************************************************************************)
(* III. No deadlock: who holds a lock does not wait for one.               *)
(*                                                                         *)
(* HoldersNeverWait says so with ENABLED, which no prover here knows.      *)
(* Ready spells out the guards of the later statements of a transaction    *)
(* instead, and HoldersReady is proved.  The argument needs the converse of*)
(* Keeps: a transaction holds no lock but those of the rows it has written *)
(* or selected, and of the row that a report has just locked.              *)
(***************************************************************************)

(* Some statement can be executed at once; for a recovery that is the      *)
(* update of a selected row, or the ValueError that rolls it back.         *)
Ready(s) ==
  \/ At(s, "candidate") /\ Candidates(s) = {}
  \/ \E w \in Workers, r \in Candidates(s) : MayClaim(s, w) /\ Unlocked(s, r)
  \/ At(s, "update") /\ \E r \in tx[s].todo : Unlocked(s, r)
  \/ At(s, "lock") /\ Unlocked(s, tx[s].run)
  \/ tx[s].stage \in {"quarantine", "outbox", "insert", "commit"}

HoldersReady ==
  \A s \in Sessions : (\E r \in Runs : lock[r] = s) => Ready(s)

Reports(t) == t.op = "add_event" /\ t.stage \in {"insert", "commit"}

Touches(t, r) == r \in DOMAIN t.written \cup t.todo

LocksInv ==
  \A s \in Sessions :
    /\ \A r \in Runs : lock[r] = s => Touches(tx[s], r) \/ Reports(tx[s])
    /\ tx[s].stage = "update" => tx[s].todo # {}

(* Session s goes on as t and has locked R. *)
LEMMA LocksStep ==
  ASSUME Inv, LocksInv, NEW s \in Sessions, NEW t, NEW R \in SUBSET Runs,
         Lock(s, R), Open(s, t),
         \A r \in Runs : (r \in R \/ Touches(tx[s], r)) =>
           Touches(t, r) \/ Reports(t),
         Reports(tx[s]) => Reports(t),
         t.stage = "update" => t.todo # {}
  PROVE  LocksInv'
<1>1. tx'[s] = t /\ \A x \in Sessions : x # s => tx'[x] = tx[x]
  BY Reopened
<1>2. ASSUME NEW x \in Sessions
      PROVE  /\ \A r \in Runs : lock'[r] = x =>
                  Touches(tx'[x], r) \/ Reports(tx'[x])
             /\ tx'[x].stage = "update" => tx'[x].todo # {}
  <2>1. CASE x = s
    BY <1>1, <2>1 DEF Lock, LocksInv
  <2>2. CASE x # s
    BY <1>1, <2>2 DEF Lock, LocksInv
  <2> QED
    BY <2>1, <2>2
<1> QED
  BY <1>2 DEF LocksInv, Touches, Reports

(* recover_expired selects the rows it locks. *)
LEMMA SelectKeepsLocks ==
  ASSUME Inv, Sound, LocksInv, NEW s \in Sessions, RecoverSelect(s)
  PROVE  LocksInv'
<1> DEFINE k == Min({RecoveryBatch, Cardinality(StaleRows)})
<1>0. /\ DOMAIN NoTx = Fields /\ DOMAIN NoTx.written = {} /\ NoTx.todo = {}
      /\ NoTx.op = "none"
  BY DEF NoTx, Fields
<1>1. tx[s] = NoTx
  BY StageTells DEF Sound, RecoverSelect
<1>2. PICK batch \in kSubset(k, StaleRows) :
        /\ batch # {}
        /\ Lock(s, batch)
        /\ Open(s, [tx[s] EXCEPT !.op = "recover", !.stage = "update",
                                 !.todo = batch])
  BY Zenon DEF RecoverSelect, RecoverLocks
<1> HIDE DEF k
<1>3. batch \in SUBSET Runs
  BY <1>2 DEF StaleRows, kSubset
<1>4. ~Reports(tx[s]) /\ \A r : ~Touches(tx[s], r)
  BY <1>0, <1>1 DEF Reports, Touches
<1> DEFINE t == [NoTx EXCEPT !.op = "recover", !.stage = "update", !.todo = batch]
<1>5. t.todo = batch /\ Open(s, t)
  BY <1>0, <1>1, <1>2 DEF Fields
<1> HIDE DEF t
<1> QED
  BY <1>2, <1>3, <1>4, <1>5, LocksStep DEF Touches

(* The first statement of a transaction. *)
LEMMA LocksBegin ==
  ASSUME Inv, Sound, LocksInv, NEW s \in Sessions, Begin(s)
  PROVE  LocksInv'
<1>0. /\ DOMAIN NoTx = Fields /\ DOMAIN NoTx.written = {} /\ NoTx.todo = {}
      /\ NoTx.op = "none"
  BY DEF NoTx, Fields
<1>1. At(s, "idle") /\ tx[s] = NoTx
  <2>1. ASSUME NEW r \in Runs, NEW max, NEW valid, EnqueueInsert(s, r, max, valid)
        PROVE  At(s, "idle")
    BY <2>1 DEF EnqueueInsert
  <2>2. ASSUME NEW lease \in leases, SucceedUpdate(s, lease) PROVE At(s, "idle")
    BY <2>2 DEF SucceedUpdate
  <2>3. ASSUME NEW lease \in leases, NEW retryable, FailUpdate(s, lease, retryable)
        PROVE  At(s, "idle")
    BY <2>3 DEF FailUpdate
  <2>4. ASSUME NEW lease \in leases, AddEvent(s, lease) PROVE At(s, "idle")
    BY <2>4 DEF AddEvent
  <2>5. RecoverSelect(s) => At(s, "idle")
    BY DEF RecoverSelect
  <2>6. At(s, "idle")
    BY <2>1, <2>2, <2>3, <2>4, <2>5 DEF Begin
  <2> QED
    BY <2>6, StageTells DEF Sound
<1>2. ~Reports(tx[s]) /\ \A r : ~Touches(tx[s], r)
  BY <1>0, <1>1 DEF Reports, Touches
<1>3. ASSUME NEW r \in Runs, NEW t, Lock(s, {r}), Open(s, t),
             r \in DOMAIN t.written, t.stage # "update"
      PROVE  LocksInv'
  <2>1. {r} \in SUBSET Runs /\ Touches(t, r)
    BY <1>3 DEF Touches
  <2>2. \A x \in Runs : (x \in {r} \/ Touches(tx[s], x)) =>
          Touches(t, x) \/ Reports(t)
    BY <1>2, <2>1
  <2> QED
    BY <1>2, <1>3, <2>1, <2>2, LocksStep
<1>4. ASSUME NEW r \in Runs, NEW max \in 1..MaxAttempts, NEW valid \in BOOLEAN,
             EnqueueInsert(s, r, max, valid)
      PROVE  LocksInv'
  <2> DEFINE u == Wrote(NoTx, r, Store!Enqueued(max, valid))
             e == Store!Record("queued", 0)
             t == [u EXCEPT !.op = "enqueue", !.stage = "lock", !.event = e]
  <2>1. DOMAIN u = Fields /\ DOMAIN u.written = {r}
    BY FirstWrite DEF FirstRow
  <2>2. Lock(s, {r}) /\ Open(s, t)
    BY <1>1, <1>4 DEF EnqueueInsert
  <2> HIDE DEF u, e
  <2>3. r \in DOMAIN t.written /\ t.stage # "update"
    BY <2>1 DEF Fields
  <2> HIDE DEF t
  <2> QED
    BY <1>3, <2>2, <2>3
<1>5. ASSUME NEW lease \in leases, SucceedUpdate(s, lease)
      PROVE  LocksInv'
  <2> DEFINE r == lease.run
             u == Wrote(NoTx, r, Store!Succeeded(runs[r], lease.attempt))
             e == Store!Record("succeeded", lease.attempt)
             t == [u EXCEPT !.op = "succeed", !.lease = lease,
                            !.stage = "outbox", !.event = e]
  <2>0. r \in Runs
    BY DEF Inv, Shape
  <2>1. DOMAIN u = Fields /\ DOMAIN u.written = {r}
    BY <2>0, FirstWrite DEF FirstRow
  <2>2. Lock(s, {r}) /\ Open(s, t)
    BY <1>1, <1>5 DEF SucceedUpdate
  <2> HIDE DEF u, e, r
  <2>3. r \in DOMAIN t.written /\ t.stage # "update"
    BY <2>1 DEF Fields
  <2> HIDE DEF t
  <2> QED
    BY <1>3, <2>0, <2>2, <2>3
<1>6. ASSUME NEW lease \in leases, NEW retryable \in BOOLEAN,
             FailUpdate(s, lease, retryable)
      PROVE  LocksInv'
  <2> DEFINE r == lease.run
             next == Store!failure_status(lease.attempt, lease.max, retryable)
             u == Wrote(NoTx, r, Store!Unfinished(runs[r], next, "attempt_failed"))
             e == Store!Record(IF next = "queued" THEN "retry_scheduled"
                               ELSE "failed", lease.attempt)
             t == [u EXCEPT !.op = "fail", !.lease = lease,
                            !.stage = "lock", !.event = e]
  <2>0. r \in Runs
    BY DEF Inv, Shape
  <2>1. DOMAIN u = Fields /\ DOMAIN u.written = {r}
    BY <2>0, FirstWrite DEF FirstRow
  <2>2. Lock(s, {r}) /\ Open(s, t)
    BY <1>1, <1>6 DEF FailUpdate
  <2> HIDE DEF u, e, next, r
  <2>3. r \in DOMAIN t.written /\ t.stage # "update"
    BY <2>1 DEF Fields
  <2> HIDE DEF t
  <2> QED
    BY <1>3, <2>0, <2>2, <2>3
<1>7. ASSUME NEW lease \in leases, AddEvent(s, lease)
      PROVE  LocksInv'
  <2> DEFINE e == Store!Record("worker_lease_lost", lease.attempt)
             t == [NoTx EXCEPT !.op = "add_event", !.stage = "lock",
                     !.run = lease.run, !.lease = lease, !.event = e]
  <2>1. UNCHANGED lock /\ Open(s, t)
    BY <1>1, <1>7 DEF AddEvent
  <2>2. Lock(s, {})
    BY <2>1, NoLock
  <2> HIDE DEF e
  <2>3. t.stage # "update"
    BY <1>0 DEF Fields
  <2> HIDE DEF t
  <2> QED
    BY <1>2, <2>1, <2>2, <2>3, LocksStep
<1>8. RecoverSelect(s) => LocksInv'
  BY SelectKeepsLocks
<1> QED
  BY <1>4, <1>5, <1>6, <1>7, <1>8 DEF Begin

(* A row a transaction is about to lock for its event is one it has        *)
(* written, unless it reports a lost lease.                                *)
LEMMA AboutWritten ==
  ASSUME NEW s \in Sessions, SessionInv(s), At(s, "lock")
  PROVE  tx[s].run \in DOMAIN tx[s].written \/ AddEventInv(s)
<1>1. EnqueueInv(s) => tx[s].run \in DOMAIN tx[s].written
  BY DEF EnqueueInv
<1>2. ClaimInv(s) => tx[s].run \in DOMAIN tx[s].written
  BY DEF ClaimInv
<1>3. SucceedInv(s) \/ FailInv(s) => tx[s].run \in DOMAIN tx[s].written
  BY DEF SucceedInv, FailInv
<1>4. RecoverInv(s) => tx[s].run \in DOMAIN tx[s].written
  BY DEF RecoverInv, At
<1>5. tx[s] # NoTx
  BY DEF At, NoTx
<1> QED
  BY <1>1, <1>2, <1>3, <1>4, <1>5 DEF SessionInv

(* A later statement. *)
LEMMA LocksGoOn ==
  ASSUME Inv, Sound, LocksInv, NEW s \in Sessions, Statement(s), ~Commit(s)
  PROVE  LocksInv'
<1>0. DOMAIN tx[s] = Fields /\ SessionInv(s)
  BY DEF Inv, Shape, TxShape, Sound
<1>1. ASSUME NEW t, UNCHANGED lock, Open(s, t),
             DOMAIN tx[s].written \subseteq DOMAIN t.written, t.todo = tx[s].todo,
             Reports(tx[s]) => Reports(t),
             t.stage = "update" => t.todo # {}
      PROVE  LocksInv'
  <2>1. Lock(s, {})
    BY <1>1, NoLock
  <2> QED
    BY <1>1, <2>1, LocksStep DEF Touches
<1>2. ASSUME NEW w \in Workers, NEW r \in Runs, ClaimCandidate(s, w, r)
      PROVE  LocksInv'
  <2> DEFINE u == Wrote(tx[s], r, Store!Claimed(runs[r], w))
             l == Store!LeaseOf(w, r)
             e == Store!Record("started", runs[r].attempts + 1)
             g == IF runs[r].valid THEN "lock" ELSE "quarantine"
             t == [u EXCEPT !.op = "claim", !.lease = l, !.stage = g, !.event = e]
  <2>1. Lock(s, {r}) /\ Open(s, t)
    BY <1>2 DEF ClaimCandidate
  <2>2. /\ DOMAIN u = Fields /\ DOMAIN u.written = DOMAIN tx[s].written \cup {r}
        /\ u.todo = tx[s].todo
    BY <1>0 DEF Wrote, Fields
  <2>3. g # "update"
    OBVIOUS
  <2> HIDE DEF u, l, e, g
  <2>4. t.written = u.written /\ t.todo = u.todo /\ t.stage # "update"
    BY <2>2, <2>3 DEF Fields
  <2>5. ~Reports(tx[s])
    BY <1>2 DEF ClaimCandidate, MayClaim, At, Reports
  <2> HIDE DEF t
  <2> QED
    BY <2>1, <2>2, <2>4, <2>5, LocksStep DEF Touches
<1>3. ASSUME ClaimNoCandidate(s) \/ SucceedOutbox(s)
      PROVE  LocksInv'
  <2>1. PICK t \in {[tx[s] EXCEPT !.stage = "commit"],
                    [tx[s] EXCEPT !.summary = {tx[s].run}, !.stage = "lock"]} :
          Open(s, t)
    BY <1>3 DEF ClaimNoCandidate, SucceedOutbox
  <2>2. /\ t.written = tx[s].written /\ t.todo = tx[s].todo
        /\ t.stage # "update"
    BY <1>0, <2>1 DEF Fields
  <2>3. UNCHANGED lock /\ ~Reports(tx[s])
    BY <1>3 DEF ClaimNoCandidate, SucceedOutbox, At, Reports
  <2> QED
    BY <1>1, <2>1, <2>2, <2>3
<1>4. ASSUME QuarantineUpdate(s)
      PROVE  LocksInv'
  <2> DEFINE r == tx[s].run
             row == [tx[s].written[r] EXCEPT
                       !.status = "failed", !.worker = NULL,
                       !.error = "invalid_persisted_configuration",
                       !.completed = TRUE, !.stale = FALSE]
             u == Wrote(tx[s], r, row)
             e == Store!Record("failed", 0)
             t == [u EXCEPT !.stage = "lock", !.event = e]
  <2>1. UNCHANGED lock /\ Open(s, t) /\ ~Reports(tx[s])
    BY <1>4 DEF QuarantineUpdate, At, Reports
  <2> HIDE DEF row
  <2>2. /\ DOMAIN u = Fields /\ DOMAIN u.written = DOMAIN tx[s].written \cup {r}
        /\ u.todo = tx[s].todo
    BY <1>0 DEF Wrote, Fields
  <2> HIDE DEF u, e, r
  <2>3. t.written = u.written /\ t.todo = u.todo /\ t.stage # "update"
    BY <2>2 DEF Fields
  <2> HIDE DEF t
  <2> QED
    BY <1>1, <2>1, <2>2, <2>3
<1>5. ASSUME NEW r \in Runs, RecoverUpdate(s, r)
      PROVE  LocksInv'
  <2> DEFINE u == Wrote(tx[s], r, Store!Recovered(runs[r]))
             e == Store!RecoveryEvent(runs[r], Store!NextStatus(runs[r]))
             t == [u EXCEPT !.stage = "lock", !.todo = @ \ {r}, !.event = e]
  <2>1. Lock(s, {r}) /\ Open(s, t)
    BY <1>5 DEF RecoverUpdate
  <2>2. /\ DOMAIN u = Fields /\ DOMAIN u.written = DOMAIN tx[s].written \cup {r}
        /\ u.todo = tx[s].todo
    BY <1>0 DEF Wrote, Fields
  <2> HIDE DEF u, e
  <2>3. t.written = u.written /\ t.todo = u.todo \ {r} /\ t.stage # "update"
    BY <2>2 DEF Fields
  <2>4. ~Reports(tx[s])
    BY <1>5 DEF RecoverUpdate, At, Reports
  <2> HIDE DEF t
  <2> QED
    BY <2>1, <2>2, <2>3, <2>4, LocksStep DEF Touches
<1>6. ASSUME AppendLock(s)
      PROVE  LocksInv'
  <2> DEFINE t == [tx[s] EXCEPT !.stage = "insert"]
  <2>1. /\ Lock(s, {tx[s].run}) /\ Open(s, t) /\ At(s, "lock")
        /\ tx[s].run \in Runs
    BY <1>6 DEF AppendLock, Inv, Shape, TxShape, AboutRun, At
  <2>2. /\ t.written = tx[s].written /\ t.todo = tx[s].todo
        /\ t.op = tx[s].op /\ t.stage = "insert"
    BY <1>0 DEF Fields
  <2>3. tx[s].run \in DOMAIN tx[s].written \/ tx[s].op = "add_event"
    BY <1>0, <2>1, AboutWritten, OpTells
  <2>4. ~Reports(tx[s])
    BY <2>1 DEF At, Reports
  <2> HIDE DEF t
  <2> QED
    BY <2>1, <2>2, <2>3, <2>4, LocksStep DEF Touches, Reports
<1>7. ASSUME AppendInsert(s)
      PROVE  LocksInv'
  <2> DEFINE r == tx[s].run
             entry == [sequence |-> NextNumber(Seen(s, r)), event |-> tx[s].event]
             t == [tx[s] EXCEPT !.added = AddTo(@, r, entry),
                                !.stage = AfterInsert(tx[s])]
  <2>1. UNCHANGED lock /\ Open(s, t)
    BY <1>7 DEF AppendInsert
  <2> HIDE DEF entry
  <2>2. /\ t.written = tx[s].written /\ t.todo = tx[s].todo
        /\ t.op = tx[s].op /\ t.stage = AfterInsert(tx[s])
    BY <1>0 DEF Fields
  <2>3. /\ tx[s].op = "add_event" => AfterInsert(tx[s]) = "commit"
        /\ AfterInsert(tx[s]) = "update" => tx[s].todo # {}
    BY DEF AfterInsert
  <2> HIDE DEF t
  <2> QED
    BY <1>1, <2>1, <2>2, <2>3 DEF Reports
<1> QED
  BY <1>2, <1>3, <1>4, <1>5, <1>6, <1>7 DEF Statement

(* The end of a transaction gives all its locks back. *)
LEMMA LocksEnd ==
  ASSUME Inv, LocksInv, NEW s \in Sessions, Commit(s) \/ Rollback(s)
  PROVE  LocksInv'
<1>1. Unlock(s) /\ Open(s, NoTx)
  BY DEF Commit, Rollback
<1>2. tx'[s] = NoTx /\ \A x \in Sessions : x # s => tx'[x] = tx[x]
  BY <1>1, Reopened
<1>3. ASSUME NEW x \in Sessions, NEW r \in Runs, lock'[r] = x
      PROVE  x # s /\ lock[r] = x
  BY <1>1, <1>3, SessionAssumption DEF Unlock
<1>4. NoTx.stage # "update"
  BY DEF NoTx
<1> QED
  BY <1>2, <1>3, <1>4 DEF LocksInv, Touches, Reports

LEMMA NextPreservesLocks ==
  ASSUME TxInv, LocksInv, [TxNext]_tvars
  PROVE  LocksInv'
<1>1. CASE UNCHANGED <<lock, tx>>
  BY <1>1 DEF LocksInv, Touches, Reports
<1>2. ASSUME NEW s \in Sessions, Begin(s) \/ Statement(s) \/ Rollback(s)
      PROVE  LocksInv'
  BY <1>2, LocksBegin, LocksGoOn, LocksEnd DEF TxInv
<1> QED
  BY <1>1, <1>2 DEF TxNext, Heartbeat, Release, Clock, tvars

LEMMA InvMakesReady ==
  ASSUME TxInv, LocksInv
  PROVE  HoldersReady
<1> SUFFICES ASSUME NEW s \in Sessions, NEW held \in Runs, lock[held] = s
             PROVE  Ready(s)
  BY DEF HoldersReady
<1>1. SessionInv(s) /\ Keeps(s)
  BY DEF TxInv, Sound, SessionInv
<1>2. Touches(tx[s], held) \/ Reports(tx[s])
  BY DEF LocksInv
<1>3. tx[s] # NoTx
  BY <1>2 DEF Touches, Reports, NoTx
<1>4. tx[s].stage \in {"quarantine", "candidate", "lock", "insert", "commit",
                       "outbox", "update"}
  BY <1>1, <1>3, StagesOf DEF SessionInv
<1>5. CASE At(s, "lock")
  <2>1. CASE tx[s].run \in DOMAIN tx[s].written
    BY <1>1, <1>5, <2>1 DEF Keeps, Unlocked, Ready
  <2>2. CASE AddEventInv(s)
    <3>1. ~Touches(tx[s], held)
      BY <2>2 DEF AddEventInv, Touches
    <3> QED
      BY <1>2, <1>5, <3>1 DEF Reports, At
  <2> QED
    BY <1>1, <1>5, <2>1, <2>2, AboutWritten
<1>6. CASE At(s, "update")
  <2>1. tx[s].todo # {}
    BY <1>6 DEF LocksInv, At
  <2> QED
    BY <1>1, <1>6, <2>1 DEF Keeps, Unlocked, Ready
<1>7. CASE At(s, "candidate")
  <2>1. tx[s].lease.worker \in Workers
    BY <1>1, <1>7, StageTells DEF ClaimInv
  <2>2. MayClaim(s, tx[s].lease.worker)
    BY <1>7 DEF MayClaim
  <2>3. \A r \in Candidates(s) : Unlocked(s, r)
    BY DEF Candidates, Unlocked
  <2> QED
    BY <1>7, <2>1, <2>2, <2>3 DEF Ready
<1> QED
  BY <1>4, <1>5, <1>6, <1>7 DEF Ready, At

(* The store never deadlocks: a transaction that has locked a row can      *)
(* execute its next statement whatever the others hold, since the rows its *)
(* later statements lock are locked by itself already, and a claim passes  *)
(* over locked rows.                                                       *)
THEOREM HoldersGoOn == TxSpec => []HoldersReady
<1>1. TxInit => LocksInv
  <2>1. TxInit => \A s \in Sessions, r \in Runs : lock[r] # s
    BY SessionAssumption DEF TxInit
  <2>2. TxInit => \A s \in Sessions : tx[s].stage # "update"
    BY DEF TxInit, NoTx
  <2> QED
    BY <2>1, <2>2 DEF LocksInv
<1>2. TxInv /\ LocksInv /\ [TxNext]_tvars => LocksInv'
  BY NextPreservesLocks
<1>3. TxInv /\ LocksInv => HoldersReady
  BY InvMakesReady
<1> QED
  BY <1>1, <1>2, <1>3, TransactionsStaySound, PTL DEF TxSpec
=============================================================================
