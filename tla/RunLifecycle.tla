---------------------------- MODULE RunLifecycle ----------------------------
(***************************************************************************)
(* What the queue promises the client that submitted a run and polls       *)
(* GET /v1/rlm/runs/:run_id: the status and the attempt counters it can    *)
(* observe, and how they may change.  No workers, leases, clocks or        *)
(* crashes appear here: RunStore is shown to implement this module.        *)
(***************************************************************************)
EXTENDS Naturals

CONSTANTS
  Runs,         \* the run ids the queue can hold
  LegacyRuns    \* rows a schema upgrade left 'running' before any claim

VARIABLE
  life          \* life[r]: status, attempts and max_attempts of run r

Terminal == {"succeeded", "failed"}

NotSubmitted == [status |-> "absent", attempts |-> 0, max |-> 0]

Init ==
  /\ \A r \in Runs \ LegacyRuns : life[r] = NotSubmitted
  /\ \A r \in LegacyRuns : life[r].status = "running" /\ life[r].attempts = 0
-----------------------------------------------------------------------------
(* The moves one run can make: b is the run after the move, a before it.   *)

(* POST /v1/rlm/runs wrote the row. *)
Submit(a, b) ==
  /\ a.status = "absent"
  /\ b.status = "queued"
  /\ b.attempts = 0
  /\ b.max > 0

(* Some worker claimed the run: the attempt is paid for at once. *)
Start(a, b) ==
  /\ a.status = "queued"
  /\ b.status = "running"
  /\ b.attempts = a.attempts + 1
  /\ b.attempts <= a.max
  /\ b.max = a.max

(* The attempt did not finish, and the run has attempts left. *)
Retry(a, b) ==
  /\ a.status = "running"
  /\ b.status = "queued"
  /\ a.attempts < a.max
  /\ b.attempts = a.attempts
  /\ b.max = a.max

(* The attempt decided the run. *)
Finish(a, b) ==
  /\ a.status = "running"
  /\ b.status \in Terminal
  /\ b.attempts = a.attempts
  /\ b.max = a.max

(* The persisted row cannot be decoded, so it is failed, not executed. *)
Reject(a, b) ==
  /\ a.status = "queued"
  /\ b.status = "failed"
  /\ b.attempts = a.attempts + 1
  /\ b.attempts <= a.max
  /\ b.max = a.max

Move(a, b) ==
  \/ Submit(a, b)
  \/ Start(a, b)
  \/ Retry(a, b)
  \/ Finish(a, b)
  \/ Reject(a, b)

(* One transaction may move several runs: a claim quarantines the rows it  *)
(* cannot decode, a recovery handles a whole batch.                        *)
Next == \A r \in Runs : life'[r] = life[r] \/ Move(life[r], life'[r])

Spec == Init /\ [][Next]_life
=============================================================================
