--------------------------- MODULE SummaryOutbox ----------------------------
(***************************************************************************)
(* Delivery of run summaries: the table rlm_summary_outbox with its        *)
(* transactions in run_store.py, the delivery loop of worker.py and the    *)
(* rows MemoryStore.write leaves in memory_items.                          *)
(*                                                                         *)
(* Unlike a run, a delivery has no heartbeat, no limit on its attempts and *)
(* no timeout: a claim is simply forgotten once it is stale_seconds old,   *)
(* whether or not its worker is still delivering.  Every statement commits *)
(* on its own.  A worker is between two calls at every pc; a call may raise*)
(* before its statement commits or after, and a worker may crash or be     *)
(* cancelled anywhere.                                                     *)
(***************************************************************************)
EXTENDS Naturals, Sequences

CONSTANTS
  Runs,        \* runs that may succeed and leave a summary
  Workers,     \* worker identities
  NULL,        \* SQL NULL in the column claimed_by
  Models,      \* embedding configurations: a model and its dimension
  Embeds,      \* Embeds[w]: the embedding configuration of worker w
  Reliable,    \* the workers that neither stop nor crash
  MaxFaults    \* bound: how many calls raise

ASSUME OutboxAssumption ==
  /\ NULL \notin Workers
  /\ Embeds \in [Workers -> Models]
  /\ Reliable \subseteq Workers
  /\ MaxFaults \in Nat

VARIABLES
  items,      \* items[r]: the row of rlm_summary_outbox for run r
  memories,   \* memories[r]: rows of memory_items with source_run_id r, each
              \* the configuration its embedding was computed with
  delivery,   \* delivery[w]: what worker w is delivering
  faults      \* how many calls have raised so far

ovars == <<items, memories, delivery, faults>>

(* waiting: completed_at IS NULL; delivered and rejected: completed, the   *)
(* latter with last_error = invalid_persisted_configuration.               *)
Item ==
  [state : {"none", "waiting", "delivered", "rejected"},
   model : Models \cup {NULL},
   text : BOOLEAN,                    \* the content is not blank
   holder : Workers \cup {NULL},      \* claimed_by
   stale : BOOLEAN,                   \* claimed_at is stale_seconds old
   due : BOOLEAN]                     \* available_at <= now()

Stages ==
  {"idle", "quarantine", "deliver", "written", "retry", "exited"}

Delivery == [stage : Stages, run : Runs \cup {NULL}]

(* Types, and that only a waiting row is claimed and only a claim expires. *)
OutboxTypeOK ==
  /\ items \in [Runs -> Item]
  /\ \A r \in Runs :
       /\ items[r].stale => items[r].holder # NULL
       /\ items[r].holder # NULL => items[r].state = "waiting"
  /\ memories \in [Runs -> Seq(Models)]
  /\ delivery \in [Workers -> Delivery]
  /\ faults \in 0..MaxFaults

OutboxInit ==
  /\ items = [r \in Runs |->
       [state |-> "none", model |-> NULL, text |-> FALSE, holder |-> NULL,
        stale |-> FALSE, due |-> FALSE]]
  /\ memories = [r \in Runs |-> <<>>]
  /\ delivery = [w \in Workers |-> [stage |-> "idle", run |-> NULL]]
  /\ faults = 0
-----------------------------------------------------------------------------
Settled == {"delivered", "rejected"}

Target(w) == delivery[w].run

At(w, stage) == delivery[w].stage = stage

Goto(w, stage) == delivery' = [delivery EXCEPT ![w].stage = stage]

LetGo(w, stage) ==
  delivery' = [delivery EXCEPT ![w] = [stage |-> stage, run |-> NULL]]

Quiet == UNCHANGED faults

Fault == faults < MaxFaults /\ faults' = faults + 1

(* The WHERE clause of complete_summary, retry_summary and the quarantine. *)
HoldsIfUnfinished(w) ==              \* broken: drops claimed_by = $2
  items[Target(w)].state = "waiting"

Holds(w) ==
  /\ items[Target(w)].state = "waiting"
  /\ items[Target(w)].holder = w

FreeKeepsHolder(item, state) ==      \* broken: claimed_by is not cleared
  [item EXCEPT !.state = state, !.stale = FALSE]

Free(item, state) == [item EXCEPT !.state = state, !.holder = NULL, !.stale = FALSE]
-----------------------------------------------------------------------------
(* succeed: the row appears with the success of its run.  The summary is   *)
(* the answer, which may be empty; the configuration is the run's.         *)
Produce(r, model, text) ==
  /\ items[r].state = "none"
  /\ items' = [items EXCEPT ![r] =
       [@ EXCEPT !.state = "waiting", !.model = model, !.text = text, !.due = TRUE]]
  /\ UNCHANGED <<memories, delivery, faults>>

(* claim_summary: one statement, with the decoding after it. *)
ClaimableUnheld(r) ==                \* broken: no stale claim is taken over
  items[r].state = "waiting" /\ items[r].due /\ items[r].holder = NULL

Claimable(r) ==
  /\ items[r].state = "waiting"
  /\ items[r].due
  /\ items[r].holder = NULL \/ items[r].stale

ClaimTx(w, r) ==
  /\ Claimable(r)
  /\ items' = [items EXCEPT ![r].holder = w, ![r].stale = FALSE]
  /\ UNCHANGED memories

AfterClaim(w, r) == IF items[r].text THEN "deliver" ELSE "quarantine"

ClaimSummary(w, r) ==
  /\ At(w, "idle")
  /\ ClaimTx(w, r)
  /\ delivery' = [delivery EXCEPT ![w] = [stage |-> AfterClaim(w, r), run |-> r]]
  /\ Quiet

(* The claim committed, its answer was lost: w holds a row it forgot. *)
ClaimAnswerLost(w, r) ==
  /\ At(w, "idle")
  /\ ClaimTx(w, r)
  /\ Fault
  /\ UNCHANGED delivery

QuarantineSummary(w) ==
  /\ At(w, "quarantine")
  /\ items' = IF Holds(w)
              THEN [items EXCEPT ![Target(w)] = Free(@, "rejected")]
              ELSE items
  /\ LetGo(w, "idle")
  /\ UNCHANGED memories /\ Quiet

Compatible(w) == items[Target(w)].model = Embeds[w]

(* retry_summary gives the row back until its delay is over. *)
Postponed(item) == [item EXCEPT !.holder = NULL, !.stale = FALSE, !.due = FALSE]

GiveBack(w) ==
  items' = IF Holds(w)
           THEN [items EXCEPT ![Target(w)] = Postponed(@)]
           ELSE items

RetryMismatch(w) ==
  /\ At(w, "deliver")
  /\ ~Compatible(w)
  /\ GiveBack(w)
  /\ LetGo(w, "idle")
  /\ UNCHANGED memories /\ Quiet

(* MemoryStore.write: the embedding, then one INSERT ... ON CONFLICT on    *)
(* (tenant_id, subject_id, namespace, source_run_id), which keeps the row. *)
InsertedAgain(rows, model) == Append(rows, model)    \* broken: plain INSERT

Inserted(rows, model) == IF rows = <<>> THEN <<model>> ELSE rows

WriteMemory(w) ==
  /\ At(w, "deliver")
  /\ Compatible(w)
  /\ memories' = [memories EXCEPT ![Target(w)] = Inserted(@, Embeds[w])]
  /\ Goto(w, "written")
  /\ UNCHANGED items /\ Quiet

CompleteSummary(w) ==
  /\ At(w, "written")
  /\ items' = IF Holds(w)
              THEN [items EXCEPT ![Target(w)] = Free(@, "delivered")]
              ELSE items
  /\ LetGo(w, "idle")
  /\ UNCHANGED memories /\ Quiet

(* write or complete_summary raised, before its statement or after it. *)
AfterRaiseCompletes(w) == "written"  \* broken: completes what was not written

AfterRaise(w) == "retry"

DeliveryRaises(w) ==
  /\ \/ At(w, "deliver") /\ Compatible(w)
     \/ At(w, "written")
  /\ Fault
  /\ Goto(w, AfterRaise(w))
  /\ \/ UNCHANGED items
     \/ /\ At(w, "written") /\ Holds(w)
        /\ items' = [items EXCEPT ![Target(w)] = Free(@, "delivered")]
  /\ UNCHANGED memories

RetryFailed(w) ==
  /\ At(w, "retry")
  /\ GiveBack(w)
  /\ LetGo(w, "idle")
  /\ UNCHANGED memories /\ Quiet

(* retry_summary or the quarantine raised: the cycle fails, the claim stays*)
(* until it is stale.                                                      *)
GiveBackRaises(w) ==
  /\ At(w, "quarantine") \/ At(w, "retry") \/ (At(w, "deliver") /\ ~Compatible(w))
  /\ Fault
  /\ LetGo(w, "idle")
  /\ UNCHANGED <<items, memories>>

(* A crash, or the cancellation of the cycle by a stop. *)
Exit(w) ==
  /\ w \notin Reliable
  /\ ~At(w, "exited")
  /\ LetGo(w, "exited")
  /\ UNCHANGED <<items, memories, faults>>
-----------------------------------------------------------------------------
BecomeDue(r) ==
  /\ items[r].state = "waiting"
  /\ ~items[r].due
  /\ items' = [items EXCEPT ![r].due = TRUE]
  /\ UNCHANGED <<memories, delivery, faults>>

BecomeStale(r) ==
  /\ items[r].state = "waiting"
  /\ items[r].holder # NULL
  /\ ~items[r].stale
  /\ items' = [items EXCEPT ![r].stale = TRUE]
  /\ UNCHANGED <<memories, delivery, faults>>

DeliveryStep(w) ==
  \/ QuarantineSummary(w)
  \/ RetryMismatch(w)
  \/ WriteMemory(w)
  \/ CompleteSummary(w)
  \/ RetryFailed(w)

OutboxNext ==
  \/ \E r \in Runs, model \in Models, text \in BOOLEAN : Produce(r, model, text)
  \/ \E w \in Workers, r \in Runs : ClaimSummary(w, r) \/ ClaimAnswerLost(w, r)
  \/ \E w \in Workers :
       \/ DeliveryStep(w)
       \/ DeliveryRaises(w) \/ GiveBackRaises(w)
       \/ Exit(w)
  \/ \E r \in Runs : BecomeDue(r) \/ BecomeStale(r)

Delivers(w, r) == Holds(w) /\ Target(w) = r

(* Calls return and time passes.  Two assumptions are about speed: a worker*)
(* that polls forever is not beaten to a due row forever, and a worker that*)
(* delivers again and again is sometimes done before its claim is stale    *)
(* (embedding has no timeout and a delivery no heartbeat: if every delivery*)
(* took longer than stale_seconds, two workers would take the row from each*)
(* other forever).                                                         *)
OutboxFairness ==
  /\ \A w \in Workers : WF_ovars(DeliveryStep(w))
  /\ \A w \in Workers, r \in Runs :
       w \in Reliable =>
         /\ SF_ovars(ClaimSummary(w, r))
         /\ SF_ovars(QuarantineSummary(w) /\ Delivers(w, r))
         /\ SF_ovars(WriteMemory(w) /\ Delivers(w, r))
         /\ SF_ovars(CompleteSummary(w) /\ Delivers(w, r))
  /\ \A r \in Runs : WF_ovars(BecomeDue(r)) /\ WF_ovars(BecomeStale(r))

OutboxSpec == OutboxInit /\ [][OutboxNext]_ovars /\ OutboxFairness
-----------------------------------------------------------------------------
(* What delivery promises.                                                 *)

(* However often a summary is delivered again, by whichever workers, a run *)
(* leaves one memory, embedded with the configuration the run was made     *)
(* under: vectors of two models never meet.                                *)
OneMemoryPerRun ==
  \A r \in Runs :
    /\ Len(memories[r]) <= 1
    /\ memories[r] # <<>> => memories[r][1] = items[r].model

(* A summary is marked delivered only when its memory exists, and given up *)
(* only when there is nothing to remember.                                 *)
DeliveredIsRemembered ==
  \A r \in Runs :
    /\ items[r].state = "delivered" => memories[r] # <<>>
    /\ items[r].state = "rejected" => ~items[r].text /\ memories[r] = <<>>

(* A claim that has not expired is ended by the worker that holds it, not  *)
(* by one it was taken over from; and a settled summary is settled for good*)
OnlyHolderSettles ==
  [][\A r \in Runs :
       /\ items[r].state \in Settled => items'[r] = items[r]
       /\ items[r].holder # NULL /\ ~items[r].stale
            /\ items'[r].holder # items[r].holder
          => \E w \in Workers :
               /\ w = items[r].holder
               /\ Target(w) = r
               /\ delivery'[w] # delivery[w]]_ovars

(* Every summary is settled at last, though workers crash in the middle of *)
(* a delivery and workers of another configuration claim it in between, as *)
(* long as one worker of its own configuration stays.                      *)
EverySummarySettles ==
  \A r \in Runs, w \in Reliable :
    items[r].state = "waiting" /\ items[r].model = Embeds[w]
      ~> items[r].state \in Settled
=============================================================================
