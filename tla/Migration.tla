------------------------------ MODULE Migration ------------------------------
(***************************************************************************)
(* Migration 004, statement by statement.  psql runs it with autocommit    *)
(* and ON_ERROR_STOP: a session can end between any two statements, or in  *)
(* the middle of a concurrent index build, and is then started again from  *)
(* the top.  Meanwhile the clients of the tables go on: the service that   *)
(* was there before the queue (it is not in the repository; its rows are   *)
(* known from what the migration does to them), and, once a session has    *)
(* come to the end, the API and the workers of this one.                   *)
(*                                                                         *)
(* Statements that only add columns with defaults are left out where no    *)
(* other statement and no client depends on them here.                     *)
(***************************************************************************)
EXTENDS Naturals, Sequences, SequencesExt

CONSTANTS
  Runs,
  MaxAborts,   \* bound: how many sessions are cut off
  MaxReruns    \* bound: how often a finished migration is run again

ASSUME MigrationAssumption == MaxAborts \in Nat /\ MaxReruns \in Nat

VARIABLES
  runs,       \* rlm_runs
  check,      \* the constraint rlm_runs_context_not_null
  notnull,    \* context is NOT NULL
  index,      \* the state of each index
  outbox,     \* rlm_summary_outbox
  at,         \* the next statement of the session, 0 if there is none
  building,   \* it is an index build that has begun
  finished,   \* a session has come to the end, and the service is deployed
  aborts, reruns

schema == <<check, notnull, index, outbox>>

session == <<at, building, finished, aborts, reruns>>

mvars == <<runs, schema, session>>

RunIndexes ==
  <<"rlm_runs_queue_idx", "rlm_runs_stale_worker_idx",
    "rlm_runs_tenant_lookup_idx", "rlm_events_run_created_idx">>

OutboxIndexes ==
  <<"rlm_summary_outbox_pending_idx", "memory_run_summary_source_idx">>

Indexes == ToSet(RunIndexes) \cup ToSet(OutboxIndexes)

Script ==
  <<"recover_context", "fail_lost", "blank_finished", "add_check", "validate",
    "set_not_null", "drop_invalid">>
  \o RunIndexes
  \o <<"outbox_table", "outbox_columns", "outbox_fill", "outbox_check",
       "outbox_validate", "outbox_not_null">>
  \o OutboxIndexes

Constraint == {"none", "not_valid", "valid"}

(* A context that is blank, and one that is NULL or has no column yet. *)
Context == {"null", "blank", "text"}

Unfinished == {"queued", "running"}

Row ==
  [status : Unfinished \cup {"none", "succeeded", "failed"},
   context : Context,
   corpus_ref : Context, \* what it holds inline; "null" in rows of the new API
   error : {"none", "migration_missing_context", "other"}]

Outbox ==
  [table : {"none", "old", "new"},     \* old: made without embedding columns
   embedding : {"none", "null", "set"},\* of its rows, if there are any
   check : Constraint,
   notnull : BOOLEAN]

(* Every variable keeps to its values, and a column is NOT NULL only after *)
(* its constraint was validated.                                           *)
MigrationTypeOK ==
  /\ runs \in [Runs -> Row]
  /\ check \in Constraint
  /\ notnull \in BOOLEAN
  /\ notnull => check = "valid" /\ \A r \in Runs : runs[r].context # "null"
  /\ index \in [Indexes -> {"none", "invalid", "valid"}]
  /\ outbox \in Outbox
  /\ outbox.notnull => outbox.embedding # "null"
  /\ at \in 0..Len(Script) + 1
  /\ building \in BOOLEAN
  /\ finished \in BOOLEAN
  /\ aborts \in 0..MaxAborts
  /\ reruns \in 0..MaxReruns

(* There may be an outbox that an earlier version of the migration made.   *)
MigrationInit ==
  /\ runs = [r \in Runs |-> [status |-> "none", context |-> "text",
                             corpus_ref |-> "null", error |-> "none"]]
  /\ check = "none" /\ notnull = FALSE
  /\ index = [i \in Indexes |-> "none"]
  /\ outbox \in {[table |-> "none", embedding |-> "none",
                  check |-> "none", notnull |-> FALSE],
                 [table |-> "old", embedding |-> "null",
                  check |-> "none", notnull |-> FALSE]}
  /\ at = 0 /\ building = FALSE /\ finished = FALSE
  /\ aborts = 0 /\ reruns = 0
-----------------------------------------------------------------------------
(* The session.                                                            *)

Start ==
  /\ at = 0
  /\ finished => reruns < MaxReruns
  /\ at' = 1
  /\ reruns' = IF finished THEN reruns + 1 ELSE reruns
  /\ UNCHANGED <<runs, schema, building, finished, aborts>>

Abort ==
  /\ at # 0 /\ aborts < MaxAborts
  /\ at' = 0 /\ building' = FALSE /\ aborts' = aborts + 1
  /\ UNCHANGED <<runs, schema, finished, reruns>>

Finish ==
  /\ at = Len(Script) + 1
  /\ at' = 0 /\ finished' = TRUE
  /\ UNCHANGED <<runs, schema, building, aborts, reruns>>

Executing(statement) == at \in DOMAIN Script /\ Script[at] = statement

Advance ==
  /\ at' = at + 1
  /\ UNCHANGED <<building, finished, aborts, reruns>>

(* ON_ERROR_STOP *)
Stop ==
  /\ at' = 0
  /\ UNCHANGED <<building, finished, aborts, reruns>>

(* One UPDATE of rlm_runs; updated is a function of the rows it matches. *)
Update(statement, updated) ==
  /\ Executing(statement)
  /\ runs' = [r \in Runs |-> IF r \in DOMAIN updated THEN updated[r] ELSE runs[r]]
  /\ Advance
  /\ UNCHANGED schema

Present == {r \in Runs : runs[r].status # "none"}

NoContext(row) == row.context \in {"null", "blank"}

RecoverContext ==
  LET matched == {r \in Present : NoContext(runs[r]) /\ runs[r].corpus_ref = "text"}
  IN  Update("recover_context",
             [r \in matched |-> [runs[r] EXCEPT !.context = "text"]])

LostWhateverContext(row) == row.status \in Unfinished    \* broken: no AND

Lost(row) == row.status \in Unfinished /\ NoContext(row)

FailLost ==
  LET matched == {r \in Present : Lost(runs[r])}
  IN  Update("fail_lost",
             [r \in matched |-> [runs[r] EXCEPT !.status = "failed",
                                   !.error = "migration_missing_context"]])

HistoricalQueued(row) ==        \* broken: another status than the finished ones
  row.status = "failed" /\ row.context = "null"

Historical(row) == row.status \in {"succeeded", "failed"} /\ row.context = "null"

BlankFinished ==
  LET matched == {r \in Present : Historical(runs[r])}
  IN  Update("blank_finished",
             [r \in matched |-> [runs[r] EXCEPT !.context = "blank"]])

(* The constraints on status and attempts hold of every row there can be.  *)
AddCheck ==
  /\ Executing("add_check")
  /\ check' = IF check = "none" THEN "not_valid" ELSE check
  /\ Advance
  /\ UNCHANGED <<runs, notnull, index, outbox>>

NullContexts == {r \in Runs : runs[r].context = "null"}

ValidateLater ==                \* broken: leaves the constraint NOT VALID
  /\ Executing("validate")
  /\ Advance
  /\ UNCHANGED <<runs, schema>>

Validate ==
  /\ Executing("validate")
  /\ IF NullContexts = {} THEN check' = "valid" /\ Advance
                          ELSE check' = check /\ Stop
  /\ UNCHANGED <<runs, notnull, index, outbox>>

SetNotNull ==
  /\ Executing("set_not_null")
  /\ notnull' = TRUE
  /\ Advance
  /\ UNCHANGED <<runs, check, index, outbox>>
-----------------------------------------------------------------------------
(* The indexes.                                                            *)

InvalidIndexes == {i \in Indexes : index[i] = "invalid"}

KeepInvalid ==                  \* broken: relies on IF NOT EXISTS alone
  /\ Executing("drop_invalid")
  /\ Advance
  /\ UNCHANGED <<runs, schema>>

DropInvalid ==
  /\ Executing("drop_invalid")
  /\ \/ \E i \in InvalidIndexes :
          /\ index' = [index EXCEPT ![i] = "none"]
          /\ UNCHANGED session
     \/ /\ InvalidIndexes = {}
        /\ Advance
        /\ UNCHANGED index
  /\ UNCHANGED <<runs, check, notnull, outbox>>

(* IF NOT EXISTS looks at the name alone. *)
SkipIndex(i) ==
  /\ Executing(i) /\ ~building /\ index[i] # "none"
  /\ Advance
  /\ UNCHANGED <<runs, schema>>

BeginIndex(i) ==
  /\ Executing(i) /\ ~building /\ index[i] = "none"
  /\ index' = [index EXCEPT ![i] = "invalid"]
  /\ building' = TRUE
  /\ UNCHANGED <<runs, check, notnull, outbox, at, finished, aborts, reruns>>

EndIndex(i) ==
  /\ Executing(i) /\ building
  /\ index' = [index EXCEPT ![i] = "valid"]
  /\ building' = FALSE
  /\ at' = at + 1
  /\ UNCHANGED <<runs, check, notnull, outbox, finished, aborts, reruns>>
-----------------------------------------------------------------------------
(* The outbox.                                                             *)

AlterOutbox(statement, altered) ==
  /\ Executing(statement)
  /\ outbox' = altered
  /\ Advance
  /\ UNCHANGED <<runs, check, notnull, index>>

CreateOutbox ==
  AlterOutbox("outbox_table",
    IF outbox.table = "none"
    THEN [outbox EXCEPT !.table = "new", !.notnull = TRUE] ELSE outbox)

(* To a table without the columns they come with NULL. *)
AddOutboxColumns ==
  AlterOutbox("outbox_columns",
    IF outbox.table = "old" THEN [outbox EXCEPT !.table = "new"] ELSE outbox)

(* Taken from the configuration of the run, which every run has. *)
FillOutbox ==
  AlterOutbox("outbox_fill",
    IF outbox.embedding = "null" THEN [outbox EXCEPT !.embedding = "set"]
                                 ELSE outbox)

AddOutboxCheck ==
  AlterOutbox("outbox_check",
    IF outbox.check = "none" THEN [outbox EXCEPT !.check = "not_valid"]
                             ELSE outbox)

ValidateOutbox ==
  /\ Executing("outbox_validate")
  /\ IF outbox.embedding # "null"
     THEN outbox' = [outbox EXCEPT !.check = "valid"] /\ Advance
     ELSE outbox' = outbox /\ Stop
  /\ UNCHANGED <<runs, check, notnull, index>>

SetOutboxNotNull ==
  AlterOutbox("outbox_not_null", [outbox EXCEPT !.notnull = TRUE])
-----------------------------------------------------------------------------
(* The clients.                                                            *)

(* The service before this one writes rows without a context column.       *)
OldInsert(r, corpus) ==
  /\ runs[r].status = "none"
  /\ check = "none"
  /\ \E status \in Unfinished :
       runs' = [runs EXCEPT ![r] = [status |-> status, context |-> "null",
                                    corpus_ref |-> corpus, error |-> "none"]]
  /\ UNCHANGED <<schema, session>>

(* A constraint that is not valid yet still refuses an UPDATE. *)
OldFinish(r) ==
  /\ ~finished
  /\ runs[r].status \in Unfinished
  /\ runs[r].context = "null" => check = "none"
  /\ \E status \in {"succeeded", "failed"} :
       runs' = [runs EXCEPT ![r].status = status]
  /\ UNCHANGED <<schema, session>>

(* A worker of the version that made the old outbox. *)
OldProduce ==
  /\ outbox.table # "none" /\ outbox.check = "none" /\ ~outbox.notnull
  /\ outbox' = [outbox EXCEPT !.embedding = "null"]
  /\ UNCHANGED <<runs, check, notnull, index, session>>

(* CreateRun takes a context of blanks too. *)
Enqueue(r, context) ==
  /\ finished
  /\ runs[r].status = "none"
  /\ runs' = [runs EXCEPT ![r] = [status |-> "queued", context |-> context,
                                  corpus_ref |-> "null", error |-> "none"]]
  /\ UNCHANGED <<schema, session>>

(* claim, with its quarantine of a run that does not decode. *)
Claim(r) ==
  /\ finished
  /\ runs[r].status = "queued"
  /\ runs' = [runs EXCEPT ![r] =
       IF NoContext(@) THEN [@ EXCEPT !.status = "failed", !.error = "other"]
                       ELSE [@ EXCEPT !.status = "running"]]
  /\ UNCHANGED <<schema, session>>

(* succeed, fail, or recover_stale of a row that was left running. *)
EndAttempt(r) ==
  /\ finished
  /\ runs[r].status = "running"
  /\ \E status \in {"succeeded", "failed", "queued"} :
       runs' = [runs EXCEPT ![r].status = status]
  /\ UNCHANGED <<schema, session>>
-----------------------------------------------------------------------------
Statement ==
  \/ RecoverContext \/ FailLost \/ BlankFinished
  \/ AddCheck \/ Validate \/ SetNotNull
  \/ DropInvalid
  \/ \E i \in Indexes : SkipIndex(i) \/ BeginIndex(i) \/ EndIndex(i)
  \/ CreateOutbox \/ AddOutboxColumns \/ FillOutbox
  \/ AddOutboxCheck \/ ValidateOutbox \/ SetOutboxNotNull

Client ==
  \/ OldProduce
  \/ \E r \in Runs :
       \/ \E corpus \in {"blank", "text"} : OldInsert(r, corpus)
       \/ OldFinish(r)
       \/ \E context \in {"blank", "text"} : Enqueue(r, context)
       \/ Claim(r)
       \/ EndAttempt(r)

MigrationNext == Start \/ Statement \/ Finish \/ Abort \/ Client

(* Statements return, and a migration that was cut off is run again. *)
MigrationFairness ==
  /\ WF_mvars(Statement) /\ WF_mvars(Finish)
  /\ WF_mvars(~finished /\ Start)

MigrationSpec ==
  MigrationInit /\ [][MigrationNext]_mvars /\ MigrationFairness
-----------------------------------------------------------------------------
(* A session that comes to its end has left a sound schema, wherever the   *)
(* ones before it were cut off: every index is usable, the constraints are *)
(* validated, and no run of the old service can be claimed or recovered    *)
(* without a context.  It stays so while the migration is run again.       *)
FinishedIsSound ==
  finished =>
    /\ \A i \in Indexes : index[i] = "valid"
    /\ check = "valid" /\ notnull
    /\ outbox.check = "valid" /\ outbox.notnull
    /\ \A r \in Runs :
         runs[r].corpus_ref # "null" /\ runs[r].status \in Unfinished
           => runs[r].context = "text"

(* "Safe to run repeatedly" (004:1): no statement touches a run that is    *)
(* finished but to fill in its context, nor one that can be executed.      *)
RerunLeavesWork ==
  [][Statement => \A r \in Runs :
       /\ runs[r].status \notin Unfinished => runs'[r].status = runs[r].status
       /\ runs[r].context = "text" => runs'[r] = runs[r]]_mvars

(* The migration gets to its end, however often it is cut off and whatever *)
(* the old service writes in between.                                      *)
MigrationFinishes == <>finished

(* "Unrecoverable legacy queued/running rows are failed" (README.md:83-84):*)
(* a run whose context can be recovered is not.                            *)
RecoverableIsKept ==
  \A r \in Runs :
    runs[r].corpus_ref = "text" => runs[r].error # "migration_missing_context"
=============================================================================
