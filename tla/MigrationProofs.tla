--------------------------- MODULE MigrationProofs ---------------------------
(***************************************************************************)
(* What migration 004 leaves behind, for any number of runs, however often *)
(* it is cut off and run again.                                            *)
(*                                                                         *)
(* The argument.  A session that is past a statement knows what that has   *)
(* established, and that no client can undo it: a constraint that is there *)
(* refuses the old service's rows, an index that is valid stays valid, and *)
(* an index that is not is the one being built (at > k => ...).  Nothing   *)
(* is known of a session that has just begun, so being cut off is no loss. *)
(***************************************************************************)
EXTENDS Migration, TLAPS

(* The script, with the places of its statements. *)
LEMMA ScriptIs ==
  /\ DOMAIN Script = 1..19 /\ Len(Script) = 19
  /\ Script[1] = "recover_context" /\ Script[2] = "fail_lost"
  /\ Script[3] = "blank_finished" /\ Script[4] = "add_check"
  /\ Script[5] = "validate" /\ Script[6] = "set_not_null"
  /\ Script[7] = "drop_invalid"
  /\ Script[8] = "rlm_runs_queue_idx" /\ Script[9] = "rlm_runs_stale_worker_idx"
  /\ Script[10] = "rlm_runs_tenant_lookup_idx"
  /\ Script[11] = "rlm_events_run_created_idx"
  /\ Script[12] = "outbox_table" /\ Script[13] = "outbox_columns"
  /\ Script[14] = "outbox_fill" /\ Script[15] = "outbox_check"
  /\ Script[16] = "outbox_validate" /\ Script[17] = "outbox_not_null"
  /\ Script[18] = "rlm_summary_outbox_pending_idx"
  /\ Script[19] = "memory_run_summary_source_idx"
BY DEF Script, RunIndexes, OutboxIndexes

LEMMA IndexesAre ==
  Indexes = {"rlm_runs_queue_idx", "rlm_runs_stale_worker_idx",
             "rlm_runs_tenant_lookup_idx", "rlm_events_run_created_idx",
             "rlm_summary_outbox_pending_idx", "memory_run_summary_source_idx"}
BY DEF Indexes, RunIndexes, OutboxIndexes, ToSet
-----------------------------------------------------------------------------
(* A row the old service wrote has a blank context only once it is         *)
(* finished, and after the validation no context is missing.               *)
RowsInv ==
  /\ runs \in [Runs -> Row]
  /\ \A r \in Runs :
       runs[r].corpus_ref # "null" /\ runs[r].status \in Unfinished
         => runs[r].context # "blank"
  /\ check = "valid" => \A r \in Runs : runs[r].context # "null"

ConstraintInv ==
  /\ check \in Constraint
  /\ notnull \in BOOLEAN
  /\ notnull => check = "valid"
  /\ at > 4 => check # "none"
  /\ at > 5 => check = "valid"
  /\ at > 6 => notnull
  /\ finished => notnull

OutboxInv ==
  /\ outbox \in Outbox
  /\ outbox.table = "none" => outbox.embedding = "none"
  /\ outbox.check = "valid" \/ outbox.notnull => outbox.embedding # "null"
  /\ at > 16 => outbox.check = "valid"
  /\ at > 17 => outbox.notnull
  /\ finished => outbox.check = "valid" /\ outbox.notnull

(* Past drop_invalid an index that is invalid is the one being built. *)
IndexInv ==
  /\ index \in [Indexes -> {"none", "invalid", "valid"}]
  /\ building => /\ at \in 1..19 /\ Script[at] \in Indexes
                 /\ index[Script[at]] = "invalid"
  /\ at > 7 => \A i \in Indexes : index[i] = "invalid" => building /\ i = Script[at]
  /\ \A k \in 1..19 : at > k /\ Script[k] \in Indexes => index[Script[k]] = "valid"
  /\ finished => \A i \in Indexes : index[i] = "valid"

SessionInv ==
  /\ at \in 0..20
  /\ building \in BOOLEAN
  /\ finished \in BOOLEAN
  /\ aborts \in 0..MaxAborts
  /\ reruns \in 0..MaxReruns

MigrationInv == RowsInv /\ ConstraintInv /\ OutboxInv /\ IndexInv /\ SessionInv
-----------------------------------------------------------------------------
(* An UPDATE changes the rows it matches, and no others. *)
LEMMA UpdateChanges ==
  ASSUME NEW matched, matched \subseteq Runs, NEW row, NEW statement,
         runs \in [Runs -> Row],
         Update(statement, [r \in matched |-> row[r]])
  PROVE  /\ runs' = [r \in Runs |-> IF r \in matched THEN row[r] ELSE runs[r]]
         /\ UNCHANGED schema
         /\ Executing(statement) /\ Advance
BY DEF Update

LEMMA PresentIsPart == Present \subseteq Runs
BY DEF Present

(* The rows after each of the three UPDATEs. *)
LEMMA RecoverContextRows ==
  ASSUME RowsInv, RecoverContext
  PROVE  /\ runs' \in [Runs -> Row]
         /\ \A r \in Runs :
            \/ runs'[r] = runs[r]
            \/ /\ NoContext(runs[r]) /\ runs[r].corpus_ref = "text"
               /\ runs'[r] = [runs[r] EXCEPT !.context = "text"]
<1> DEFINE matched == {x \in Present : NoContext(runs[x]) /\ runs[x].corpus_ref = "text"}
           row == [x \in matched |-> [runs[x] EXCEPT !.context = "text"]]
<1>1. matched \subseteq Runs
  BY PresentIsPart
<1>2. Update("recover_context", [x \in matched |-> row[x]])
  BY DEF RecoverContext
<1>3. \A x \in matched : /\ NoContext(runs[x]) /\ runs[x].corpus_ref = "text"
                         /\ row[x] = [runs[x] EXCEPT !.context = "text"]
  OBVIOUS
<1> HIDE DEF matched, row
<1>4. runs \in [Runs -> Row]
  BY DEF RowsInv
<1>5. runs' = [x \in Runs |-> IF x \in matched THEN row[x] ELSE runs[x]]
  BY <1>1, <1>2, <1>4, UpdateChanges
<1>6. ASSUME NEW x \in matched PROVE row[x] \in Row
  <2>1. runs[x] \in Row
    BY <1>1, <1>4
  <2> QED
    BY <1>3, <2>1 DEF Row, Context, Unfinished
<1>7. ASSUME NEW r \in matched PROVE runs'[r] = row[r]
  BY <1>1, <1>5
<1>8. ASSUME NEW r \in Runs \ matched PROVE runs'[r] = runs[r]
  BY <1>5
<1>9. runs' \in [Runs -> Row]
  BY <1>4, <1>5, <1>6
<1> QED
  BY <1>3, <1>7, <1>8, <1>9, Zenon

LEMMA FailLostRows ==
  ASSUME RowsInv, FailLost
  PROVE  /\ runs' \in [Runs -> Row]
         /\ \A r \in Runs :
            \/ runs'[r] = runs[r]
            \/ /\ Lost(runs[r])
               /\ runs'[r] = [runs[r] EXCEPT !.status = "failed",
                                 !.error = "migration_missing_context"]
<1> DEFINE matched == {x \in Present : Lost(runs[x])}
           row == [x \in matched |-> [runs[x] EXCEPT !.status = "failed",
                                         !.error = "migration_missing_context"]]
<1>1. matched \subseteq Runs
  BY PresentIsPart
<1>2. Update("fail_lost", [x \in matched |-> row[x]])
  BY DEF FailLost
<1>3. \A x \in matched : /\ Lost(runs[x])
                         /\ row[x] = [runs[x] EXCEPT !.status = "failed",
                                         !.error = "migration_missing_context"]
  OBVIOUS
<1> HIDE DEF matched, row
<1>4. runs \in [Runs -> Row]
  BY DEF RowsInv
<1>5. runs' = [x \in Runs |-> IF x \in matched THEN row[x] ELSE runs[x]]
  BY <1>1, <1>2, <1>4, UpdateChanges
<1>6. ASSUME NEW x \in matched PROVE row[x] \in Row
  <2>1. runs[x] \in Row
    BY <1>1, <1>4
  <2> QED
    BY <1>3, <2>1 DEF Row, Context, Unfinished
<1>7. ASSUME NEW r \in matched PROVE runs'[r] = row[r]
  BY <1>1, <1>5
<1>8. ASSUME NEW r \in Runs \ matched PROVE runs'[r] = runs[r]
  BY <1>5
<1>9. runs' \in [Runs -> Row]
  BY <1>4, <1>5, <1>6
<1> QED
  BY <1>3, <1>7, <1>8, <1>9, Zenon

LEMMA BlankFinishedRows ==
  ASSUME RowsInv, BlankFinished
  PROVE  /\ runs' \in [Runs -> Row]
         /\ \A r \in Runs :
            \/ runs'[r] = runs[r]
            \/ /\ Historical(runs[r])
               /\ runs'[r] = [runs[r] EXCEPT !.context = "blank"]
<1> DEFINE matched == {x \in Present : Historical(runs[x])}
           row == [x \in matched |-> [runs[x] EXCEPT !.context = "blank"]]
<1>1. matched \subseteq Runs
  BY PresentIsPart
<1>2. Update("blank_finished", [x \in matched |-> row[x]])
  BY DEF BlankFinished
<1>3. \A x \in matched : /\ Historical(runs[x])
                         /\ row[x] = [runs[x] EXCEPT !.context = "blank"]
  OBVIOUS
<1> HIDE DEF matched, row
<1>4. runs \in [Runs -> Row]
  BY DEF RowsInv
<1>5. runs' = [x \in Runs |-> IF x \in matched THEN row[x] ELSE runs[x]]
  BY <1>1, <1>2, <1>4, UpdateChanges
<1>6. ASSUME NEW x \in matched PROVE row[x] \in Row
  <2>1. runs[x] \in Row
    BY <1>1, <1>4
  <2> QED
    BY <1>3, <2>1 DEF Row, Context, Unfinished
<1>7. ASSUME NEW r \in matched PROVE runs'[r] = row[r]
  BY <1>1, <1>5
<1>8. ASSUME NEW r \in Runs \ matched PROVE runs'[r] = runs[r]
  BY <1>5
<1>9. runs' \in [Runs -> Row]
  BY <1>4, <1>5, <1>6
<1> QED
  BY <1>3, <1>7, <1>8, <1>9, Zenon

(* Every other statement leaves the rows alone. *)
LEMMA StatementRows ==
  ASSUME Statement
  PROVE  RecoverContext \/ FailLost \/ BlankFinished \/ UNCHANGED runs
BY DEF Statement, AddCheck, Validate, SetNotNull, DropInvalid, SkipIndex,
       BeginIndex, EndIndex, CreateOutbox, AddOutboxColumns, FillOutbox,
       AddOutboxCheck, ValidateOutbox, SetOutboxNotNull, AlterOutbox
-----------------------------------------------------------------------------
(* The rows, under every step. *)
LEMMA RowsNext ==
  ASSUME RowsInv, ConstraintInv, [MigrationNext]_mvars
  PROVE  RowsInv'
<1> USE DEF Row, Context, Unfinished
<1>1. CASE RecoverContext
  <2>1. UNCHANGED check
    BY <1>1 DEF RecoverContext, Update, schema
  <2>2. runs' \in [Runs -> Row]
    BY <1>1, RecoverContextRows DEF RowsInv
  <2>3. ASSUME NEW r \in Runs
        PROVE  /\ runs'[r].corpus_ref = runs[r].corpus_ref
               /\ runs'[r].status \in Unfinished =>
                    runs[r].status \in Unfinished
               /\ runs'[r].context = "blank" /\ runs'[r].status \in Unfinished =>
                    runs[r].context = "blank"
               /\ runs'[r].context = "null" => runs[r].context = "null"
    <3>1. runs[r] \in Row
      BY DEF RowsInv
    <3>2. \/ runs'[r] = runs[r]
          \/ /\ NoContext(runs[r]) /\ runs[r].corpus_ref = "text"
               /\ runs'[r] = [runs[r] EXCEPT !.context = "text"]
      BY <1>1, RecoverContextRows, Zenon
    <3> QED
      BY <3>1, <3>2 DEF NoContext
  <2> QED
    BY <2>1, <2>2, <2>3 DEF RowsInv
<1>2. CASE FailLost
  <2>1. UNCHANGED check
    BY <1>2 DEF FailLost, Update, schema
  <2>2. runs' \in [Runs -> Row]
    BY <1>2, FailLostRows DEF RowsInv
  <2>3. ASSUME NEW r \in Runs
        PROVE  /\ runs'[r].corpus_ref = runs[r].corpus_ref
               /\ runs'[r].status \in Unfinished =>
                    runs[r].status \in Unfinished
               /\ runs'[r].context = "blank" /\ runs'[r].status \in Unfinished =>
                    runs[r].context = "blank"
               /\ runs'[r].context = "null" => runs[r].context = "null"
    <3>1. runs[r] \in Row
      BY DEF RowsInv
    <3>2. \/ runs'[r] = runs[r]
          \/ /\ Lost(runs[r])
               /\ runs'[r] = [runs[r] EXCEPT !.status = "failed",
                                 !.error = "migration_missing_context"]
      BY <1>2, FailLostRows, Zenon
    <3> QED
      BY <3>1, <3>2 DEF Lost
  <2> QED
    BY <2>1, <2>2, <2>3 DEF RowsInv
<1>3. CASE BlankFinished
  <2>1. UNCHANGED check
    BY <1>3 DEF BlankFinished, Update, schema
  <2>2. runs' \in [Runs -> Row]
    BY <1>3, BlankFinishedRows DEF RowsInv
  <2>3. ASSUME NEW r \in Runs
        PROVE  /\ runs'[r].corpus_ref = runs[r].corpus_ref
               /\ runs'[r].status \in Unfinished =>
                    runs[r].status \in Unfinished
               /\ runs'[r].context = "blank" /\ runs'[r].status \in Unfinished =>
                    runs[r].context = "blank"
               /\ runs'[r].context = "null" => runs[r].context = "null"
    <3>1. runs[r] \in Row
      BY DEF RowsInv
    <3>2. \/ runs'[r] = runs[r]
          \/ /\ Historical(runs[r])
               /\ runs'[r] = [runs[r] EXCEPT !.context = "blank"]
      BY <1>3, BlankFinishedRows, Zenon
    <3> QED
      BY <3>1, <3>2 DEF Historical
  <2> QED
    BY <2>1, <2>2, <2>3 DEF RowsInv
<1>4. CASE AddCheck
  BY <1>4 DEF AddCheck, RowsInv
<1>5. CASE Validate
  BY <1>5 DEF Validate, NullContexts, RowsInv
<1>6. CASE UNCHANGED <<runs, check>>
  BY <1>6 DEF RowsInv
<1>7. ASSUME NEW r \in Runs, NEW corpus \in {"blank", "text"}, OldInsert(r, corpus)
      PROVE  RowsInv'
  BY <1>7 DEF OldInsert, RowsInv, schema
<1>8. ASSUME NEW r \in Runs, OldFinish(r) \/ EndAttempt(r)
      PROVE  RowsInv'
  BY <1>8 DEF OldFinish, EndAttempt, RowsInv, schema
<1>9. ASSUME NEW r \in Runs, NEW context \in {"blank", "text"}, Enqueue(r, context)
      PROVE  RowsInv'
  BY <1>9 DEF Enqueue, RowsInv, schema
<1>10. ASSUME NEW r \in Runs, Claim(r)
       PROVE  RowsInv'
  <2> DEFINE status == IF NoContext(runs[r]) THEN "failed" ELSE "running"
             error == IF NoContext(runs[r]) THEN "other" ELSE runs[r].error
             row == [runs[r] EXCEPT !.status = status, !.error = error]
  <2>1. UNCHANGED check
    BY <1>10 DEF Claim, schema
  <2>2. runs[r] \in Row /\ runs[r].status = "queued"
    BY <1>10 DEF Claim, RowsInv
  <2>3. runs' = [runs EXCEPT ![r] = row]
    BY <1>10, <2>2 DEF Claim, Row, Unfinished
  <2>4. /\ row \in Row
        /\ row.corpus_ref = runs[r].corpus_ref /\ row.context = runs[r].context
    BY <2>2 DEF Row, Unfinished
  <2> HIDE DEF row
  <2>5. \A x \in Runs : x # r => runs'[x] = runs[x]
    BY <2>3 DEF RowsInv
  <2>6. runs' \in [Runs -> Row] /\ runs'[r] = row
    BY <2>3, <2>4 DEF RowsInv
  <2> QED
    BY <2>1, <2>2, <2>4, <2>5, <2>6 DEF RowsInv, Unfinished
<1>11. CASE Client
  BY <1>6, <1>7, <1>8, <1>9, <1>10, <1>11 DEF Client, OldProduce
<1>12. CASE Statement
  <2>1. RecoverContext \/ FailLost \/ BlankFinished \/ AddCheck \/ Validate
        \/ UNCHANGED <<runs, check>>
    BY <1>12 DEF Statement, SetNotNull, DropInvalid, SkipIndex, BeginIndex, EndIndex,
         CreateOutbox, AddOutboxColumns, FillOutbox, AddOutboxCheck,
         ValidateOutbox, SetOutboxNotNull, AlterOutbox, schema
  <2> QED
    BY <1>1, <1>2, <1>3, <1>4, <1>5, <1>6, <2>1
<1>13. CASE Start \/ Finish \/ Abort \/ UNCHANGED mvars
  BY <1>6, <1>13 DEF Start, Finish, Abort, mvars, schema
<1> QED
  BY <1>11, <1>12, <1>13 DEF MigrationNext
-----------------------------------------------------------------------------
(* Where a session is that executes a statement. *)
LEMMA Places ==
  /\ Executing("recover_context") => at = 1
  /\ Executing("fail_lost") => at = 2
  /\ Executing("blank_finished") => at = 3
  /\ Executing("add_check") => at = 4
  /\ Executing("validate") => at = 5
  /\ Executing("set_not_null") => at = 6
  /\ Executing("drop_invalid") => at = 7
  /\ Executing("outbox_table") => at = 12
  /\ Executing("outbox_columns") => at = 13
  /\ Executing("outbox_fill") => at = 14
  /\ Executing("outbox_check") => at = 15
  /\ Executing("outbox_validate") => at = 16
  /\ Executing("outbox_not_null") => at = 17
  /\ \A i \in Indexes : Executing(i) => at \in 8..11 \cup 18..19 /\ Script[at] = i
BY ScriptIs, IndexesAre DEF Executing

(* What the UPDATEs leave alone. *)
LEMMA UpdatesRun ==
  ASSUME RecoverContext \/ FailLost \/ BlankFinished
  PROVE  /\ Executing("recover_context") \/ Executing("fail_lost")
              \/ Executing("blank_finished")
         /\ UNCHANGED <<check, notnull, index, outbox>>
         /\ Advance
<1>1. CASE RecoverContext
  BY <1>1 DEF RecoverContext, Update, schema
<1>2. CASE FailLost
  BY <1>2 DEF FailLost, Update, schema
<1>3. CASE BlankFinished
  BY <1>3 DEF BlankFinished, Update, schema
<1> QED
  BY <1>1, <1>2, <1>3

(* The statements on the context column are the ones of three places. *)
LEMMA ConstraintPlaces ==
  ASSUME Statement
  PROVE  \/ AddCheck \/ Validate \/ SetNotNull
         \/ /\ UNCHANGED <<check, notnull, finished>>
            /\ at \in (1..3) \cup (7..19)
            /\ at' \in {0, at, at + 1}
<1> USE DEF Advance, schema
<1>1. CASE RecoverContext \/ FailLost \/ BlankFinished
  BY <1>1, UpdatesRun, Places
<1>2. CASE DropInvalid
  BY <1>2, Places DEF DropInvalid, session
<1>3. ASSUME NEW i \in Indexes, SkipIndex(i) \/ BeginIndex(i) \/ EndIndex(i)
      PROVE  /\ UNCHANGED <<check, notnull, finished>>
             /\ at \in (1..3) \cup (7..19)
             /\ at' \in {0, at, at + 1}
  BY <1>3, Places DEF SkipIndex, BeginIndex, EndIndex
<1>4. CASE CreateOutbox \/ AddOutboxColumns \/ FillOutbox \/ AddOutboxCheck
           \/ SetOutboxNotNull
  BY <1>4, Places DEF CreateOutbox, AddOutboxColumns, FillOutbox, AddOutboxCheck,
                      SetOutboxNotNull, AlterOutbox
<1>5. CASE ValidateOutbox
  BY <1>5, Places DEF ValidateOutbox, Stop
<1> QED
  BY <1>1, <1>2, <1>3, <1>4, <1>5 DEF Statement

(* No client touches the schema, but for the old worker's outbox rows. *)
LEMMA ClientChanges ==
  ASSUME Client
  PROVE  /\ UNCHANGED <<check, notnull, index, at, building, finished, aborts, reruns>>
         /\ OldProduce \/ UNCHANGED outbox
BY DEF Client, OldProduce, OldInsert, OldFinish, Enqueue, Claim, EndAttempt,
       schema, session

LEMMA StutterChanges ==
  ASSUME UNCHANGED mvars
  PROVE  UNCHANGED <<runs, check, notnull, index, outbox,
                     at, building, finished, aborts, reruns>>
BY DEF mvars, schema, session

LEMMA SessionNext ==
  ASSUME MigrationInv, [MigrationNext]_mvars
  PROVE  SessionInv'
<1>0. SessionInv
  BY DEF MigrationInv
<1>1. CASE Start
  BY <1>0, <1>1, MigrationAssumption DEF Start, SessionInv
<1>2. CASE Abort
  <2>1. at' \in 0..20 /\ aborts' \in 0..MaxAborts /\ UNCHANGED reruns
    BY <1>0, <1>2, MigrationAssumption DEF Abort, SessionInv
  <2>2. building' \in BOOLEAN /\ UNCHANGED finished
    BY <1>2 DEF Abort
  <2> QED
    BY <1>0, <2>1, <2>2 DEF SessionInv
<1>3. CASE Finish
  BY <1>0, <1>3 DEF Finish, SessionInv
<1>4. CASE Client \/ UNCHANGED mvars
  <2>1. UNCHANGED <<at, building, finished, aborts, reruns>>
    BY <1>4, ClientChanges, StutterChanges
  <2> QED
    BY <1>0, <2>1 DEF SessionInv
<1>5. CASE Statement
  <2>1. /\ UNCHANGED <<finished, aborts, reruns>>
        /\ building' \in {building, TRUE, FALSE}
    <3>1. CASE RecoverContext \/ FailLost \/ BlankFinished
      BY <3>1, UpdatesRun DEF Advance
    <3>2. CASE AddCheck \/ Validate \/ SetNotNull \/ DropInvalid
      BY <3>2 DEF AddCheck, Validate, SetNotNull, DropInvalid, Advance, Stop, session
    <3>3. ASSUME NEW i \in Indexes, SkipIndex(i) \/ BeginIndex(i) \/ EndIndex(i)
          PROVE  /\ UNCHANGED <<finished, aborts, reruns>>
                 /\ building' \in {building, TRUE, FALSE}
      BY <3>3 DEF SkipIndex, BeginIndex, EndIndex, Advance
    <3>4. CASE CreateOutbox \/ AddOutboxColumns \/ FillOutbox \/ AddOutboxCheck
               \/ ValidateOutbox \/ SetOutboxNotNull
      BY <3>4 DEF CreateOutbox, AddOutboxColumns, FillOutbox, AddOutboxCheck,
                  ValidateOutbox, SetOutboxNotNull, AlterOutbox, Advance, Stop
    <3> QED
      BY <1>5, <3>1, <3>2, <3>3, <3>4 DEF Statement
  <2>2. at' \in 0..20
    <3>1. CASE AddCheck \/ Validate \/ SetNotNull
      BY <3>1, Places DEF AddCheck, Validate, SetNotNull, Advance, Stop
    <3>2. CASE at \in (1..3) \cup (7..19) /\ at' \in {0, at, at + 1}
      BY <3>2
    <3> QED
      BY <1>5, <3>1, <3>2, ConstraintPlaces
  <2> QED
    BY <1>0, <2>1, <2>2 DEF SessionInv
<1> QED
  BY <1>1, <1>2, <1>3, <1>4, <1>5 DEF MigrationNext

LEMMA ConstraintNext ==
  ASSUME MigrationInv, [MigrationNext]_mvars
  PROVE  ConstraintInv'
<1> USE DEF MigrationInv, ConstraintInv, SessionInv, Constraint
<1>1. CASE Start
  BY <1>1 DEF Start, schema
<1>2. CASE Abort
  BY <1>2 DEF Abort, schema
<1>3. CASE Finish
  BY <1>3, ScriptIs DEF Finish, schema
<1>4. CASE Client \/ UNCHANGED mvars
  <2>1. UNCHANGED <<check, notnull, at, finished>>
    BY <1>4, ClientChanges, StutterChanges
  <2> QED
    BY <2>1
<1>5. CASE AddCheck
  BY <1>5, Places DEF AddCheck, Advance
<1>6. CASE Validate
  BY <1>6, Places DEF Validate, Advance, Stop
<1>7. CASE SetNotNull
  BY <1>7, Places DEF SetNotNull, Advance
<1>8. CASE Statement
  BY <1>5, <1>6, <1>7, <1>8, ConstraintPlaces
<1> QED
  BY <1>1, <1>2, <1>3, <1>4, <1>8 DEF MigrationNext
-----------------------------------------------------------------------------
(* The statements on the outbox stand between the two kinds of indexes. *)
LEMMA OutboxPlaces ==
  ASSUME Statement
  PROVE  \/ CreateOutbox \/ AddOutboxColumns \/ FillOutbox
         \/ AddOutboxCheck \/ ValidateOutbox \/ SetOutboxNotNull
         \/ /\ UNCHANGED <<outbox, finished>>
            /\ at \in (1..11) \cup (18..19)
            /\ at' \in {0, at, at + 1}
<1>1. CASE RecoverContext \/ FailLost \/ BlankFinished
  BY <1>1, UpdatesRun, Places DEF Advance
<1>2. CASE AddCheck \/ Validate \/ SetNotNull \/ DropInvalid
  BY <1>2, Places DEF AddCheck, Validate, SetNotNull, DropInvalid, Advance, Stop, session
<1>3. ASSUME NEW i \in Indexes, SkipIndex(i) \/ BeginIndex(i) \/ EndIndex(i)
      PROVE  /\ UNCHANGED <<outbox, finished>>
             /\ at \in (1..11) \cup (18..19)
             /\ at' \in {0, at, at + 1}
  BY <1>3, Places DEF SkipIndex, BeginIndex, EndIndex, Advance, schema
<1> QED
  BY <1>1, <1>2, <1>3 DEF Statement

LEMMA OutboxNext ==
  ASSUME MigrationInv, [MigrationNext]_mvars
  PROVE  OutboxInv'
<1>0. OutboxInv /\ SessionInv
  BY DEF MigrationInv
<1>1. CASE Start \/ Abort
  BY <1>0, <1>1 DEF Start, Abort, schema, OutboxInv
<1>2. CASE Finish
  BY <1>0, <1>2, ScriptIs DEF Finish, schema, OutboxInv
<1>3. CASE UNCHANGED <<outbox, at, finished>>
  BY <1>0, <1>3 DEF OutboxInv
<1>4. CASE OldProduce
  BY <1>0, <1>4, OutboxInv DEF OldProduce, OutboxInv, Outbox, session
<1>5. CASE CreateOutbox
  <2>1. at = 12 /\ at' = 13 /\ UNCHANGED finished
    BY <1>5, Places DEF CreateOutbox, AlterOutbox, Advance
  <2>2. outbox' = IF outbox.table = "none"
                  THEN [outbox EXCEPT !.table = "new", !.notnull = TRUE] ELSE outbox
    BY <1>5 DEF CreateOutbox, AlterOutbox
  <2>3. outbox \in Outbox /\ (outbox.table = "none" => outbox.embedding = "none")
    BY <1>0 DEF OutboxInv
  <2>4. CASE outbox.table = "none"
    <3>1. /\ outbox' \in Outbox /\ outbox'.notnull /\ outbox'.table = "new"
          /\ outbox'.check = outbox.check /\ outbox'.embedding = "none"
      BY <2>2, <2>3, <2>4 DEF Outbox
    <3> QED
      BY <1>0, <2>1, <3>1 DEF OutboxInv
  <2>5. CASE outbox.table # "none"
    BY <1>0, <2>1, <2>2, <2>5 DEF OutboxInv
  <2> QED
    BY <2>4, <2>5
<1>6. CASE AddOutboxColumns
  <2>1. at = 13 /\ at' = 14 /\ UNCHANGED finished
    BY <1>6, Places DEF AddOutboxColumns, AlterOutbox, Advance
  <2>2. outbox' = IF outbox.table = "old" THEN [outbox EXCEPT !.table = "new"]
                                          ELSE outbox
    BY <1>6 DEF AddOutboxColumns, AlterOutbox
  <2> QED
    BY <1>0, <2>1, <2>2 DEF OutboxInv, Outbox
<1>7. CASE FillOutbox
  <2>1. at = 14 /\ at' = 15 /\ UNCHANGED finished
    BY <1>7, Places DEF FillOutbox, AlterOutbox, Advance
  <2>2. outbox' = IF outbox.embedding = "null" THEN [outbox EXCEPT !.embedding = "set"]
                                               ELSE outbox
    BY <1>7 DEF FillOutbox, AlterOutbox
  <2> QED
    BY <1>0, <2>1, <2>2 DEF OutboxInv, Outbox
<1>8. CASE AddOutboxCheck
  <2>1. at = 15 /\ at' = 16 /\ UNCHANGED finished
    BY <1>8, Places DEF AddOutboxCheck, AlterOutbox, Advance
  <2>2. outbox' = IF outbox.check = "none" THEN [outbox EXCEPT !.check = "not_valid"]
                                           ELSE outbox
    BY <1>8 DEF AddOutboxCheck, AlterOutbox
  <2> QED
    BY <1>0, <2>1, <2>2 DEF OutboxInv, Outbox, Constraint
<1>9. CASE ValidateOutbox
  <2>1. at = 16 /\ at' \in {0, 17} /\ UNCHANGED finished
    BY <1>9, Places DEF ValidateOutbox, Advance, Stop
  <2>2. \/ /\ outbox.embedding # "null"
           /\ outbox' = [outbox EXCEPT !.check = "valid"]
        \/ outbox' = outbox /\ at' = 0
    BY <1>9 DEF ValidateOutbox, Stop
  <2> QED
    BY <1>0, <2>1, <2>2 DEF OutboxInv, Outbox, Constraint
<1>10. CASE SetOutboxNotNull
  <2>1. at = 17 /\ at' = 18 /\ UNCHANGED finished
    BY <1>10, Places DEF SetOutboxNotNull, AlterOutbox, Advance
  <2>2. outbox' = [outbox EXCEPT !.notnull = TRUE]
    BY <1>10 DEF SetOutboxNotNull, AlterOutbox
  <2>3. outbox \in Outbox /\ outbox.check = "valid" /\ outbox.embedding # "null"
    BY <1>0, <2>1 DEF OutboxInv
  <2>4. /\ outbox' \in Outbox /\ outbox'.notnull
        /\ outbox'.table = outbox.table /\ outbox'.check = outbox.check
        /\ outbox'.embedding = outbox.embedding
    BY <2>2, <2>3 DEF Outbox
  <2> QED
    BY <1>0, <2>1, <2>3, <2>4 DEF OutboxInv
<1>11. CASE Statement
  <2>1. CASE /\ UNCHANGED <<outbox, finished>>
             /\ at \in (1..11) \cup (18..19)
             /\ at' \in {0, at, at + 1}
    BY <1>0, <2>1 DEF OutboxInv
  <2> QED
    BY <1>5, <1>6, <1>7, <1>8, <1>9, <1>10, <1>11, <2>1, OutboxPlaces
<1>12. CASE Client \/ UNCHANGED mvars
  BY <1>3, <1>4, <1>12, ClientChanges, StutterChanges
<1> QED
  BY <1>1, <1>2, <1>11, <1>12 DEF MigrationNext
-----------------------------------------------------------------------------
(* The statements on indexes, and the others. *)
LEMMA IndexPlaces ==
  ASSUME Statement
  PROVE  \/ DropInvalid
         \/ \E i \in Indexes : SkipIndex(i) \/ BeginIndex(i) \/ EndIndex(i)
         \/ /\ UNCHANGED <<index, building, finished>>
            /\ at \in (1..6) \cup (12..17)
            /\ at' \in {0, at + 1}
<1>1. CASE RecoverContext \/ FailLost \/ BlankFinished
  BY <1>1, UpdatesRun, Places DEF Advance
<1>2. CASE AddCheck \/ Validate \/ SetNotNull
  BY <1>2, Places DEF AddCheck, Validate, SetNotNull, Advance, Stop
<1>3. CASE CreateOutbox \/ AddOutboxColumns \/ FillOutbox \/ AddOutboxCheck
           \/ SetOutboxNotNull
  BY <1>3, Places DEF CreateOutbox, AddOutboxColumns, FillOutbox, AddOutboxCheck,
                      SetOutboxNotNull, AlterOutbox, Advance
<1>4. CASE ValidateOutbox
  BY <1>4, Places DEF ValidateOutbox, Advance, Stop
<1> QED
  BY <1>1, <1>2, <1>3, <1>4 DEF Statement

LEMMA IndexNext ==
  ASSUME MigrationInv, [MigrationNext]_mvars
  PROVE  IndexInv'
<1>0. IndexInv /\ SessionInv
  BY DEF MigrationInv
<1>1. CASE Start \/ Abort
  BY <1>0, <1>1 DEF Start, Abort, schema, IndexInv, SessionInv
<1>2. CASE Finish
  <2>1. at = 20 /\ at' = 0 /\ UNCHANGED <<index, building>>
    BY <1>2, ScriptIs DEF Finish, schema
  <2>2. \A i \in Indexes : index[i] = "valid"
    BY <1>0, <2>1, ScriptIs, IndexesAre DEF IndexInv
  <2> QED
    BY <1>0, <2>1, <2>2 DEF IndexInv
<1>3. CASE UNCHANGED <<index, building, at, finished>>
  BY <1>0, <1>3 DEF IndexInv
<1>4. CASE DropInvalid
  <2>1. at = 7 /\ UNCHANGED <<building, finished>>
    BY <1>4, Places DEF DropInvalid, Advance, session
  <2>2. ~building /\ Script[7] \notin Indexes
    BY <1>0, <2>1, ScriptIs, IndexesAre DEF IndexInv
  <2>3. CASE \E i \in InvalidIndexes :
               index' = [index EXCEPT ![i] = "none"] /\ at' = 7
    BY <1>0, <2>1, <2>2, <2>3, ScriptIs, IndexesAre DEF IndexInv, InvalidIndexes
  <2>4. CASE InvalidIndexes = {} /\ at' = 8 /\ UNCHANGED index
    BY <1>0, <2>1, <2>2, <2>4, ScriptIs, IndexesAre DEF IndexInv, InvalidIndexes
  <2> QED
    BY <1>4, <2>1, <2>3, <2>4 DEF DropInvalid, Advance, session
<1>5. ASSUME NEW i \in Indexes, SkipIndex(i)
      PROVE  IndexInv'
  <2>1. /\ at \in 8..11 \cup 18..19 /\ Script[at] = i
        /\ ~building /\ index[i] # "none"
        /\ at' = at + 1 /\ UNCHANGED <<index, building, finished>>
    BY <1>5, Places DEF SkipIndex, Advance, schema
  <2>2. \A k \in Indexes : index[k] # "invalid"
    BY <1>0, <2>1 DEF IndexInv
  <2>3. index[i] = "valid"
    BY <1>0, <2>1, <2>2 DEF IndexInv
  <2>4. \A k \in 1..19 : at + 1 > k => k = at \/ at > k
    BY <2>1
  <2> QED
    BY <1>0, <2>1, <2>2, <2>3, <2>4 DEF IndexInv
<1>6. ASSUME NEW i \in Indexes, BeginIndex(i)
      PROVE  IndexInv'
  <2>1. /\ at \in 8..11 \cup 18..19 /\ Script[at] = i
        /\ ~building /\ index[i] = "none"
        /\ building' /\ index' = [index EXCEPT ![i] = "invalid"]
        /\ UNCHANGED <<at, finished>>
    BY <1>6, Places DEF BeginIndex
  <2>2. ~finished
    BY <1>0, <2>1 DEF IndexInv
  <2>3. \A k \in 1..19 : at > k => Script[k] # i
    BY <1>0, <2>1 DEF IndexInv
  <2>4. index' \in [Indexes -> {"none", "invalid", "valid"}]
        /\ index'[i] = "invalid"
        /\ \A k \in Indexes \ {i} : index'[k] = index[k]
    BY <1>0, <2>1 DEF IndexInv
  <2>5. \A k \in Indexes : index'[k] = "invalid" => k = i
    BY <1>0, <2>1, <2>4 DEF IndexInv
  <2>6. \A k \in 1..19 : at > k /\ Script[k] \in Indexes => index'[Script[k]] = "valid"
    BY <1>0, <2>3, <2>4 DEF IndexInv
  <2>7. at \in 1..19
    BY <2>1
  <2> QED
    BY <2>1, <2>2, <2>4, <2>5, <2>6, <2>7 DEF IndexInv
<1>7. ASSUME NEW i \in Indexes, EndIndex(i)
      PROVE  IndexInv'
  <2>1. /\ at \in 8..11 \cup 18..19 /\ Script[at] = i
        /\ ~building' /\ index' = [index EXCEPT ![i] = "valid"]
        /\ at' = at + 1 /\ UNCHANGED finished
    BY <1>7, Places DEF EndIndex
  <2>2. index' \in [Indexes -> {"none", "invalid", "valid"}]
        /\ index'[i] = "valid"
        /\ \A k \in Indexes \ {i} : index'[k] = index[k]
    BY <1>0, <2>1 DEF IndexInv
  <2>3. \A k \in Indexes : index'[k] # "invalid"
    BY <1>0, <2>1, <2>2 DEF IndexInv
  <2>4. ASSUME NEW k \in 1..19, at + 1 > k, Script[k] \in Indexes
        PROVE  index'[Script[k]] = "valid"
    <3>1. k = at \/ at > k
      BY <2>1, <2>4
    <3> QED
      BY <1>0, <2>1, <2>2, <2>4, <3>1 DEF IndexInv
  <2>5. finished => \A k \in Indexes : index'[k] = "valid"
    BY <1>0, <2>2 DEF IndexInv
  <2> QED
    BY <2>1, <2>2, <2>3, <2>4, <2>5 DEF IndexInv
<1>8. CASE Statement
  <2>1. CASE /\ UNCHANGED <<index, building, finished>>
             /\ at \in (1..6) \cup (12..17)
             /\ at' \in {0, at + 1}
    <3>1. Script[at] \notin Indexes
      BY <2>1, ScriptIs, IndexesAre
    <3>2. ~building
      BY <1>0, <3>1 DEF IndexInv
    <3>3. ASSUME NEW k \in 1..19, at' > k, Script[k] \in Indexes
          PROVE  index[Script[k]] = "valid"
      <4>1. at > k
        BY <2>1, <3>1, <3>3
      <4> QED
        BY <1>0, <3>3, <4>1 DEF IndexInv
    <3>4. at' > 7 => at > 7
      BY <2>1
    <3> QED
      BY <1>0, <2>1, <3>2, <3>3, <3>4 DEF IndexInv
  <2> QED
    BY <1>4, <1>5, <1>6, <1>7, <1>8, <2>1, IndexPlaces
<1>9. CASE Client \/ UNCHANGED mvars
  BY <1>3, <1>9, ClientChanges, StutterChanges
<1> QED
  BY <1>1, <1>2, <1>8, <1>9 DEF MigrationNext
-----------------------------------------------------------------------------
LEMMA MigrationInvInit == MigrationInit => MigrationInv
<1> SUFFICES ASSUME MigrationInit PROVE MigrationInv
  OBVIOUS
<1>0. /\ ~notnull /\ notnull \in BOOLEAN
      /\ ~building /\ building \in BOOLEAN
      /\ ~finished /\ finished \in BOOLEAN
  BY Zenon DEF MigrationInit
<1>1. RowsInv
  BY DEF MigrationInit, RowsInv, Row, Context, Unfinished
<1>2. ConstraintInv
  <2>1. at = 0 /\ check = "none"
    BY DEF MigrationInit
  <2> QED
    BY <1>0, <2>1 DEF ConstraintInv, Constraint
<1>3. OutboxInv
  <2>1. outbox \in {[table |-> "none", embedding |-> "none",
                    check |-> "none", notnull |-> FALSE],
                   [table |-> "old", embedding |-> "null",
                    check |-> "none", notnull |-> FALSE]}
    BY Zenon DEF MigrationInit
  <2>2. ~outbox.notnull
    BY <2>1
  <2>3. /\ outbox \in Outbox
        /\ outbox.check = "none"
        /\ outbox.table = "none" => outbox.embedding = "none"
    <3>1. CASE outbox = [table |-> "none", embedding |-> "none",
                         check |-> "none", notnull |-> FALSE]
      BY <3>1 DEF Outbox, Constraint
    <3>2. CASE outbox = [table |-> "old", embedding |-> "null",
                         check |-> "none", notnull |-> FALSE]
      BY <3>2 DEF Outbox, Constraint
    <3> QED
      BY <2>1, <3>1, <3>2
  <2>4. at = 0
    BY DEF MigrationInit
  <2> QED
    BY <1>0, <2>2, <2>3, <2>4 DEF OutboxInv
<1>4. IndexInv
  <2>1. at = 0 /\ index = [i \in Indexes |-> "none"]
    BY DEF MigrationInit
  <2> QED
    BY <1>0, <2>1 DEF IndexInv
<1>5. SessionInv
  <2>1. at = 0 /\ aborts = 0 /\ reruns = 0
    BY DEF MigrationInit
  <2> QED
    BY <1>0, <2>1, MigrationAssumption DEF SessionInv
<1> QED
  BY <1>1, <1>2, <1>3, <1>4, <1>5 DEF MigrationInv

(* What a session of migration 004 knows at each of its statements, while  *)
(* the services before and after it write.                                 *)
THEOREM MigrationInvariance == MigrationSpec => []MigrationInv
<1>1. MigrationInv /\ [MigrationNext]_mvars => MigrationInv'
  BY RowsNext, ConstraintNext, OutboxNext, IndexNext, SessionNext DEF MigrationInv
<1> QED
  BY <1>1, MigrationInvInit, PTL DEF MigrationSpec

(* Columns are NOT NULL only after the validation of their constraints.    *)
THEOREM MigrationTypes == MigrationSpec => []MigrationTypeOK
<1>1. MigrationInv => MigrationTypeOK
  BY ScriptIs DEF MigrationInv, RowsInv, ConstraintInv, OutboxInv, IndexInv,
                  SessionInv, MigrationTypeOK
<1> QED
  BY <1>1, MigrationInvariance, PTL

(* A migration that has come to its end has left a sound schema, and it    *)
(* stays sound, wherever sessions were cut off before and afterwards.      *)
THEOREM FinishedSchemaIsSound == MigrationSpec => []FinishedIsSound
<1>1. MigrationInv => FinishedIsSound
  <2> SUFFICES ASSUME MigrationInv, finished
               PROVE  /\ \A i \in Indexes : index[i] = "valid"
                      /\ check = "valid" /\ notnull
                      /\ outbox.check = "valid" /\ outbox.notnull
                      /\ \A r \in Runs :
                           runs[r].corpus_ref # "null" /\ runs[r].status \in Unfinished
                             => runs[r].context = "text"
    BY DEF FinishedIsSound
  <2>1. check = "valid" /\ notnull
    BY DEF MigrationInv, ConstraintInv
  <2>2. \A r \in Runs : runs[r].context \in {"null", "blank", "text"}
    BY DEF MigrationInv, RowsInv, Row, Context
  <2> QED
    BY <2>1, <2>2 DEF MigrationInv, RowsInv, OutboxInv, IndexInv
<1> QED
  BY <1>1, MigrationInvariance, PTL

(* "Safe to run repeatedly" (004:1): no statement changes a run that is    *)
(* finished but for its context, nor one that can be executed.             *)
THEOREM RerunIsHarmless == MigrationSpec => RerunLeavesWork
<1>1. MigrationInv /\ [MigrationNext]_mvars =>
        [Statement => \A r \in Runs :
           /\ runs[r].status \notin Unfinished => runs'[r].status = runs[r].status
           /\ runs[r].context = "text" => runs'[r] = runs[r]]_mvars
  <2> SUFFICES ASSUME MigrationInv, Statement, NEW r \in Runs
               PROVE  /\ runs[r].status \notin Unfinished =>
                           runs'[r].status = runs[r].status
                      /\ runs[r].context = "text" => runs'[r] = runs[r]
    OBVIOUS
  <2>1. RowsInv /\ runs[r] \in Row
    BY DEF MigrationInv, RowsInv
  <2>2. \/ runs'[r] = runs[r]
        \/ /\ NoContext(runs[r])
           /\ runs'[r] = [runs[r] EXCEPT !.context = "text"]
        \/ /\ Lost(runs[r])
           /\ runs'[r] = [runs[r] EXCEPT !.status = "failed",
                             !.error = "migration_missing_context"]
        \/ /\ Historical(runs[r])
           /\ runs'[r] = [runs[r] EXCEPT !.context = "blank"]
    BY <2>1, StatementRows, RecoverContextRows, FailLostRows, BlankFinishedRows, Zenon
  <2> QED
    BY <2>1, <2>2 DEF NoContext, Lost, Historical, Row
<1> QED
  BY <1>1, MigrationInvariance, PTL DEF MigrationSpec, RerunLeavesWork
=============================================================================
