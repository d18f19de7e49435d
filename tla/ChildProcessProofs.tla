------------------------- MODULE ChildProcessProofs -------------------------
(***************************************************************************)
(* The safety of one execution in a child process.                         *)
(*                                                                         *)
(* The argument.  The parent sees the child only through the pipe and      *)
(* is_alive, each at a moment of its own, and the child moves in between.  *)
(* What the parent has seen stays true because the child only goes on: its *)
(* exit is final and a message grows.  The invariant says what each place  *)
(* of the parent has seen (Seen), how the pipe follows the child (Piped)   *)
(* and that whoever is past close() has told a living child to end (Told). *)
(***************************************************************************)
EXTENDS ChildProcess, TLAPS

Places ==
  Waiting \cup {"start", "poll", "recv", "alive", "poll_again", "close",
                "still_alive", "over"}

Typed ==
  /\ pc \in Places
  /\ child \in Alive \cup {"none", "exited"}
  /\ pipe \in {"empty", "part", "full"}
  /\ payload \in {"none", "result", "error"}
  /\ signal \in {"none", "SIGTERM", "SIGKILL"}
  /\ cancelled \subseteq Sources

(* The pipe holds what the child has sent of its one message. *)
Piped ==
  /\ child \in {"none", "starting", "running"} => pipe = "empty"
  /\ child = "sending" => pipe = "part"
  /\ child = "sent" => pipe = "full"

(* What the parent has seen where it is. *)
Seen ==
  /\ child = "none" => pc \in {"recall", "start", "over"}
  /\ pc \in {"recall", "start"} => child = "none"
  /\ pc = "recv" => Readable
  /\ pc = "poll_again" => child = "exited"
  /\ pc # "over" => outcome = "none"
  /\ caught = "died" => child = "exited" /\ pipe # "full"
  /\ outcome = "died" => caught = "died"

(* After close() no child lives that was not told to end, and an execution *)
(* that was not interrupted has no living child at its end.                *)
Told ==
  /\ (pc \in {"join", "still_alive", "join_killed"} /\ child \in Alive) =>
       signal # "none"
  /\ (pc = "over" /\ child \in Alive) => interrupted /\ signal # "none"

ChildInv == Typed /\ Piped /\ Seen /\ Told
-----------------------------------------------------------------------------
LEMMA InitChildInv == ChildInit => ChildInv
BY DEF ChildInit, ChildInv, Typed, Places, Waiting, Alive, Sources, Piped, Seen,
       Told

(* What an execution ends with is not "died" unless its body was.          *)
LEMMA HowItEnds ==
  /\ \A sources : Raised(sources) \in {"timeout", "cancelled"}
  /\ Result = "died" => caught = "died"
BY DEF Raised, Result

(* The steps of the parent up to its clean-up. *)
LEMMA WaitingStep ==
  ASSUME ChildInv,
         \/ RecallReturns \/ RecallRaises \/ Start \/ Poll \/ CheckAlive
         \/ PollAgain \/ Receive \/ Wake
  PROVE  ChildInv'
<1> USE DEF ChildInv, Typed, Places, Waiting, Alive, Piped, Seen, Told, Readable,
            ChildVars, Ends
<1>1. CASE RecallReturns \/ RecallRaises \/ Start
  BY <1>1 DEF RecallReturns, RecallRaises, Start
<1>2. CASE Poll \/ Wake
  BY <1>2 DEF Poll, Wake
<1>3. CASE CheckAlive \/ PollAgain
  BY <1>3 DEF CheckAlive, PollAgain
<1>4. CASE Receive
  BY <1>4 DEF Receive, Ended
<1> QED
  BY <1>1, <1>2, <1>3, <1>4

(* The clean-up.  The child that Close finds alive is told to end, and     *)
(* only a child that is gone lets the parent go on to its end.             *)
LEMMA CleanUpStep ==
  ASSUME ChildInv, Close \/ Joined \/ Kill \/ JoinedKilled
  PROVE  ChildInv'
<1> USE DEF ChildInv, Typed, Places, Waiting, Alive, Piped, Seen, Told, Readable,
            ChildVars, Ends
<1>1. CASE Close
  BY <1>1 DEF Close, Signal
<1>2. CASE Joined
  BY <1>2 DEF Joined
<1>3. CASE Kill
  <2>1. CASE child \in Alive
    BY <1>3, <2>1 DEF Kill, Signal
  <2>2. CASE child \notin Alive
    BY <1>3, <2>2, HowItEnds DEF Kill, Over
  <2> QED
    BY <2>1, <2>2
<1>4. CASE JoinedKilled
  BY <1>4, HowItEnds DEF JoinedKilled, Over
<1> QED
  BY <1>1, <1>2, <1>3, <1>4

(* A cancellation leaves the body for the clean-up, or the clean-up for    *)
(* the end; there the child has been told.                                 *)
LEMMA CancelStep ==
  ASSUME ChildInv, NEW source \in Sources, Cancel(source)
  PROVE  ChildInv'
<1>1. Raised(cancelled') # "died"
  BY HowItEnds
<1>2. cancelled' \subseteq Sources
  BY DEF Cancel, ChildInv, Typed
<1> QED
  BY <1>1, <1>2
     DEF Cancel, ChildInv, Typed, Places, Waiting, Alive, Piped, Seen, Told,
         Readable, ChildVars

(* The child goes on.  It may do so at any place of the parent. *)
LEMMA ChildStepInv ==
  ASSUME ChildInv, ChildStep
  PROVE  ChildInv'
<1> USE DEF ChildInv, Typed, Places, Waiting, Alive, Piped, Seen, Told, Readable,
            Ends
<1>1. CASE BecomesLeader
  BY <1>1 DEF BecomesLeader
<1>2. CASE \E report \in {"result", "error"} : BeginSend(report)
  BY <1>2 DEF BeginSend, PipeOpen
<1>3. CASE EndSend
  BY <1>3 DEF EndSend, PipeOpen
<1>4. CASE Exit \/ Killed
  BY <1>4 DEF Exit, Killed
<1> QED
  BY <1>1, <1>2, <1>3, <1>4 DEF ChildStep

LEMMA NextChildInv ==
  ASSUME ChildInv, [ChildNext]_cvars
  PROVE  ChildInv'
<1>1. CASE ParentStep
  BY <1>1, WaitingStep, CleanUpStep DEF ParentStep
<1>2. CASE ChildStep
  BY <1>2, ChildStepInv
<1>3. CASE \E source \in Sources : Cancel(source)
  BY <1>3, CancelStep
<1>4. CASE UNCHANGED cvars
  BY <1>4 DEF cvars, ChildInv, Typed, Piped, Seen, Told, Readable
<1> QED
  BY <1>1, <1>2, <1>3, <1>4 DEF ChildNext

(* The invariant holds in every reachable state. *)
THEOREM ChildInvariance == ChildSpec => []ChildInv
<1>1. ChildInit => ChildInv
  BY InitChildInv
<1>2. ChildInv /\ [ChildNext]_cvars => ChildInv'
  BY NextChildInv
<1> QED
  BY <1>1, <1>2, PTL DEF ChildSpec

(* A result that is in the pipe is never taken for a child that died,      *)
(* whenever the child wrote it and exited.                                 *)
THEOREM ResultIsTaken == ChildSpec => []LateResultIsTaken
<1>1. ChildInv => LateResultIsTaken
  BY DEF ChildInv, Seen, LateResultIsTaken
<1> QED
  BY <1>1, ChildInvariance, PTL

(* The event loop, and with it the heartbeats, never waits in recv for a   *)
(* child that still computes.                                              *)
THEOREM RecvIsBrief == ChildSpec => []BlocksOnlyForSender
<1>1. ChildInv => BlocksOnlyForSender
  BY DEF ChildInv, Typed, Alive, Piped, Seen, Readable, BlocksOnlyForSender
<1> QED
  BY <1>1, ChildInvariance, PTL

(* Only a second cancellation leaves a child behind, and it was signalled. *)
THEOREM OrphansAreSignalled == ChildSpec => []NoOrphan
<1>1. ChildInv => NoOrphan
  BY DEF ChildInv, Told, NoOrphan
<1> QED
  BY <1>1, ChildInvariance, PTL

(* The second poll, of a child that is gone, always finds something: the   *)
(* ChildProcessExit of the code is never raised.                           *)
THEOREM ExitIsReadable == ChildSpec => [](pc = "poll_again" => Readable)
<1>1. ChildInv => (pc = "poll_again" => Readable)
  BY DEF ChildInv, Seen, Readable
<1> QED
  BY <1>1, ChildInvariance, PTL
-----------------------------------------------------------------------------
(* What the parent reports of an execution, and what happened to it.       *)

Body == {"recall", "start", "poll", "recv", "alive", "poll_again", "sleep"}

CleanUp == {"close", "join", "still_alive", "join_killed"}

(* The body ends once, with what it saw; the clean-up keeps that, unless a *)
(* cancellation cuts it short.                                             *)
Reasons ==
  /\ pc \in Body => caught = "none"
  /\ pc \in CleanUp => caught \in {"result", "error", "died", "cancelled"}
  /\ pc \in Body \cup CleanUp => outcome = "none" /\ ~interrupted
  /\ caught = "cancelled" => cancelled # {}
  /\ child \in {"sending", "sent"} \/ pipe = "full" =>
       payload \in {"result", "error"}
  /\ caught \in {"result", "error"} => pipe = "full" /\ payload = caught

(* The worker classifies a failure, and decides a retry, by what is raised *)
(* here.  A timeout is one only if nobody but the timer cancelled the task;*)
(* a cancellation is reported only if a stop or a lost lease asked for it, *)
(* alone or against the timer; an answer is the whole message of this      *)
(* child; and whoever reports what the child did has seen it dead.         *)
OutcomeIsExplained ==
  /\ outcome = "timeout" => cancelled = {"timeout"}
  /\ outcome = "cancelled" => cancelled \ {"timeout"} # {}
  /\ outcome \in {"result", "error"} => pipe = "full" /\ payload = outcome
  /\ outcome \in {"result", "error", "died"} =>
       ~interrupted /\ child \notin Alive
  /\ outcome = "recall_failed" => child = "none"

(* asyncio.timeout looks at who cancelled. *)
LEMMA RaisedTells ==
  ASSUME NEW sources, sources # {}
  PROVE  /\ Raised(sources) = "timeout" => sources = {"timeout"}
         /\ Raised(sources) = "cancelled" => sources \ {"timeout"} # {}
         /\ Raised(sources) \in {"timeout", "cancelled"}
BY DEF Raised

(* The end of the clean-up. *)
LEMMA OverExplained ==
  ASSUME ChildInv, Reasons, pc \in CleanUp, child \notin Alive, Over
  PROVE  Reasons' /\ OutcomeIsExplained'
<1>1. UNCHANGED <<child, pipe, payload, obeys, cancelled, caught, interrupted>>
  BY DEF Over, ChildVars
<1>2. pc' = "over" /\ outcome' = Result
  BY DEF Over
<1>3. ~interrupted /\ caught \in {"result", "error", "died", "cancelled"}
  BY DEF Reasons
<1>4. Reasons'
  BY <1>1, <1>2 DEF Reasons, Body, CleanUp
<1>5. ~interrupted' /\ child' \notin Alive
  BY <1>1, <1>3
<1>6. CASE caught = "cancelled"
  <2>1. outcome' = Raised(cancelled) /\ cancelled' = cancelled /\ cancelled # {}
    BY <1>1, <1>2, <1>6 DEF Reasons, Result
  <2> QED
    BY <1>4, <2>1, RaisedTells DEF OutcomeIsExplained
<1>7. CASE caught # "cancelled"
  <2>1. outcome' = caught /\ caught \in {"result", "error", "died"}
    BY <1>2, <1>3, <1>7 DEF Result
  <2>2. caught \in {"result", "error"} => pipe' = "full" /\ payload' = caught
    BY <1>1 DEF Reasons
  <2> QED
    BY <1>4, <1>5, <2>1, <2>2 DEF OutcomeIsExplained
<1> QED
  BY <1>6, <1>7

(* No step of the parent coroutine makes up an outcome.                    *)
LEMMA ParentExplained ==
  ASSUME ChildInv, Reasons, OutcomeIsExplained, ParentStep
  PROVE  Reasons' /\ OutcomeIsExplained'
<1> USE DEF Reasons, Body, CleanUp, ChildVars, Ends
<1>1. CASE RecallReturns \/ Start \/ Poll \/ CheckAlive \/ PollAgain \/ Wake
  BY <1>1 DEF RecallReturns, Start, Poll, CheckAlive, PollAgain, Wake,
              OutcomeIsExplained
<1>2. CASE RecallRaises
  BY <1>2 DEF RecallRaises, OutcomeIsExplained, ChildInv, Seen
<1>3. CASE Receive
  BY <1>3 DEF Receive, Ended, OutcomeIsExplained
<1>4. CASE Close \/ Joined
  BY <1>4 DEF Close, Joined, OutcomeIsExplained
<1>5. CASE Kill
  <2>1. CASE child \in Alive
    BY <1>5, <2>1 DEF Kill, OutcomeIsExplained
  <2>2. CASE child \notin Alive
    BY <1>5, <2>2, OverExplained DEF Kill
  <2> QED
    BY <2>1, <2>2
<1>6. CASE JoinedKilled
  BY <1>6, OverExplained DEF JoinedKilled
<1> QED
  BY <1>1, <1>2, <1>3, <1>4, <1>5, <1>6 DEF ParentStep

(* A cancellation is its own reason, wherever it finds the coroutine.      *)
LEMMA CancelExplained ==
  ASSUME ChildInv, Reasons, OutcomeIsExplained,
         NEW source \in Sources, Cancel(source)
  PROVE  Reasons' /\ OutcomeIsExplained'
<1>1. cancelled' # {} /\ UNCHANGED <<child, pipe, payload>>
  BY DEF Cancel, ChildVars
<1>2. CASE pc = "sleep"
  BY <1>1, <1>2 DEF Cancel, Reasons, OutcomeIsExplained, Body, CleanUp
<1>3. CASE pc \in {"recall", "join", "join_killed"}
  <2>1. /\ outcome' = Raised(cancelled') /\ pc' = "over"
        /\ caught' = caught
    BY <1>3 DEF Cancel
  <2>2. Reasons'
    BY <1>1, <2>1 DEF Reasons, Body, CleanUp
  <2>3. OutcomeIsExplained'
    BY <1>1, <2>1, RaisedTells DEF OutcomeIsExplained
  <2> QED
    BY <2>2, <2>3
<1> QED
  BY <1>2, <1>3 DEF Cancel

(* What the child does changes only what the parent has still to read.     *)
LEMMA ChildExplained ==
  ASSUME ChildInv, Reasons, OutcomeIsExplained, ChildStep
  PROVE  Reasons' /\ OutcomeIsExplained'
<1> USE DEF Reasons, OutcomeIsExplained, Body, CleanUp, Ends, Alive
<1>1. CASE BecomesLeader
  BY <1>1 DEF BecomesLeader
<1>2. CASE \E report \in {"result", "error"} : BeginSend(report)
  BY <1>2 DEF BeginSend, ChildInv, Piped
<1>3. CASE EndSend
  BY <1>3 DEF EndSend, ChildInv, Piped
<1>4. CASE Exit \/ Killed
  BY <1>4 DEF Exit, Killed
<1> QED
  BY <1>1, <1>2, <1>3, <1>4 DEF ChildStep

(* What an execution ends with says truly what happened to it.             *)
THEOREM OutcomesAreExplained == ChildSpec => []OutcomeIsExplained
<1>1. ChildInit => Reasons /\ OutcomeIsExplained
  BY DEF ChildInit, Reasons, OutcomeIsExplained, Body, CleanUp
<1>2. ASSUME ChildInv, Reasons, OutcomeIsExplained, [ChildNext]_cvars
      PROVE  Reasons' /\ OutcomeIsExplained'
  <2>1. CASE UNCHANGED cvars
    BY <1>2, <2>1 DEF cvars, Reasons, OutcomeIsExplained
  <2> QED
    BY <1>2, <2>1, ParentExplained, CancelExplained, ChildExplained DEF ChildNext
<1>3. ChildInv /\ Reasons /\ OutcomeIsExplained /\ [ChildNext]_cvars
        => Reasons' /\ OutcomeIsExplained'
  BY <1>2
<1> QED
  BY <1>1, <1>3, ChildInvariance, PTL DEF ChildSpec
=============================================================================
