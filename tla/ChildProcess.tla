---------------------------- MODULE ChildProcess ----------------------------
(***************************************************************************)
(* One execution of a claimed run: _execute_claim of worker.py under its   *)
(* timeout, and execute_rlm_subprocess of model_runtime.py with the spawned*)
(* child, the pipe between them and the clean-up.                          *)
(*                                                                         *)
(* The parent is an asyncio task: it can be cancelled only where it awaits *)
(* (recall, the pause between two polls, the two joins), while the child   *)
(* runs on by itself between any two of its steps.  Three things cancel    *)
(* the task, each at most once: its own timeout, the heartbeat loop of a   *)
(* lost lease, and a stop of the worker.                                   *)
(*                                                                         *)
(* Not modelled: a child that outlives SIGKILL by the 5 seconds of the     *)
(* second join.                                                            *)
(***************************************************************************)
EXTENDS FiniteSets

VARIABLES
  pc,          \* where the parent is: at one of Waiting, or between two awaits
  child,       \* "none", one of Alive, or "exited"
  pipe,        \* how much of the payload is in it: "empty", "part", "full"
  payload,     \* what the child reports: "none" yet, "result", "error"
  signal,      \* the strongest one the child was sent, or "none"
  obeys,       \* SIGTERM ends this child
  cancelled,   \* which of Sources have cancelled the task so far
  caught,      \* how the body of execute_rlm_subprocess ended
  interrupted, \* a cancellation cut the clean-up short
  outcome      \* what _execute_claim returned or raised, or "none"

cvars == <<pc, child, pipe, payload, signal, obeys, cancelled, caught,
           interrupted, outcome>>

Waiting == {"recall", "sleep", "join", "join_killed"}

Sources == {"timeout", "lease_lost", "stop"}

Alive == {"starting", "running", "sending", "sent"}

(* result and error are payloads with ok true and false; died is EOFError  *)
(* or ChildProcessExit, both retryable.                                    *)
ChildInit ==
  /\ pc = "recall" /\ child = "none" /\ pipe = "empty" /\ payload = "none"
  /\ signal = "none" /\ obeys \in BOOLEAN /\ cancelled = {}
  /\ caught = "none" /\ interrupted = FALSE /\ outcome = "none"

ChildVars == <<child, pipe, payload, obeys>>

Ends == <<cancelled, caught, interrupted, outcome>>
-----------------------------------------------------------------------------
(* The parent.                                                             *)

RecallReturns ==
  /\ pc = "recall"
  /\ pc' = "start"
  /\ UNCHANGED <<ChildVars, signal, Ends>>

RecallRaises ==
  /\ pc = "recall"
  /\ pc' = "over"
  /\ outcome' = "recall_failed"
  /\ UNCHANGED <<ChildVars, signal, cancelled, caught, interrupted>>

Start ==
  /\ pc = "start"
  /\ pc' = "poll"
  /\ child' = "starting"
  /\ UNCHANGED <<pipe, payload, obeys, signal, Ends>>

ReadableAlways == TRUE          \* broken: receives without polling

(* poll() is true for a part of a message and at the end of file too. *)
Readable == pipe # "empty" \/ child = "exited"

Poll ==
  /\ pc = "poll"
  /\ pc' = IF Readable THEN "recv" ELSE "alive"
  /\ UNCHANGED <<ChildVars, signal, Ends>>

Ended(how) ==
  /\ caught' = how
  /\ pc' = "close"
  /\ UNCHANGED <<ChildVars, signal, cancelled, interrupted, outcome>>

CheckAliveOnce ==               \* broken: a dead child has no result
  /\ pc = "alive"
  /\ \/ /\ child \in Alive
        /\ pc' = "sleep"
        /\ UNCHANGED <<ChildVars, signal, Ends>>
     \/ /\ child \notin Alive
        /\ Ended("died")

CheckAlive ==
  /\ pc = "alive"
  /\ pc' = IF child \in Alive THEN "sleep" ELSE "poll_again"
  /\ UNCHANGED <<ChildVars, signal, Ends>>

(* The exit of the child closes its end of the pipe, so this poll is true  *)
(* and ChildProcessExit is not raised: what recv finds there is a message, *)
(* or the end of file and EOFError.                                        *)
PollAgain ==
  /\ pc = "poll_again" /\ Readable
  /\ pc' = "recv"
  /\ UNCHANGED <<ChildVars, signal, Ends>>

(* recv blocks the event loop until it has the whole message or the end of *)
(* file; no task runs and no timer fires meanwhile.                        *)
Receive ==
  /\ pc = "recv"
  /\ \/ /\ pipe = "full"
        /\ Ended(payload)
     \/ /\ pipe # "full" /\ child = "exited"
        /\ Ended("died")

Wake ==
  /\ pc = "sleep"
  /\ pc' = "poll"
  /\ UNCHANGED <<ChildVars, signal, Ends>>

SignalGroupOnly(signum) ==      \* broken: no terminate() without the group
  signal' = IF child = "starting" THEN signal ELSE signum

(* killpg reaches a child that is its own group leader; before setsid there*)
(* is no such group, and terminate() or kill() is used.                    *)
Signal(signum) == signal' = signum

Close ==
  /\ pc = "close"
  /\ pc' = "join"
  /\ IF child \in Alive THEN Signal("SIGTERM") ELSE UNCHANGED signal
  /\ UNCHANGED <<ChildVars, Ends>>

(* The join in its thread ends with the child, or after 5 seconds. *)
Joined ==
  /\ pc = "join"
  /\ pc' = "still_alive"
  /\ UNCHANGED <<ChildVars, signal, Ends>>

(* asyncio.timeout turns the cancellation into TimeoutError if it was its  *)
(* own and nobody else's.                                                  *)
Raised(sources) == IF sources = {"timeout"} THEN "timeout" ELSE "cancelled"

Result == IF caught = "cancelled" THEN Raised(cancelled) ELSE caught

Over ==
  /\ pc' = "over"
  /\ outcome' = Result
  /\ UNCHANGED <<ChildVars, cancelled, caught, interrupted>>

NeverKill ==                    \* broken: trusts SIGTERM
  /\ pc = "still_alive"
  /\ Over
  /\ UNCHANGED signal

Kill ==
  /\ pc = "still_alive"
  /\ \/ /\ child \in Alive
        /\ Signal("SIGKILL")
        /\ pc' = "join_killed"
        /\ UNCHANGED <<ChildVars, Ends>>
     \/ /\ child \notin Alive
        /\ Over
        /\ UNCHANGED signal

JoinedKilled ==
  /\ pc = "join_killed"
  /\ child \notin Alive
  /\ Over
  /\ UNCHANGED signal

NeverTimesOut == FALSE          \* broken: the timeout_s of the run is not used

(* The timer of asyncio.timeout is armed from recall to the end. *)
TimesOut == TRUE

(* A cancellation arrives at the await the task has reached.  In the       *)
(* clean-up it replaces whatever the body had returned or raised.          *)
Cancel(source) ==
  /\ source \notin cancelled
  /\ (source = "timeout") => TimesOut
  /\ cancelled' = cancelled \cup {source}
  /\ \/ /\ pc = "recall"
        /\ pc' = "over"
        /\ outcome' = Raised(cancelled')
        /\ UNCHANGED <<caught, interrupted>>
     \/ /\ pc = "sleep"
        /\ pc' = "close"
        /\ caught' = "cancelled"
        /\ UNCHANGED <<interrupted, outcome>>
     \/ /\ pc \in {"join", "join_killed"}
        /\ pc' = "over"
        /\ interrupted' = TRUE
        /\ outcome' = Raised(cancelled')
        /\ UNCHANGED caught
  /\ UNCHANGED <<ChildVars, signal>>
-----------------------------------------------------------------------------
(* The child.                                                              *)

BecomesLeader ==                \* os.setsid
  /\ child = "starting"
  /\ child' = "running"
  /\ UNCHANGED <<pc, pipe, payload, signal, obeys, Ends>>

(* Once the parent has closed its end, a write fails and ends the child. *)
PipeOpen == pc \notin {"join", "still_alive", "join_killed", "over"}

BeginSend(report) ==
  /\ child = "running" /\ PipeOpen
  /\ child' = "sending"
  /\ pipe' = "part"
  /\ payload' = report
  /\ UNCHANGED <<pc, signal, obeys, Ends>>

EndSend ==
  /\ child = "sending" /\ PipeOpen
  /\ child' = "sent"
  /\ pipe' = "full"
  /\ UNCHANGED <<pc, payload, signal, obeys, Ends>>

(* The child is done, or crashes wherever it is. *)
Exit ==
  /\ child \in Alive
  /\ child' = "exited"
  /\ UNCHANGED <<pc, pipe, payload, signal, obeys, Ends>>

Killed ==
  /\ child \in Alive
  /\ \/ signal = "SIGKILL"
     \/ signal = "SIGTERM" /\ obeys
  /\ child' = "exited"
  /\ UNCHANGED <<pc, pipe, payload, signal, obeys, Ends>>
-----------------------------------------------------------------------------
ParentStep ==
  \/ RecallReturns \/ RecallRaises \/ Start \/ Poll \/ CheckAlive
  \/ PollAgain \/ Receive \/ Wake \/ Close \/ Joined \/ Kill \/ JoinedKilled

ChildStep ==
  \/ BecomesLeader
  \/ \E report \in {"result", "error"} : BeginSend(report)
  \/ EndSend
  \/ Exit
  \/ Killed

ChildNext == ParentStep \/ ChildStep \/ \E source \in Sources : Cancel(source)

(* The parent goes on by itself, except while recall has no answer.  The   *)
(* timer fires although the task is only now and then at an await.  A      *)
(* child may hang anywhere, but not in the middle of its write, and it     *)
(* dies of a signal.                                                       *)
ChildFairness ==
  /\ WF_cvars(ParentStep /\ pc # "recall")
  /\ SF_cvars(Cancel("timeout"))
  /\ WF_cvars(EndSend)
  /\ WF_cvars(Killed)

ChildSpec == ChildInit /\ [][ChildNext]_cvars /\ ChildFairness
-----------------------------------------------------------------------------
(* The child may write its result and exit between the poll of the pipe    *)
(* and the look at the process: a run whose result arrived is never taken  *)
(* for one whose child just died.                                          *)
LateResultIsTaken ==
  (outcome = "died" \/ caught = "died") => pipe # "full"

(* The parent blocks its event loop, and with it the heartbeats of the     *)
(* run, only for a message that is being written: never for a child that   *)
(* computes.                                                               *)
BlocksOnlyForSender ==
  (pc = "recv") => (pipe = "full" \/ child \in {"sending", "exited"})

(* An execution leaves a child behind only if a second cancellation cut    *)
(* the clean-up short, and then the child has at least been sent SIGTERM.  *)
NoOrphan ==
  (pc = "over" /\ child \in Alive) => (interrupted /\ signal # "none")

(* Whatever the child does, the execution ends. *)
ExecutionEnds == <>(pc = "over")

(* A child that obeys SIGTERM does not outlive the execution for good,     *)
(* however often the clean-up was interrupted.                             *)
ObedientChildEnds ==
  obeys => (pc = "over" ~> child \notin Alive)
=============================================================================
