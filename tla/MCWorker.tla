------------------------------ MODULE MCWorker ------------------------------
(* One or two worker processes, any of which but the Reliable ones may be  *)
(* stopped or crash at any time, over one or two runs, one of which may be *)
(* a row that was there before the queue.                                  *)
EXTENDS Worker, TLC

(* For runs without liveness properties. *)
Symmetry == Permutations(Runs \ LegacyRuns) \cup Permutations(Workers \ Reliable)
=============================================================================
