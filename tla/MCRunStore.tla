----------------------------- MODULE MCRunStore -----------------------------
(* Two runs and two worker identities, two attempts at most: a run can be  *)
(* taken from a worker that still holds its lease and claimed by the other *)
(* one, or by the same one after it let go.                                *)
EXTENDS RunStore, TLC

Symmetry == Permutations(Runs) \cup Permutations(Workers)
=============================================================================
