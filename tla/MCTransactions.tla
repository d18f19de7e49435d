--------------------------- MODULE MCTransactions ---------------------------
(* One run that may be retried and one that may not, two workers.          *)
EXTENDS Transactions

CONSTANT OneAttempt     \* bound: the runs submitted with max_attempts = 1

Bound == \A r \in OneAttempt : runs[r].max <= 1

Symmetry == Permutations(Workers) \cup Permutations(Sessions)
=============================================================================
