---------------------------- MODULE MemoryStore -----------------------------
(***************************************************************************)
(* memory_items as the API uses it: MemoryStore.write and search of        *)
(* memory.py, the function search_memories of migration 002 and the        *)
(* clean-up of migration 003.  (SummaryOutbox has the summaries.)          *)
(*                                                                         *)
(* A text is seen only through what the database makes of it for the query *)
(* of the instance: the distance of its embedding, and the rank of its     *)
(* words, 0 if they do not match.  Scores are exact fractions.             *)
(***************************************************************************)
EXTENDS Integers, Sequences, SequencesExt, FiniteSetsExt

CONSTANTS
  Memories,     \* ids of memories
  Distance,     \* embedding <=> p_embedding, for each id
  Relevance,    \* ts_rank_cd(content_tsv, ...), for each id, 0: no match
  Importance,   \* in tenths, for each id
  SearchDepth,  \* the two LIMIT 50
  NULL

ASSUME MemoryAssumption ==
  /\ IsFiniteSet(Memories)
  /\ Distance \in [Memories -> Nat]
  /\ Relevance \in [Memories -> Nat]
  /\ Importance \in [Memories -> 0..10]
  /\ SearchDepth \in Nat \ {0}

VARIABLE memories   \* memories[m]: the row, or NULL

(* Whose a row is, whether its expires_at is still ahead, and how often it *)
(* was found since the service started.  A row that was cleaned up is kept *)
(* here as gone.                                                           *)
MemoryRow(Scopes, Counts) ==
  [scope : Scopes, expires : {"never", "ahead", "past"}, gone : BOOLEAN,
   access_count : Counts]

NewRowUncounted(scope) ==        \* broken: access_count has no default
  [scope |-> scope, expires |-> "never", gone |-> FALSE, access_count |-> NULL]

NewRow(scope) ==
  [scope |-> scope, expires |-> "never", gone |-> FALSE, access_count |-> 0]

Live(m) == memories[m] # NULL /\ ~memories[m].gone
-----------------------------------------------------------------------------
(* search_memories                                                         *)

Scoped(scope) ==
  {m \in Memories :
     Live(m) /\ memories[m].scope = scope /\ memories[m].expires # "past"}

(* The orders row_number() or ORDER BY may give a set: by ascending key,   *)
(* with ties anyhow.                                                       *)
Rankings(set, key) ==
  {ranking \in SetToSeqs(set) :
     \A i, j \in 1..Len(ranking) : key[ranking[i]] < key[ranking[j]] => i < j}

Semantic(scope) == Rankings(Scoped(scope), Distance)

Keyword(scope) ==
  Rankings({m \in Scoped(scope) : Relevance[m] > 0},
           [m \in Memories |-> -Relevance[m]])

Limited(ranking, limit) == SubSeq(ranking, 1, Min({limit, Len(ranking)}))

Rank(ranking, m) == CHOOSE i \in DOMAIN ranking : ranking[i] = m

(* weight / (60.0 + rank), or 0 for a row without a rank, as a fraction. *)
Term(weight, ranking, m) ==
  IF m \in ToSet(ranking) THEN [num |-> weight, den |-> 60 + Rank(ranking, m)]
                          ELSE [num |-> 0, den |-> 1]

(* The weights are 1.0 and 0.7, the factor is 0.8 + 0.2 * importance. *)
Score(semantic, keyword, m) ==
  LET s == Term(10, semantic, m)
      k == Term(7, keyword, m)
  IN  [num |-> (s.num * k.den + k.num * s.den) * (80 + 2 * Importance[m]),
       den |-> s.den * k.den]

Above(semantic, keyword, m, n) ==
  LET x == Score(semantic, keyword, m)
      y == Score(semantic, keyword, n)
  IN  x.num * y.den > y.num * x.den

JoinedBoth(semantic, keyword) == \* broken: JOIN for FULL OUTER JOIN
  ToSet(semantic) \cap ToSet(keyword)

Joined(semantic, keyword) == ToSet(semantic) \cup ToSet(keyword)

Fused(semantic, keyword) ==
  {ranking \in SetToSeqs(Joined(semantic, keyword)) :
     \A i, j \in 1..Len(ranking) :
       Above(semantic, keyword, ranking[i], ranking[j]) => i < j}

(* What the function may return. *)
SearchResults(scope, limit) ==
  UNION {{Limited(found, limit) :
            found \in Fused(Limited(semantic, SearchDepth),
                            Limited(keyword, SearchDepth))} :
         semantic \in Semantic(scope), keyword \in Keyword(scope)}

(* A row that is closer, at least as important, and more relevant or as    *)
(* irrelevant as another is never missing or behind while that is found.   *)
(* (Rows of equal relevance are ranked anyhow among each other, so between *)
(* these the closer one can lose.)                                         *)
Preferred(m, n) ==
  /\ Distance[m] < Distance[n]
  /\ Importance[m] >= Importance[n]
  /\ Relevance[m] > Relevance[n] \/ Relevance[m] + Relevance[n] = 0

WellRanked(found, candidates) ==
  \A n \in ToSet(found), m \in candidates :
    Preferred(m, n) =>
      \E i, j \in DOMAIN found : found[i] = m /\ found[j] = n /\ i < j
-----------------------------------------------------------------------------
(* INSERT, without a source_run_id no conflict can arise. *)
Insert(m, scope) ==
  /\ memories[m] = NULL
  /\ memories' = [memories EXCEPT ![m] = NewRow(scope)]

(* UPDATE ... WHERE id = ANY: a row that has gone in between is not there. *)
CountAccess(found) ==
  memories' = [m \in Memories |->
    IF m \in found /\ Live(m)
    THEN [memories[m] EXCEPT !.access_count = @ + 1]
    ELSE memories[m]]

Expire(m) ==
  /\ Live(m) /\ memories[m].expires = "ahead"
  /\ memories' = [memories EXCEPT ![m].expires = "past"]

(* Migration 003. *)
CleanUp ==
  /\ \E m \in Memories : Live(m) /\ memories[m].expires = "past"
  /\ memories' = [m \in Memories |->
       IF Live(m) /\ memories[m].expires = "past"
       THEN [memories[m] EXCEPT !.gone = TRUE]
       ELSE memories[m]]
=============================================================================
