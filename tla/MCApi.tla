------------------------------- MODULE MCApi --------------------------------
(* Instance of Api: two clients; a key for a tenant, one for a subject of  *)
(* it, and one of another tenant; two memories of one scope, one of which  *)
(* will expire, and the ids of two memories to be written.                 *)
EXTENDS Api

CONSTANTS t1, t2, s1, s2, k1, k2, k3, m1, m2, m3, m4

MCRawKeys ==
  k1 :> t1 @@ k2 :> [tenant |-> t1, subject |-> s1] @@
  k3 :> [tenant |-> t2, subject |-> BLANK]

MCPreset ==
  LET row == [scope |-> [tenant |-> t1, subject |-> s1], expires |-> "never",
              gone |-> FALSE, access_count |-> 0]
  IN  m1 :> [row EXCEPT !.expires = "ahead"] @@ m2 :> row @@ m3 :> NULL @@ m4 :> NULL

(* m1 is the closest, m2 has no word of the query, m3 and m4 are unlike    *)
(* both and alike.                                                         *)
MCDistance == m1 :> 1 @@ m2 :> 2 @@ m3 :> 3 @@ m4 :> 3
MCRelevance == m1 :> 1 @@ m2 :> 0 @@ m3 :> 2 @@ m4 :> 2
MCImportance == m1 :> 5 @@ m2 :> 5 @@ m3 :> 0 @@ m4 :> 0
=============================================================================
