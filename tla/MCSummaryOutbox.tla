-------------------------- MODULE MCSummaryOutbox ---------------------------
(* Two workers of one embedding configuration and one of another: a claim  *)
(* can be taken over within a configuration and bounced between two.       *)
EXTENDS SummaryOutbox, TLC

CONSTANTS w1, w2, w3, m1, m2

MCWorkers == {w1, w2, w3}

MCEmbeds == w1 :> m1 @@ w2 :> m1 @@ w3 :> m2
=============================================================================
