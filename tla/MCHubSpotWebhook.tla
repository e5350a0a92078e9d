-------------------------- MODULE MCHubSpotWebhook --------------------------
(* Instances of HubSpotWebhook: the second batch repeats an event of the first. *)
EXTENDS HubSpotWebhook, TLC

CONSTANTS m1, m2, e1, e2

RetriedBody == m1 :> {e1, e2} @@ m2 :> {e2}
RepeatedBody == m1 :> {e1} @@ m2 :> {e1}
SingleBody == m1 :> {e1}

ProcessSymmetry == Permutations(Processes)
=============================================================================
