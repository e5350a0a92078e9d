------------------------ MODULE MCHubSpotWebhookLive ------------------------
(* MCHubSpotWebhook with a history variable: has every instance and every       *)
(* dispatch survived so far?                                                    *)
EXTENDS MCHubSpotWebhook

VARIABLE calm

CalmInit == Init /\ calm = TRUE

CalmNext ==
    /\ Next
    /\ calm' = (calm /\ \A p \in Processes :
                          ~ Crash(p) /\ \A m \in Messages : ~ DispatchFails(p, m))

CalmSpec == CalmInit /\ [][CalmNext]_<<vars, calm>> /\ Fairness

\* Unless an instance dies or a dispatch fails, every event HubSpot posts gets
\* to its handler, however its batch and a retry of it race each other through
\* the instances, and also when the claim fails open.
PostedIsHandled ==
    \A m \in Messages, e \in Events :
        status[m] # "unsent" /\ e \in Body[m] ~> handled[e] > 0 \/ ~ calm
=============================================================================
