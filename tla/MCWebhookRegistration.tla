----------------------- MODULE MCWebhookRegistration -----------------------
(***************************************************************************)
(* WebhookRegistration and RateLimit on small sets.  Visitors are          *)
(* interchangeable, and so are filters.                                    *)
(***************************************************************************)
EXTENDS WebhookRegistration, TLC

SmallLimits == [k \in Kinds |-> IF k = "webhookPerIp" THEN 2 ELSE 1]

Symmetry == Permutations(Visitors) \cup Permutations(Filters)

============================================================================
