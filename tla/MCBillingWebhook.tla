-------------------------- MODULE MCBillingWebhook --------------------------
(* Two replicas; a subscription, and the one the workspace takes out after  *)
(* it has ended.                                                            *)
EXTENDS BillingWebhook, TLC

CONSTANTS s1, s2, pro, h1, h2

MCSubscription == {s1, s2}
MCPlan == {pro}
MCHandler == {h1, h2}

\* The replicas are interchangeable.
Renaming == Permutations(Handler)
=============================================================================
