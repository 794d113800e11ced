---------------------------- MODULE MCWebhookLease ----------------------------
(* Instances of WebhookLease for TLC; one tick is one second scaled down.      *)
EXTENDS WebhookLease

\* Prefix sums of the delays 1, 2 (and 3, which no attempt waits for).
Delays == [n \in 0 .. Retries |-> CASE n = 0 -> 0 [] n = 1 -> 1 [] n = 2 -> 3 [] OTHER -> 6]
==============================================================================
