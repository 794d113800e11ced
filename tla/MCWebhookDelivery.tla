-------------------------- MODULE MCWebhookDelivery --------------------------
(* Instances of WebhookDelivery for TLC.                                       *)
EXTENDS WebhookDelivery, TLC

CONSTANTS i1, i2, h1, h2, w1, w2, d1

\* Every item's action is in the events of every webhook.
AllSubscribed == [i \in Items |-> Webhooks]

WorkerSymmetry == Permutations(Workers)
==============================================================================
