-------------------------- MODULE MCWebhookDelivery --------------------------
(* The webhook delivery instance for TLC: workers and replayers as model  *)
(* values, deliveries numbered.                                           *)
EXTENDS WebhookDelivery
CONSTANTS w1, w2, p1, p2
=============================================================================
