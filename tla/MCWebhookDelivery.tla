-------------------------- MODULE MCWebhookDelivery --------------------------
(* TLC instances of WebhookDelivery. *)
EXTENDS WebhookDelivery
=============================================================================
