------------------------- MODULE MCPaymentLifecycle -------------------------
(* PaymentLifecycle for TLC: workers and webhook ids are interchangeable.   *)
EXTENDS PaymentLifecycle, TLC

Interchangeable == Permutations(Workers) \cup Permutations(WebhookIds)
=============================================================================
