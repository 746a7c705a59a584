---------------------------- MODULE MCIdempotency ----------------------------
(* The middleware instance for TLC: the requests are numbered 1..N.       *)
EXTENDS IdempotencyMiddleware
=============================================================================
