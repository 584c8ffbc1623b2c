----------------------------- MODULE MCRateLimit -----------------------------
(* A limit of three requests in three ticks, and a worker one tick ahead.    *)
EXTENDS RateLimit
=============================================================================
