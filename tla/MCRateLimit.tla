----------------------------- MODULE MCRateLimit ------------------------------
(* A small instance of RateLimit: a location without a limit and one that  *)
(* admits one request a second, so that a few requests reach it.           *)
EXTENDS RateLimit

MCLimits == {0, 1}
=============================================================================
