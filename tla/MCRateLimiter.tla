--------------------------- MODULE MCRateLimiter ---------------------------
(* RateLimiter for TLC: one key whose window is no multiple of its quota,  *)
(* and one whose quota is larger than its window.                          *)
EXTENDS RateLimiter

CONSTANTS k1, k2

MCQuota == [k \in Key |-> 2]
MCWindow == [k \in Key |-> IF k = k1 THEN 3 ELSE 1]
=============================================================================
