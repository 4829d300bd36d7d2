--------------------------- MODULE MCRateLimiter ---------------------------
(***************************************************************************)
(* The instance of RateLimiter for TLC.                                    *)
(***************************************************************************)
EXTENDS RateLimiter, TLC

Symmetric == Permutations(Workers)
=============================================================================
