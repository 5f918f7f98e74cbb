---------------------------- MODULE MCRateLimiter -----------------------------
(***************************************************************************)
(* Small instances of RateLimiter for TLC.                                 *)
(***************************************************************************)
EXTENDS RateLimiter, TLC

\* Requests are interchangeable, if all or none of them may fail.
RequestSym == Permutations(Requests)
===============================================================================
