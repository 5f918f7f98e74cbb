------------------------------- MODULE MCAccounts -------------------------------
(***************************************************************************)
(* A small instance of Accounts for TLC.                                   *)
(***************************************************************************)
EXTENDS Accounts, TLC

CONSTANTS r1, r2, Ann, ann, bob, p1, p2

\* Ann and ann are spellings of one address.
MCLower == [a \in Addresses |-> IF a = Ann THEN ann ELSE a]
MCDigest == [p \in Passwords |-> p]

\* Sessions are interchangeable, and so are passwords.
Sym == Permutations({r1, r2}) \cup Permutations({p1, p2})
===============================================================================
