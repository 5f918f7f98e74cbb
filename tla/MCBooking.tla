------------------------------- MODULE MCBooking -------------------------------
(***************************************************************************)
(* Small instances of BookingSystem for TLC.                               *)
(***************************************************************************)
EXTENDS BookingLedger, TLC

CONSTANTS r1, r2, c1, c2, sp, sp2

MCRole == [u \in Users |-> IF u \in {sp, sp2} THEN "specialist" ELSE "client"]

\* sp is an admin who also works as a specialist: may book and wait like a client.
AdminRole == [u \in Users |-> IF u = sp THEN "admin" ELSE MCRole[u]]

\* Every slot belongs to sp; or all but the last do.
OneOwner == [s \in Slots |-> sp]
LastApart == [s \in Slots |-> IF s = 3 THEN sp2 ELSE sp]

\* Sessions that are asked for the same operations are interchangeable, and so are
\* clients.
SessionSym == Permutations({r1, r2})
ClientSym == Permutations({c1, c2})

\* Who is asked to do what.
OnR1(first, rest) == [r \in Sessions |-> IF r = r1 THEN first ELSE rest]

AllOps == [r \in Sessions |-> OpNames]
CoreOps == [r \in Sessions |-> {"create", "cancel", "join", "leave", "delete"}]
OneExpirerOps == OnR1({"expire", "reschedule"}, {"create", "join", "leave", "delete"})
BeatOps == OnR1({"expire"}, {"create", "reschedule", "delete"})
DeadlockOps == OnR1({"expire", "join"}, {"create", "cancel", "join", "delete"})
CancelAfterExpiryOps == [r \in Sessions |-> {"create", "expire", "cancel"}]
StaleMoveOps == OnR1({"reschedule"}, {"create", "cancel"})
StaleExpiryOps == OnR1({"expire"}, {"create", "reschedule"})
===============================================================================
