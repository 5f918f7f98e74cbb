------------------------------ MODULE MCListings ------------------------------
(***************************************************************************)
(* A small instance of Listings for TLC.                                   *)
(***************************************************************************)
EXTENDS Listings, TLC

CONSTANTS r1, c1, sp

\* sp is an admin who also works as a specialist: may book and wait like a client.
MCRole == [u \in Users |-> IF u = sp THEN "admin" ELSE "client"]
MCOwner == [s \in Slots |-> sp]

\* Expired bookings are not cancelled (bug_cancel_expired says why).
NoCancelOps == [r \in Sessions |-> OpNames \ {"cancel", "leave"}]

\* Slot 1 is late on day 0, slot 2 starts at midnight of day 1.
MCStartAt == [s \in Slots |-> s]

All(kind, u) == [kind |-> kind, user |-> u, status |-> Nil, from |-> Nil, to |-> Nil]

\* Lists whose rows stay, lists whose rows come and go.
MCQueries ==
  {All("mine", c1), All("specialist", sp), All("wait", c1), All("slots", sp),
   [All("specialist", sp) EXCEPT !.status = "confirmed", !.from = 1]}
===============================================================================
