------------------------------ MODULE SlotLedger ------------------------------
(***************************************************************************)
(* What the booking service promises of its slots, with no sessions, locks *)
(* or flags: a ledger that says which slot each booking holds.  A slot is  *)
(* taken or moved to in one step, only while nobody holds it, and a        *)
(* booking that has let go of its slot never holds one again.              *)
(***************************************************************************)
CONSTANTS Slots, Bookings, None

VARIABLES
  holds,  \* holds[b]: the slot booking b holds, or None
  used    \* the bookings ever made

ledger == <<holds, used>>

Init ==
  /\ holds = [b \in Bookings |-> None]
  /\ used = {}

Vacant(s) == \A b \in Bookings : holds[b] # s

\* A client takes a vacant slot with a new booking.
Take(b, s) ==
  /\ b \notin used
  /\ Vacant(s)
  /\ holds' = [holds EXCEPT ![b] = s]
  /\ used' = used \cup {b}

\* A booking that holds a slot moves to a vacant one.
Move(b, s) ==
  /\ holds[b] # None
  /\ Vacant(s)
  /\ holds' = [holds EXCEPT ![b] = s]
  /\ UNCHANGED used

\* Bookings let go of their slots: one is cancelled, or a batch has expired.
Drop(B) ==
  /\ B \subseteq used
  /\ holds' = [b \in Bookings |-> IF b \in B THEN None ELSE holds[b]]
  /\ UNCHANGED used

Next ==
  \/ \E b \in Bookings, s \in Slots : Take(b, s) \/ Move(b, s)
  \/ \E B \in SUBSET Bookings : Drop(B)

Spec == Init /\ [][Next]_ledger

\* No slot is held twice.
Exclusive ==
  \A a, b \in Bookings : holds[a] = holds[b] /\ holds[a] # None => a = b
===============================================================================
