---------------------------- MODULE BookingLedger -----------------------------
(***************************************************************************)
(* The booking service as an implementation of the slot ledger: a booking  *)
(* holds its slot while it is confirmed.  Of all the steps of a handler    *)
(* the one that commits is the ledger's step, the others are invisible.    *)
(***************************************************************************)
EXTENDS BookingSystem

Held == [b \in BookingIds |-> IF Confirmed(b) THEN bookings[b].slot ELSE Nil]

Ledger == INSTANCE SlotLedger WITH
  Bookings <- BookingIds, None <- Nil,
  holds <- Held, used <- {b \in BookingIds : Exists(b)}

\* Every behaviour of the handlers is one of the ledger: a slot is only taken or
\* moved to while no confirmed booking names it, and a booking that was cancelled
\* or has expired never takes its slot back.
LedgerSpec == Ledger!Spec
===============================================================================
