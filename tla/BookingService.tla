---------------------------- MODULE BookingService ----------------------------
(***************************************************************************)
(* app/services/booking_service.py: create_booking_for_slot and            *)
(* reschedule_booking, one action per SQL statement.  A statement whose    *)
(* effect no other session can tell from the one before it (the UPDATE and *)
(* the checks under a row lock already held, INSERT and its COMMIT) is     *)
(* taken together with it.                                                 *)
(*                                                                         *)
(* create_booking_for_slot is entered at "lookup" or "lock_slot" by        *)
(* POST /bookings, and at "lock_slot" by a wait-list promotion; the        *)
(* exceptions it raises propagate through both callers, so all of them end *)
(* the request.                                                            *)
(***************************************************************************)
EXTENDS BookingStore

\* _get_booking_by_idempotency_key
ByIdempotencyKey(c, k) ==
  {b \in BookingIds : Exists(b) /\ bookings[b].client = c /\ bookings[b].key = k}

\* Mutant: the key is matched to whatever slot it was first used for.
SameRequestAnySlot(b, s) == TRUE

\* Mutant: a retry is recognised only while the booking is confirmed.
SameRequestIfConfirmed(b, s) == Confirmed(b) /\ bookings[b].slot = s

SameRequest(b, s) == bookings[b].slot = s

\* The booking found under the key answers the request if it is for the same
\* slot; otherwise the key is refused with 409.
AnswerExisting(r, found) ==
  \E b \in found :
    /\ Goto(r, "done")
    /\ Local(r, [loc[r] EXCEPT !.booking = b,
                               !.reply = IF SameRequest(b, loc[r].slot)
                                           THEN "created" ELSE "key_reuse"])

CreateLookup(r) ==
  LET found == ByIdempotencyKey(loc[r].client, loc[r].key) IN
  /\ pc[r] = "lookup"
  /\ \/ found = {} /\ Goto(r, "lock_slot") /\ UNCHANGED loc
     \/ AnswerExisting(r, found)
  /\ UNCHANGED <<tables, locks, env>>

\* SELECT ... FOR UPDATE NOWAIT: never waits, conflicts become 409.
CreateLockSlot(r) ==
  LET s == loc[r].slot IN
  /\ pc[r] = "lock_slot"
  /\ \/ /\ slotLock[s] # Nil
        /\ Reply(r, "rejected")
        /\ UNCHANGED locks
     \/ /\ slotLock[s] = Nil
        /\ s \notin live
        /\ Reply(r, "rejected")
        /\ UNCHANGED locks
     \/ /\ slotLock[s] = Nil
        /\ s \in live
        /\ LockSlots(r, {s})
        /\ Goto(r, "update_slot")
        /\ UNCHANGED <<bookLock, loc>>
  /\ UNCHANGED <<tables, env>>

\* Mutant: the UPDATE lost its "is_booked IS false" condition.
CreateUpdateSlotUnconditionally(r) ==
  /\ pc[r] = "update_slot"
  /\ Goto(r, "insert")
  /\ UNCHANGED <<tables, locks, env, loc>>

\* UPDATE ... WHERE is_booked IS false; rowcount 0 rolls back.
CreateUpdateSlot(r) ==
  /\ pc[r] = "update_slot"
  /\ \/ /\ loc[r].slot \in booked
        /\ Release(r)
        /\ Goto(r, "recheck")
     \/ /\ loc[r].slot \notin booked
        /\ Goto(r, "insert")
        /\ UNCHANGED locks
  /\ UNCHANGED <<tables, env, loc>>

\* Mutant: the migration that adds uq_bookings_client_idempotency_key is missing.
NoUniqueConstraint(c, k) == FALSE

\* uq_bookings_client_idempotency_key; NULL keys never clash.
KeyTaken(c, k) == k # Nil /\ ByIdempotencyKey(c, k) # {}

\* Where the caller goes on after the booking is committed.
CreateReturn(r, b) ==
  IF loc[r].op = "create"
    THEN /\ Goto(r, "done")
         /\ Local(r, [loc[r] EXCEPT !.booking = b, !.reply = "created"])
    ELSE Goto(r, "drop_entry") /\ UNCHANGED loc

\* INSERT and COMMIT.  A unique violation rolls the UPDATE of the slot back.
CreateInsert(r) ==
  LET l == loc[r] IN
  /\ pc[r] = "insert"
  /\ \/ /\ KeyTaken(l.client, l.key)
        /\ Goto(r, "recheck")
        /\ UNCHANGED <<booked, bookings, loc>>
     \/ /\ ~KeyTaken(l.client, l.key)
        /\ \E b \in BookingIds :
             /\ NextId(b)
             /\ bookings' = [bookings EXCEPT ![b] =
                  [slot |-> l.slot, client |-> l.client, key |-> l.key,
                   status |-> "confirmed", asked |-> l.slot]]
             /\ CreateReturn(r, b)
        /\ booked' = booked \cup {l.slot}
  /\ Release(r)
  /\ UNCHANGED <<live, waitList, env>>

\* After the rollback: the winner may have been this very request, retried.
CreateRecheck(r) ==
  LET found == IF loc[r].key = Nil THEN {}
               ELSE ByIdempotencyKey(loc[r].client, loc[r].key) IN
  /\ pc[r] = "recheck"
  /\ \/ found = {} /\ Reply(r, "rejected")
     \/ AnswerExisting(r, found)
  /\ UNCHANGED <<tables, locks, env>>

-------------------------------------------------------------------------------
(***************************************************************************)
(* reschedule_booking.  The endpoint has loaded the booking and its slot   *)
(* before the call, without a lock, and still holds both objects.  A       *)
(* SELECT ... FOR UPDATE of a row that is already in the session's         *)
(* identity map returns the object as it was loaded, so every check and    *)
(* every "did it change" decision below is made on seenSlot, seenStatus    *)
(* and seenFlag; only the new slot is read under its lock.                 *)
(***************************************************************************)
RescheduleLockBooking(r) ==
  LET l == loc[r] IN
  /\ pc[r] = "rs_lock_booking"
  /\ \/ /\ bookLock[l.booking] # Nil
        /\ Reply(r, "rejected")
        /\ UNCHANGED bookLock
     \/ /\ bookLock[l.booking] = Nil
        /\ l.seenStatus # "confirmed"
        /\ LockBooking(r, l.booking)
        /\ Reply(r, "rejected")
     \/ /\ bookLock[l.booking] = Nil
        /\ l.seenStatus = "confirmed"
        /\ l.seenSlot = l.slot
        /\ LockBooking(r, l.booking)
        /\ Reply(r, "ok")
     \/ /\ bookLock[l.booking] = Nil
        /\ l.seenStatus = "confirmed"
        /\ l.seenSlot # l.slot
        /\ LockBooking(r, l.booking)
        /\ Goto(r, "rs_lock_slots")
        /\ UNCHANGED loc
  /\ UNCHANGED <<tables, slotLock, env>>

\* Mutant: the specialists of the two slots are not compared.
MayMoveToAnySpecialist(from, to) ==
  {from, to} \subseteq live /\ to \notin booked

\* Mutant: whether the new slot is free is not asked again under its lock.
MayMoveToBooked(from, to) == {from, to} \subseteq live /\ Owner[from] = Owner[to]

\* Mutant: the slots the SELECT did not return are not noticed.
MayMoveToMissing(from, to) == Owner[from] = Owner[to] /\ to \notin booked

\* Both slots exist, belong to one specialist, and the new one is free.
MayMove(from, to) ==
  /\ {from, to} \subseteq live
  /\ Owner[from] = Owner[to]
  /\ to \notin booked

RescheduleLockSlots(r) ==
  LET l == loc[r]
      pair == {l.seenSlot, l.slot} IN
  /\ pc[r] = "rs_lock_slots"
  /\ \/ /\ \E s \in pair : slotLock[s] # Nil
        /\ Release(r)
        /\ Reply(r, "rejected")
     \/ /\ \A s \in pair : slotLock[s] = Nil
        /\ ~MayMove(l.seenSlot, l.slot)
        /\ LockSlots(r, pair \cap live)
        /\ Reply(r, "rejected")
        /\ UNCHANGED bookLock
     \/ /\ \A s \in pair : slotLock[s] = Nil
        /\ MayMove(l.seenSlot, l.slot)
        /\ LockSlots(r, pair)
        /\ Goto(r, "rs_commit")
        /\ UNCHANGED <<bookLock, loc>>
  /\ UNCHANGED <<tables, env>>

\* An attribute is only written if it differs from the value it was loaded with.
MovedFlags(l) ==
  (booked \ (IF l.seenFlag = "booked" THEN {l.seenSlot} ELSE {})) \cup {l.slot}

\* Mutant: the UPDATE writes the whole cached row, status included.
MovedRowInFull(row, l) == [row EXCEPT !.slot = l.slot, !.status = l.seenStatus]

\* The UPDATE of the booking sets slot_id only.
MovedRow(row, l) == [row EXCEPT !.slot = l.slot]

RescheduleCommit(r) ==
  LET l == loc[r] IN
  /\ pc[r] = "rs_commit"
  /\ booked' = MovedFlags(l)
  /\ bookings' = [bookings EXCEPT ![l.booking] = MovedRow(@, l)]
  /\ Release(r)
  /\ Reply(r, "ok")
  /\ UNCHANGED <<live, waitList, env>>
===============================================================================
