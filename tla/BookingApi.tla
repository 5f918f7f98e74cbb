------------------------------ MODULE BookingApi ------------------------------
(***************************************************************************)
(* The endpoints that change bookings and slots (app/api/v1/bookings.py,   *)
(* and the slot deletion of app/api/v1/specialists.py).  A request that is *)
(* refused before its first lock or write changes nothing; such refusals   *)
(* (404, a wrong role, an empty or overlong Idempotency-Key) are the       *)
(* negations of the guards below.                                          *)
(***************************************************************************)
EXTENDS WaitListService

\* POST /bookings.  create_booking_for_slot looks the key up only if there is one.
CreateBegin(r) ==
  /\ RoomFor(1)
  /\ \E u \in Users, s \in Slots, k \in Keys \cup {Nil} :
       /\ Role[u] \in {"client", "admin"}
       /\ Begin(r, IF k = Nil THEN "lock_slot" ELSE "lookup",
                [NoLocals EXCEPT !.op = "create", !.user = u, !.client = u,
                                 !.slot = s, !.key = k])
  /\ UNCHANGED <<tables, locks, env>>

\* The admin, the client who holds the booking, and the specialist of the slot.
Allowed(u, b, s) == Role[u] = "admin" \/ bookings[b].client = u \/ Owner[s] = u

-------------------------------------------------------------------------------
(***************************************************************************)
(* PATCH /bookings/{id}/cancel: booking and slot are read FOR UPDATE,      *)
(* waiting for whoever holds them, then changed and committed; the slot's  *)
(* first waiter is promoted in transactions of their own.                  *)
(***************************************************************************)
CancelBegin(r) ==
  /\ RoomFor(Least(MayWait, 1))
  /\ \E u \in Users, b \in BookingIds :
       /\ Exists(b)
       /\ Begin(r, "lock_booking",
                [NoLocals EXCEPT !.op = "cancel", !.user = u, !.booking = b])
  /\ UNCHANGED <<tables, locks, env>>

CancelLockBooking(r) ==
  /\ pc[r] = "lock_booking"
  /\ bookLock[loc[r].booking] = Nil
  /\ LockBooking(r, loc[r].booking)
  /\ Goto(r, "cn_slot")
  /\ UNCHANGED <<tables, slotLock, env, loc>>

\* bookings.slot_id is a foreign key, so the slot is there.
CancelLockSlot(r) ==
  LET s == bookings[loc[r].booking].slot IN
  /\ pc[r] = "cn_slot"
  /\ slotLock[s] = Nil
  /\ LockSlots(r, {s})
  /\ Local(r, [loc[r] EXCEPT !.slot = s])
  /\ Goto(r, "cancel")
  /\ UNCHANGED <<tables, bookLock, env>>

\* Mutant: the slot is not freed.
CancelledFlagsKeep(s) == booked

CancelledFlags(s) == booked \ {s}

\* Everything but "cancelled" is cancelled here, "expired" included.
CancelCommit(r) ==
  LET l == loc[r] IN
  /\ pc[r] = "cancel"
  /\ \/ /\ ~Allowed(l.user, l.booking, l.slot)
        /\ Reply(r, "rejected")
        /\ UNCHANGED <<booked, bookings, locks>>
     \/ /\ Allowed(l.user, l.booking, l.slot)
        /\ bookings[l.booking].status = "cancelled"
        /\ Release(r)
        /\ Reply(r, "ok")
        /\ UNCHANGED <<booked, bookings>>
     \/ /\ Allowed(l.user, l.booking, l.slot)
        /\ bookings[l.booking].status # "cancelled"
        /\ bookings' = [bookings EXCEPT ![l.booking].status = "cancelled"]
        /\ booked' = CancelledFlags(l.slot)
        /\ Release(r)
        /\ Goto(r, "reload")
        /\ UNCHANGED loc
  /\ UNCHANGED <<live, waitList, env>>

\* Mutant: the request is answered before the waiters are looked at.
CancelReloadAnswers(r) ==
  /\ pc[r] = "reload"
  /\ Reply(r, "ok")
  /\ UNCHANGED <<tables, locks, env>>

\* slot.id is read from an object the commit has expired: the row is read
\* again, and ObjectDeletedError is raised if it is gone.
CancelReload(r) ==
  /\ pc[r] = "reload"
  /\ IF loc[r].slot \in live THEN Goto(r, "promote") /\ UNCHANGED loc
                             ELSE Reply(r, "error")
  /\ UNCHANGED <<tables, locks, env>>

-------------------------------------------------------------------------------
(***************************************************************************)
(* PATCH /bookings/{id}/reschedule: booking and slot are read without a    *)
(* lock, the caller is checked, and reschedule_booking takes over.         *)
(***************************************************************************)
RescheduleReadBooking(r) ==
  /\ \E u \in Users, b \in BookingIds, s \in Slots :
       /\ Exists(b)
       /\ Begin(r, "rs_slot",
                [NoLocals EXCEPT !.op = "reschedule", !.user = u, !.booking = b, !.slot = s,
                                 !.seenSlot = bookings[b].slot,
                                 !.seenStatus = bookings[b].status])
  /\ UNCHANGED <<tables, locks, env>>

RescheduleReadSlot(r) ==
  LET l == loc[r]
      ok == l.seenSlot \in live /\ Allowed(l.user, l.booking, l.seenSlot) IN
  /\ pc[r] = "rs_slot"
  /\ \/ ~ok /\ Reply(r, "rejected")
     \/ /\ ok
        /\ Local(r, [l EXCEPT !.seenFlag = IF l.seenSlot \in booked THEN "booked" ELSE "free"])
        /\ Goto(r, "rs_lock_booking")
  /\ UNCHANGED <<tables, locks, env>>

-------------------------------------------------------------------------------
(***************************************************************************)
(* DELETE /specialists/me/slots/{id}: the specialist's own slot, not       *)
(* booked when read.  The flush first detaches the bookings that name the  *)
(* slot, whatever their status, and fails on slot_id, which is NOT NULL,   *)
(* without touching the slot; with none, the DELETE waits for the row      *)
(* lock, meets the foreign key's RESTRICT, and wait-list entries CASCADE.  *)
(***************************************************************************)
DeleteRead(r) ==
  /\ \E u \in Users, s \in live \ booked :
       /\ Role[u] \in {"specialist", "admin"}
       /\ Owner[s] = u
       /\ Begin(r, "delete", [NoLocals EXCEPT !.op = "delete", !.user = u, !.slot = s])
  /\ UNCHANGED <<tables, locks, env>>

\* Mutant: the migration made bookings.slot_id ON DELETE CASCADE or dropped it.
NoForeignKey(s) == FALSE

\* bookings.slot_id: NOT NULL, ON DELETE RESTRICT.
Referenced(s) == \E b \in BookingIds : Exists(b) /\ bookings[b].slot = s

DeleteFlush(r) ==
  LET s == loc[r].slot IN
  /\ pc[r] = "delete"
  /\ \/ Referenced(s) /\ Reply(r, "error") /\ UNCHANGED tables
     \/ /\ ~Referenced(s)
        /\ slotLock[s] = Nil
        /\ live' = live \ {s}
        /\ booked' = booked \ {s}
        /\ waitList' = [waitList EXCEPT ![s] = [c \in Users |-> 0]]
        /\ Reply(r, "ok")
        /\ UNCHANGED bookings
  /\ UNCHANGED <<locks, env>>
===============================================================================
