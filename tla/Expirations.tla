----------------------------- MODULE Expirations ------------------------------
(***************************************************************************)
(* app/tasks/expirations.py: the task Celery beat sends every              *)
(* celery_expiration_interval_minutes.  It reads the stale bookings        *)
(* without a lock, lazy-loads their slots one by one, and flushes the      *)
(* changed rows when it commits: the unit of work updates time_slots       *)
(* before bookings and each table in primary key order, waiting for the    *)
(* row locks it meets.  Afterwards it promotes a waiter for every expired  *)
(* booking.                                                                *)
(***************************************************************************)
EXTENDS WaitListService

Lowest(S) == CHOOSE x \in S : \A y \in S : x <= y

\* The bookings the task's SELECT returns.
StaleBookings == {b \in BookingIds : Confirmed(b) /\ bookings[b].slot \in started}

\* With nothing stale the task ends at once and changes nothing.
ExpireSelect(r) ==
  /\ StaleBookings # {}
  /\ RoomFor(Least(MayWait, Cardinality(StaleBookings)))
  /\ Begin(r, "ex_load",
           [NoLocals EXCEPT !.op = "expire", !.stale = StaleBookings,
                            !.load = {bookings[b].slot : b \in StaleBookings}])
  /\ UNCHANGED <<tables, locks, env>>

\* booking.slot.is_booked = False: the slot is loaded as it is now, and is
\* written only if it was loaded as booked.  A slot that is gone loads as None.
ExpireLoad(r) ==
  LET l == loc[r] IN
  /\ pc[r] = "ex_load"
  /\ \E s \in l.load :
       IF s \in live
         THEN /\ Local(r, [l EXCEPT !.load = l.load \ {s},
                                    !.dirty = IF s \in booked THEN l.dirty \cup {s} ELSE l.dirty])
              /\ IF l.load = {s} THEN Goto(r, "ex_flush") ELSE UNCHANGED pc
         ELSE Reply(r, "error")
  /\ UNCHANGED <<tables, locks, env>>

\* Rows the flush has still to UPDATE: the task holds the lock of the others.
SlotsLeft(r) == {s \in loc[r].dirty : slotLock[s] # r}
BookingsLeft(r) == {b \in loc[r].stale : bookLock[b] # r}

\* An UPDATE that meets no row is a StaleDataError, which ends the task.
ExpireFlushSlot(r) ==
  LET s == Lowest(SlotsLeft(r)) IN
  /\ pc[r] = "ex_flush"
  /\ SlotsLeft(r) # {}
  /\ slotLock[s] = Nil
  /\ IF s \in live
       THEN LockSlots(r, {s}) /\ UNCHANGED <<bookLock, pc, loc>>
       ELSE Release(r) /\ Reply(r, "error")
  /\ UNCHANGED <<tables, env>>

ExpireFlushBooking(r) ==
  LET b == Lowest(BookingsLeft(r)) IN
  /\ pc[r] = "ex_flush"
  /\ SlotsLeft(r) = {}
  /\ BookingsLeft(r) # {}
  /\ bookLock[b] = Nil
  /\ LockBooking(r, b)
  /\ UNCHANGED <<tables, slotLock, env, pc, loc>>

\* Mutant: the slot of an expired booking is not freed.
ExpiredFlagsKeep(l) == booked

ExpiredFlags(l) == booked \ l.dirty

\* Mutant: the new status never reaches the table.
ExpiredRowsKept(l) == bookings

ExpiredRows(l) ==
  [b \in BookingIds |->
     IF b \in l.stale THEN [bookings[b] EXCEPT !.status = "expired"] ELSE bookings[b]]

ExpireCommit(r) ==
  /\ pc[r] = "ex_flush"
  /\ SlotsLeft(r) = {}
  /\ BookingsLeft(r) = {}
  /\ booked' = ExpiredFlags(loc[r])
  /\ bookings' = ExpiredRows(loc[r])
  /\ Release(r)
  /\ Goto(r, "next")
  /\ UNCHANGED <<live, waitList, env, loc>>

\* Mutant: the last of the expired bookings is left out.
ExpireNextStopsShort(r) ==
  /\ pc[r] = "next"
  /\ \/ Cardinality(loc[r].stale) <= 1 /\ Reply(r, "ok")
     \/ \E b \in loc[r].stale :
          /\ Cardinality(loc[r].stale) > 1
          /\ Local(r, [loc[r] EXCEPT !.stale = loc[r].stale \ {b}, !.slot = bookings[b].slot])
          /\ Goto(r, "promote")
  /\ UNCHANGED <<tables, locks, env>>

\* The second loop, in the unspecified order of the SELECT: the commit has
\* expired the booking object, so slot_id is read again.  An exception of a
\* promotion leaves the loop.
ExpireNext(r) ==
  /\ pc[r] = "next"
  /\ \/ loc[r].stale = {} /\ Reply(r, "ok")
     \/ \E b \in loc[r].stale :
          /\ Local(r, [loc[r] EXCEPT !.stale = loc[r].stale \ {b}, !.slot = bookings[b].slot])
          /\ Goto(r, "promote")
  /\ UNCHANGED <<tables, locks, env>>
===============================================================================
