----------------------------- MODULE BookingSystem ----------------------------
(***************************************************************************)
(* The endpoints and the expiration task on one database: the API workers  *)
(* and the Celery workers are the sessions, Ops says which of them runs    *)
(* what, and PostgreSQL breaks the deadlocks they run into.                *)
(***************************************************************************)
EXTENDS BookingApi, Expirations

Init ==
  /\ live = Slots
  /\ booked = {}
  /\ bookings = [b \in BookingIds |-> NoRow]
  /\ waitList = [s \in Slots |-> [c \in Users |-> 0]]
  /\ ticket = 0
  /\ started = {}
  /\ slotLock = [s \in Slots |-> Nil]
  /\ bookLock = [b \in BookingIds |-> Nil]
  /\ pc = [r \in Sessions |-> "idle"]
  /\ loc = [r \in Sessions |-> NoLocals]

\* The clock passes start_at + booking_expire_after_start_minutes of a slot.
\* Only the expiration task looks at the clock.
Start(s) ==
  /\ \E r \in Sessions : "expire" \in Ops[r]
  /\ s \in live \ started
  /\ started' = started \cup {s}
  /\ UNCHANGED <<tables, locks, ticket, pc, loc>>

-------------------------------------------------------------------------------
(***************************************************************************)
(* Waiting for a row lock, and PostgreSQL's deadlock detector: it rolls    *)
(* back the transaction of one session of the cycle, whose statement       *)
(* raises an OperationalError that no handler on the way catches.          *)
(***************************************************************************)
WaitsFor(p, q) ==
  \/ pc[p] = "lock_booking" /\ bookLock[loc[p].booking] = q
  \/ pc[p] = "cn_slot" /\ slotLock[bookings[loc[p].booking].slot] = q
  \/ pc[p] = "wl_insert" /\ KeyShareWaits(loc[p].slot) /\ slotLock[loc[p].slot] = q
  \/ pc[p] = "delete" /\ ~Referenced(loc[p].slot) /\ slotLock[loc[p].slot] = q
  \/ pc[p] = "ex_flush" /\ SlotsLeft(p) # {} /\ slotLock[Lowest(SlotsLeft(p))] = q
  \/ /\ pc[p] = "ex_flush" /\ SlotsLeft(p) = {} /\ BookingsLeft(p) # {}
     /\ bookLock[Lowest(BookingsLeft(p))] = q

\* A session waits for one other at most, so these sets are unions of cycles.
Deadlocked(r) ==
  \E D \in SUBSET Sessions :
    /\ r \in D
    /\ \A p \in D : (\E q \in D : WaitsFor(p, q)) /\ (\E q \in D : WaitsFor(q, p))

DeadlockAbort(r) ==
  /\ Deadlocked(r)
  /\ Release(r)
  /\ Reply(r, "error")
  /\ UNCHANGED <<tables, env>>

-------------------------------------------------------------------------------
\* A request or a task run arrives at session r.
Arrive(r) ==
  \/ CreateBegin(r)
  \/ CancelBegin(r)
  \/ RescheduleReadBooking(r)
  \/ JoinReadSlot(r)
  \/ LeaveRead(r)
  \/ DeleteRead(r)
  \/ ExpireSelect(r)

\* Session r runs the next statement of what it is doing.
Step(r) ==
  \/ CreateLookup(r)
  \/ CreateLockSlot(r)
  \/ CreateUpdateSlot(r)
  \/ CreateInsert(r)
  \/ CreateRecheck(r)
  \/ CancelLockBooking(r)
  \/ CancelLockSlot(r)
  \/ CancelCommit(r)
  \/ CancelReload(r)
  \/ RescheduleReadSlot(r)
  \/ RescheduleLockBooking(r)
  \/ RescheduleLockSlots(r)
  \/ RescheduleCommit(r)
  \/ JoinCheckBooking(r)
  \/ JoinInsert(r)
  \/ LeaveDelete(r)
  \/ PromoteRead(r)
  \/ PromoteDrop(r)
  \/ DeleteFlush(r)
  \/ ExpireLoad(r)
  \/ ExpireFlushSlot(r)
  \/ ExpireFlushBooking(r)
  \/ ExpireCommit(r)
  \/ ExpireNext(r)
  \/ Close(r)

Act(r) == Arrive(r) \/ Step(r) \/ Crash(r) \/ DeadlockAbort(r)

Next ==
  \/ \E r \in Sessions : Act(r)
  \/ \E s \in Slots : Start(s)

Spec == Init /\ [][Next]_vars

(***************************************************************************)
(* Fairness.  A worker keeps running its handler.  A statement that waits  *)
(* for a row lock is queued by PostgreSQL, which wakes the waiters of a    *)
(* row in turn: a session whose lock becomes free again and again gets it, *)
(* hence SF.  The deadlock detector runs after deadlock_timeout.  Celery   *)
(* beat sends the expiration task for ever.  No request ever has to come.  *)
(***************************************************************************)
Fairness ==
  \A r \in Sessions :
    /\ SF_vars(Step(r))
    /\ WF_vars(DeadlockAbort(r))
    /\ WF_vars(ExpireSelect(r))

FairSpec == Spec /\ Fairness

-------------------------------------------------------------------------------
(***************************************************************************)
(* Properties of the tables.                                               *)
(***************************************************************************)
TablesOK ==
  /\ live \in SUBSET Slots
  /\ booked \in SUBSET live
  /\ bookings \in [BookingIds -> Row]
  /\ waitList \in [Slots -> [Users -> Nat]]
  /\ ticket \in 0 .. MaxTicket
  /\ started \in SUBSET Slots

SessionsOK ==
  /\ pc \in [Sessions -> Pcs]
  /\ loc \in [Sessions -> Locals]

LockTypesOK ==
  /\ slotLock \in [Slots -> Sessions \cup {Nil}]
  /\ bookLock \in [BookingIds -> Sessions \cup {Nil}]

\* Every variable has its type; in particular only slots that have a row are
\* marked booked.
TypeOK == TablesOK /\ SessionsOK /\ LockTypesOK

\* No double booking: two confirmed bookings never name the same slot.  The
\* NOWAIT lock and the conditional UPDATE of create_booking_for_slot and the
\* checks of reschedule_booking are there to keep this.
NoDoubleBooking ==
  \A a, b \in BookingIds :
    Confirmed(a) /\ Confirmed(b) /\ bookings[a].slot = bookings[b].slot => a = b

\* No slot is lost: a slot marked booked has a confirmed booking, else nobody
\* can ever book it again (no handler but cancel or expiry of such a booking
\* clears the flag).
NoLostSlot ==
  \A s \in booked : \E b \in BookingIds : Confirmed(b) /\ bookings[b].slot = s

\* No slot is sold while it is taken: the slot of a confirmed booking is marked
\* booked.  The handlers decide on the flag alone.
NoUnmarkedBooking == \A b \in BookingIds : Confirmed(b) => bookings[b].slot \in booked

\* An Idempotency-Key names one booking of its client, however many requests
\* with that key run at the same time (the lookup and the INSERT are apart).
KeyNamesOneBooking ==
  \A a, b \in BookingIds :
    /\ Exists(a) /\ Exists(b)
    /\ bookings[a].key # Nil
    /\ bookings[a].client = bookings[b].client
    /\ bookings[a].key = bookings[b].key
    => a = b

\* The slot of a booking is never deleted, although delete_slot_for_me checks
\* is_booked without a lock and a booking can be made before its DELETE.
NoOrphan == \A b \in BookingIds : Exists(b) => bookings[b].slot \in live

\* A create request that is answered 201 is answered with a booking of its own
\* client, under its own key, made for the slot it asked for.
CreatedAnswersRequest ==
  \A r \in Sessions :
    pc[r] = "done" /\ loc[r].op = "create" /\ loc[r].reply = "created" =>
      LET row == bookings[loc[r].booking] IN
      row.client = loc[r].client /\ row.key = loc[r].key /\ row.asked = loc[r].slot

\* 409 "Idempotency key already used with another slot" is only said of a key
\* that was used to ask for another slot.
KeyReuseIsReal ==
  \A r \in Sessions :
    pc[r] = "done" /\ loc[r].reply = "key_reuse" => bookings[loc[r].booking].asked # loc[r].slot

-------------------------------------------------------------------------------
(***************************************************************************)
(* Properties of steps.                                                    *)
(***************************************************************************)
\* A booking is never removed, keeps its client and its key, and is never
\* confirmed again once it is cancelled or expired, although reschedule and the
\* expiration task write rows they read before their locks.  (How it ended may
\* still change: the task can turn a cancelled booking into an expired one.)
BookingHistory ==
  [][\A b \in BookingIds : Exists(b) =>
       /\ Exists(b)'
       /\ bookings[b].client = bookings[b].client'
       /\ bookings[b].key = bookings[b].key'
       /\ Confirmed(b)' => Confirmed(b)]_vars

\* A booking stays with its specialist, whatever it is moved to and from, also
\* when several requests move it at once.
SpecialistStable ==
  [][\A b \in BookingIds : Exists(b) =>
       Owner[bookings[b].slot] = Owner[bookings[b].slot']]_vars

\* A booking comes to a slot, by a request, a promotion or a move, only while the
\* slot is still marked free when it commits, and leaves it marked: whatever else
\* overlaps, a slot can be sold twice only after something cleared its flag.
SoldWhileFree ==
  [][\A b \in BookingIds :
       Exists(b)' /\ (~Exists(b) \/ bookings[b].slot # bookings[b].slot') =>
         bookings[b].slot' \notin booked /\ bookings[b].slot' \in booked']_vars

\* Of two clients waiting for a slot, the one who asked first is promoted first.
\* Requests to wait that overlap are another matter, see OutOfTurnOnlyBy.
PromotedInTurn ==
  [][\A r \in Sessions, b \in BookingIds :
       /\ pc[r] = "insert" /\ loc[r].op # "create"
       /\ ~Exists(b) /\ Exists(b)'
       /\ pc'[r] = "drop_entry"
       => \A d \in Waiting(loc[r].slot) : loc[r].entry <= waitList[loc[r].slot][d]]_vars

\* Session r is promoting an entry although somebody waits who asked earlier.
OutOfTurn(r) ==
  /\ pc[r] \in {"lock_slot", "update_slot", "insert"} /\ loc[r].op # "create"
  /\ \E d \in Waiting(loc[r].slot) : waitList[loc[r].slot][d] < loc[r].entry

\* Whatever overlaps, a promotion gets out of turn in one way only: an entry is
\* inserted that asked earlier (its created_at is that of the start of its
\* transaction) after the promotion read the head of the list.
OutOfTurnOnlyBy ==
  [][\A r \in Sessions : ~OutOfTurn(r) /\ OutOfTurn(r)' =>
       \E q \in Sessions :
         /\ pc[q] = "wl_insert" /\ pc'[q] = "done"
         /\ loc[q].slot = loc[r].slot /\ loc[q].entry < loc[r].entry]_vars

-------------------------------------------------------------------------------
(***************************************************************************)
(* Properties of the wait list while requests overlap.  Promotion is not   *)
(* atomic, so a client can be left waiting for a free slot, or for a slot  *)
(* they hold; these say by which steps, and that no other step does it, as *)
(* long as the operations that free slots do not overlap each other (see   *)
(* FreeingSerialised: what they remember of bookings may be wrong else).   *)
(***************************************************************************)
Promoting == {"reload", "promote", "lock_slot", "update_slot", "insert"}

\* Session r is on its way to offer slot s to whoever waits for it.
Offers(r, s) ==
  /\ loc[r].op \in {"cancel", "expire"}
  /\ \/ pc[r] \in Promoting /\ loc[r].slot = s
     \/ /\ pc[r] \in Promoting \cup {"next", "drop_entry"}
        /\ \E b \in loc[r].stale : bookings[b].slot = s

\* Clients wait for a free slot and nobody is going to offer it to them.
Abandoned(s) ==
  s \in live \ booked /\ Waiting(s) # {} /\ \A r \in Sessions : ~Offers(r, s)

\* The promotions of session r end here without having gone through: it dies, or
\* an exception of create_booking_for_slot or of the deletion ends the request.
GivesUp(r) ==
  pc'[r] \in {"idle", "recheck"} \/ (pc'[r] = "done" /\ loc'[r].reply \in {"rejected", "error"})

\* Waiters are abandoned in three ways only: an entry is inserted after the slot
\* it is for was freed (the is_booked check of add_client_to_wait_list is older
\* than its INSERT), reschedule_booking frees a slot (it promotes nobody), or a
\* session that was to promote gives up.
WaitersLeftBehind ==
  [][\A s \in Slots : ~Abandoned(s) /\ Abandoned(s)' =>
       \E r \in Sessions :
         \/ pc[r] = "wl_insert" /\ loc[r].slot = s /\ Waiting(s) = {}
         \/ pc[r] = "rs_commit" /\ loc[r].seenSlot = s
         \/ Offers(r, s) /\ GivesUp(r)]_vars

\* Where no session interferes with another and none dies, rescheduling is the
\* only way: whoever else frees a slot goes on to offer it to its waiters.
OnlyMovesLeaveWaiters ==
  [][\A s \in Slots : ~Abandoned(s) /\ Abandoned(s)' =>
       \E r \in Sessions : pc[r] = "rs_commit" /\ loc[r].seenSlot = s]_vars

Holds(c, s) == \E b \in BookingIds : Confirmed(b) /\ bookings[b].slot = s /\ bookings[b].client = c

\* Client c holds slot s and waits for it, and nobody is about to drop the entry.
WaitsForOwn(c, s) ==
  /\ Holds(c, s) /\ c \in Waiting(s)
  /\ \A r \in Sessions :
       ~(pc[r] = "drop_entry" /\ loc[r].slot = s /\ loc[r].client = c
         /\ loc[r].entry = waitList[s][c])

\* A client comes to wait for a slot of their own in these ways only: their own
\* request to wait was checked before they got the slot; the booking is made by a
\* session that does not know their entry (a direct booking, or a promotion from
\* an entry replaced since it was read); they are moved to the slot; or the
\* session dies before it deletes the entry, which nothing makes up for.
WaitsForOwnOnlyBy ==
  [][\A c \in Users, s \in Slots : ~WaitsForOwn(c, s) /\ WaitsForOwn(c, s)' =>
       \E r \in Sessions :
         \/ pc[r] = "wl_insert" /\ loc[r].client = c /\ loc[r].slot = s
         \/ /\ pc[r] = "insert" /\ loc[r].client = c /\ loc[r].slot = s
            /\ loc[r].entry # waitList[s][c]
         \/ pc[r] = "rs_commit" /\ loc[r].slot = s
         \/ pc[r] = "drop_entry" /\ pc'[r] = "idle"]_vars

-------------------------------------------------------------------------------
(***************************************************************************)
(* What makes the properties of the tables inductive, whatever the         *)
(* sessions are asked to do.                                               *)
(***************************************************************************)
RescheduleAt == {"rs_slot", "rs_lock_booking", "rs_lock_slots", "rs_commit"}
NoSlotYet == {"idle", "lock_booking", "cn_slot", "ex_load", "ex_flush", "next", "done"}

\* A session has the arguments its next statement uses, and the bookings it
\* remembers exist.
ArgsAt(r) ==
  LET l == loc[r] IN
  /\ pc[r] \notin NoSlotYet => l.slot \in Slots
  /\ pc[r] \in RescheduleAt => l.seenSlot \in Slots
  /\ pc[r] \in RescheduleAt \cup {"lock_booking", "cn_slot", "cancel"} =>
       l.booking \in BookingIds /\ Exists(l.booking)
  /\ \A b \in l.stale : Exists(b)

ArgsOK == \A r \in Sessions : ArgsAt(r)

\* The row locks a session holds when it is about to write under them, and what
\* they have kept as it was: the slot is there, the booking is still on the
\* slot that cancel has locked.
LocksAt(r) ==
  LET l == loc[r] IN
  /\ pc[r] \in {"update_slot", "insert"} => slotLock[l.slot] = r /\ l.slot \in live
  /\ pc[r] \in {"rs_lock_slots", "rs_commit"} => bookLock[l.booking] = r
  /\ pc[r] = "rs_commit" =>
       /\ slotLock[l.seenSlot] = r /\ l.seenSlot \in live
       /\ slotLock[l.slot] = r /\ l.slot \in live
  /\ pc[r] \in {"cn_slot", "cancel"} => bookLock[l.booking] = r
  /\ pc[r] = "cancel" => slotLock[l.slot] = r /\ bookings[l.booking].slot = l.slot

LocksOK == \A r \in Sessions : LocksAt(r)

\* The inductive invariant behind TypeOK, NoOrphan and KeyNamesOneBooking.
StoreInv == TypeOK /\ NoOrphan /\ ArgsOK /\ LocksOK

(***************************************************************************)
(* The flag of a slot and its confirmed booking agree if the operations    *)
(* that free a slot never overlap, save for cancellations with one another *)
(* (they lock what they change), and expired bookings are not cancelled.   *)
(***************************************************************************)
Frees == {"cancel", "reschedule", "expire"}

FreeingSerialised ==
  /\ \A p, q \in Sessions :
       p # q /\ Ops[p] \cap {"reschedule", "expire"} # {} => Ops[q] \cap Frees = {}
  /\ \A p, q \in Sessions : ~("cancel" \in Ops[p] /\ "expire" \in Ops[q])

\* A session only runs what it was asked to.
OpsAt(r) ==
  /\ pc[r] # "idle" => loc[r].op \in Ops[r]
  /\ pc[r] \in RescheduleAt => loc[r].op = "reschedule"
  /\ pc[r] \in {"lock_booking", "cn_slot", "cancel"} => loc[r].op = "cancel"
  /\ pc[r] \in {"ex_load", "ex_flush"} => loc[r].op = "expire"

\* What reschedule_booking remembers of booking and slot is still so.
SeenAt(r) ==
  LET l == loc[r] IN
  pc[r] \in RescheduleAt =>
    /\ bookings[l.booking].slot = l.seenSlot
    /\ bookings[l.booking].status = l.seenStatus
    /\ pc[r] # "rs_slot" /\ l.seenStatus = "confirmed" => l.seenFlag = "booked"
    /\ pc[r] \in {"rs_lock_slots", "rs_commit"} => l.seenStatus = "confirmed" /\ l.seenSlot # l.slot

\* What the expiration task remembers of its bookings is still so.
StaleAt(r) ==
  LET l == loc[r] IN
  pc[r] \in {"ex_load", "ex_flush"} =>
    /\ \A b \in l.stale : Confirmed(b) /\ bookings[b].slot \in l.load \cup l.dirty
    /\ \A s \in l.load \cup l.dirty : \E b \in l.stale : bookings[b].slot = s
    /\ pc[r] = "ex_flush" => l.load = {}

\* The slot a session is about to mark booked is still free.
TargetFreeAt(r) == pc[r] \in {"insert", "rs_commit"} => loc[r].slot \notin booked

\* The inductive invariant behind SoldWhileFree, on top of StoreInv.
TargetsFree == \A r \in Sessions : TargetFreeAt(r)

MemoryOK ==
  \A r \in Sessions : OpsAt(r) /\ SeenAt(r) /\ StaleAt(r) /\ TargetFreeAt(r)

\* Nothing is expired where nothing expires.
NoneExpired ==
  (\A r \in Sessions : "expire" \notin Ops[r]) =>
    \A b \in BookingIds : bookings[b].status # "expired"

\* The flag and the bookings agree.
FlagAgrees == NoDoubleBooking /\ NoLostSlot /\ NoUnmarkedBooking

\* The inductive invariant behind FlagAgrees, on top of StoreInv.
FlagInv == FlagAgrees /\ NoneExpired /\ MemoryOK

-------------------------------------------------------------------------------
(***************************************************************************)
(* Liveness.                                                               *)
(***************************************************************************)
\* Every request and every task run comes to an end, whatever locks it meets.
EveryRequestEnds == \A r \in Sessions : pc[r] # "idle" ~> pc[r] = "idle"

\* A confirmed booking of a slot that started long enough ago does not stay so.
StaleBookingsExpire ==
  \A b \in BookingIds : b \in StaleBookings ~> b \notin StaleBookings
===============================================================================
