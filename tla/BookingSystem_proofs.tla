------------------------- MODULE BookingSystem_proofs -------------------------
(***************************************************************************)
(* Proofs about BookingSystem, for any number of sessions, users, slots,   *)
(* bookings and keys.                                                      *)
(*                                                                         *)
(* First StoreInv, which needs nothing of what the sessions are asked to   *)
(* do: types, arguments, the locks held at each statement, and that no     *)
(* booking loses its slot.  Then FlagInv, which holds if the operations    *)
(* that free a slot are serialised.                                        *)
(***************************************************************************)
EXTENDS BookingSystem, TLAPS

-------------------------------------------------------------------------------
(***************************************************************************)
(* Local records: what an update of some fields leaves of the others.      *)
(***************************************************************************)
\* The fields of a local state have their types.
LEMMA LocalFields ==
  ASSUME NEW l \in Locals
  PROVE  /\ l.stale \in SUBSET BookingIds
         /\ l.load \in SUBSET Slots
         /\ l.dirty \in SUBSET Slots
         /\ l.slot \in Slots \cup {Nil}
         /\ l.seenSlot \in Slots \cup {Nil}
         /\ l.client \in Users \cup {Nil}
         /\ l.key \in Keys \cup {Nil}
         /\ l.booking \in BookingIds \cup {Nil}
         /\ l.entry \in Nat
  BY DEF Locals

\* An idle session has a local state.
LEMMA NoLocalsType == NoLocals \in Locals
  BY DEF Locals, NoLocals, Replies

\* The arguments POST /bookings starts with are a local state.
LEMMA CreateArgs ==
  ASSUME NEW u \in Users, NEW s \in Slots, NEW k \in Keys \cup {Nil}
  PROVE  [NoLocals EXCEPT !.op = "create", !.user = u, !.client = u,
                          !.slot = s, !.key = k] \in Locals
  BY NoLocalsType DEF Locals, OpNames

\* The arguments the cancel endpoint starts with are a local state.
LEMMA CancelArgs ==
  ASSUME NEW u \in Users, NEW b \in BookingIds
  PROVE  [NoLocals EXCEPT !.op = "cancel", !.user = u, !.booking = b] \in Locals
  BY NoLocalsType DEF Locals, OpNames

\* What the reschedule endpoint has read of the booking is a local state.
LEMMA RescheduleArgs ==
  ASSUME NEW u \in Users, NEW b \in BookingIds, NEW s \in Slots,
         NEW row \in Row, row.status # "absent"
  PROVE  [NoLocals EXCEPT !.op = "reschedule", !.user = u, !.booking = b, !.slot = s,
                          !.seenSlot = row.slot, !.seenStatus = row.status] \in Locals
  BY NoLocalsType DEF Locals, OpNames, Row

\* The arguments of a request to wait are a local state.
LEMMA JoinArgs ==
  ASSUME NEW u \in Users, NEW s \in Slots, NEW n \in Nat
  PROVE  [NoLocals EXCEPT !.op = "join", !.user = u, !.client = u,
                          !.slot = s, !.entry = n] \in Locals
  BY NoLocalsType DEF Locals, OpNames

\* The entry that is about to be left is a local state.
LEMMA LeaveArgs ==
  ASSUME NEW u \in Users, NEW c \in Users, NEW s \in Slots, NEW n \in Nat
  PROVE  [NoLocals EXCEPT !.op = "leave", !.user = u, !.client = c,
                          !.slot = s, !.entry = n] \in Locals
  BY NoLocalsType DEF Locals, OpNames

\* The slot that is about to be deleted is a local state.
LEMMA DeleteArgs ==
  ASSUME NEW u \in Users, NEW s \in Slots
  PROVE  [NoLocals EXCEPT !.op = "delete", !.user = u, !.slot = s] \in Locals
  BY NoLocalsType DEF Locals, OpNames

\* What the expiration task has selected is a local state.
LEMMA ExpireArgs ==
  ASSUME NEW B \in SUBSET BookingIds, NEW S \in SUBSET Slots
  PROVE  [NoLocals EXCEPT !.op = "expire", !.stale = B, !.load = S] \in Locals
  BY NoLocalsType DEF Locals, OpNames

\* Answering with a booking keeps the type.
LEMMA AnswerFields ==
  ASSUME NEW l \in Locals, NEW b \in BookingIds, NEW code \in Replies
  PROVE  /\ [l EXCEPT !.booking = b, !.reply = code] \in Locals
         /\ [l EXCEPT !.booking = b, !.reply = code].stale = l.stale
  BY DEF Locals

\* Remembering the locked slot keeps the type.
LEMMA SlotFields ==
  ASSUME NEW l \in Locals, NEW s \in Slots
  PROVE  [l EXCEPT !.slot = s] \in Locals
  BY DEF Locals

\* Remembering is_booked keeps the type and the other fields.
LEMMA FlagFields ==
  ASSUME NEW l \in Locals, NEW f \in {"free", "booked"}
  PROVE  /\ [l EXCEPT !.seenFlag = f] \in Locals
         /\ [l EXCEPT !.seenFlag = f].stale = l.stale
         /\ [l EXCEPT !.seenFlag = f].slot = l.slot
         /\ [l EXCEPT !.seenFlag = f].seenSlot = l.seenSlot
         /\ [l EXCEPT !.seenFlag = f].booking = l.booking
  BY DEF Locals

\* Remembering the head of the wait list keeps the type and the other fields.
LEMMA EntryFields ==
  ASSUME NEW l \in Locals, NEW c \in Users, NEW n \in Nat
  PROVE  /\ [l EXCEPT !.client = c, !.entry = n] \in Locals
         /\ [l EXCEPT !.client = c, !.entry = n].stale = l.stale
         /\ [l EXCEPT !.client = c, !.entry = n].slot = l.slot
  BY DEF Locals

\* Loading a slot keeps the type and the other fields.
LEMMA LoadFields ==
  ASSUME NEW l \in Locals, NEW S \in SUBSET Slots, NEW T \in SUBSET Slots
  PROVE  /\ [l EXCEPT !.load = S, !.dirty = T] \in Locals
         /\ [l EXCEPT !.load = S, !.dirty = T].stale = l.stale
  BY DEF Locals

\* Taking the next expired booking keeps the type.
LEMMA NextFields ==
  ASSUME NEW l \in Locals, NEW B \in SUBSET BookingIds, NEW s \in Slots
  PROVE  /\ [l EXCEPT !.stale = B, !.slot = s] \in Locals
         /\ [l EXCEPT !.stale = B, !.slot = s].stale = B
         /\ [l EXCEPT !.stale = B, !.slot = s].slot = s
  BY DEF Locals

-------------------------------------------------------------------------------
(***************************************************************************)
(* The building blocks of the actions.                                     *)
(***************************************************************************)
\* Goto leaves the session at the statement it names.
LEMMA GotoAt ==
  ASSUME SessionsOK, NEW r \in Sessions, NEW p, Goto(r, p)
  PROVE  pc'[r] = p
  BY DEF SessionsOK, Goto

\* Local leaves the session with the local state it names.
LEMMA LocalAt ==
  ASSUME SessionsOK, NEW r \in Sessions, NEW l, Local(r, l)
  PROVE  loc'[r] = l
  BY DEF SessionsOK, Local

\* Reply ends the handler and keeps its arguments.
LEMMA ReplyAt ==
  ASSUME SessionsOK, NEW r \in Sessions, NEW code, Reply(r, code)
  PROVE  pc'[r] = "done" /\ loc'[r].stale = loc[r].stale /\ loc'[r].op = loc[r].op
<1>1. loc[r] \in Locals /\ loc'[r] = [loc[r] EXCEPT !.reply = code]
  BY DEF SessionsOK, Local, Reply
<1>2. loc'[r].stale = loc[r].stale /\ loc'[r].op = loc[r].op
  BY <1>1 DEF Locals
<1> QED
  BY <1>2 DEF SessionsOK, Reply, Goto

\* A new local state and a new statement keep the types of the sessions.
LEMMA LocalStep ==
  ASSUME SessionsOK, NEW r \in Sessions, NEW l \in Locals, NEW p \in Pcs,
         Local(r, l), Goto(r, p)
  PROVE  SessionsOK'
  BY DEF SessionsOK, Local, Goto

\* A new statement keeps the types of the sessions.
LEMMA GotoStep ==
  ASSUME SessionsOK, NEW r \in Sessions, NEW p \in Pcs, Goto(r, p), UNCHANGED loc
  PROVE  SessionsOK'
  BY DEF SessionsOK, Goto

\* An answer keeps the types of the sessions.
LEMMA ReplyStep ==
  ASSUME SessionsOK, NEW r \in Sessions, NEW code \in Replies, Reply(r, code)
  PROVE  SessionsOK'
<1>1. loc[r] \in Locals
  BY DEF SessionsOK
<1>2. [loc[r] EXCEPT !.reply = code] \in Locals
  BY <1>1 DEF Locals
<1>3. "done" \in Pcs
  BY DEF Pcs
<1> QED
  BY <1>2, <1>3, LocalStep DEF Reply

\* The slots of existing bookings are slots.
LEMMA SlotOfBooking ==
  ASSUME StoreInv, NEW b \in BookingIds, Exists(b)
  PROVE  bookings[b] \in Row /\ bookings[b].slot \in Slots
  BY DEF StoreInv, TypeOK, TablesOK, NoOrphan

-------------------------------------------------------------------------------
(***************************************************************************)
(* Types.                                                                  *)
(***************************************************************************)
\* Every action keeps the types of pc and loc.
LEMMA SessionsStep ==
  ASSUME StoreInv, NEW r \in Sessions, Act(r)
  PROVE  SessionsOK'
<1>a. SessionsOK /\ loc[r] \in Locals
  BY DEF StoreInv, TypeOK, SessionsOK
<1>1. CASE CreateBegin(r)
  BY <1>a, <1>1, CreateArgs, LocalStep DEF CreateBegin, Begin, Pcs
<1>2. CASE CancelBegin(r)
  BY <1>a, <1>2, CancelArgs, LocalStep DEF CancelBegin, Begin, Pcs
<1>3. CASE RescheduleReadBooking(r)
  BY <1>a, <1>3, RescheduleArgs, SlotOfBooking, LocalStep DEF RescheduleReadBooking, Begin,
     Exists, Pcs
<1>4. CASE JoinReadSlot(r)
  <2>1. ticket + 1 \in Nat /\ live \subseteq Slots
    BY StoreAssumption DEF StoreAssumption, StoreInv, TypeOK, TablesOK
  <2> QED
    BY <1>a, <1>4, <2>1, JoinArgs, LocalStep DEF JoinReadSlot, Begin, Pcs
<1>5. CASE LeaveRead(r)
  <2>1. PICK u \in Users, c \in Users, s \in Slots :
          Begin(r, "leave", [NoLocals EXCEPT !.op = "leave", !.user = u, !.client = c,
                                             !.slot = s, !.entry = waitList[s][c]])
    BY <1>5 DEF LeaveRead
  <2>2. waitList[s][c] \in Nat
    BY DEF StoreInv, TypeOK, TablesOK
  <2>3. [NoLocals EXCEPT !.op = "leave", !.user = u, !.client = c,
                         !.slot = s, !.entry = waitList[s][c]] \in Locals
    BY <2>2, LeaveArgs
  <2> QED
    BY <1>a, <2>1, <2>3, LocalStep DEF Begin, Pcs
<1>6. CASE DeleteRead(r)
  BY <1>a, <1>6, DeleteArgs, LocalStep DEF DeleteRead, Begin, TablesOK, StoreInv, TypeOK, Pcs
<1>7. CASE ExpireSelect(r)
  <2>1. StaleBookings \in SUBSET BookingIds
    BY DEF StaleBookings
  <2>2. {bookings[b].slot : b \in StaleBookings} \in SUBSET Slots
    BY SlotOfBooking DEF StaleBookings, Confirmed, Exists
  <2>3. [NoLocals EXCEPT !.op = "expire", !.stale = StaleBookings,
                         !.load = {bookings[b].slot : b \in StaleBookings}] \in Locals
    BY <2>1, <2>2, ExpireArgs
  <2> QED
    BY <1>a, <1>7, <2>3, LocalStep DEF ExpireSelect, Begin, Pcs
<1>8. CASE CreateLookup(r)
  BY <1>a, <1>8, AnswerFields, LocalStep, ReplyStep, GotoStep DEF CreateLookup, AnswerExisting,
     ByIdempotencyKey, Pcs, Replies
<1>9. CASE CreateLockSlot(r)
  BY <1>a, <1>9, ReplyStep, GotoStep DEF CreateLockSlot, LockSlots, Pcs, Replies
<1>10. CASE CreateUpdateSlot(r)
  BY <1>a, <1>10, ReplyStep, GotoStep DEF CreateUpdateSlot, Pcs, Replies
<1>11. CASE CreateInsert(r)
  BY <1>a, <1>11, AnswerFields, LocalStep, ReplyStep, GotoStep DEF CreateInsert, CreateReturn,
     NextId, Pcs, Replies
<1>12. CASE CreateRecheck(r)
  BY <1>a, <1>12, AnswerFields, LocalStep, ReplyStep, GotoStep DEF CreateRecheck,
     AnswerExisting, ByIdempotencyKey, Pcs, Replies
<1>13. CASE CancelLockBooking(r)
  BY <1>a, <1>13, ReplyStep, GotoStep DEF CancelLockBooking, LockBooking, Pcs, Replies
<1>14. CASE CancelLockSlot(r)
  <2>1. loc[r].booking \in BookingIds /\ Exists(loc[r].booking)
    BY <1>14 DEF StoreInv, ArgsOK, ArgsAt, CancelLockSlot
  <2>2. [loc[r] EXCEPT !.slot = bookings[loc[r].booking].slot] \in Locals
    BY <1>a, <2>1, SlotOfBooking, SlotFields
  <2> QED
    BY <1>a, <1>14, <2>2, LocalStep DEF CancelLockSlot, Pcs
<1>15. CASE CancelCommit(r)
  BY <1>a, <1>15, ReplyStep, GotoStep DEF CancelCommit, CancelledFlags, Pcs, Replies
<1>16. CASE CancelReload(r)
  BY <1>a, <1>16, ReplyStep, GotoStep DEF CancelReload, Pcs, Replies
<1>17. CASE RescheduleReadSlot(r)
  BY <1>a, <1>17, FlagFields, LocalStep, ReplyStep, GotoStep DEF RescheduleReadSlot, Pcs, Replies
<1>18. CASE RescheduleLockBooking(r)
  BY <1>a, <1>18, ReplyStep, GotoStep DEF RescheduleLockBooking, LockBooking, Pcs, Replies
<1>19. CASE RescheduleLockSlots(r)
  BY <1>a, <1>19, ReplyStep, GotoStep DEF RescheduleLockSlots, LockSlots, Pcs, Replies
<1>20. CASE RescheduleCommit(r)
  BY <1>a, <1>20, ReplyStep, GotoStep DEF RescheduleCommit, MovedFlags, MovedRow, Pcs, Replies
<1>21. CASE JoinCheckBooking(r)
  BY <1>a, <1>21, ReplyStep, GotoStep DEF JoinCheckBooking, Pcs, Replies
<1>22. CASE JoinInsert(r)
  BY <1>a, <1>22, ReplyStep, GotoStep DEF JoinInsert, Pcs, Replies
<1>23. CASE LeaveDelete(r)
  BY <1>a, <1>23, ReplyStep, GotoStep DEF LeaveDelete, DropEntry, Pcs, Replies
<1>24. CASE PromoteRead(r)
  <2>1. loc[r].slot \in Slots
    BY <1>24 DEF StoreInv, ArgsOK, ArgsAt, NoSlotYet, PromoteRead
  <2>2. \A c \in Users : waitList[loc[r].slot][c] \in Nat
    BY <2>1 DEF StoreInv, TypeOK, TablesOK
  <2>3. \A c \in Users : [loc[r] EXCEPT !.client = c, !.entry = waitList[loc[r].slot][c]] \in Locals
    BY <1>a, <2>2, EntryFields
  <2> QED
    BY <1>a, <1>24, <2>3, LocalStep, ReplyStep, GotoStep
    DEF PromoteRead, PromoteReturn, Pcs, Replies
<1>25. CASE PromoteDrop(r)
  BY <1>a, <1>25, ReplyStep, GotoStep DEF PromoteDrop, DropEntry, PromoteReturn, Pcs, Replies
<1>26. CASE DeleteFlush(r)
  BY <1>a, <1>26, ReplyStep, GotoStep DEF DeleteFlush, Pcs, Replies
<1>27. CASE ExpireLoad(r)
  <2>1. ASSUME NEW s \in loc[r].load
        PROVE  [loc[r] EXCEPT !.load = loc[r].load \ {s},
                              !.dirty = IF s \in booked THEN loc[r].dirty \cup {s}
                                                       ELSE loc[r].dirty] \in Locals
    <3>1. loc[r].load \in SUBSET Slots /\ loc[r].dirty \in SUBSET Slots
      BY <1>a, LocalFields
    <3>2. loc[r].load \ {s} \in SUBSET Slots
      BY <3>1
    <3>3. (IF s \in booked THEN loc[r].dirty \cup {s} ELSE loc[r].dirty) \in SUBSET Slots
      BY <3>1
    <3> QED
      BY <1>a, <3>2, <3>3, LoadFields
  <2>2. PICK s \in loc[r].load :
          IF s \in live
            THEN /\ Local(r, [loc[r] EXCEPT !.load = loc[r].load \ {s},
                                       !.dirty = IF s \in booked THEN loc[r].dirty \cup {s}
                                                                ELSE loc[r].dirty])
                 /\ IF loc[r].load = {s} THEN Goto(r, "ex_flush") ELSE UNCHANGED pc
            ELSE Reply(r, "error")
    BY <1>27 DEF ExpireLoad
  <2>3. CASE s \notin live
    BY <1>a, <2>2, <2>3, ReplyStep DEF Replies
  <2>4. CASE s \in live /\ loc[r].load = {s}
    BY <1>a, <2>1, <2>2, <2>4, LocalStep DEF Pcs
  <2>5. CASE s \in live /\ loc[r].load # {s}
    BY <1>a, <2>1, <2>2, <2>5 DEF SessionsOK, Local
  <2> QED
    BY <2>3, <2>4, <2>5
<1>28. CASE ExpireFlushSlot(r)
  BY <1>a, <1>28, ReplyStep DEF ExpireFlushSlot, LockSlots, SessionsOK, Replies
<1>29. CASE ExpireFlushBooking(r)
  BY <1>a, <1>29, ReplyStep DEF ExpireFlushBooking, LockBooking, SessionsOK, Replies
<1>30. CASE ExpireCommit(r)
  BY <1>a, <1>30, ReplyStep, GotoStep DEF ExpireCommit, ExpiredFlags, ExpiredRows, Pcs, Replies
<1>31. CASE ExpireNext(r)
  <2>1. ASSUME NEW b \in loc[r].stale
        PROVE  [loc[r] EXCEPT !.stale = loc[r].stale \ {b}, !.slot = bookings[b].slot] \in Locals
    <3>1. b \in BookingIds /\ Exists(b)
      BY <1>a, LocalFields DEF StoreInv, ArgsOK, ArgsAt
    <3> QED
      BY <1>a, <3>1, SlotOfBooking, LocalFields, NextFields
  <2> QED
    BY <1>a, <1>31, <2>1, LocalStep, ReplyStep DEF ExpireNext, Pcs, Replies
<1>32. CASE Close(r)
  BY <1>a, <1>32, NoLocalsType, LocalStep DEF Close, Pcs
<1>33. CASE Crash(r)
  BY <1>a, <1>33, NoLocalsType, LocalStep DEF Crash, Pcs
<1>34. CASE DeadlockAbort(r)
  BY <1>a, <1>34, ReplyStep, GotoStep DEF DeadlockAbort, Pcs, Replies
<1> QED
  BY <1>1, <1>2, <1>3, <1>4, <1>5, <1>6, <1>7, <1>8, <1>9, <1>10, <1>11, <1>12, <1>13, <1>14,
     <1>15, <1>16, <1>17, <1>18, <1>19, <1>20, <1>21, <1>22, <1>23, <1>24, <1>25, <1>26, <1>27,
     <1>28, <1>29, <1>30, <1>31, <1>32, <1>33, <1>34 DEF Act, Arrive, Step

\* Every action keeps the types of the tables; booked slots stay among the live ones.
LEMMA TablesStep ==
  ASSUME StoreInv, NEW r \in Sessions, Act(r)
  PROVE  TablesOK'
<1>a. /\ TablesOK
      /\ loc[r].slot \in Slots \cup {Nil}
      /\ loc[r].client \in Users \cup {Nil}
      /\ loc[r].key \in Keys \cup {Nil}
      /\ loc[r].entry \in Nat
  BY LocalFields DEF StoreInv, TypeOK, SessionsOK
<1>1. CASE CreateBegin(r)
  BY <1>a, <1>1 DEF TablesOK, tables, env, CreateBegin, Begin
<1>2. CASE CancelBegin(r)
  BY <1>a, <1>2 DEF TablesOK, tables, env, CancelBegin, Begin
<1>3. CASE RescheduleReadBooking(r)
  BY <1>a, <1>3 DEF TablesOK, tables, env, RescheduleReadBooking, Begin, Exists
<1>4. CASE JoinReadSlot(r)
  BY <1>a, <1>4, StoreAssumption DEF StoreAssumption, TablesOK, tables, JoinReadSlot
<1>5. CASE LeaveRead(r)
  BY <1>a, <1>5 DEF TablesOK, tables, env, LeaveRead, Begin
<1>6. CASE DeleteRead(r)
  BY <1>a, <1>6 DEF TablesOK, tables, env, DeleteRead, Begin
<1>7. CASE ExpireSelect(r)
  BY <1>a, <1>7 DEF TablesOK, tables, env, ExpireSelect, Begin, StaleBookings, Confirmed
<1>8. CASE CreateLookup(r)
  BY <1>a, <1>8 DEF TablesOK, tables, env, CreateLookup, AnswerExisting, ByIdempotencyKey
<1>9. CASE CreateLockSlot(r)
  BY <1>a, <1>9 DEF TablesOK, tables, env, CreateLockSlot, LockSlots
<1>10. CASE CreateUpdateSlot(r)
  BY <1>a, <1>10 DEF TablesOK, tables, env, CreateUpdateSlot
<1>11. CASE CreateInsert(r)
  <2>1. loc[r].slot \in live
    BY <1>11 DEF StoreInv, LocksOK, LocksAt, CreateInsert
  <2>2. booked' \in SUBSET live' /\ live' \in SUBSET Slots
    BY <1>a, <1>11, <2>1 DEF TablesOK, CreateInsert
  <2>3. [slot |-> loc[r].slot, client |-> loc[r].client, key |-> loc[r].key,
         status |-> "confirmed", asked |-> loc[r].slot] \in Row
    BY <1>a DEF Row, Statuses
  <2>4. bookings' \in [BookingIds -> Row]
    BY <1>a, <1>11, <2>3 DEF TablesOK, CreateInsert
  <2> QED
    BY <1>a, <1>11, <2>2, <2>4 DEF TablesOK, CreateInsert, env
<1>12. CASE CreateRecheck(r)
  BY <1>a, <1>12 DEF TablesOK, tables, env, CreateRecheck, AnswerExisting, ByIdempotencyKey
<1>13. CASE CancelLockBooking(r)
  BY <1>a, <1>13 DEF TablesOK, tables, env, CancelLockBooking, LockBooking
<1>14. CASE CancelLockSlot(r)
  BY <1>a, <1>14 DEF TablesOK, tables, env, CancelLockSlot, LockSlots
<1>15. CASE CancelCommit(r)
  <2>1. booked' \in SUBSET live' /\ live' = live
    BY <1>a, <1>15 DEF TablesOK, CancelCommit, CancelledFlags
  <2>2. bookings' \in [BookingIds -> Row]
    <3>1. bookings \in [BookingIds -> Row] BY <1>a DEF TablesOK
    <3>2. \A row \in Row : [row EXCEPT !.status = "cancelled"] \in Row BY DEF Row, Statuses
    <3>3. \/ bookings' = bookings
          \/ bookings' = [bookings EXCEPT ![loc[r].booking].status = "cancelled"]
      BY <1>15 DEF CancelCommit
    <3> QED BY <3>1, <3>2, <3>3
  <2> QED
    BY <1>a, <1>15, <2>1, <2>2 DEF TablesOK, CancelCommit, env
<1>16. CASE CancelReload(r)
  BY <1>a, <1>16 DEF TablesOK, tables, env, CancelReload
<1>17. CASE RescheduleReadSlot(r)
  BY <1>a, <1>17 DEF TablesOK, tables, env, RescheduleReadSlot
<1>18. CASE RescheduleLockBooking(r)
  BY <1>a, <1>18 DEF TablesOK, tables, env, RescheduleLockBooking, LockBooking
<1>19. CASE RescheduleLockSlots(r)
  BY <1>a, <1>19 DEF TablesOK, tables, env, RescheduleLockSlots, LockSlots
<1>20. CASE RescheduleCommit(r)
  <2>1. booked' \in SUBSET live' /\ live' = live
    BY <1>a, <1>20 DEF StoreInv, LocksOK, LocksAt, TablesOK, RescheduleCommit, MovedFlags, MovedRow
  <2>2. bookings' \in [BookingIds -> Row]
    <3>1. bookings \in [BookingIds -> Row] /\ loc[r].slot \in Slots \cup {Nil}
      BY <1>a DEF TablesOK, Locals
    <3>2. \A row \in Row : MovedRow(row, loc[r]) \in Row BY <3>1 DEF MovedRow, Row
    <3>3. bookings' = [bookings EXCEPT ![loc[r].booking] = MovedRow(bookings[loc[r].booking], loc[r])]
      BY <1>20 DEF RescheduleCommit
    <3> QED BY <3>1, <3>2, <3>3
  <2> QED
    BY <1>a, <1>20, <2>1, <2>2 DEF TablesOK, RescheduleCommit, env
<1>21. CASE JoinCheckBooking(r)
  BY <1>a, <1>21 DEF TablesOK, tables, env, JoinCheckBooking
<1>22. CASE JoinInsert(r)
  <2>1. waitList' \in [Slots -> [Users -> Nat]]
    BY <1>a, <1>22 DEF TablesOK, JoinInsert
  <2> QED
    BY <1>a, <1>22, <2>1 DEF TablesOK, JoinInsert, env
<1>23. CASE LeaveDelete(r)
  BY <1>a, <1>23 DEF TablesOK, env, LeaveDelete, DropEntry
<1>24. CASE PromoteRead(r)
  BY <1>a, <1>24 DEF TablesOK, tables, env, PromoteRead, PromoteReturn, IsHead, Waiting
<1>25. CASE PromoteDrop(r)
  BY <1>a, <1>25 DEF TablesOK, env, PromoteDrop, DropEntry, PromoteReturn
<1>26. CASE DeleteFlush(r)
  BY <1>a, <1>26 DEF StoreInv, LocksOK, LocksAt, ArgsOK, ArgsAt, NoSlotYet, TablesOK, tables,
     env, Row, Statuses, DeleteFlush
<1>27. CASE ExpireLoad(r)
  BY <1>a, <1>27 DEF TablesOK, tables, env, ExpireLoad
<1>28. CASE ExpireFlushSlot(r)
  BY <1>a, <1>28 DEF TablesOK, tables, env, ExpireFlushSlot, LockSlots
<1>29. CASE ExpireFlushBooking(r)
  BY <1>a, <1>29 DEF TablesOK, tables, env, ExpireFlushBooking, LockBooking
<1>30. CASE ExpireCommit(r)
  <2>1. bookings' \in [BookingIds -> Row]
    <3>1. bookings \in [BookingIds -> Row] BY <1>a DEF TablesOK
    <3>2. \A row \in Row : [row EXCEPT !.status = "expired"] \in Row BY DEF Row, Statuses
    <3> QED BY <1>30, <3>1, <3>2 DEF ExpireCommit, ExpiredRows
  <2> QED BY <1>a, <1>30, <2>1 DEF TablesOK, ExpireCommit, ExpiredFlags, env
<1>31. CASE ExpireNext(r)
  BY <1>a, <1>31 DEF TablesOK, tables, env, ExpireNext
<1>32. CASE Close(r)
  BY <1>a, <1>32 DEF TablesOK, tables, env, Close
<1>33. CASE Crash(r)
  BY <1>a, <1>33 DEF TablesOK, tables, env, Crash
<1>34. CASE DeadlockAbort(r)
  BY <1>a, <1>34 DEF TablesOK, tables, env, DeadlockAbort
<1> QED
  BY <1>1, <1>2, <1>3, <1>4, <1>5, <1>6, <1>7, <1>8, <1>9, <1>10, <1>11, <1>12, <1>13, <1>14,
     <1>15, <1>16, <1>17, <1>18, <1>19, <1>20, <1>21, <1>22, <1>23, <1>24, <1>25, <1>26, <1>27,
     <1>28, <1>29, <1>30, <1>31, <1>32, <1>33, <1>34 DEF Act, Arrive, Step

\* Every action keeps the types of the locks.
LEMMA LockTypesStep ==
  ASSUME StoreInv, NEW r \in Sessions, Act(r)
  PROVE  LockTypesOK'
<1>a. LockTypesOK
  BY DEF StoreInv, TypeOK
<1>1. CASE CreateBegin(r)
  BY <1>a, <1>1 DEF LockTypesOK, locks, Release, CreateBegin, Begin
<1>2. CASE CancelBegin(r)
  BY <1>a, <1>2 DEF LockTypesOK, locks, Release, CancelBegin, Begin
<1>3. CASE RescheduleReadBooking(r)
  BY <1>a, <1>3 DEF LockTypesOK, locks, Release, RescheduleReadBooking, Begin, Exists
<1>4. CASE JoinReadSlot(r)
  BY <1>a, <1>4 DEF LockTypesOK, locks, Release, JoinReadSlot, Begin
<1>5. CASE LeaveRead(r)
  BY <1>a, <1>5 DEF LockTypesOK, locks, Release, LeaveRead, Begin
<1>6. CASE DeleteRead(r)
  BY <1>a, <1>6 DEF LockTypesOK, locks, Release, DeleteRead, Begin
<1>7. CASE ExpireSelect(r)
  BY <1>a, <1>7 DEF LockTypesOK, locks, Release, ExpireSelect, Begin, StaleBookings, Confirmed
<1>8. CASE CreateLookup(r)
  BY <1>a, <1>8 DEF LockTypesOK, locks, Release, CreateLookup, AnswerExisting, ByIdempotencyKey
<1>9. CASE CreateLockSlot(r)
  BY <1>a, <1>9 DEF LockTypesOK, locks, Release, CreateLockSlot, LockSlots
<1>10. CASE CreateUpdateSlot(r)
  BY <1>a, <1>10 DEF LockTypesOK, locks, Release, CreateUpdateSlot
<1>11. CASE CreateInsert(r)
  BY <1>a, <1>11 DEF LockTypesOK, locks, Release, CreateInsert, CreateReturn, NextId
<1>12. CASE CreateRecheck(r)
  BY <1>a, <1>12 DEF LockTypesOK, locks, Release, CreateRecheck, AnswerExisting, ByIdempotencyKey
<1>13. CASE CancelLockBooking(r)
  BY <1>a, <1>13 DEF LockTypesOK, locks, Release, CancelLockBooking, LockBooking
<1>14. CASE CancelLockSlot(r)
  BY <1>a, <1>14 DEF LockTypesOK, locks, Release, CancelLockSlot, LockSlots
<1>15. CASE CancelCommit(r)
  BY <1>a, <1>15 DEF LockTypesOK, locks, Release, CancelCommit, CancelledFlags
<1>16. CASE CancelReload(r)
  BY <1>a, <1>16 DEF LockTypesOK, locks, Release, CancelReload
<1>17. CASE RescheduleReadSlot(r)
  BY <1>a, <1>17 DEF LockTypesOK, locks, Release, RescheduleReadSlot
<1>18. CASE RescheduleLockBooking(r)
  BY <1>a, <1>18 DEF LockTypesOK, locks, Release, RescheduleLockBooking, LockBooking
<1>19. CASE RescheduleLockSlots(r)
  BY <1>a, <1>19 DEF LockTypesOK, locks, Release, RescheduleLockSlots, LockSlots
<1>20. CASE RescheduleCommit(r)
  BY <1>a, <1>20 DEF LockTypesOK, locks, Release, RescheduleCommit, MovedFlags, MovedRow
<1>21. CASE JoinCheckBooking(r)
  BY <1>a, <1>21 DEF LockTypesOK, locks, Release, JoinCheckBooking
<1>22. CASE JoinInsert(r)
  BY <1>a, <1>22 DEF LockTypesOK, locks, Release, JoinInsert
<1>23. CASE LeaveDelete(r)
  BY <1>a, <1>23 DEF LockTypesOK, locks, LeaveDelete
<1>24. CASE PromoteRead(r)
  BY <1>a, <1>24 DEF LockTypesOK, locks, Release, PromoteRead, PromoteReturn, IsHead, Waiting
<1>25. CASE PromoteDrop(r)
  BY <1>a, <1>25 DEF LockTypesOK, locks, Release, PromoteDrop, DropEntry, PromoteReturn
<1>26. CASE DeleteFlush(r)
  BY <1>a, <1>26 DEF LockTypesOK, locks, Release, DeleteFlush
<1>27. CASE ExpireLoad(r)
  BY <1>a, <1>27 DEF LockTypesOK, locks, Release, ExpireLoad
<1>28. CASE ExpireFlushSlot(r)
  BY <1>a, <1>28 DEF LockTypesOK, locks, Release, ExpireFlushSlot, LockSlots
<1>29. CASE ExpireFlushBooking(r)
  BY <1>a, <1>29 DEF LockTypesOK, locks, Release, ExpireFlushBooking, LockBooking
<1>30. CASE ExpireCommit(r)
  BY <1>a, <1>30 DEF LockTypesOK, locks, Release, ExpireCommit, ExpiredFlags, ExpiredRows
<1>31. CASE ExpireNext(r)
  BY <1>a, <1>31 DEF LockTypesOK, locks, Release, ExpireNext
<1>32. CASE Close(r)
  BY <1>a, <1>32 DEF LockTypesOK, locks, Release, Close
<1>33. CASE Crash(r)
  BY <1>a, <1>33 DEF LockTypesOK, locks, Release, Crash
<1>34. CASE DeadlockAbort(r)
  BY <1>a, <1>34 DEF LockTypesOK, locks, Release, DeadlockAbort
<1> QED
  BY <1>1, <1>2, <1>3, <1>4, <1>5, <1>6, <1>7, <1>8, <1>9, <1>10, <1>11, <1>12, <1>13, <1>14,
     <1>15, <1>16, <1>17, <1>18, <1>19, <1>20, <1>21, <1>22, <1>23, <1>24, <1>25, <1>26, <1>27,
     <1>28, <1>29, <1>30, <1>31, <1>32, <1>33, <1>34 DEF Act, Arrive, Step

-------------------------------------------------------------------------------
(***************************************************************************)
(* What a step of one session leaves of the others, and of rows they have  *)
(* locked.                                                                 *)
(***************************************************************************)
\* A step of one session leaves the statement, the memory and the locks of the others alone.
LEMMA Frame ==
  ASSUME StoreInv, NEW r \in Sessions, Act(r), NEW q \in Sessions, q # r
  PROVE  /\ pc'[q] = pc[q] /\ loc'[q] = loc[q]
         /\ \A s \in Slots : slotLock[s] = q => slotLock'[s] = q
         /\ \A b \in BookingIds : bookLock[b] = q => bookLock'[b] = q
<1>a. SessionsOK /\ LockTypesOK /\ q # Nil
  BY StoreAssumption DEF StoreAssumption, StoreInv, TypeOK
<1>1. CASE CreateBegin(r)
  BY <1>a, <1>1 DEF SessionsOK, LockTypesOK, locks, Release, Goto, Local, CreateBegin, Begin
<1>2. CASE CancelBegin(r)
  BY <1>a, <1>2 DEF SessionsOK, LockTypesOK, locks, Release, Goto, Local, CancelBegin, Begin
<1>3. CASE RescheduleReadBooking(r)
  BY <1>a, <1>3 DEF SessionsOK, LockTypesOK, locks, Release, Goto, Local, RescheduleReadBooking,
     Begin
<1>4. CASE JoinReadSlot(r)
  BY <1>a, <1>4 DEF SessionsOK, LockTypesOK, locks, Release, Goto, Local, JoinReadSlot, Begin
<1>5. CASE LeaveRead(r)
  BY <1>a, <1>5 DEF SessionsOK, LockTypesOK, locks, Release, Goto, Local, LeaveRead, Begin
<1>6. CASE DeleteRead(r)
  BY <1>a, <1>6 DEF SessionsOK, LockTypesOK, locks, Release, Goto, Local, DeleteRead, Begin
<1>7. CASE ExpireSelect(r)
  BY <1>a, <1>7 DEF SessionsOK, LockTypesOK, locks, Release, Goto, Local, ExpireSelect, Begin
<1>8. CASE CreateLookup(r)
  BY <1>a, <1>8 DEF SessionsOK, LockTypesOK, locks, Release, Goto, Local, CreateLookup,
     AnswerExisting
<1>9. CASE CreateLockSlot(r)
  BY <1>a, <1>9 DEF SessionsOK, LockTypesOK, locks, Release, Goto, Local, CreateLockSlot, Reply,
     LockSlots
<1>10. CASE CreateUpdateSlot(r)
  BY <1>a, <1>10 DEF SessionsOK, LockTypesOK, locks, Release, Goto, Local, CreateUpdateSlot
<1>11. CASE CreateInsert(r)
  BY <1>a, <1>11 DEF SessionsOK, LockTypesOK, locks, Release, Goto, Local, CreateInsert,
     CreateReturn
<1>12. CASE CreateRecheck(r)
  BY <1>a, <1>12 DEF SessionsOK, LockTypesOK, locks, Release, Goto, Local, CreateRecheck, Reply,
     AnswerExisting
<1>13. CASE CancelLockBooking(r)
  BY <1>a, <1>13 DEF SessionsOK, LockTypesOK, locks, Release, Goto, Local, CancelLockBooking,
     LockBooking
<1>14. CASE CancelLockSlot(r)
  BY <1>a, <1>14 DEF SessionsOK, LockTypesOK, locks, Release, Goto, Local, CancelLockSlot, LockSlots
<1>15. CASE CancelCommit(r)
  BY <1>a, <1>15 DEF SessionsOK, LockTypesOK, locks, Release, Goto, Local, CancelCommit, Reply
<1>16. CASE CancelReload(r)
  BY <1>a, <1>16 DEF SessionsOK, LockTypesOK, locks, Release, Goto, Local, CancelReload, Reply
<1>17. CASE RescheduleReadSlot(r)
  BY <1>a, <1>17 DEF SessionsOK, LockTypesOK, locks, Release, Goto, Local, RescheduleReadSlot, Reply
<1>18. CASE RescheduleLockBooking(r)
  BY <1>a, <1>18 DEF SessionsOK, LockTypesOK, locks, Release, Goto, Local,
     RescheduleLockBooking, Reply, LockBooking
<1>19. CASE RescheduleLockSlots(r)
  <2>1. pc'[q] = pc[q] /\ loc'[q] = loc[q]
    BY <1>a, <1>19 DEF SessionsOK, RescheduleLockSlots, Reply, Goto, Local
  <2>2. \A b \in BookingIds : bookLock[b] = q => bookLock'[b] = q
    BY <1>a, <1>19 DEF LockTypesOK, RescheduleLockSlots, Release
  <2>3. \A s \in Slots : slotLock[s] = q => slotLock'[s] = q
    BY <1>a, <1>19 DEF LockTypesOK, RescheduleLockSlots, Release, LockSlots
  <2> QED
    BY <2>1, <2>2, <2>3
<1>20. CASE RescheduleCommit(r)
  BY <1>a, <1>20 DEF SessionsOK, LockTypesOK, locks, Release, Goto, Local, RescheduleCommit, Reply
<1>21. CASE JoinCheckBooking(r)
  BY <1>a, <1>21 DEF SessionsOK, LockTypesOK, locks, Release, Goto, Local, JoinCheckBooking, Reply
<1>22. CASE JoinInsert(r)
  BY <1>a, <1>22 DEF SessionsOK, LockTypesOK, locks, Release, Goto, Local, JoinInsert, Reply
<1>23. CASE LeaveDelete(r)
  BY <1>a, <1>23 DEF SessionsOK, LockTypesOK, locks, Release, Goto, Local, LeaveDelete, Reply
<1>24. CASE PromoteRead(r)
  BY <1>a, <1>24 DEF SessionsOK, LockTypesOK, locks, Release, Goto, Local, PromoteRead,
     PromoteReturn, Reply
<1>25. CASE PromoteDrop(r)
  BY <1>a, <1>25 DEF SessionsOK, LockTypesOK, locks, Release, Goto, Local, PromoteDrop,
     PromoteReturn, Reply
<1>26. CASE DeleteFlush(r)
  BY <1>a, <1>26 DEF SessionsOK, LockTypesOK, locks, Release, Goto, Local, DeleteFlush, Reply
<1>27. CASE ExpireLoad(r)
  BY <1>a, <1>27 DEF SessionsOK, LockTypesOK, locks, Release, Goto, Local, ExpireLoad, Reply
<1>28. CASE ExpireFlushSlot(r)
  BY <1>a, <1>28 DEF SessionsOK, LockTypesOK, locks, Release, Goto, Local, ExpireFlushSlot,
     Reply, LockSlots
<1>29. CASE ExpireFlushBooking(r)
  BY <1>a, <1>29 DEF SessionsOK, LockTypesOK, locks, Release, Goto, Local, ExpireFlushBooking,
     LockBooking
<1>30. CASE ExpireCommit(r)
  BY <1>a, <1>30 DEF SessionsOK, LockTypesOK, locks, Release, Goto, Local, ExpireCommit
<1>31. CASE ExpireNext(r)
  BY <1>a, <1>31 DEF SessionsOK, LockTypesOK, locks, Release, Goto, Local, ExpireNext, Reply
<1>32. CASE Close(r)
  BY <1>a, <1>32 DEF SessionsOK, LockTypesOK, locks, Release, Goto, Local, Close
<1>33. CASE Crash(r)
  BY <1>a, <1>33 DEF SessionsOK, LockTypesOK, locks, Release, Goto, Local, Crash
<1>34. CASE DeadlockAbort(r)
  BY <1>a, <1>34 DEF SessionsOK, LockTypesOK, locks, Release, Goto, Local, DeadlockAbort, Reply
<1> QED
  BY <1>1, <1>2, <1>3, <1>4, <1>5, <1>6, <1>7, <1>8, <1>9, <1>10, <1>11, <1>12, <1>13, <1>14,
     <1>15, <1>16, <1>17, <1>18, <1>19, <1>20, <1>21, <1>22, <1>23, <1>24, <1>25, <1>26, <1>27,
     <1>28, <1>29, <1>30, <1>31, <1>32, <1>33, <1>34 DEF Act, Arrive, Step

\* Five actions write bookings or time_slots.
Writes(r) ==
  CreateInsert(r) \/ CancelCommit(r) \/ RescheduleCommit(r) \/ DeleteFlush(r) \/ ExpireCommit(r)

\* The other actions leave both tables alone.
LEMMA ReadOnly ==
  ASSUME NEW r \in Sessions, Act(r), ~Writes(r)
  PROVE  UNCHANGED <<live, booked, bookings>>
<1>1. CASE CreateBegin(r)
  BY <1>1 DEF tables, CreateBegin
<1>2. CASE CancelBegin(r)
  BY <1>2 DEF tables, CancelBegin
<1>3. CASE RescheduleReadBooking(r)
  BY <1>3 DEF tables, RescheduleReadBooking
<1>4. CASE JoinReadSlot(r)
  BY <1>4 DEF tables, JoinReadSlot
<1>5. CASE LeaveRead(r)
  BY <1>5 DEF tables, LeaveRead
<1>6. CASE DeleteRead(r)
  BY <1>6 DEF tables, DeleteRead
<1>7. CASE ExpireSelect(r)
  BY <1>7 DEF tables, ExpireSelect
<1>8. CASE CreateLookup(r)
  BY <1>8 DEF tables, CreateLookup
<1>9. CASE CreateLockSlot(r)
  BY <1>9 DEF tables, CreateLockSlot
<1>10. CASE CreateUpdateSlot(r)
  BY <1>10 DEF tables, CreateUpdateSlot
<1>11. CASE CreateInsert(r)
  BY <1>11 DEF Writes
<1>12. CASE CreateRecheck(r)
  BY <1>12 DEF tables, CreateRecheck
<1>13. CASE CancelLockBooking(r)
  BY <1>13 DEF tables, CancelLockBooking
<1>14. CASE CancelLockSlot(r)
  BY <1>14 DEF tables, CancelLockSlot
<1>15. CASE CancelCommit(r)
  BY <1>15 DEF Writes
<1>16. CASE CancelReload(r)
  BY <1>16 DEF tables, CancelReload
<1>17. CASE RescheduleReadSlot(r)
  BY <1>17 DEF tables, RescheduleReadSlot
<1>18. CASE RescheduleLockBooking(r)
  BY <1>18 DEF tables, RescheduleLockBooking
<1>19. CASE RescheduleLockSlots(r)
  BY <1>19 DEF tables, RescheduleLockSlots
<1>20. CASE RescheduleCommit(r)
  BY <1>20 DEF Writes
<1>21. CASE JoinCheckBooking(r)
  BY <1>21 DEF tables, JoinCheckBooking
<1>22. CASE JoinInsert(r)
  BY <1>22 DEF tables, JoinInsert
<1>23. CASE LeaveDelete(r)
  BY <1>23 DEF tables, LeaveDelete
<1>24. CASE PromoteRead(r)
  BY <1>24 DEF tables, PromoteRead
<1>25. CASE PromoteDrop(r)
  BY <1>25 DEF tables, PromoteDrop
<1>26. CASE DeleteFlush(r)
  BY <1>26 DEF Writes
<1>27. CASE ExpireLoad(r)
  BY <1>27 DEF tables, ExpireLoad
<1>28. CASE ExpireFlushSlot(r)
  BY <1>28 DEF tables, ExpireFlushSlot
<1>29. CASE ExpireFlushBooking(r)
  BY <1>29 DEF tables, ExpireFlushBooking
<1>30. CASE ExpireCommit(r)
  BY <1>30 DEF Writes
<1>31. CASE ExpireNext(r)
  BY <1>31 DEF tables, ExpireNext
<1>32. CASE Close(r)
  BY <1>32 DEF tables, Close
<1>33. CASE Crash(r)
  BY <1>33 DEF tables, Crash
<1>34. CASE DeadlockAbort(r)
  BY <1>34 DEF tables, DeadlockAbort
<1> QED
  BY <1>1, <1>2, <1>3, <1>4, <1>5, <1>6, <1>7, <1>8, <1>9, <1>10, <1>11, <1>12, <1>13, <1>14,
     <1>15, <1>16, <1>17, <1>18, <1>19, <1>20, <1>21, <1>22, <1>23, <1>24, <1>25, <1>26, <1>27,
     <1>28, <1>29, <1>30, <1>31, <1>32, <1>33, <1>34 DEF Act, Arrive, Step

\* An existing booking stays, and only a session that holds its lock writes it.
LEMMA BookingLocked ==
  ASSUME StoreInv, NEW r \in Sessions, Act(r), NEW b \in BookingIds, Exists(b)
  PROVE  Exists(b)' /\ (bookLock[b] # r => bookings'[b] = bookings[b])
<1> USE DEF Exists
<1>a. bookings \in [BookingIds -> Row]
  BY DEF StoreInv, TypeOK, TablesOK
<1>1. CASE CreateInsert(r)
  BY <1>a, <1>1 DEF CreateInsert, NextId
<1>2. CASE CancelCommit(r)
  BY <1>a, <1>2 DEF StoreInv, LocksOK, LocksAt, Row, CancelCommit
<1>3. CASE RescheduleCommit(r)
  BY <1>a, <1>3 DEF StoreInv, LocksOK, LocksAt, Row, RescheduleCommit, MovedRow
<1>4. CASE DeleteFlush(r)
  BY <1>4 DEF DeleteFlush, tables
<1>5. CASE ExpireCommit(r)
  BY <1>a, <1>5 DEF Row, ExpireCommit, ExpiredRows, BookingsLeft
<1>6. CASE ~Writes(r)
  BY <1>6, ReadOnly
<1> QED
  BY <1>1, <1>2, <1>3, <1>4, <1>5, <1>6 DEF Writes

\* A slot row that another session has locked is not written.
LEMMA SlotLocked ==
  ASSUME StoreInv, NEW r \in Sessions, Act(r),
         NEW s \in Slots, slotLock[s] # r, slotLock[s] # Nil
  PROVE  (s \in live <=> s \in live') /\ (s \in booked <=> s \in booked')
<1>1. CASE CreateInsert(r)
  BY <1>1 DEF StoreInv, LocksOK, LocksAt, CreateInsert
<1>2. CASE CancelCommit(r)
  BY <1>2 DEF StoreInv, LocksOK, LocksAt, CancelCommit, CancelledFlags
<1>3. CASE RescheduleCommit(r)
  BY <1>3 DEF StoreInv, LocksOK, LocksAt, RescheduleCommit, MovedFlags
<1>4. CASE DeleteFlush(r)
  BY <1>4 DEF DeleteFlush, tables
<1>5. CASE ExpireCommit(r)
  BY <1>5 DEF ExpireCommit, ExpiredFlags, SlotsLeft
<1>6. CASE ~Writes(r)
  BY <1>6, ReadOnly
<1> QED
  BY <1>1, <1>2, <1>3, <1>4, <1>5, <1>6 DEF Writes

-------------------------------------------------------------------------------
(***************************************************************************)
(* The parts of StoreInv.                                                  *)
(***************************************************************************)
\* Every action keeps the slots of the bookings: DELETE meets the foreign key.
LEMMA NoOrphanStep ==
  ASSUME StoreInv, NEW r \in Sessions, Act(r)
  PROVE  NoOrphan'
<1> USE DEF NoOrphan, Exists
<1>a. NoOrphan /\ bookings \in [BookingIds -> Row]
  BY DEF StoreInv, TypeOK, TablesOK
<1>1. CASE CreateInsert(r)
  <2>1. loc[r].slot \in live
    BY <1>1 DEF StoreInv, LocksOK, LocksAt, CreateInsert
  <2>2. CASE UNCHANGED bookings
    BY <1>a, <1>1, <2>2 DEF CreateInsert
  <2>3. CASE \E b \in BookingIds : bookings' = [bookings EXCEPT ![b] =
               [slot |-> loc[r].slot, client |-> loc[r].client, key |-> loc[r].key,
                status |-> "confirmed", asked |-> loc[r].slot]]
    BY <1>a, <1>1, <2>1, <2>3 DEF CreateInsert
  <2> QED
    BY <1>1, <2>2, <2>3 DEF CreateInsert
<1>2. CASE CancelCommit(r)
  BY <1>a, <1>2 DEF StoreInv, ArgsOK, ArgsAt, RescheduleAt, Row, CancelCommit
<1>3. CASE RescheduleCommit(r)
  BY <1>a, <1>3 DEF StoreInv, LocksOK, LocksAt, ArgsOK, ArgsAt, RescheduleAt, Row,
                    RescheduleCommit, MovedRow
<1>4. CASE DeleteFlush(r)
  BY <1>a, <1>4 DEF DeleteFlush, Referenced, tables
<1>5. CASE ExpireCommit(r)
  BY <1>a, <1>5 DEF StoreInv, ArgsOK, ArgsAt, Row, ExpireCommit, ExpiredRows
<1>6. CASE ~Writes(r)
  BY <1>a, <1>6, ReadOnly
<1> QED
  BY <1>1, <1>2, <1>3, <1>4, <1>5, <1>6 DEF Writes

\* The session that acts has the arguments of its next statement.
LEMMA ArgsStep ==
  ASSUME StoreInv, NEW r \in Sessions, Act(r)
  PROVE  ArgsAt(r)'
<1>a. SessionsOK /\ loc[r] \in Locals /\ ArgsAt(r)
  BY DEF StoreInv, TypeOK, SessionsOK, ArgsOK
<1>b. /\ loc[r].stale \in SUBSET BookingIds
      /\ \A b \in BookingIds : Exists(b) => Exists(b)'
  BY <1>a, LocalFields, BookingLocked
<1> USE DEF ArgsAt, NoSlotYet, RescheduleAt
<1>1. CASE CreateBegin(r)
  BY <1>a, <1>b, <1>1
  DEF StoreInv, TypeOK, TablesOK, SessionsOK, CreateBegin, Begin, Goto, Local, NoLocals
<1>2. CASE CancelBegin(r)
  BY <1>a, <1>b, <1>2
  DEF StoreInv, TypeOK, TablesOK, SessionsOK, CancelBegin, Begin, Goto, Local, NoLocals
<1>3. CASE RescheduleReadBooking(r)
  BY <1>a, <1>b, <1>3, SlotOfBooking
  DEF StoreInv, TypeOK, TablesOK, SessionsOK, RescheduleReadBooking, Begin, Exists, Goto, Local, NoLocals
<1>4. CASE JoinReadSlot(r)
  BY <1>a, <1>b, <1>4
  DEF StoreInv, TypeOK, TablesOK, SessionsOK, JoinReadSlot, Begin, Goto, Local, NoLocals
<1>5. CASE LeaveRead(r)
  BY <1>a, <1>b, <1>5
  DEF StoreInv, TypeOK, TablesOK, SessionsOK, LeaveRead, Begin, Goto, Local, NoLocals
<1>6. CASE DeleteRead(r)
  BY <1>a, <1>b, <1>6
  DEF StoreInv, TypeOK, TablesOK, SessionsOK, DeleteRead, Begin, Goto, Local, NoLocals
<1>7. CASE ExpireSelect(r)
  BY <1>a, <1>b, <1>7, LocalFields
  DEF StoreInv, TypeOK, TablesOK, SessionsOK, ExpireSelect, Begin, StaleBookings, Confirmed, Goto, Local, NoLocals, Exists
<1>8. CASE CreateLookup(r)
  <2>1. CASE \E b \in BookingIds, code \in Replies :
               /\ Goto(r, "done")
               /\ Local(r, [loc[r] EXCEPT !.booking = b, !.reply = code])
    <3>1. PICK b \in BookingIds, code \in Replies :
            Goto(r, "done") /\ Local(r, [loc[r] EXCEPT !.booking = b, !.reply = code])
      BY <2>1
    <3>2. pc'[r] = "done" /\ loc'[r] = [loc[r] EXCEPT !.booking = b, !.reply = code]
      BY <1>a, <3>1, GotoAt, LocalAt
    <3>3. loc'[r].stale = loc[r].stale
      BY <1>a, <3>2, AnswerFields
    <3> QED
      BY <1>a, <1>b, <3>2, <3>3
  <2>2. CASE ~\E b \in BookingIds, code \in Replies :
               /\ Goto(r, "done")
               /\ Local(r, [loc[r] EXCEPT !.booking = b, !.reply = code])
    BY <1>a, <1>b, <1>8, <2>2, GotoAt, ReplyAt
    DEF CreateLookup, AnswerExisting, ByIdempotencyKey, Replies
  <2> QED
    BY <2>1, <2>2
<1>9. CASE CreateLockSlot(r)
  BY <1>a, <1>b, <1>9, GotoAt, ReplyAt DEF CreateLockSlot, LockSlots
<1>10. CASE CreateUpdateSlot(r)
  BY <1>a, <1>b, <1>10, GotoAt, ReplyAt DEF CreateUpdateSlot
<1>11. CASE CreateInsert(r)
  <2>1. CASE \E b \in BookingIds : CreateReturn(r, b)
    <3>1. PICK b \in BookingIds : CreateReturn(r, b)
      BY <2>1
    <3>2. CASE loc[r].op = "create"
      <4>1. pc'[r] = "done" /\ loc'[r] = [loc[r] EXCEPT !.booking = b, !.reply = "created"]
        BY <1>a, <3>1, <3>2, GotoAt, LocalAt DEF CreateReturn
      <4>2. loc'[r].stale = loc[r].stale
        BY <1>a, <4>1, AnswerFields DEF Replies
      <4> QED
        BY <1>a, <1>b, <4>1, <4>2
    <3>3. CASE loc[r].op # "create"
      BY <1>a, <1>b, <1>11, <3>1, <3>3, GotoAt DEF CreateReturn, CreateInsert
    <3> QED
      BY <3>2, <3>3
  <2>2. CASE Goto(r, "recheck") /\ UNCHANGED loc
    BY <1>a, <1>b, <1>11, <2>2, GotoAt DEF CreateInsert
  <2> QED
    BY <1>11, <2>1, <2>2 DEF CreateInsert
<1>12. CASE CreateRecheck(r)
  <2>1. CASE \E b \in BookingIds, code \in Replies :
               /\ Goto(r, "done")
               /\ Local(r, [loc[r] EXCEPT !.booking = b, !.reply = code])
    <3>1. PICK b \in BookingIds, code \in Replies :
            Goto(r, "done") /\ Local(r, [loc[r] EXCEPT !.booking = b, !.reply = code])
      BY <2>1
    <3>2. pc'[r] = "done" /\ loc'[r] = [loc[r] EXCEPT !.booking = b, !.reply = code]
      BY <1>a, <3>1, GotoAt, LocalAt
    <3>3. loc'[r].stale = loc[r].stale
      BY <1>a, <3>2, AnswerFields
    <3> QED
      BY <1>a, <1>b, <3>2, <3>3
  <2>2. CASE ~\E b \in BookingIds, code \in Replies :
               /\ Goto(r, "done")
               /\ Local(r, [loc[r] EXCEPT !.booking = b, !.reply = code])
    BY <1>a, <1>b, <1>12, <2>2, GotoAt, ReplyAt
    DEF CreateRecheck, AnswerExisting, ByIdempotencyKey, Replies
  <2> QED
    BY <2>1, <2>2
<1>13. CASE CancelLockBooking(r)
  BY <1>a, <1>b, <1>13, GotoAt, ReplyAt DEF CancelLockBooking, LockBooking
<1>14. CASE CancelLockSlot(r)
  BY <1>a, <1>b, <1>14, SlotOfBooking DEF SessionsOK, Locals, CancelLockSlot, LockSlots, Goto, Local
<1>15. CASE CancelCommit(r)
  BY <1>a, <1>b, <1>15, GotoAt, ReplyAt DEF CancelCommit, CancelledFlags
<1>16. CASE CancelReload(r)
  BY <1>a, <1>b, <1>16, GotoAt, ReplyAt DEF CancelReload
<1>17. CASE RescheduleReadSlot(r)
  <2>1. CASE Reply(r, "rejected")
    BY <1>a, <1>b, <2>1, ReplyAt
  <2>2. CASE ~Reply(r, "rejected")
    <3>1. PICK f \in {"free", "booked"} : Local(r, [loc[r] EXCEPT !.seenFlag = f])
      BY <1>17, <2>2 DEF RescheduleReadSlot
    <3>2. pc'[r] = "rs_lock_booking"
      BY <1>a, <1>17, <2>2, GotoAt DEF RescheduleReadSlot
    <3> QED
      BY <1>a, <1>b, <1>17, <3>1, <3>2, LocalAt, FlagFields DEF RescheduleReadSlot
  <2> QED
    BY <2>1, <2>2
<1>18. CASE RescheduleLockBooking(r)
  BY <1>a, <1>b, <1>18, GotoAt, ReplyAt DEF RescheduleLockBooking, LockBooking
<1>19. CASE RescheduleLockSlots(r)
  BY <1>a, <1>b, <1>19, GotoAt, ReplyAt DEF RescheduleLockSlots, LockSlots
<1>20. CASE RescheduleCommit(r)
  BY <1>a, <1>b, <1>20, GotoAt, ReplyAt DEF RescheduleCommit, MovedFlags, MovedRow
<1>21. CASE JoinCheckBooking(r)
  BY <1>a, <1>b, <1>21, GotoAt, ReplyAt DEF JoinCheckBooking
<1>22. CASE JoinInsert(r)
  BY <1>a, <1>b, <1>22, GotoAt, ReplyAt DEF JoinInsert
<1>23. CASE LeaveDelete(r)
  BY <1>a, <1>b, <1>23, GotoAt, ReplyAt DEF LeaveDelete, DropEntry
<1>24. CASE PromoteRead(r)
  <2>1. loc[r].slot \in Slots /\ waitList \in [Slots -> [Users -> Nat]]
    BY <1>a, <1>24 DEF StoreInv, TypeOK, TablesOK, PromoteRead
  <2>2. CASE PromoteReturn(r)
    BY <1>a, <1>b, <2>2, GotoAt, ReplyAt DEF PromoteReturn
  <2>3. CASE ~PromoteReturn(r)
    <3>1. PICK c \in Users, n \in Nat :
            Goto(r, "lock_slot") /\ Local(r, [loc[r] EXCEPT !.client = c, !.entry = n])
      BY <1>24, <2>1, <2>3 DEF PromoteRead
    <3>2. pc'[r] = "lock_slot" /\ loc'[r] = [loc[r] EXCEPT !.client = c, !.entry = n]
      BY <1>a, <3>1, GotoAt, LocalAt
    <3>3. loc'[r].stale = loc[r].stale /\ loc'[r].slot = loc[r].slot
      BY <1>a, <3>2 DEF Locals
    <3> QED
      BY <1>a, <1>b, <2>1, <3>2, <3>3
  <2> QED
    BY <2>2, <2>3
<1>25. CASE PromoteDrop(r)
  BY <1>a, <1>b, <1>25, GotoAt, ReplyAt DEF PromoteDrop, DropEntry, PromoteReturn
<1>26. CASE DeleteFlush(r)
  BY <1>a, <1>b, <1>26, GotoAt, ReplyAt DEF DeleteFlush
<1>27. CASE ExpireLoad(r)
  <2>1. PICK s \in loc[r].load :
          IF s \in live
            THEN /\ \E S, T \in SUBSET Slots : Local(r, [loc[r] EXCEPT !.load = S, !.dirty = T])
                 /\ IF loc[r].load = {s} THEN Goto(r, "ex_flush") ELSE UNCHANGED pc
            ELSE Reply(r, "error")
    BY <1>a, <1>27, LocalFields DEF ExpireLoad
  <2>2. CASE s \notin live
    BY <1>a, <1>b, <2>1, <2>2, ReplyAt
  <2>3. CASE s \in live
    <3>1. loc'[r].stale = loc[r].stale
      <4>1. PICK S \in SUBSET Slots, T \in SUBSET Slots :
              Local(r, [loc[r] EXCEPT !.load = S, !.dirty = T])
        BY <2>1, <2>3
      <4>2. loc'[r] = [loc[r] EXCEPT !.load = S, !.dirty = T]
        BY <1>a, <4>1, LocalAt
      <4> QED
        BY <1>a, <4>2 DEF Locals
    <3>2. pc'[r] \in {"ex_load", "ex_flush"}
      BY <1>a, <1>27, <2>1, <2>3, GotoAt DEF ExpireLoad
    <3> QED
      BY <1>a, <1>b, <3>1, <3>2
  <2> QED
    BY <2>2, <2>3
<1>28. CASE ExpireFlushSlot(r)
  BY <1>a, <1>b, <1>28, GotoAt, ReplyAt DEF ExpireFlushSlot, LockSlots
<1>29. CASE ExpireFlushBooking(r)
  BY <1>a, <1>b, <1>29, GotoAt, ReplyAt DEF ExpireFlushBooking, LockBooking
<1>30. CASE ExpireCommit(r)
  BY <1>a, <1>b, <1>30, GotoAt, ReplyAt DEF ExpireCommit, ExpiredFlags, ExpiredRows
<1>31. CASE ExpireNext(r)
  <2>1. CASE Reply(r, "ok")
    BY <1>a, <1>b, <2>1, ReplyAt
  <2>2. CASE ~Reply(r, "ok")
    <3>1. PICK b \in loc[r].stale :
            /\ Local(r, [loc[r] EXCEPT !.stale = loc[r].stale \ {b}, !.slot = bookings[b].slot])
            /\ Goto(r, "promote")
      BY <1>31, <2>2 DEF ExpireNext
    <3>2. b \in BookingIds /\ bookings[b].slot \in Slots
      BY <1>a, <1>b, SlotOfBooking
    <3>3. loc'[r].stale = loc[r].stale \ {b} /\ loc'[r].slot \in Slots /\ pc'[r] = "promote"
      <4>1. /\ pc'[r] = "promote"
            /\ loc'[r] = [loc[r] EXCEPT !.stale = loc[r].stale \ {b}, !.slot = bookings[b].slot]
        BY <1>a, <3>1, LocalAt, GotoAt
      <4> QED
        BY <1>a, <1>b, <3>2, <4>1 DEF Locals
    <3> QED
      BY <1>a, <1>b, <3>3
  <2> QED
    BY <2>1, <2>2
<1>32. CASE Close(r)
  BY <1>a, <1>b, <1>32
  DEF StoreInv, TypeOK, TablesOK, SessionsOK, Close, Goto, Local, NoLocals
<1>33. CASE Crash(r)
  BY <1>a, <1>b, <1>33
  DEF StoreInv, TypeOK, TablesOK, SessionsOK, Crash, Goto, Local, NoLocals
<1>34. CASE DeadlockAbort(r)
  BY <1>a, <1>b, <1>34, GotoAt, ReplyAt DEF DeadlockAbort
<1> QED
  BY <1>1, <1>2, <1>3, <1>4, <1>5, <1>6, <1>7, <1>8, <1>9, <1>10, <1>11, <1>12, <1>13, <1>14,
     <1>15, <1>16, <1>17, <1>18, <1>19, <1>20, <1>21, <1>22, <1>23, <1>24, <1>25, <1>26, <1>27,
     <1>28, <1>29, <1>30, <1>31, <1>32, <1>33, <1>34 DEF Act, Arrive, Step

\* The session that acts holds the locks its next statement relies on.
LEMMA LocksStep ==
  ASSUME StoreInv, NEW r \in Sessions, Act(r)
  PROVE  LocksAt(r)'
<1>a. SessionsOK /\ LockTypesOK /\ loc[r] \in Locals /\ ArgsAt(r) /\ LocksAt(r)
  BY DEF StoreInv, TypeOK, SessionsOK, ArgsOK, LocksOK
<1>b. r # Nil
  BY StoreAssumption DEF StoreAssumption
<1> USE DEF LocksAt
<1>1. CASE CreateBegin(r)
  BY <1>a, <1>1, GotoAt DEF CreateBegin, Begin
<1>2. CASE CancelBegin(r)
  BY <1>a, <1>2, GotoAt DEF CancelBegin, Begin
<1>3. CASE RescheduleReadBooking(r)
  BY <1>a, <1>3, GotoAt DEF RescheduleReadBooking, Begin
<1>4. CASE JoinReadSlot(r)
  BY <1>a, <1>4, GotoAt DEF JoinReadSlot, Begin
<1>5. CASE LeaveRead(r)
  BY <1>a, <1>5, GotoAt DEF LeaveRead, Begin
<1>6. CASE DeleteRead(r)
  BY <1>a, <1>6, GotoAt DEF DeleteRead, Begin
<1>7. CASE ExpireSelect(r)
  BY <1>a, <1>7, GotoAt DEF ExpireSelect, Begin
<1>8. CASE CreateLookup(r)
  BY <1>a, <1>8, GotoAt, ReplyAt DEF CreateLookup, AnswerExisting
<1>9. CASE CreateLockSlot(r)
  BY <1>a, <1>9, GotoAt, ReplyAt DEF CreateLockSlot, LockSlots, tables, ArgsAt, NoSlotYet
<1>10. CASE CreateUpdateSlot(r)
  BY <1>a, <1>10, GotoAt DEF CreateUpdateSlot, tables, locks
<1>11. CASE CreateInsert(r)
  BY <1>a, <1>11, GotoAt, ReplyAt DEF CreateInsert, CreateReturn
<1>12. CASE CreateRecheck(r)
  BY <1>a, <1>12, GotoAt, ReplyAt DEF CreateRecheck, AnswerExisting
<1>13. CASE CancelLockBooking(r)
  BY <1>a, <1>13, GotoAt, ReplyAt DEF CancelLockBooking, LockBooking, ArgsAt, RescheduleAt,
     LockTypesOK
<1>14. CASE CancelLockSlot(r)
  <2>1. loc[r].booking \in BookingIds /\ Exists(loc[r].booking) /\ bookLock[loc[r].booking] = r
    BY <1>a, <1>14 DEF CancelLockSlot, ArgsAt
  <2>2. bookings[loc[r].booking].slot \in Slots
    BY <2>1, SlotOfBooking
  <2>3. /\ pc'[r] = "cancel"
        /\ loc'[r] = [loc[r] EXCEPT !.slot = bookings[loc[r].booking].slot]
    BY <1>a, <1>14, GotoAt, LocalAt DEF CancelLockSlot
  <2>4. loc'[r].slot = bookings[loc[r].booking].slot /\ loc'[r].booking = loc[r].booking
    BY <1>a, <2>3 DEF Locals
  <2> QED
    BY <1>14, <2>1, <2>2, <2>3, <2>4 DEF CancelLockSlot, LockSlots, tables
<1>15. CASE CancelCommit(r)
  BY <1>a, <1>15, GotoAt, ReplyAt DEF CancelCommit
<1>16. CASE CancelReload(r)
  BY <1>a, <1>16, GotoAt, ReplyAt DEF CancelReload
<1>17. CASE RescheduleReadSlot(r)
  BY <1>a, <1>17, GotoAt, ReplyAt DEF RescheduleReadSlot
<1>18. CASE RescheduleLockBooking(r)
  BY <1>a, <1>18, GotoAt, ReplyAt DEF RescheduleLockBooking, LockBooking, ArgsAt, RescheduleAt,
     LockTypesOK
<1>19. CASE RescheduleLockSlots(r)
  <2>1. CASE Reply(r, "rejected")
    BY <1>a, <2>1, ReplyAt
  <2>2. CASE ~Reply(r, "rejected")
    <3>1. /\ \A s \in {loc[r].seenSlot, loc[r].slot} : slotLock[s] = Nil
          /\ MayMove(loc[r].seenSlot, loc[r].slot)
          /\ LockSlots(r, {loc[r].seenSlot, loc[r].slot})
          /\ Goto(r, "rs_commit")
          /\ UNCHANGED <<bookLock, loc, live>>
      BY <1>19, <2>2 DEF RescheduleLockSlots, tables
    <3>2. loc[r].seenSlot \in Slots /\ loc[r].slot \in Slots
      BY <1>a, <1>19 DEF RescheduleLockSlots, ArgsAt, RescheduleAt, NoSlotYet
    <3>3. slotLock'[loc[r].seenSlot] = r /\ slotLock'[loc[r].slot] = r
      BY <3>1, <3>2 DEF LockSlots
    <3>4. bookLock[loc[r].booking] = r
      BY <1>a, <1>19 DEF RescheduleLockSlots
    <3> QED
      BY <1>a, <3>1, <3>3, <3>4, GotoAt DEF MayMove
  <2> QED
    BY <2>1, <2>2
<1>20. CASE RescheduleCommit(r)
  BY <1>a, <1>20, GotoAt, ReplyAt DEF RescheduleCommit
<1>21. CASE JoinCheckBooking(r)
  BY <1>a, <1>21, GotoAt, ReplyAt DEF JoinCheckBooking
<1>22. CASE JoinInsert(r)
  BY <1>a, <1>22, GotoAt, ReplyAt DEF JoinInsert
<1>23. CASE LeaveDelete(r)
  BY <1>a, <1>23, GotoAt, ReplyAt DEF LeaveDelete
<1>24. CASE PromoteRead(r)
  BY <1>a, <1>24, GotoAt, ReplyAt DEF PromoteRead, PromoteReturn
<1>25. CASE PromoteDrop(r)
  BY <1>a, <1>25, GotoAt, ReplyAt DEF PromoteDrop, PromoteReturn
<1>26. CASE DeleteFlush(r)
  BY <1>a, <1>26, GotoAt, ReplyAt DEF DeleteFlush
<1>27. CASE ExpireLoad(r)
  BY <1>a, <1>27, GotoAt, ReplyAt DEF ExpireLoad
<1>28. CASE ExpireFlushSlot(r)
  BY <1>a, <1>28, GotoAt, ReplyAt DEF ExpireFlushSlot
<1>29. CASE ExpireFlushBooking(r)
  BY <1>a, <1>29, GotoAt, ReplyAt DEF ExpireFlushBooking
<1>30. CASE ExpireCommit(r)
  BY <1>a, <1>30, GotoAt, ReplyAt DEF ExpireCommit
<1>31. CASE ExpireNext(r)
  BY <1>a, <1>31, GotoAt, ReplyAt DEF ExpireNext
<1>32. CASE Close(r)
  BY <1>a, <1>32, GotoAt DEF Close
<1>33. CASE Crash(r)
  BY <1>a, <1>33, GotoAt DEF Crash
<1>34. CASE DeadlockAbort(r)
  BY <1>a, <1>34, GotoAt, ReplyAt DEF DeadlockAbort
<1> QED
  BY <1>1, <1>2, <1>3, <1>4, <1>5, <1>6, <1>7, <1>8, <1>9, <1>10, <1>11, <1>12, <1>13, <1>14,
     <1>15, <1>16, <1>17, <1>18, <1>19, <1>20, <1>21, <1>22, <1>23, <1>24, <1>25, <1>26, <1>27,
     <1>28, <1>29, <1>30, <1>31, <1>32, <1>33, <1>34 DEF Act, Arrive, Step

\* Init establishes StoreInv.
LEMMA StoreInit == Init => StoreInv
<1> SUFFICES ASSUME Init PROVE StoreInv
  OBVIOUS
<1> USE DEF Init
<1>1. TablesOK
  BY StoreAssumption DEF StoreAssumption, TablesOK, Row, NoRow
<1>2. SessionsOK
  BY NoLocalsType DEF SessionsOK, Pcs
<1>3. LockTypesOK
  BY DEF LockTypesOK
<1>4. NoOrphan
  BY DEF NoOrphan, Exists, NoRow
<1>5. ArgsOK
  BY DEF ArgsOK, ArgsAt, NoSlotYet, RescheduleAt, NoLocals
<1>6. LocksOK
  BY DEF LocksOK, LocksAt
<1> QED
  BY <1>1, <1>2, <1>3, <1>4, <1>5, <1>6 DEF StoreInv, TypeOK

\* Every step preserves StoreInv.
LEMMA StoreStep == StoreInv /\ [Next]_vars => StoreInv'
<1> SUFFICES ASSUME StoreInv, [Next]_vars PROVE StoreInv'
  OBVIOUS
<1>1. ASSUME NEW r \in Sessions, Act(r) PROVE StoreInv'
  <2>1. TypeOK'
    BY <1>1, SessionsStep, TablesStep, LockTypesStep DEF TypeOK
  <2>2. NoOrphan'
    BY <1>1, NoOrphanStep
  <2>3. ASSUME NEW q \in Sessions PROVE ArgsAt(q)'
    <3>1. CASE q = r
      BY <1>1, <3>1, ArgsStep
    <3>2. CASE q # r
      <4>1. /\ pc'[q] = pc[q] /\ loc'[q] = loc[q] /\ ArgsAt(q)
            /\ loc[q].stale \in SUBSET BookingIds
        BY <1>1, <3>2, Frame, LocalFields DEF StoreInv, ArgsOK, TypeOK, SessionsOK
      <4>2. \A b \in BookingIds : Exists(b) => Exists(b)'
        BY <1>1, BookingLocked
      <4> QED
        BY <4>1, <4>2 DEF ArgsAt
    <3> QED
      BY <3>1, <3>2
  <2>4. ASSUME NEW q \in Sessions PROVE LocksAt(q)'
    <3>1. CASE q = r
      BY <1>1, <3>1, LocksStep
    <3>2. CASE q # r
      <4>1. /\ pc'[q] = pc[q] /\ loc'[q] = loc[q] /\ ArgsAt(q) /\ LocksAt(q)
            /\ \A s \in Slots : slotLock[s] = q => slotLock'[s] = q
            /\ \A b \in BookingIds : bookLock[b] = q => bookLock'[b] = q
        BY <1>1, <3>2, Frame DEF StoreInv, ArgsOK, LocksOK
      <4>2. \A s \in Slots : slotLock[s] = q => (s \in live <=> s \in live')
        BY <1>1, <3>2, SlotLocked, StoreAssumption DEF StoreAssumption
      <4>3. \A b \in BookingIds : Exists(b) /\ bookLock[b] = q => bookings'[b] = bookings[b]
        BY <1>1, <3>2, BookingLocked
      <4> QED
        BY <4>1, <4>2, <4>3 DEF LocksAt, ArgsAt, NoSlotYet, RescheduleAt
    <3> QED
      BY <3>1, <3>2
  <2> QED
    BY <2>1, <2>2, <2>3, <2>4 DEF StoreInv, ArgsOK, LocksOK
<1>2. ASSUME NEW s \in Slots, Start(s) PROVE StoreInv'
  <2>1. TypeOK'
    BY <1>2 DEF StoreInv, TypeOK, TablesOK, SessionsOK, LockTypesOK, Start, tables, locks
  <2> QED
    BY <1>2, <2>1 DEF StoreInv, NoOrphan, ArgsOK, ArgsAt, LocksOK, LocksAt, Exists,
                      Start, tables, locks
<1>3. CASE UNCHANGED vars
  <2>1. TypeOK'
    BY <1>3 DEF StoreInv, TypeOK, TablesOK, SessionsOK, LockTypesOK, vars
  <2> QED
    BY <1>3, <2>1 DEF StoreInv, NoOrphan, ArgsOK, ArgsAt, LocksOK, LocksAt, Exists, vars
<1> QED
  BY <1>1, <1>2, <1>3 DEF Next

\* StoreInv is an invariant, for every instance of the constants.
THEOREM StoreInvariant == Spec => []StoreInv
  BY StoreInit, StoreStep, PTL DEF Spec

\* Every variable has its type: in particular no slot is marked booked that has
\* no row, and every lock is held by a session or by nobody.
THEOREM TypeCorrect == Spec => []TypeOK
<1>1. StoreInv => TypeOK
  BY DEF StoreInv
<1> QED
  BY <1>1, StoreInvariant, PTL

\* The slot of a booking is never deleted, whatever runs at the same time.
THEOREM NoOrphanHolds == Spec => []NoOrphan
<1>1. StoreInv => NoOrphan
  BY DEF StoreInv
<1> QED
  BY <1>1, StoreInvariant, PTL

-------------------------------------------------------------------------------
(***************************************************************************)
(* Consequences of StoreInv.                                               *)
(***************************************************************************)
\* An Idempotency-Key names one booking of its client.
THEOREM KeyUnique == Spec => []KeyNamesOneBooking
<1> USE DEF KeyNamesOneBooking, Exists
<1>1. Init => KeyNamesOneBooking
  BY DEF Init, NoRow
<1>2. StoreInv /\ KeyNamesOneBooking /\ [Next]_vars => KeyNamesOneBooking'
  <2> SUFFICES ASSUME StoreInv, KeyNamesOneBooking, [Next]_vars PROVE KeyNamesOneBooking'
    OBVIOUS
  <2>a. bookings \in [BookingIds -> Row]
    BY DEF StoreInv, TypeOK, TablesOK
  <2>1. ASSUME NEW r \in Sessions, Act(r) PROVE KeyNamesOneBooking'
    <3>1. CASE CreateInsert(r)
      <4>1. CASE UNCHANGED bookings
        BY <4>1
      <4>2. CASE ~UNCHANGED bookings
        <5>1. PICK b \in BookingIds :
                bookings' = [bookings EXCEPT ![b] =
                  [slot |-> loc[r].slot, client |-> loc[r].client, key |-> loc[r].key,
                   status |-> "confirmed", asked |-> loc[r].slot]]
          BY <3>1, <4>2 DEF CreateInsert
        <5>2. ~KeyTaken(loc[r].client, loc[r].key)
          BY <3>1, <4>2 DEF CreateInsert
        <5> QED
          BY <2>a, <5>1, <5>2 DEF KeyTaken, ByIdempotencyKey
      <4> QED
        BY <4>1, <4>2
    <3>2. CASE CancelCommit(r)
      BY <2>a, <3>2 DEF Row, CancelCommit, StoreInv, ArgsOK, ArgsAt
    <3>3. CASE RescheduleCommit(r)
      BY <2>a, <3>3 DEF Row, RescheduleCommit, MovedRow
    <3>4. CASE DeleteFlush(r)
      BY <3>4 DEF DeleteFlush, tables
    <3>5. CASE ExpireCommit(r)
      BY <2>a, <3>5 DEF Row, ExpireCommit, ExpiredRows, StoreInv, ArgsOK, ArgsAt
    <3>6. CASE ~Writes(r)
      BY <2>1, <3>6, ReadOnly
    <3> QED
      BY <3>1, <3>2, <3>3, <3>4, <3>5, <3>6 DEF Writes
  <2>2. ASSUME NEW s \in Slots, Start(s) PROVE KeyNamesOneBooking'
    BY <2>2 DEF Start, tables
  <2>3. CASE UNCHANGED vars
    BY <2>3 DEF vars
  <2> QED
    BY <2>1, <2>2, <2>3 DEF Next
<1> QED
  BY <1>1, <1>2, StoreInvariant, PTL DEF Spec

\* A booking stays, keeps client and key, and is never confirmed again.
THEOREM BookingsKeepHistory == Spec => BookingHistory
<1> DEFINE Kept ==
      \A b \in BookingIds : Exists(b) =>
        /\ Exists(b)'
        /\ bookings[b].client = bookings[b].client'
        /\ bookings[b].key = bookings[b].key'
        /\ Confirmed(b)' => Confirmed(b)
<1>1. StoreInv /\ [Next]_vars => [Kept]_vars
  <2> SUFFICES ASSUME StoreInv, Next PROVE Kept
    OBVIOUS
  <2>a. bookings \in [BookingIds -> Row]
    BY DEF StoreInv, TypeOK, TablesOK
  <2>1. ASSUME NEW r \in Sessions, Act(r), NEW b \in BookingIds, Exists(b)
        PROVE  /\ bookings[b].client = bookings'[b].client
               /\ bookings[b].key = bookings'[b].key
               /\ bookings'[b].status = "confirmed" => bookings[b].status = "confirmed"
    <3>1. CASE CreateInsert(r)
      BY <2>a, <2>1, <3>1 DEF CreateInsert, NextId
    <3>2. CASE CancelCommit(r)
      BY <2>a, <2>1, <3>2 DEF Row, CancelCommit
    <3>3. CASE RescheduleCommit(r)
      BY <2>a, <2>1, <3>3 DEF Row, RescheduleCommit, MovedRow
    <3>4. CASE DeleteFlush(r)
      BY <3>4 DEF DeleteFlush, tables
    <3>5. CASE ExpireCommit(r)
      BY <2>a, <2>1, <3>5 DEF Row, ExpireCommit, ExpiredRows
    <3>6. CASE ~Writes(r)
      BY <2>1, <3>6, ReadOnly
    <3> QED
      BY <3>1, <3>2, <3>3, <3>4, <3>5, <3>6 DEF Writes
  <2>2. ASSUME NEW r \in Sessions, Act(r) PROVE Kept
    BY <2>1, <2>2, BookingLocked DEF Confirmed
  <2>3. ASSUME NEW s \in Slots, Start(s) PROVE Kept
    BY <2>3 DEF Start, tables, Exists, Confirmed
  <2> QED
    BY <2>2, <2>3 DEF Next
<1> QED
  BY <1>1, StoreInvariant, PTL DEF Spec, BookingHistory

-------------------------------------------------------------------------------
(***************************************************************************)
(* The parts of FlagInv.                                                   *)
(***************************************************************************)
\* Where a session can be coming from when it is about to write.
LEMMA CameFrom ==
  ASSUME StoreInv, NEW r \in Sessions, Act(r)
  PROVE  /\ pc'[r] = "insert" => CreateUpdateSlot(r)
         /\ pc'[r] \in RescheduleAt =>
              \/ RescheduleReadBooking(r) \/ RescheduleReadSlot(r)
              \/ RescheduleLockBooking(r) \/ RescheduleLockSlots(r)
         /\ pc'[r] \in {"ex_load", "ex_flush"} =>
              \/ ExpireSelect(r) \/ ExpireLoad(r)
              \/ ExpireFlushSlot(r) \/ ExpireFlushBooking(r)
<1>a. SessionsOK
  BY DEF StoreInv, TypeOK
<1> USE DEF RescheduleAt
<1>1. CASE CreateBegin(r)
  BY <1>a, <1>1, GotoAt, ReplyAt DEF CreateBegin, Begin
<1>2. CASE CancelBegin(r)
  BY <1>a, <1>2, GotoAt, ReplyAt DEF CancelBegin, Begin
<1>3. CASE RescheduleReadBooking(r)
  BY <1>a, <1>3, GotoAt, ReplyAt DEF RescheduleReadBooking, Begin
<1>4. CASE JoinReadSlot(r)
  BY <1>a, <1>4, GotoAt, ReplyAt DEF JoinReadSlot, Begin
<1>5. CASE LeaveRead(r)
  BY <1>a, <1>5, GotoAt, ReplyAt DEF LeaveRead, Begin
<1>6. CASE DeleteRead(r)
  BY <1>a, <1>6, GotoAt, ReplyAt DEF DeleteRead, Begin
<1>7. CASE ExpireSelect(r)
  BY <1>a, <1>7, GotoAt, ReplyAt DEF ExpireSelect, Begin
<1>8. CASE CreateLookup(r)
  BY <1>a, <1>8, GotoAt, ReplyAt DEF CreateLookup, AnswerExisting
<1>9. CASE CreateLockSlot(r)
  BY <1>a, <1>9, GotoAt, ReplyAt DEF CreateLockSlot
<1>10. CASE CreateUpdateSlot(r)
  BY <1>a, <1>10, GotoAt, ReplyAt DEF CreateUpdateSlot
<1>11. CASE CreateInsert(r)
  BY <1>a, <1>11, GotoAt, ReplyAt DEF CreateInsert, CreateReturn
<1>12. CASE CreateRecheck(r)
  BY <1>a, <1>12, GotoAt, ReplyAt DEF CreateRecheck, AnswerExisting
<1>13. CASE CancelLockBooking(r)
  BY <1>a, <1>13, GotoAt, ReplyAt DEF CancelLockBooking
<1>14. CASE CancelLockSlot(r)
  BY <1>a, <1>14, GotoAt, ReplyAt DEF CancelLockSlot
<1>15. CASE CancelCommit(r)
  BY <1>a, <1>15, GotoAt, ReplyAt DEF CancelCommit
<1>16. CASE CancelReload(r)
  BY <1>a, <1>16, GotoAt, ReplyAt DEF CancelReload
<1>17. CASE RescheduleReadSlot(r)
  BY <1>a, <1>17, GotoAt, ReplyAt DEF RescheduleReadSlot
<1>18. CASE RescheduleLockBooking(r)
  BY <1>a, <1>18, GotoAt, ReplyAt DEF RescheduleLockBooking
<1>19. CASE RescheduleLockSlots(r)
  BY <1>a, <1>19, GotoAt, ReplyAt DEF RescheduleLockSlots
<1>20. CASE RescheduleCommit(r)
  BY <1>a, <1>20, GotoAt, ReplyAt DEF RescheduleCommit
<1>21. CASE JoinCheckBooking(r)
  BY <1>a, <1>21, GotoAt, ReplyAt DEF JoinCheckBooking
<1>22. CASE JoinInsert(r)
  BY <1>a, <1>22, GotoAt, ReplyAt DEF JoinInsert
<1>23. CASE LeaveDelete(r)
  BY <1>a, <1>23, GotoAt, ReplyAt DEF LeaveDelete
<1>24. CASE PromoteRead(r)
  BY <1>a, <1>24, GotoAt, ReplyAt DEF PromoteRead, PromoteReturn
<1>25. CASE PromoteDrop(r)
  BY <1>a, <1>25, GotoAt, ReplyAt DEF PromoteDrop, PromoteReturn
<1>26. CASE DeleteFlush(r)
  BY <1>a, <1>26, GotoAt, ReplyAt DEF DeleteFlush
<1>27. CASE ExpireLoad(r)
  BY <1>a, <1>27, GotoAt, ReplyAt DEF ExpireLoad
<1>28. CASE ExpireFlushSlot(r)
  BY <1>a, <1>28, GotoAt, ReplyAt DEF ExpireFlushSlot
<1>29. CASE ExpireFlushBooking(r)
  BY <1>a, <1>29, GotoAt, ReplyAt DEF ExpireFlushBooking
<1>30. CASE ExpireCommit(r)
  BY <1>a, <1>30, GotoAt, ReplyAt DEF ExpireCommit
<1>31. CASE ExpireNext(r)
  BY <1>a, <1>31, GotoAt, ReplyAt DEF ExpireNext
<1>32. CASE Close(r)
  BY <1>a, <1>32, GotoAt, ReplyAt DEF Close
<1>33. CASE Crash(r)
  BY <1>a, <1>33, GotoAt, ReplyAt DEF Crash
<1>34. CASE DeadlockAbort(r)
  BY <1>a, <1>34, GotoAt, ReplyAt DEF DeadlockAbort
<1> QED
  BY <1>1, <1>2, <1>3, <1>4, <1>5, <1>6, <1>7, <1>8, <1>9, <1>10, <1>11, <1>12, <1>13, <1>14,
     <1>15, <1>16, <1>17, <1>18, <1>19, <1>20, <1>21, <1>22, <1>23, <1>24, <1>25, <1>26, <1>27,
     <1>28, <1>29, <1>30, <1>31, <1>32, <1>33, <1>34 DEF Act, Arrive, Step

\* The session that acts stays with the operation it was asked for.
LEMMA OpsStep ==
  ASSUME StoreInv, NEW r \in Sessions, Act(r), OpsAt(r)
  PROVE  OpsAt(r)'
<1>a. SessionsOK /\ loc[r] \in Locals
  BY DEF StoreInv, TypeOK, SessionsOK
<1> USE DEF OpsAt, RescheduleAt
<1>1. CASE CreateBegin(r)
  BY <1>a, <1>1 DEF CreateBegin, Begin, SessionsOK, Goto, Local, NoLocals
<1>2. CASE CancelBegin(r)
  BY <1>a, <1>2 DEF CancelBegin, Begin, SessionsOK, Goto, Local, NoLocals
<1>3. CASE RescheduleReadBooking(r)
  BY <1>a, <1>3 DEF RescheduleReadBooking, Begin, SessionsOK, Goto, Local, NoLocals
<1>4. CASE JoinReadSlot(r)
  BY <1>a, <1>4 DEF JoinReadSlot, Begin, SessionsOK, Goto, Local, NoLocals
<1>5. CASE LeaveRead(r)
  BY <1>a, <1>5 DEF LeaveRead, Begin, SessionsOK, Goto, Local, NoLocals
<1>6. CASE DeleteRead(r)
  BY <1>a, <1>6 DEF DeleteRead, Begin, SessionsOK, Goto, Local, NoLocals
<1>7. CASE ExpireSelect(r)
  BY <1>a, <1>7 DEF ExpireSelect, Begin, SessionsOK, Goto, Local, NoLocals
<1>8. CASE CreateLookup(r)
  <2>1. CASE loc'[r].op = loc[r].op
    BY <1>a, <1>8, <2>1, GotoAt, ReplyAt DEF CreateLookup, AnswerExisting
  <2>2. CASE \E b, code : Local(r, [loc[r] EXCEPT !.booking = b, !.reply = code])
    <3>1. PICK b, code : loc'[r] = [loc[r] EXCEPT !.booking = b, !.reply = code]
      BY <1>a, <2>2, LocalAt
    <3> QED
      BY <1>a, <2>1, <3>1 DEF Locals
  <2> QED
    BY <1>a, <1>8, <2>1, <2>2, ReplyAt DEF CreateLookup, AnswerExisting
<1>9. CASE CreateLockSlot(r)
  BY <1>a, <1>9, GotoAt, ReplyAt DEF CreateLockSlot
<1>10. CASE CreateUpdateSlot(r)
  BY <1>a, <1>10, GotoAt, ReplyAt DEF CreateUpdateSlot
<1>11. CASE CreateInsert(r)
  <2>1. CASE loc'[r].op = loc[r].op
    BY <1>a, <1>11, <2>1, GotoAt DEF CreateInsert, CreateReturn
  <2>2. CASE \E b : Local(r, [loc[r] EXCEPT !.booking = b, !.reply = "created"])
    <3>1. PICK b : loc'[r] = [loc[r] EXCEPT !.booking = b, !.reply = "created"]
      BY <1>a, <2>2, LocalAt
    <3> QED
      BY <1>a, <2>1, <3>1 DEF Locals
  <2> QED
    BY <1>a, <1>11, <2>1, <2>2 DEF CreateInsert, CreateReturn
<1>12. CASE CreateRecheck(r)
  <2>1. CASE loc'[r].op = loc[r].op
    BY <1>a, <1>12, <2>1, GotoAt, ReplyAt DEF CreateRecheck, AnswerExisting
  <2>2. CASE \E b, code : Local(r, [loc[r] EXCEPT !.booking = b, !.reply = code])
    <3>1. PICK b, code : loc'[r] = [loc[r] EXCEPT !.booking = b, !.reply = code]
      BY <1>a, <2>2, LocalAt
    <3> QED
      BY <1>a, <2>1, <3>1 DEF Locals
  <2> QED
    BY <1>a, <1>12, <2>1, <2>2, ReplyAt DEF CreateRecheck, AnswerExisting
<1>13. CASE CancelLockBooking(r)
  BY <1>a, <1>13, GotoAt, ReplyAt DEF CancelLockBooking
<1>14. CASE CancelLockSlot(r)
  <2>1. CASE loc'[r].op = loc[r].op
    BY <1>a, <1>14, <2>1, GotoAt, ReplyAt DEF CancelLockSlot
  <2>2. CASE \E x : Local(r, [loc[r] EXCEPT !.slot = x])
    <3>1. PICK x : loc'[r] = [loc[r] EXCEPT !.slot = x]
      BY <1>a, <2>2, LocalAt
    <3> QED
      BY <1>a, <2>1, <3>1 DEF Locals
  <2> QED
    BY <1>a, <1>14, <2>1, <2>2, ReplyAt DEF CancelLockSlot
<1>15. CASE CancelCommit(r)
  BY <1>a, <1>15, GotoAt, ReplyAt DEF CancelCommit
<1>16. CASE CancelReload(r)
  BY <1>a, <1>16, GotoAt, ReplyAt DEF CancelReload
<1>17. CASE RescheduleReadSlot(r)
  <2>1. CASE loc'[r].op = loc[r].op
    BY <1>a, <1>17, <2>1, GotoAt, ReplyAt DEF RescheduleReadSlot
  <2>2. CASE \E x : Local(r, [loc[r] EXCEPT !.seenFlag = x])
    <3>1. PICK x : loc'[r] = [loc[r] EXCEPT !.seenFlag = x]
      BY <1>a, <2>2, LocalAt
    <3> QED
      BY <1>a, <2>1, <3>1 DEF Locals
  <2> QED
    BY <1>a, <1>17, <2>1, <2>2, ReplyAt DEF RescheduleReadSlot
<1>18. CASE RescheduleLockBooking(r)
  BY <1>a, <1>18, GotoAt, ReplyAt DEF RescheduleLockBooking
<1>19. CASE RescheduleLockSlots(r)
  BY <1>a, <1>19, GotoAt, ReplyAt DEF RescheduleLockSlots
<1>20. CASE RescheduleCommit(r)
  BY <1>a, <1>20, GotoAt, ReplyAt DEF RescheduleCommit
<1>21. CASE JoinCheckBooking(r)
  BY <1>a, <1>21, GotoAt, ReplyAt DEF JoinCheckBooking
<1>22. CASE JoinInsert(r)
  BY <1>a, <1>22, GotoAt, ReplyAt DEF JoinInsert
<1>23. CASE LeaveDelete(r)
  BY <1>a, <1>23, GotoAt, ReplyAt DEF LeaveDelete
<1>24. CASE PromoteRead(r)
  <2>1. CASE loc'[r].op = loc[r].op
    BY <1>a, <1>24, <2>1, GotoAt, ReplyAt DEF PromoteRead, PromoteReturn
  <2>2. CASE \E x, y : Local(r, [loc[r] EXCEPT !.client = x, !.entry = y])
    <3>1. PICK x, y : loc'[r] = [loc[r] EXCEPT !.client = x, !.entry = y]
      BY <1>a, <2>2, LocalAt
    <3> QED
      BY <1>a, <2>1, <3>1 DEF Locals
  <2> QED
    BY <1>a, <1>24, <2>1, <2>2, ReplyAt DEF PromoteRead, PromoteReturn
<1>25. CASE PromoteDrop(r)
  BY <1>a, <1>25, GotoAt, ReplyAt DEF PromoteDrop, PromoteReturn
<1>26. CASE DeleteFlush(r)
  BY <1>a, <1>26, GotoAt, ReplyAt DEF DeleteFlush
<1>27. CASE ExpireLoad(r)
  <2>1. CASE loc'[r].op = loc[r].op
    BY <1>a, <1>27, <2>1, GotoAt, ReplyAt DEF ExpireLoad
  <2>2. CASE \E x, y : Local(r, [loc[r] EXCEPT !.load = x, !.dirty = y])
    <3>1. PICK x, y : loc'[r] = [loc[r] EXCEPT !.load = x, !.dirty = y]
      BY <1>a, <2>2, LocalAt
    <3> QED
      BY <1>a, <2>1, <3>1 DEF Locals
  <2> QED
    BY <1>a, <1>27, <2>1, <2>2, ReplyAt DEF ExpireLoad
<1>28. CASE ExpireFlushSlot(r)
  BY <1>a, <1>28, GotoAt, ReplyAt DEF ExpireFlushSlot
<1>29. CASE ExpireFlushBooking(r)
  BY <1>a, <1>29, GotoAt, ReplyAt DEF ExpireFlushBooking
<1>30. CASE ExpireCommit(r)
  BY <1>a, <1>30, GotoAt, ReplyAt DEF ExpireCommit
<1>31. CASE ExpireNext(r)
  <2>1. CASE loc'[r].op = loc[r].op
    BY <1>a, <1>31, <2>1, GotoAt, ReplyAt DEF ExpireNext
  <2>2. CASE \E x, y : Local(r, [loc[r] EXCEPT !.stale = x, !.slot = y])
    <3>1. PICK x, y : loc'[r] = [loc[r] EXCEPT !.stale = x, !.slot = y]
      BY <1>a, <2>2, LocalAt
    <3> QED
      BY <1>a, <2>1, <3>1 DEF Locals
  <2> QED
    BY <1>a, <1>31, <2>1, <2>2, ReplyAt DEF ExpireNext
<1>32. CASE Close(r)
  BY <1>a, <1>32, GotoAt DEF Close
<1>33. CASE Crash(r)
  BY <1>a, <1>33, GotoAt DEF Crash
<1>34. CASE DeadlockAbort(r)
  <2>1. pc[r] # "idle"
    BY <1>34 DEF DeadlockAbort, Deadlocked, WaitsFor
  <2> QED
    BY <1>a, <1>34, <2>1, ReplyAt DEF DeadlockAbort
<1> QED
  BY <1>1, <1>2, <1>3, <1>4, <1>5, <1>6, <1>7, <1>8, <1>9, <1>10, <1>11, <1>12, <1>13, <1>14,
     <1>15, <1>16, <1>17, <1>18, <1>19, <1>20, <1>21, <1>22, <1>23, <1>24, <1>25, <1>26, <1>27,
     <1>28, <1>29, <1>30, <1>31, <1>32, <1>33, <1>34 DEF Act, Arrive, Step

\* A session that frees nothing leaves the existing bookings alone.
LEMMA OthersKeepBookings ==
  ASSUME StoreInv, NEW r \in Sessions, Act(r), OpsAt(r), Ops[r] \cap Frees = {},
         NEW b \in BookingIds, Exists(b)
  PROVE  bookings'[b] = bookings[b]
<1>1. ~CancelCommit(r)
  BY DEF OpsAt, CancelCommit, Frees
<1>2. ~RescheduleCommit(r)
  BY DEF OpsAt, RescheduleCommit, RescheduleAt, Frees
<1>3. ~ExpireCommit(r)
  BY DEF OpsAt, ExpireCommit, Frees
<1>4. CASE CreateInsert(r)
  BY <1>4 DEF CreateInsert, NextId, StoreInv, TypeOK, TablesOK
<1>5. CASE DeleteFlush(r)
  BY <1>5 DEF DeleteFlush, tables
<1>6. CASE ~Writes(r)
  BY <1>6, ReadOnly
<1> QED
  BY <1>1, <1>2, <1>3, <1>4, <1>5, <1>6 DEF Writes

\* While session q remembers bookings, no other session changes them.
LEMMA Undisturbed ==
  ASSUME StoreInv, FreeingSerialised, MemoryOK, NEW r \in Sessions, Act(r),
         NEW q \in Sessions, q # r, pc[q] \in RescheduleAt \cup {"ex_load", "ex_flush"},
         NEW b \in BookingIds, Exists(b)
  PROVE  bookings'[b] = bookings[b]
<1>1. Ops[q] \cap {"reschedule", "expire"} # {}
  BY DEF MemoryOK, OpsAt, RescheduleAt
<1>2. Ops[r] \cap Frees = {}
  BY <1>1 DEF FreeingSerialised
<1> QED
  BY <1>2, OthersKeepBookings DEF MemoryOK

\* What the acting session remembers of its booking and slot is so.
LEMMA SeenStep ==
  ASSUME StoreInv, FlagInv, NEW r \in Sessions, Act(r)
  PROVE  SeenAt(r)'
<1>a. SessionsOK /\ loc[r] \in Locals /\ ArgsAt(r) /\ SeenAt(r)
  BY DEF StoreInv, TypeOK, SessionsOK, ArgsOK, FlagInv, MemoryOK
<1> USE DEF SeenAt, RescheduleAt
<1>1. CASE RescheduleReadBooking(r)
  <2>1. PICK u \in Users, b \in BookingIds, s \in Slots :
          Begin(r, "rs_slot",
                [NoLocals EXCEPT !.op = "reschedule", !.user = u, !.booking = b, !.slot = s,
                                 !.seenSlot = bookings[b].slot,
                                 !.seenStatus = bookings[b].status])
    BY <1>1 DEF RescheduleReadBooking
  <2>2. /\ pc'[r] = "rs_slot"
        /\ loc'[r].booking = b
        /\ loc'[r].seenSlot = bookings[b].slot
        /\ loc'[r].seenStatus = bookings[b].status
    BY <1>a, <2>1 DEF Begin, SessionsOK, Goto, Local, NoLocals
  <2> QED
    BY <1>1, <2>2 DEF RescheduleReadBooking, tables
<1>2. CASE RescheduleReadSlot(r)
  <2>1. CASE Reply(r, "rejected")
    BY <1>a, <2>1, ReplyAt
  <2>2. CASE ~Reply(r, "rejected")
    <3>1. /\ pc'[r] = "rs_lock_booking"
          /\ loc'[r] = [loc[r] EXCEPT !.seenFlag = IF loc[r].seenSlot \in booked
                                                   THEN "booked" ELSE "free"]
      BY <1>a, <1>2, <2>2, GotoAt, LocalAt DEF RescheduleReadSlot
    <3>2. /\ loc'[r].booking = loc[r].booking
          /\ loc'[r].seenSlot = loc[r].seenSlot
          /\ loc'[r].seenStatus = loc[r].seenStatus
          /\ loc'[r].seenFlag = IF loc[r].seenSlot \in booked THEN "booked" ELSE "free"
      BY <1>a, <3>1 DEF Locals
    <3>3. loc[r].seenStatus = "confirmed" => loc[r].seenSlot \in booked
      BY <1>a, <1>2 DEF RescheduleReadSlot, ArgsAt, FlagInv, FlagAgrees, NoUnmarkedBooking,
         Confirmed
    <3> QED
      BY <1>a, <1>2, <3>1, <3>2, <3>3 DEF RescheduleReadSlot, tables
  <2> QED
    BY <2>1, <2>2
<1>3. CASE RescheduleLockBooking(r)
  BY <1>a, <1>3, GotoAt, ReplyAt DEF RescheduleLockBooking, tables
<1>4. CASE RescheduleLockSlots(r)
  BY <1>a, <1>4, GotoAt, ReplyAt DEF RescheduleLockSlots, tables
<1>5. CASE pc'[r] \notin RescheduleAt
  BY <1>5
<1> QED
  BY <1>1, <1>2, <1>3, <1>4, <1>5, CameFrom

\* What the acting expiration task remembers of its bookings is so.
LEMMA StaleStep ==
  ASSUME StoreInv, FlagInv, NEW r \in Sessions, Act(r)
  PROVE  StaleAt(r)'
<1>a. SessionsOK /\ loc[r] \in Locals /\ StaleAt(r)
  BY DEF StoreInv, TypeOK, SessionsOK, FlagInv, MemoryOK
<1> USE DEF StaleAt, Confirmed
<1>1. CASE ExpireSelect(r)
  <2>1. /\ pc'[r] = "ex_load"
        /\ loc'[r].stale = StaleBookings
        /\ loc'[r].load = {bookings[b].slot : b \in StaleBookings}
        /\ loc'[r].dirty = {}
    BY <1>a, <1>1 DEF ExpireSelect, Begin, SessionsOK, Goto, Local, NoLocals
  <2>2. UNCHANGED bookings
    BY <1>1 DEF ExpireSelect, tables
  <2> QED
    BY <2>1, <2>2 DEF StaleBookings
<1>2. CASE ExpireLoad(r)
  <2>1. PICK s \in loc[r].load :
          IF s \in live
            THEN /\ Local(r, [loc[r] EXCEPT !.load = loc[r].load \ {s},
                                       !.dirty = IF s \in booked THEN loc[r].dirty \cup {s}
                                                                ELSE loc[r].dirty])
                 /\ IF loc[r].load = {s} THEN Goto(r, "ex_flush") ELSE UNCHANGED pc
            ELSE Reply(r, "error")
    BY <1>2 DEF ExpireLoad
  <2>2. CASE s \notin live
    BY <1>a, <2>1, <2>2, ReplyAt
  <2>3. CASE s \in live
    <3>1. PICK b \in loc[r].stale : Confirmed(b) /\ bookings[b].slot = s
      BY <1>a, <1>2 DEF ExpireLoad
    <3>2. s \in booked
      BY <1>a, <3>1, LocalFields DEF FlagInv, FlagAgrees, NoUnmarkedBooking
    <3>3. loc'[r] = [loc[r] EXCEPT !.load = loc[r].load \ {s}, !.dirty = loc[r].dirty \cup {s}]
      BY <1>a, <2>1, <2>3, <3>2, LocalAt
    <3>4. /\ loc'[r].stale = loc[r].stale
          /\ loc'[r].load = loc[r].load \ {s}
          /\ loc'[r].dirty = loc[r].dirty \cup {s}
      BY <1>a, <3>3 DEF Locals
    <3>5. UNCHANGED bookings /\ pc[r] = "ex_load"
      BY <1>2 DEF ExpireLoad, tables
    <3>6. pc'[r] = "ex_flush" => loc'[r].load = {}
      <4>1. CASE loc[r].load = {s}
        BY <3>4, <4>1
      <4>2. CASE loc[r].load # {s}
        BY <2>1, <2>3, <3>5, <4>2
      <4> QED
        BY <4>1, <4>2
    <3>7. \A b1 \in loc'[r].stale :
            bookings'[b1].status = "confirmed" /\ bookings'[b1].slot \in loc'[r].load \cup loc'[r].dirty
      BY <1>a, <3>4, <3>5
    <3>8. \A s1 \in loc'[r].load \cup loc'[r].dirty : \E b1 \in loc'[r].stale : bookings'[b1].slot = s1
      BY <1>a, <2>1, <3>4, <3>5
    <3> QED
      BY <3>6, <3>7, <3>8
  <2> QED
    BY <2>2, <2>3
<1>3. CASE ExpireFlushSlot(r)
  BY <1>a, <1>3, ReplyAt DEF ExpireFlushSlot, tables
<1>4. CASE ExpireFlushBooking(r)
  BY <1>a, <1>4 DEF ExpireFlushBooking, tables
<1>5. CASE pc'[r] \notin {"ex_load", "ex_flush"}
  BY <1>5
<1> QED
  BY <1>1, <1>2, <1>3, <1>4, <1>5, CameFrom

\* The slot the acting session is about to mark booked is free.
LEMMA TargetStep ==
  ASSUME StoreInv, NEW r \in Sessions, Act(r)
  PROVE  TargetFreeAt(r)'
<1>a. SessionsOK /\ loc[r] \in Locals
  BY DEF StoreInv, TypeOK, SessionsOK
<1>1. CASE CreateUpdateSlot(r)
  BY <1>a, <1>1, GotoAt DEF CreateUpdateSlot, TargetFreeAt, tables
<1>2. CASE RescheduleLockSlots(r)
  BY <1>a, <1>2, GotoAt, ReplyAt DEF RescheduleLockSlots, MayMove, TargetFreeAt, tables
<1>3. CASE RescheduleReadBooking(r)
  BY <1>a, <1>3, GotoAt DEF RescheduleReadBooking, Begin, TargetFreeAt
<1>4. CASE RescheduleReadSlot(r)
  BY <1>a, <1>4, GotoAt, ReplyAt DEF RescheduleReadSlot, TargetFreeAt
<1>5. CASE RescheduleLockBooking(r)
  BY <1>a, <1>5, GotoAt, ReplyAt DEF RescheduleLockBooking, TargetFreeAt
<1>6. CASE pc'[r] \notin {"insert", "rs_commit"}
  BY <1>6 DEF TargetFreeAt
<1> QED
  BY <1>1, <1>2, <1>3, <1>4, <1>5, <1>6, CameFrom DEF RescheduleAt

\* The slots the others are about to mark are locked by them, and stay free.
LEMMA TargetsStep ==
  ASSUME StoreInv, TargetsFree, NEW r \in Sessions, Act(r)
  PROVE  TargetsFree'
<1> SUFFICES ASSUME NEW q \in Sessions PROVE TargetFreeAt(q)'
  BY DEF TargetsFree
<1>1. CASE q = r
  BY <1>1, TargetStep
<1>2. CASE q # r
  <2>a. pc'[q] = pc[q] /\ loc'[q] = loc[q] /\ ArgsAt(q) /\ LocksAt(q) /\ TargetFreeAt(q)
    BY <1>2, Frame DEF StoreInv, ArgsOK, LocksOK, TargetsFree
  <2>1. CASE pc[q] \in {"insert", "rs_commit"}
    <3>1. loc[q].slot \in Slots /\ slotLock[loc[q].slot] = q /\ q # Nil
      BY <2>a, <2>1, StoreAssumption DEF StoreAssumption, ArgsAt, LocksAt, NoSlotYet
    <3>2. loc[q].slot \in booked <=> loc[q].slot \in booked'
      BY <1>2, <3>1, SlotLocked
    <3> QED
      BY <2>a, <3>2 DEF TargetFreeAt
  <2>2. CASE pc[q] \notin {"insert", "rs_commit"}
    BY <2>a, <2>2 DEF TargetFreeAt
  <2> QED
    BY <2>1, <2>2
<1> QED
  BY <1>1, <1>2

\* Where a booking comes to a slot, the slot is free, and marked from then on.
LEMMA SoldStep ==
  ASSUME StoreInv, TargetsFree, NEW r \in Sessions, Act(r),
         NEW b \in BookingIds, Exists(b)', ~Exists(b) \/ bookings[b].slot # bookings'[b].slot
  PROVE  bookings'[b].slot \notin booked /\ bookings'[b].slot \in booked'
<1>a. bookings \in [BookingIds -> Row] /\ TargetFreeAt(r) /\ ArgsAt(r)
  BY DEF StoreInv, TypeOK, TablesOK, TargetsFree, ArgsOK
<1> USE DEF Exists
<1>1. CASE CreateInsert(r)
  <2>1. CASE UNCHANGED bookings
    BY <2>1
  <2>2. CASE ~UNCHANGED bookings
    <3>1. /\ pc[r] = "insert" /\ booked' = booked \cup {loc[r].slot}
          /\ \E n \in BookingIds : bookings' = [bookings EXCEPT ![n] =
               [slot |-> loc[r].slot, client |-> loc[r].client, key |-> loc[r].key,
                status |-> "confirmed", asked |-> loc[r].slot]]
      BY <1>1, <2>2 DEF CreateInsert
    <3>2. bookings'[b].slot = loc[r].slot
      BY <1>a, <3>1
    <3> QED
      BY <1>a, <3>1, <3>2 DEF TargetFreeAt
  <2> QED
    BY <2>1, <2>2
<1>2. CASE CancelCommit(r)
  BY <1>a, <1>2 DEF CancelCommit, Row, ArgsAt
<1>3. CASE RescheduleCommit(r)
  <2>1. pc[r] = "rs_commit" /\ loc[r].booking \in BookingIds
    BY <1>a, <1>3 DEF RescheduleCommit, ArgsAt, RescheduleAt
  <2>2. bookings'[b].slot = loc[r].slot
    BY <1>a, <1>3, <2>1 DEF RescheduleCommit, MovedRow, Row
  <2> QED
    BY <1>a, <1>3, <2>1, <2>2 DEF RescheduleCommit, MovedFlags, TargetFreeAt
<1>4. CASE DeleteFlush(r)
  BY <1>4 DEF DeleteFlush, tables
<1>5. CASE ExpireCommit(r)
  BY <1>a, <1>5 DEF ExpireCommit, ExpiredRows, Row, ArgsAt
<1>6. CASE ~Writes(r)
  BY <1>6, ReadOnly
<1> QED
  BY <1>1, <1>2, <1>3, <1>4, <1>5, <1>6 DEF Writes

\* A slot is sold only while its flag says that it is free, whatever overlaps: any
\* number of sessions that create, promote, move, cancel, expire and delete.
THEOREM SoldWhileFreeHolds == Spec => SoldWhileFree
<1> DEFINE Sold ==
      \A b \in BookingIds :
        Exists(b)' /\ (~Exists(b) \/ bookings[b].slot # bookings[b].slot') =>
          bookings[b].slot' \notin booked /\ bookings[b].slot' \in booked'
<1>1. Init => TargetsFree
  BY DEF Init, TargetsFree, TargetFreeAt
<1>2. StoreInv /\ TargetsFree /\ [Next]_vars => TargetsFree'
  <2> SUFFICES ASSUME StoreInv, TargetsFree, [Next]_vars PROVE TargetsFree'
    OBVIOUS
  <2>1. CASE UNCHANGED <<tables, pc, loc>>
    BY <2>1 DEF TargetsFree, TargetFreeAt, tables
  <2>2. CASE UNCHANGED vars
    BY <2>1, <2>2 DEF vars, tables
  <2>3. ASSUME NEW s \in Slots, Start(s) PROVE TargetsFree'
    BY <2>1, <2>3 DEF Start
  <2> QED
    BY <2>2, <2>3, TargetsStep DEF Next
<1>3. StoreInv /\ TargetsFree /\ [Next]_vars => [Sold]_vars
  <2> SUFFICES ASSUME StoreInv, TargetsFree, Next PROVE Sold
    OBVIOUS
  <2>1. ASSUME NEW s \in Slots, Start(s) PROVE Sold
    BY <2>1 DEF Start, tables, Exists
  <2> QED
    BY <2>1, SoldStep DEF Next
<1> QED
  BY <1>1, <1>2, <1>3, StoreInvariant, PTL DEF Spec, SoldWhileFree

\* What a session remembers also survives the steps of the others.
LEMMA MemoryStep ==
  ASSUME StoreInv, FlagInv, FreeingSerialised, NEW r \in Sessions, Act(r)
  PROVE  MemoryOK'
<1> SUFFICES ASSUME NEW q \in Sessions
             PROVE  (OpsAt(q) /\ SeenAt(q) /\ StaleAt(q) /\ TargetFreeAt(q))'
  BY DEF MemoryOK
<1>a. OpsAt(q) /\ SeenAt(q) /\ StaleAt(q) /\ TargetFreeAt(q) /\ MemoryOK
  BY DEF FlagInv, MemoryOK
<1>1. CASE q = r
  BY <1>a, <1>1, OpsStep, SeenStep, StaleStep, TargetStep
<1>2. CASE q # r
  <2>a. /\ pc'[q] = pc[q] /\ loc'[q] = loc[q]
        /\ ArgsAt(q) /\ LocksAt(q) /\ loc[q].stale \in SUBSET BookingIds
    BY <1>2, Frame, LocalFields DEF StoreInv, TypeOK, SessionsOK, ArgsOK, LocksOK
  <2>1. OpsAt(q)'
    BY <1>a, <2>a DEF OpsAt
  <2>2. SeenAt(q)'
    <3>1. CASE pc[q] \in RescheduleAt
      <4>1. bookings'[loc[q].booking] = bookings[loc[q].booking]
        BY <1>a, <1>2, <2>a, <3>1, Undisturbed DEF ArgsAt
      <4> QED
        BY <1>a, <2>a, <4>1 DEF SeenAt
    <3>2. CASE pc[q] \notin RescheduleAt
      BY <2>a, <3>2 DEF SeenAt
    <3> QED
      BY <3>1, <3>2
  <2>3. StaleAt(q)'
    <3>1. CASE pc[q] \in {"ex_load", "ex_flush"}
      <4>1. \A b \in loc[q].stale : bookings'[b] = bookings[b]
        BY <1>a, <1>2, <2>a, <3>1, Undisturbed DEF ArgsAt
      <4> QED
        BY <1>a, <2>a, <4>1 DEF StaleAt, Confirmed
    <3>2. CASE pc[q] \notin {"ex_load", "ex_flush"}
      BY <2>a, <3>2 DEF StaleAt
    <3> QED
      BY <3>1, <3>2
  <2>4. TargetFreeAt(q)'
    BY <1>a, TargetsStep DEF MemoryOK, TargetsFree
  <2> QED
    BY <2>1, <2>2, <2>3, <2>4
<1> QED
  BY <1>1, <1>2

\* Every action keeps the flags and the bookings in agreement.
LEMMA FlagStep ==
  ASSUME StoreInv, FlagInv, FreeingSerialised, NEW r \in Sessions, Act(r)
  PROVE  FlagAgrees'
<1> USE DEF FlagAgrees, NoDoubleBooking, NoLostSlot, NoUnmarkedBooking, Confirmed
<1>a. /\ bookings \in [BookingIds -> Row] /\ booked \in SUBSET Slots
      /\ FlagAgrees /\ ArgsAt(r) /\ LocksAt(r)
      /\ OpsAt(r) /\ SeenAt(r) /\ StaleAt(r) /\ TargetFreeAt(r)
  BY DEF StoreInv, TypeOK, TablesOK, ArgsOK, LocksOK, FlagInv, MemoryOK
<1>1. CASE CreateInsert(r)
  <2>1. CASE UNCHANGED <<booked, bookings>>
    BY <1>a, <2>1
  <2>2. CASE ~UNCHANGED <<booked, bookings>>
    <3>1. PICK b \in BookingIds :
            /\ ~Exists(b)
            /\ bookings' = [bookings EXCEPT ![b] =
                 [slot |-> loc[r].slot, client |-> loc[r].client, key |-> loc[r].key,
                  status |-> "confirmed", asked |-> loc[r].slot]]
      BY <1>1, <2>2 DEF CreateInsert, NextId
    <3>2. booked' = booked \cup {loc[r].slot} /\ loc[r].slot \notin booked
      BY <1>a, <1>1, <2>2 DEF CreateInsert, TargetFreeAt
    <3>3. /\ bookings'[b].slot = loc[r].slot /\ bookings'[b].status = "confirmed"
          /\ \A a \in BookingIds : a # b => bookings'[a] = bookings[a]
      BY <1>a, <3>1
    <3> QED
      BY <1>a, <3>1, <3>2, <3>3 DEF Exists
  <2> QED
    BY <2>1, <2>2
<1>2. CASE CancelCommit(r)
  <2>1. CASE UNCHANGED <<booked, bookings>>
    BY <1>a, <2>1
  <2>2. CASE ~UNCHANGED <<booked, bookings>>
    <3>1. /\ pc[r] = "cancel"
          /\ bookings[loc[r].booking].status # "cancelled"
          /\ bookings' = [bookings EXCEPT ![loc[r].booking].status = "cancelled"]
          /\ booked' = booked \ {loc[r].slot}
      BY <1>2, <2>2 DEF CancelCommit, CancelledFlags
    <3>2. /\ loc[r].booking \in BookingIds /\ Exists(loc[r].booking)
          /\ bookings[loc[r].booking].slot = loc[r].slot
      BY <1>a, <3>1 DEF ArgsAt, LocksAt
    <3>3. "cancel" \in Ops[r]
      BY <1>a, <3>1 DEF OpsAt
    <3>4. bookings[loc[r].booking].status # "expired"
      BY <3>2, <3>3 DEF FreeingSerialised, FlagInv, NoneExpired
    <3>5. bookings[loc[r].booking].status = "confirmed"
      BY <1>a, <3>1, <3>2, <3>4 DEF Exists, Row, Statuses
    <3>6. /\ bookings'[loc[r].booking].status = "cancelled"
          /\ \A a \in BookingIds : a # loc[r].booking => bookings'[a] = bookings[a]
      BY <1>a, <3>1, <3>2 DEF Row
    <3> QED
      BY <1>a, <3>1, <3>2, <3>5, <3>6
  <2> QED
    BY <2>1, <2>2
<1>3. CASE RescheduleCommit(r)
  <2>1. /\ loc[r].booking \in BookingIds
        /\ bookings[loc[r].booking].slot = loc[r].seenSlot
        /\ bookings[loc[r].booking].status = "confirmed"
        /\ loc[r].seenFlag = "booked"
        /\ loc[r].seenSlot # loc[r].slot
        /\ loc[r].slot \notin booked
    BY <1>a, <1>3 DEF RescheduleCommit, ArgsAt, SeenAt, TargetFreeAt, RescheduleAt
  <2>2. booked' = (booked \ {loc[r].seenSlot}) \cup {loc[r].slot}
    BY <1>3, <2>1 DEF RescheduleCommit, MovedFlags
  <2>3. /\ bookings'[loc[r].booking].slot = loc[r].slot
        /\ bookings'[loc[r].booking].status = "confirmed"
        /\ \A a \in BookingIds : a # loc[r].booking => bookings'[a] = bookings[a]
    BY <1>a, <1>3, <2>1 DEF RescheduleCommit, MovedRow, Row
  <2> QED
    BY <1>a, <2>1, <2>2, <2>3
<1>4. CASE DeleteFlush(r)
  BY <1>a, <1>4 DEF DeleteFlush, Referenced, Exists, tables
<1>5. CASE ExpireCommit(r)
  <2>1. /\ \A b \in loc[r].stale : Confirmed(b) /\ bookings[b].slot \in loc[r].dirty
        /\ \A s \in loc[r].dirty : \E b \in loc[r].stale : bookings[b].slot = s
        /\ loc[r].stale \in SUBSET BookingIds
    BY <1>a, <1>5, LocalFields DEF ExpireCommit, StaleAt, StoreInv, TypeOK, SessionsOK
  <2>2. booked' = booked \ loc[r].dirty
    BY <1>5 DEF ExpireCommit, ExpiredFlags
  <2>3. \A b \in BookingIds :
          IF b \in loc[r].stale THEN bookings'[b].status = "expired"
                               ELSE bookings'[b] = bookings[b]
    BY <1>a, <1>5 DEF ExpireCommit, ExpiredRows, Row
  <2> QED
    BY <1>a, <2>1, <2>2, <2>3
<1>6. CASE ~Writes(r)
  BY <1>a, <1>6, ReadOnly
<1> QED
  BY <1>1, <1>2, <1>3, <1>4, <1>5, <1>6 DEF Writes

\* Without an expiration task nothing becomes expired.
LEMMA NoneExpiredStep ==
  ASSUME StoreInv, FlagInv, NEW r \in Sessions, Act(r)
  PROVE  NoneExpired'
<1> SUFFICES ASSUME \A q \in Sessions : "expire" \notin Ops[q], NEW b \in BookingIds
             PROVE  bookings'[b].status # "expired"
  BY DEF NoneExpired
<1>a. bookings[b].status # "expired" /\ OpsAt(r) /\ bookings \in [BookingIds -> Row]
  BY DEF FlagInv, NoneExpired, MemoryOK, StoreInv, TypeOK, TablesOK
<1>1. CASE CreateInsert(r)
  BY <1>a, <1>1 DEF CreateInsert
<1>2. CASE CancelCommit(r)
  BY <1>a, <1>2 DEF CancelCommit, Row
<1>3. CASE RescheduleCommit(r)
  BY <1>a, <1>3 DEF RescheduleCommit, MovedRow, Row
<1>4. CASE DeleteFlush(r)
  BY <1>a, <1>4 DEF DeleteFlush, tables
<1>5. CASE ExpireCommit(r)
  BY <1>a, <1>5 DEF ExpireCommit, OpsAt
<1>6. CASE ~Writes(r)
  BY <1>a, <1>6, ReadOnly
<1> QED
  BY <1>1, <1>2, <1>3, <1>4, <1>5, <1>6 DEF Writes

\* The flags and the empty tables agree.
LEMMA FlagInit == Init => FlagInv
  BY DEF Init, FlagInv, FlagAgrees, NoDoubleBooking, NoLostSlot, NoUnmarkedBooking, NoneExpired,
         MemoryOK, OpsAt, SeenAt, StaleAt, TargetFreeAt, Confirmed, RescheduleAt, NoRow

\* FlagInv is inductive, given StoreInv.
LEMMA FlagInvStep ==
  ASSUME FreeingSerialised
  PROVE  StoreInv /\ FlagInv /\ [Next]_vars => FlagInv'
<1> SUFFICES ASSUME StoreInv, FlagInv, [Next]_vars PROVE FlagInv'
  OBVIOUS
<1>1. ASSUME NEW r \in Sessions, Act(r) PROVE FlagInv'
  BY <1>1, FlagStep, NoneExpiredStep, MemoryStep DEF FlagInv
<1>2. CASE UNCHANGED <<tables, pc, loc>>
  BY <1>2 DEF FlagInv, FlagAgrees, NoDoubleBooking, NoLostSlot, NoUnmarkedBooking, NoneExpired,
              MemoryOK, OpsAt, SeenAt, StaleAt, TargetFreeAt, Confirmed, tables
<1>3. ASSUME NEW s \in Slots, Start(s) PROVE FlagInv'
  BY <1>2, <1>3 DEF Start
<1>4. CASE UNCHANGED vars
  BY <1>2, <1>4 DEF vars, tables
<1> QED
  BY <1>1, <1>3, <1>4 DEF Next

\* If the operations that free a slot are serialised, no slot is ever sold twice,
\* none is lost, and the flag of a slot agrees with its bookings: for any number
\* of sessions that create, join, leave and delete at the same time, with
\* crashes and deadlock victims anywhere.
THEOREM FlagAgreesHolds == FreeingSerialised => (Spec => []FlagAgrees)
<1> SUFFICES ASSUME FreeingSerialised PROVE Spec => []FlagAgrees
  OBVIOUS
<1>1. FlagInv => FlagAgrees
  BY DEF FlagInv
<1>2. StoreInv /\ FlagInv /\ [Next]_vars => FlagInv'
  BY FlagInvStep
<1> QED
  BY <1>1, <1>2, FlagInit, StoreInvariant, PTL DEF Spec

\* In particular two confirmed bookings never name the same slot.
THEOREM NoDoubleBookingHolds == FreeingSerialised => (Spec => []NoDoubleBooking)
<1> SUFFICES ASSUME FreeingSerialised PROVE Spec => []NoDoubleBooking
  OBVIOUS
<1>1. FlagAgrees => NoDoubleBooking
  BY DEF FlagAgrees
<1>2. Spec => []FlagAgrees
  BY FlagAgreesHolds
<1> QED
  BY <1>1, <1>2, PTL
===============================================================================
