------------------------ MODULE BookingRequests_proofs ------------------------
(***************************************************************************)
(* What requests are answered, which specialist a booking stays with, and  *)
(* what becomes of those who wait: proofs about BookingSystem that build   *)
(* on StoreInv and FlagInv, for any number of sessions, users, slots,      *)
(* bookings and keys.                                                      *)
(***************************************************************************)
EXTENDS BookingSystem_proofs

-------------------------------------------------------------------------------
(***************************************************************************)
(* What a statement leaves of the local state of its session, and which    *)
(* statement leads where.                                                  *)
(***************************************************************************)
\* The local states l and m are of one operation with the same arguments.
SameCall(l, m) == m.op = l.op /\ m.user = l.user /\ m.key = l.key /\ m.seenSlot = l.seenSlot

SameEntry(l, m) == m.client = l.client /\ m.entry = l.entry

\* Reply writes the answer only.
LEMMA ReplyKeeps ==
  ASSUME SessionsOK, NEW r \in Sessions, NEW code, Reply(r, code)
  PROVE  /\ SameCall(loc[r], loc'[r]) /\ SameEntry(loc[r], loc'[r])
         /\ loc'[r].slot = loc[r].slot /\ loc'[r].booking = loc[r].booking
         /\ loc'[r].stale = loc[r].stale /\ loc'[r].reply = code /\ pc'[r] = "done"
<1>1. loc[r] \in Locals /\ loc'[r] = [loc[r] EXCEPT !.reply = code]
  BY DEF SessionsOK, Local, Reply
<1>2. pc'[r] = "done" BY ReplyAt
<1> QED BY <1>1, <1>2 DEF Locals, SameCall, SameEntry

\* A statement keeps the call it belongs to; only a promotion takes up another
\* wait-list entry, only the task's loop drops a booking from those it remembers.
LEMMA Carried ==
  ASSUME StoreInv, NEW r \in Sessions, Step(r) \/ DeadlockAbort(r), ~Close(r)
  PROVE  /\ SameCall(loc[r], loc'[r])
         /\ PromoteRead(r) \/ SameEntry(loc[r], loc'[r])
         /\ ExpireNext(r) \/ loc'[r].stale = loc[r].stale
         /\ CancelLockSlot(r) \/ ExpireNext(r) \/ loc'[r].slot = loc[r].slot
         /\ CreateLookup(r) \/ CreateInsert(r) \/ CreateRecheck(r)
              \/ loc'[r].booking = loc[r].booking
<1>a. SessionsOK /\ loc \in [Sessions -> Locals] /\ loc[r] \in Locals
  BY DEF StoreInv, TypeOK, SessionsOK
<1>b. SameCall(loc[r], loc[r]) /\ SameEntry(loc[r], loc[r])
  BY DEF SameCall, SameEntry
<1>1. CASE CreateLookup(r)
  <2>1. CASE \E b, code : Local(r, [loc[r] EXCEPT !.booking = b, !.reply = code])
    <3>1. PICK b, code : loc'[r] = [loc[r] EXCEPT !.booking = b, !.reply = code]
      BY <1>a, <2>1, LocalAt
    <3> QED BY <1>a, <3>1, <1>1 DEF Locals, SameCall, SameEntry
  <2> QED BY <1>a, <1>b, <1>1, <2>1, ReplyKeeps DEF CreateLookup, AnswerExisting
<1>2. CASE CreateLockSlot(r)
  BY <1>2, <1>a, <1>b, ReplyKeeps DEF CreateLockSlot
<1>3. CASE CreateUpdateSlot(r)
  BY <1>3, <1>a, <1>b, ReplyKeeps DEF CreateUpdateSlot
<1>4. CASE CreateInsert(r)
  <2>1. CASE \E b, code : Local(r, [loc[r] EXCEPT !.booking = b, !.reply = code])
    <3>1. PICK b, code : loc'[r] = [loc[r] EXCEPT !.booking = b, !.reply = code]
      BY <1>a, <2>1, LocalAt
    <3> QED BY <1>a, <3>1, <1>4 DEF Locals, SameCall, SameEntry
  <2> QED BY <1>a, <1>b, <1>4, <2>1, ReplyKeeps DEF CreateInsert, CreateReturn
<1>5. CASE CreateRecheck(r)
  <2>1. CASE \E b, code : Local(r, [loc[r] EXCEPT !.booking = b, !.reply = code])
    <3>1. PICK b, code : loc'[r] = [loc[r] EXCEPT !.booking = b, !.reply = code]
      BY <1>a, <2>1, LocalAt
    <3> QED BY <1>a, <3>1, <1>5 DEF Locals, SameCall, SameEntry
  <2> QED BY <1>a, <1>b, <1>5, <2>1, ReplyKeeps DEF CreateRecheck, AnswerExisting
<1>6. CASE CancelLockBooking(r)
  BY <1>6, <1>a, <1>b, ReplyKeeps DEF CancelLockBooking
<1>7. CASE CancelLockSlot(r)
  <2>1. CASE \E x : Local(r, [loc[r] EXCEPT !.slot = x])
    <3>1. PICK x : loc'[r] = [loc[r] EXCEPT !.slot = x]
      BY <1>a, <2>1, LocalAt
    <3> QED BY <1>a, <3>1, <1>7 DEF Locals, SameCall, SameEntry
  <2> QED BY <1>a, <1>b, <1>7, <2>1, ReplyKeeps DEF CancelLockSlot
<1>8. CASE CancelCommit(r)
  BY <1>8, <1>a, <1>b, ReplyKeeps DEF CancelCommit
<1>9. CASE CancelReload(r)
  BY <1>9, <1>a, <1>b, ReplyKeeps DEF CancelReload
<1>10. CASE RescheduleReadSlot(r)
  <2>1. CASE \E x : Local(r, [loc[r] EXCEPT !.seenFlag = x])
    <3>1. PICK x : loc'[r] = [loc[r] EXCEPT !.seenFlag = x]
      BY <1>a, <2>1, LocalAt
    <3> QED BY <1>a, <3>1, <1>10 DEF Locals, SameCall, SameEntry
  <2> QED BY <1>a, <1>b, <1>10, <2>1, ReplyKeeps DEF RescheduleReadSlot
<1>11. CASE RescheduleLockBooking(r)
  BY <1>11, <1>a, <1>b, ReplyKeeps DEF RescheduleLockBooking
<1>12. CASE RescheduleLockSlots(r)
  BY <1>12, <1>a, <1>b, ReplyKeeps DEF RescheduleLockSlots
<1>13. CASE RescheduleCommit(r)
  BY <1>13, <1>a, <1>b, ReplyKeeps DEF RescheduleCommit
<1>14. CASE JoinCheckBooking(r)
  BY <1>14, <1>a, <1>b, ReplyKeeps DEF JoinCheckBooking
<1>15. CASE JoinInsert(r)
  BY <1>15, <1>a, <1>b, ReplyKeeps DEF JoinInsert
<1>16. CASE LeaveDelete(r)
  BY <1>16, <1>a, <1>b, ReplyKeeps DEF LeaveDelete
<1>17. CASE PromoteRead(r)
  <2>1. CASE \E x, y : Local(r, [loc[r] EXCEPT !.client = x, !.entry = y])
    <3>1. PICK x, y : loc'[r] = [loc[r] EXCEPT !.client = x, !.entry = y]
      BY <1>a, <2>1, LocalAt
    <3> QED BY <1>a, <3>1, <1>17 DEF Locals, SameCall, SameEntry
  <2> QED BY <1>a, <1>b, <1>17, <2>1, ReplyKeeps DEF PromoteRead, PromoteReturn
<1>18. CASE PromoteDrop(r)
  BY <1>18, <1>a, <1>b, ReplyKeeps DEF PromoteDrop, PromoteReturn
<1>19. CASE DeleteFlush(r)
  BY <1>19, <1>a, <1>b, ReplyKeeps DEF DeleteFlush
<1>20. CASE ExpireLoad(r)
  <2>1. CASE \E x, y : Local(r, [loc[r] EXCEPT !.load = x, !.dirty = y])
    <3>1. PICK x, y : loc'[r] = [loc[r] EXCEPT !.load = x, !.dirty = y]
      BY <1>a, <2>1, LocalAt
    <3> QED BY <1>a, <3>1, <1>20 DEF Locals, SameCall, SameEntry
  <2> QED BY <1>a, <1>b, <1>20, <2>1, ReplyKeeps DEF ExpireLoad
<1>21. CASE ExpireFlushSlot(r)
  BY <1>21, <1>a, <1>b, ReplyKeeps DEF ExpireFlushSlot
<1>22. CASE ExpireFlushBooking(r)
  BY <1>22, <1>a, <1>b, ReplyKeeps DEF ExpireFlushBooking
<1>23. CASE ExpireCommit(r)
  BY <1>23, <1>a, <1>b, ReplyKeeps DEF ExpireCommit
<1>24. CASE ExpireNext(r)
  <2>1. CASE \E x, y : Local(r, [loc[r] EXCEPT !.stale = x, !.slot = y])
    <3>1. PICK x, y : loc'[r] = [loc[r] EXCEPT !.stale = x, !.slot = y]
      BY <1>a, <2>1, LocalAt
    <3> QED BY <1>a, <3>1, <1>24 DEF Locals, SameCall, SameEntry
  <2> QED BY <1>a, <1>b, <1>24, <2>1, ReplyKeeps DEF ExpireNext
<1>25. CASE DeadlockAbort(r)
  BY <1>25, <1>a, <1>b, ReplyKeeps DEF DeadlockAbort
<1> QED
  BY <1>1, <1>2, <1>3, <1>4, <1>5, <1>6, <1>7, <1>8, <1>9, <1>10, <1>11, <1>12, <1>13, <1>14,
     <1>15, <1>16, <1>17, <1>18, <1>19, <1>20, <1>21, <1>22, <1>23, <1>24, <1>25 DEF Step

\* Which statement leads where.
LEMMA ReachedBy ==
  ASSUME StoreInv, NEW r \in Sessions, Act(r)
  PROVE  /\ pc'[r] = "done" /\ loc'[r].reply \in {"created", "key_reuse"} =>
              CreateLookup(r) \/ CreateInsert(r) \/ CreateRecheck(r)
         /\ pc'[r] = "idle" => Close(r) \/ Crash(r)
         /\ pc'[r] = "lookup" => CreateBegin(r)
         /\ pc'[r] = "lock_slot" => CreateBegin(r) \/ CreateLookup(r) \/ PromoteRead(r)
         /\ pc'[r] = "update_slot" => CreateLockSlot(r)
         /\ pc'[r] = "wl_check" => JoinReadSlot(r)
         /\ pc'[r] = "wl_insert" => JoinCheckBooking(r)
         /\ pc'[r] = "reload" => CancelCommit(r)
         /\ pc'[r] = "promote" => CancelReload(r) \/ ExpireNext(r)
         /\ pc'[r] = "drop_entry" => CreateInsert(r)
         /\ pc'[r] = "next" => PromoteRead(r) \/ PromoteDrop(r) \/ ExpireCommit(r)
<1>a. SessionsOK
  BY DEF StoreInv, TypeOK
<1>1. CASE CreateBegin(r)
  BY <1>1, <1>a, GotoAt, ReplyKeeps DEF CreateBegin, Begin
<1>2. CASE CancelBegin(r)
  BY <1>2, <1>a, GotoAt, ReplyKeeps DEF CancelBegin, Begin
<1>3. CASE RescheduleReadBooking(r)
  BY <1>3, <1>a, GotoAt, ReplyKeeps DEF RescheduleReadBooking, Begin
<1>4. CASE JoinReadSlot(r)
  BY <1>4, <1>a, GotoAt, ReplyKeeps DEF JoinReadSlot, Begin
<1>5. CASE LeaveRead(r)
  BY <1>5, <1>a, GotoAt, ReplyKeeps DEF LeaveRead, Begin
<1>6. CASE DeleteRead(r)
  BY <1>6, <1>a, GotoAt, ReplyKeeps DEF DeleteRead, Begin
<1>7. CASE ExpireSelect(r)
  BY <1>7, <1>a, GotoAt, ReplyKeeps DEF ExpireSelect, Begin
<1>8. CASE CreateLookup(r)
  BY <1>8, <1>a, GotoAt, ReplyKeeps DEF CreateLookup, AnswerExisting
<1>9. CASE CreateLockSlot(r)
  BY <1>9, <1>a, GotoAt, ReplyKeeps DEF CreateLockSlot
<1>10. CASE CreateUpdateSlot(r)
  BY <1>10, <1>a, GotoAt, ReplyKeeps DEF CreateUpdateSlot
<1>11. CASE CreateInsert(r)
  BY <1>11, <1>a, GotoAt, ReplyKeeps DEF CreateInsert, CreateReturn
<1>12. CASE CreateRecheck(r)
  BY <1>12, <1>a, GotoAt, ReplyKeeps DEF CreateRecheck, AnswerExisting
<1>13. CASE CancelLockBooking(r)
  BY <1>13, <1>a, GotoAt, ReplyKeeps DEF CancelLockBooking
<1>14. CASE CancelLockSlot(r)
  BY <1>14, <1>a, GotoAt, ReplyKeeps DEF CancelLockSlot
<1>15. CASE CancelCommit(r)
  BY <1>15, <1>a, GotoAt, ReplyKeeps DEF CancelCommit
<1>16. CASE CancelReload(r)
  BY <1>16, <1>a, GotoAt, ReplyKeeps DEF CancelReload
<1>17. CASE RescheduleReadSlot(r)
  BY <1>17, <1>a, GotoAt, ReplyKeeps DEF RescheduleReadSlot
<1>18. CASE RescheduleLockBooking(r)
  BY <1>18, <1>a, GotoAt, ReplyKeeps DEF RescheduleLockBooking
<1>19. CASE RescheduleLockSlots(r)
  BY <1>19, <1>a, GotoAt, ReplyKeeps DEF RescheduleLockSlots
<1>20. CASE RescheduleCommit(r)
  BY <1>20, <1>a, GotoAt, ReplyKeeps DEF RescheduleCommit
<1>21. CASE JoinCheckBooking(r)
  BY <1>21, <1>a, GotoAt, ReplyKeeps DEF JoinCheckBooking
<1>22. CASE JoinInsert(r)
  BY <1>22, <1>a, GotoAt, ReplyKeeps DEF JoinInsert
<1>23. CASE LeaveDelete(r)
  BY <1>23, <1>a, GotoAt, ReplyKeeps DEF LeaveDelete
<1>24. CASE PromoteRead(r)
  <2>1. CASE Goto(r, "lock_slot") \/ Goto(r, "next")
    <3>1. pc'[r] \in {"lock_slot", "next"} BY <1>a, <2>1, GotoAt
    <3> QED BY <3>1, <1>24
  <2>2. CASE Reply(r, "ok") BY <1>a, <2>2, ReplyKeeps
  <2> QED BY <1>24, <2>1, <2>2 DEF PromoteRead, PromoteReturn
<1>25. CASE PromoteDrop(r)
  BY <1>25, <1>a, GotoAt, ReplyKeeps DEF PromoteDrop, PromoteReturn
<1>26. CASE DeleteFlush(r)
  BY <1>26, <1>a, GotoAt, ReplyKeeps DEF DeleteFlush
<1>27. CASE ExpireLoad(r)
  BY <1>a, <1>27, GotoAt, ReplyKeeps DEF ExpireLoad
<1>28. CASE ExpireFlushSlot(r)
  BY <1>a, <1>28, GotoAt, ReplyKeeps DEF ExpireFlushSlot
<1>29. CASE ExpireFlushBooking(r)
  BY <1>29, <1>a, GotoAt, ReplyKeeps DEF ExpireFlushBooking
<1>30. CASE ExpireCommit(r)
  BY <1>30, <1>a, GotoAt, ReplyKeeps DEF ExpireCommit
<1>31. CASE ExpireNext(r)
  <2>1. CASE Goto(r, "promote") BY <1>a, <2>1, <1>31, GotoAt
  <2>2. CASE Reply(r, "ok") BY <1>a, <2>2, ReplyKeeps
  <2> QED BY <1>31, <2>1, <2>2 DEF ExpireNext
<1>32. CASE Close(r)
  BY <1>32, <1>a, GotoAt, ReplyKeeps DEF Close
<1>33. CASE Crash(r)
  BY <1>33, <1>a, GotoAt, ReplyKeeps DEF Crash
<1>34. CASE DeadlockAbort(r)
  BY <1>34, <1>a, GotoAt, ReplyKeeps DEF DeadlockAbort, Deadlocked, WaitsFor
<1> QED
  BY <1>1, <1>2, <1>3, <1>4, <1>5, <1>6, <1>7, <1>8, <1>9, <1>10, <1>11, <1>12, <1>13, <1>14,
     <1>15, <1>16, <1>17, <1>18, <1>19, <1>20, <1>21, <1>22, <1>23, <1>24, <1>25, <1>26, <1>27,
     <1>28, <1>29, <1>30, <1>31, <1>32, <1>33, <1>34 DEF Act, Arrive, Step

\* Where a promotion is on its way, these statements can come next.
LEMMA PromotionGoesOn ==
  ASSUME NEW r \in Sessions, Act(r), pc[r] \in Promoting \cup {"next", "drop_entry"}
  PROVE  \/ CancelReload(r) \/ PromoteRead(r) \/ CreateLockSlot(r) \/ CreateUpdateSlot(r)
         \/ CreateInsert(r) \/ PromoteDrop(r) \/ ExpireNext(r) \/ Crash(r)
<1> USE DEF Promoting
<1>1. CASE CreateBegin(r)
  BY <1>1 DEF CreateBegin, Begin
<1>2. CASE CancelBegin(r)
  BY <1>2 DEF CancelBegin, Begin
<1>3. CASE RescheduleReadBooking(r)
  BY <1>3 DEF RescheduleReadBooking, Begin
<1>4. CASE JoinReadSlot(r)
  BY <1>4 DEF JoinReadSlot, Begin
<1>5. CASE LeaveRead(r)
  BY <1>5 DEF LeaveRead, Begin
<1>6. CASE DeleteRead(r)
  BY <1>6 DEF DeleteRead, Begin
<1>7. CASE ExpireSelect(r)
  BY <1>7 DEF ExpireSelect, Begin
<1>8. CASE CreateLookup(r)
  BY <1>8 DEF CreateLookup
<1>9. CASE CreateLockSlot(r)
  BY <1>9
<1>10. CASE CreateUpdateSlot(r)
  BY <1>10
<1>11. CASE CreateInsert(r)
  BY <1>11
<1>12. CASE CreateRecheck(r)
  BY <1>12 DEF CreateRecheck
<1>13. CASE CancelLockBooking(r)
  BY <1>13 DEF CancelLockBooking
<1>14. CASE CancelLockSlot(r)
  BY <1>14 DEF CancelLockSlot
<1>15. CASE CancelCommit(r)
  BY <1>15 DEF CancelCommit
<1>16. CASE CancelReload(r)
  BY <1>16
<1>17. CASE RescheduleReadSlot(r)
  BY <1>17 DEF RescheduleReadSlot
<1>18. CASE RescheduleLockBooking(r)
  BY <1>18 DEF RescheduleLockBooking
<1>19. CASE RescheduleLockSlots(r)
  BY <1>19 DEF RescheduleLockSlots
<1>20. CASE RescheduleCommit(r)
  BY <1>20 DEF RescheduleCommit
<1>21. CASE JoinCheckBooking(r)
  BY <1>21 DEF JoinCheckBooking
<1>22. CASE JoinInsert(r)
  BY <1>22 DEF JoinInsert
<1>23. CASE LeaveDelete(r)
  BY <1>23 DEF LeaveDelete
<1>24. CASE PromoteRead(r)
  BY <1>24
<1>25. CASE PromoteDrop(r)
  BY <1>25
<1>26. CASE DeleteFlush(r)
  BY <1>26 DEF DeleteFlush
<1>27. CASE ExpireLoad(r)
  BY <1>27 DEF ExpireLoad
<1>28. CASE ExpireFlushSlot(r)
  BY <1>28 DEF ExpireFlushSlot
<1>29. CASE ExpireFlushBooking(r)
  BY <1>29 DEF ExpireFlushBooking
<1>30. CASE ExpireCommit(r)
  BY <1>30 DEF ExpireCommit
<1>31. CASE ExpireNext(r)
  BY <1>31
<1>32. CASE Close(r)
  BY <1>32 DEF Close
<1>33. CASE Crash(r)
  BY <1>33
<1>34. CASE DeadlockAbort(r)
  BY <1>34 DEF DeadlockAbort, Deadlocked, WaitsFor
<1> QED
  BY <1>1, <1>2, <1>3, <1>4, <1>5, <1>6, <1>7, <1>8, <1>9, <1>10, <1>11, <1>12, <1>13, <1>14,
     <1>15, <1>16, <1>17, <1>18, <1>19, <1>20, <1>21, <1>22, <1>23, <1>24, <1>25, <1>26, <1>27,
     <1>28, <1>29, <1>30, <1>31, <1>32, <1>33, <1>34 DEF Act, Arrive, Step

\* Four actions write wait_list_entries, and one draws a ticket.
WritesList(r) == JoinInsert(r) \/ LeaveDelete(r) \/ PromoteDrop(r) \/ DeleteFlush(r)

LEMMA ListReadOnly ==
  ASSUME NEW r \in Sessions, Act(r)
  PROVE  (WritesList(r) \/ UNCHANGED waitList) /\ (JoinReadSlot(r) \/ UNCHANGED ticket)
<1> USE DEF WritesList, tables, env
<1>1. CASE CreateBegin(r)
  BY <1>1 DEF CreateBegin
<1>2. CASE CancelBegin(r)
  BY <1>2 DEF CancelBegin
<1>3. CASE RescheduleReadBooking(r)
  BY <1>3 DEF RescheduleReadBooking
<1>4. CASE JoinReadSlot(r)
  BY <1>4 DEF JoinReadSlot
<1>5. CASE LeaveRead(r)
  BY <1>5 DEF LeaveRead
<1>6. CASE DeleteRead(r)
  BY <1>6 DEF DeleteRead
<1>7. CASE ExpireSelect(r)
  BY <1>7 DEF ExpireSelect
<1>8. CASE CreateLookup(r)
  BY <1>8 DEF CreateLookup
<1>9. CASE CreateLockSlot(r)
  BY <1>9 DEF CreateLockSlot
<1>10. CASE CreateUpdateSlot(r)
  BY <1>10 DEF CreateUpdateSlot
<1>11. CASE CreateInsert(r)
  BY <1>11 DEF CreateInsert
<1>12. CASE CreateRecheck(r)
  BY <1>12 DEF CreateRecheck
<1>13. CASE CancelLockBooking(r)
  BY <1>13 DEF CancelLockBooking
<1>14. CASE CancelLockSlot(r)
  BY <1>14 DEF CancelLockSlot
<1>15. CASE CancelCommit(r)
  BY <1>15 DEF CancelCommit
<1>16. CASE CancelReload(r)
  BY <1>16 DEF CancelReload
<1>17. CASE RescheduleReadSlot(r)
  BY <1>17 DEF RescheduleReadSlot
<1>18. CASE RescheduleLockBooking(r)
  BY <1>18 DEF RescheduleLockBooking
<1>19. CASE RescheduleLockSlots(r)
  BY <1>19 DEF RescheduleLockSlots
<1>20. CASE RescheduleCommit(r)
  BY <1>20 DEF RescheduleCommit
<1>21. CASE JoinCheckBooking(r)
  BY <1>21 DEF JoinCheckBooking
<1>22. CASE JoinInsert(r)
  BY <1>22 DEF JoinInsert
<1>23. CASE LeaveDelete(r)
  BY <1>23 DEF LeaveDelete
<1>24. CASE PromoteRead(r)
  BY <1>24 DEF PromoteRead
<1>25. CASE PromoteDrop(r)
  BY <1>25 DEF PromoteDrop
<1>26. CASE DeleteFlush(r)
  BY <1>26 DEF DeleteFlush
<1>27. CASE ExpireLoad(r)
  BY <1>27 DEF ExpireLoad
<1>28. CASE ExpireFlushSlot(r)
  BY <1>28 DEF ExpireFlushSlot
<1>29. CASE ExpireFlushBooking(r)
  BY <1>29 DEF ExpireFlushBooking
<1>30. CASE ExpireCommit(r)
  BY <1>30 DEF ExpireCommit
<1>31. CASE ExpireNext(r)
  BY <1>31 DEF ExpireNext
<1>32. CASE Close(r)
  BY <1>32 DEF Close
<1>33. CASE Crash(r)
  BY <1>33 DEF Crash
<1>34. CASE DeadlockAbort(r)
  BY <1>34 DEF DeadlockAbort
<1> QED
  BY <1>1, <1>2, <1>3, <1>4, <1>5, <1>6, <1>7, <1>8, <1>9, <1>10, <1>11, <1>12, <1>13, <1>14,
     <1>15, <1>16, <1>17, <1>18, <1>19, <1>20, <1>21, <1>22, <1>23, <1>24, <1>25, <1>26, <1>27,
     <1>28, <1>29, <1>30, <1>31, <1>32, <1>33, <1>34 DEF Act, Arrive, Step

\* An existing booking keeps its client, its key and the slot it was asked for, and
\* is moved by reschedule_booking only.
LEMMA RowKept ==
  ASSUME StoreInv, NEW r \in Sessions, Act(r), NEW b \in BookingIds, Exists(b)
  PROVE  /\ Exists(b)'
         /\ bookings'[b].client = bookings[b].client
         /\ bookings'[b].key = bookings[b].key
         /\ bookings'[b].asked = bookings[b].asked
         /\ (RescheduleCommit(r) /\ loc[r].booking = b) \/ bookings'[b].slot = bookings[b].slot
<1>a. bookings \in [BookingIds -> Row] /\ bookings[b] \in Row /\ Exists(b)'
  BY BookingLocked DEF StoreInv, TypeOK, TablesOK
<1>1. CASE CreateInsert(r)
  BY <1>a, <1>1 DEF CreateInsert, NextId
<1>2. CASE CancelCommit(r)
  BY <1>a, <1>2 DEF Row, CancelCommit
<1>3. CASE RescheduleCommit(r)
  BY <1>a, <1>3 DEF Row, RescheduleCommit, MovedRow
<1>4. CASE DeleteFlush(r)
  BY <1>a, <1>4 DEF DeleteFlush, tables
<1>5. CASE ExpireCommit(r)
  BY <1>a, <1>5 DEF Row, ExpireCommit, ExpiredRows
<1>6. CASE ~Writes(r)
  BY <1>a, <1>6, ReadOnly
<1> QED
  BY <1>1, <1>2, <1>3, <1>4, <1>5, <1>6 DEF Writes

\* An entry of the wait list goes, or comes where there was none.
LEMMA EntryWritten ==
  ASSUME StoreInv, NEW r \in Sessions, Act(r), NEW s \in Slots, NEW c \in Users,
         waitList'[s][c] # waitList[s][c]
  PROVE  \/ waitList'[s][c] = 0
         \/ /\ JoinInsert(r) /\ loc[r].slot = s /\ loc[r].client = c
            /\ waitList[s][c] = 0 /\ waitList'[s][c] = loc[r].entry
<1>a. waitList \in [Slots -> [Users -> Nat]]
  BY DEF StoreInv, TypeOK, TablesOK
<1>1. CASE JoinInsert(r)
  BY <1>a, <1>1 DEF JoinInsert
<1>2. CASE LeaveDelete(r)
  BY <1>a, <1>2 DEF LeaveDelete, DropEntry
<1>3. CASE PromoteDrop(r)
  BY <1>a, <1>3 DEF PromoteDrop, DropEntry
<1>4. CASE DeleteFlush(r)
  BY <1>a, <1>4 DEF DeleteFlush, tables
<1> QED
  BY <1>1, <1>2, <1>3, <1>4, ListReadOnly DEF WritesList

-------------------------------------------------------------------------------
(***************************************************************************)
(* A booking stays with its specialist.                                    *)
(***************************************************************************)
\* The slot reschedule_booking remembers is of the specialist of the booking, even
\* if the booking was moved since, and so is the slot it is about to be moved to.
OwnerAt(r) ==
  LET l == loc[r] IN
  /\ pc[r] \in RescheduleAt => Owner[bookings[l.booking].slot] = Owner[l.seenSlot]
  /\ pc[r] = "rs_commit" => Owner[l.slot] = Owner[l.seenSlot]

OwnersOK == \A r \in Sessions : OwnerAt(r)

LEMMA OwnerKept ==
  ASSUME StoreInv, OwnersOK, NEW r \in Sessions, Act(r), NEW b \in BookingIds, Exists(b)
  PROVE  Owner[bookings'[b].slot] = Owner[bookings[b].slot]
<1>1. CASE RescheduleCommit(r) /\ loc[r].booking = b
  <2>1. Owner[bookings[b].slot] = Owner[loc[r].slot]
    BY <1>1 DEF OwnersOK, OwnerAt, RescheduleCommit, RescheduleAt
  <2>2. bookings'[b].slot = loc[r].slot
    BY <1>1 DEF RescheduleCommit, MovedRow, StoreInv, TypeOK, TablesOK, Row
  <2> QED BY <2>1, <2>2
<1>2. CASE ~(RescheduleCommit(r) /\ loc[r].booking = b)
  BY <1>2, RowKept
<1> QED BY <1>1, <1>2

LEMMA OwnerStep ==
  ASSUME StoreInv, OwnersOK, NEW r \in Sessions, Act(r)
  PROVE  OwnersOK'
<1>a. SessionsOK /\ ArgsOK /\ loc[r] \in Locals
  BY DEF StoreInv, TypeOK, SessionsOK
<1> USE DEF OwnerAt
<1>1. ASSUME NEW q \in Sessions, q # r PROVE OwnerAt(q)'
  <2>1. pc'[q] = pc[q] /\ loc'[q] = loc[q] BY <1>1, Frame
  <2>2. OwnerAt(q) BY DEF OwnersOK
  <2>3. pc[q] \in RescheduleAt => loc[q].booking \in BookingIds /\ Exists(loc[q].booking)
    BY <1>a DEF ArgsOK, ArgsAt
  <2> QED BY <2>1, <2>2, <2>3, OwnerKept
<1>2. OwnerAt(r)'
  <2>1. CASE RescheduleReadBooking(r)
    <3>1. PICK u \in Users, b \in BookingIds, s \in Slots :
            Begin(r, "rs_slot",
                  [NoLocals EXCEPT !.op = "reschedule", !.user = u, !.booking = b, !.slot = s,
                                   !.seenSlot = bookings[b].slot,
                                   !.seenStatus = bookings[b].status])
      BY <2>1 DEF RescheduleReadBooking
    <3>2. /\ pc'[r] = "rs_slot" /\ loc'[r].booking = b
          /\ loc'[r].seenSlot = bookings[b].slot
      BY <1>a, <3>1 DEF Begin, SessionsOK, Goto, Local, NoLocals
    <3> QED BY <2>1, <3>2 DEF RescheduleReadBooking, tables
  <2>2. CASE RescheduleReadSlot(r) \/ RescheduleLockBooking(r) \/ RescheduleLockSlots(r)
    <3>1. /\ loc'[r].booking = loc[r].booking /\ loc'[r].seenSlot = loc[r].seenSlot
          /\ loc'[r].slot = loc[r].slot
      <4>1. Step(r) BY <2>2 DEF Step
      <4>2. pc[r] \in RescheduleAt
        BY <2>2
        DEF RescheduleAt, RescheduleReadSlot, RescheduleLockBooking, RescheduleLockSlots
      <4>3. /\ ~Close(r) /\ ~CreateLookup(r) /\ ~CreateInsert(r) /\ ~CreateRecheck(r)
            /\ ~CancelLockSlot(r) /\ ~ExpireNext(r)
        BY <4>2 DEF RescheduleAt, Close, CreateLookup, CreateInsert, CreateRecheck, CancelLockSlot,
                    ExpireNext
      <4> QED BY <4>1, <4>3, Carried DEF SameCall
    <3>2. UNCHANGED bookings /\ pc[r] \in RescheduleAt \ {"rs_commit"}
      BY <2>2 DEF RescheduleReadSlot, RescheduleLockBooking, RescheduleLockSlots, tables, RescheduleAt
    <3>3. Owner[bookings[loc[r].booking].slot] = Owner[loc[r].seenSlot]
      BY <3>2 DEF OwnersOK
    <3>4. pc'[r] = "rs_commit" => Owner[loc[r].slot] = Owner[loc[r].seenSlot]
      BY <1>a, <2>2, GotoAt, ReplyAt
      DEF RescheduleReadSlot, RescheduleLockBooking, RescheduleLockSlots, MayMove
    <3> QED BY <3>1, <3>2, <3>3, <3>4
  <2>3. CASE pc'[r] \notin RescheduleAt
    BY <2>3 DEF RescheduleAt
  <2> QED BY <2>1, <2>2, <2>3, CameFrom
<1> QED BY <1>1, <1>2 DEF OwnersOK

LEMMA OwnersInvariant == Spec => []OwnersOK
<1>1. Init => OwnersOK
  BY DEF Init, OwnersOK, OwnerAt, RescheduleAt
<1>2. StoreInv /\ OwnersOK /\ [Next]_vars => OwnersOK'
  <2> SUFFICES ASSUME StoreInv, OwnersOK, [Next]_vars PROVE OwnersOK' OBVIOUS
  <2>1. ASSUME NEW r \in Sessions, Act(r) PROVE OwnersOK' BY <2>1, OwnerStep
  <2>2. CASE UNCHANGED <<bookings, pc, loc>> BY <2>2 DEF OwnersOK, OwnerAt
  <2>3. ASSUME NEW s \in Slots, Start(s) PROVE OwnersOK' BY <2>2, <2>3 DEF Start, tables
  <2>4. CASE UNCHANGED vars BY <2>2, <2>4 DEF vars
  <2> QED BY <2>1, <2>3, <2>4 DEF Next
<1> QED BY <1>1, <1>2, StoreInvariant, PTL DEF Spec

\* A booking stays with its specialist, however many requests move it at once and
\* however stale what they remember of it is.
THEOREM SpecialistStays == Spec => SpecialistStable
<1> DEFINE Stays ==
      \A b \in BookingIds : Exists(b) => Owner[bookings[b].slot] = Owner[bookings[b].slot']
<1>1. StoreInv /\ OwnersOK /\ [Next]_vars => [Stays]_vars
  <2> SUFFICES ASSUME StoreInv, OwnersOK, Next PROVE Stays OBVIOUS
  <2>1. ASSUME NEW r \in Sessions, Act(r) PROVE Stays BY <2>1, OwnerKept
  <2>2. ASSUME NEW s \in Slots, Start(s) PROVE Stays BY <2>2 DEF Start, tables
  <2> QED BY <2>1, <2>2 DEF Next
<1> QED BY <1>1, StoreInvariant, OwnersInvariant, PTL DEF Spec, SpecialistStable

-------------------------------------------------------------------------------
(***************************************************************************)
(* What a session is asked to do decides what it remembers.                *)
(***************************************************************************)
\* Only the expiration task remembers stale bookings; POST /bookings names no
\* wait-list entry, promotes nobody and alone looks a key up; only a request to
\* wait is about to insert an entry.
RoleAt(r) ==
  LET l == loc[r] IN
  /\ l.op # "expire" => l.stale = {}
  /\ l.op = "create" => l.entry = 0 /\ pc[r] \notin {"reload", "promote", "drop_entry", "next"}
  /\ pc[r] = "lookup" => l.op = "create"
  /\ pc[r] \in {"wl_check", "wl_insert"} => l.op = "join"

RolesOK == \A r \in Sessions : OpsAt(r) /\ RoleAt(r)

\* What an operation begins with.
LEMMA ArriveAt ==
  ASSUME StoreInv, NEW r \in Sessions, Arrive(r)
  PROVE  /\ loc'[r].op # "expire" => loc'[r].stale = {}
         /\ loc'[r].op = "create" => loc'[r].entry = 0
         /\ pc'[r] \notin {"reload", "promote", "drop_entry", "next", "wl_insert"}
         /\ pc'[r] = "lookup" => loc'[r].op = "create"
         /\ pc'[r] = "wl_check" => loc'[r].op = "join"
<1>a. SessionsOK
  BY DEF StoreInv, TypeOK
<1>1. CASE CreateBegin(r)
  BY <1>a, <1>1 DEF CreateBegin, Begin, SessionsOK, Goto, Local, NoLocals
<1>2. CASE CancelBegin(r)
  BY <1>a, <1>2 DEF CancelBegin, Begin, SessionsOK, Goto, Local, NoLocals
<1>3. CASE RescheduleReadBooking(r)
  BY <1>a, <1>3 DEF RescheduleReadBooking, Begin, SessionsOK, Goto, Local, NoLocals
<1>4. CASE JoinReadSlot(r)
  BY <1>a, <1>4 DEF JoinReadSlot, Begin, SessionsOK, Goto, Local, NoLocals
<1>5. CASE LeaveRead(r)
  BY <1>a, <1>5 DEF LeaveRead, Begin, SessionsOK, Goto, Local, NoLocals
<1>6. CASE DeleteRead(r)
  BY <1>a, <1>6 DEF DeleteRead, Begin, SessionsOK, Goto, Local, NoLocals
<1>7. CASE ExpireSelect(r)
  BY <1>a, <1>7 DEF ExpireSelect, Begin, SessionsOK, Goto, Local, NoLocals
<1> QED BY <1>1, <1>2, <1>3, <1>4, <1>5, <1>6, <1>7 DEF Arrive

\* A session that is closed or dies remembers nothing.
LEMMA EndsAt ==
  ASSUME StoreInv, NEW r \in Sessions, Close(r) \/ Crash(r)
  PROVE  pc'[r] = "idle" /\ loc'[r] = NoLocals
<1>1. SessionsOK BY DEF StoreInv, TypeOK
<1> QED BY <1>1, GotoAt, LocalAt DEF Close, Crash

LEMMA RoleStep ==
  ASSUME StoreInv, RolesOK, NEW r \in Sessions, Act(r)
  PROVE  RolesOK'
<1>a. SessionsOK /\ OpsAt(r) /\ RoleAt(r)
  BY DEF RolesOK, StoreInv, TypeOK
<1>1. RoleAt(r)'
  <2>1. CASE Arrive(r) BY <2>1, ArriveAt DEF RoleAt
  <2>2. CASE Close(r) \/ Crash(r) BY <2>2, EndsAt DEF RoleAt, NoLocals
  <2>3. CASE (Step(r) \/ DeadlockAbort(r)) /\ ~Close(r)
    <3>1. loc'[r].op = loc[r].op BY <2>3, Carried DEF SameCall
    <3>2. loc'[r].op # "expire" => loc'[r].stale = {}
      <4>1. CASE ExpireNext(r) /\ loc[r].op # "expire"
        <5>1. loc[r].stale = {} BY <1>a, <4>1 DEF RoleAt
        <5>2. Reply(r, "ok") BY <4>1, <5>1 DEF ExpireNext
        <5> QED BY <1>a, <5>1, <5>2, ReplyKeeps
      <4>2. CASE ~ExpireNext(r)
        BY <1>a, <2>3, <3>1, <4>2, Carried DEF RoleAt
      <4> QED BY <3>1, <4>1, <4>2
    <3>3. loc'[r].op = "create" =>
            /\ loc'[r].entry = 0
            /\ pc'[r] \notin {"reload", "promote", "drop_entry", "next"}
      <4> SUFFICES ASSUME loc[r].op = "create"
                   PROVE  /\ loc'[r].entry = 0
                          /\ pc'[r] \notin {"reload", "promote", "drop_entry", "next"}
        BY <3>1
      <4>1. /\ loc[r].entry = 0
            /\ pc[r] \notin {"reload", "promote", "drop_entry", "next", "cancel", "ex_flush"}
        BY <1>a DEF RoleAt, OpsAt
      <4>2. /\ ~PromoteRead(r) /\ ~PromoteDrop(r) /\ ~ExpireNext(r) /\ ~CancelReload(r)
            /\ ~CancelCommit(r) /\ ~ExpireCommit(r)
        BY <4>1 DEF PromoteRead, PromoteDrop, ExpireNext, CancelReload, CancelCommit, ExpireCommit
      <4>3. loc'[r].entry = 0 BY <2>3, <4>1, <4>2, Carried DEF SameEntry
      <4>4. pc'[r] = "drop_entry" => FALSE
        <5> SUFFICES ASSUME pc'[r] = "drop_entry" PROVE FALSE OBVIOUS
        <5>1. CreateInsert(r) BY ReachedBy
        <5>2. pc'[r] \in {"recheck", "done"} BY <1>a, <5>1, GotoAt DEF CreateInsert, CreateReturn
        <5> QED BY <5>2
      <4> QED BY <4>2, <4>3, <4>4, ReachedBy
    <3>4. pc'[r] \in {"wl_check", "wl_insert"} => loc'[r].op = "join"
      <4>1. ASSUME JoinReadSlot(r) PROVE loc'[r].op = "join"
        BY <1>a, <4>1 DEF JoinReadSlot, Begin, SessionsOK, Goto, Local, NoLocals
      <4>2. ASSUME JoinCheckBooking(r) PROVE loc[r].op = "join"
        BY <1>a, <4>2 DEF RoleAt, JoinCheckBooking
      <4> QED BY <3>1, <4>1, <4>2, ReachedBy
    <3>5. pc'[r] = "lookup" => loc'[r].op = "create"
      <4>1. ASSUME CreateBegin(r) PROVE loc'[r].op = "create"
        BY <1>a, <4>1 DEF CreateBegin, Begin, SessionsOK, Goto, Local, NoLocals
      <4> QED BY <4>1, ReachedBy
    <3> QED BY <3>2, <3>3, <3>4, <3>5 DEF RoleAt
  <2> QED BY <2>1, <2>2, <2>3 DEF Act
<1>2. OpsAt(r)' BY <1>a, OpsStep
<1>3. ASSUME NEW q \in Sessions, q # r PROVE OpsAt(q)' /\ RoleAt(q)'
  BY <1>3, Frame DEF RolesOK, OpsAt, RoleAt
<1> QED BY <1>1, <1>2, <1>3 DEF RolesOK

LEMMA RolesInvariant == Spec => []RolesOK
<1>1. Init => RolesOK
  BY DEF Init, RolesOK, OpsAt, RoleAt, RescheduleAt, NoLocals
<1>2. StoreInv /\ RolesOK /\ [Next]_vars => RolesOK'
  <2> SUFFICES ASSUME StoreInv, RolesOK, [Next]_vars PROVE RolesOK' OBVIOUS
  <2>1. ASSUME NEW r \in Sessions, Act(r) PROVE RolesOK' BY <2>1, RoleStep
  <2>2. CASE UNCHANGED <<pc, loc>> BY <2>2 DEF RolesOK, OpsAt, RoleAt
  <2>3. ASSUME NEW s \in Slots, Start(s) PROVE RolesOK' BY <2>2, <2>3 DEF Start
  <2>4. CASE UNCHANGED vars BY <2>2, <2>4 DEF vars
  <2> QED BY <2>1, <2>3, <2>4 DEF Next
<1> QED BY <1>1, <1>2, StoreInvariant, PTL DEF Spec

-------------------------------------------------------------------------------
(***************************************************************************)
(* What POST /bookings answers, where bookings are not moved.              *)
(***************************************************************************)
NothingMoves == \A r \in Sessions : "reschedule" \notin Ops[r]

\* A booking is on the slot that was asked for.
AskedOK == \A b \in BookingIds : Exists(b) => bookings[b].asked = bookings[b].slot

\* The booking a request is answered with, or refused for.
AnswerAt(r) ==
  LET l == loc[r]
      row == bookings[l.booking] IN
  pc[r] = "done" /\ l.reply \in {"created", "key_reuse"} =>
    /\ l.booking \in BookingIds /\ Exists(l.booking)
    /\ row.client = l.client /\ row.key = l.key
    /\ l.reply = "created" <=> row.asked = l.slot

AnswersOK == AskedOK /\ \A r \in Sessions : AnswerAt(r)

\* Answering with the booking found under the key.
LEMMA AnswerFound ==
  ASSUME StoreInv, AskedOK, NEW r \in Sessions,
         AnswerExisting(r, ByIdempotencyKey(loc[r].client, loc[r].key)), UNCHANGED bookings
  PROVE  AnswerAt(r)'
<1>a. SessionsOK /\ loc[r] \in Locals
  BY DEF StoreInv, TypeOK, SessionsOK
<1>1. PICK b \in ByIdempotencyKey(loc[r].client, loc[r].key) :
        Local(r, [loc[r] EXCEPT !.booking = b,
                                !.reply = IF SameRequest(b, loc[r].slot)
                                            THEN "created" ELSE "key_reuse"])
  BY DEF AnswerExisting
<1> DEFINE code == IF SameRequest(b, loc[r].slot) THEN "created" ELSE "key_reuse"
<1>2. loc'[r] = [loc[r] EXCEPT !.booking = b, !.reply = code]
  BY <1>a, <1>1, LocalAt
<1>3. /\ loc'[r].booking = b /\ loc'[r].reply = code /\ loc'[r].client = loc[r].client
      /\ loc'[r].key = loc[r].key /\ loc'[r].slot = loc[r].slot
  BY <1>a, <1>2 DEF Locals
<1>4. /\ b \in BookingIds /\ Exists(b)
      /\ bookings[b].client = loc[r].client /\ bookings[b].key = loc[r].key
      /\ bookings[b].asked = bookings[b].slot
  BY DEF ByIdempotencyKey, AskedOK
<1>5. code = "created" <=> bookings[b].slot = loc[r].slot
  BY DEF SameRequest
<1> HIDE DEF code
<1> QED BY <1>3, <1>4, <1>5 DEF AnswerAt, Exists

LEMMA AnswerStep ==
  ASSUME StoreInv, NothingMoves, RolesOK, AnswersOK, NEW r \in Sessions, Act(r)
  PROVE  AnswersOK'
<1>a. SessionsOK /\ loc[r] \in Locals /\ bookings \in [BookingIds -> Row]
  BY DEF StoreInv, TypeOK, SessionsOK, TablesOK
<1>b. ~RescheduleCommit(r)
  BY DEF NothingMoves, RolesOK, OpsAt, RescheduleCommit, RescheduleAt
<1>1. AskedOK'
  <2> SUFFICES ASSUME NEW b \in BookingIds, Exists(b)' PROVE bookings'[b].asked = bookings'[b].slot
    BY DEF AskedOK
  <2>1. CASE Exists(b) BY <1>b, <2>1, RowKept DEF AnswersOK, AskedOK
  <2>2. CASE ~Exists(b)
    <3>1. CASE CreateInsert(r)
      BY <1>a, <2>2, <3>1 DEF CreateInsert, Exists
    <3>2. CASE CancelCommit(r)
      BY <1>a, <2>2, <3>2 DEF CancelCommit, Exists, Row, StoreInv, ArgsOK, ArgsAt
    <3>3. CASE DeleteFlush(r)
      BY <2>2, <3>3 DEF DeleteFlush, Exists, tables
    <3>4. CASE ExpireCommit(r)
      BY <1>a, <2>2, <3>4 DEF ExpireCommit, ExpiredRows, Exists, Row, StoreInv, ArgsOK, ArgsAt
    <3>5. CASE ~Writes(r)
      BY <2>2, <3>5, ReadOnly DEF Exists
    <3> QED BY <1>b, <3>1, <3>2, <3>3, <3>4, <3>5 DEF Writes
  <2> QED BY <2>1, <2>2
<1>2. ASSUME NEW q \in Sessions, q # r PROVE AnswerAt(q)'
  <2> SUFFICES ASSUME pc'[q] = "done", loc'[q].reply \in {"created", "key_reuse"}
               PROVE  AnswerAt(q)'
    BY DEF AnswerAt
  <2>1. pc'[q] = pc[q] /\ loc'[q] = loc[q] BY <1>2, Frame
  <2>2. AnswerAt(q) BY DEF AnswersOK
  <2>3. PICK b \in BookingIds : loc[q].booking = b /\ Exists(b)
    BY <2>1, <2>2 DEF AnswerAt
  <2>4. /\ Exists(b)'
        /\ bookings'[b].client = bookings[b].client
        /\ bookings'[b].key = bookings[b].key
        /\ bookings'[b].asked = bookings[b].asked
    BY <2>3, RowKept
  <2>5. /\ bookings[b].client = loc[q].client
        /\ bookings[b].key = loc[q].key
        /\ loc[q].reply = "created" <=> bookings[b].asked = loc[q].slot
    BY <2>1, <2>2, <2>3 DEF AnswerAt
  <2> QED BY <2>1, <2>3, <2>4, <2>5 DEF AnswerAt, Exists
<1>3. AnswerAt(r)'
  <2> SUFFICES ASSUME pc'[r] = "done", loc'[r].reply \in {"created", "key_reuse"}
               PROVE  AnswerAt(r)'
    BY DEF AnswerAt
  <2>1. CASE CreateLookup(r)
    <3>1. UNCHANGED bookings /\ AnswerExisting(r, ByIdempotencyKey(loc[r].client, loc[r].key))
      BY <1>a, <2>1, GotoAt DEF CreateLookup, tables
    <3> QED BY <3>1, AnswerFound DEF AnswersOK
  <2>2. CASE CreateRecheck(r)
    <3>1. UNCHANGED bookings /\ ~Reply(r, "rejected")
      BY <1>a, <2>2, ReplyKeeps DEF CreateRecheck, tables
    <3>2. AnswerExisting(r, ByIdempotencyKey(loc[r].client, loc[r].key))
      BY <2>2, <3>1 DEF CreateRecheck, AnswerExisting
    <3> QED BY <3>1, <3>2, AnswerFound DEF AnswersOK
  <2>3. CASE CreateInsert(r)
    <3>1. PICK b \in BookingIds :
            /\ bookings' = [bookings EXCEPT ![b] =
                 [slot |-> loc[r].slot, client |-> loc[r].client, key |-> loc[r].key,
                  status |-> "confirmed", asked |-> loc[r].slot]]
            /\ CreateReturn(r, b)
      BY <1>a, <2>3, GotoAt DEF CreateInsert
    <3>2. loc'[r] = [loc[r] EXCEPT !.booking = b, !.reply = "created"]
      BY <1>a, <3>1, GotoAt, LocalAt DEF CreateReturn
    <3>3. /\ loc'[r].booking = b /\ loc'[r].reply = "created" /\ loc'[r].client = loc[r].client
          /\ loc'[r].key = loc[r].key /\ loc'[r].slot = loc[r].slot
      BY <1>a, <3>2 DEF Locals
    <3>4. /\ bookings'[b].client = loc[r].client /\ bookings'[b].key = loc[r].key
          /\ bookings'[b].asked = loc[r].slot /\ bookings'[b].status = "confirmed"
      BY <1>a, <3>1
    <3> QED BY <3>3, <3>4 DEF AnswerAt, Exists
  <2> QED BY <2>1, <2>2, <2>3, ReachedBy
<1> QED BY <1>1, <1>2, <1>3 DEF AnswersOK

LEMMA AnswersInvariant == ASSUME NothingMoves PROVE Spec => []AnswersOK
<1>1. Init => AnswersOK
  BY DEF Init, AnswersOK, AskedOK, AnswerAt, Exists, NoRow
<1>2. StoreInv /\ RolesOK /\ AnswersOK /\ [Next]_vars => AnswersOK'
  <2> SUFFICES ASSUME StoreInv, RolesOK, AnswersOK, [Next]_vars PROVE AnswersOK' OBVIOUS
  <2>1. ASSUME NEW r \in Sessions, Act(r) PROVE AnswersOK' BY <2>1, AnswerStep
  <2>2. CASE UNCHANGED <<bookings, pc, loc>>
    BY <2>2 DEF AnswersOK, AskedOK, AnswerAt, Exists
  <2>3. ASSUME NEW s \in Slots, Start(s) PROVE AnswersOK' BY <2>2, <2>3 DEF Start, tables
  <2>4. CASE UNCHANGED vars BY <2>2, <2>4 DEF vars
  <2> QED BY <2>1, <2>3, <2>4 DEF Next
<1> QED BY <1>1, <1>2, StoreInvariant, RolesInvariant, PTL DEF Spec

\* Where nothing is rescheduled, POST /bookings answers 201 with a booking of its
\* client, its key and its slot, whatever else runs, is cancelled, expires or dies.
THEOREM CreatedAnswersHold == NothingMoves => (Spec => []CreatedAnswersRequest)
<1> SUFFICES ASSUME NothingMoves PROVE Spec => []CreatedAnswersRequest OBVIOUS
<1>1. AnswersOK => CreatedAnswersRequest
  BY DEF AnswersOK, AnswerAt, CreatedAnswersRequest
<1>2. Spec => []AnswersOK BY AnswersInvariant
<1> QED BY <1>1, <1>2, PTL

\* ... and refuses a key only if it was used to ask for another slot.
THEOREM KeyReuseHolds == NothingMoves => (Spec => []KeyReuseIsReal)
<1> SUFFICES ASSUME NothingMoves PROVE Spec => []KeyReuseIsReal OBVIOUS
<1>1. AnswersOK => KeyReuseIsReal
  BY DEF AnswersOK, AnswerAt, KeyReuseIsReal
<1>2. Spec => []AnswersOK BY AnswersInvariant
<1> QED BY <1>1, <1>2, PTL

-------------------------------------------------------------------------------
(***************************************************************************)
(* Who leaves waiters behind.                                              *)
(***************************************************************************)
\* A session that is to offer a slot goes on to do so, finds nobody waiting, or
\* gives up; or the slot is booked.
LEMMA OfferGoesOn ==
  ASSUME StoreInv, RolesOK, NEW r \in Sessions, Act(r), NEW s \in Slots, Offers(r, s),
         s \notin booked'
  PROVE  Offers(r, s)' \/ GivesUp(r) \/ (Waiting(s) = {} /\ UNCHANGED waitList)
<1>a. SessionsOK /\ RoleAt(r) /\ loc[r] \in Locals
  BY DEF RolesOK, StoreInv, TypeOK, SessionsOK
<1>b. loc[r].op \in {"cancel", "expire"} /\ pc[r] \in Promoting \cup {"next", "drop_entry"}
  BY DEF Offers
<1>c. loc[r].op = "cancel" => loc[r].stale = {}
  BY <1>a DEF RoleAt
<1>d. pc[r] # "rs_commit"
  BY <1>b DEF Promoting
<1>e. \A b \in loc[r].stale : b \in BookingIds /\ bookings'[b].slot = bookings[b].slot
  <2> SUFFICES ASSUME NEW b \in loc[r].stale
               PROVE  b \in BookingIds /\ bookings'[b].slot = bookings[b].slot
    OBVIOUS
  <2>1. b \in BookingIds /\ Exists(b)
    BY <1>a DEF Locals, StoreInv, ArgsOK, ArgsAt
  <2> QED BY <1>d, <2>1, RowKept DEF RescheduleCommit
<1>1. CASE Crash(r)
  BY <1>1, EndsAt DEF GivesUp
<1>2. CASE ExpireNext(r)
  <2>1. PICK b \in loc[r].stale : bookings[b].slot = s
    BY <1>2 DEF Offers, ExpireNext, Promoting
  <2>2. PICK c \in loc[r].stale :
          /\ Local(r, [loc[r] EXCEPT !.stale = loc[r].stale \ {c}, !.slot = bookings[c].slot])
          /\ Goto(r, "promote")
    BY <1>2, <2>1 DEF ExpireNext
  <2>3. loc'[r] = [loc[r] EXCEPT !.stale = loc[r].stale \ {c}, !.slot = bookings[c].slot]
    BY <1>a, <2>2, LocalAt
  <2>4. /\ pc'[r] = "promote" /\ loc'[r].op = loc[r].op
        /\ loc'[r].stale = loc[r].stale \ {c} /\ loc'[r].slot = bookings[c].slot
    BY <1>a, <2>2, <2>3, GotoAt DEF Locals
  <2>5. b \in loc'[r].stale \/ loc'[r].slot = s
    BY <2>1, <2>4
  <2> QED BY <1>b, <1>e, <2>1, <2>4, <2>5 DEF Offers, Promoting
<1>3. CASE ~Crash(r) /\ ~ExpireNext(r)
  <2>1. \/ CancelReload(r) \/ PromoteRead(r) \/ CreateLockSlot(r) \/ CreateUpdateSlot(r)
        \/ CreateInsert(r) \/ PromoteDrop(r)
    BY <1>b, <1>3, PromotionGoesOn
  <2>2. Step(r) /\ ~Close(r) /\ ~CancelLockSlot(r)
    BY <1>b, <2>1 DEF Step, Close, CancelLockSlot, Promoting
  <2>3. /\ loc'[r].op = loc[r].op /\ loc'[r].slot = loc[r].slot
        /\ loc'[r].stale = loc[r].stale
    BY <1>3, <2>2, Carried DEF SameCall
  <2>4. CASE pc'[r] \in Promoting
    BY <1>b, <1>e, <2>3, <2>4 DEF Offers
  <2>5. CASE pc'[r] \in {"next", "drop_entry"} /\ \E b \in loc[r].stale : bookings[b].slot = s
    BY <1>b, <1>e, <2>3, <2>5 DEF Offers
  <2>6. CASE GivesUp(r)
    BY <2>6
  <2>7. CASE CancelReload(r)
    BY <1>a, <2>4, <2>6, <2>7, GotoAt, ReplyKeeps DEF CancelReload, GivesUp, Promoting
  <2>8. CASE PromoteRead(r)
    <3>1. CASE pc'[r] = "lock_slot" BY <2>4, <3>1 DEF Promoting
    <3>2. CASE Waiting(loc[r].slot) = {} /\ PromoteReturn(r)
      <4>1. UNCHANGED waitList BY <2>8 DEF PromoteRead, tables
      <4>2. CASE loc[r].slot = s BY <3>2, <4>1, <4>2
      <4>3. CASE loc[r].slot # s
        <5>1. \E b \in loc[r].stale : bookings[b].slot = s BY <4>3 DEF Offers
        <5>2. loc[r].op # "cancel" BY <1>c, <5>1
        <5>3. pc'[r] = "next" BY <1>a, <3>2, <5>2, GotoAt DEF PromoteReturn
        <5> QED BY <2>5, <5>1, <5>3
      <4> QED BY <4>2, <4>3
    <3>3. Goto(r, "lock_slot") => pc'[r] = "lock_slot" BY <1>a, GotoAt
    <3> QED BY <2>8, <3>1, <3>2, <3>3 DEF PromoteRead
  <2>9. CASE CreateLockSlot(r)
    BY <1>a, <2>4, <2>6, <2>9, GotoAt, ReplyKeeps DEF CreateLockSlot, GivesUp, Promoting
  <2>10. CASE CreateUpdateSlot(r)
    BY <1>a, <2>4, <2>6, <2>10, GotoAt DEF CreateUpdateSlot, GivesUp, Promoting
  <2>11. CASE CreateInsert(r)
    <3>1. CASE pc'[r] = "recheck" BY <2>6, <3>1 DEF GivesUp
    <3>2. CASE pc'[r] # "recheck"
      <4>1. loc[r].slot \in booked' /\ \E b : CreateReturn(r, b)
        BY <1>a, <2>11, <3>2, GotoAt DEF CreateInsert
      <4>2. pc'[r] = "drop_entry" BY <1>a, <1>b, <4>1, GotoAt DEF CreateReturn
      <4>3. \E b \in loc[r].stale : bookings[b].slot = s BY <4>1 DEF Offers
      <4> QED BY <2>5, <4>2, <4>3
    <3> QED BY <3>1, <3>2
  <2>12. CASE PromoteDrop(r)
    <3>1. \E b \in loc[r].stale : bookings[b].slot = s
      BY <2>12 DEF Offers, PromoteDrop, Promoting
    <3>2. loc[r].op # "cancel" BY <1>c, <3>1
    <3>3. Reply(r, "error") \/ Goto(r, "next")
      BY <2>12, <3>2 DEF PromoteDrop, PromoteReturn
    <3>4. GivesUp(r) \/ pc'[r] = "next"
      BY <1>a, <3>3, GotoAt, ReplyKeeps DEF GivesUp
    <3> QED BY <2>5, <2>6, <3>1, <3>4
  <2> QED BY <2>1, <2>7, <2>8, <2>9, <2>10, <2>11, <2>12
<1> QED BY <1>1, <1>2, <1>3

\* Whoever frees a slot offers it, except for reschedule_booking.
LEMMA FreedIsOffered ==
  ASSUME StoreInv, MemoryOK, NEW r \in Sessions, Act(r),
         NEW s \in Slots, s \in booked, s \notin booked', s \in live'
  PROVE  Offers(r, s)' \/ (pc[r] = "rs_commit" /\ loc[r].seenSlot = s)
<1>a. SessionsOK /\ OpsAt(r) /\ StaleAt(r) /\ bookings \in [BookingIds -> Row]
  BY DEF MemoryOK, StoreInv, TypeOK, TablesOK
<1>1. CASE CreateInsert(r)
  BY <1>1 DEF CreateInsert
<1>2. CASE CancelCommit(r)
  <2>1. loc'[r] = loc[r] /\ pc'[r] = "reload" /\ loc[r].slot = s
    BY <1>a, <1>2, GotoAt DEF CancelCommit, CancelledFlags
  <2>2. loc[r].op = "cancel"
    BY <1>a, <1>2 DEF CancelCommit, OpsAt
  <2> QED BY <2>1, <2>2 DEF Offers, Promoting
<1>3. CASE RescheduleCommit(r)
  BY <1>3 DEF RescheduleCommit, MovedFlags
<1>4. CASE DeleteFlush(r)
  BY <1>4 DEF DeleteFlush, tables
<1>5. CASE ExpireCommit(r)
  <2>1. loc'[r] = loc[r] /\ pc'[r] = "next" /\ s \in loc[r].dirty
    BY <1>a, <1>5, GotoAt DEF ExpireCommit, ExpiredFlags
  <2>2. loc[r].op = "expire"
    BY <1>a, <1>5 DEF ExpireCommit, OpsAt
  <2>3. PICK b \in loc[r].stale : bookings[b].slot = s
    BY <1>a, <1>5, <2>1 DEF ExpireCommit, StaleAt
  <2>4. b \in BookingIds /\ Exists(b)
    BY DEF StoreInv, TypeOK, SessionsOK, Locals, ArgsOK, ArgsAt
  <2>5. bookings'[b].slot = s
    BY <1>5, <2>3, <2>4, RowKept DEF ExpireCommit, RescheduleCommit
  <2> QED BY <2>1, <2>2, <2>3, <2>5 DEF Offers
<1>6. CASE ~Writes(r)
  BY <1>6, ReadOnly
<1> QED BY <1>1, <1>2, <1>3, <1>4, <1>5, <1>6 DEF Writes

\* What a session offers, no other takes away, if freeing is serialised.
LEMMA OfferKept ==
  ASSUME FreeingSerialised, StoreInv, RolesOK, NEW r \in Sessions, Act(r),
         NEW q \in Sessions, q # r, NEW s \in Slots, Offers(q, s)
  PROVE  Offers(q, s)'
<1>1. pc'[q] = pc[q] /\ loc'[q] = loc[q]
  BY Frame
<1>2. loc[q].op \in Ops[q] /\ loc[q].op \in {"cancel", "expire"}
  BY DEF Offers, RolesOK, OpsAt, Promoting
<1>3. ~RescheduleCommit(r)
  <2> SUFFICES ASSUME RescheduleCommit(r) PROVE FALSE OBVIOUS
  <2>1. "reschedule" \in Ops[r]
    BY DEF RescheduleCommit, RolesOK, OpsAt, RescheduleAt
  <2> QED BY <1>2, <2>1 DEF FreeingSerialised, Frees
<1>4. ASSUME NEW b \in loc[q].stale PROVE bookings'[b].slot = bookings[b].slot
  <2>1. b \in BookingIds /\ Exists(b)
    BY DEF StoreInv, TypeOK, SessionsOK, Locals, ArgsOK, ArgsAt
  <2> QED BY <1>3, <2>1, RowKept
<1> QED BY <1>1, <1>4 DEF Offers

\* The step that abandons the waiters of a slot.
LEMMA LeftBehindBy ==
  ASSUME FreeingSerialised, StoreInv, RolesOK, FlagInv, NEW r \in Sessions, Act(r),
         NEW s \in Slots, ~Abandoned(s), Abandoned(s)'
  PROVE  \/ pc[r] = "wl_insert" /\ loc[r].slot = s /\ Waiting(s) = {}
         \/ pc[r] = "rs_commit" /\ loc[r].seenSlot = s
         \/ Offers(r, s) /\ GivesUp(r)
<1>1. s \in live' /\ s \notin booked' /\ Waiting(s)' # {} /\ \A q \in Sessions : ~Offers(q, s)'
  BY DEF Abandoned
<1>2. s \in live
  <2>1. CASE Writes(r)
    BY <1>1, <2>1 DEF Writes, CreateInsert, CancelCommit, RescheduleCommit, DeleteFlush,
                      ExpireCommit, tables
  <2> QED BY <1>1, <2>1, ReadOnly
<1>3. CASE s \in booked
  <2>1. MemoryOK BY DEF FlagInv
  <2> QED BY <1>1, <1>3, <2>1, FreedIsOffered
<1>4. CASE Waiting(s) = {}
  <2>1. PICK c \in Users : waitList'[s][c] # 0 BY <1>1 DEF Waiting
  <2>2. waitList[s][c] = 0 BY <1>4 DEF Waiting
  <2>3. JoinInsert(r) /\ loc[r].slot = s BY <2>1, <2>2, EntryWritten
  <2> QED BY <1>4, <2>3 DEF JoinInsert
<1>5. ASSUME NEW q \in Sessions, Offers(q, s) PROVE Offers(r, s) /\ GivesUp(r)
  <2>1. q = r BY <1>1, <1>5, OfferKept
  <2>2. GivesUp(r) \/ (Waiting(s) = {} /\ UNCHANGED waitList)
    BY <1>1, <1>5, <2>1, OfferGoesOn
  <2>3. ~(Waiting(s) = {} /\ UNCHANGED waitList) BY <1>1 DEF Waiting
  <2> QED BY <1>5, <2>1, <2>2, <2>3
<1> QED BY <1>2, <1>3, <1>4, <1>5 DEF Abandoned

\* Where operations that free slots do not overlap, a waiter is abandoned by a late
\* entry, by a move, or by a session that gives up its promotions, and by nothing else.
THEOREM WaitersLeftBehindHolds == FreeingSerialised => (Spec => WaitersLeftBehind)
<1> SUFFICES ASSUME FreeingSerialised PROVE Spec => WaitersLeftBehind OBVIOUS
<1> DEFINE Cause(s) ==
      \E r \in Sessions :
        \/ pc[r] = "wl_insert" /\ loc[r].slot = s /\ Waiting(s) = {}
        \/ pc[r] = "rs_commit" /\ loc[r].seenSlot = s
        \/ Offers(r, s) /\ GivesUp(r)
<1> DEFINE Explained == \A s \in Slots : ~Abandoned(s) /\ Abandoned(s)' => Cause(s)
<1>1. StoreInv /\ RolesOK /\ FlagInv /\ [Next]_vars => [Explained]_vars
  <2> SUFFICES ASSUME StoreInv, RolesOK, FlagInv, Next, NEW s \in Slots,
                      ~Abandoned(s), Abandoned(s)'
               PROVE  Cause(s)
    OBVIOUS
  <2>1. CASE \E t \in Slots : Start(t)
    BY <2>1 DEF Start, tables, Abandoned, Waiting, Offers
  <2>2. ASSUME NEW r \in Sessions, Act(r) PROVE Cause(s) BY <2>2, LeftBehindBy
  <2> QED BY <2>1, <2>2 DEF Next
<1>2. StoreInv /\ FlagInv /\ [Next]_vars => FlagInv'
  BY FlagInvStep
<1> QED
  BY <1>1, <1>2, FlagInit, StoreInvariant, RolesInvariant, PTL DEF Spec, WaitersLeftBehind

-------------------------------------------------------------------------------
(***************************************************************************)
(* Who comes to wait for a slot of their own.                              *)
(***************************************************************************)
\* Only create_booking_for_slot makes a confirmed booking, and returns to its caller.
LEMMA ConfirmedBy ==
  ASSUME StoreInv, NEW r \in Sessions, Act(r), NEW b \in BookingIds,
         ~Confirmed(b), Confirmed(b)'
  PROVE  /\ CreateInsert(r) /\ CreateReturn(r, b)
         /\ bookings'[b].slot = loc[r].slot /\ bookings'[b].client = loc[r].client
         /\ UNCHANGED waitList
<1>a. bookings \in [BookingIds -> Row] /\ bookings[b] \in Row
  BY DEF StoreInv, TypeOK, TablesOK
<1> USE DEF Confirmed
<1>1. CASE CreateInsert(r)
  BY <1>a, <1>1 DEF CreateInsert
<1>2. CASE CancelCommit(r)
  BY <1>a, <1>2 DEF CancelCommit, Row
<1>3. CASE RescheduleCommit(r)
  BY <1>a, <1>3 DEF RescheduleCommit, MovedRow, Row
<1>4. CASE DeleteFlush(r)
  BY <1>4 DEF DeleteFlush, tables
<1>5. CASE ExpireCommit(r)
  BY <1>a, <1>5 DEF ExpireCommit, ExpiredRows, Row
<1>6. CASE ~Writes(r)
  BY <1>6, ReadOnly
<1> QED BY <1>1, <1>2, <1>3, <1>4, <1>5, <1>6 DEF Writes

\* Nothing but the named steps makes a client wait for a slot they hold, whatever
\* operations overlap and however stale what they remember is.
THEOREM WaitsForOwnHolds == Spec => WaitsForOwnOnlyBy
<1> DEFINE Cause(c, s) ==
      \E r \in Sessions :
        \/ pc[r] = "wl_insert" /\ loc[r].client = c /\ loc[r].slot = s
        \/ /\ pc[r] = "insert" /\ loc[r].client = c /\ loc[r].slot = s
           /\ loc[r].entry # waitList[s][c]
        \/ pc[r] = "rs_commit" /\ loc[r].slot = s
        \/ pc[r] = "drop_entry" /\ pc'[r] = "idle"
<1> DEFINE Explained ==
      \A c \in Users, s \in Slots : ~WaitsForOwn(c, s) /\ WaitsForOwn(c, s)' => Cause(c, s)
<1> DEFINE Drops(r, c, s) ==
      /\ pc[r] = "drop_entry" /\ loc[r].slot = s /\ loc[r].client = c
      /\ loc[r].entry = waitList[s][c]
<1>1. StoreInv /\ RolesOK /\ [Next]_vars => [Explained]_vars
  <2> SUFFICES ASSUME StoreInv, RolesOK, Next, NEW c \in Users, NEW s \in Slots,
                      ~WaitsForOwn(c, s), WaitsForOwn(c, s)'
               PROVE  Cause(c, s)
    OBVIOUS
  <2>1. CASE \E t \in Slots : Start(t)
    BY <2>1 DEF Start, tables, WaitsForOwn, Holds, Confirmed, Waiting
  <2>2. ASSUME NEW r \in Sessions, Act(r) PROVE Cause(c, s)
    <3>a. SessionsOK /\ bookings \in [BookingIds -> Row] /\ waitList \in [Slots -> [Users -> Nat]]
      BY DEF StoreInv, TypeOK, TablesOK
    <3>1. /\ \E b \in BookingIds :
               Confirmed(b)' /\ bookings'[b].slot = s /\ bookings'[b].client = c
          /\ waitList'[s][c] # 0
          /\ \A q \in Sessions : ~Drops(q, c, s)'
      BY DEF WaitsForOwn, Holds, Waiting
    <3>2. CASE ~Holds(c, s)
      <4>1. PICK b \in BookingIds :
              Confirmed(b)' /\ bookings'[b].slot = s /\ bookings'[b].client = c
        BY <3>1
      <4>2. CASE Confirmed(b)
        <5>1. Exists(b) BY <4>2 DEF Confirmed, Exists
        <5>2. bookings'[b].client = bookings[b].client BY <2>2, <5>1, RowKept
        <5>3. bookings'[b].slot # bookings[b].slot
          BY <3>2, <4>1, <4>2, <5>2 DEF Holds
        <5>4. RescheduleCommit(r) /\ loc[r].booking = b
          BY <2>2, <5>1, <5>3, RowKept
        <5>5. loc[r].slot = s
          BY <3>a, <4>1, <5>4 DEF RescheduleCommit, MovedRow, Row
        <5> QED BY <5>4, <5>5 DEF RescheduleCommit
      <4>3. CASE ~Confirmed(b)
        <5>1. /\ CreateInsert(r) /\ CreateReturn(r, b) /\ loc[r].slot = s /\ loc[r].client = c
              /\ UNCHANGED waitList
          BY <2>2, <4>1, <4>3, ConfirmedBy
        <5>2. pc[r] = "insert" BY <5>1 DEF CreateInsert
        <5>3. CASE loc[r].entry = waitList[s][c]
          <6>1. loc[r].op # "create" BY <3>1, <5>1, <5>3 DEF RolesOK, RoleAt
          <6>2. pc'[r] = "drop_entry" /\ loc'[r] = loc[r]
            BY <3>a, <5>1, <6>1, GotoAt DEF CreateReturn
          <6>3. Drops(r, c, s)' BY <5>1, <5>3, <6>2
          <6> QED BY <3>1, <6>3
        <5> QED BY <5>1, <5>2, <5>3
      <4> QED BY <4>2, <4>3
    <3>3. CASE waitList[s][c] = 0
      <4>1. JoinInsert(r) /\ loc[r].slot = s /\ loc[r].client = c
        BY <2>2, <3>1, <3>3, EntryWritten
      <4> QED BY <4>1 DEF JoinInsert
    <3>4. ASSUME waitList[s][c] # 0, NEW q \in Sessions, Drops(q, c, s) PROVE Cause(c, s)
      <4>1. waitList'[s][c] = waitList[s][c]
        BY <2>2, <3>1, <3>4, EntryWritten
      <4>2. q = r
        <5> SUFFICES ASSUME q # r PROVE FALSE OBVIOUS
        <5>1. pc'[q] = pc[q] /\ loc'[q] = loc[q] BY <2>2, Frame
        <5> QED BY <3>1, <3>4, <4>1, <5>1
      <4>3. ~PromoteDrop(r)
        BY <3>a, <3>4, <4>1, <4>2 DEF PromoteDrop, DropEntry
      <4>4. Crash(r)
        BY <2>2, <3>4, <4>2, <4>3, PromotionGoesOn
        DEF CancelReload, PromoteRead, CreateLockSlot, CreateUpdateSlot, CreateInsert, ExpireNext
      <4>5. pc'[r] = "idle" BY <4>4, EndsAt
      <4> QED BY <3>4, <4>2, <4>5
    <3> QED BY <3>2, <3>3, <3>4 DEF WaitsForOwn, Waiting
  <2> QED BY <2>1, <2>2 DEF Next
<1> QED
  BY <1>1, StoreInvariant, RolesInvariant, PTL DEF Spec, WaitsForOwnOnlyBy

-------------------------------------------------------------------------------
(***************************************************************************)
(* Promotion in turn.  The ticket of an entry is drawn before the entry is *)
(* inserted, so two requests to wait that overlap may be inserted in the   *)
(* other order, the first while the second is being promoted.  That is the *)
(* only way to get out of turn.                                            *)
(***************************************************************************)
\* A session does not put itself out of turn: it promotes the head of the list as
\* it reads it, and then leaves the list alone until it has booked.
LEMMA OwnTurn ==
  ASSUME StoreInv, RolesOK, NEW r \in Sessions, Act(r), OutOfTurn(r)'
  PROVE  OutOfTurn(r)
<1>a. SessionsOK /\ loc[r] \in Locals /\ waitList \in [Slots -> [Users -> Nat]]
  BY DEF StoreInv, TypeOK, SessionsOK, TablesOK
<1>b. /\ pc'[r] \in {"lock_slot", "update_slot", "insert"} /\ loc'[r].op # "create"
      /\ \E d \in Users : waitList'[loc'[r].slot][d] # 0 /\ waitList'[loc'[r].slot][d] < loc'[r].entry
  BY DEF OutOfTurn, Waiting
<1>1. CASE CreateBegin(r)
  BY <1>a, <1>b, <1>1 DEF CreateBegin, Begin, SessionsOK, Goto, Local, NoLocals
<1>2. CASE CreateLookup(r)
  <2>1. loc'[r] = loc[r]
    BY <1>a, <1>b, <1>2, GotoAt DEF CreateLookup, AnswerExisting
  <2> QED BY <1>b, <1>2, <2>1 DEF CreateLookup, RolesOK, RoleAt
<1>3. CASE PromoteRead(r)
  <2>1. ~PromoteReturn(r)
    BY <1>a, <1>b, GotoAt, ReplyKeeps DEF PromoteReturn
  <2>2. PICK c \in Users :
          /\ IsHead(loc[r].slot, c)
          /\ Local(r, [loc[r] EXCEPT !.client = c, !.entry = waitList[loc[r].slot][c]])
    BY <1>3, <2>1 DEF PromoteRead
  <2>3. loc'[r] = [loc[r] EXCEPT !.client = c, !.entry = waitList[loc[r].slot][c]]
    BY <1>a, <2>2, LocalAt
  <2>4. loc'[r].slot = loc[r].slot /\ loc'[r].entry = waitList[loc[r].slot][c]
    BY <1>a, <2>3 DEF Locals
  <2>5. waitList' = waitList BY <1>3 DEF PromoteRead, tables
  <2>6. loc[r].slot \in Slots
    BY <1>3 DEF PromoteRead, StoreInv, ArgsOK, ArgsAt, NoSlotYet
  <2>7. PICK d \in Users : waitList[loc[r].slot][d] # 0 /\ waitList[loc[r].slot][d] < waitList[loc[r].slot][c]
    BY <1>b, <2>4, <2>5
  <2>8. waitList[loc[r].slot][c] <= waitList[loc[r].slot][d]
    BY <2>2, <2>7 DEF IsHead, Waiting
  <2> QED BY <1>a, <2>6, <2>7, <2>8
<1>4. CASE CreateLockSlot(r) \/ CreateUpdateSlot(r)
  <2>1. loc'[r] = loc[r] /\ waitList' = waitList
    BY <1>a, <1>b, <1>4, ReplyKeeps DEF CreateLockSlot, CreateUpdateSlot, tables
  <2>2. pc[r] \in {"lock_slot", "update_slot"}
    BY <1>4 DEF CreateLockSlot, CreateUpdateSlot
  <2> QED BY <1>b, <2>1, <2>2 DEF OutOfTurn, Waiting
<1> QED BY <1>b, <1>1, <1>2, <1>3, <1>4, ReachedBy, CameFrom

\* Another session does so by inserting an entry that asked earlier.
LEMMA OthersTurn ==
  ASSUME StoreInv, NEW r \in Sessions, Act(r), NEW q \in Sessions, q # r,
         ~OutOfTurn(q), OutOfTurn(q)'
  PROVE  JoinInsert(r) /\ pc'[r] = "done" /\ loc[r].slot = loc[q].slot /\ loc[r].entry < loc[q].entry
<1>a. pc'[q] = pc[q] /\ loc'[q] = loc[q] /\ SessionsOK
  BY Frame DEF StoreInv, TypeOK
<1>1. /\ pc[q] \in {"lock_slot", "update_slot", "insert"} /\ loc[q].op # "create"
      /\ \E d \in Users : waitList'[loc[q].slot][d] # 0 /\ waitList'[loc[q].slot][d] < loc[q].entry
  BY <1>a DEF OutOfTurn, Waiting
<1>2. PICK d \in Users : waitList'[loc[q].slot][d] # 0 /\ waitList'[loc[q].slot][d] < loc[q].entry
  BY <1>1
<1>3. loc[q].slot \in Slots
  BY <1>1 DEF StoreInv, ArgsOK, ArgsAt, NoSlotYet
<1>4. waitList'[loc[q].slot][d] # waitList[loc[q].slot][d]
  BY <1>1, <1>2 DEF OutOfTurn, Waiting
<1>5. JoinInsert(r) /\ loc[r].slot = loc[q].slot /\ waitList'[loc[q].slot][d] = loc[r].entry
  BY <1>2, <1>3, <1>4, EntryWritten
<1>6. pc'[r] = "done"
  BY <1>a, <1>5, ReplyAt DEF JoinInsert
<1> QED BY <1>2, <1>5, <1>6

\* A promotion gets out of turn only by an entry that asked earlier and is inserted
\* later, for any number of sessions and whatever they are asked to do.
THEOREM OutOfTurnHolds == Spec => OutOfTurnOnlyBy
<1> DEFINE Only ==
      \A r \in Sessions : ~OutOfTurn(r) /\ OutOfTurn(r)' =>
        \E q \in Sessions :
          /\ pc[q] = "wl_insert" /\ pc'[q] = "done"
          /\ loc[q].slot = loc[r].slot /\ loc[q].entry < loc[r].entry
<1>1. StoreInv /\ RolesOK /\ [Next]_vars => [Only]_vars
  <2> SUFFICES ASSUME StoreInv, RolesOK, Next, NEW r \in Sessions, ~OutOfTurn(r), OutOfTurn(r)'
               PROVE  \E q \in Sessions :
                        /\ pc[q] = "wl_insert" /\ pc'[q] = "done"
                        /\ loc[q].slot = loc[r].slot /\ loc[q].entry < loc[r].entry
    OBVIOUS
  <2>1. ASSUME NEW q \in Sessions, Act(q)
        PROVE  /\ pc[q] = "wl_insert" /\ pc'[q] = "done"
               /\ loc[q].slot = loc[r].slot /\ loc[q].entry < loc[r].entry
    <3>1. q # r BY <2>1, OwnTurn
    <3> QED BY <2>1, <3>1, OthersTurn DEF JoinInsert
  <2>2. ASSUME NEW s \in Slots, Start(s) PROVE FALSE
    BY <2>2 DEF Start, tables, OutOfTurn, Waiting
  <2> QED BY <2>1, <2>2 DEF Next
<1> QED BY <1>1, StoreInvariant, RolesInvariant, PTL DEF Spec, OutOfTurnOnlyBy

\* One session at a time inserts wait-list entries: then it does not happen.
OneJoins == \A p, q \in Sessions : "join" \in Ops[p] /\ "join" \in Ops[q] => p = q

EntriesDrawn == \A s \in Slots, c \in Users : waitList[s][c] <= ticket

\* The entry session r has in hand: an entry to be inserted is the latest drawn,
\* and nobody waits for the slot longer than the client being promoted.
TurnAt(r) ==
  LET l == loc[r] IN
  /\ l.entry <= ticket
  /\ pc[r] \in {"wl_check", "wl_insert"} => l.entry = ticket
  /\ ~OutOfTurn(r)

TurnsOK == EntriesDrawn /\ \A r \in Sessions : TurnAt(r)

\* Tickets are drawn in order, by a request to wait as it begins.
LEMMA TicketDrawn ==
  ASSUME StoreInv, NEW r \in Sessions, Act(r)
  PROVE  ticket \in Nat /\ ticket' \in Nat /\ ticket <= ticket' /\ (ticket' # ticket => JoinReadSlot(r))
<1>1. ticket \in Nat
  BY StoreAssumption DEF StoreInv, TypeOK, TablesOK
<1>2. CASE JoinReadSlot(r)
  <2>1. ticket' = ticket + 1 BY <1>2 DEF JoinReadSlot
  <2> QED BY <1>1, <1>2, <2>1
<1>3. CASE UNCHANGED ticket
  BY <1>1, <1>3
<1> QED BY <1>2, <1>3, ListReadOnly

\* The table holds entries that were drawn.
LEMMA EntriesStep ==
  ASSUME StoreInv, TurnsOK, NEW r \in Sessions, Act(r)
  PROVE  EntriesDrawn'
<1> SUFFICES ASSUME NEW s \in Slots, NEW c \in Users PROVE waitList'[s][c] <= ticket'
  BY DEF EntriesDrawn
<1>1. /\ waitList[s][c] \in Nat /\ waitList[s][c] <= ticket
      /\ loc[r].entry \in Nat /\ loc[r].entry <= ticket
  BY DEF StoreInv, TypeOK, TablesOK, SessionsOK, Locals, TurnsOK, TurnAt, EntriesDrawn
<1>2. waitList'[s][c] \in {waitList[s][c], 0, loc[r].entry}
  BY EntryWritten
<1> QED BY <1>1, <1>2, TicketDrawn

\* A session keeps its turn while another acts: an entry that comes is the latest.
LEMMA TurnKept ==
  ASSUME OneJoins, StoreInv, RolesOK, TurnsOK, NEW r \in Sessions, Act(r),
         NEW q \in Sessions, q # r
  PROVE  TurnAt(q)'
<1>a. /\ pc'[q] = pc[q] /\ loc'[q] = loc[q] /\ TurnAt(q) /\ loc[q].entry \in Nat
      /\ waitList \in [Slots -> [Users -> Nat]]
  BY Frame DEF TurnsOK, StoreInv, TypeOK, SessionsOK, Locals, TablesOK
<1>1. loc[q].entry <= ticket'
  BY <1>a, TicketDrawn DEF TurnAt
<1>2. pc[q] \in {"wl_check", "wl_insert"} => loc[q].entry = ticket'
  <2> SUFFICES ASSUME pc[q] \in {"wl_check", "wl_insert"} PROVE ticket' = ticket
    BY <1>a DEF TurnAt
  <2>1. "join" \in Ops[q]
    BY DEF RolesOK, RoleAt, OpsAt
  <2>2. ASSUME JoinReadSlot(r) PROVE FALSE
    <3>1. "join" \in Ops[r] BY <2>2 DEF JoinReadSlot, Begin, NoLocals
    <3> QED BY <2>1, <3>1 DEF OneJoins
  <2> QED BY <2>2, TicketDrawn
<1>3. ~OutOfTurn(q)'
  <2> SUFFICES ASSUME OutOfTurn(q)' PROVE FALSE OBVIOUS
  <2>1. JoinInsert(r) /\ loc[r].entry < loc[q].entry
    BY <1>a, OthersTurn DEF TurnAt
  <2>2. loc[r].entry = ticket BY <2>1 DEF JoinInsert, TurnsOK, TurnAt
  <2>3. ticket \in Nat BY TicketDrawn
  <2> QED BY <1>a, <2>1, <2>2, <2>3 DEF TurnAt
<1> QED BY <1>a, <1>1, <1>2, <1>3 DEF TurnAt

\* The entry an operation begins with, or goes on with, was drawn.
LEMMA EntryInHand ==
  ASSUME StoreInv, TurnsOK, NEW r \in Sessions, Act(r)
  PROVE  loc'[r].entry <= ticket'
<1>a. /\ SessionsOK /\ loc[r] \in Locals /\ loc[r].entry \in Nat /\ loc[r].entry <= ticket
      /\ waitList \in [Slots -> [Users -> Nat]] /\ EntriesDrawn
  BY DEF StoreInv, TypeOK, SessionsOK, Locals, TablesOK, TurnsOK, TurnAt
<1>b. ticket \in Nat /\ ticket' \in Nat /\ ticket <= ticket'
  BY TicketDrawn
<1>1. CASE Close(r) \/ Crash(r)
  BY <1>1, <1>b, EndsAt DEF NoLocals
<1>2. CASE JoinReadSlot(r)
  <2>1. loc'[r].entry = ticket'
    BY <1>a, <1>2 DEF JoinReadSlot, Begin, SessionsOK, Goto, Local, NoLocals
  <2> QED BY <1>b, <2>1
<1>3. CASE LeaveRead(r)
  <2>1. PICK c \in Users, s \in Slots : loc'[r].entry = waitList[s][c]
    BY <1>a, <1>3 DEF LeaveRead, Begin, SessionsOK, Goto, Local, NoLocals
  <2> QED BY <1>a, <1>b, <2>1 DEF EntriesDrawn
<1>4. CASE Arrive(r) /\ ~JoinReadSlot(r) /\ ~LeaveRead(r)
  <2>1. loc'[r].entry = 0
    <3>1. CASE CreateBegin(r)
      BY <1>a, <3>1 DEF CreateBegin, Begin, SessionsOK, Goto, Local, NoLocals
    <3>2. CASE CancelBegin(r)
      BY <1>a, <3>2 DEF CancelBegin, Begin, SessionsOK, Goto, Local, NoLocals
    <3>3. CASE RescheduleReadBooking(r)
      BY <1>a, <3>3 DEF RescheduleReadBooking, Begin, SessionsOK, Goto, Local, NoLocals
    <3>4. CASE DeleteRead(r)
      BY <1>a, <3>4 DEF DeleteRead, Begin, SessionsOK, Goto, Local, NoLocals
    <3>5. CASE ExpireSelect(r)
      BY <1>a, <3>5 DEF ExpireSelect, Begin, SessionsOK, Goto, Local, NoLocals
    <3> QED BY <1>4, <3>1, <3>2, <3>3, <3>4, <3>5 DEF Arrive
  <2> QED BY <1>b, <2>1
<1>5. CASE PromoteRead(r)
  <2>1. CASE loc'[r] = loc[r] \/ Reply(r, "ok")
    BY <1>a, <1>b, <2>1, ReplyKeeps DEF SameEntry
  <2>2. CASE \E c \in Users : Local(r, [loc[r] EXCEPT !.client = c, !.entry = waitList[loc[r].slot][c]])
    <3>1. PICK c \in Users : loc'[r] = [loc[r] EXCEPT !.client = c, !.entry = waitList[loc[r].slot][c]]
      BY <1>a, <2>2, LocalAt
    <3>2. loc'[r].entry = waitList[loc[r].slot][c]
      BY <1>a, <3>1 DEF Locals
    <3>3. loc[r].slot \in Slots
      BY <1>5 DEF PromoteRead, StoreInv, ArgsOK, ArgsAt, NoSlotYet
    <3> QED BY <1>a, <1>b, <3>2, <3>3 DEF EntriesDrawn
  <2> QED BY <1>5, <2>1, <2>2 DEF PromoteRead, PromoteReturn
<1>6. CASE (Step(r) \/ DeadlockAbort(r)) /\ ~Close(r) /\ ~PromoteRead(r)
  <2>1. loc'[r].entry = loc[r].entry BY <1>6, Carried DEF SameEntry
  <2> QED BY <1>a, <1>b, <2>1
<1> QED BY <1>1, <1>2, <1>3, <1>4, <1>5, <1>6 DEF Act

\* The session that acts has its turn.
LEMMA TurnOwn ==
  ASSUME StoreInv, RolesOK, TurnsOK, NEW r \in Sessions, Act(r)
  PROVE  TurnAt(r)'
<1>a. SessionsOK /\ TurnAt(r) /\ loc[r] \in Locals
  BY DEF StoreInv, TypeOK, SessionsOK, TurnsOK
<1>1. loc'[r].entry <= ticket'
  BY EntryInHand
<1>2. pc'[r] \in {"wl_check", "wl_insert"} => loc'[r].entry = ticket'
  <2>1. CASE JoinReadSlot(r)
    BY <1>a, <2>1 DEF JoinReadSlot, Begin, SessionsOK, Goto, Local, NoLocals
  <2>2. CASE JoinCheckBooking(r) /\ pc'[r] = "wl_insert"
    <3>1. loc'[r] = loc[r] /\ ticket' = ticket
      BY <1>a, <2>2, ReplyKeeps DEF JoinCheckBooking, env
    <3> QED BY <1>a, <2>2, <3>1 DEF JoinCheckBooking, TurnAt
  <2> QED BY <2>1, <2>2, ReachedBy
<1>3. ~OutOfTurn(r)'
  BY <1>a, OwnTurn DEF TurnAt
<1> QED BY <1>1, <1>2, <1>3 DEF TurnAt

LEMMA TurnsInvariant == ASSUME OneJoins PROVE Spec => []TurnsOK
<1>1. Init => TurnsOK
  BY DEF Init, TurnsOK, EntriesDrawn, TurnAt, OutOfTurn, NoLocals
<1>2. StoreInv /\ RolesOK /\ TurnsOK /\ [Next]_vars => TurnsOK'
  <2> SUFFICES ASSUME StoreInv, RolesOK, TurnsOK, [Next]_vars PROVE TurnsOK' OBVIOUS
  <2>1. ASSUME NEW r \in Sessions, Act(r) PROVE TurnsOK'
    BY <2>1, EntriesStep, TurnKept, TurnOwn DEF TurnsOK
  <2>2. CASE UNCHANGED <<waitList, ticket, pc, loc>>
    BY <2>2 DEF TurnsOK, EntriesDrawn, TurnAt, OutOfTurn, Waiting
  <2>3. ASSUME NEW s \in Slots, Start(s) PROVE TurnsOK' BY <2>2, <2>3 DEF Start, tables
  <2>4. CASE UNCHANGED vars BY <2>2, <2>4 DEF vars
  <2> QED BY <2>1, <2>3, <2>4 DEF Next
<1> QED BY <1>1, <1>2, StoreInvariant, RolesInvariant, PTL DEF Spec

\* Where requests to wait do not overlap each other, a promotion books the slot for
\* whoever has waited longest, although it reads the head of the list in one
\* transaction and books in another.
THEOREM PromotedInTurnHolds == OneJoins => (Spec => PromotedInTurn)
<1> SUFFICES ASSUME OneJoins PROVE Spec => PromotedInTurn OBVIOUS
<1> DEFINE InTurn ==
      \A r \in Sessions, b \in BookingIds :
        /\ pc[r] = "insert" /\ loc[r].op # "create"
        /\ ~Exists(b) /\ Exists(b)'
        /\ pc'[r] = "drop_entry"
        => \A d \in Waiting(loc[r].slot) : loc[r].entry <= waitList[loc[r].slot][d]
<1>1. StoreInv /\ TurnsOK => InTurn
  <2> SUFFICES ASSUME StoreInv, TurnsOK, NEW r \in Sessions, pc[r] = "insert", loc[r].op # "create",
                      NEW d \in Waiting(loc[r].slot)
               PROVE  loc[r].entry <= waitList[loc[r].slot][d]
    OBVIOUS
  <2>1. loc[r].slot \in Slots /\ d \in Users /\ loc[r].entry \in Nat
    BY DEF StoreInv, ArgsOK, ArgsAt, NoSlotYet, Waiting, TypeOK, SessionsOK, Locals
  <2>2. waitList[loc[r].slot][d] \in Nat
    BY <2>1 DEF StoreInv, TypeOK, TablesOK
  <2>3. ~(waitList[loc[r].slot][d] < loc[r].entry)
    BY DEF TurnsOK, TurnAt, OutOfTurn
  <2> QED BY <2>1, <2>2, <2>3
<1>2. Spec => []TurnsOK BY TurnsInvariant
<1> QED BY <1>1, <1>2, StoreInvariant, PTL DEF Spec, PromotedInTurn

-------------------------------------------------------------------------------
(***************************************************************************)
(* A session that runs alone and does not die gives no promotion up.       *)
(***************************************************************************)
Alone == (\A p, q \in Sessions : p = q) /\ MayCrash = {}

Promoter(r) == loc[r].op \in {"cancel", "expire"}

FreeHanded == {"idle", "lookup", "lock_slot", "reload", "promote", "next", "drop_entry"}

\* What nobody interferes with stays as the session has read it: it holds no row
\* lock between its transactions, the slot a client is about to wait for is
\* booked, the entry it promotes is there, and the slots it has freed and not yet
\* offered are free, are there, and are distinct.
AloneAt(r) ==
  LET l == loc[r] IN
  /\ pc[r] \in FreeHanded => \A s \in Slots : slotLock[s] # r
  /\ pc[r] \in {"wl_check", "wl_insert"} => l.slot \in booked
  /\ Promoter(r) => l.key = Nil
  /\ Promoter(r) /\ pc[r] \in {"lock_slot", "update_slot", "insert", "drop_entry"} =>
       waitList[l.slot][l.client] = l.entry
  /\ Promoter(r) /\ pc[r] \in Promoting =>
       l.slot \in live \ booked /\ \A b \in l.stale : bookings[b].slot # l.slot
  /\ Promoter(r) /\ pc[r] \in Promoting \cup {"next", "drop_entry"} =>
       \A a, b \in l.stale :
         bookings[a].slot \notin booked /\ (bookings[a].slot = bookings[b].slot => a = b)

AloneOK == \A r \in Sessions : AloneAt(r)

\* Between transactions no slot is locked.
LEMMA HandsFree ==
  ASSUME StoreInv, AloneOK, NEW r \in Sessions, Act(r), pc'[r] \in FreeHanded
  PROVE  \A s \in Slots : slotLock'[s] # r
<1>a. slotLock \in [Slots -> Sessions \cup {Nil}] /\ r # Nil /\ SessionsOK /\ AloneAt(r)
  BY StoreAssumption DEF StoreAssumption, StoreInv, TypeOK, LockTypesOK, AloneOK
<1>1. CASE Release(r)
  BY <1>a, <1>1 DEF Release
<1>2. CASE UNCHANGED locks /\ pc[r] \in FreeHanded
  BY <1>a, <1>2 DEF AloneAt, locks
<1> USE DEF FreeHanded
<1>3. \/ Close(r) \/ Crash(r) \/ CreateBegin(r) \/ CreateLookup(r) \/ PromoteRead(r)
      \/ CancelCommit(r) /\ pc'[r] = "reload"
      \/ CancelReload(r) \/ ExpireNext(r) \/ CreateInsert(r) \/ PromoteDrop(r) \/ ExpireCommit(r)
  BY ReachedBy
<1>4. Release(r) \/ (UNCHANGED locks /\ pc[r] \in FreeHanded)
  <2>1. CASE CancelCommit(r) /\ pc'[r] = "reload"
    BY <1>a, <2>1, ReplyAt DEF CancelCommit
  <2>2. CASE ~(CancelCommit(r) /\ pc'[r] = "reload")
    BY <1>3, <2>2
    DEF Close, Crash, CreateBegin, Begin, CreateLookup, PromoteRead, CancelReload, ExpireNext,
        CreateInsert, PromoteDrop, ExpireCommit
  <2> QED BY <2>1, <2>2
<1> QED BY <1>1, <1>2, <1>4

\* Who promotes has no Idempotency-Key.
LEMMA PromotersKey ==
  ASSUME StoreInv, AloneOK, NEW r \in Sessions, Act(r)
  PROVE  Promoter(r)' => loc'[r].key = Nil
<1>a. SessionsOK /\ loc[r] \in Locals /\ AloneAt(r)
  BY DEF StoreInv, TypeOK, SessionsOK, AloneOK
<1> USE DEF Promoter
<1>1. CASE CreateBegin(r)
  BY <1>a, <1>1 DEF CreateBegin, Begin, SessionsOK, Goto, Local, NoLocals
<1>2. CASE Arrive(r) /\ ~CreateBegin(r)
  <2>1. CASE CancelBegin(r)
    BY <1>a, <2>1 DEF CancelBegin, Begin, SessionsOK, Goto, Local, NoLocals
  <2>2. CASE RescheduleReadBooking(r)
    BY <1>a, <2>2 DEF RescheduleReadBooking, Begin, SessionsOK, Goto, Local, NoLocals
  <2>3. CASE JoinReadSlot(r)
    BY <1>a, <2>3 DEF JoinReadSlot, Begin, SessionsOK, Goto, Local, NoLocals
  <2>4. CASE LeaveRead(r)
    BY <1>a, <2>4 DEF LeaveRead, Begin, SessionsOK, Goto, Local, NoLocals
  <2>5. CASE DeleteRead(r)
    BY <1>a, <2>5 DEF DeleteRead, Begin, SessionsOK, Goto, Local, NoLocals
  <2>6. CASE ExpireSelect(r)
    BY <1>a, <2>6 DEF ExpireSelect, Begin, SessionsOK, Goto, Local, NoLocals
  <2> QED BY <1>2, <2>1, <2>2, <2>3, <2>4, <2>5, <2>6 DEF Arrive
<1>3. CASE Close(r) \/ Crash(r)
  BY <1>3, EndsAt DEF NoLocals
<1>4. CASE (Step(r) \/ DeadlockAbort(r)) /\ ~Close(r)
  BY <1>a, <1>4, Carried DEF SameCall, AloneAt
<1> QED BY <1>1, <1>2, <1>3, <1>4 DEF Act

\* The slot of a booking that is about to be offered was read, and is free.
LEMMA OffersFree ==
  ASSUME StoreInv, FlagInv, RolesOK, AloneOK, NEW r \in Sessions, Act(r), Promoter(r)',
         pc'[r] \in Promoting \cup {"next", "drop_entry"}
  PROVE  /\ pc'[r] \in Promoting =>
              /\ loc'[r].slot \in live' \ booked'
              /\ \A b \in loc'[r].stale : bookings'[b].slot # loc'[r].slot
         /\ \A a, b \in loc'[r].stale :
              /\ bookings'[a].slot \notin booked'
              /\ bookings'[a].slot = bookings'[b].slot => a = b
<1>a. /\ SessionsOK /\ loc[r] \in Locals /\ AloneAt(r) /\ RoleAt(r) /\ bookings \in [BookingIds -> Row]
      /\ live \subseteq Slots /\ booked \subseteq live
  BY DEF StoreInv, TypeOK, SessionsOK, TablesOK, AloneOK, RolesOK
<1>b. \A b \in loc[r].stale : b \in BookingIds /\ Exists(b) /\ bookings[b].slot \in live
  BY <1>a DEF Locals, StoreInv, ArgsOK, ArgsAt, NoOrphan
<1>1. CASE CancelCommit(r) /\ pc'[r] = "reload"
  <2>1. loc'[r] = loc[r] /\ booked' = booked \ {loc[r].slot} /\ live' = live
    BY <1>a, <1>1, ReplyAt DEF CancelCommit, CancelledFlags
  <2>2. loc[r].op = "cancel" /\ loc[r].stale = {}
    BY <1>a, <1>1 DEF RolesOK, OpsAt, RoleAt, CancelCommit
  <2>3. loc[r].slot \in live
    BY <1>1 DEF CancelCommit, StoreInv, ArgsOK, ArgsAt, LocksOK, LocksAt, NoOrphan, RescheduleAt
  <2> QED BY <2>1, <2>2, <2>3
<1>2. CASE ExpireCommit(r)
  <2>1. /\ loc'[r] = loc[r] /\ pc'[r] = "next" /\ booked' = booked \ loc[r].dirty
    BY <1>a, <1>2, GotoAt DEF ExpireCommit, ExpiredFlags
  <2>2. \A b \in loc[r].stale : Confirmed(b) /\ bookings[b].slot \in loc[r].dirty
    BY <1>2 DEF ExpireCommit, FlagInv, MemoryOK, StaleAt
  <2>3. \A b \in loc[r].stale : bookings'[b].slot = bookings[b].slot
    BY <1>a, <1>b, <1>2, RowKept DEF ExpireCommit, RescheduleCommit
  <2>4. NoDoubleBooking BY DEF FlagInv, FlagAgrees
  <2> QED BY <1>b, <2>1, <2>2, <2>3, <2>4 DEF Promoting, NoDoubleBooking
<1>3. CASE ExpireNext(r) /\ pc'[r] = "promote"
  <2>1. PICK c \in loc[r].stale :
          Local(r, [loc[r] EXCEPT !.stale = loc[r].stale \ {c}, !.slot = bookings[c].slot])
    BY <1>a, <1>3, ReplyAt DEF ExpireNext
  <2>2. loc'[r] = [loc[r] EXCEPT !.stale = loc[r].stale \ {c}, !.slot = bookings[c].slot]
    BY <1>a, <2>1, LocalAt
  <2>3. /\ loc'[r].op = loc[r].op /\ loc'[r].stale = loc[r].stale \ {c}
        /\ loc'[r].slot = bookings[c].slot
    BY <1>a, <2>2 DEF Locals
  <2>4. Promoter(r) /\ pc[r] = "next"
    BY <1>3, <2>3 DEF Promoter, ExpireNext
  <2>5. UNCHANGED <<live, booked, bookings>>
    BY <1>3 DEF ExpireNext, tables
  <2> QED BY <1>a, <1>b, <2>3, <2>4, <2>5 DEF AloneAt
<1>4. CASE ~(CancelCommit(r) /\ pc'[r] = "reload") /\ ~ExpireCommit(r) /\ ~ExpireNext(r)
  <2>1. \/ CreateBegin(r) \/ CreateLookup(r) \/ PromoteRead(r) \/ CreateLockSlot(r)
        \/ CreateUpdateSlot(r) \/ CancelReload(r) \/ CreateInsert(r) \/ PromoteDrop(r)
    BY <1>4, ReachedBy, CameFrom DEF Promoting
  <2>2. ~CreateBegin(r)
    <3>1. ASSUME CreateBegin(r) PROVE loc'[r].op = "create"
      BY <1>a, <3>1 DEF CreateBegin, Begin, SessionsOK, Goto, Local, NoLocals
    <3> QED BY <3>1 DEF Promoter
  <2>3. /\ loc'[r].op = loc[r].op /\ loc'[r].stale = loc[r].stale /\ loc'[r].slot = loc[r].slot
    <3>1. Step(r) /\ ~Close(r) /\ ~CancelLockSlot(r)
      BY <2>1, <2>2
      DEF Step, Close, CancelLockSlot, CreateLookup, PromoteRead, CreateLockSlot,
          CreateUpdateSlot, CancelReload, CreateInsert, PromoteDrop
    <3>2. /\ SameCall(loc[r], loc'[r])
          /\ ExpireNext(r) \/ loc'[r].stale = loc[r].stale
          /\ CancelLockSlot(r) \/ ExpireNext(r) \/ loc'[r].slot = loc[r].slot
      BY <3>1, Carried
    <3>3. ~ExpireNext(r) BY <1>4
    <3> QED BY ONLY <3>1, <3>2, <3>3 DEF SameCall
  <2>4. Promoter(r) BY <2>3 DEF Promoter
  <2>5. ~CreateLookup(r)
    BY <1>a, <2>4 DEF CreateLookup, RoleAt, Promoter
  <2>6. pc[r] \in Promoting \cup {"drop_entry"}
    BY <2>1, <2>2, <2>5
    DEF Promoting, PromoteRead, CreateLockSlot, CreateUpdateSlot, CancelReload, CreateInsert, PromoteDrop
  <2>7. CASE CreateInsert(r)
    <3>1. pc[r] = "insert" /\ pc'[r] = "drop_entry"
      BY <1>a, <2>4, <2>7, GotoAt DEF CreateInsert, CreateReturn, Promoter, Promoting
    <3>2. booked' \subseteq booked \cup {loc[r].slot}
      BY <2>7 DEF CreateInsert
    <3>3. \A b \in loc[r].stale : bookings'[b].slot = bookings[b].slot
      BY <1>b, <2>7, RowKept DEF CreateInsert, RescheduleCommit
    <3> QED BY <1>a, <2>3, <2>4, <3>1, <3>2, <3>3 DEF AloneAt, Promoting
  <2>8. CASE ~CreateInsert(r)
    <3>1. UNCHANGED <<live, booked, bookings>>
      BY <2>1, <2>2, <2>5, <2>8
      DEF PromoteRead, CreateLockSlot, CreateUpdateSlot, CancelReload, PromoteDrop, tables
    <3>2. pc'[r] \in Promoting => pc[r] \in Promoting
      <4>1. ASSUME PromoteDrop(r) PROVE pc'[r] \notin Promoting
        BY <1>a, <4>1, GotoAt, ReplyAt DEF PromoteDrop, PromoteReturn, Promoting
      <4>2. CASE ~PromoteDrop(r)
        BY <2>1, <2>2, <2>5, <2>8, <4>2
        DEF PromoteRead, CreateLockSlot, CreateUpdateSlot, CancelReload, Promoting
      <4> QED BY <4>1, <4>2
    <3> QED BY <1>a, <2>3, <2>4, <2>6, <3>1, <3>2 DEF AloneAt
  <2> QED BY <2>7, <2>8
<1>5. CASE ExpireNext(r) /\ pc'[r] # "promote"
  <2>1. pc'[r] = "done" BY <1>a, <1>5, GotoAt, ReplyAt DEF ExpireNext
  <2> QED BY <2>1 DEF Promoting
<1> QED BY <1>1, <1>2, <1>3, <1>4, <1>5

\* The entry being promoted is there.
LEMMA EntryThere ==
  ASSUME StoreInv, RolesOK, AloneOK, NEW r \in Sessions, Act(r), Promoter(r)',
         pc'[r] \in {"lock_slot", "update_slot", "insert", "drop_entry"}
  PROVE  waitList'[loc'[r].slot][loc'[r].client] = loc'[r].entry
<1>a. SessionsOK /\ loc[r] \in Locals /\ AloneAt(r) /\ RoleAt(r)
  BY DEF StoreInv, TypeOK, SessionsOK, AloneOK, RolesOK
<1>1. ~CreateBegin(r)
  <2>1. ASSUME CreateBegin(r) PROVE loc'[r].op = "create"
    BY <1>a, <2>1 DEF CreateBegin, Begin, SessionsOK, Goto, Local, NoLocals
  <2> QED BY <2>1 DEF Promoter
<1>2. CASE PromoteRead(r)
  <2>1. ~PromoteReturn(r)
    BY <1>a, GotoAt, ReplyAt DEF PromoteReturn
  <2>2. PICK c \in Users :
          Local(r, [loc[r] EXCEPT !.client = c, !.entry = waitList[loc[r].slot][c]])
    BY <1>2, <2>1 DEF PromoteRead
  <2>3. loc'[r] = [loc[r] EXCEPT !.client = c, !.entry = waitList[loc[r].slot][c]]
    BY <1>a, <2>2, LocalAt
  <2>4. /\ loc'[r].slot = loc[r].slot /\ loc'[r].client = c
        /\ loc'[r].entry = waitList[loc[r].slot][c]
    BY <1>a, <2>3 DEF Locals
  <2> QED BY <1>2, <2>4 DEF PromoteRead, tables
<1>3. CASE ~PromoteRead(r)
  <2>1. CreateLookup(r) \/ CreateLockSlot(r) \/ CreateUpdateSlot(r) \/ CreateInsert(r)
    BY <1>1, <1>3, ReachedBy, CameFrom
  <2>2. Step(r) /\ ~Close(r) /\ ~CancelLockSlot(r) /\ ~ExpireNext(r) /\ UNCHANGED waitList
    BY <2>1
    DEF Step, Close, CancelLockSlot, ExpireNext, CreateLookup, CreateLockSlot, CreateUpdateSlot,
        CreateInsert, tables
  <2>3. /\ loc'[r].op = loc[r].op /\ loc'[r].slot = loc[r].slot
        /\ loc'[r].client = loc[r].client /\ loc'[r].entry = loc[r].entry
    BY <1>3, <2>2, Carried DEF SameCall, SameEntry
  <2>4. pc[r] \in {"lock_slot", "update_slot", "insert"} /\ Promoter(r)
    BY <1>a, <2>1, <2>3
    DEF Promoter, RoleAt, CreateLookup, CreateLockSlot, CreateUpdateSlot, CreateInsert
  <2> QED BY <1>a, <2>2, <2>3, <2>4 DEF AloneAt
<1> QED BY <1>2, <1>3

LEMMA AloneStep ==
  ASSUME Alone, StoreInv, FlagInv, RolesOK, AloneOK, NEW r \in Sessions, Act(r)
  PROVE  AloneOK'
<1>a. SessionsOK /\ loc[r] \in Locals /\ AloneAt(r)
  BY DEF StoreInv, TypeOK, SessionsOK, AloneOK
<1>1. pc'[r] \in {"wl_check", "wl_insert"} => loc'[r].slot \in booked'
  <2>1. CASE JoinReadSlot(r)
    BY <1>a, <2>1 DEF JoinReadSlot, Begin, SessionsOK, Goto, Local, NoLocals, tables
  <2>2. CASE JoinCheckBooking(r)
    <3>1. loc'[r].slot = loc[r].slot
      BY <1>a, <2>2, ReplyKeeps DEF JoinCheckBooking
    <3> QED BY <1>a, <2>2, <3>1 DEF JoinCheckBooking, AloneAt, tables
  <2> QED BY <2>1, <2>2, ReachedBy
<1>2. AloneAt(r)'
  BY <1>1, HandsFree, PromotersKey, OffersFree, EntryThere DEF AloneAt, Promoting
<1> QED BY <1>2 DEF Alone, AloneOK

\* A promotion that nobody interferes with is not given up.
LEMMA NeverGivesUp ==
  ASSUME Alone, StoreInv, RolesOK, AloneOK, NEW r \in Sessions, Act(r),
         NEW s \in Slots, Offers(r, s)
  PROVE  ~GivesUp(r)
<1>a. SessionsOK /\ AloneAt(r) /\ Promoter(r) /\ pc[r] \in Promoting \cup {"next", "drop_entry"}
  BY DEF StoreInv, TypeOK, AloneOK, Offers, Promoter
<1> USE DEF GivesUp
<1>1. CASE CancelReload(r)
  BY <1>a, <1>1, GotoAt DEF CancelReload, AloneAt
<1>2. CASE PromoteRead(r)
  <2>1. CASE Reply(r, "ok") BY <1>a, <2>1, ReplyKeeps
  <2>2. CASE Goto(r, "next") \/ Goto(r, "lock_slot") BY <1>a, <2>2, GotoAt
  <2> QED BY <1>2, <2>1, <2>2 DEF PromoteRead, PromoteReturn
<1>3. CASE CreateLockSlot(r)
  <2>1. slotLock[loc[r].slot] = Nil /\ loc[r].slot \in live
    BY <1>a, <1>3
    DEF CreateLockSlot, AloneAt, FreeHanded, Promoting, Alone, StoreInv, TypeOK, TablesOK, LockTypesOK
  <2>2. Goto(r, "update_slot") BY <1>3, <2>1 DEF CreateLockSlot
  <2> QED BY <1>a, <2>2, GotoAt
<1>4. CASE CreateUpdateSlot(r)
  BY <1>a, <1>4, GotoAt DEF CreateUpdateSlot, AloneAt
<1>5. CASE CreateInsert(r)
  <2>1. ~KeyTaken(loc[r].client, loc[r].key) BY <1>a DEF AloneAt, KeyTaken
  <2>2. Goto(r, "drop_entry")
    BY <1>a, <1>5, <2>1 DEF CreateInsert, CreateReturn, Promoter
  <2> QED BY <1>a, <2>2, GotoAt
<1>6. CASE PromoteDrop(r)
  <2>1. PromoteReturn(r) BY <1>a, <1>6 DEF PromoteDrop, AloneAt
  <2>2. CASE Reply(r, "ok") BY <1>a, <2>2, ReplyKeeps
  <2>3. CASE Goto(r, "next") BY <1>a, <2>3, GotoAt
  <2> QED BY <2>1, <2>2, <2>3 DEF PromoteReturn
<1>7. CASE ExpireNext(r)
  <2>1. CASE Reply(r, "ok") BY <1>a, <2>1, ReplyKeeps
  <2>2. CASE Goto(r, "promote") BY <1>a, <2>2, GotoAt
  <2> QED BY <1>7, <2>1, <2>2 DEF ExpireNext
<1>8. ~Crash(r)
  BY DEF Crash, Alone
<1> QED BY <1>a, <1>1, <1>2, <1>3, <1>4, <1>5, <1>6, <1>7, <1>8, PromotionGoesOn

\* Where one session runs alone and does not die, and expired bookings are not
\* cancelled, only rescheduling leaves waiters behind.
THEOREM OnlyMovesLeaveWaitersHolds ==
  Alone /\ FreeingSerialised => (Spec => OnlyMovesLeaveWaiters)
<1> SUFFICES ASSUME Alone, FreeingSerialised PROVE Spec => OnlyMovesLeaveWaiters OBVIOUS
<1> DEFINE OnlyMoves ==
      \A s \in Slots : ~Abandoned(s) /\ Abandoned(s)' =>
        \E r \in Sessions : pc[r] = "rs_commit" /\ loc[r].seenSlot = s
<1> DEFINE Inv == StoreInv /\ RolesOK /\ FlagInv /\ AloneOK
<1>1. Init => AloneOK
  BY StoreAssumption
  DEF StoreAssumption, Init, AloneOK, AloneAt, Promoter, Promoting, NoLocals
<1>2. Inv /\ [Next]_vars => AloneOK'
  <2> SUFFICES ASSUME Inv, [Next]_vars PROVE AloneOK' OBVIOUS
  <2>1. ASSUME NEW r \in Sessions, Act(r) PROVE AloneOK' BY <2>1, AloneStep
  <2>2. CASE UNCHANGED <<tables, locks, pc, loc>>
    BY <2>2 DEF AloneOK, AloneAt, Promoter, tables, locks
  <2>3. ASSUME NEW s \in Slots, Start(s) PROVE AloneOK' BY <2>2, <2>3 DEF Start
  <2>4. CASE UNCHANGED vars BY <2>2, <2>4 DEF vars, tables, locks
  <2> QED BY <2>1, <2>3, <2>4 DEF Next
<1>3. Inv /\ [Next]_vars => [OnlyMoves]_vars
  <2> SUFFICES ASSUME Inv, Next, NEW s \in Slots, ~Abandoned(s), Abandoned(s)'
               PROVE  \E r \in Sessions : pc[r] = "rs_commit" /\ loc[r].seenSlot = s
    OBVIOUS
  <2>1. CASE \E t \in Slots : Start(t)
    BY <2>1 DEF Start, tables, Abandoned, Waiting, Offers
  <2>2. ASSUME NEW r \in Sessions, Act(r)
        PROVE  pc[r] = "rs_commit" /\ loc[r].seenSlot = s
    <3>1. ~(Offers(r, s) /\ GivesUp(r)) BY <2>2, NeverGivesUp
    <3>2. ASSUME pc[r] = "wl_insert", loc[r].slot = s PROVE FALSE
      <4>1. s \in booked BY <3>2 DEF AloneOK, AloneAt
      <4>2. ~Writes(r)
        BY <3>2 DEF Writes, CreateInsert, CancelCommit, RescheduleCommit, DeleteFlush, ExpireCommit
      <4>3. s \in booked' BY <2>2, <4>1, <4>2, ReadOnly
      <4> QED BY <4>3 DEF Abandoned
    <3> QED BY <2>2, <3>1, <3>2, LeftBehindBy
  <2> QED BY <2>1, <2>2 DEF Next
<1>4. StoreInv /\ FlagInv /\ [Next]_vars => FlagInv'
  BY FlagInvStep
<1> QED
  BY <1>1, <1>2, <1>3, <1>4, FlagInit, StoreInvariant, RolesInvariant, PTL
  DEF Spec, OnlyMovesLeaveWaiters
===============================================================================
