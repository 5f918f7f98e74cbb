---------------------------- MODULE WaitListService ---------------------------
(***************************************************************************)
(* app/services/wait_list_service.py and the wait-list endpoints.          *)
(*                                                                         *)
(* created_at defaults to now(), which PostgreSQL fixes when the           *)
(* transaction starts: the ticket of an entry is drawn when the request    *)
(* begins, not when it commits.  The transaction starts with the SELECT of *)
(* the token check; the ticket is drawn with the next one, of the slot.    *)
(* Nothing is lost: for another request for the slot to draw a ticket in   *)
(* between, the slot must be booked then, so this one might as well have   *)
(* read it just before.  The ticket also stands for the entry's id, since  *)
(* no two requests draw the same one.                                      *)
(***************************************************************************)
EXTENDS BookingService

\* add_client_to_wait_list: the slot must exist and be booked.  A request that
\* is turned away here has changed nothing.
JoinReadSlot(r) ==
  /\ ticket < MaxTicket
  /\ \E u \in Users, s \in live \cap booked :
       /\ Role[u] \in {"client", "admin"}
       /\ Begin(r, "wl_check", [NoLocals EXCEPT !.op = "join", !.user = u, !.client = u,
                                                !.slot = s, !.entry = ticket + 1])
  /\ ticket' = ticket + 1
  /\ UNCHANGED <<tables, locks, started>>

JoinCheckBooking(r) ==
  LET own == \E b \in BookingIds :
               Confirmed(b) /\ bookings[b].slot = loc[r].slot /\ bookings[b].client = loc[r].client
  IN
  /\ pc[r] = "wl_check"
  /\ \/ own /\ Reply(r, "rejected")
     \/ ~own /\ Goto(r, "wl_insert") /\ UNCHANGED loc
  /\ UNCHANGED <<tables, locks, env>>

\* The KEY SHARE lock a foreign key takes on the slot row waits for a session
\* that holds the row FOR UPDATE, not for one whose UPDATE left the key alone:
\* the flush of the expiration task is the only such UPDATE made without
\* SELECT ... FOR UPDATE.
KeyShareWaits(s) == slotLock[s] # Nil /\ pc[slotLock[s]] # "ex_flush"

\* INSERT and COMMIT.  A missing slot and a second entry of the client are both
\* an IntegrityError, and both are answered 409.
JoinInsert(r) ==
  LET l == loc[r]
      accepted == l.slot \in live /\ waitList[l.slot][l.client] = 0 IN
  /\ pc[r] = "wl_insert"
  /\ ~KeyShareWaits(l.slot)
  /\ \/ ~accepted /\ Reply(r, "rejected") /\ UNCHANGED waitList
     \/ /\ accepted
        /\ waitList' = [waitList EXCEPT ![l.slot][l.client] = l.entry]
        /\ Reply(r, "ok")
  /\ UNCHANGED <<live, booked, bookings, locks, env>>

\* leave_wait_list: the entry is read and the caller checked ...
LeaveRead(r) ==
  /\ \E u, c \in Users, s \in Slots :
       /\ waitList[s][c] # 0
       /\ u = c \/ Role[u] = "admin"
       /\ Begin(r, "leave", [NoLocals EXCEPT !.op = "leave", !.user = u, !.client = c,
                                             !.slot = s, !.entry = waitList[s][c]])
  /\ UNCHANGED <<tables, locks, env>>

\* DELETE by id: an entry that is gone by now is not an error, a newer entry
\* of the same client is left alone.
DropEntry(l) ==
  waitList' = [waitList EXCEPT ![l.slot][l.client] = IF @ = l.entry THEN 0 ELSE @]

LeaveDelete(r) ==
  /\ pc[r] = "leave"
  /\ DropEntry(loc[r])
  /\ Reply(r, "ok")
  /\ UNCHANGED <<live, booked, bookings, locks, env>>

-------------------------------------------------------------------------------
(***************************************************************************)
(* promote_next_wait_list_entry, called with the slot in loc[r].slot by    *)
(* the cancel endpoint and by the expiration task.  It is three            *)
(* transactions' worth of statements: the entry is read without a lock,    *)
(* create_booking_for_slot commits, and only then is the entry deleted.    *)
(***************************************************************************)
Waiting(s) == {c \in Users : waitList[s][c] # 0}

\* Mutant: ORDER BY created_at DESC.
IsHeadNewest(s, c) ==
  c \in Waiting(s) /\ \A d \in Waiting(s) : waitList[s][d] <= waitList[s][c]

\* ORDER BY created_at, id.
IsHead(s, c) ==
  c \in Waiting(s) /\ \A d \in Waiting(s) : waitList[s][c] <= waitList[s][d]

PromoteReturn(r) ==
  IF loc[r].op = "cancel" THEN Reply(r, "ok") ELSE Goto(r, "next") /\ UNCHANGED loc

PromoteRead(r) ==
  LET s == loc[r].slot IN
  /\ pc[r] = "promote"
  /\ \/ Waiting(s) = {} /\ PromoteReturn(r)
     \/ \E c \in Users :
          /\ IsHead(s, c)
          /\ Local(r, [loc[r] EXCEPT !.client = c, !.entry = waitList[s][c]])
          /\ Goto(r, "lock_slot")
  /\ UNCHANGED <<tables, locks, env>>

\* Mutant: the promoted client stays on the list.
PromoteDropForgotten(r) ==
  /\ pc[r] = "drop_entry"
  /\ PromoteReturn(r)
  /\ UNCHANGED <<tables, locks, env>>

\* The commit expired the entry object; deleting it reloads it, and a row that
\* is gone by then raises ObjectDeletedError, which nobody catches.
PromoteDrop(r) ==
  LET l == loc[r] IN
  /\ pc[r] = "drop_entry"
  /\ \/ /\ waitList[l.slot][l.client] = l.entry
        /\ DropEntry(l)
        /\ PromoteReturn(r)
     \/ /\ waitList[l.slot][l.client] # l.entry
        /\ Reply(r, "error")
        /\ UNCHANGED waitList
  /\ UNCHANGED <<live, booked, bookings, locks, env>>
===============================================================================
