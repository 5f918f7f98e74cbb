----------------------------- MODULE BookingStore -----------------------------
(***************************************************************************)
(* The database the handlers share, and the sessions that run on it.       *)
(*                                                                         *)
(* PostgreSQL at its default level, READ COMMITTED: every SELECT sees what *)
(* is committed when the statement runs.  The tables below hold committed  *)
(* rows only.  Sessions are created with autoflush=False                   *)
(* (app/db/session.py), so a handler's own changes stay in its session     *)
(* until commit and no other session can see them; an action that commits  *)
(* applies them at once.  What other sessions can see of an open           *)
(* transaction is the row locks it holds.                                  *)
(*                                                                         *)
(* A session is one API worker thread serving a request, or one Celery     *)
(* worker running a task.  pc[r] is the next statement of session r, and   *)
(* loc[r] its arguments, its local variables and the ORM objects it has    *)
(* already loaded.                                                         *)
(***************************************************************************)
EXTENDS Naturals, FiniteSets

CONSTANTS
  Sessions,    \* database sessions that may be open at the same time
  Users,       \* rows of users
  Slots,       \* primary keys of time_slots
  BookingIds,  \* primary keys of bookings; bounds the number of bookings
  Keys,        \* Idempotency-Key header values, already stripped
  Nil,         \* SQL NULL, and "nobody" as a lock holder
  Role,        \* Role[u]: users.role
  Owner,       \* Owner[s]: the user behind time_slots.specialist_id
  Ops,         \* Ops[r]: the operations session r is asked to run
  MayCrash,    \* sessions whose process or connection may die mid-way
  MaxTicket    \* bound: how many wait-list joins are attempted in all

OpNames == {"create", "cancel", "reschedule", "join", "leave", "delete", "expire"}

ASSUME StoreAssumption ==
  /\ Slots \subseteq Nat
  /\ BookingIds \subseteq Nat
  /\ Nil \notin Sessions \cup Users \cup Slots \cup BookingIds \cup Keys
  /\ Role \in [Users -> {"client", "specialist", "admin"}]
  /\ Owner \in [Slots -> Users]
  /\ Ops \in [Sessions -> SUBSET OpNames]
  /\ MayCrash \subseteq Sessions
  /\ MaxTicket \in Nat

VARIABLES
  live,      \* time_slots: the ids that have a row
  booked,    \* time_slots: the ids whose row has is_booked = true
  bookings,  \* bookings[b]: the row, or NoRow while the id is unused
  waitList,  \* waitList[s][c]: created_at of the entry of c for s, 0 if none
  ticket,    \* the last created_at handed out
  started,   \* slots with start_at <= now - booking_expire_after_start_minutes
  slotLock,  \* slotLock[s]: the session that holds the row lock of slot s
  bookLock,  \* bookLock[b]: the session that holds the row lock of booking b
  pc,        \* pc[r]: the statement session r is about to run
  loc        \* loc[r]: the local state of session r

tables == <<live, booked, bookings, waitList>>
locks == <<slotLock, bookLock>>
env == <<ticket, started>>
vars == <<live, booked, bookings, waitList, ticket, started, slotLock, bookLock, pc, loc>>

-------------------------------------------------------------------------------
(***************************************************************************)
(* Rows.  'asked' is a history field, not a column: the slot the creating  *)
(* request named.  It is only read by a property about idempotency keys.   *)
(***************************************************************************)
Statuses == {"confirmed", "cancelled", "expired"}

Row ==
  [slot: Slots \cup {Nil}, client: Users \cup {Nil}, key: Keys \cup {Nil},
   status: Statuses \cup {"absent"}, asked: Slots \cup {Nil}]

NoRow == [slot |-> Nil, client |-> Nil, key |-> Nil, status |-> "absent", asked |-> Nil]

Exists(b) == bookings[b].status # "absent"
Confirmed(b) == bookings[b].status = "confirmed"

Pcs ==
  {"idle", "lookup", "lock_slot", "update_slot", "insert", "recheck",
   "rs_slot", "rs_lock_booking", "rs_lock_slots", "rs_commit",
   "wl_check", "wl_insert", "leave", "promote", "drop_entry",
   "lock_booking", "cn_slot", "cancel", "reload", "delete",
   "ex_load", "ex_flush", "next", "done"}

Replies == {"none", "created", "ok", "key_reuse", "rejected", "error"}

(***************************************************************************)
(* Local state: the arguments of the handler (user, client, key, slot,     *)
(* booking), the wait-list entry being promoted or dropped, the booking    *)
(* and slot objects the reschedule endpoint keeps in its identity map      *)
(* (seenSlot, seenStatus, seenFlag), the expiration task's objects (stale  *)
(* bookings, slots still to be lazy-loaded, slots loaded as booked), and   *)
(* the answer.                                                             *)
(***************************************************************************)
Locals ==
  [op: OpNames \cup {"none"}, user: Users \cup {Nil}, client: Users \cup {Nil},
   key: Keys \cup {Nil}, slot: Slots \cup {Nil}, booking: BookingIds \cup {Nil},
   entry: Nat, seenSlot: Slots \cup {Nil}, seenStatus: Statuses \cup {"absent"},
   seenFlag: {"free", "booked"}, stale: SUBSET BookingIds, load: SUBSET Slots,
   dirty: SUBSET Slots, reply: Replies]

NoLocals ==
  [op |-> "none", user |-> Nil, client |-> Nil, key |-> Nil, slot |-> Nil,
   booking |-> Nil, entry |-> 0, seenSlot |-> Nil, seenStatus |-> "absent",
   seenFlag |-> "free", stale |-> {}, load |-> {}, dirty |-> {}, reply |-> "none"]

-------------------------------------------------------------------------------
(***************************************************************************)
(* Sessions and locks.                                                     *)
(***************************************************************************)
Goto(r, p) == pc' = [pc EXCEPT ![r] = p]

Local(r, l) == loc' = [loc EXCEPT ![r] = l]

\* A handler is entered with its arguments, at its first statement.
Begin(r, p, args) ==
  /\ pc[r] = "idle"
  /\ args.op \in Ops[r]
  /\ Goto(r, p)
  /\ Local(r, args)

\* The handler returns or raises; the transaction stays open until Close.
Reply(r, code) ==
  /\ Goto(r, "done")
  /\ Local(r, [loc[r] EXCEPT !.reply = code])

\* COMMIT or ROLLBACK: every row lock of the session is dropped.
Release(r) ==
  /\ slotLock' = [s \in Slots |-> IF slotLock[s] = r THEN Nil ELSE slotLock[s]]
  /\ bookLock' = [b \in BookingIds |-> IF bookLock[b] = r THEN Nil ELSE bookLock[b]]

LockSlots(r, S) ==
  slotLock' = [s \in Slots |-> IF s \in S THEN r ELSE slotLock[s]]

LockBooking(r, b) == bookLock' = [bookLock EXCEPT ![b] = r]

\* Mutant: the session goes back to the pool without a rollback.
CloseLeaksLocks(r) ==
  /\ pc[r] = "done"
  /\ Goto(r, "idle")
  /\ Local(r, NoLocals)
  /\ UNCHANGED <<tables, env, locks>>

\* get_db and the tasks end with db.close(), which rolls back what is open.
Close(r) ==
  /\ pc[r] = "done"
  /\ Goto(r, "idle")
  /\ Local(r, NoLocals)
  /\ Release(r)
  /\ UNCHANGED <<tables, env>>

\* The process or its connection dies: the server rolls the transaction back.
Crash(r) ==
  /\ r \in MayCrash
  /\ pc[r] \notin {"idle", "done"}
  /\ Goto(r, "idle")
  /\ Local(r, NoLocals)
  /\ Release(r)
  /\ UNCHANGED <<tables, env>>

-------------------------------------------------------------------------------
(***************************************************************************)
(* Bounds.  Booking ids are finite, so an operation that may insert        *)
(* bookings only begins while ids are left for them: an insert never has   *)
(* to wait for one.  A session promotes a wait-list entry once at most.    *)
(***************************************************************************)
Least(m, n) == IF m <= n THEN m ELSE n

\* The entries that are there, or may still come.
MayWait ==
  Cardinality({e \in Slots \X Users : waitList[e[1]][e[2]] # 0})
  + Cardinality({r \in Sessions : pc[r] \in {"wl_check", "wl_insert"}})
  + (MaxTicket - ticket)

\* The bookings session r may still insert: one it is about to, and promotions.
Claims(r) ==
  (IF pc[r] \in {"lookup", "lock_slot", "update_slot", "insert"} THEN 1 ELSE 0)
  + Least(MayWait,
          (IF pc[r] \in {"lock_booking", "cn_slot", "cancel", "reload", "promote"} THEN 1 ELSE 0)
          + (IF pc[r] = "done" THEN 0 ELSE Cardinality(loc[r].stale)))

RoomFor(n) ==
  n + Cardinality(UNION {{r} \X (1 .. Claims(r)) : r \in Sessions})
    <= Cardinality({b \in BookingIds : ~Exists(b)})

\* Mutant: the row of a booking that is over is taken up again.
NextIdReused(b) == ~Confirmed(b)

\* The sequence behind bookings.id: an id is handed out once.  Transactions need
\* not commit in the order of their ids, and one that rolls back leaves a gap.
NextId(b) == ~Exists(b)
===============================================================================
