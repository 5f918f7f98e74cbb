# Booking API: TLA+ models, checks and proofs

The repository is a FastAPI service for booking time slots of specialists, with
PostgreSQL behind SQLAlchemy, a Celery task that expires started bookings, a wait
list, idempotent booking requests and a Redis rate limiter for the login endpoints.
Paths below are relative to `src/`.

## 1. Inventory

| Component | State | Operations | Hard part |
|---|---|---|---|
| Booking service `app/services/booking_service.py` | `bookings`, `time_slots.is_booked` | `create_booking_for_slot`, `reschedule_booking` | row locks taken NOWAIT, lookups before locks, objects older than the locks, unique violations |
| Booking endpoints `app/api/v1/bookings.py` | the same | create, cancel, reschedule | two locks in sequence, promotion after the commit |
| Wait list `app/services/wait_list_service.py` | `wait_list_entries` | join, leave, promote | read, booking and deletion are separate transactions |
| Expiration task `app/tasks/expirations.py` | `bookings`, `is_booked` | `expire_started_slots` | no locks until the flush, batch, loop of promotions |
| Slot deletion `app/api/v1/specialists.py` | `time_slots` | `delete_slot_for_me` | check without a lock, foreign keys |
| Slots, services, profiles `app/api/v1/specialists.py` | `time_slots`, `services`, `specialist_profiles` | `create_slot_for_me`, `create_service_for_me` | check-then-insert, get-or-create |
| Rate limiter `app/core/rate_limiter.py` | a deque, a Redis sorted set | `allow` | check-then-add, fallback, clock read before the lock |
| Accounts `app/services/auth_service.py`, `app/api/deps.py` | `users` | register, login, token check | registration race, spellings of an address, tokens that outlive a change of their user |
| Listings, availability, single booking `app/api/v1/bookings.py`, `specialists.py` | none of their own | lists with filters and pages, daily summary, read and export of a booking | pages read while rows come and go, day boundaries, flag and status read side by side |
| Reminder task, ICS text, errors, metrics, logging | none of their own | counting and formatting | - |

All handlers share one database; API workers and Celery workers are its sessions, and
the row locks of open transactions are all they see of each other. Cancel and the
expiration task call `promote_next_wait_list_entry`, which calls
`create_booking_for_slot`; its exceptions go through to the caller. The rate limiter
shares nothing with the rest; every protected endpoint begins with the token check.

What makes them correct: a slot has at most one confirmed booking; `is_booked` says
whether it has one; a key names one booking and only a real reuse is refused; a slot in
use is not deleted; a booking keeps client, key and specialist and is not confirmed again once it is over;
freed slots go to the client who has waited longest; started bookings expire; every
request ends; the limiter lets no more through than configured; an address has one account,
and a token is worth what its user is now. A reader sees all of their bookings, whatever
happens between two pages, and the endpoints agree on what a day holds.

## 2. Modules

    BookingStore <- BookingService <- WaitListService <- BookingApi  \
                                                      <- Expirations /<- BookingSystem
    SlotLedger  <== BookingLedger (refinement mapping) -> BookingSystem
    BookingLedger <- MCBooking, Listings <- MCListings
    RateLimiter <- MCRateLimiter       SlotCalendar       Accounts <- MCAccounts

    BookingSystem <- BookingSystem_proofs <- BookingRequests_proofs <- Listings_proofs -> Listings
                     BookingSystem_proofs <- BookingLedger_proofs -> BookingLedger
    SlotLedger_proofs, RateLimiter_proofs, SlotCalendar_proofs, Accounts_proofs,
    each of the module it is named after

**BookingStore**: the committed tables (`live`, `booked`, `bookings`, `waitList`), the
row locks (`slotLock`, `bookLock`), and per session the next statement `pc[r]` and the
local state `loc[r]`. Sessions run with `autoflush=False`, so changes appear when their
transaction commits; an action that commits applies them at once. `Close` is the end
of `get_db` (rollback), `Crash` a dead process or connection.

**BookingService**, **WaitListService**, **BookingApi**, **Expirations**: one action per
SQL statement, or per group of statements that no other session can tell apart.

| Code | Actions |
|---|---|
| `create_booking_for_slot` | `CreateLookup`, `CreateLockSlot`, `CreateUpdateSlot`, `CreateInsert`, `CreateRecheck` |
| `reschedule_existing_booking`, `reschedule_booking` | `RescheduleReadBooking`, `RescheduleReadSlot`, `RescheduleLockBooking`, `RescheduleLockSlots`, `RescheduleCommit` |
| `cancel_booking` | `CancelBegin`, `CancelLockBooking`, `CancelLockSlot`, `CancelCommit`, `CancelReload` |
| `add_client_to_wait_list`, `leave_wait_list` | `JoinReadSlot`, `JoinCheckBooking`, `JoinInsert`; `LeaveRead`, `LeaveDelete` |
| `promote_next_wait_list_entry` | `PromoteRead`, the create actions, `PromoteDrop` |
| `delete_slot_for_me` | `DeleteRead`, `DeleteFlush` |
| `expire_started_slots` | `ExpireSelect`, `ExpireLoad`, `ExpireFlushSlot`, `ExpireFlushBooking`, `ExpireCommit`, `ExpireNext` |

Two details of SQLAlchemy carry most of the weight. A `SELECT ... FOR UPDATE` of a row
that is already in the session's identity map locks the row and returns the old object:
`reschedule_booking` decides on what the endpoint read before (`seenSlot`, `seenStatus`,
`seenFlag`). And an attribute is only written if it differs from its loaded value
(`MovedFlags`, `ExpireLoad`).

**BookingSystem** composes them, adds the clock (`Start`) and PostgreSQL's deadlock
detector, and states the properties. `Ops[r]` says which operations session `r` is asked
for, so that one module serves runs that combine operations differently.

**SlotLedger** is the abstract specification: which slot a booking holds, taken or moved
to in one step while it is vacant. **BookingLedger** maps a confirmed booking to the
slot it names.

**Listings** puts a reader beside the whole system. What the endpoints select are operators
on the tables (`MyBookings`, `SpecialistBookings`, `MyWaitList`, `SpecialistSlots`,
`Availability`). `FirstRows` is `ORDER BY` and `Pages` is `LIMIT` and `OFFSET`: what a page may
be, since slots that start together are ordered by nothing else and each query may settle
their order differently. The reader's steps are `FirstPage` and `NextPage`: each is one
SELECT, so it sees one committed state, and the system moves between them. `first`, `kept` and `left` are history: what the listing held at
the first page, what of it stayed, how many rows went. `MayOpen` and `MayExport` are the two
endpoints for a single booking.

**RateLimiter** is one key of the limiter: `events` is the deque, `zset` and `expiry` the
Redis key. **SlotCalendar** is the creation of slots, services and profiles. **Accounts** is
`register_user`, `login_user` and `get_current_user` with `require_roles`: `users` is the
table, `tokens` the tokens handed out (the service stores none), `ChangeUser` a change of
`is_active` or `role` made in the database, which no endpoint offers but `deps.py` reckons
with. Addresses have spellings, with `Lower` for `str.lower()`, and times are cut to whole
seconds as JWT does.

Definitions whose comment starts with "Mutant" are not part of the specifications. Each
is a plausible slip in the definition below it, used to see that a property notices.

## 3. Runs

Booking runs use two sessions unless said otherwise, one to three slots, one to three
bookings and a handful of users. Two sessions are enough to have any statement of one
handler between any two of another; the theorems cover more of them.

| Run | Checks | Instance |
|---|---|---|
| `core` | `NoDoubleBooking`, `FlagAgrees`, `KeyNamesOneBooking`, `CreatedAnswersRequest`, `KeyReuseIsReal`, `WaitersLeftBehind` | create, cancel, wait list, delete; one key; a session may crash |
| `one_expirer` | `FlagAgrees`, `LedgerSpec`, `WaitersLeftBehind`, `WaitsForOwnOnlyBy` | one session frees slots by reschedule and by expiration and may crash, the other books, waits, leaves and deletes |
| `serial` | `AllBookingsListed`, `MissedOnlyForLeft`, `ListedCanBeOpened`, `DaysAgree`, `OnlyMovesLeaveWaiters` | one session that creates, reschedules, joins, deletes and expires, and a reader with five queries and pages of one row; one slot late on a day, one at the next midnight |
| `everything` | `TypeOK`, `NoOrphan`, `BookingHistory`, `SpecialistStable` | create, cancel, reschedule, delete and expire, with no wait list (`MaxTicket` is 0, so nobody joins, leaves or is promoted); three slots of two specialists, one booking id, symmetric sessions |
| `live_expiry` | `StaleBookingsExpire`, `SoldWhileFree` | the task beside create, reschedule, delete |
| `live_requests` | `EveryRequestEnds`, `OutOfTurnOnlyBy` | one session expires and joins, the other creates, cancels, joins and deletes: deadlocks happen, requests to wait overlap each other and promotions, and two users wait for the slot of a third |
| `limiter_redis` | `TypeOK`, `RedisWindow`, `MemoryWindow`, `RetryAfterBounded`, `IndexErrorOnlyAtZero`, `EventsCountInFull` | four requests on two threads, a limit of two, every Redis command may fail |
| `calendar_race` | `ProfilesOK`, `ConflictIsReal`, `OverlapOnlyByRace`, `FailedProfileExists` | two sessions, two specialists, one session may crash |
| `accounts` | `OneAccountPerAddress`, `RefusalIsReal`, `TokenLifetime`, `AdmittedAsIs` | two sessions, two addresses of which one has two spellings, one token, one change from outside |

Bounds: `BookingIds` and `MaxTicket` bound bookings and wait-list joins; an operation
only begins while an id is left for every booking it may make (`RoomFor`), so the bound
never blocks a request half-way. It may make as many by promotion as there are entries, now
or to come (`MayWait`). In `serial` a behaviour is not followed beyond the reader's last page;
a reader whose last page was full may wait for ever before it asks for the next, so
what has been listed is watched for as long as one likes. One session beside the
reader is enough: a page sees committed rows only, and one session commits every kind of change
a list can see. Cancel is left out there, since with
expirations it breaks `DaysAgree` the way `bug_cancel_expired` shows. `MaxClock`, `MaxDelay`, `Threads`, `MaxTime`, `MaxRows`,
`MaxUsers`, `MaxTokens` and `MaxChanges` bound the other models. In `core` and `one_expirer` the
clients are interchangeable. `everything` is without a wait list to stay within
reach; that its properties hold with promotions too is what the theorems add. In `serial` no two slots
start together and a wait list has one entry; `MissedOnlyForLeft` is proved without either. In `serial`
`sp` is an admin and owns every slot, so that no move takes a booking out of its reader's sight: there
`ListedCanBeOpened` is about the 404 of a slot that is gone, and the 403 is left to the theorem. Every property is broken by
its mutant within the bounds of its run, so the case it is about happens there. Deadlock is not checked: with all requests
served and all ids used the system may rest.

Three runs expect a violation. Each shows a disagreement between the code and what the
repository says of it; `PROJECT.json` quotes the lines.

| Run | What happens |
|---|---|
| `bug_cancel_expired` | a booking expires, its slot is booked by another client, the expired booking is cancelled: the slot is free while booked |
| `bug_stale_reschedule` | reschedule reads booking and slot; the booking is cancelled and the slot resold; reschedule locks, believes the old objects and frees the slot |
| `bug_stale_expiry` | the task reads a booking, reschedule moves it, the task expires it and frees the old slot: the new one is never free again |

Six more observations bound what the passing runs can claim and have no run of their own:

- A create request repeated after its booking was rescheduled is refused as a reuse of its
  key, because `booking_service.py:57` compares the booking's current slot. `KeyReuseIsReal`
  is therefore checked in `core`, where nothing is rescheduled.
- A promotion that raises (its slot was booked or is locked by another session) ends the
  expiration task's loop: the slots left are never offered to their waiters
  (`expirations.py:34`). `WaitersLeftBehind` counts this among its three ways; the runs reach
  it with one slot that is waited for, since two take four booking ids.
- A limit of 0 makes every request that reaches the memory limiter end in an IndexError
  (`rate_limiter.py:36`); `IndexErrorOnlyAtZero` says that no positive limit does.
- A cancellation is committed before the promotion; if that fails with 409, this is the
  answer to the cancel request (`bookings.py:90`).
- The Redis limiter counts in one pipeline and adds in another, so concurrent requests pass
  the limit together. `RedisWindow` states by how much.
- The overlap check and the INSERT of a slot are apart, so two requests of one specialist may
  create overlapping slots. `OverlapOnlyByRace` states that this is the only way, with the
  history field `seen`. It takes a profile that exists already: creating it makes the second
  request wait on the unique index and fail.

`FlagAgrees` is therefore conditional: it holds as long as reschedules and expirations do
not overlap each other or cancellations, and expired bookings are not cancelled
(`FreeingSerialised`). `core` and `one_expirer` are instances that satisfy the condition,
the three violations show that it is needed. `SoldWhileFree` is what holds without it: a booking
comes to a slot, by a request, a promotion or a move, only while the slot is marked free, and
marks it. So a slot is sold twice only after its flag was cleared too early, and never because two
requests found it free. `live_expiry` checks this beside the race of `bug_stale_expiry`; for moves and
cancellations that overlap, and for promotions, it is a theorem.

### The wait list

Promotion is not atomic, and the docs promise nothing about what overlapping requests leave
behind. The properties say what the code keeps. `Abandoned(s)`: slot `s` is free, somebody
waits for it, and no session is on its way to offer it. `WaitersLeftBehind`: a slot gets there
only by an entry inserted after the slot was freed, by a reschedule, or because a session that
was to promote died or raised. `OnlyMovesLeaveWaiters`: where nothing overlaps and nothing
fails, only by a reschedule, which promotes nobody (`booking_service.py:166`).
`WaitsForOwnOnlyBy`: a client comes to wait for a slot they hold only by their own request to
wait checked too early, by a booking made without knowing the entry, by a move, or because
the session died between the booking and the deletion of the entry. Each of these ways occurs
in the runs: without any one of them the property fails. `WaitersLeftBehind` is stated where the
operations that free slots do not overlap each other, `WaitsForOwnOnlyBy` holds without that.

Waiters are promoted in the order in which they asked as long as one session at a time takes
requests to wait; this is `PromotedInTurn`, proved and not among the runs. An entry carries the time its transaction began, so of two
requests that overlap the earlier may be inserted after the later, even while the later is being
promoted. `OutOfTurnOnlyBy` says that nothing else puts a promotion out of turn, whatever overlaps;
in `live_requests` this one way occurs.

### Listings

Bookings are never removed, keep client and specialist, and are listed by id, so a list of all
of them misses none (`AllBookingsListed`). Other lists are cut by `OFFSET` while rows leave
them, and can pass over a row that was there all the time; `MissedOnlyForLeft` bounds this by
the rows that left. Slots that start together (it takes the race of `create_slot_for_me`) are exempt:
with the order of ties open (`specialists.py:163`) one of them may be shown twice and the other
never, with nothing changed in between. The property says that no other row suffers from it. `ListedCanBeOpened` is about the join of the single-booking endpoints with
the slot as it is now. `DaysAgree` compares the three computations of a day (the booking
filter, the slot filter, the summary's window and buckets), and `is_booked` with status.

### The limiter

The limiter's windows are stated with what the code can keep: the memory limiter
lets at most `Limit` requests through in a window shortened by `MaxDelay`, the time a
thread may spend between `time.time()` and the lock; the Redis limiter lets every other
thread in on top; after a failure the two count separately.

### Fairness

`FairSpec` assumes that a worker goes on with its handler; that a session whose row
lock becomes free again and again gets it (PostgreSQL queues the waiters of a row, hence
strong fairness of `Step`); that the deadlock detector runs (`deadlock_timeout`); and that
Celery beat keeps sending the task. No request is assumed to come, and `live_expiry`
leaves cancellations out: with a cancel request at the right moment in every run, the
task can be the deadlock victim each time.

## 4. Proofs

Every safety property of the passing runs is a theorem too. The runs show it on one small
instance, the theorem for every value of the constants that satisfies the named assumption
(`StoreAssumption`, `ListingsAssumption`, `LimiterAssumption`, `CalendarAssumption`,
`AccountsAssumption`): any number of sessions, users, slots, bookings, keys, tickets,
requests and threads. TLC checked each inductive invariant named below on the instance of a
run before it was proved.

### Bookings (`BookingSystem_proofs`, `BookingLedger_proofs`)

- `TypeCorrect`, `NoOrphanHolds`, `KeyUnique`, `BookingsKeepHistory`, from `StoreInvariant`: `StoreInv` adds to types and `NoOrphan`
  what a session knows at each statement, namely its arguments (`ArgsOK`) and the locks it
  holds with what they protect (`LocksOK`). Without it neither is inductive: that an INSERT
  names a slot that exists follows from the lock taken two statements earlier. The argument
  is per action for the session that moves (`ArgsStep`, `LocksStep`), and by `Frame`,
  `BookingLocked` and `SlotLocked` for the others: nobody changes a row somebody else has
  locked.
- `SoldWhileFreeHolds`, with no condition: `TargetsFree` says that the slot a session is about to
  book or move to is still free. Its session checked this when it locked the slot, and whoever
  marks a slot has it locked (`StoreInv`).
- `FlagAgreesHolds` and `NoDoubleBookingHolds`, under `FreeingSerialised`: `FlagInv`
  adds that what a reschedule or an expiration remembers is still so (`SeenAt`, `StaleAt`)
  and that the slot about to be marked is free (`TargetFreeAt`).
- `ImplementsLedger`: under the same condition every step is a step of `SlotLedger` or
  leaves it alone. `LedgerExclusive` (`SlotLedger_proofs`): the ledger never lets two bookings
  hold a slot.

### Answers and the wait list (`BookingRequests_proofs`)

- `SpecialistStays`: a booking keeps its specialist. Reschedule compares the new slot with
  the slot it read before its locks; `OwnersOK` says that this is enough, since whoever moved
  the booking meanwhile kept the owner too.
- `CreatedAnswersHold` and `KeyReuseHolds`, under `NothingMoves` (no session is asked to
  reschedule, see the first observation of section 3): `AnswersOK` says what the booking of a
  finished request is, `RolesOK` which operation a session can be in at which statement, so
  that a promotion, which shares the statements of a create request, is never mistaken for one.
- `WaitersLeftBehindHolds`, under `FreeingSerialised`, from `FlagInv`: what frees a slot has it
  in hand, for cancel as the slot to promote for, for the task among the slots of its stale
  bookings. This covers several waited-for slots in one expiration, which the runs do not.
- `WaitsForOwnHolds`, with no condition: a promotion that booked from an entry goes on to
  delete that entry unless it dies, whatever the other sessions do.
- `PromotedInTurnHolds`, under `OneJoins` (one session is asked to insert wait-list entries):
  `TurnsOK` says that an entry not inserted yet is the latest drawn and that nobody waits for
  longer than the entry a promotion has in hand. The condition is needed: the ticket
  (`created_at`) is drawn before the INSERT, so of two overlapping requests to wait the earlier may be
  inserted when the later is being promoted.
- `OutOfTurnHolds`, with no condition: the entry at hand was the head when it was read (`OwnTurn`),
  and of the other sessions only one that inserts an entry changes who waits (`OthersTurn`).
- `OnlyMovesLeaveWaitersHolds`, under `FreeingSerialised` and `Alone` (one session, which does
  not die): `AloneOK` says that the slots still to be promoted for are free and
  distinct and no row is locked between transactions, so that no promotion raises.

### Listings (`Listings_proofs`)

- `AllBookingsListedHolds`, `MissedOnlyForLeftHolds`, `ListedCanBeOpenedHolds`, for any page
  size and any queries. `SystemOK` is what they use of the system underneath (`StoreInv`,
  `OwnersOK`, and `ClientsOK`: bookings are made for users). `ReaderOK` is about the reader:
  a row that stayed and was passed over has a rank below the offset, and there are no more of
  them than rows that left (`PagesOK`); nothing leaves a list of all bookings (`NoneLeft`); what was
  shown is the reader's (`ShownOK`). The rank of a row is the number of rows before it, and the
  lemmas about ranks (`RankDistinct`, `TopByRank`, `RankFalls`, `FewSlip`) count finite sets; no
  induction over the list is needed. A row with a key of its own has a definite place whatever
  the order of ties (`TopByRank`), which is why `MissedOnlyForLeft` is about these rows.
- `DaysAgreeHolds`, under `FreeingSerialised`: a confirmed booking is mapped to its slot, and
  by `FlagInv` this is a bijection onto the booked slots of the day.
- `ListingsAssumption` asks for finite tables and a NULL that is neither a date nor a status; it says
  nothing about when slots start.

### The limiter (`RateLimiter_proofs`)

- `MemoryWindowHolds`: the deque may be out of order, and equal timestamps make its entries
  indistinguishable. `DequeHolds` therefore asks for an injection of the requests that
  memory let through recently into the entries of the deque, each entry with the time of its
  request. The deque is never longer than `Limit` (`TypeCorrect`), so neither are they.
- `RedisWindowHolds`: `RedisHolds` says that every recent request is still in the sorted set,
  and that these with the requests counted and not yet added are at most
  `Limit + Threads - 1`: a request gets past the count with fewer than `Limit` entries, and of the others
  under way there are at most `Threads - 1`.
- `EventsCountHolds`, `RetryAfterHolds`, `IndexErrorHolds`, from `TimesOK`: what is recorded is
  of the past, a request is at most `MaxDelay` behind the clock, and the Redis key expires no
  sooner than a window after its latest entry.

### Slots and profiles, accounts (`SlotCalendar_proofs`, `Accounts_proofs`)

- `OverlapOnlyByRaceHolds`, `ConflictIsRealHolds`, `FailedProfileExistsHolds`, `ProfilesHold`,
  from `CalendarInv`: a request past its check shares no instant with the slots that were there when
  it looked (`CheckedClear`), rows are of committed profiles, and a profile in the making belongs to the
  session that makes it. That the two comparisons of the query find exactly the slots that
  share an instant is a lemma of its own.
- `OneAccountHolds`: an address has one account. The unique index compares stored strings;
  `AccountsInv` adds that they are in lower case, and `TypeOK` that a registration under way
  carries an address.
- `RefusalIsRealHolds`, `TokenLifetimeHolds`, `AdmittedAsIsHolds`, from `AccessInv`: tokens are of accounts
  that exist and carry the expiry computed when they were made; accounts keep address and
  digest (`Grown`); and a request about to load its user has been entitled at some moment
  if it is entitled now.

### Only model-checked

`EveryRequestEnds` and `StaleBookingsExpire`: liveness under fairness is beyond the prover.

## 5. Not modelled

- SQLite, which the tests use: the models are of PostgreSQL, where the locks are.
- INSERT and COMMIT are one step, so the KEY SHARE lock that a new wait-list entry holds on
  its slot until it commits is not seen by others. It could only turn a NOWAIT into a 409.
- `created_at` ties of the wait list: tickets are distinct. A ticket is drawn when the join
  request reads the slot; PostgreSQL's `now()` is that of the first statement of the transaction,
  the token check just before. Nothing is lost: for another request for the slot to draw a
  ticket in between, the slot must be booked then, so this one might as well have read it just
  before.
- Loss of Redis data on a restart of Redis, and `reset()` of the limiter (tests only).
- The listings of users and of services, which have no filter and whose rows are never
  removed; the profile endpoint.
- The reminder task, which counts rows and sends nothing, and the text of the ICS file.
- Error shapes, metrics, logging, request ids (`main.py`, `core/`), which no handler reads;
  settings and schemas, which appear as CONSTANTS and input sets; migrations, whose
  constraints are guards.
- Removal of users (nothing in the service does it) and tokens that do not decode.

## 6. Plan

Done: booking core, wait list alone and under concurrency, expiration, ledger, rate limiter,
slot calendar, accounts, listings and availability; what is left of promotion in turn when requests
to wait overlap; a proof of every safety property that the
runs check.

Left: a weaker condition than `FreeingSerialised`, statement by statement instead of operation
by operation (`SoldWhileFree` is the part that needs none); `CreatedAnswersRequest` in the presence of reschedules, for clients and keys if
not for slots.
