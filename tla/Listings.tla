------------------------------- MODULE Listings -------------------------------
(***************************************************************************)
(* The read endpoints, beside everything that changes what they read: the  *)
(* listings of app/api/v1/bookings.py and app/api/v1/specialists.py, which *)
(* a reader fetches page by page while sessions go on booking, moving,     *)
(* expiring and deleting; the daily summary; a single booking and its      *)
(* calendar file.                                                          *)
(*                                                                         *)
(* Every page is a request of its own, one SELECT that sees what is        *)
(* committed when it runs.  The reader adds the limit to the offset until  *)
(* a page comes back short.  A row is its primary key; a wait-list entry   *)
(* is its ticket.                                                          *)
(***************************************************************************)
EXTENDS BookingLedger

CONSTANTS
  StartAt,  \* StartAt[s]: time_slots.start_at, in ticks, UTC
  Day,      \* ticks in a day
  Limit,    \* the limit the reader asks for
  Queries   \* what the reader may ask for

Kinds == {"mine", "specialist", "wait", "slots"}

\* 'user' is the caller or, for slots, the specialist asked about; 'status',
\* 'from' and 'to' are Nil if the parameter is left out; the date of a slot
\* listing is in 'from'.
Query ==
  [kind: Kinds, user: Users, status: Statuses \cup {Nil}, from: Nat \cup {Nil}, to: Nat \cup {Nil}]

\* Tables have finitely many rows, and NULL is neither a date nor a status.
ASSUME ListingsAssumption ==
  /\ StartAt \in [Slots -> Nat]
  /\ Day \in Nat \ {0} /\ Limit \in 1 .. 100
  /\ IsFiniteSet(Slots) /\ IsFiniteSet(BookingIds) /\ Nil \notin Nat \cup Statuses
  /\ Queries \subseteq Query

VARIABLE
  scan  \* the reader: its query, how far it is, what it has been shown

lvars == <<vars, scan>>

-------------------------------------------------------------------------------
(***************************************************************************)
(* What the queries select.                                                *)
(***************************************************************************)
\* Mutant: date_to is taken as the start of that day, not of the next.
InDatesToMidnight(s, q) ==
  /\ q.from # Nil => StartAt[s] >= q.from * Day
  /\ q.to # Nil => StartAt[s] <= q.to * Day

\* date_from and date_to, both inclusive, as half-open intervals of start_at.
InDates(s, q) ==
  /\ q.from # Nil => StartAt[s] >= q.from * Day
  /\ q.to # Nil => StartAt[s] < (q.to + 1) * Day

\* Bookings are joined with their slots and filtered.
Selected(b, q) ==
  /\ Exists(b) /\ bookings[b].slot \in live
  /\ q.status # Nil => bookings[b].status = q.status
  /\ InDates(bookings[b].slot, q)

MyBookings(q) == {b \in BookingIds : Selected(b, q) /\ bookings[b].client = q.user}

SpecialistBookings(q) == {b \in BookingIds : Selected(b, q) /\ Owner[bookings[b].slot] = q.user}

MyWaitList(q) == {waitList[s][q.user] : s \in Slots} \ {0}

\* One day, from midnight to midnight.
SpecialistSlots(q) ==
  {s \in live : /\ Owner[s] = q.user
                /\ q.from # Nil => StartAt[s] \in q.from * Day .. q.from * Day + Day - 1}

Rows(q) ==
  CASE q.kind = "mine" -> MyBookings(q)
    [] q.kind = "specialist" -> SpecialistBookings(q)
    [] q.kind = "wait" -> MyWaitList(q)
    [] q.kind = "slots" -> SpecialistSlots(q)

\* Mutant: bookings are listed in the order of their slots.
SortKeyByTime(q, x) ==
  CASE q.kind = "slots" -> StartAt[x]
    [] q.kind = "wait" -> x
    [] OTHER -> 100 * StartAt[bookings[x].slot] + x

\* ORDER BY: the id of a booking, created_at of an entry, start_at of a slot.
SortKey(q, x) == IF q.kind = "slots" THEN StartAt[x] ELSE x

\* What the first n rows may be.  The order of rows with equal keys is open, and
\* two queries may settle it differently: slots that start together, which the
\* race of create_slot_for_me allows (SlotCalendar), are ordered by nothing else.
FirstRows(q, n) ==
  {top \in SUBSET Rows(q) :
     /\ Cardinality(top) = Least(n, Cardinality(Rows(q)))
     /\ \A x \in top, y \in Rows(q) \ top : SortKey(q, x) <= SortKey(q, y)}

\* Mutant: the page is cut from the table before its rows are filtered.
PagesOfAll(q, offset) == {{x \in Rows(q) : x - 1 \in offset .. offset + Limit - 1}}

\* LIMIT and OFFSET: what the page may be.
Pages(q, offset) ==
  {page \in SUBSET Rows(q) :
     \E skipped \in FirstRows(q, offset) :
       skipped \cap page = {} /\ skipped \cup page \in FirstRows(q, offset + Limit)}

\* Who is answered: bookings of their slots are listed for specialists, and they
\* and the slots for users that have a profile.
MayAsk(q) ==
  /\ q.kind = "specialist" => Role[q.user] \in {"specialist", "admin"}
  /\ q.kind \in {"specialist", "slots"} => \E s \in Slots : Owner[s] = q.user

\* GET /bookings/{id}: the admin, the client, and the specialist of the slot.
MayOpen(u, b) == Exists(b) /\ bookings[b].slot \in live /\ Allowed(u, b, bookings[b].slot)

\* GET /bookings/{id}/calendar.ics also joins the client, and checks the same.
MayExport(u, b) == bookings[b].client \in Users /\ MayOpen(u, b)

(***************************************************************************)
(* GET /specialists/{id}/availability: the slots of a window of days,      *)
(* counted by the day they start on.                                       *)
(***************************************************************************)
AvailabilityWindow(u, from, days) ==
  {s \in live : Owner[s] = u /\ StartAt[s] >= from * Day /\ StartAt[s] < (from + days) * Day}

Availability(u, from, days) ==
  [d \in from .. from + days - 1 |->
     LET slots == {s \in AvailabilityWindow(u, from, days) : StartAt[s] \div Day = d} IN
     [total |-> Cardinality(slots), free |-> Cardinality(slots \ booked),
      booked |-> Cardinality(slots \cap booked)]]

-------------------------------------------------------------------------------
(***************************************************************************)
(* The reader.  'first', 'kept' and 'left' are history: the rows selected  *)
(* when the first page was read, those that were selected ever since, and  *)
(* how many times a row was lost to the selection (counted no further than *)
(* there were rows).                                                       *)
(***************************************************************************)
NoScan == [stage |-> "idle"]

LInit == Init /\ scan = NoScan

Fetched(sc, page) ==
  [sc EXCEPT !.offset = @ + Limit, !.listed = @ \cup page,
             !.stage = IF Cardinality(page) < Limit THEN "done" ELSE "paging"]

FirstPage ==
  /\ scan.stage = "idle"
  /\ \E q \in Queries :
       /\ MayAsk(q)
       /\ \E page \in Pages(q, 0) :
            scan' = Fetched([stage |-> "paging", query |-> q, offset |-> 0, listed |-> {},
                             first |-> Rows(q), kept |-> Rows(q), left |-> 0], page)
  /\ UNCHANGED vars

NextPage ==
  /\ scan.stage = "paging"
  /\ \E page \in Pages(scan.query, scan.offset) : scan' = Fetched(scan, page)
  /\ UNCHANGED vars

\* A step of a session or of the clock, as the reader will see it; slots start in
\* the order of their start_at.  Bound: a
\* behaviour is not followed beyond the reader's last page.
SystemStep ==
  /\ scan.stage # "done"
  /\ Next
  /\ \A s \in started' \ started, t \in live \ started : StartAt[s] <= StartAt[t]
  /\ \/ scan.stage = "idle" /\ UNCHANGED scan
     \/ /\ scan.stage = "paging"
        /\ \E q \in {scan.query} :  \* bound, so that the prime leaves it alone
             LET gone == Rows(q) \ Rows(q)' IN
             scan' = [scan EXCEPT !.kept = @ \ gone,
                                  !.left = Least(@ + Cardinality(gone), Cardinality(scan.first))]

LNext == SystemStep \/ FirstPage \/ NextPage

LSpec == LInit /\ [][LNext]_lvars

-------------------------------------------------------------------------------
Done == scan.stage = "done"
Unfiltered(q) == q.status = Nil /\ q.from = Nil /\ q.to = Nil

\* The bookings that were there when a client or a specialist began to page
\* through all of theirs are all shown, whatever is booked, moved, cancelled or
\* expired meanwhile: bookings are not removed, do not change client or
\* specialist, and keep their place in the order.
AllBookingsListed ==
  Done /\ scan.query.kind \in {"mine", "specialist"} /\ Unfiltered(scan.query) =>
    scan.first \subseteq scan.listed

\* Slot x has the start_at of another slot of its specialist, so that its place in
\* the slot listing is open.  Bookings and entries have keys of their own.
Tied(q, x) ==
  q.kind = "slots" /\ \E y \in Slots \ {x} : Owner[y] = Owner[x] /\ StartAt[y] = StartAt[x]

\* Of a listing whose rows come and go (by status, by date, wait-list entries,
\* slots), a row that was there all the time is passed over only if another one
\* left, at most one for each; save for slots that start together with others,
\* which may be passed over at any time and do not make others be.
MissedOnlyForLeft ==
  Done => Cardinality({x \in scan.kept \ scan.listed : ~Tied(scan.query, x)}) <= scan.left

\* A booking that a listing has shown can be opened and exported by the reader
\* from then on: GET /bookings/{id} and calendar.ics never answer 403 or 404 for
\* it, whatever was moved or deleted meanwhile.
ListedCanBeOpened ==
  scan.stage # "idle" /\ scan.query.kind \in {"mine", "specialist"} =>
    \A b \in scan.listed :
      MayOpen(scan.query.user, b) /\ MayExport(scan.query.user, b)

Days == {StartAt[s] \div Day : s \in Slots}
On(kind, u, status, d) == [kind |-> kind, user |-> u, status |-> status, from |-> d, to |-> d]

\* The endpoints agree on every day: the availability summary, whatever window it
\* is asked for, counts as many booked slots as the specialist's booking list has
\* confirmed bookings on that day, and as many slots as the slot listing shows.
\* The summary goes by is_booked and the start of the slot, the lists by status
\* and by a filter on start_at.
DaysAgree ==
  \A u \in {Owner[s] : s \in Slots}, d \in Days :
    LET confirmed == Cardinality(SpecialistBookings(On("specialist", u, "confirmed", d)))
        shown == Cardinality(SpecialistSlots(On("slots", u, Nil, d))) IN
    \A days \in {1, 2} : \A from \in d - days + 1 .. d : from \in Nat =>
      LET day == Availability(u, from, days)[d] IN
      day.booked = confirmed /\ day.total = shown
===============================================================================
