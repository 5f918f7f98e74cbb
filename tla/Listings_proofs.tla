---------------------------- MODULE Listings_proofs ----------------------------
(***************************************************************************)
(* The read endpoints, for any tables, queries, page size and any          *)
(* interleaving of the reader with the sessions.                           *)
(***************************************************************************)
EXTENDS Listings, BookingRequests_proofs, FiniteSetTheorems

-------------------------------------------------------------------------------
(***************************************************************************)
(* Ranks in a finite set by the keys of its elements: what ORDER BY, LIMIT *)
(* and OFFSET go by, as far as keys are distinct.                          *)
(***************************************************************************)
Below(k, R, x) == {y \in R : k[y] < k[x]}

RankIn(k, R, x) == Cardinality(Below(k, R, x))

\* k is a sort key of the rows R.
KeyOf(k, R) == \A x \in R : k[x] \in Nat

\* No other row has the key of x: its place is certain.
Lone(k, R, x) == \A y \in R : k[y] = k[x] => y = x

LEMMA RankBelow ==
  ASSUME NEW R, IsFiniteSet(R), NEW k, KeyOf(k, R), NEW x \in R
  PROVE  /\ IsFiniteSet(Below(k, R, x)) /\ RankIn(k, R, x) \in Nat
         /\ Cardinality(R) \in Nat /\ RankIn(k, R, x) < Cardinality(R)
<1>1. Below(k, R, x) \in SUBSET R /\ x \notin Below(k, R, x)
  BY DEF Below, KeyOf
<1>2. /\ IsFiniteSet(Below(k, R, x)) /\ RankIn(k, R, x) <= Cardinality(R)
      /\ Cardinality(R) = RankIn(k, R, x) => R = Below(k, R, x)
  BY <1>1, FS_Subset DEF RankIn
<1>3. RankIn(k, R, x) \in Nat /\ Cardinality(R) \in Nat
  BY <1>2, FS_CardinalityType DEF RankIn
<1> QED BY <1>1, <1>2, <1>3

\* No other row has the rank of a row whose key is its own.
LEMMA RankDistinct ==
  ASSUME NEW R, IsFiniteSet(R), NEW k, KeyOf(k, R), NEW x \in R, NEW y \in R, Lone(k, R, x),
         RankIn(k, R, x) = RankIn(k, R, y)
  PROVE  x = y
<1>1. ASSUME NEW u \in R, NEW v \in R, k[u] < k[v] PROVE RankIn(k, R, u) # RankIn(k, R, v)
  <2>1. Below(k, R, u) \in SUBSET Below(k, R, v)
    BY <1>1 DEF Below, KeyOf
  <2>2. u \in Below(k, R, v) /\ u \notin Below(k, R, u)
    BY <1>1 DEF Below, KeyOf
  <2>3. IsFiniteSet(Below(k, R, v)) BY RankBelow
  <2>4. Cardinality(Below(k, R, v)) = Cardinality(Below(k, R, u)) => Below(k, R, v) = Below(k, R, u)
    BY <2>1, <2>3, FS_Subset
  <2> QED BY <2>2, <2>4 DEF RankIn
<1>2. k[x] \in Nat /\ k[y] \in Nat BY DEF KeyOf
<1>3. k[x] = k[y] BY <1>1, <1>2
<1> QED BY <1>3 DEF Lone

\* top may be the first n rows of R.
Leads(k, R, n, top) ==
  /\ top \in SUBSET R /\ Cardinality(top) = Least(n, Cardinality(R))
  /\ \A x \in top, y \in R \ top : k[x] <= k[y]

\* However ties are settled, the first n rows have ranks below n, and include every
\* row of such a rank whose key is its own.
LEMMA TopByRank ==
  ASSUME NEW R, IsFiniteSet(R), NEW k, KeyOf(k, R), NEW n \in Nat, NEW top, Leads(k, R, n, top),
         NEW x \in R
  PROVE  /\ x \in top => RankIn(k, R, x) < n
         /\ Lone(k, R, x) /\ RankIn(k, R, x) < n => x \in top
<1>a. /\ RankIn(k, R, x) \in Nat /\ Cardinality(R) \in Nat /\ RankIn(k, R, x) < Cardinality(R)
      /\ IsFiniteSet(Below(k, R, x))
  BY RankBelow
<1>b. IsFiniteSet(top) /\ Cardinality(top) \in Nat /\ Cardinality(top) = Least(n, Cardinality(R))
  BY FS_Subset, FS_CardinalityType DEF Leads
<1>1. ASSUME x \in top PROVE RankIn(k, R, x) < n
  <2>1. Below(k, R, x) \in SUBSET top
    BY <1>1 DEF Below, Leads, KeyOf
  <2>2. x \notin Below(k, R, x) BY DEF Below, KeyOf
  <2>3. RankIn(k, R, x) <= Cardinality(top) /\ RankIn(k, R, x) # Cardinality(top)
    BY <1>1, <1>b, <2>1, <2>2, FS_Subset DEF RankIn
  <2> QED BY <1>a, <1>b, <2>3 DEF Least
<1>2. ASSUME Lone(k, R, x), RankIn(k, R, x) < n, x \notin top PROVE FALSE
  <2>1. top \in SUBSET Below(k, R, x)
    BY <1>2 DEF Below, Leads, KeyOf, Lone
  <2>2. Cardinality(top) <= RankIn(k, R, x)
    BY <1>a, <2>1, FS_Subset DEF RankIn
  <2> QED BY <1>a, <1>b, <1>2, <2>2 DEF Least
<1> QED BY <1>1, <1>2

\* A page that is not full is the last one.
LEMMA ShortPageIsLast ==
  ASSUME NEW R, IsFiniteSet(R), NEW k, KeyOf(k, R), NEW offset \in Nat, NEW n \in Nat,
         NEW skipped, NEW page, Leads(k, R, offset, skipped), Leads(k, R, offset + n, skipped \cup page),
         skipped \cap page = {}, Cardinality(page) < n,
         NEW z \in R
  PROVE  RankIn(k, R, z) < offset + n
<1>1. IsFiniteSet(skipped) /\ IsFiniteSet(page)
  <2>1. skipped \in SUBSET R /\ page \in SUBSET R BY DEF Leads
  <2> QED BY <2>1, FS_Subset
<1>2. Cardinality(skipped) \in Nat /\ Cardinality(page) \in Nat /\ Cardinality(R) \in Nat
  BY <1>1, FS_CardinalityType
<1>3. Cardinality(skipped \cup page) = Cardinality(skipped) + Cardinality(page)
  <2>1. Cardinality(skipped \cup page) =
          Cardinality(skipped) + Cardinality(page) - Cardinality(skipped \cap page)
    BY <1>1, FS_Union
  <2>2. Cardinality(skipped \cap page) = 0 BY FS_EmptySet
  <2> QED BY <1>2, <2>1, <2>2
<1>4. Cardinality(skipped) <= offset
  BY <1>2 DEF Leads, Least
<1>5. Cardinality(R) < offset + n
  BY <1>2, <1>3, <1>4 DEF Leads, Least
<1>6. RankIn(k, R, z) \in Nat /\ RankIn(k, R, z) < Cardinality(R) BY RankBelow
<1> QED BY <1>2, <1>5, <1>6

\* When rows leave, no row moves up by more than their number.
LEMMA RankFalls ==
  ASSUME NEW R, IsFiniteSet(R), NEW Q, IsFiniteSet(Q), NEW k, KeyOf(k, R), KeyOf(k, Q),
         NEW x \in R \cap Q
  PROVE  /\ RankIn(k, R, x) <= RankIn(k, Q, x) + Cardinality(R \ Q)
         /\ Cardinality(R \ Q) \in Nat
<1> DEFINE gone == R \ Q
<1>1. IsFiniteSet(gone) /\ Cardinality(gone) \in Nat
  BY FS_Difference, FS_CardinalityType
<1>2. /\ IsFiniteSet(Below(k, Q, x)) /\ RankIn(k, Q, x) \in Nat /\ RankIn(k, R, x) \in Nat
      /\ IsFiniteSet(Below(k, R, x))
  BY RankBelow
<1>3. Below(k, R, x) \in SUBSET (Below(k, Q, x) \cup gone)
  BY DEF Below
<1> HIDE DEF gone
<1>4. /\ IsFiniteSet(Below(k, Q, x) \cup gone)
      /\ Cardinality(Below(k, Q, x) \cup gone) =
           RankIn(k, Q, x) + Cardinality(gone) - Cardinality(Below(k, Q, x) \cap gone)
  BY <1>1, <1>2, FS_Union DEF RankIn
<1>5. Cardinality(Below(k, Q, x) \cap gone) \in Nat
  <2>1. Below(k, Q, x) \cap gone \in SUBSET gone OBVIOUS
  <2>2. IsFiniteSet(Below(k, Q, x) \cap gone) BY <1>1, <2>1, FS_Subset
  <2> QED BY <2>2, FS_CardinalityType
<1>6. RankIn(k, R, x) <= Cardinality(Below(k, Q, x) \cup gone)
  BY <1>3, <1>4, FS_Subset DEF RankIn
<1>7. RankIn(k, R, x) <= RankIn(k, Q, x) + Cardinality(gone)
  BY <1>1, <1>2, <1>4, <1>5, <1>6
<1> QED BY <1>1, <1>7 DEF gone

\* When rows leave, no more of the others slip from one side of an offset to the
\* other than have left.
LEMMA FewSlip ==
  ASSUME NEW R, IsFiniteSet(R), NEW Q, IsFiniteSet(Q), NEW k, KeyOf(k, R), KeyOf(k, Q),
         NEW offset \in Nat,
         NEW K, K \subseteq R \cap Q, \A x \in K : Lone(k, R, x),
         \A x \in K : RankIn(k, R, x) >= offset /\ RankIn(k, Q, x) < offset
  PROVE  IsFiniteSet(K) /\ Cardinality(K) <= Cardinality(R \ Q)
<1>1. PICK g : g = Cardinality(R \ Q) OBVIOUS
<1>2. g \in Nat BY <1>1, FS_Difference, FS_CardinalityType
<1> DEFINE span == offset .. offset + g - 1
<1>3. IsFiniteSet(span) /\ Cardinality(span) = g
  BY <1>2, FS_Interval
<1> DEFINE f == [x \in K |-> RankIn(k, R, x)]
<1>4. \A x \in K : RankIn(k, R, x) \in span
  <2> SUFFICES ASSUME NEW x \in K PROVE RankIn(k, R, x) \in span OBVIOUS
  <2>1. RankIn(k, R, x) <= RankIn(k, Q, x) + g BY <1>1, RankFalls
  <2>2. RankIn(k, R, x) \in Nat /\ RankIn(k, Q, x) \in Nat BY RankBelow
  <2> QED BY <1>2, <2>1, <2>2
<1>5. f \in Injection(K, span)
  BY <1>4, RankDistinct DEF Injection, IsInjective
<1> HIDE DEF span, f
<1>6. IsFiniteSet(K) /\ Cardinality(K) <= Cardinality(span)
  BY <1>3, <1>5, FS_Injection
<1> QED BY <1>1, <1>3, <1>6

-------------------------------------------------------------------------------
(***************************************************************************)
(* The system beneath the reader.                                          *)
(***************************************************************************)
\* The reader changes nothing: what holds of the system holds of it beside a reader.
LEMMA Underneath == LSpec => Spec
<1>1. LInit => Init BY DEF LInit
<1>2. [LNext]_lvars => [Next]_vars
  BY DEF LNext, lvars, SystemStep, FirstPage, NextPage
<1> QED BY <1>1, <1>2, PTL DEF LSpec, Spec

\* Bookings are made for users.
ClientAt(r) ==
  pc[r] \in {"lookup", "lock_slot", "update_slot", "insert"} => loc[r].client \in Users

ClientsOK ==
  /\ \A r \in Sessions : ClientAt(r)
  /\ \A b \in BookingIds : Exists(b) => bookings[b].client \in Users

LEMMA ClientStep ==
  ASSUME StoreInv, ClientsOK, NEW r \in Sessions, Act(r)
  PROVE  ClientsOK'
<1>a. SessionsOK /\ ClientAt(r) /\ bookings \in [BookingIds -> Row]
  BY DEF StoreInv, TypeOK, TablesOK, ClientsOK
<1>1. ASSUME NEW q \in Sessions, q # r PROVE ClientAt(q)'
  BY <1>1, Frame DEF ClientsOK, ClientAt
<1>2. ClientAt(r)'
  <2> SUFFICES ASSUME pc'[r] \in {"lookup", "lock_slot", "update_slot", "insert"}
               PROVE  loc'[r].client \in Users
    BY DEF ClientAt
  <2>1. CASE CreateBegin(r)
    BY <1>a, <2>1 DEF CreateBegin, Begin, SessionsOK, Goto, Local, NoLocals
  <2>2. CASE PromoteRead(r)
    <3>1. ~PromoteReturn(r)
      BY <1>a, GotoAt, ReplyAt DEF PromoteReturn
    <3>2. PICK c \in Users :
            Local(r, [loc[r] EXCEPT !.client = c, !.entry = waitList[loc[r].slot][c]])
      BY <2>2, <3>1 DEF PromoteRead
    <3>3. loc'[r] = [loc[r] EXCEPT !.client = c, !.entry = waitList[loc[r].slot][c]]
      BY <1>a, <3>2, LocalAt
    <3> QED BY <1>a, <3>3 DEF SessionsOK, Locals
  <2>3. CASE CreateLookup(r) \/ CreateLockSlot(r) \/ CreateUpdateSlot(r)
    <3>1. pc[r] \in {"lookup", "lock_slot", "update_slot"}
      BY <2>3 DEF CreateLookup, CreateLockSlot, CreateUpdateSlot
    <3>2. Step(r) /\ ~Close(r) /\ ~PromoteRead(r)
      BY <2>3, <3>1 DEF Step, Close, PromoteRead
    <3>3. loc'[r].client = loc[r].client BY <3>2, Carried DEF SameEntry
    <3> QED BY <1>a, <3>1, <3>3 DEF ClientAt
  <2> QED BY <2>1, <2>2, <2>3, ReachedBy, CameFrom
<1>3. ASSUME NEW b \in BookingIds, Exists(b)' PROVE bookings'[b].client \in Users
  <2>1. CASE Exists(b) BY <2>1, RowKept DEF ClientsOK
  <2>2. CASE ~Exists(b)
    <3>1. CASE CreateInsert(r)
      <4>1. loc[r].client \in Users BY <1>a, <3>1 DEF ClientAt, CreateInsert
      <4> QED BY <1>a, <1>3, <2>2, <3>1, <4>1 DEF CreateInsert, Exists, Row
    <3>2. CASE CancelCommit(r)
      BY <1>a, <1>3, <2>2, <3>2 DEF CancelCommit, Exists, Row, StoreInv, ArgsOK, ArgsAt, RescheduleAt
    <3>3. CASE RescheduleCommit(r)
      BY <1>a, <1>3, <2>2, <3>3 DEF RescheduleCommit, MovedRow, Exists, Row, StoreInv, ArgsOK, ArgsAt, RescheduleAt
    <3>4. CASE DeleteFlush(r)
      BY <1>3, <2>2, <3>4 DEF DeleteFlush, tables, Exists
    <3>5. CASE ExpireCommit(r)
      BY <1>a, <1>3, <2>2, <3>5 DEF ExpireCommit, ExpiredRows, Exists, Row, StoreInv, ArgsOK, ArgsAt
    <3>6. CASE ~Writes(r)
      BY <1>3, <2>2, <3>6, ReadOnly DEF Exists
    <3> QED BY <3>1, <3>2, <3>3, <3>4, <3>5, <3>6 DEF Writes
  <2> QED BY <2>1, <2>2
<1> QED BY <1>1, <1>2, <1>3 DEF ClientsOK

LEMMA ClientsInvariant == Spec => []ClientsOK
<1>1. Init => ClientsOK
  BY DEF Init, ClientsOK, ClientAt, Exists, NoRow
<1>2. StoreInv /\ ClientsOK /\ [Next]_vars => ClientsOK'
  <2> SUFFICES ASSUME StoreInv, ClientsOK, [Next]_vars PROVE ClientsOK' OBVIOUS
  <2>1. ASSUME NEW r \in Sessions, Act(r) PROVE ClientsOK' BY <2>1, ClientStep
  <2>2. CASE UNCHANGED <<bookings, pc, loc>> BY <2>2 DEF ClientsOK, ClientAt, Exists
  <2>3. ASSUME NEW s \in Slots, Start(s) PROVE ClientsOK' BY <2>2, <2>3 DEF Start, tables
  <2>4. CASE UNCHANGED vars BY <2>2, <2>4 DEF vars
  <2> QED BY <2>1, <2>3, <2>4 DEF Next
<1> QED BY <1>1, <1>2, StoreInvariant, PTL DEF Spec

\* What the listings rest on: a booking stays, with its client and its specialist, and
\* its slot is there.
SystemOK == StoreInv /\ OwnersOK /\ ClientsOK

LEMMA SystemInvariant == LSpec => []SystemOK
  BY Underneath, StoreInvariant, OwnersInvariant, ClientsInvariant, PTL DEF SystemOK

LEMMA BookingStays ==
  ASSUME SystemOK, [Next]_vars, NEW b \in BookingIds, Exists(b)
  PROVE  /\ Exists(b)'
         /\ bookings'[b].client = bookings[b].client
         /\ Owner[bookings'[b].slot] = Owner[bookings[b].slot]
<1>1. ASSUME NEW r \in Sessions, Act(r)
      PROVE  /\ Exists(b)'
             /\ bookings'[b].client = bookings[b].client
             /\ Owner[bookings'[b].slot] = Owner[bookings[b].slot]
  BY <1>1, RowKept, OwnerKept DEF SystemOK
<1>2. CASE UNCHANGED bookings BY <1>2 DEF Exists
<1>3. ASSUME NEW s \in Slots, Start(s) PROVE UNCHANGED bookings BY <1>3 DEF Start, tables
<1>4. CASE UNCHANGED vars BY <1>2, <1>4 DEF vars
<1> QED BY <1>1, <1>2, <1>3, <1>4 DEF Next

-------------------------------------------------------------------------------
(***************************************************************************)
(* The reader's own state.                                                 *)
(***************************************************************************)
Scan ==
  [stage: {"paging", "done"}, query: Queries, offset: Nat, listed: SUBSET Nat,
   first: SUBSET Nat, kept: SUBSET Nat, left: Nat]

ScanOK == scan = NoScan \/ scan \in Scan

LEMMA ReaderConstants ==
  /\ Limit \in Nat /\ Limit > 0 /\ Day \in Nat /\ Day > 0
  /\ StartAt \in [Slots -> Nat] /\ Slots \subseteq Nat /\ BookingIds \subseteq Nat
  /\ IsFiniteSet(Slots) /\ IsFiniteSet(BookingIds)
  /\ Queries \subseteq Query
  /\ Nil \notin Nat /\ Nil \notin Statuses
  BY ListingsAssumption, StoreAssumption DEF ListingsAssumption, StoreAssumption

LEMMA NoScanStage == NoScan.stage = "idle" /\ \A s \in Scan : s.stage # "idle"
  BY DEF NoScan, Scan

\* The rows of every query are numbers.
LEMMA RowsAreNumbers ==
  ASSUME StoreInv, NEW q \in Query
  PROVE  Rows(q) \subseteq Nat
<1>a. /\ live \subseteq Slots /\ waitList \in [Slots -> [Users -> Nat]] /\ q.user \in Users
      /\ q.kind \in Kinds
  BY DEF StoreInv, TypeOK, TablesOK, Query
<1>1. MyBookings(q) \subseteq Nat /\ SpecialistBookings(q) \subseteq Nat
  BY ReaderConstants DEF MyBookings, SpecialistBookings
<1>2. SpecialistSlots(q) \subseteq Nat BY <1>a, ReaderConstants DEF SpecialistSlots
<1>3. MyWaitList(q) \subseteq Nat BY <1>a DEF MyWaitList
<1> QED BY <1>a, <1>1, <1>2, <1>3 DEF Rows, Kinds

\* A page is fetched: where the reader then stands.
LEMMA FetchedScan ==
  ASSUME NEW sc \in Scan, NEW page \in SUBSET Nat
  PROVE  /\ Fetched(sc, page) \in Scan
         /\ Fetched(sc, page).query = sc.query /\ Fetched(sc, page).offset = sc.offset + Limit
         /\ Fetched(sc, page).listed = sc.listed \cup page
         /\ Fetched(sc, page).first = sc.first /\ Fetched(sc, page).kept = sc.kept
         /\ Fetched(sc, page).left = sc.left
         /\ Fetched(sc, page).stage = "done" => Cardinality(page) < Limit
<1>1. PICK stage \in {"paging", "done"} :
        /\ stage = IF Cardinality(page) < Limit THEN "done" ELSE "paging"
        /\ stage = "done" => Cardinality(page) < Limit
  OBVIOUS
<1>2. PICK offset \in Nat : offset = sc.offset + Limit
  BY ReaderConstants DEF Scan
<1>3. Fetched(sc, page) =
        [sc EXCEPT !.offset = offset, !.listed = sc.listed \cup page, !.stage = stage]
  BY <1>1, <1>2 DEF Fetched
<1>4. sc.listed \cup page \in SUBSET Nat BY DEF Scan
<1> QED BY <1>1, <1>2, <1>3, <1>4 DEF Scan

\* What a reader begins with.
Begun(q) ==
  [stage |-> "paging", query |-> q, offset |-> 0, listed |-> {}, first |-> Rows(q),
   kept |-> Rows(q), left |-> 0]

LEMMA BegunScan == ASSUME StoreInv, NEW q \in Queries PROVE Begun(q) \in Scan
<1>1. Rows(q) \in SUBSET Nat BY RowsAreNumbers, ReaderConstants
<1> QED BY <1>1 DEF Begun, Scan

-------------------------------------------------------------------------------
(***************************************************************************)
(* The rows of a query, and a page of them.                                *)
(***************************************************************************)
KeyFn(q) == [x \in Nat |-> SortKey(q, x)]

\* The rows of every query are finitely many, and the ORDER BY tells them apart,
\* save for slots that start together.
RowsOK ==
  \A q \in Query :
    /\ Rows(q) \subseteq Nat /\ IsFiniteSet(Rows(q)) /\ KeyOf(KeyFn(q), Rows(q))
    /\ \A x \in Rows(q) : ~Tied(q, x) => Lone(KeyFn(q), Rows(q), x)

LEMMA RowsRanked == StoreInv => RowsOK
<1> SUFFICES ASSUME StoreInv, NEW q \in Query
             PROVE  /\ Rows(q) \subseteq Nat /\ IsFiniteSet(Rows(q)) /\ KeyOf(KeyFn(q), Rows(q))
                    /\ \A x \in Rows(q) : ~Tied(q, x) => Lone(KeyFn(q), Rows(q), x)
  BY DEF RowsOK
<1>a. /\ live \subseteq Slots /\ waitList \in [Slots -> [Users -> Nat]] /\ q.user \in Users
      /\ q.kind \in Kinds
  BY DEF StoreInv, TypeOK, TablesOK, Query
<1>b. Rows(q) \subseteq Nat BY RowsAreNumbers
<1>1. CASE q.kind \in {"mine", "specialist"}
  <2>1. Rows(q) \in SUBSET BookingIds BY <1>1 DEF Rows, MyBookings, SpecialistBookings
  <2>2. IsFiniteSet(Rows(q)) BY <2>1, ReaderConstants, FS_Subset
  <2>3. \A x \in Rows(q) : KeyFn(q)[x] = x BY <1>b, <1>1 DEF KeyFn, SortKey
  <2> QED BY <1>b, <2>2, <2>3 DEF KeyOf, Lone
<1>2. CASE q.kind = "wait"
  <2>1. Rows(q) = MyWaitList(q) BY <1>2 DEF Rows
  <2> DEFINE entries == {waitList[s][q.user] : s \in Slots}
  <2> DEFINE f == [s \in Slots |-> waitList[s][q.user]]
  <2>2. f \in Surjection(Slots, entries) BY DEF Surjection
  <2>3. IsFiniteSet(entries)
    <3> HIDE DEF f, entries
    <3> QED BY <2>2, ReaderConstants, FS_Surjection
  <2>4. Rows(q) \in SUBSET entries BY <2>1 DEF MyWaitList
  <2>5. IsFiniteSet(Rows(q))
    <3> HIDE DEF entries
    <3> QED BY <2>3, <2>4, FS_Subset
  <2>6. \A x \in Rows(q) : KeyFn(q)[x] = x BY <1>b, <1>2 DEF KeyFn, SortKey
  <2> QED BY <1>b, <2>5, <2>6 DEF KeyOf, Lone
<1>3. CASE q.kind = "slots"
  <2>1. Rows(q) \in SUBSET Slots /\ \A s \in Rows(q) : Owner[s] = q.user
    BY <1>a, <1>3 DEF Rows, SpecialistSlots
  <2>2. IsFiniteSet(Rows(q)) BY <2>1, ReaderConstants, FS_Subset
  <2>3. \A x \in Rows(q) : KeyFn(q)[x] = StartAt[x] BY <1>b, <1>3 DEF KeyFn, SortKey
  <2>4. KeyOf(KeyFn(q), Rows(q)) BY <2>1, <2>3, ReaderConstants DEF KeyOf
  <2>5. \A x \in Rows(q) : ~Tied(q, x) => Lone(KeyFn(q), Rows(q), x)
    BY <1>3, <2>1, <2>3 DEF Tied, Lone
  <2> QED BY <1>b, <2>2, <2>4, <2>5
<1> QED BY <1>a, <1>1, <1>2, <1>3 DEF Kinds

\* A page follows what was skipped, and both lead the rows.
LEMMA PageLeads ==
  ASSUME StoreInv, NEW q \in Query, NEW offset \in Nat, NEW page \in Pages(q, offset)
  PROVE  /\ page \subseteq Rows(q)
         /\ \E skipped : /\ skipped \cap page = {}
                         /\ Leads(KeyFn(q), Rows(q), offset, skipped)
                         /\ Leads(KeyFn(q), Rows(q), offset + Limit, skipped \cup page)
<1>1. \A x \in Rows(q) : x \in Nat /\ KeyFn(q)[x] = SortKey(q, x)
  BY RowsRanked DEF RowsOK, KeyFn
<1>2. ASSUME NEW n, NEW top \in FirstRows(q, n) PROVE Leads(KeyFn(q), Rows(q), n, top)
  <2>1. /\ top \in SUBSET Rows(q) /\ Cardinality(top) = Least(n, Cardinality(Rows(q)))
        /\ \A x \in top, y \in Rows(q) \ top : SortKey(q, x) <= SortKey(q, y)
    BY <1>2 DEF FirstRows
  <2> QED BY <1>1, <2>1 DEF Leads
<1> QED BY <1>2 DEF Pages

\* What a step does to the reader.
LEMMA ReaderStep ==
  ASSUME StoreInv, ScanOK, LNext
  PROVE  \/ scan = NoScan /\ scan' = NoScan
         \/ /\ UNCHANGED vars
            /\ \E q \in Queries : \E page \in Pages(q, 0) : scan' = Fetched(Begun(q), page)
         \/ /\ UNCHANGED vars /\ scan \in Scan
            /\ \E page \in Pages(scan.query, scan.offset) : scan' = Fetched(scan, page)
         \/ /\ Next /\ scan \in Scan /\ scan.stage = "paging"
            /\ \E q \in Queries :
                 /\ q = scan.query
                 /\ scan' = [scan EXCEPT !.kept = @ \ (Rows(q) \ Rows(q)'),
                                         !.left = Least(@ + Cardinality(Rows(q) \ Rows(q)'),
                                                        Cardinality(scan.first))]
<1>1. CASE SystemStep
  <2>1. CASE scan.stage = "idle" /\ UNCHANGED scan BY <2>1, NoScanStage DEF ScanOK
  <2>2. CASE scan.stage = "paging"
    <3>1. scan \in Scan BY <2>2 DEF ScanOK, NoScan
    <3>2. scan.query \in Queries BY <3>1 DEF Scan
    <3> QED BY <1>1, <2>2, <3>1, <3>2 DEF SystemStep
  <2> QED BY <1>1, <2>1, <2>2 DEF SystemStep
<1>2. CASE FirstPage
  BY <1>2 DEF FirstPage, Begun
<1>3. CASE NextPage
  BY <1>3, NoScanStage DEF NextPage, ScanOK
<1> QED BY <1>1, <1>2, <1>3 DEF LNext

-------------------------------------------------------------------------------
(***************************************************************************)
(* What the reader has missed.                                             *)
(***************************************************************************)
Rank(q, x) == RankIn(KeyFn(q), Rows(q), x)

\* The rows that were there all the time, have a certain place, and that no later
\* page will show.
PassedOver(sc) ==
  {x \in sc.kept \ sc.listed : ~Tied(sc.query, x) /\ Rank(sc.query, x) < sc.offset}

\* They are no more than the rows that left; the last page leaves nothing behind it.
PagesOK(sc) ==
  /\ sc.kept \subseteq sc.first /\ sc.kept \subseteq Rows(sc.query) /\ IsFiniteSet(sc.first)
  /\ Cardinality(PassedOver(sc)) <= sc.left
  /\ sc.stage = "done" => \A x \in sc.kept : Rank(sc.query, x) < sc.offset

\* Of all bookings of a client or a specialist, none leaves.
NoneLeft(sc) ==
  sc.query.kind \in {"mine", "specialist"} /\ Unfiltered(sc.query) =>
    sc.left = 0 /\ sc.kept = sc.first

\* A booking that was shown is there, and the reader's.
ShownOK(sc) ==
  sc.query.kind \in {"mine", "specialist"} =>
    \A b \in sc.listed :
      /\ b \in BookingIds /\ Exists(b)
      /\ bookings[b].client = sc.query.user \/ Owner[bookings[b].slot] = sc.query.user

ReaderOK ==
  /\ ScanOK
  /\ scan # NoScan => PagesOK(scan) /\ NoneLeft(scan) /\ ShownOK(scan)

LEMMA BegunOK ==
  ASSUME StoreInv, NEW q \in Queries
  PROVE  PagesOK(Begun(q)) /\ NoneLeft(Begun(q)) /\ ShownOK(Begun(q))
<1>1. IsFiniteSet(Rows(q)) /\ KeyOf(KeyFn(q), Rows(q))
  BY RowsRanked, ReaderConstants DEF RowsOK
<1>2. \A x \in Rows(q) : ~(Rank(q, x) < 0)
  <2> SUFFICES ASSUME NEW x \in Rows(q) PROVE Rank(q, x) \in Nat OBVIOUS
  <2> QED BY <1>1, RankBelow DEF Rank
<1>3. /\ Begun(q).kept = Rows(q) /\ Begun(q).first = Rows(q) /\ Begun(q).query = q
      /\ Begun(q).left = 0 /\ Begun(q).listed = {} /\ Begun(q).stage = "paging"
      /\ Begun(q).offset = 0
  BY DEF Begun
<1>4. PassedOver(Begun(q)) = {} BY <1>2, <1>3 DEF PassedOver
<1>5. PagesOK(Begun(q)) BY <1>1, <1>3, <1>4, FS_EmptySet DEF PagesOK
<1> QED BY <1>3, <1>5 DEF NoneLeft, ShownOK

\* A page shows what it passes.
LEMMA FetchOK ==
  ASSUME StoreInv, NEW sc \in Scan, PagesOK(sc), NoneLeft(sc), ShownOK(sc), NEW sc2,
         NEW page \in Pages(sc.query, sc.offset), sc2 = Fetched(sc, page)
  PROVE  sc2 \in Scan /\ PagesOK(sc2) /\ NoneLeft(sc2) /\ ShownOK(sc2)
<1>a. PICK q \in Query : q = sc.query BY ReaderConstants DEF Scan
<1>b. sc.offset \in Nat BY DEF Scan
<1>c. /\ page \subseteq Rows(q) /\ page \in SUBSET Nat
      /\ \E skipped : /\ skipped \cap page = {}
                      /\ Leads(KeyFn(q), Rows(q), sc.offset, skipped)
                      /\ Leads(KeyFn(q), Rows(q), sc.offset + Limit, skipped \cup page)
  BY <1>a, <1>b, PageLeads, RowsRanked DEF RowsOK
<1>d. /\ sc2 \in Scan
      /\ sc2.query = q /\ sc2.offset = sc.offset + Limit
      /\ sc2.listed = sc.listed \cup page
      /\ sc2.first = sc.first /\ sc2.kept = sc.kept /\ sc2.left = sc.left
      /\ sc2.stage = "done" => Cardinality(page) < Limit
  BY <1>a, <1>c, FetchedScan
<1>e. /\ IsFiniteSet(Rows(q)) /\ KeyOf(KeyFn(q), Rows(q)) /\ sc.kept \subseteq Rows(q)
      /\ \A x \in Rows(q) : ~Tied(q, x) => Lone(KeyFn(q), Rows(q), x)
  BY <1>a, RowsRanked DEF RowsOK, PagesOK
<1>f. PICK skipped : /\ skipped \cap page = {}
                     /\ Leads(KeyFn(q), Rows(q), sc.offset, skipped)
                     /\ Leads(KeyFn(q), Rows(q), sc.offset + Limit, skipped \cup page)
  BY <1>c
<1>g. PICK offset \in Nat, upto \in Nat : offset = sc.offset /\ upto = sc.offset + Limit
  BY <1>b, ReaderConstants
<1>1. PassedOver(sc2) \subseteq PassedOver(sc)
  <2> SUFFICES ASSUME NEW x \in PassedOver(sc2) PROVE x \in PassedOver(sc) OBVIOUS
  <2>1. /\ x \in sc.kept /\ x \notin sc.listed /\ x \notin page /\ x \in Rows(q)
        /\ Rank(q, x) < sc.offset + Limit /\ ~Tied(q, x)
    BY <1>d, <1>e DEF PassedOver
  <2>2. x \in skipped \cup page
    BY <1>e, <1>f, <1>g, <2>1, TopByRank DEF Rank
  <2>3. Rank(q, x) < sc.offset
    BY <1>e, <1>f, <1>g, <2>1, <2>2, TopByRank DEF Rank
  <2> QED BY <1>a, <2>1, <2>3 DEF PassedOver
<1>2. Cardinality(PassedOver(sc2)) <= sc2.left
  <2>1. IsFiniteSet(PassedOver(sc))
    <3>1. PassedOver(sc) \in SUBSET sc.first BY DEF PassedOver, PagesOK
    <3> QED BY <3>1, FS_Subset DEF PagesOK
  <2>2. IsFiniteSet(PassedOver(sc2)) /\ Cardinality(PassedOver(sc2)) <= Cardinality(PassedOver(sc))
    BY <1>1, <2>1, FS_Subset
  <2>3. Cardinality(PassedOver(sc2)) \in Nat /\ Cardinality(PassedOver(sc)) \in Nat
    BY <2>1, <2>2, FS_CardinalityType
  <2>4. Cardinality(PassedOver(sc)) <= sc.left /\ sc.left \in Nat BY DEF PagesOK, Scan
  <2> QED BY <1>d, <2>2, <2>3, <2>4
<1>3. ASSUME sc2.stage = "done", NEW x \in sc2.kept PROVE Rank(q, x) < sc2.offset
  <2>1. Cardinality(page) < Limit BY <1>d, <1>3
  <2>2. x \in Rows(q) BY <1>d, <1>e
  <2>3. RankIn(KeyFn(q), Rows(q), x) < sc.offset + Limit
    BY <1>b, <1>e, <1>f, <2>1, <2>2, ReaderConstants, ShortPageIsLast
  <2> QED BY <1>d, <2>3 DEF Rank
<1>4. PagesOK(sc2)
  <2>1. sc2.kept \subseteq sc2.first /\ IsFiniteSet(sc2.first) BY <1>d DEF PagesOK
  <2> QED BY <1>2, <1>3, <1>d, <1>e, <2>1 DEF PagesOK
<1>5. NoneLeft(sc2) BY <1>a, <1>d DEF NoneLeft
<1>6. ShownOK(sc2)
  <2> SUFFICES ASSUME q.kind \in {"mine", "specialist"}, NEW b \in page
               PROVE  /\ b \in BookingIds /\ Exists(b)
                      /\ bookings[b].client = q.user \/ Owner[bookings[b].slot] = q.user
    BY <1>a, <1>d DEF ShownOK
  <2>1. b \in Rows(q) BY <1>c
  <2> QED BY <2>1 DEF Rows, MyBookings, SpecialistBookings, Selected
<1> QED BY <1>d, <1>4, <1>5, <1>6

\* A step of the system makes the reader pass over no more rows than it takes away.
LEMMA PassedGrows ==
  ASSUME NEW R, IsFiniteSet(R), NEW Q, IsFiniteSet(Q), NEW k, KeyOf(k, R), KeyOf(k, Q),
         NEW offset \in Nat, NEW left \in Nat, NEW first, IsFiniteSet(first),
         NEW kept, kept \subseteq R, kept \subseteq first, \A x \in kept : Lone(k, R, x), NEW listed,
         Cardinality({x \in kept \ listed : RankIn(k, R, x) < offset}) <= left
  PROVE  Cardinality({x \in (kept \ (R \ Q)) \ listed : RankIn(k, Q, x) < offset})
           <= Least(left + Cardinality(R \ Q), Cardinality(first))
<1>1. PICK before : before = {x \in kept \ listed : RankIn(k, R, x) < offset} OBVIOUS
<1>2. PICK after : after = {x \in (kept \ (R \ Q)) \ listed : RankIn(k, Q, x) < offset} OBVIOUS
<1>3. PICK slipped : slipped = {x \in after : RankIn(k, R, x) >= offset} OBVIOUS
<1>4. after \subseteq first /\ before \subseteq first /\ after \subseteq R \cap Q
  BY <1>1, <1>2
<1>5. after \subseteq before \cup slipped
  <2> SUFFICES ASSUME NEW x \in after, ~(RankIn(k, R, x) >= offset) PROVE x \in before
    BY <1>3
  <2>1. x \in R /\ x \in kept \ listed BY <1>2, <1>4
  <2>2. RankIn(k, R, x) \in Nat BY <2>1, RankBelow
  <2> QED BY <1>1, <2>1, <2>2
<1>6. IsFiniteSet(slipped) /\ Cardinality(slipped) <= Cardinality(R \ Q)
  <2>1. slipped \subseteq R \cap Q BY <1>3, <1>4
  <2>2. \A x \in slipped : RankIn(k, R, x) >= offset /\ RankIn(k, Q, x) < offset BY <1>2, <1>3
  <2>3. \A x \in slipped : Lone(k, R, x) BY <1>2, <1>3
  <2> QED BY <2>1, <2>2, <2>3, FewSlip
<1>7. IsFiniteSet(before) /\ IsFiniteSet(after) /\ Cardinality(after) <= Cardinality(first)
  BY <1>4, FS_Subset
<1>8. /\ Cardinality(before) \in Nat /\ Cardinality(after) \in Nat /\ Cardinality(first) \in Nat
      /\ Cardinality(slipped) \in Nat /\ Cardinality(R \ Q) \in Nat
  BY <1>6, <1>7, FS_CardinalityType, FS_Difference
<1>9. /\ IsFiniteSet(before \cup slipped)
      /\ Cardinality(before \cup slipped) =
           Cardinality(before) + Cardinality(slipped) - Cardinality(before \cap slipped)
  BY <1>6, <1>7, FS_Union
<1>10. Cardinality(before \cap slipped) \in Nat
  <2>1. before \cap slipped \in SUBSET before OBVIOUS
  <2>2. IsFiniteSet(before \cap slipped) BY <1>7, <2>1, FS_Subset
  <2> QED BY <2>2, FS_CardinalityType
<1>11. Cardinality(after) <= Cardinality(before \cup slipped)
  BY <1>5, <1>9, FS_Subset
<1>12. Cardinality(before) <= left BY <1>1
<1>13. Cardinality(after) <= left + Cardinality(R \ Q)
  BY <1>6, <1>8, <1>9, <1>10, <1>11, <1>12
<1> QED BY <1>2, <1>7, <1>8, <1>13 DEF Least

LEMMA OvertakenOK ==
  ASSUME SystemOK, StoreInv', Next, NEW sc \in Scan, sc.stage = "paging",
         PagesOK(sc), NoneLeft(sc), ShownOK(sc), NEW q \in Queries, q = sc.query, NEW sc2,
         sc2 = [sc EXCEPT !.kept = @ \ (Rows(q) \ Rows(q)'),
                          !.left = Least(@ + Cardinality(Rows(q) \ Rows(q)'), Cardinality(sc.first))]
  PROVE  sc2 \in Scan /\ PagesOK(sc2)' /\ NoneLeft(sc2) /\ ShownOK(sc2)'
<1>a. PICK R, Q, k : R = Rows(q) /\ Q = Rows(q)' /\ k = KeyFn(q) OBVIOUS
<1>b. q \in Query BY ReaderConstants
<1>c. IsFiniteSet(R) /\ KeyOf(k, R) /\ \A x \in R : ~Tied(q, x) => Lone(k, R, x)
  BY <1>a, <1>b, RowsRanked DEF SystemOK, RowsOK
<1>d. IsFiniteSet(Q) /\ KeyOf(k, Q)
  <2>1. RowsOK' BY RowsRanked, PTL
  <2>2. IsFiniteSet(Rows(q)') /\ KeyOf(KeyFn(q)', Rows(q)')
    BY <1>b, <2>1 DEF RowsOK, KeyOf
  <2>3. KeyFn(q)' = KeyFn(q) BY DEF KeyFn, SortKey
  <2> QED BY <1>a, <2>2, <2>3
<1>e. /\ sc.kept \subseteq sc.first /\ sc.kept \subseteq R /\ IsFiniteSet(sc.first)
      /\ Cardinality(PassedOver(sc)) <= sc.left
  BY <1>a DEF PagesOK
<1>f. IsFiniteSet(R \ Q) BY <1>c, FS_Difference
<1>g. /\ sc2 \in Scan
      /\ sc2.query = q /\ sc2.offset = sc.offset /\ sc2.listed = sc.listed
      /\ sc2.first = sc.first /\ sc2.stage = sc.stage
      /\ sc2.kept = sc.kept \ (R \ Q)
      /\ sc2.left = Least(sc.left + Cardinality(R \ Q), Cardinality(sc.first))
  <2>1. Cardinality(R \ Q) \in Nat /\ Cardinality(sc.first) \in Nat
    BY <1>e, <1>f, FS_CardinalityType
  <2>2. PICK left \in Nat : left = Least(sc.left + Cardinality(R \ Q), Cardinality(sc.first))
    BY <2>1 DEF Least, Scan
  <2>3. PICK kept \in SUBSET Nat : kept = sc.kept \ (R \ Q)
    BY DEF Scan
  <2>4. sc2 = [sc EXCEPT !.kept = kept, !.left = left] BY <1>a, <2>2, <2>3
  <2>5. /\ sc2 \in Scan
        /\ sc2.query = sc.query /\ sc2.offset = sc.offset /\ sc2.listed = sc.listed
        /\ sc2.first = sc.first /\ sc2.stage = sc.stage
        /\ sc2.kept = kept /\ sc2.left = left
    <3>1. ASSUME NEW x \in Scan PROVE \A y : y = [x EXCEPT !.kept = kept, !.left = left] =>
                  /\ y \in Scan
                  /\ y.query = x.query /\ y.offset = x.offset /\ y.listed = x.listed
                  /\ y.first = x.first /\ y.stage = x.stage
                  /\ y.kept = kept /\ y.left = left
      BY <2>2, <2>3 DEF Scan
    <3> QED BY <2>4, <3>1
  <2> QED BY <2>2, <2>3, <2>5
<1>1. PagesOK(sc2)'
  <2> DEFINE certain == {x \in sc.kept : ~Tied(q, x)}
  <2>1. PassedOver(sc) = {x \in certain \ sc.listed : RankIn(k, R, x) < sc.offset}
    BY <1>a DEF PassedOver, Rank
  <2>2. sc.offset \in Nat /\ sc.left \in Nat BY DEF Scan
  <2>3. Cardinality({x \in (certain \ (R \ Q)) \ sc.listed : RankIn(k, Q, x) < sc.offset}) <= sc2.left
    <3>a. PICK left \in Nat, offset \in Nat : left = sc.left /\ offset = sc.offset BY <2>2
    <3>1. PICK kept, listed, first : kept = certain /\ listed = sc.listed /\ first = sc.first
      OBVIOUS
    <3>2. /\ IsFiniteSet(first) /\ kept \subseteq R /\ kept \subseteq first
          /\ \A x \in kept : Lone(k, R, x)
          /\ Cardinality({x \in kept \ listed : RankIn(k, R, x) < offset}) <= left
      BY <1>c, <1>e, <2>1, <3>a, <3>1
    <3>3. Cardinality({x \in (kept \ (R \ Q)) \ listed : RankIn(k, Q, x) < offset})
            <= Least(left + Cardinality(R \ Q), Cardinality(first))
      BY <1>c, <1>d, <3>2, PassedGrows
    <3> QED BY <1>g, <3>a, <3>1, <3>3
  <2>4. PassedOver(sc2)' = {x \in (certain \ (R \ Q)) \ sc.listed : RankIn(k, Q, x) < sc.offset}
    <3>1. \A x : RankIn(KeyFn(q), Rows(q), x)' = RankIn(k, Q, x)
      BY <1>a DEF RankIn, Below, KeyFn, SortKey
    <3>2. PassedOver(sc2)' =
            {x \in sc2.kept \ sc2.listed :
               ~Tied(q, x) /\ RankIn(KeyFn(q), Rows(q), x)' < sc2.offset}
      BY <1>g DEF PassedOver, Rank, Tied
    <3> QED BY <1>g, <3>1, <3>2
  <2>5. /\ sc2.kept \subseteq sc2.first /\ sc2.kept \subseteq Rows(sc2.query)' /\ IsFiniteSet(sc2.first)
        /\ sc2.stage # "done"
    BY <1>a, <1>e, <1>g
  <2> QED BY <2>3, <2>4, <2>5 DEF PagesOK
<1>2. NoneLeft(sc2)
  <2> SUFFICES ASSUME q.kind \in {"mine", "specialist"}, Unfiltered(q)
               PROVE  sc2.left = 0 /\ sc2.kept = sc2.first
    BY <1>g DEF NoneLeft
  <2>1. sc.left = 0 /\ sc.kept = sc.first BY DEF NoneLeft
  <2>2. R \subseteq Q
    <3> SUFFICES ASSUME NEW b \in R PROVE b \in Q OBVIOUS
    <3>1. b \in BookingIds /\ Exists(b)
          /\ (q.kind = "mine" => bookings[b].client = q.user)
          /\ (q.kind = "specialist" => Owner[bookings[b].slot] = q.user)
      BY <1>a DEF Rows, MyBookings, SpecialistBookings, Selected
    <3>2. /\ Exists(b)' /\ bookings'[b].client = bookings[b].client
          /\ Owner[bookings'[b].slot] = Owner[bookings[b].slot]
      BY <3>1, BookingStays
    <3>3. bookings'[b].slot \in live' BY <3>1, <3>2 DEF StoreInv, NoOrphan
    <3>4. q.status = Nil /\ q.from = Nil /\ q.to = Nil BY DEF Unfiltered
    <3> QED BY <1>a, <3>1, <3>2, <3>3, <3>4
        DEF Rows, MyBookings, SpecialistBookings, Selected, InDates, Exists
  <2>3. R \ Q = {} /\ Cardinality(R \ Q) = 0 BY <2>2, FS_EmptySet
  <2>4. Cardinality(sc.first) \in Nat BY <1>e, FS_CardinalityType
  <2> QED BY <1>g, <2>1, <2>3, <2>4 DEF Least
<1>3. ShownOK(sc2)'
  <2> SUFFICES ASSUME q.kind \in {"mine", "specialist"}, NEW b \in sc.listed
               PROVE  /\ b \in BookingIds /\ Exists(b)'
                      /\ bookings'[b].client = q.user \/ Owner[bookings'[b].slot] = q.user
    BY <1>g DEF ShownOK
  <2>1. /\ b \in BookingIds /\ Exists(b)
        /\ bookings[b].client = q.user \/ Owner[bookings[b].slot] = q.user
    BY DEF ShownOK
  <2> QED BY <2>1, BookingStays
<1> QED BY <1>g, <1>1, <1>2, <1>3

\* The reader's invariant is kept by the reader and by the system.
LEMMA ReaderInvariant == LSpec => []ReaderOK
<1>1. LInit => ReaderOK BY DEF LInit, ReaderOK, ScanOK
<1>2. SystemOK /\ SystemOK' /\ ReaderOK /\ [LNext]_lvars => ReaderOK'
  <2> SUFFICES ASSUME SystemOK, SystemOK', ReaderOK, [LNext]_lvars PROVE ReaderOK' OBVIOUS
  <2>a. StoreInv /\ StoreInv' /\ ScanOK BY DEF SystemOK, ReaderOK
  <2>b. scan \in Scan => PagesOK(scan) /\ NoneLeft(scan) /\ ShownOK(scan)
    BY NoScanStage DEF ReaderOK
  <2>1. ASSUME NEW sc, sc \in Scan, scan' = sc, UNCHANGED vars, PagesOK(sc), NoneLeft(sc), ShownOK(sc)
        PROVE  ReaderOK'
    <3>1. UNCHANGED <<live, booked, bookings, waitList>> BY <2>1 DEF vars
    <3>2. \A q : Rows(q)' = Rows(q)
      BY <3>1 DEF Rows, MyBookings, SpecialistBookings, MyWaitList, SpecialistSlots, Selected, InDates,
                  Exists
    <3>3. \A q, x : Rank(q, x)' = Rank(q, x)
      BY <3>2 DEF Rank, RankIn, Below, KeyFn, SortKey
    <3>4. PassedOver(sc)' = PassedOver(sc) BY <3>3 DEF PassedOver, Tied
    <3>5. PagesOK(sc)' BY <2>1, <3>2, <3>3, <3>4 DEF PagesOK
    <3>6. ShownOK(sc)' BY <2>1, <3>1 DEF ShownOK, Exists
    <3>7. ScanOK' BY <2>1 DEF ScanOK
    <3>8. PagesOK(scan)' BY <2>1, <3>5 DEF PagesOK, PassedOver, Tied
    <3>9. ShownOK(scan)' BY <2>1, <3>6 DEF ShownOK
    <3>10. NoneLeft(scan)' BY <2>1 DEF NoneLeft
    <3> QED BY <3>7, <3>8, <3>9, <3>10 DEF ReaderOK
  <2>2. CASE scan' = NoScan BY <2>2 DEF ReaderOK, ScanOK
  <2>3. ASSUME NEW q \in Queries, NEW page \in Pages(q, 0), UNCHANGED vars, scan' = Fetched(Begun(q), page)
        PROVE  ReaderOK'
    <3>1. PICK sc : sc = Begun(q) OBVIOUS
    <3>2. /\ sc \in Scan /\ PagesOK(sc) /\ NoneLeft(sc) /\ ShownOK(sc)
          /\ sc.query = q /\ sc.offset = 0
      <4>1. Begun(q) \in Scan BY <2>a, BegunScan
      <4>2. PagesOK(Begun(q)) /\ NoneLeft(Begun(q)) /\ ShownOK(Begun(q)) BY <2>a, BegunOK
      <4>3. Begun(q).query = q /\ Begun(q).offset = 0 BY DEF Begun
      <4> QED BY <3>1, <4>1, <4>2, <4>3
    <3>3. PICK sc2 : sc2 = Fetched(sc, page) OBVIOUS
    <3>4. scan' = sc2 /\ page \in Pages(sc.query, sc.offset) BY <2>3, <3>1, <3>2, <3>3
    <3>5. sc2 \in Scan /\ PagesOK(sc2) /\ NoneLeft(sc2) /\ ShownOK(sc2)
      BY <2>a, <3>2, <3>3, <3>4, FetchOK
    <3> QED BY <2>1, <2>3, <3>4, <3>5
  <2>4. ASSUME UNCHANGED vars, scan \in Scan, NEW page \in Pages(scan.query, scan.offset),
               scan' = Fetched(scan, page)
        PROVE  ReaderOK'
    <3>1. PICK sc : sc = scan OBVIOUS
    <3>2. PICK sc2 : sc2 = Fetched(sc, page) OBVIOUS
    <3>3. scan' = sc2 /\ page \in Pages(sc.query, sc.offset) BY <2>4, <3>1, <3>2
    <3>4. sc \in Scan /\ PagesOK(sc) /\ NoneLeft(sc) /\ ShownOK(sc) BY <2>b, <2>4, <3>1
    <3>5. sc2 \in Scan /\ PagesOK(sc2) /\ NoneLeft(sc2) /\ ShownOK(sc2) BY <2>a, <3>2, <3>3, <3>4, FetchOK
    <3> QED BY <2>1, <2>4, <3>3, <3>5
  <2>5. ASSUME Next, scan \in Scan, scan.stage = "paging", NEW q \in Queries, q = scan.query,
               scan' = [scan EXCEPT !.kept = @ \ (Rows(q) \ Rows(q)'),
                                    !.left = Least(@ + Cardinality(Rows(q) \ Rows(q)'),
                                                   Cardinality(scan.first))]
        PROVE  ReaderOK'
    <3>1. PICK sc : sc = scan OBVIOUS
    <3>2. PICK sc2 :
            sc2 = [sc EXCEPT !.kept = @ \ (Rows(q) \ Rows(q)'),
                             !.left = Least(@ + Cardinality(Rows(q) \ Rows(q)'),
                                            Cardinality(sc.first))]
      OBVIOUS
    <3>3. scan' = sc2 BY <2>5, <3>1, <3>2
    <3>4. /\ sc \in Scan /\ sc.stage = "paging" /\ PagesOK(sc) /\ NoneLeft(sc) /\ ShownOK(sc)
          /\ q = sc.query
      BY <2>b, <2>5, <3>1
    <3>5. sc2 \in Scan /\ PagesOK(sc2)' /\ NoneLeft(sc2) /\ ShownOK(sc2)'
      BY <2>a, <2>5, <3>2, <3>4, OvertakenOK
    <3>6. ScanOK' BY <3>3, <3>5 DEF ScanOK
    <3>7. PagesOK(scan)' BY <3>3, <3>5 DEF PagesOK, PassedOver, Tied
    <3>8. ShownOK(scan)' BY <3>3, <3>5 DEF ShownOK
    <3>9. NoneLeft(scan)' BY <3>3, <3>5 DEF NoneLeft
    <3> QED BY <3>6, <3>7, <3>8, <3>9 DEF ReaderOK
  <2>6. CASE LNext BY <2>a, <2>2, <2>3, <2>4, <2>5, <2>6, ReaderStep
  <2>7. CASE UNCHANGED lvars
    <3>1. CASE scan = NoScan BY <2>2, <2>7, <3>1 DEF lvars
    <3>2. CASE scan \in Scan BY <2>1, <2>b, <2>7, <3>2 DEF lvars
    <3> QED BY <2>a, <3>1, <3>2 DEF ScanOK
  <2> QED BY <2>6, <2>7
<1> QED BY <1>1, <1>2, SystemInvariant, PTL DEF LSpec

\* A booking that a listing has shown can be opened and exported by the reader from
\* then on, however it is moved, and although slots are deleted.
THEOREM ListedCanBeOpenedHolds == LSpec => []ListedCanBeOpened
<1>1. SystemOK /\ ReaderOK => ListedCanBeOpened
  <2> SUFFICES ASSUME SystemOK, ReaderOK, scan.stage # "idle",
                      scan.query.kind \in {"mine", "specialist"}, NEW b \in scan.listed
               PROVE  MayOpen(scan.query.user, b) /\ MayExport(scan.query.user, b)
    BY DEF ListedCanBeOpened
  <2>1. ShownOK(scan) BY NoScanStage DEF ReaderOK
  <2>2. /\ b \in BookingIds /\ Exists(b)
        /\ bookings[b].client = scan.query.user \/ Owner[bookings[b].slot] = scan.query.user
    BY <2>1 DEF ShownOK
  <2>3. bookings[b].slot \in live /\ bookings[b].client \in Users
    BY <2>2 DEF SystemOK, StoreInv, NoOrphan, ClientsOK
  <2> QED BY <2>2, <2>3 DEF MayOpen, MayExport, Allowed
<1> QED BY <1>1, SystemInvariant, ReaderInvariant, PTL

\* A reader that has come to the last page has missed no more of the rows that were
\* there all the time than other rows have left, for every query and page size; the
\* slots that start together with others, whose place nothing fixes, apart.
THEOREM MissedOnlyForLeftHolds == LSpec => []MissedOnlyForLeft
<1>1. ReaderOK => MissedOnlyForLeft
  <2> SUFFICES ASSUME ReaderOK, Done
               PROVE  Cardinality({x \in scan.kept \ scan.listed : ~Tied(scan.query, x)}) <= scan.left
    BY DEF MissedOnlyForLeft
  <2>1. PagesOK(scan) /\ scan.stage = "done" BY NoScanStage DEF ReaderOK, Done
  <2>2. PassedOver(scan) = {x \in scan.kept \ scan.listed : ~Tied(scan.query, x)}
    BY <2>1 DEF PagesOK, PassedOver
  <2> QED BY <2>1, <2>2 DEF PagesOK
<1> QED BY <1>1, ReaderInvariant, PTL

\* A client or a specialist who pages through all their bookings is shown every one
\* that was there at the first page, whatever happens to them meanwhile.
THEOREM AllBookingsListedHolds == LSpec => []AllBookingsListed
<1>1. ReaderOK => AllBookingsListed
  <2> SUFFICES ASSUME ReaderOK, Done, scan.query.kind \in {"mine", "specialist"},
                      Unfiltered(scan.query)
               PROVE  scan.first \subseteq scan.listed
    BY DEF AllBookingsListed
  <2>1. /\ PagesOK(scan) /\ NoneLeft(scan) /\ scan.stage = "done"
    BY NoScanStage DEF ReaderOK, Done
  <2>2. scan.left = 0 /\ scan.kept = scan.first BY <2>1 DEF NoneLeft
  <2>3. PassedOver(scan) = scan.first \ scan.listed BY <2>1, <2>2 DEF PagesOK, PassedOver, Tied
  <2>4. IsFiniteSet(PassedOver(scan))
    BY <2>1, <2>3, FS_Difference DEF PagesOK
  <2>5. Cardinality(PassedOver(scan)) \in Nat /\ Cardinality(PassedOver(scan)) <= 0
    BY <2>1, <2>2, <2>4, FS_CardinalityType DEF PagesOK
  <2>6. PassedOver(scan) = {} BY <2>4, <2>5, FS_EmptySet
  <2> QED BY <2>3, <2>6
<1> QED BY <1>1, ReaderInvariant, PTL

-------------------------------------------------------------------------------
(***************************************************************************)
(* The days.                                                               *)
(***************************************************************************)
\* A tick is on the day it is divided to.
LEMMA OnDay ==
  ASSUME NEW t \in Nat, NEW d \in Nat
  PROVE  t \div Day = d <=> (d * Day <= t /\ t < (d + 1) * Day)
<1>1. PICK n \in Nat : n = Day /\ n > 0 BY ReaderConstants
<1>2. t \div n = d <=> (d * n <= t /\ t < (d + 1) * n)
  BY <1>1, SMT
<1> QED BY <1>1, <1>2

\* A day is inside every window that begins no later and reaches over it.
LEMMA DayInWindow ==
  ASSUME NEW t \in Nat, NEW d \in Nat, NEW from \in Nat, NEW days \in Nat,
         from <= d, d < from + days, d * Day <= t, t < (d + 1) * Day
  PROVE  from * Day <= t /\ t < (from + days) * Day
<1>1. PICK n \in Nat : n = Day /\ n > 0 BY ReaderConstants
<1>2. from * n <= d * n /\ (d + 1) * n <= (from + days) * n
  BY <1>1, SMT
<1>3. from * n \in Nat /\ d * n \in Nat /\ (d + 1) * n \in Nat /\ (from + days) * n \in Nat
  BY SMT
<1> QED BY <1>1, <1>2, <1>3

\* The slots a specialist has on a day.
DaySlots(u, d) == {s \in live : Owner[s] = u /\ StartAt[s] \div Day = d}

\* The summary of a window counts all slots of the day, and the booked ones.
CountsDay(u, from, days, d) ==
  /\ Availability(u, from, days)[d].total = Cardinality(DaySlots(u, d))
  /\ Availability(u, from, days)[d].booked = Cardinality(DaySlots(u, d) \cap booked)

LEMMA AvailabilityOfDay ==
  ASSUME StoreInv, NEW u, NEW d \in Nat, NEW from \in Nat, NEW days \in Nat,
         from <= d, d < from + days
  PROVE  CountsDay(u, from, days, d)
<1>1. \A s \in live : s \in Slots /\ StartAt[s] \in Nat
  BY ReaderConstants DEF StoreInv, TypeOK, TablesOK
<1>2. {s \in AvailabilityWindow(u, from, days) : StartAt[s] \div Day = d} = DaySlots(u, d)
  <2>1. ASSUME NEW s \in live, StartAt[s] \div Day = d
        PROVE  StartAt[s] >= from * Day /\ StartAt[s] < (from + days) * Day
    <3>1. PICK t \in Nat : t = StartAt[s] BY <1>1
    <3>2. d * Day <= t /\ t < (d + 1) * Day BY <2>1, <3>1, OnDay
    <3>3. from * Day <= t /\ t < (from + days) * Day BY <3>2, DayInWindow
    <3>4. from * Day \in Nat BY ReaderConstants
    <3> QED BY <3>1, <3>3, <3>4
  <2> QED BY <2>1 DEF AvailabilityWindow, DaySlots
<1>3. d \in from .. from + days - 1 OBVIOUS
<1> QED BY <1>2, <1>3 DEF Availability, CountsDay

\* The availability summary, the slot listing and the specialist's booking list agree on
\* every day, where the operations that free slots do not overlap.
THEOREM DaysAgreeHolds == FreeingSerialised => (LSpec => []DaysAgree)
<1> SUFFICES ASSUME FreeingSerialised PROVE LSpec => []DaysAgree OBVIOUS
<1>1. StoreInv /\ FlagAgrees => DaysAgree
  <2> SUFFICES ASSUME StoreInv, FlagAgrees,
                      NEW u \in {Owner[s] : s \in Slots}, NEW d \in Days, NEW days \in {1, 2},
                      NEW from \in d - days + 1 .. d, from \in Nat
               PROVE  LET day == Availability(u, from, days)[d] IN
                      /\ day.booked =
                           Cardinality(SpecialistBookings(On("specialist", u, "confirmed", d)))
                      /\ day.total = Cardinality(SpecialistSlots(On("slots", u, Nil, d)))
    BY DEF DaysAgree
  <2>a. d \in Nat
    <3>1. PICK s \in Slots : d = StartAt[s] \div Day BY DEF Days
    <3>2. PICK t \in Nat, n \in Nat : t = StartAt[s] /\ n = Day /\ n > 0 BY ReaderConstants
    <3>3. t \div n \in Nat BY <3>2, SMT
    <3> QED BY <3>1, <3>2, <3>3
  <2>b. /\ Availability(u, from, days)[d].total = Cardinality(DaySlots(u, d))
        /\ Availability(u, from, days)[d].booked = Cardinality(DaySlots(u, d) \cap booked)
    <3>1. from \in Nat /\ days \in Nat /\ from <= d /\ d < from + days BY <2>a
    <3>2. CountsDay(u, from, days, d) BY <2>a, <3>1, AvailabilityOfDay
    <3> QED BY <3>2 DEF CountsDay
  <2>c. live \subseteq Slots /\ booked \subseteq live /\ bookings \in [BookingIds -> Row]
    BY DEF StoreInv, TypeOK, TablesOK
  <2>d. \A s \in Slots : /\ StartAt[s] \in Nat
                         /\ StartAt[s] \div Day = d <=>
                              StartAt[s] >= d * Day /\ StartAt[s] < (d + 1) * Day
    <3> SUFFICES ASSUME NEW s \in Slots
                 PROVE  /\ StartAt[s] \in Nat
                        /\ StartAt[s] \div Day = d <=>
                             StartAt[s] >= d * Day /\ StartAt[s] < (d + 1) * Day
      OBVIOUS
    <3>1. PICK t \in Nat : t = StartAt[s] BY ReaderConstants
    <3>2. t \div Day = d <=> (d * Day <= t /\ t < (d + 1) * Day) BY <2>a, OnDay
    <3>3. d * Day \in Nat BY <2>a, ReaderConstants
    <3> QED BY <3>1, <3>2, <3>3
  <2>1. SpecialistSlots(On("slots", u, Nil, d)) = DaySlots(u, d)
    <3>1. \A s \in Slots : StartAt[s] \in d * Day .. d * Day + Day - 1 <=> StartAt[s] \div Day = d
      <4> SUFFICES ASSUME NEW s \in Slots
                   PROVE  StartAt[s] \in d * Day .. d * Day + Day - 1 <=> StartAt[s] \div Day = d
        OBVIOUS
      <4>1. PICK t \in Nat, n \in Nat : t = StartAt[s] /\ n = Day /\ n > 0 BY ReaderConstants
      <4>2. (d + 1) * n = d * n + n /\ d * n \in Nat BY <2>a, SMT
      <4>3. t \div Day = d <=> t >= d * n /\ t < (d + 1) * n BY <2>d, <4>1
      <4> QED BY <4>1, <4>2, <4>3
    <3>2. d # Nil BY <2>a, ReaderConstants
    <3> QED BY <2>c, <3>1, <3>2 DEF SpecialistSlots, On, DaySlots
  <2>2. PICK B : B = SpecialistBookings(On("specialist", u, "confirmed", d)) OBVIOUS
  <2>3. B = {b \in BookingIds : /\ Confirmed(b) /\ bookings[b].slot \in live
                                /\ bookings[b].slot \in DaySlots(u, d)}
    <3>1. d # Nil /\ "confirmed" # Nil BY <2>a, ReaderConstants DEF Statuses
    <3>2. \A s \in live : InDates(s, On("specialist", u, "confirmed", d)) <=> StartAt[s] \div Day = d
      BY <2>c, <2>d, <3>1 DEF InDates, On
    <3>3. ASSUME NEW b \in BookingIds
          PROVE  Selected(b, On("specialist", u, "confirmed", d)) <=>
                   /\ Confirmed(b) /\ bookings[b].slot \in live
                   /\ StartAt[bookings[b].slot] \div Day = d
      BY <3>1, <3>2 DEF Selected, On, Exists, Confirmed
    <3> QED BY <2>2, <3>3 DEF SpecialistBookings, DaySlots, On
  <2>4. PICK S : S = DaySlots(u, d) \cap booked OBVIOUS
  <2>5. Cardinality(B) = Cardinality(S)
    <3> DEFINE f == [b \in B |-> bookings[b].slot]
    <3>1. f \in [B -> S] BY <2>3, <2>4 DEF FlagAgrees, NoUnmarkedBooking
    <3>2. \A a, b \in B : f[a] = f[b] => a = b BY <2>3 DEF FlagAgrees, NoDoubleBooking
    <3>3. \A s \in S : \E b \in B : f[b] = s
      <4> SUFFICES ASSUME NEW s \in S PROVE \E b \in B : f[b] = s OBVIOUS
      <4>1. PICK b \in BookingIds : Confirmed(b) /\ bookings[b].slot = s
        BY <2>4 DEF FlagAgrees, NoLostSlot
      <4>2. s \in DaySlots(u, d) /\ s \in live BY <2>4 DEF DaySlots
      <4>3. b \in B BY <2>3, <4>1, <4>2
      <4> QED BY <4>1, <4>3
    <3>4. f \in Bijection(B, S)
      <4> HIDE DEF f
      <4> QED BY <3>1, <3>2, <3>3 DEF Bijection, Injection, Surjection, IsInjective
    <3>5. IsFiniteSet(B)
      <4>1. B \in SUBSET BookingIds BY <2>3
      <4> QED BY <4>1, ReaderConstants, FS_Subset
    <3> QED BY <3>4, <3>5, FS_Bijection DEF ExistsBijection
  <2> QED BY <2>b, <2>1, <2>2, <2>4, <2>5
<1>2. Spec => []FlagAgrees BY FlagAgreesHolds
<1> QED BY <1>1, <1>2, Underneath, StoreInvariant, PTL
================================================================================
