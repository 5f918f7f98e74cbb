------------------------- MODULE BookingLedger_proofs -------------------------
(***************************************************************************)
(* BookingSystem implements SlotLedger, if the operations that free a slot *)
(* are serialised: the five actions that write bookings or slots map to    *)
(* Take, Move and Drop, the others leave the ledger alone.                 *)
(***************************************************************************)
EXTENDS BookingSystem_proofs, BookingLedger

\* No slot is held before the first booking.
LEMMA LedgerInit == Init => Ledger!Init
  BY DEF Init, Ledger!Init, Held, Confirmed, Exists, NoRow

\* A slot that is not marked booked is vacant in the ledger: the decision that
\* create and reschedule make on the flag is one on the bookings.
LEMMA FreeIsVacant ==
  ASSUME NoUnmarkedBooking, NEW s \in Slots, s \notin booked
  PROVE  Ledger!Vacant(s)
  BY StoreAssumption DEF StoreAssumption, NoUnmarkedBooking, Held, Ledger!Vacant

\* A step that leaves the bookings alone leaves the ledger alone.
LEMMA LedgerUntouched ==
  ASSUME UNCHANGED bookings
  PROVE  UNCHANGED Ledger!ledger
  BY DEF Ledger!ledger, Held, Confirmed, Exists

\* Every step of a session is a step of the ledger or leaves it alone.
LEMMA LedgerStep ==
  ASSUME StoreInv, FlagInv, NEW r \in Sessions, Act(r)
  PROVE  [Ledger!Next]_(Ledger!ledger)
<1> USE DEF Confirmed, Exists
<1>a. /\ bookings \in [BookingIds -> Row] /\ NoUnmarkedBooking
      /\ ArgsAt(r) /\ SeenAt(r) /\ TargetFreeAt(r)
  BY DEF StoreInv, TypeOK, TablesOK, ArgsOK, FlagInv, FlagAgrees, MemoryOK
<1>b. Nil \notin Slots
  BY StoreAssumption DEF StoreAssumption
<1>1. CASE CreateInsert(r) /\ ~UNCHANGED bookings
  <2>1. PICK b \in BookingIds :
          /\ ~Exists(b)
          /\ bookings' = [bookings EXCEPT ![b] =
               [slot |-> loc[r].slot, client |-> loc[r].client, key |-> loc[r].key,
                status |-> "confirmed", asked |-> loc[r].slot]]
    BY <1>1 DEF CreateInsert, NextId
  <2>2. PICK s \in Slots : s = loc[r].slot /\ s \notin booked
    BY <1>a, <1>1 DEF CreateInsert, ArgsAt, TargetFreeAt, NoSlotYet
  <2>3. /\ bookings'[b].slot = s /\ bookings'[b].status = "confirmed"
        /\ \A a \in BookingIds : a # b => bookings'[a] = bookings[a]
    BY <1>a, <2>1, <2>2
  <2>4. Held' = [Held EXCEPT ![b] = s]
    BY <2>3 DEF Held
  <2>5. {a \in BookingIds : Exists(a)}' = {a \in BookingIds : Exists(a)} \cup {b}
    BY <2>1, <2>3
  <2>6. Ledger!Take(b, s)
    BY <1>a, <2>1, <2>2, <2>4, <2>5, FreeIsVacant DEF Ledger!Take
  <2> QED
    BY <2>6 DEF Ledger!Next
<1>2. CASE CancelCommit(r) /\ ~UNCHANGED bookings
  <2>1. /\ loc[r].booking \in BookingIds /\ Exists(loc[r].booking)
        /\ bookings' = [bookings EXCEPT ![loc[r].booking].status = "cancelled"]
    BY <1>a, <1>2 DEF CancelCommit, ArgsAt
  <2>2. /\ bookings'[loc[r].booking].status = "cancelled"
        /\ \A a \in BookingIds : a # loc[r].booking => bookings'[a] = bookings[a]
    BY <1>a, <2>1 DEF Row
  <2>3. Ledger!Drop({loc[r].booking})
    BY <2>1, <2>2 DEF Ledger!Drop, Held
  <2> QED
    BY <2>1, <2>3 DEF Ledger!Next
<1>3. CASE RescheduleCommit(r)
  <2>1. /\ loc[r].booking \in BookingIds
        /\ bookings[loc[r].booking].slot \in Slots
        /\ bookings[loc[r].booking].status = "confirmed"
        /\ loc[r].slot \in Slots /\ loc[r].slot \notin booked
    BY <1>a, <1>3 DEF RescheduleCommit, ArgsAt, SeenAt, TargetFreeAt, RescheduleAt, NoSlotYet
  <2>2. /\ bookings'[loc[r].booking].slot = loc[r].slot
        /\ bookings'[loc[r].booking].status = "confirmed"
        /\ \A a \in BookingIds : a # loc[r].booking => bookings'[a] = bookings[a]
    BY <1>a, <1>3, <2>1 DEF RescheduleCommit, MovedRow, Row
  <2>3. Held' = [Held EXCEPT ![loc[r].booking] = loc[r].slot]
    BY <2>2 DEF Held
  <2>4. {a \in BookingIds : Exists(a)}' = {a \in BookingIds : Exists(a)}
    BY <2>1, <2>2
  <2>5. Held[loc[r].booking] # Nil
    BY <1>b, <2>1 DEF Held
  <2>6. Ledger!Move(loc[r].booking, loc[r].slot)
    BY <1>a, <2>1, <2>3, <2>4, <2>5, FreeIsVacant DEF Ledger!Move
  <2> QED
    BY <2>1, <2>6 DEF Ledger!Next
<1>4. CASE DeleteFlush(r)
  BY <1>4, LedgerUntouched DEF DeleteFlush, tables
<1>5. CASE ExpireCommit(r)
  <2>1. loc[r].stale \in SUBSET BookingIds /\ \A b \in loc[r].stale : Exists(b)
    BY <1>a, LocalFields DEF ArgsAt, StoreInv, TypeOK, SessionsOK
  <2>2. \A b \in BookingIds :
          IF b \in loc[r].stale THEN bookings'[b].status = "expired"
                                ELSE bookings'[b] = bookings[b]
    BY <1>a, <1>5 DEF ExpireCommit, ExpiredRows, Row
  <2>3. Ledger!Drop(loc[r].stale)
    BY <2>1, <2>2 DEF Ledger!Drop, Held
  <2> QED
    BY <2>1, <2>3 DEF Ledger!Next
<1>6. CASE ~Writes(r) \/ UNCHANGED bookings
  BY <1>6, ReadOnly, LedgerUntouched
<1> QED
  BY <1>1, <1>2, <1>3, <1>4, <1>5, <1>6 DEF Writes

-------------------------------------------------------------------------------
\* The handlers implement the ledger, whatever the number of sessions, slots and
\* bookings, provided no reschedule or expiration overlaps another operation
\* that frees a slot and no expired booking is cancelled.
THEOREM ImplementsLedger == FreeingSerialised => (Spec => LedgerSpec)
<1> SUFFICES ASSUME FreeingSerialised PROVE Spec => LedgerSpec
  OBVIOUS
<1>1. StoreInv /\ FlagInv /\ [Next]_vars => FlagInv'
  BY FlagInvStep
<1>2. StoreInv /\ FlagInv /\ [Next]_vars => [Ledger!Next]_(Ledger!ledger)
  <2> SUFFICES ASSUME StoreInv, FlagInv, [Next]_vars PROVE [Ledger!Next]_(Ledger!ledger)
    OBVIOUS
  <2>1. CASE UNCHANGED vars
    BY <2>1, LedgerUntouched DEF vars
  <2>2. ASSUME NEW s \in Slots, Start(s) PROVE UNCHANGED Ledger!ledger
    BY <2>2, LedgerUntouched DEF Start, tables
  <2> QED
    BY <2>1, <2>2, LedgerStep DEF Next
<1> QED
  BY <1>1, <1>2, LedgerInit, FlagInit, StoreInvariant, PTL DEF Spec, LedgerSpec, Ledger!Spec
===============================================================================
