-------------------------- MODULE SlotLedger_proofs ---------------------------
(***************************************************************************)
(* What follows from the ledger alone, and so holds of whatever implements *)
(* it.                                                                     *)
(***************************************************************************)
EXTENDS SlotLedger, TLAPS

\* Every booking holds a slot or none, and no slot is held twice.
LedgerInv == holds \in [Bookings -> Slots \cup {None}] /\ Exclusive

\* No two bookings ever hold the same slot: taking and moving need a vacant one.
THEOREM LedgerExclusive == Spec => []Exclusive
<1>1. Init => LedgerInv
  BY DEF Init, LedgerInv, Exclusive
<1>2. LedgerInv /\ [Next]_ledger => LedgerInv'
  <2> SUFFICES ASSUME LedgerInv, [Next]_ledger PROVE LedgerInv'
    OBVIOUS
  <2> USE DEF LedgerInv, Exclusive
  <2>1. ASSUME NEW b \in Bookings, NEW s \in Slots, Take(b, s) \/ Move(b, s) PROVE LedgerInv'
    BY <2>1 DEF Take, Move, Vacant
  <2>2. ASSUME NEW B \in SUBSET Bookings, Drop(B) PROVE LedgerInv'
    BY <2>2 DEF Drop
  <2>3. CASE UNCHANGED ledger
    BY <2>3 DEF ledger
  <2> QED
    BY <2>1, <2>2, <2>3 DEF Next
<1>3. LedgerInv => Exclusive
  BY DEF LedgerInv
<1> QED
  BY <1>1, <1>2, <1>3, PTL DEF Spec
===============================================================================
