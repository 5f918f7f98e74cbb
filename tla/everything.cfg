SPECIFICATION Spec
CONSTANTS
  r1 = r1
  r2 = r2
  c1 = c1
  c2 = c2
  sp = sp
  sp2 = sp2
  Nil = Nil
  Sessions = {r1, r2}
  Users = {sp, sp2}
  Slots = {1, 2, 3}
  BookingIds = {1}
  Keys = {}
  Role <- AdminRole
  Owner <- LastApart
  Ops <- AllOps
  MayCrash = {}
  MaxTicket = 0
INVARIANTS
  TypeOK
  NoOrphan
PROPERTIES
  BookingHistory
  SpecialistStable
SYMMETRY SessionSym
CHECK_DEADLOCK FALSE
