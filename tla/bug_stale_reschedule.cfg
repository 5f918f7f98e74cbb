SPECIFICATION Spec
CONSTANTS
  r1 = r1
  r2 = r2
  c1 = c1
  c2 = c2
  sp = sp
  sp2 = sp2
  Nil = Nil
  Sessions = {r1, r2}
  Users = {c1, sp}
  Slots = {1, 2}
  BookingIds = {1, 2, 3}
  Keys = {}
  Role <- MCRole
  Owner <- OneOwner
  Ops <- StaleMoveOps
  MayCrash = {}
  MaxTicket = 0
INVARIANTS
  NoDoubleBooking
CHECK_DEADLOCK FALSE
