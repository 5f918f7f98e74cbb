SPECIFICATION FairSpec
CONSTANTS
  r1 = r1
  r2 = r2
  c1 = c1
  c2 = c2
  sp = sp
  sp2 = sp2
  Nil = Nil
  Sessions = {r1, r2}
  Users = {c1, c2, sp}
  Slots = {1}
  BookingIds = {1, 2}
  Keys = {}
  Role <- AdminRole
  Owner <- OneOwner
  Ops <- DeadlockOps
  MayCrash = {r2}
  MaxTicket = 2
PROPERTIES
  EveryRequestEnds
  OutOfTurnOnlyBy
CHECK_DEADLOCK FALSE
