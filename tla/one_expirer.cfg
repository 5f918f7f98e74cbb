SPECIFICATION Spec
CONSTANTS
  r1 = r1
  r2 = r2
  c1 = c1
  c2 = c2
  sp = sp
  sp2 = sp2
  Nil = Nil
  Sessions = {r1, r2}
  Users = {c1, c2, sp}
  Slots = {1, 2}
  BookingIds = {1, 2}
  Keys = {}
  Role <- MCRole
  Owner <- OneOwner
  Ops <- OneExpirerOps
  MayCrash = {r1}
  MaxTicket = 1
INVARIANTS
  FlagAgrees
PROPERTIES
  LedgerSpec
  WaitersLeftBehind
  WaitsForOwnOnlyBy
SYMMETRY ClientSym
CHECK_DEADLOCK FALSE
