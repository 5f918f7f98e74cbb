SPECIFICATION LSpec
CONSTANTS
  r1 = r1
  c1 = c1
  sp = sp
  Nil = Nil
  Sessions = {r1}
  Users = {c1, sp}
  Slots = {1, 2}
  BookingIds = {1, 2}
  Keys = {}
  Role <- MCRole
  Owner <- MCOwner
  Ops <- NoCancelOps
  MayCrash = {}
  MaxTicket = 1
  StartAt <- MCStartAt
  Day = 2
  Limit = 1
  Queries <- MCQueries
INVARIANTS
  AllBookingsListed
  MissedOnlyForLeft
  ListedCanBeOpened
  DaysAgree
PROPERTIES
  OnlyMovesLeaveWaiters
CHECK_DEADLOCK FALSE
