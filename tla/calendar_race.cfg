SPECIFICATION Spec
CONSTANTS
  Sessions = {r1, r2}
  Specialists = {u1, u2}
  MaxTime = 3
  MaxRows = 3
  MayCrash = {r1}
  Nobody = Nobody
INVARIANTS
  ProfilesOK
  ConflictIsReal
  OverlapOnlyByRace
  FailedProfileExists
CHECK_DEADLOCK FALSE
