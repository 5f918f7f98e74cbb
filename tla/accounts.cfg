SPECIFICATION Spec
CONSTANTS
  r1 = r1
  r2 = r2
  Ann = Ann
  ann = ann
  bob = bob
  p1 = p1
  p2 = p2
  Nil = Nil
  Sessions = {r1, r2}
  Addresses = {Ann, ann, bob}
  Lower <- MCLower
  Passwords = {p1, p2}
  Digest <- MCDigest
  Roles = {"client", "admin"}
  Second = 2
  Lifetime = 2
  MaxUsers = 2
  MaxTokens = 1
  MaxChanges = 1
  MaxClock = 4
INVARIANTS
  OneAccountPerAddress
  RefusalIsReal
  TokenLifetime
  AdmittedAsIs
SYMMETRY Sym
CHECK_DEADLOCK FALSE
