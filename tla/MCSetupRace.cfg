CONSTANTS
  Cases = {"setups"}
  None = None
  w1 = w1  w2 = w2  w3 = w3  w4 = w4
  c1 = c1  c2 = c2  c3 = c3
  h1 = h1  h2 = h2
  k1 = k1  k2 = k2  k3 = k3
  u1 = u1  u2 = u2
  s1 = s1  s2 = s2  s3 = s3
  p1 = p1  p2 = p2
  Work = {w1, w2, w3, w4}
  Kind = {"login"}
  Challenge = {c1, c2}
  Confirmed = TRUE
  Steps = {0, 1}
  Window = 1
  Threshold = 2
  LockBase = 1
  LockMax = 3
  MaxAttempts = 2
  ChallengeTtl = 2
  MaxTime = 1
  Ceremony = {w1, w2}
  CeremonyKind = {"login", "second"}
  Chal = {c1, c2}
  Held = {h1, h2}
  Key = {k1, k2}
  User = {u1, u2}
  Session = {}
  OwnerOf <- NoOwners
  Native = {}
  Registered = {k1}
  FirstOwner = u1
  WithFactor = {u1}
  MaxCounter = 0
  Verifies = {TRUE, FALSE}
  HeldAttempts = 1
  OptionsTtl = 1
  EndTime = 0
SPECIFICATION Spec
SYMMETRY Sym
CHECK_DEADLOCK FALSE
PROPERTY SetupKeepsTheFactor
