CONSTANTS
  Cases = {"codes", "windows", "guesses", "links", "linkWindows", "claims"}
  None = None
  r1 = r1  r2 = r2  r3 = r3
  v1 = v1  v2 = v2
  b1 = b1  b2 = b2
  Link = {r1, r2}
  Browser = {b1, b2}
  Visit = {v1, v2}
  MaxPerHour = 2
  Window = 2
  Slow = 1
  Work = {r1, r2, r3}
  User = {v1, v2}
  Addr = {b1, b2}
  ExpiresIn = 1
  MaxTime = 1
  Issue = {r1}
  Guess = {v1, v2}
  CodeWindow = 9
  MailLimit = 9
  CodeExpiresIn = 9
  MaxAttempts = 9
  Limit = 2
  LockBase = 2
  LockMax = 8
  MaxLevel = 3
  Memory = 20
  Passes = 2
  MaxGuesses = 5
  CodeTime = 5
SPECIFICATION Spec
SYMMETRY Sym
CHECK_DEADLOCK FALSE
INVARIANTS MailsAreCapped GuessesCostTime LinkSignsInOnce LedgerDecides
PROPERTIES CheckedStillStands
