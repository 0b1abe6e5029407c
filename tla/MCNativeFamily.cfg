\* A window of two ticks inside an absolute lifetime of four; and 60 s of
\* tolerance, 150 s to keep an id and 60 s for a nonce, in units of 10 s.
CONSTANTS
  Cases = {"family", "proof"}
  RetryWindow = 2
  AccessLifetime = 2
  AbsoluteLifetime = 4
  MaxClock = 5
  MaxPairs = 4
  s1 = s1  s2 = s2  c1 = c1  c2 = c2
  Server <- Servers
  Copy <- Copies
  Offset <- Offsets
  Skew = 1
  Tolerance = 6
  Ttl = 15
  Bucket = 6
  Delay = 1
  MaxTime = 18
SPECIFICATION MCSpec
SYMMETRY Sym
CHECK_DEADLOCK FALSE
INVARIANTS AcceptedOnce NonceLasts
PROPERTIES KeepsPromise
