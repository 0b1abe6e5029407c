CONSTANTS
  Cases = {"postgres", "mongo"}
  Backend = "postgres"
  Worker = {w1, w2}
  MaxRequests = 3
  MaxAttempts = 2
  MaxLost = 1
  RetryWindow = 1
  AccessLifetime = 1
  AbsoluteLifetime = 4
  MaxClock = 2
  MaxPairs = 4
SPECIFICATION MCSpec
SYMMETRY Connections
INVARIANTS OneLivePair AnsweredAtMostTwice UsedPairKept StoredOnce
PROPERTIES AtomicOnPostgres WithdrawnForGood
