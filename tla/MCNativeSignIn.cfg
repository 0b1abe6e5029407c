CONSTANTS
  Cases = {"passwords", "accounts", "mails", "registration", "recovery", "answers", "exchanges"}
  None = None
  w1 = w1  w2 = w2  w3 = w3  w4 = w4
  u1 = u1  u2 = u2
  t1 = t1  t2 = t2
  j1 = j1
  Work = {w1, w2, w3, w4}
  User = {u1}
  Txn = {t1, t2}
  ProofId = {j1}
  MaxSessions = 1
  PendingLifetime = 2
  CodeLifetime = 1
  MaxTime = 0
  MaxChanges = 1
SPECIFICATION Spec
SYMMETRY Sym
CHECK_DEADLOCK FALSE
INVARIANTS OneEarnedCode AnswersAreBacked OneSessionPerCode
PROPERTIES Forward
