CONSTANTS
  Cases = {"postgres"}
  Backend = "postgres"
  Client = {web, admin}
  AdminClient = admin
  MaxSessions = 2
  MaxAdminSessions = 1
  AbsoluteLifetime = 3
  IdleLifetime = 2
  UpdateInterval = 1
  SignInWorker = {w1, w2}
  Validation = {v1}
  MaxClock = 2
  MaxIssued = 2
  MaxChanges = 2
SPECIFICATION MCSpec
SYMMETRY Alike
PROPERTY RefusesOnlyTheEnded
