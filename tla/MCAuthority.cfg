CONSTANTS
  Cases = {"postgres", "leaving", "fenced", "roles", "renames", "deletes"}
  None = None
  t1 = t1  t2 = t2  t3 = t3
  a1 = a1  a2 = a2  a3 = a3  a4 = a4
  admin = admin  lead = lead  staff = staff  user = user
  r0 = r0  r1 = r1  r2 = r2
  s0 = s0  s1 = s1  s2 = s2  s3 = s3
  Store = "postgres"
  Task <- ThreeTasks
  Kind <- AllKinds
  Account <- FourAccounts
  First <- TwoAdmins
  Role <- Roles
  Admin = admin
  Level <- Levels
  Carries <- Manage
  SweepStore = "mongo"
  SweepTask <- ThreeTasks
  SweepKind <- ChangesOfOne
  RoleId <- TwoRoles
  UserRole = r0
  FirstRoles <- OneCustom
  Slug <- ThreeSlugs
  SlugOf <- FirstSlugs
  User <- OneUser
  Held <- OfUserRole
  Passes = 3
  Limit = 2
SPECIFICATION MCSpec
SYMMETRY Sym
CHECK_DEADLOCK FALSE
INVARIANTS AdminRemains HoldersHaveRoles RolesSettle
PROPERTIES HandedOutByHolder FencesHold
