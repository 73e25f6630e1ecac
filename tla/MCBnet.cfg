SPECIFICATION MCSpec
CONSTANTS
  None = None
  Passwords = {p1, p2}
  MaxClan = 1
  Users = {u1, u2}
  MaxQueue = 2
  Callers = {c1, c2}
  Pause = 1
  MaxPause = 2
  MaxRid = 4
CHECK_DEADLOCK FALSE
INVARIANTS ChatsWithVerified UsersUpToDate OwnAnswer
PROPERTIES PasswordKept OperationsEnd CallsReturn
