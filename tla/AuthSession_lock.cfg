\* Two accounts, a request and the logout, any number of restarts.
CONSTANTS
  Users = {u1, u2}
  Requests = {r1, out}
  LogoutCall = out
  NoSession = NoSession
  MaxIssued = 3
SPECIFICATION Spec
CHECK_DEADLOCK FALSE
PROPERTY RefreshedBeforeExpiry
