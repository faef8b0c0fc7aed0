CONSTANTS
  u1 = u1  u2 = u2  c1 = c1  None = None
  Users <- MCUsers
  Clients <- MCClients
  Requests = {r1, r2}
  Docs <- MCDocs
  Boot <- Document1
  Cap = 1
  Handlers = {"sso", "login", "consent", "deny"}
  Knobs = {"apply", "reset", "time", "listSessions", "forceConsent"}
  MaxGen = 2
  MaxID = 4
SYMMETRY Symmetry
SPECIFICATION Spec
CONSTRAINT FewLapses
INVARIANTS SingleUse NoLockout TablesBounded
PROPERTIES IssuedUnderPolicy StaleInert
