CONSTANTS
  u1 = u1  u2 = u2  c1 = c1  None = None
  Users <- MCUsers
  Clients <- MCClients
  Requests = {r1, r2}
  Docs <- MCDocs
  Boot <- Document1
  Cap = 2
  Handlers = {"authorize", "token", "login", "logout"}
  Knobs = {"apply", "expireSession", "expireAll"}
  MaxGen = 2
  MaxID = 5
SYMMETRY Symmetry
SPECIFICATION Spec
INVARIANTS TypeOK RowsCurrent
PROPERTIES RefreshKept ImplementsIssuance
