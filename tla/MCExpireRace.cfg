CONSTANTS
  u1 = u1  u2 = u2  c1 = c1  None = None
  Users <- MCUsers
  Clients <- MCClients
  Requests = {r1, r2}
  Docs <- MCDocs
  Boot <- Document1
  Cap = 2
  Handlers = {"authorize", "login"}
  Knobs = {"expireSession"}
  MaxGen = 1
  MaxID = 4
SYMMETRY Symmetry
SPECIFICATION Spec
INVARIANT EndedSessionsStayEnded
