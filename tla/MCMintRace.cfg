CONSTANTS
  u1 = u1  c1 = c1  None = None
  Users <- MCUsers
  Clients <- MCClients
  Requests = {r1}
  Callers = {q1, q2}
  Docs <- MCDocs
  Boot <- Document1
  Rosters <- MCRosters
  Overages <- MCOverages
  Cap = 1
  Handlers = {}
  Knobs = {"apply"}
  MaxGen = 3
  MaxID = 1
SYMMETRY Symmetry
SPECIFICATION AccessSpec
INVARIANT MintHonoursConfiguration
