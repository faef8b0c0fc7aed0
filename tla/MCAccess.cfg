CONSTANTS
  u1 = u1  c1 = c1  None = None
  Users <- MCUsers
  Clients <- MCClients
  Requests = {r1}
  Callers = {q1}
  Docs <- MCDocs
  Boot <- Document1
  Rosters <- MCRosters
  Overages <- MCOverages
  Cap = 1
  Handlers = {"authorize", "login", "token"}
  Knobs = {"apply", "pause", "forceFail", "forceConsent", "inject"}
  MaxGen = 2
  MaxID = 4
SPECIFICATION AccessSpec
CONSTRAINT FewTunables
INVARIANT AccessTypeOK
PROPERTIES UserinfoHonoursPolicy GroupsCurrent TunablesObeyed
