CONSTANTS
  u1 = u1
  Users <- MCUsers
  Requests = {r1, r2}
  Seeds <- Seeds12
  Docs <- MCDocs
  Boot <- Original
  Knobs = {"enroll", "clear", "apply", "reset"}
  MaxNow = 3
  MaxGen = 2
  MaxEnroll = 1
  MaxLogins = 2
SYMMETRY Symmetry
SPECIFICATION Spec
INVARIANTS TypeOK CredentialStateCurrent StepsIncrease
PROPERTY AcceptedSecretWasInForce
