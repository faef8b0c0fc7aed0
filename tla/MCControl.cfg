CONSTANTS
  c1 = c1  a1 = a1  a2 = a2  NoKey = NoKey  NoDoc = NoDoc  NoKnob = NoKnob
  ClientIDs <- MCIDs
  Addresses <- MCAddresses
  Uris = {1, 2}
  Knobs = {0, 1}
  Zero = 0
  Keys = {k1}
  Boot <- MCBoot
  Edits <- MCEdits
  Changes <- MCChanges
  Calls = {"apply", "plan", "reset"}
  IdempCap = 2
  RingCap = 2
  MaxGen = 3
  MaxSeq = 3
SYMMETRY Symmetry
SPECIFICATION Spec
INVARIANTS TypeOK BootstrapAgrees CachedPlanCurrent
