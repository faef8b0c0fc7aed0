CONSTANTS
  Tabs = {1, 2}
  Slots = {1, 2}
  Views = {"sessions", "status"}
  MaxLoads = 2
  MaxClicks = 2
SPECIFICATION Spec
INVARIANTS TypeOK  ShowsCurrentView StartupNeverStalls
CHECK_DEADLOCK FALSE
