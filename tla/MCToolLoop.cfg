CONSTANTS
  x = x
  y = y
  Arg <- MCArg
  MaxRounds = 2
  MaxPatches = 1
  BrowserWrites = {0, 2}
  MaxCalls = 3
  MaxToggles = 2
  MaxFaults = 2
SYMMETRY Renaming
CHECK_DEADLOCK FALSE
SPECIFICATION LoopSpec
INVARIANTS
  LoopInv
  SwitchStopsSteps
