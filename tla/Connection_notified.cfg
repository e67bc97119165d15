\* A Connect and a Disconnect.
CONSTANTS
  App = App
  Net = Net
  Reconnectors = {r1}
  MaxCalls = 2
  MaxOutages = 3
  MaxRotations = 2
CHECK_DEADLOCK FALSE
SPECIFICATION Spec
INVARIANT DisconnectNotified
