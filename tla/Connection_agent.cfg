\* Two calls of Connect and Disconnect, in any order and at any time, and a thread
\* for a Connect that fails.  It may stop: the broker need not come back.
CONSTANTS
  App = App
  Net = Net
  Reconnectors = {r1}
  MaxCalls = 2
  MaxOutages = 1
  MaxRotations = 1
CHECK_DEADLOCK FALSE
SPECIFICATION FairSpec
INVARIANT TypeOK
INVARIANT OwnCredentials
INVARIANT GivesUpOnFlag
INVARIANT ToldOfSession
INVARIANT CommandsSubscribed
INVARIANT ConnectionInv
PROPERTY KeepsTrying
