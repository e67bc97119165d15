\* Three instants, the second of which changes every character of the stamp.
CONSTANTS
  SecPlaces = {"tens", "ones"}
  MilliPlaces = {"milli"}
  Part <- MCPart
  Turn <- MCTurn
  Heartbeat = 1
  MaxTime = 1
SPECIFICATION Spec
INVARIANT TypeOK
INVARIANT RecentParts
INVARIANT WholeStamp
INVARIANT OwnStamp
INVARIANT FewStaleMessages
INVARIANT HeartbeatInv
PROPERTY HeartbeatsGoOn
