\* Three rows a query, four messages, two crashes and two refused deletions.
CONSTANTS
  RecoverLimit = 3
  DataRecover = TRUE
  MaxSends = 4
  MaxCrashes = 2
  MaxFailures = 2
  MaxRefusals = 1
SPECIFICATION FairSpec
INVARIANT TypeOK
INVARIANT ForwardedInOrder
INVARIANT DuplicatesBounded
INVARIANT StaleHandovers
INVARIANT IInv
PROPERTY Implements
PROPERTY Drains
PROPERTY InsertCompletes
