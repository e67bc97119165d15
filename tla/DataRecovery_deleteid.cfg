\* The fault-free case: no crash, no refused deletion.
CONSTANTS
  RecoverLimit = 3
  DataRecover = TRUE
  MaxSends = 4
  MaxCrashes = 0
  MaxFailures = 0
  MaxRefusals = 0
SPECIFICATION Spec
PROPERTY OnlyPublishedDeleted
