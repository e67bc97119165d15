\* One tag that is or is not configured; any number of uploads and crashes.
CONSTANTS
  Tags = {temp}
  Settings <- MCSettings
  Absent = Absent
  Torn = Torn
  IsCacheConfig = TRUE
  IntMax = 1010
SPECIFICATION Spec
INVARIANT TypeOK
INVARIANT FilterInUse
INVARIANT FilterNeverOlder
INVARIANT SpanSurvives
INVARIANT ConfigInv
