\* One device with two plain tags (or arrays of one index).
CONSTANTS
  Devices = {d1}
  Tags = {temp, flow}
  Indices = {0}
  Values <- MCValues
  TagConfigs <- MCTagConfigs
  MaxLosses = 0
SPECIFICATION Spec
INVARIANT PreviousIsComplete
