\* Two devices with one plain tag each.
CONSTANTS
  Devices = {d1, d2}
  Tags = {temp}
  Indices = {0}
  Values <- MCValues
  TagConfigs <- MCTagConfigs
  MaxLosses = 0
SPECIFICATION Spec
INVARIANT OmittedIsClose
