\* Two devices with two plain tags each.
CONSTANTS
  Devices = {d1, d2}
  Tags = {temp, flow}
  Indices = {0}
  Values = {0, 2}
  TagConfigs <- MCZeroSpan
  MaxLosses = 0
SYMMETRY MCSymmetry
SPECIFICATION Spec
INVARIANT CacheMatchesWire
INVARIANT KnownIsClose
INVARIANT DeadbandInv
