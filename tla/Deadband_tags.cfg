\* One device with two tags, arrays of two indices; they may be sent in parts.
CONSTANTS
  Devices = {d1}
  Tags = {temp, flow}
  Indices = {0, 1}
  Values = {0, 2}
  TagConfigs <- MCOneConfig
  MaxLosses = 1
SYMMETRY MCSymmetry
SPECIFICATION Spec
INVARIANT TypeOK
INVARIANT CacheMatchesWire
INVARIANT OmittedIsClose
INVARIANT SentForAReason
INVARIANT OneDeviceInv
