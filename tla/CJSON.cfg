\* Five items, enough for an object of three items inside another and a replacement.
CONSTANTS
  Items = {n1, n2, n3, n4, n5}
  Keys = {a, b}
  NULL = NULL
  MaxMembers = 3
SYMMETRY Symmetry
SPECIFICATION Spec
INVARIANT TypeOK
INVARIANT Linked
INVARIANT TreeInv
PROPERTY ImplementsObjects
