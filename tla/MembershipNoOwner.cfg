SPECIFICATION Spec
CONSTANTS
  a = a
  b = b
  i1 = i1
  i2 = i2
  People = {a, b}
  Founder = a
  ApiKey = ApiKey
  KeyScopes = {"member:manage"}
  Invitations = {i1, i2}
  Slots = {s1, s2}
  Asks <- MCAsks
  None = None
SYMMETRY Symmetry
INVARIANT AnOwnerRemains
CHECK_DEADLOCK FALSE
