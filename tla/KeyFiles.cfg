SPECIFICATION Spec
CONSTANTS
  n1 = n1
  n2 = n2
  g1 = g1
  g2 = g2
  Absent = Absent
  Empty = Empty
  Node <- MCNode
  Keygen <- MCKeygen
  Key = {k1, k2, k3, k4}
SYMMETRY Symmetry
INVARIANTS
  StartsAgree
  OwnerKeyComplete
  SuccessIsOwnKey
CHECK_DEADLOCK FALSE
