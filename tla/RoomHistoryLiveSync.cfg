CONSTANTS
  owner = owner
  replica = replica
  e1 = e1
  e2 = e2
  e3 = e3
  e4 = e4
  Nodes <- Owner
  Writers <- Owner
  Events <- FourEvents
  PageSize = 2
  Subkeys = 3
  MaxReloads = 0
SPECIFICATION Spec
SYMMETRY EventSymmetry
INVARIANT DeliveredKept
