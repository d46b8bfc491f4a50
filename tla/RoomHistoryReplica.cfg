CONSTANTS
  owner = owner
  replica = replica
  e1 = e1
  e2 = e2
  e3 = e3
  e4 = e4
  Nodes <- OwnerAndReplica
  Writers <- OwnerAndReplica
  Events <- ThreeEvents
  PageSize = 2
  Subkeys = 2
  MaxReloads = 0
SPECIFICATION Spec
SYMMETRY NodeAndEventSymmetry
CONSTRAINT QueueBounded
INVARIANTS NoDuplicates PagesInStore 
