CONSTANTS
  owner = owner
  alice = alice
  bob = bob
  nobody = nobody
  m1 = m1
  Nodes <- MCNodes
  Owner = owner
  Newcomers <- MCNewcomers
  Moderators <- MCModerators
  Messages <- MCMessages
  HelperLimit = 1
  Nobody = nobody
  MaxSent = 2
SPECIFICATION Spec
INVARIANTS TypeOK OwnerIntact AuthorityTraced AcceptedIsPublished
