CONSTANTS
  alice = alice
  bob = bob
  nobody = nobody
  r1 = r1
  r2 = r2
  c1 = c1
  c2 = c2
  w1 = w1
  a1 = a1
  older = older
  Accounts <- MCAccounts
  NoAccount = nobody
  Rooms <- OneRoom
  Connections <- OneConnection
  Workers <- MCWorkers
  Adders <- MCAdders
  Older = older
SPECIFICATION Spec
SYMMETRY MCSymmetry
PROPERTY RoomsReloaded
