CONSTANTS
  alice = alice
  bob = bob
  nobody = nobody
  Profiles <- MCProfiles
  NoProfile = nobody
  MaxChanges = 3
  MaxReconnects = 1
SPECIFICATION FairSpec
INVARIANTS ProfilesIsolated UnsavedIsQueued DemoIsEphemeral StopSaves
PROPERTIES ChangesReachVault VaultsAreDurable
