CONSTANTS
  alice = alice
  bob = bob
  nobody = nobody
  Profiles <- MCProfiles
  NoProfile = nobody
  MaxChanges = 1
  MaxReconnects = 2
SPECIFICATION FairLifecycle
INVARIANTS LifecycleTypeOK ListenerIntact ConnectedListens
PROPERTY OnlyDaemonDelays
