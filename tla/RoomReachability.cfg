CONSTANTS
  MaxFailures = 3
  MaxOps = 2
SPECIFICATION FairSpec
INVARIANTS TypeOK PausedByStreak
PROPERTIES ResumedByRetry RetryContacts
