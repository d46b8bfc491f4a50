CONSTANTS
  e1 = e1
  e2 = e2
  k1 = k1
  k2 = k2
  k3 = k3
  Events <- TwoEvents
  Coroutines <- TwoCoroutines
  FailureLimit = 3
  MaxGeneration = 2
SPECIFICATION Spec
SYMMETRY MCSymmetry
INVARIANT PauseIsLocal
PROPERTIES HistoryStays PublishedStays
