SPECIFICATION FairSpec
CONSTANTS
  c1 = c1  c2 = c2
  Conns <- MCOne
  Facts <- MCFacts
  MaxPending = 2
  Endpoint = TRUE
  MaxDropped = 1
  MaxFiles = 1
  MaxBytes = 1
  MaxMinutes = 1
  MaxCrashes = 1
PROPERTIES ClosesAreTold ObsSpoolDrains
