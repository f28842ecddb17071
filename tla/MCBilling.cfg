SPECIFICATION FairSpec
CONSTANTS
  u1 = u1  u2 = u2  c1 = c1  c2 = c2
  Users = {u1, u2}
  Chunks = {c1, c2}
  Owner <- MCOwner
  MaxRepeats = 1
  MaxCrashes = 2
INVARIANTS TypeOK NothingVanishes OneCopy ExactUpToLostAcks
PROPERTIES OnlyUncollectedBytesAreLost SpooledSurvives RefinesLedger SpoolDrainsBehindTraffic
