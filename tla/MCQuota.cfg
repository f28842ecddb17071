SPECIFICATION FairSpec
CONSTANTS
  u1 = u1
  Users = {u1}
  Supply <- MCSupply
  Plans <- MCPlans
  FirstPlan <- MCFirstPlan
  LastTime = 1
  MaxChanges = 1
  MaxRestores = 1
  MaxRepeats = 2
  MaxCrashes = 1
INVARIANTS TypeOK UsageIsBacked
PROPERTIES KickedForCause OverThePlanIsCut
