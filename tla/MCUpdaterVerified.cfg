SPECIFICATION Spec
CONSTANTS
  v0 = v0  v1 = v1  v2 = v2  v3 = v3  v4 = v4
  Versions <- MCVersions
  First = v0
  Behaviour <- MCBehaviour
  Faults = {}
  MaxFaults = 1
  MaxLosses = 1
  MaxPlans = 1
INVARIANT SucceededMeansWorking
