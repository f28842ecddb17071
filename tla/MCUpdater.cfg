SPECIFICATION FairSpec
CONSTANTS
  v0 = v0  v1 = v1  v2 = v2  v3 = v3  v4 = v4
  Versions <- MCVersions
  First = v0
  Behaviour <- MCBehaviour
  Faults = {"download", "hash", "check"}
  MaxFaults = 2
  MaxLosses = 2
  MaxPlans = 3
INVARIANTS TypeOK AgentIsWhole OutcomeIsOnDisk RunsWhatIsInPlace
PROPERTIES UpgradeCompletes RefinesSafeUpgrade
