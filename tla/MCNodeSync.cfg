SPECIFICATION FairSpec
CONSTANTS
  hy2 = hy2  reality = reality
  Protos <- MCProtos
  Downlink <- MCDownlink
  MaxUsers = 3
  DualModes = {TRUE, FALSE}
  Faults = {"fetch", "start", "update", "save"}
  MaxFaults = 3
  MaxCrashes = 1
INVARIANTS TypeOK NodesOnlyWhileActive NoNodeLeftBehind
PROPERTIES ConnectionsDropForCause CatchesUp
