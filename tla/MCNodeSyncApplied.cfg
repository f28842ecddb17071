SPECIFICATION Spec
CONSTANTS
  hy2 = hy2  reality = reality
  Protos <- MCProtos
  Downlink <- MCDownlink
  MaxUsers = 2
  DualModes = {TRUE}
  Faults = {"start"}
  MaxFaults = 1
  MaxCrashes = 0
INVARIANT AppliedIsInForce
