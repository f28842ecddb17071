SPECIFICATION FairSpec
CONSTANTS
  b1 = b1  b2 = b2  p1 = p1  p2 = p2
  Bins <- MCBins
  Ports <- MCPorts
  Faults = {"download", "hash", "write", "reload", "restart",
            "start", "stop", "relay", "agent", "boot"}
  MaxFaults = 2
  MaxWishes = 2
INVARIANTS TypeOK OnlyChangesDisturb
PROPERTIES ConvergesUnlessCut ReconciledRuns
