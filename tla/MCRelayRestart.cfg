SPECIFICATION FairSpec
CONSTANTS
  b1 = b1  b2 = b2  p1 = p1  p2 = p2
  Bins <- MCBins
  Ports <- MCPorts
  Faults = {"restart"}
  MaxFaults = 1
  MaxWishes = 1
PROPERTY Converges
