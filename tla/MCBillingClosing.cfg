SPECIFICATION Spec
CONSTANTS
  u1 = u1  u2 = u2  c1 = c1  c2 = c2
  Users = {u1, u2}
  Chunks = {c1, c2}
  Owner <- MCOwner
  MaxRepeats = 0
  MaxCrashes = 0
PROPERTY CollectedBeforeClosing
