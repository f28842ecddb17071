SPECIFICATION Spec
CONSTANTS
  c1 = c1  e1 = e1  e2 = e2
  Conns = {c1}
  Web = {c1}
  MinRequest = 2
  Ifaces = {e1, e2}
  NoIface = NoIface
  Overflow = 10
  MaxEvents = 5
  MaxWindows = 2
INVARIANTS TypeOK OneStallPerRead LossIsBounded FiguresOfTheMinute
PROPERTIES StallsAreUnanswered CardWindowIsOneWindow
