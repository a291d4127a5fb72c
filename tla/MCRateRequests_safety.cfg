SPECIFICATION Spec
CONSTANTS
  Peers = {p1, p2}
  MaxPeers = 1
  Limit = 2
  Window = 2
  MaxTime = 4
  Markets = {k1}
  Calls = {c1, c2}
  Fresh = 1
  Stale = 3
SYMMETRY MCSymmetry
INVARIANTS TypeOK NoMoreThanTwoLimits RefusalsHaveReasons AnswersWithinWindows
