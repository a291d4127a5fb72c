SPECIFICATION Spec
CONSTANTS
  Payments = {p1}
  Tokens = {k1}
  NoRefundKey = {}
  NoToken = notoken
  Tasks = {t1}
  NoTask = notask
  Delays <- MCDelays
  ForeignTokens = FALSE
  Elsewhere = {"recipient", "sender", "other"}
  Interrupted = FALSE
  MaxTime = 2
INVARIANTS LockedMeansTracked
