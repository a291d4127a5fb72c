SPECIFICATION Spec
CONSTANTS
  Payments = {p1, p2}
  Tokens = {k1, k2}
  NoRefundKey = {}
  NoToken = notoken
  Tasks = {t1}
  NoTask = notask
  Delays <- MCDelays
  ForeignTokens = TRUE
  Elsewhere = {"recipient", "sender", "other"}
  Interrupted = FALSE
  MaxTime = 2
INVARIANTS SettledMeansSpent
