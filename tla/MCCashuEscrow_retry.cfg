SPECIFICATION Spec
CONSTANTS
  Payments = {p1}
  Tokens = {k1}
  NoRefundKey = {}
  NoToken = notoken
  Tasks = {t1}
  NoTask = notask
  Delays <- MCDelays
  ForeignTokens = FALSE
  Elsewhere = {}
  Interrupted = TRUE
  MaxTime = 2
INVARIANTS ClaimedMeansClaimed
