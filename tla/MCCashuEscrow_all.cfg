SPECIFICATION FairSpec
CONSTANTS
  Payments = {p1}
  Tokens = {k1, k2}
  NoRefundKey = {k2}
  NoToken = notoken
  Tasks = {t1, t2}
  NoTask = notask
  Delays <- MCDelays
  ForeignTokens = FALSE
  Elsewhere = {"recipient"}
  Interrupted = TRUE
  MaxTime = 2
INVARIANTS TypeOK SettledMeansSpent RefundedMeansRefunded AnswersAgree PaidIsRecordable
PROPERTIES CallsFinish
