SPECIFICATION Spec
CONSTANTS
  Threads = {t1, t2}
  Quotes = {q1, q2}
  Melts = {p1}
  Tokens = {k1}
  Nothing = nothing
SYMMETRY MCSymmetry
INVARIANTS TypeOK SuccessIsTrue QuietMeansSettled
