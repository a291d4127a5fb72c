SPECIFICATION Spec
CONSTANTS
  Users = {u1, u2}
  Names = {"e"}
  Emails = {"e"}
  Passwords = {"p"}
  Tokens = {k1, k2, k3}
  ResetTokens = {r1}
  NoToken = notoken
  Tasks = {t1, t2}
  SessionLife = 1
  ResetLife = 1
  MaxTime = 1
  MaxEra = 2
SYMMETRY MCSymmetry
INVARIANTS TypeOK ChainsDoNotFork ConfirmedEndsSessions AccountsAreDistinct ChangesNeedTokens
