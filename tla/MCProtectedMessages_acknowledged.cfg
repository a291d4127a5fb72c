SPECIFICATION Spec
CONSTANTS
  Users = {alice, bob}
  NoUser = nouser
  Ids = {m1}
  Tasks = {t1}
  InMemory = FALSE
  MaxTime = 3
SYMMETRY MCSymmetry
INVARIANTS AcknowledgedByRecipient
