SPECIFICATION CoordinationSpec
CONSTANTS
  alice = alice
  bob = bob
  Users = {alice, bob}
  NoUser = nouser
  Forms = {"at"}
  Ids = {m1}
  Tasks = {t1, t2}
  IntentIds = {i1}
  IntentTasks = {r1}
  Reports = {"claimable", "claiming", "claimed", "refunded"}
  Kinds = {"protected", "instant"}
  Senders = {s1}
  NoLink = nolink
  InMemory = TRUE
  MaxTime = 2
SYMMETRY MCSymmetry
CONSTRAINT AliceToBob
INVARIANTS TypeOK LinksResolve OppositeOutcomesNeedBothParties IntentAnswersAgree
PROPERTIES MessagesMoveForward KeepsMessagePromise KeepsIntentPromise
