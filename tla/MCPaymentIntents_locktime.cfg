SPECIFICATION Spec
CONSTANTS
  Users = {alice, bob}
  NoUser = nouser
  Forms = {"name"}
  Ids = {i1}
  Tasks = {t1}
  Reports = {"claimable", "refund_available"}
  Kinds = {"protected"}
  Backend = "postgres"
  MaxTime = 3
  Lifetimes <- MCLifetimes
  DefaultLifetime = 2
  Stored <- MCRounded
INVARIANTS RefundAvailableOnlyAfterLocktime
