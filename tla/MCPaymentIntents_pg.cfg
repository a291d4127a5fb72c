SPECIFICATION FairPostgresSpec
CONSTANTS
  Users = {alice, bob}
  NoUser = nouser
  Forms = {"name"}
  Ids = {i1}
  Tasks = {t1, t2}
  Reports = {"claimable", "claiming", "refund_available", "claimed", "refunded"}
  Kinds = {"protected"}
  Backend = "postgres"
  MaxTime = 2
  Lifetimes = {}
  DefaultLifetime = 2
  Stored <- MCRounded
INVARIANTS TypeOK AnswersAgree OutcomeReportedByEntitledParty LockDiscipline PathsStayOpen
PROPERTIES ChangesAreLegalMoves TimestampNeverMovesBack KeepsSettlementPromise EveryReportFinishes
