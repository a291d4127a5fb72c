SPECIFICATION Spec
CONSTANTS
  Payers = {r1, r2}
  InitialBalance = 5
  Cost = 2
  MaxInvoices = 1
  MaxTime = 3
  Payments = {p1, p2}
  Amounts = {1, 100, 5000}
  Fundings = {4999, 5000}
  Nothing = nothing
  Owners = {alice, bob}
  Environments = {cashu_test, cashu_main}
  Lookups = {l1}
  Publications = 3
SYMMETRY MCSymmetry
INVARIANTS TypeOK NoMockServesProduction BooksBalance EscrowSettlesOnce AnswersFitMarkets ProfilesAreWhole
