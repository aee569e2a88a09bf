SPECIFICATION Spec
CONSTANTS
  t1 = t1
  t2 = t2
  a1 = a1
  a2 = a2
  None = None
  Tablets = {t1, t2}
  Addresses = {a1, a2}
  Paired = {t1}
  ReportsMac = {}
  Places <- MCPlaces
  Budgets <- MCMoves
INVARIANTS
  MacIsOurs
CHECK_DEADLOCK FALSE
