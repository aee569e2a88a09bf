SPECIFICATION FairSpec
CONSTANTS
  t1 = t1
  t2 = t2
  a1 = a1
  a2 = a2
  None = None
  Tablets = {t1, t2}
  Addresses = {a1, a2}
  Paired = {t1, t2}
  ReportsMac = {t2}
  Places <- MCPlaces
  Budgets <- MCBudgets
INVARIANTS
  TypeOK
  NeverRedirected
PROPERTIES
  FollowedOrAsked
CHECK_DEADLOCK FALSE
