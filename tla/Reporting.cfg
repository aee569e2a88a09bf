SPECIFICATION FairSpec
CONSTANTS
  Addresses = {here, there}
  None = None
  Tiers = {"owner", "admin"}
  Budgets <- MCBudgets
INVARIANTS
  TypeOK
  BelievesRight
PROPERTIES
  OkWasDone
  NeverForgotten
  UrlSettles
  ShownSettles
