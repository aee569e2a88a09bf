SPECIFICATION Spec
CONSTANTS
  Order <- MCOrder
  Packages <- MCPackages
  Kept = {"dpc"}
  Protected = {"dialer"}
  Documents <- MCDocuments
  Tiers = {"owner", "admin", "none"}
  LiteFlags = {"stay_awake_on_power"}
  Silent <- MCSilent
  Handlers = {h1}
  Budgets <- OneFailure
INVARIANTS
  OpenLiftsAll
CHECK_DEADLOCK FALSE
