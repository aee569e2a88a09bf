SPECIFICATION FairSpec
CONSTANTS
  Order <- MCOrder
  Packages <- MCPackages
  Kept = {"dpc"}
  Protected = {"dialer"}
  Documents <- MCDocuments
  Tiers = {"owner", "admin", "none"}
  LiteFlags = {"stay_awake_on_power"}
  Silent <- MCSilent
  Handlers = {h1, h2}
  Budgets <- MCBudgets
INVARIANTS
  EveryKeyReported
  FlagsInForce
  AllowlistHolds
  PendingIsHeld
PROPERTIES
  ComesToRest
  KeepsPromise
CHECK_DEADLOCK FALSE
