SPECIFICATION FairSpec
CONSTANTS
  Installs = {"companion", "game", "dpc"}
  Given = {"companion", "dpc"}
  Self = {"dpc"}
  Tiers = {"owner", "admin"}
  Budgets <- MCBudgets
INVARIANTS
  TypeOK
  OneAtATime
  SealedIsIntact
  GuardHasOwner
  ShownIsUnderway
  SelfUpdateShown
PROPERTIES
  GuardFreed
  OutcomeTold
  SelfUpdateTold
CHECK_DEADLOCK FALSE
