SPECIFICATION FairSpec
CONSTANTS
  Flags <- MCFlags
  KioskMode = "kiosk_mode"
  Packages <- MCPackages
  DpcPackage = "dpc"
  CoercedName = "5"
  Forbidden = {"no_config_wifi"}
  Foreign = Foreign
  InitialPolicies <- MCListed
  Writers = {w1, w2}
  Requests <- MCPushing
  Asks <- MCOneEach
  Budgets <- LostCall
INVARIANTS
  EveryPolicySafe
  PushesSerialised
  NobodyStranded
PROPERTIES
  EveryCallReturns
