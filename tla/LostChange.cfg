SPECIFICATION Spec
CONSTANTS
  Flags <- MCFlags
  KioskMode = "kiosk_mode"
  Packages <- MCPackages
  DpcPackage = "dpc"
  CoercedName = "5"
  Forbidden = {"no_config_wifi"}
  Foreign = Foreign
  InitialPolicies <- MCInitial
  Writers = {w1, w2}
  Requests <- MCFlagged
  Asks <- MCAnything
  Budgets <- NoFaults
PROPERTIES
  CallChangesOnlyItsKey
