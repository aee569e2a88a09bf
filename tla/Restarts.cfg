SPECIFICATION FairSpec
CONSTANTS
  Flags <- MCFlags
  KioskMode = "kiosk_mode"
  Packages <- MCPackages
  DpcPackage = "dpc"
  CoercedName = "5"
  Forbidden = {"no_config_wifi"}
  Foreign = Foreign
  InitialPolicies <- MCForeign
  Writers = {w1}
  Requests <- MCMixed
  Asks <- MCAnything
  Budgets <- Restarting
INVARIANTS
  TypeOK
PROPERTIES
  UntouchedFlagsSurvive
  AgreementLasts
  Converges
