SPECIFICATION Spec
CONSTANTS
  Flags <- MCFlags
  KioskMode = "kiosk_mode"
  Packages <- MCPackages
  DpcPackage = "dpc"
  CoercedName = "5"
  Forbidden <- MCForbidden
  Docs <- MCDocs
  NoPolicy = NoPolicy
INVARIANTS
  TypeOK
  PushIsStoredExactly
  ReadBackIsExact
  StoredIsRecoverable
  GuardsAgree
CHECK_DEADLOCK FALSE
