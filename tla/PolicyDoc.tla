----------------------------- MODULE PolicyDoc -----------------------------
(***************************************************************************)
(* The policy document and the two guards that read it: validate_policy in *)
(* Home Assistant (policy.py) and Policy.fromJson in the tablet's device   *)
(* policy controller (Policy.kt).  A raw document is a JSON object, that   *)
(* is a function from the keys it has to JSON values; a Policy is what     *)
(* either guard returns when it accepts one.  Package lists are sets: both *)
(* guards sort them and drop duplicates.                                   *)
(***************************************************************************)
CONSTANTS
  Flags,        \* the boolean policy keys
  KioskMode,    \* the one flag that needs a target package
  Packages,     \* package names
  DpcPackage,   \* the controller's own package
  CoercedName,  \* the text Kotlin's optString makes of a non-string entry
  Forbidden     \* keys that can sever the management path

ListKeys == {"kiosk_packages", "allowed_packages"}
KnownKeys == Flags \cup ListKeys \cup {"app_mode"}
AppModes == {"open", "allowlist"}

ASSUME PolicyAssumption ==
  /\ KioskMode \in Flags
  /\ CoercedName \in Packages \ {DpcPackage}
  /\ Flags \cap (ListKeys \cup {"app_mode"}) = {}
  /\ Forbidden \cap KnownKeys = {}

Policy == [flags            : [Flags -> BOOLEAN],
           kiosk_packages   : SUBSET Packages,
           app_mode         : AppModes,
           allowed_packages : SUBSET Packages]

\* Least restrictive: every flag off, no packages, launcher left alone.
DefaultPolicy == [flags            |-> [k \in Flags |-> FALSE],
                  kiosk_packages   |-> {},
                  app_mode         |-> "open",
                  allowed_packages |-> {}]

-----------------------------------------------------------------------------
(* JSON values.  A list records the package names it has and, in bad, the  *)
(* worst other entry it has: none, an empty string or a non-string.        *)

Bool(b)       == [type |-> "bool", val |-> b]
Text(s)       == [type |-> "text", val |-> s]
List(s, junk) == [type |-> "list", val |-> s, bad |-> junk]
Other         == [type |-> "other"]

BadEntries == {"none", "empty", "nonstring"}
FlagValues == {Bool(TRUE), Bool(FALSE), Other}
ListValues == {Other} \cup {List(s, j) : s \in SUBSET Packages, j \in BadEntries}
ModeValues == {Text("open"), Text("allowlist"), Text("unlisted"), Other}

\* A JSON object whose values, at the keys that are read, are of these kinds.
JsonObject(d) ==
  /\ \A k \in Flags \cap DOMAIN d : d[k] \in FlagValues
  /\ \A k \in ListKeys \cap DOMAIN d : d[k] \in ListValues
  /\ "app_mode" \in DOMAIN d => d["app_mode"] \in ModeValues

\* Policy.toJson, and equally the dict Home Assistant puts on the wire.
ToJson(p) ==
  [k \in KnownKeys |->
     CASE k \in Flags              -> Bool(p.flags[k])
       [] k = "kiosk_packages"     -> List(p.kiosk_packages, "none")
       [] k = "allowed_packages"   -> List(p.allowed_packages, "none")
       [] k = "app_mode"           -> Text(p.app_mode)]

-----------------------------------------------------------------------------
(* What both guards share.                                                 *)

FlagsOf(d) == [k \in Flags |-> k \in DOMAIN d /\ d[k] = Bool(TRUE)]
ModeOf(d)  == IF "app_mode" \in DOMAIN d THEN d["app_mode"].val ELSE "open"

FlagsAreBooleans(d) == \A k \in Flags \cap DOMAIN d : d[k].type = "bool"
ModeIsText(d) ==  \* variant: any text is a mode
  "app_mode" \in DOMAIN d => d["app_mode"].type = "text"
ModeIsKnown(d) ==
  "app_mode" \in DOMAIN d => d["app_mode"] \in {Text(m) : m \in AppModes}

FoldNothing(mode, kiosk, allowed) == allowed  \* variant: no fold
\* The kiosk target must stay openable, whichever mode is active.
FoldKiosk(mode, kiosk, allowed) ==
  IF mode = "allowlist" THEN allowed \cup kiosk ELSE allowed

\* Neither an allowlist with nothing on it nor a kiosk with no application.
Safe(p) ==
  /\ p.app_mode = "allowlist" => p.allowed_packages # {}
  /\ p.flags[KioskMode] => p.kiosk_packages # {}

Assemble(d, kiosk, allowed) ==
  [flags            |-> FlagsOf(d),
   kiosk_packages   |-> kiosk,
   app_mode         |-> ModeOf(d),
   allowed_packages |-> FoldKiosk(ModeOf(d), kiosk, allowed)]

UnknownFirst(d, typed, policy) ==  \* variant: the checks in another order
  IF ~(DOMAIN d \subseteq KnownKeys) \/ ~typed THEN "invalid"
  ELSE IF DOMAIN d \cap Forbidden # {} \/ ~Safe(policy) THEN "unsafe"
  ELSE "ok"
\* The order of the checks fixes which error a document with several faults
\* gets: a forbidden key is unsafe before anything else is looked at.
Verdict(d, typed, policy) ==
  IF DOMAIN d \cap Forbidden # {} THEN "unsafe"
  ELSE IF ~(DOMAIN d \subseteq KnownKeys) \/ ~typed THEN "invalid"
  ELSE IF ~Safe(policy) THEN "unsafe"
  ELSE "ok"

-----------------------------------------------------------------------------
(* Home Assistant: validate_policy.                                        *)

PyListOK(d, k) == k \in DOMAIN d => d[k].type = "list" /\ d[k].bad = "none"
PyKeepsItself(d, k) ==  \* variant: the controller's own package stays listed
  IF k \in DOMAIN d THEN d[k].val ELSE {}
PyPackages(d, k) ==
  IF k \in DOMAIN d THEN d[k].val \ {DpcPackage} ELSE {}

PyTyped(d) ==
  FlagsAreBooleans(d) /\ ModeIsKnown(d) /\ \A k \in ListKeys : PyListOK(d, k)
PyNormal(d) ==
  Assemble(d, PyPackages(d, "kiosk_packages"), PyPackages(d, "allowed_packages"))
PyVerdict(d) == Verdict(d, PyTyped(d), PyNormal(d))

(* The tablet: Policy.fromJson.  A list key that is not an array reads as  *)
(* absent (optJSONArray), and a non-string entry reads as its text.        *)

KtListOK(d, k) ==
  (k \in DOMAIN d /\ d[k].type = "list") => d[k].bad # "empty"
KtKeepsItself(d, k) ==  \* variant: the controller's own package stays listed
  IF k \in DOMAIN d /\ d[k].type = "list" THEN d[k].val ELSE {}
KtPackages(d, k) ==
  IF k \in DOMAIN d /\ d[k].type = "list"
  THEN (d[k].val \cup {n \in {CoercedName} : d[k].bad = "nonstring"})
         \ {DpcPackage}
  ELSE {}

KtTyped(d) ==
  FlagsAreBooleans(d) /\ ModeIsKnown(d) /\ \A k \in ListKeys : KtListOK(d, k)
KtNormal(d) ==
  Assemble(d, KtPackages(d, "kiosk_packages"), KtPackages(d, "allowed_packages"))
KtVerdict(d) == Verdict(d, KtTyped(d), KtNormal(d))

-----------------------------------------------------------------------------
(* The same guard on a document that already has a policy's shape, which   *)
(* is all the coordinator ever hands to it.                                *)

Normalize(p) ==
  [p EXCEPT !.kiosk_packages   = @ \ {DpcPackage},
            !.allowed_packages = FoldKiosk(p.app_mode,
                                           p.kiosk_packages \ {DpcPackage},
                                           @ \ {DpcPackage})]
AcceptsNoTarget(p) ==  \* variant: a kiosk needs no application
  Safe([Normalize(p) EXCEPT !.flags[KioskMode] = FALSE])
Acceptable(p) == Safe(Normalize(p))

\* A policy either guard can have returned.
Normalized(p) == p \in Policy /\ Normalize(p) = p /\ Safe(p)
=============================================================================
