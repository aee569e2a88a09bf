----------------------- MODULE PolicyRoundTrip_proofs -----------------------
(***************************************************************************)
(* For every set of flags, of packages and of documents: the two guards    *)
(* agree, a normal form is a fixpoint of both, and a policy survives the   *)
(* way to the tablet and back.                                             *)
(***************************************************************************)
EXTENDS PolicyRoundTrip, TLAPS

\* What either guard assembles from lists of packages without the
\* controller's own is in normal form, if it passes the safety checks.
\* Both guards end in this (policy.py 102-118, Policy.kt 126-157).
LEMMA AssembleNormalized ==
  ASSUME NEW d, JsonObject(d), ModeIsKnown(d),
         NEW kiosk \in SUBSET Packages, DpcPackage \notin kiosk,
         NEW allowed \in SUBSET Packages, DpcPackage \notin allowed
  PROVE  LET p == Assemble(d, kiosk, allowed)
         IN  p \in Policy /\ Normalize(p) = p
<1>1. ModeOf(d) \in AppModes
  BY DEF ModeOf, ModeIsKnown, AppModes, Text
<1>2. FlagsOf(d) \in [Flags -> BOOLEAN]
  BY DEF FlagsOf
<1>3. FoldKiosk(ModeOf(d), kiosk, allowed) \in SUBSET (Packages \ {DpcPackage})
  BY DEF FoldKiosk
<1>4. Assemble(d, kiosk, allowed) \in Policy
  BY <1>1, <1>2, <1>3 DEF Assemble, Policy
<1>5. kiosk \ {DpcPackage} = kiosk
  OBVIOUS
<1>6. FoldKiosk(ModeOf(d), kiosk,
                FoldKiosk(ModeOf(d), kiosk, allowed) \ {DpcPackage})
        = FoldKiosk(ModeOf(d), kiosk, allowed)
  BY DEF FoldKiosk
<1>7. Normalize(Assemble(d, kiosk, allowed)) = Assemble(d, kiosk, allowed)
  <2> DEFINE p == Assemble(d, kiosk, allowed)
  <2>1. p.kiosk_packages = kiosk /\ p.app_mode = ModeOf(d)
        /\ p.allowed_packages = FoldKiosk(ModeOf(d), kiosk, allowed)
    BY DEF Assemble
  <2>2. Normalize(p) = [p EXCEPT !.kiosk_packages = p.kiosk_packages,
                                 !.allowed_packages = p.allowed_packages]
    BY <1>5, <1>6, <2>1 DEF Normalize
  <2>3. p \in Policy
    BY <1>4
  <2> HIDE DEF p
  <2>4. Normalize(p) = p
    BY <2>2, <2>3 DEF Policy
  <2> QED BY <2>4 DEF p
<1> QED BY <1>4, <1>7

\* validate_policy returns a policy in normal form.
LEMMA PyNormalForm ==
  ASSUME NEW d, JsonObject(d), PyVerdict(d) = "ok"
  PROVE  Normalized(PyNormal(d))
<1>1. PyTyped(d) /\ Safe(PyNormal(d)) /\ ModeIsKnown(d)
  BY DEF PyVerdict, Verdict, PyTyped
<1>2. ASSUME NEW k \in ListKeys
      PROVE  PyPackages(d, k) \in SUBSET Packages /\ DpcPackage \notin PyPackages(d, k)
  BY <1>1, <1>2 DEF JsonObject, ListValues, List, Other, PyTyped, PyListOK, PyPackages
<1>3. "kiosk_packages" \in ListKeys /\ "allowed_packages" \in ListKeys
  BY DEF ListKeys
<1> QED BY <1>1, <1>2, <1>3, AssembleNormalized DEF Normalized, PyNormal

\* Policy.fromJson returns a policy in normal form.
LEMMA KtNormalForm ==
  ASSUME NEW d, JsonObject(d), KtVerdict(d) = "ok"
  PROVE  Normalized(KtNormal(d))
<1>1. KtTyped(d) /\ Safe(KtNormal(d)) /\ ModeIsKnown(d)
  BY DEF KtVerdict, Verdict, KtTyped
<1>2. ASSUME NEW k \in ListKeys
      PROVE  KtPackages(d, k) \in SUBSET Packages /\ DpcPackage \notin KtPackages(d, k)
  BY <1>2, PolicyAssumption DEF JsonObject, ListValues, List, Other, KtPackages
<1>3. "kiosk_packages" \in ListKeys /\ "allowed_packages" \in ListKeys
  BY DEF ListKeys
<1> QED BY <1>1, <1>2, <1>3, AssembleNormalized DEF Normalized, KtNormal

\* A document Home Assistant's guard accepts is one the tablet accepts, with
\* the same normal form.
LEMMA KtFollowsPy ==
  ASSUME NEW d, JsonObject(d), PyVerdict(d) = "ok"
  PROVE  KtVerdict(d) = "ok" /\ KtNormal(d) = PyNormal(d)
<1>1. /\ PyTyped(d) /\ Safe(PyNormal(d))
      /\ DOMAIN d \cap Forbidden = {} /\ DOMAIN d \subseteq KnownKeys
  BY DEF PyVerdict, Verdict
<1>2. ASSUME NEW k \in ListKeys
      PROVE  KtListOK(d, k) /\ KtPackages(d, k) = PyPackages(d, k)
  BY <1>1, <1>2 DEF JsonObject, ListValues, List, Other, PyTyped, PyListOK,
                    PyPackages, KtListOK, KtPackages
<1>3. KtNormal(d) = PyNormal(d)
  BY <1>2 DEF KtNormal, PyNormal, ListKeys
<1>4. KtTyped(d)
  BY <1>1, <1>2 DEF KtTyped, PyTyped
<1> QED BY <1>1, <1>3, <1>4 DEF KtVerdict, Verdict

\* The two booleans are told apart on the wire.
LEMMA BoolOnWire ==
  /\ \A b : Bool(b).type = "bool"
  /\ Bool(TRUE) # Bool(FALSE)
<1>1. \A b : Bool(b).type = "bool"
  BY Zenon DEF Bool
<1>2. Bool(TRUE).val = TRUE /\ Bool(FALSE).val = FALSE
  BY Zenon DEF Bool
<1>3. Bool(TRUE) # Bool(FALSE)
  BY <1>2
<1> QED BY <1>1, <1>3

\* The wire form of a policy is a JSON object over the known keys.
LEMMA ToJsonShape ==
  ASSUME NEW p \in Policy
  PROVE  /\ JsonObject(ToJson(p))
         /\ DOMAIN ToJson(p) = KnownKeys
         /\ \A k \in Flags : ToJson(p)[k] = Bool(p.flags[k])
         /\ ToJson(p)["kiosk_packages"] = List(p.kiosk_packages, "none")
         /\ ToJson(p)["allowed_packages"] = List(p.allowed_packages, "none")
         /\ ToJson(p)["app_mode"] = Text(p.app_mode)
<1>1. DOMAIN ToJson(p) = KnownKeys
  BY DEF ToJson
<1>2. \A k \in Flags : ToJson(p)[k] = Bool(p.flags[k])
  BY PolicyAssumption DEF ToJson, KnownKeys, ListKeys
<1>3. ToJson(p)["kiosk_packages"] = List(p.kiosk_packages, "none")
  BY PolicyAssumption DEF ToJson, KnownKeys, ListKeys
<1>4. ToJson(p)["allowed_packages"] = List(p.allowed_packages, "none")
  BY PolicyAssumption DEF ToJson, KnownKeys, ListKeys
<1>5. ToJson(p)["app_mode"] = Text(p.app_mode)
  BY PolicyAssumption DEF ToJson, KnownKeys, ListKeys
<1>6. \A k \in Flags : Bool(p.flags[k]) \in FlagValues
  BY DEF Policy, FlagValues
<1>7. /\ List(p.kiosk_packages, "none") \in ListValues
      /\ List(p.allowed_packages, "none") \in ListValues
  BY DEF Policy, ListValues, BadEntries
<1>8. Text(p.app_mode) \in ModeValues
  BY DEF Policy, AppModes, ModeValues
<1>9. JsonObject(ToJson(p))
  BY <1>1, <1>2, <1>3, <1>4, <1>5, <1>6, <1>7, <1>8 DEF JsonObject, ListKeys
<1> QED BY <1>1, <1>2, <1>3, <1>4, <1>5, <1>9

\* A policy in normal form passes Home Assistant's guard unchanged.
LEMMA PyFixpoint ==
  ASSUME NEW p, Normalized(p)
  PROVE  /\ JsonObject(ToJson(p))
         /\ PyVerdict(ToJson(p)) = "ok"
         /\ PyNormal(ToJson(p)) = p
<1> DEFINE d == ToJson(p)
<1>1. p \in Policy /\ Normalize(p) = p /\ Safe(p)
  BY DEF Normalized
<1>2. JsonObject(d)
  BY <1>1, ToJsonShape
<1>3. DOMAIN d = KnownKeys
  BY <1>1, ToJsonShape
<1>4. \A k \in Flags : d[k] = Bool(p.flags[k])
  BY <1>1, ToJsonShape
<1>5. /\ d["kiosk_packages"] = List(p.kiosk_packages, "none")
      /\ d["allowed_packages"] = List(p.allowed_packages, "none")
      /\ d["app_mode"] = Text(p.app_mode)
  BY <1>1, ToJsonShape
<1> HIDE DEF d
<1>6. FlagsOf(d) = p.flags
  <2>1. \A k \in Flags : (d[k] = Bool(TRUE)) = p.flags[k]
    <3> TAKE k \in Flags
    <3>1. p.flags[k] \in BOOLEAN
      BY <1>1 DEF Policy
    <3>2. d[k] = Bool(p.flags[k])
      BY <1>4
    <3>3. CASE p.flags[k] = TRUE
      BY <3>2, <3>3
    <3>4. CASE p.flags[k] = FALSE
      BY <3>2, <3>4, BoolOnWire
    <3> QED BY <3>1, <3>3, <3>4
  <2>2. \A k \in Flags : (k \in DOMAIN d /\ d[k] = Bool(TRUE)) = p.flags[k]
    BY <1>3, <2>1 DEF KnownKeys
  <2> QED BY <1>1, <2>2 DEF FlagsOf, Policy
<1>7. ModeOf(d) = p.app_mode
  BY <1>3, <1>5 DEF ModeOf, KnownKeys, Text
<1>8. PyPackages(d, "kiosk_packages") = p.kiosk_packages \ {DpcPackage}
  BY <1>3, <1>5 DEF PyPackages, KnownKeys, ListKeys, List
<1>9. PyPackages(d, "allowed_packages") = p.allowed_packages \ {DpcPackage}
  BY <1>3, <1>5 DEF PyPackages, KnownKeys, ListKeys, List
<1>10. PyNormal(d) = Normalize(p)
  <2>1. PyNormal(d) =
          [flags            |-> p.flags,
           kiosk_packages   |-> p.kiosk_packages \ {DpcPackage},
           app_mode         |-> p.app_mode,
           allowed_packages |-> FoldKiosk(p.app_mode,
                                          p.kiosk_packages \ {DpcPackage},
                                          p.allowed_packages \ {DpcPackage})]
    BY <1>6, <1>7, <1>8, <1>9 DEF PyNormal, Assemble
  <2> QED BY <1>1, <2>1 DEF Normalize, Policy
<1>11. PyTyped(d)
  <2>1. FlagsAreBooleans(d)
    BY <1>4, BoolOnWire DEF FlagsAreBooleans
  <2>2. ModeIsKnown(d)
    BY <1>1, <1>5 DEF ModeIsKnown, Policy
  <2>3. \A k \in ListKeys : PyListOK(d, k)
    BY <1>5 DEF PyListOK, ListKeys, List
  <2> QED BY <2>1, <2>2, <2>3 DEF PyTyped
<1>12. PyVerdict(d) = "ok"
  BY <1>1, <1>3, <1>10, <1>11, PolicyAssumption DEF PyVerdict, Verdict
<1> QED BY <1>1, <1>2, <1>10, <1>12 DEF d

\* ... and the tablet's.
LEMMA KtFixpoint ==
  ASSUME NEW p, Normalized(p)
  PROVE  KtVerdict(ToJson(p)) = "ok" /\ KtNormal(ToJson(p)) = p
BY PyFixpoint, KtFollowsPy

-----------------------------------------------------------------------------
(* The inductive invariant: every policy anywhere is in normal form, the   *)
(* later copies equal the earlier ones, and the stage says which exist.    *)

Copies ==
  /\ stage \in {"raw", "refused"} => sent = NoPolicy /\ stored = NoPolicy
  /\ stage = "pushed" => sent # NoPolicy /\ stored = NoPolicy
  /\ stage \in {"stored", "adopted"} => stored # NoPolicy
  /\ stage \notin {"adopted"} => desired = NoPolicy
  /\ sent # NoPolicy => Normalized(sent) /\ PyVerdict(doc) = "ok"
  /\ stored # NoPolicy => Normalized(stored) /\ DOMAIN doc \cap Forbidden = {}

IInv == TypeOK /\ Copies /\ PushIsStoredExactly /\ ReadBackIsExact

LEMMA InitIInv == Init => IInv
BY RoundTripAssumption
   DEF Init, IInv, TypeOK, Copies, PushIsStoredExactly, ReadBackIsExact

LEMMA NextIInv == IInv /\ [Next]_vars => IInv'
<1> SUFFICES ASSUME IInv, [Next]_vars PROVE IInv'
  OBVIOUS
<1> USE DEF IInv
<1>0. JsonObject(doc)
  BY DEF TypeOK
<1>1. CASE HaPushes
  <2>1. Normalized(PyNormal(doc))
    BY <1>0, <1>1, PyNormalForm DEF HaPushes
  <2>2. sent' = PyNormal(doc)
    BY <1>1, <2>1, PyFixpoint DEF HaPushes
  <2>3. sent' \in Policy
    BY <2>1, <2>2 DEF Normalized
  <2>4. stage' = "pushed" /\ UNCHANGED <<doc, stored, desired>> /\ stage = "raw"
        /\ PyVerdict(doc) = "ok"
    BY <1>1 DEF HaPushes
  <2>5. sent' # NoPolicy
    BY <2>3, RoundTripAssumption
  <2>6. TypeOK'
    BY <2>3, <2>4 DEF TypeOK, JsonObject
  <2>7. Copies'
    BY <2>1, <2>2, <2>4, <2>5 DEF Copies, Normalized, Normalize, Safe, PyVerdict, Verdict, PyTyped, PyNormal, PyListOK, FlagsAreBooleans, ModeIsKnown
  <2> QED BY <2>4, <2>6, <2>7 DEF PushIsStoredExactly, ReadBackIsExact, Copies
<1>2. CASE HaRefuses
  BY <1>2 DEF HaRefuses, TypeOK, Copies, PushIsStoredExactly, ReadBackIsExact
<1>3. CASE TabletReceives
  <2>1. stage = "pushed" /\ sent # NoPolicy /\ Normalized(sent) /\ PyVerdict(doc) = "ok"
    BY <1>3 DEF TabletReceives, Copies
  <2>2. stored' = sent /\ stage' = "stored"
    BY <1>3, <2>1, KtFixpoint DEF TabletReceives, TabletStores
  <2>3. UNCHANGED <<doc, sent, desired>>
    BY <1>3 DEF TabletReceives, TabletStores
  <2>4. DOMAIN doc \cap Forbidden = {}
    BY <2>1 DEF PyVerdict, Verdict
  <2> QED BY <2>1, <2>2, <2>3, <2>4
          DEF TypeOK, Copies, PushIsStoredExactly, ReadBackIsExact
<1>4. CASE DirectPut
  <2>1. CASE KtVerdict(doc) = "ok"
    <3>1. stored' = KtNormal(doc) /\ stage' = "stored" /\ stage = "raw"
          /\ UNCHANGED <<doc, sent, desired>>
      BY <1>4, <2>1 DEF DirectPut, TabletStores
    <3>2. Normalized(KtNormal(doc))
      BY <1>0, <2>1, KtNormalForm
    <3>3. KtNormal(doc) \in Policy
      BY <3>2 DEF Normalized
    <3>4. DOMAIN doc \cap Forbidden = {}
      BY <2>1 DEF KtVerdict, Verdict
    <3> QED BY <3>1, <3>2, <3>3, <3>4, RoundTripAssumption
            DEF TypeOK, Copies, PushIsStoredExactly, ReadBackIsExact
  <2>2. CASE KtVerdict(doc) # "ok"
    BY <1>4, <2>2 DEF DirectPut, TabletStores, TypeOK, Copies,
                      PushIsStoredExactly, ReadBackIsExact
  <2> QED BY <2>1, <2>2
<1>5. CASE HaAdopts
  <2>1. Normalized(stored) /\ stored # NoPolicy
    BY <1>5 DEF HaAdopts, Copies
  <2>2. desired' = stored
    BY <1>5, <2>1, PyFixpoint DEF HaAdopts
  <2> QED BY <1>5, <2>1, <2>2
          DEF HaAdopts, TypeOK, Copies, PushIsStoredExactly, ReadBackIsExact
<1>6. CASE UNCHANGED vars
  BY <1>6 DEF vars, TypeOK, Copies, PushIsStoredExactly, ReadBackIsExact
<1> QED BY <1>1, <1>2, <1>3, <1>4, <1>5, <1>6 DEF Next

\* Everything below follows from the invariant.
LEMMA Invariance == Spec => []IInv
BY InitIInv, NextIInv, PTL DEF Spec

\* Every stage holds a document or policies of the declared shape.
THEOREM TypeCorrect == Spec => []TypeOK
BY Invariance, PTL DEF IInv

\* The tablet stores exactly what Home Assistant pushed, for any document.
THEOREM ExactStore == Spec => []PushIsStoredExactly
BY Invariance, PTL DEF IInv

\* Whatever the tablet stored, Home Assistant reads back the same policy.
THEOREM ExactReadBack == Spec => []ReadBackIsExact
BY Invariance, PTL DEF IInv

\* No stored policy can sever the management path or strand the operator.
THEOREM Recoverable == Spec => []StoredIsRecoverable
<1>1. IInv => StoredIsRecoverable
  <2> SUFFICES ASSUME Copies, stored # NoPolicy
               PROVE  StoredIsRecoverable
    BY DEF IInv, StoredIsRecoverable
  <2>1. Normalized(stored) /\ DOMAIN doc \cap Forbidden = {}
    BY DEF Copies
  <2>2. stored.kiosk_packages = stored.kiosk_packages \ {DpcPackage}
        /\ stored.allowed_packages = FoldKiosk(stored.app_mode,
                                       stored.kiosk_packages \ {DpcPackage},
                                       stored.allowed_packages \ {DpcPackage})
    BY <2>1 DEF Normalized, Normalize, Policy
  <2>3. DpcPackage \notin stored.kiosk_packages \cup stored.allowed_packages
    BY <2>2 DEF FoldKiosk
  <2>4. stored.app_mode = "allowlist" =>
          stored.kiosk_packages \subseteq stored.allowed_packages
    BY <2>2 DEF FoldKiosk
  <2> QED BY <2>1, <2>3, <2>4 DEF StoredIsRecoverable
<1> QED BY <1>1, Invariance, PTL

\* The two guards read every document alike.
THEOREM Agreement == Spec => []GuardsAgree
<1>1. IInv => GuardsAgree
  BY KtFollowsPy DEF IInv, TypeOK, GuardsAgree, PyVerdict, KtVerdict, Verdict
<1> QED BY <1>1, Invariance, PTL
=============================================================================
