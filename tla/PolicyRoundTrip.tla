-------------------------- MODULE PolicyRoundTrip --------------------------
(***************************************************************************)
(* One policy document through both guards and back: an operator's         *)
(* document is checked by Home Assistant and pushed, or is put straight to *)
(* the tablet by another holder of the token; the tablet stores what its   *)
(* own guard returns and reports it; Home Assistant reads the report with  *)
(* the first guard again.                                                  *)
(***************************************************************************)
EXTENDS PolicyDoc

CONSTANTS Docs,     \* the raw documents put in
          NoPolicy  \* nothing there yet

ASSUME RoundTripAssumption ==
  /\ \A d \in Docs : JsonObject(d)
  /\ NoPolicy \notin Policy

VARIABLES doc,      \* the raw document
          sent,     \* what Home Assistant put on the wire
          stored,   \* what the tablet holds
          desired,  \* what Home Assistant reads back
          stage
vars == <<doc, sent, stored, desired, stage>>

Init == /\ doc \in Docs
        /\ sent = NoPolicy /\ stored = NoPolicy /\ desired = NoPolicy
        /\ stage = "raw"

\* coordinator.async_apply_policy and client.async_set_policy: both validate.
HaPushes ==
  /\ stage = "raw"
  /\ PyVerdict(doc) = "ok"
  /\ PyVerdict(ToJson(PyNormal(doc))) = "ok"
  /\ sent' = PyNormal(ToJson(PyNormal(doc)))
  /\ stage' = "pushed"
  /\ UNCHANGED <<doc, stored, desired>>

HaRefuses ==
  /\ stage = "raw"
  /\ PyVerdict(doc) # "ok"
  /\ stage' = "refused"
  /\ UNCHANGED <<doc, sent, stored, desired>>

\* HttpServer.putPolicy: parse, then engine.apply stores the result.  The
\* tablet has an owner or an admin: without, it stores no document at all.
TabletStores(d, answer) ==
  /\ stage' = IF KtVerdict(d) = "ok" THEN "stored" ELSE answer
  /\ stored' = IF KtVerdict(d) = "ok" THEN KtNormal(d) ELSE stored
  /\ UNCHANGED <<doc, sent, desired>>

TabletReceives == stage = "pushed" /\ TabletStores(ToJson(sent), "bounced")
DirectPut      == stage = "raw" /\ TabletStores(doc, "refused")

\* coordinator._adopt_policy on the reported policy: the stored one, which
\* PolicyStore reads through the guard again and so unchanged (KtFixpoint).
HaAdopts ==
  /\ stage = "stored"
  /\ desired' = IF PyVerdict(ToJson(stored)) = "ok"
                THEN PyNormal(ToJson(stored)) ELSE DefaultPolicy
  /\ stage' = "adopted"
  /\ UNCHANGED <<doc, sent, stored>>

Next == HaPushes \/ HaRefuses \/ TabletReceives \/ DirectPut \/ HaAdopts

Spec == Init /\ [][Next]_vars

-----------------------------------------------------------------------------
TypeOK ==
  /\ JsonObject(doc)
  /\ sent \in Policy \cup {NoPolicy}
  /\ stored \in Policy \cup {NoPolicy}
  /\ desired \in Policy \cup {NoPolicy}
  /\ stage \in {"raw", "pushed", "refused", "bounced", "stored", "adopted"}

\* The tablet never refuses a document Home Assistant's guard let through,
\* and stores exactly what was sent.  Were it to store anything else, every
\* report would read as drift and be pushed again for ever.
PushIsStoredExactly ==
  /\ stage # "bounced"
  /\ (sent # NoPolicy /\ stored # NoPolicy) => stored = sent

\* Whatever the tablet stores, by whichever way it came, Home Assistant can
\* own: reading it back gives the same policy and never the all-off default
\* that stands in for a policy it cannot own.
ReadBackIsExact == desired # NoPolicy => desired = stored

\* No document with a key that can sever the management path is stored, and
\* no kiosk without an application or allowlist without a package is.
StoredIsRecoverable ==
  stored # NoPolicy =>
    /\ DOMAIN doc \cap Forbidden = {}
    /\ Normalized(stored)
    /\ DpcPackage \notin stored.kiosk_packages \cup stored.allowed_packages
    /\ stored.app_mode = "allowlist" =>
         stored.kiosk_packages \subseteq stored.allowed_packages

\* The two guards read a document alike: what Home Assistant accepts, the
\* tablet accepts and normalises to the same policy; what they both refuse
\* for a forbidden key both call unsafe.
GuardsAgree ==
  /\ PyVerdict(doc) = "ok" =>
       KtVerdict(doc) = "ok" /\ KtNormal(doc) = PyNormal(doc)
  /\ DOMAIN doc \cap Forbidden # {} =>
       PyVerdict(doc) = "unsafe" /\ KtVerdict(doc) = "unsafe"
=============================================================================
