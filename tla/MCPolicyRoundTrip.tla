------------------------- MODULE MCPolicyRoundTrip -------------------------
(* Two flags, an application, the controller's own package and the name a  *)
(* number is coerced to: every key missing, well typed or ill typed.       *)
(* Separately, every document without lists beside a forbidden or an       *)
(* unknown key.                                                            *)
EXTENDS PolicyRoundTrip, TLC

MCFlags     == {"kiosk_mode", "camera_disabled"}
MCPackages  == {"app", "dpc", "5"}
MCForbidden == {"no_config_wifi"}
Unknown     == "screen_timeout"

\* A list may name nothing, an application, the controller or both, and may
\* have an empty or a non-string entry, alone or beside a name.
MCLists == {Other, List({"app"}, "empty"), List({}, "nonstring"),
            List({"5", "dpc"}, "nonstring")}
           \cup {List(s, "none") : s \in SUBSET {"app", "dpc"}}

\* The document over the given keys with these values.
Document(keys, flags, lists, mode) ==
  [k \in keys |-> CASE k \in MCFlags    -> flags[k]
                    [] k \in ListKeys   -> lists[k]
                    [] k = "app_mode"   -> mode
                    [] OTHER            -> Bool(FALSE)]

MCDocs ==
  { Document(KnownKeys \ missing, flags, lists, mode) :
      missing \in { {}, {"kiosk_mode"}, {"app_mode"}, {"kiosk_packages"},
                    {"allowed_packages"}, ListKeys, KnownKeys },
      flags \in [MCFlags -> FlagValues],
      lists \in [ListKeys -> MCLists],
      mode \in ModeValues }
  \cup
  { Document(keys \cup {extra}, flags, [k \in ListKeys |-> Other], mode) :
      extra \in MCForbidden \cup {Unknown},
      keys  \in SUBSET (KnownKeys \ ListKeys),
      flags \in [MCFlags -> FlagValues],
      mode  \in ModeValues }
=============================================================================
