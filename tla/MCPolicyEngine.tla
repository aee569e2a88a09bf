--------------------------- MODULE MCPolicyEngine ---------------------------
(* Two flags, each silent on one tier; the controller, an ordinary         *)
(* application and one the platform refuses to suspend.                    *)
EXTENDS PolicyEngine

MCOrder    == <<"status_bar_disabled", "stay_awake_on_power">>
MCPackages == {"dpc", "game", "dialer"}
MCSilent   == [owner |-> {"status_bar_disabled"}, admin |-> {"stay_awake_on_power"},
               none |-> {}]

Document(on, mode, allowed) ==
  [flags |-> [k \in {"status_bar_disabled", "stay_awake_on_power"} |-> on],
   app_mode |-> mode, allowed_packages |-> allowed]
Locked   == Document(TRUE, "allowlist", {"dialer"})
Approved == Document(FALSE, "allowlist", {"game"})
Unlocked == Document(FALSE, "open", {})

MCDocuments == {Locked, Approved, Unlocked}

Adversity(p, i, f, c) == [puts |-> p, packages |-> i, failures |-> f, crashes |-> c]
MCBudgets == {Adversity(3, 0, 0, 0), Adversity(2, 0, 0, 1),
              Adversity(1, 2, 0, 1), Adversity(1, 1, 1, 0), Adversity(1, 0, 1, 1)}
OneFailure == {Adversity(3, 0, 1, 0)}
TwoPuts == {Adversity(2, 0, 0, 0)}
=============================================================================
