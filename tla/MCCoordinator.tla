--------------------------- MODULE MCCoordinator ---------------------------
(* Small instances of the coordinator and its tablet.                      *)
EXTENDS Coordinator

MCFlags    == {"kiosk_mode", "camera_disabled", "status_bar_disabled"}
MCPackages == {"app", "dpc", "5"}

\* A tablet set up earlier: one flag on that no operator touches.
Before == [DefaultPolicy EXCEPT !.flags["status_bar_disabled"] = TRUE,
                                !.kiosk_packages = {"app"}]
\* Under the allowlist, with a kiosk target, kiosk off.
Listed == [Before EXCEPT !.app_mode = "allowlist", !.allowed_packages = {"app"}]

MCInitial == {Before}
MCListed  == {Listed}
MCForeign == {Before, Foreign}

Flag(k, v)    == [kind |-> "flag", key |-> k, value |-> v]
KioskOn       == Flag("kiosk_mode", TRUE)
CameraOff     == Flag("camera_disabled", TRUE)
Listing       == [kind |-> "app_mode", value |-> "allowlist"]
Profile       == [kind |-> "whole",
                  value |-> [DefaultPolicy EXCEPT !.flags["camera_disabled"] = TRUE]]

\* How many calls fail, requests come late, and how often each side restarts.
Faults(f, l, r, b) == [failures |-> f, late |-> l, restarts |-> r, reboots |-> b]
NoFaults   == {Faults(0, 0, 0, 0)}
LostCall   == {Faults(1, 0, 0, 0)}
LostSetup  == {Faults(2, 0, 0, 0)}  \* the read at setup and the first refresh
\* Each side restarts with a request still on its way; or the tablet is
\* silent through setup, the first refresh and the read before a change.
Restarting == {Faults(1, 1, 0, 1), Faults(0, 1, 1, 0), Faults(3, 0, 0, 0)}

MCFlagged == {KioskOn, CameraOff}
\* Each safe alone, unsafe together: the profile has no kiosk target.
MCPushing == {KioskOn, Profile}
MCWhole   == {Profile}
MCMixed   == {CameraOff, Listing}

\* Every operator may ask for anything, or each for something of its own.
MCAnything == [w \in Writers |-> Requests]
MCOneEach ==
  CHOOSE asks \in [Writers -> {{r} : r \in Requests}] :
    \A v, w \in Writers : asks[v] = asks[w] => v = w
=============================================================================
