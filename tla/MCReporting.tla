---------------------------- MODULE MCReporting ----------------------------
(* One tablet and a Home Assistant that may come back at another address.  *)
EXTENDS Reporting

Bounded(l, r, b, p, k, a) ==
  [lost |-> l, restarts |-> r, reboots |-> b, pushes |-> p, packages |-> k, presses |-> a]

\* A restart with lost calls and a reboot; a push with a reboot or a lost
\* call; two pushes and a held package; buttons, with a lost call or a reboot.
MCBudgets == {Bounded(2, 1, 1, 0, 0, 0), Bounded(0, 0, 1, 1, 0, 0),
              Bounded(1, 0, 0, 1, 0, 0), Bounded(0, 0, 0, 2, 1, 0),
              Bounded(1, 0, 0, 0, 0, 2), Bounded(0, 0, 1, 0, 0, 1)}
=============================================================================
