----------------------------- MODULE MCInstaller -----------------------------
(* An application with a digest, one without, an update of the controller. *)
EXTENDS Installer

Adversity(f, c) == [failures |-> f, crashes |-> c]
MCBudgets == {Adversity(1, 1)}
=============================================================================
