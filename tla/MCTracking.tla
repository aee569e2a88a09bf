----------------------------- MODULE MCTracking -----------------------------
(* Two tablets that an operator pairs and two addresses one of them takes  *)
(* from the other; t2's Android gives its MAC to the controller.           *)
EXTENDS Tracking, TLC

CONSTANTS t1, t2, a1, a2

\* t2 joins the network later.
MCPlaces == {(t1 :> a1) @@ (t2 :> None)}

\* Moves, rotated tokens, lost exchanges, config flows and reloads.
Bounded(m, r, l, f, o) ==
  [moves |-> m, rotations |-> r, lost |-> l, flows |-> f, reloads |-> o]

\* A tablet that loses its address to another while its token changes; flows
\* that pair both, or pair one twice; a lost answer and a restart.
MCBudgets == {Bounded(3, 1, 0, 2, 0), Bounded(2, 1, 0, 3, 0), Bounded(2, 0, 1, 2, 1)}
MCMoves   == {Bounded(3, 0, 0, 1, 0)}
=============================================================================
