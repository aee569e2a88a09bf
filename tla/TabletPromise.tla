--------------------------- MODULE TabletPromise ---------------------------
(***************************************************************************)
(* What a tablet promises Home Assistant about its flags, whatever it      *)
(* takes to enforce them (PolicyEngine.kt, PolicyStore.kt) and however     *)
(* many policies it is enforcing at once: the policy it holds is only ever *)
(* replaced, as a whole, by one it is enforcing; a flag in force is only   *)
(* ever turned to the value of such a policy; when work that nothing       *)
(* overlapped is over, a flag reported applied is in force.  A restart may *)
(* set it back to the policy its disk held, which it enforces again.       *)
(***************************************************************************)
CONSTANTS Flags, Policies, Outcomes

VARIABLES
  told,      \* the flags whose failing calls its platform tells of
  policy,    \* the policy the tablet holds and reports
  durable,   \* the policy a restart would bring back
  inForce,   \* each flag's value in force
  reported,  \* the outcome reported of each flag
  state,     \* "down", "busy" or "settled"
  enforcing, \* the policies whose flags are being turned
  alone      \* nothing has overlapped since a policy was begun on its own

promise == <<told, policy, durable, inForce, reported, state, enforcing, alone>>

Holds == \A k \in told : reported[k] = "applied" => inForce[k] = policy.flags[k]

Init ==
  /\ told \subseteq Flags
  /\ policy \in Policies /\ durable = policy
  /\ inForce \in [Flags -> BOOLEAN]
  /\ reported \in [Flags -> Outcomes]
  /\ state = "down" /\ enforcing = {} /\ alone = FALSE

\* A policy comes; after a restart, first the one the tablet holds.
Begin(p) ==
  /\ state = "down" => p = policy
  /\ state' = "busy" /\ enforcing' = enforcing \cup {p}
  /\ alone' = (state # "busy")
  /\ UNCHANGED <<policy, durable, inForce, reported>>

\* Other work, on the same store.
Attend ==
  /\ state # "down" /\ state' = "busy"
  /\ alone' = (alone /\ state # "busy")
  /\ UNCHANGED <<policy, durable, inForce, reported, enforcing>>

Replace ==
  /\ policy' \in enforcing
  /\ UNCHANGED <<durable, inForce, reported, state, enforcing, alone>>

\* One flag's call, which may fail; after a policy's last it is enforced.
Turn(k) ==
  /\ \E p \in enforcing :
       /\ inForce' \in {inForce, [inForce EXCEPT ![k] = p.flags[k]]}
       /\ enforcing' \in {enforcing, enforcing \ {p}}
  /\ UNCHANGED <<policy, durable, reported, state, alone>>

Report ==
  /\ state # "settled" /\ state' \in {"busy", "settled"}
  /\ reported' \in [Flags -> Outcomes]
  /\ state' = "settled" /\ alone => Holds'
  /\ UNCHANGED <<policy, durable, inForce, enforcing, alone>>

Persist ==
  /\ durable' = policy
  /\ UNCHANGED <<policy, inForce, reported, state, enforcing, alone>>

Restart ==
  /\ state' = "down" /\ policy' = durable /\ enforcing' = {}
  /\ reported' \in [Flags -> Outcomes]
  /\ UNCHANGED <<durable, inForce, alone>>

Next ==
  /\ \/ \E p \in Policies : Begin(p)
     \/ Attend \/ Replace \/ (\E k \in Flags : Turn(k)) \/ Report \/ Persist \/ Restart
  /\ UNCHANGED told

Spec == Init /\ [][Next]_promise
=============================================================================
