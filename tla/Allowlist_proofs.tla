-------------------------- MODULE Allowlist_proofs --------------------------
(***************************************************************************)
(* The allowlist holds, and what awaits approval is held back by it: the   *)
(* proofs, for any packages and policies, any threads applying at once,    *)
(* any failures and crashes, and packages that come and go at any moment.  *)
(*                                                                         *)
(* What an apply reads of the packages may be wrong a moment later, and    *)
(* what the store says of them too; a broadcast then waits or is being     *)
(* handled, or the service was starting and the package is unseen.  The    *)
(* invariant states each fact up to those.                                 *)
(***************************************************************************)
EXTENDS PolicyEngine_proofs

\* The packages a policy leaves nobody, installed or not.
Barred(p) ==
  IF p.app_mode = "allowlist" THEN (Packages \ Kept) \ p.allowed_packages ELSE {}

\* The packages whose broadcast of a kind waits.
Waiting(kind) ==
  {p \in Packages : \E i \in DOMAIN events : events[i] = [kind |-> kind, package |-> p]}

\* The main thread is handling a package that came.
Adding == pc[Main] \in Receiving \ Forgetting

\* The packages that came, or went, of which the policy has yet to be told:
\* by a broadcast that waits or is being handled, or by none.
Coming == Waiting("added") \cup unseen \cup (IF Adding THEN {job[Main].package} ELSE {})
Going  == Waiting("removed") \cup unseen
            \cup (IF pc[Main] = "cleared" THEN {job[Main].package} ELSE {})

\* Held by the platform, recorded as stuck, or about to be told of.
Covered(p, stuck) == Wanted(p) \subseteq suspended \cup stuck \cup Coming

\* Fit to await approval: barred, and there unless about to be told of.
Shown(P, p) == P \subseteq Barred(p) /\ P \subseteq installed \cup Going

\* What a job wants to suspend is so barred, and all of it but for what it
\* will be told of.
View(j) == Shown(j.wanted, j.policy) /\ Wanted(j.policy) \subseteq j.wanted \cup Coming

\* The steps of an apply.
Working == {"policy", "flags", "enforcement"} \cup AppMode

\* The outcomes that promise an allowlist.
Promising == {"applied", "limited"}
-----------------------------------------------------------------------------
(* The invariant.                                                          *)

\* What is never suspended stays, and no broadcast tells of its coming.
KeptStay ==
  /\ Kept \subseteq installed /\ Waiting("added") \cap Kept = {}
  /\ Adding => job[Main].package \notin Kept

\* Only an owner applies an app mode, hears of packages or holds one.
OwnersOnly ==
  /\ tier # "owner" => store.pending = {} /\ disk.pending = {} /\ events = <<>>
  /\ \A t \in Threads : pc[t] \in AppMode \cup Receiving => tier = "owner"

\* The outcome of an app mode is one of an attempt.
OutcomesKnown == \A t \in Threads : job[t].outcome \in {"applied"} \cup Refusals

ModeBase == KeptStay /\ OwnersOnly /\ OutcomesKnown

\* What is true of the work that is at a step, while nothing began beside
\* something else.  After the calls that succeeded the policy's packages are
\* covered; what it writes as awaiting approval is fit to.
Mode(step, j) ==
  /\ step \in AppMode \ {"packages"} => View(j)
  /\ step \in {"suspended", "unsuspendable", "filter", "pending"} /\ j.outcome = "applied" =>
       Covered(j.policy, j.stuck)
  /\ step \in {"filter", "pending"} => store.unsuspendable = j.stuck
  /\ step \in {"pending", "awaits"} => Shown(j.pending, j.policy)
  /\ step = "enforcement" =>
       /\ Shown(store.pending, j.policy)
       /\ j.result["app_mode"] \in Promising =>
            tier = "owner" /\ Covered(j.policy, store.unsuspendable)
  /\ step = "awaiting" => Shown({j.package}, j.policy)
  /\ step = "cleared" => Shown(j.pending, store.policy) /\ j.package \notin j.pending

\* When no apply is on its way, what the store says is so.
Standing == up /\ \A t \in Threads : pc[t] \in {"idle"} \cup Receiving
StandsTrue ==
  Standing =>
    /\ Shown(store.pending, store.policy)
    /\ store.enforcement["app_mode"] \in Promising =>
         tier = "owner" /\ Covered(store.policy, store.unsuspendable)

ModeSole == StandsTrue /\ \A t \in Threads : Mode(pc[t], job[t])

ModeInv == FlagInv /\ ModeBase /\ (alone => ModeSole)
-----------------------------------------------------------------------------
(* Packages and broadcasts.                                                *)

LEMMA WantedIsBarred ==
  ASSUME installed \subseteq Packages, NEW p
  PROVE  Wanted(p) = installed \cap Barred(p)
BY DEF Wanted, Barred

LEMMA Announced ==
  ASSUME TypeOK, NEW k \in {"added", "removed"}, NEW p \in Packages,
         events' = Append(events, [kind |-> k, package |-> p])
  PROVE  /\ p \in Waiting(k)'
         /\ \A j : Waiting(j) \subseteq Waiting(j)'
         /\ \A j : j # k => Waiting(j)' \subseteq Waiting(j)
         /\ \A j : Waiting(j)' \subseteq Waiting(j) \cup {p}
<1> DEFINE e == [kind |-> k, package |-> p]
<1>1. /\ events \in Seq([kind : {"added", "removed"}, package : Packages]) /\ Len(events) \in Nat
      /\ DOMAIN events = 1..Len(events) /\ events' = Append(events, e)
  BY DEF TypeOK
<1>2. /\ DOMAIN events' = 1..(Len(events) + 1)
      /\ events'[Len(events) + 1] = e /\ Len(events) + 1 \in DOMAIN events'
      /\ \A i \in DOMAIN events : i \in DOMAIN events' /\ events'[i] = events[i]
      /\ \A i \in DOMAIN events' : i = Len(events) + 1 \/ i \in DOMAIN events
  BY <1>1
<1>3. ASSUME NEW j, NEW q, [kind |-> j, package |-> q] = e
      PROVE  q = p /\ j = k
  BY <1>3, [kind |-> j, package |-> q].package = q, [kind |-> j, package |-> q].kind = j
<1> HIDE DEF e
<1>4. p \in Waiting(k)'
  BY <1>2 DEF Waiting, e
<1>5. \A j : Waiting(j) \subseteq Waiting(j)'
  BY <1>2 DEF Waiting
<1>6. ASSUME NEW j, NEW q \in Waiting(j)'
      PROVE  q \in Waiting(j) \/ (q = p /\ j = k)
  <2>1. PICK i \in DOMAIN events' : events'[i] = [kind |-> j, package |-> q]
    BY <1>6 DEF Waiting
  <2>2. CASE i \in DOMAIN events
    BY <1>2, <1>6, <2>1, <2>2 DEF Waiting
  <2>3. CASE i = Len(events) + 1
    BY <1>2, <1>3, <2>1, <2>3
  <2> QED BY <1>2, <2>2, <2>3
<1> QED BY <1>4, <1>5, <1>6

LEMMA Heard ==
  ASSUME TypeOK, events # <<>>, events' = Tail(events)
  PROVE  /\ \A j : Waiting(j)' \subseteq Waiting(j)
         /\ \A j : Waiting(j) \ {Head(events).package} \subseteq Waiting(j)'
         /\ \A j : j # Head(events).kind => Waiting(j) \subseteq Waiting(j)'
         /\ Head(events).package \in Waiting(Head(events).kind)
<1> DEFINE h == Head(events)
<1>1. /\ events \in Seq([kind : {"added", "removed"}, package : Packages]) /\ Len(events) \in Nat
      /\ DOMAIN events = 1..Len(events) /\ Len(events) # 0
  BY DEF TypeOK
<1>2. /\ DOMAIN events' = 1..(Len(events) - 1) /\ h = events[1] /\ 1 \in DOMAIN events
      /\ \A i \in 1..(Len(events) - 1) : events'[i] = events[i + 1]
  BY <1>1
<1>3. \A i \in DOMAIN events' : events'[i] = events[i + 1] /\ i + 1 \in DOMAIN events
  BY <1>1, <1>2
<1>4. ASSUME NEW i \in DOMAIN events, i # 1
      PROVE  i - 1 \in DOMAIN events' /\ events'[i - 1] = events[i]
  <2>1. i - 1 \in 1..(Len(events) - 1) /\ (i - 1) + 1 = i
    BY <1>1, <1>4
  <2> QED BY <1>2, <2>1
<1>5. h = [kind |-> h.kind, package |-> h.package] /\ h.package \in Packages
  <2>1. h \in [kind : {"added", "removed"}, package : Packages]
    BY <1>1, HeadAndTail
  <2> QED BY <2>1
<1>6. ASSUME NEW j, NEW q, [kind |-> j, package |-> q] = h
      PROVE  q = h.package /\ j = h.kind
  BY <1>6, [kind |-> j, package |-> q].package = q, [kind |-> j, package |-> q].kind = j
<1> HIDE DEF h
<1>7. \A j : Waiting(j)' \subseteq Waiting(j)
  BY <1>3 DEF Waiting
<1>8. ASSUME NEW j, NEW q \in Waiting(j), q # h.package \/ j # h.kind
      PROVE  q \in Waiting(j)'
  <2>1. PICK i \in DOMAIN events : events[i] = [kind |-> j, package |-> q]
    BY DEF Waiting
  <2>2. i # 1
    BY <1>2, <1>6, <1>8, <2>1
  <2>3. q \in Packages /\ i - 1 \in DOMAIN events' /\ events'[i - 1] = [kind |-> j, package |-> q]
    BY <1>4, <2>1, <2>2 DEF Waiting
  <2> QED BY <2>3 DEF Waiting
<1>9. h.package \in Waiting(h.kind)
  BY <1>2, <1>5 DEF Waiting
<1> QED BY <1>7, <1>8, <1>9 DEF h
-----------------------------------------------------------------------------
(* What holds however work overlaps.                                       *)

LEMMA InitMode == Init => ModeInv
<1> SUFFICES ASSUME Init PROVE ModeInv
  OBVIOUS
<1>1. FlagInv /\ alone = FALSE
  BY InitFlags DEF Init
<1>2. KeptStay
  BY EngineAssumption DEF Init, KeptStay, Waiting, Adding, Receiving, Forgetting, Threads
<1>3. OwnersOnly /\ OutcomesKnown
  BY DEF Init, OwnersOnly, OutcomesKnown, Fresh, NoJob, NewJob, AppMode, Receiving, Forgetting
<1> QED BY <1>1, <1>2, <1>3 DEF ModeInv, ModeBase

\* A thread goes on, or begins, with no broadcast heard.
LEMMA StepModeBase ==
  ASSUME TypeOK, ModeBase, NEW t \in Threads, NEW step \in Steps, NEW j \in Job,
         Goto(t, step), Begin(t, j), j.outcome \in {"applied"} \cup Refusals,
         step \in AppMode \cup Receiving => tier = "owner",
         tier # "owner" => store'.pending = store.pending,
         t = Main /\ step \in Receiving \ Forgetting => j.package \notin Kept,
         UNCHANGED <<disk, tier, installed, events>>
  PROVE  ModeBase'
<1>1. /\ pc'[t] = step /\ \A u \in Threads : u # t => pc'[u] = pc[u]
      /\ job'[t] = j /\ \A u \in Threads : u # t => job'[u] = job[u]
  BY Stepped, Begun
<1>2. KeptStay'
  <2>1. Adding' => job'[Main].package \notin Kept
    <3>1. CASE t = Main
      BY <1>1, <3>1 DEF Adding
    <3>2. CASE t # Main
      BY <1>1, <3>2 DEF Adding, ModeBase, KeptStay, Threads
    <3> QED BY <3>1, <3>2
  <2> QED BY <2>1 DEF ModeBase, KeptStay, Waiting
<1>3. OwnersOnly'
  BY <1>1 DEF ModeBase, OwnersOnly
<1>4. OutcomesKnown'
  BY <1>1 DEF ModeBase, OutcomesKnown
<1> QED BY <1>2, <1>3, <1>4 DEF ModeBase

LEMMA BeginningModeBase ==
  ASSUME TypeOK, ModeBase,
         \/ \E t \in Handlers, p \in Documents : PutPolicy(t, p)
         \/ ServiceStarts \/ PackageAdded \/ PackageRemoved
  PROVE  ModeBase'
<1>t. /\ store \in Record /\ store.policy \in Policy /\ store.pending \subseteq Packages
      /\ Main \in Threads /\ Handlers \subseteq Threads
  <2>1. store \in Record
    BY DEF TypeOK
  <2> QED BY <2>1, StoreFields DEF Threads
<1>b. ASSUME NEW t \in Threads, NEW p \in Policy, Goto(t, "policy"), Begin(t, NewJob(p, "none")),
             UNCHANGED <<store, disk, tier, installed, events>>
      PROVE  ModeBase'
  <2>1. /\ NewJob(p, "none") \in Job /\ NewJob(p, "none").outcome = "applied"
        /\ "policy" \in Steps /\ "policy" \notin AppMode \cup Receiving
    BY NewJobType DEF NewJob, Steps, AppMode, Receiving, Forgetting
  <2> QED BY <1>b, <2>1, StepModeBase
\* The next broadcast is one of those that wait.
<1>h. ASSUME NEW kind, NEW to \in Receiving, NEW j \in Job, Handles(kind, to, j),
             j.outcome = "applied", j.package = Head(events).package,
             to \in Forgetting \/ kind = "added"
      PROVE  ModeBase'
  <2>1. /\ events # <<>> /\ events' = Tail(events) /\ Head(events).kind = kind
        /\ Goto(Main, to) /\ Begin(Main, j) /\ UNCHANGED <<store, disk, tier, installed>>
    BY <1>h DEF Handles, platform
  <2>2. /\ Waiting("added")' \subseteq Waiting("added")
        /\ Head(events).package \in Waiting(kind)
    BY <2>1, Heard
  <2>3. to \in Steps
    BY DEF Receiving, Forgetting, Steps
  <2>4. /\ pc'[Main] = to /\ \A u \in Threads : u # Main => pc'[u] = pc[u]
        /\ job'[Main] = j /\ \A u \in Threads : u # Main => job'[u] = job[u]
    BY <1>t, <2>1, <2>3, Stepped, Begun
  <2>5. tier = "owner"
    BY <2>1 DEF ModeBase, OwnersOnly
  <2>6. KeptStay'
    <3>1. Adding' => job'[Main].package \notin Kept
      BY <1>h, <2>2, <2>4 DEF Adding, ModeBase, KeptStay
    <3> QED BY <2>1, <2>2, <3>1 DEF ModeBase, KeptStay
  <2>7. OwnersOnly' /\ OutcomesKnown'
    BY <1>h, <2>1, <2>4, <2>5 DEF ModeBase, OwnersOnly, OutcomesKnown
  <2> QED BY <2>6, <2>7 DEF ModeBase
<1>p. ASSUME PackageAdded \/ PackageRemoved
      PROVE  Head(events).package \in Packages
  BY <1>p, FirstEvent DEF PackageAdded, PackageRemoved, Handles
<1>1. ASSUME NEW t \in Handlers, NEW p \in Documents, PutPolicy(t, p) PROVE ModeBase'
  BY <1>1, <1>t, <1>b, EngineAssumption DEF PutPolicy, platform
<1>2. CASE ServiceStarts
  <2>1. CASE tier = "none"
    BY <1>2, <2>1 DEF ServiceStarts, ModeBase, KeptStay, OwnersOnly, OutcomesKnown, Waiting,
       Adding, platform
  <2>2. CASE tier # "none"
    BY <1>2, <1>t, <1>b, <2>2 DEF ServiceStarts, platform
  <2> QED BY <2>1, <2>2
<1>3. CASE PackageAdded
  <2> DEFINE j == NewJob(store.policy, Head(events).package)
  <2>1. j \in Job /\ j.outcome = "applied" /\ j.package = Head(events).package
    BY <1>3, <1>p, <1>t, NewJobType DEF NewJob
  <2>2. Handles("added", "launchable", j)
    BY <1>3 DEF PackageAdded
  <2> HIDE DEF j
  <2> QED BY <2>1, <2>2, <1>h DEF Receiving
<1>4. CASE PackageRemoved
  <2> DEFINE p == Head(events).package
             j == [NewJob(Default, p) EXCEPT !.pending = store.pending \ {p}]
  <2>1. j \in Job /\ j.outcome = "applied" /\ j.package = p
    <3>1. /\ NewJob(Default, p) \in Job /\ NewJob(Default, p).outcome = "applied"
          /\ NewJob(Default, p).package = p
      BY <1>4, <1>p, DefaultTypes, NewJobType DEF NewJob
    <3> QED BY <1>t, <3>1 DEF Job
  <2>2. Handles("removed", "cleared", j)
    BY <1>4 DEF PackageRemoved
  <2> HIDE DEF j
  <2> QED BY <2>1, <2>2, <1>h DEF Receiving, Forgetting
<1> QED BY <1>1, <1>2, <1>3, <1>4

\* A flag's attempt ends: an owner goes on to the packages.
LEMMA FinishModeBase ==
  ASSUME TypeOK, ModeBase, NEW t \in Threads, NEW o \in Outcomes, Finish(t, o)
  PROVE  ModeBase'
<1>1. /\ job[t] \in Job /\ Goto(t, AfterFlag(t)) /\ Begin(t, After(t, o))
      /\ UNCHANGED <<store, disk, tier, installed, events>>
  BY DEF TypeOK, Finish, Ask, After
<1>2. After(t, o) \in Job /\ After(t, o).outcome = job[t].outcome
  BY <1>1, AfterType DEF After, Job
<1>3. job[t].outcome \in {"applied"} \cup Refusals
  BY DEF ModeBase, OutcomesKnown
<1>4. /\ AfterFlag(t) \in Steps /\ AfterFlag(t) \notin Receiving
      /\ AfterFlag(t) \in AppMode => tier = "owner"
  BY DEF AfterFlag, Steps, AppMode, Receiving, Forgetting
<1> QED BY <1>1, <1>2, <1>3, <1>4, StepModeBase

LEMMA ApplyModeBase ==
  ASSUME TypeOK, ModeBase, NEW t \in Threads,
         Apply(t) \/ FlagFails(t) \/ FlagReturnsFalse(t) \/ AppModeFails(t)
  PROVE  ModeBase'
<1> DEFINE j == job[t]
<1>s. /\ store \in Record /\ j \in Job /\ job' \in [Threads -> Job] /\ (Begin(t, j) <=> job' = job)
      /\ j.outcome \in {"applied"} \cup Refusals
  <2>1. [job EXCEPT ![t] = j] = job
    BY DEF TypeOK
  <2>2. TypeOK'
    BY ApplyType
  <2> QED BY <2>1, <2>2 DEF TypeOK, Begin, ModeBase, OutcomesKnown
<1>m. /\ AppMode \cup {"enforcement", "idle", "flags"} \subseteq Steps
      /\ Receiving \cap (AppMode \cup {"enforcement", "idle", "flags"}) = {}
      /\ AppMode \cap {"enforcement", "idle", "flags"} = {}
      /\ pc[t] \in AppMode => tier = "owner"
  BY DEF AppMode, Receiving, Forgetting, Steps, ModeBase, OwnersOnly
\* A step of applyAppMode.
<1>a. ASSUME NEW from \in AppMode, NEW to \in AppMode, NEW i \in Job,
             i.outcome \in {j.outcome} \cup Refusals, Ask(t, from, to, i)
      PROVE  ModeBase'
  <2> HIDE DEF j
  <2>1. tier = "owner" /\ i.outcome \in {"applied"} \cup Refusals
    BY <1>a, <1>m, <1>s DEF Ask
  <2> QED BY <1>a, <1>m, <2>1, StepModeBase DEF Ask
<1>w. ASSUME NEW to \in AppMode \cup {"enforcement", "idle", "flags"},
             to \in AppMode => tier = "owner",
             tier # "owner" => store'.pending = store.pending,
             NEW from, NEW s, Write(t, from, to, s),
             NEW i \in Job, i.outcome \in {"applied"} \cup Refusals, Begin(t, i)
      PROVE  ModeBase'
  <2> HIDE DEF j
  <2> QED BY <1>w, <1>m, StepModeBase DEF Write, platform
<1>k. j.result \in Enforcement /\ j.wanted \subseteq Packages /\ j.stuck \subseteq Packages
  BY <1>s, JobFields
<1>1. CASE StoresPolicy(t)
  BY <1>1, <1>s, <1>m, <1>w DEF StoresPolicy, Record, Write
<1>2. CASE FlagApplied(t) \/ FlagFails(t) \/ FlagReturnsFalse(t) \/ FlagUnsupported(t)
  BY <1>2, FinishModeBase DEF FlagApplied, FlagFails, FlagReturnsFalse, FlagUnsupported, Outcomes
<1>3. CASE ReadsPackages(t)
  <2>1. Wanted(j.policy) \subseteq Packages
    BY DEF TypeOK, Wanted
  <2>2. /\ [j EXCEPT !.wanted = Wanted(j.policy)] \in Job
        /\ [j EXCEPT !.wanted = Wanted(j.policy)].outcome = j.outcome
    BY <1>s, <2>1 DEF Job
  <2> QED BY <1>3, <1>a, <2>2 DEF ReadsPackages, AppMode
<1>4. CASE ReadsSuspended(t)
  <2>1. /\ [j EXCEPT !.before = store.suspended] \in Job
        /\ [j EXCEPT !.before = store.suspended].outcome = j.outcome
    BY <1>s, StoreFields DEF Job
  <2> QED BY <1>4, <1>a, <2>1 DEF ReadsSuspended, Read, AppMode
<1>5. CASE Lifts(t)
  <2>1. /\ [j EXCEPT !.stuck = ToLift(t) \ installed] \in Job
        /\ [j EXCEPT !.stuck = ToLift(t) \ installed].outcome = j.outcome
    BY <1>s DEF ToLift, Job
  <2> QED BY <1>5, <1>a, <2>1 DEF Lifts, AppMode
<1>6. CASE Holds(t)
  <2>1. /\ [j EXCEPT !.stuck = @ \cup Refused(t)] \in Job
        /\ [j EXCEPT !.stuck = @ \cup Refused(t)].outcome = j.outcome
    BY <1>s DEF Refused, Job
  <2> QED BY <1>6, <1>a, <2>1 DEF Holds, AppMode
<1>7. CASE AppModeFails(t)
  <2> PICK o \in Refusals : Ask(t, pc[t], "suspended", [j EXCEPT !.outcome = o])
    BY <1>7 DEF AppModeFails
  <2>1. [j EXCEPT !.outcome = o] \in Job /\ [j EXCEPT !.outcome = o].outcome = o
    BY <1>s DEF Job, Outcomes
  <2> QED BY <1>7, <1>a, <2>1 DEF AppModeFails, AppMode
<1>8. CASE RecordsSuspended(t)
  <2>1. pc[t] \in AppMode
    BY <1>8 DEF RecordsSuspended, Write, AppMode
  <2> QED BY <1>8, <1>s, <1>m, <1>w, <2>1 DEF RecordsSuspended, AppMode
<1>9. CASE RecordsUnsuspendable(t)
  <2>1. pc[t] \in AppMode
    BY <1>9 DEF RecordsUnsuspendable, Write, AppMode
  <2> QED BY <1>9, <1>s, <1>m, <1>w, <2>1 DEF RecordsUnsuspendable, AppMode
<1>10. CASE ReadsPending(t)
  <2>1. /\ [j EXCEPT !.pending = StillPending(t)] \in Job
        /\ [j EXCEPT !.pending = StillPending(t)].outcome = j.outcome
    <3>1. StillPending(t) \subseteq Packages
      BY <1>s, StoreFields DEF StillPending
    <3> QED BY <1>s, <3>1 DEF Job
  <2> QED BY <1>10, <1>a, <2>1 DEF ReadsPending, Read, AppMode
<1>11. CASE RecordsPending(t)
  <2>1. PICK i : Begin(t, i) /\ i = [j EXCEPT !.result["app_mode"] = AppModeResult(t)]
    BY <1>11 DEF RecordsPending
  <2>2. i \in Job /\ i.outcome = j.outcome
    <3>1. job'[t] = i
      BY <2>1 DEF Begin, TypeOK
    <3> QED BY <1>s, <2>1, <3>1 DEF Job
  <2>3. pc[t] \in AppMode
    BY <1>11 DEF RecordsPending, Write, AppMode
  <2> QED BY <1>11, <1>s, <1>m, <1>w, <2>1, <2>2, <2>3 DEF RecordsPending
<1>12. CASE StoresEnforcement(t)
  <2>1. NoJob \in Job /\ NoJob.outcome = "applied"
    BY NoJobType DEF NoJob, NewJob
  <2>2. store'.pending = store.pending
    BY <1>12, <1>s DEF StoresEnforcement, Write, Record
  <2> QED BY <1>12, <1>m, <1>w, <2>1, <2>2 DEF StoresEnforcement
<1> QED BY <1>1, <1>2, <1>3, <1>4, <1>5, <1>6, <1>7, <1>8, <1>9, <1>10, <1>11, <1>12 DEF Apply

LEMMA ReceiveModeBase ==
  ASSUME FlagInv, ModeBase, Receive
  PROVE  ModeBase'
<1> DEFINE j == job[Main]
<1>t. TypeOK /\ TypeOK' /\ Main \in Threads
  BY ReceiveType DEF FlagInv, BaseInv, Threads
<1>s. /\ store \in Record /\ j \in Job /\ (Begin(Main, j) <=> job' = job)
      /\ j.outcome \in {"applied"} \cup Refusals
  <2>1. [job EXCEPT ![Main] = j] = job
    BY <1>t DEF TypeOK
  <2> QED BY <1>t, <2>1 DEF TypeOK, Begin, ModeBase, OutcomesKnown
<1>m. /\ Receiving \cup {"idle", "packages"} \subseteq Steps
      /\ pc[Main] \in Receiving => tier = "owner"
      /\ pc[Main] \in Receiving \ Forgetting => j.package \notin Kept
  BY <1>t DEF Receiving, Forgetting, Steps, ModeBase, OwnersOnly, KeptStay, Adding
\* A handler goes on: with the package it has.
<1>g. ASSUME pc[Main] \in Receiving, NEW to \in Receiving \cup {"idle", "packages"},
             to \in Receiving \ Forgetting => pc[Main] \in Receiving \ Forgetting,
             NEW i \in Job, to \in Receiving \ Forgetting => i.package = j.package,
             i.outcome \in {"applied", j.outcome},
             Goto(Main, to), Begin(Main, i), UNCHANGED <<disk, tier, installed, events>>
      PROVE  ModeBase'
  <2> HIDE DEF j
  <2> QED BY <1>g, <1>m, <1>s, <1>t, StepModeBase
<1>n. NoJob \in Job /\ NoJob.outcome = "applied"
  BY NoJobType DEF NoJob, NewJob
<1>1. CASE QueriesLauncher
  <2>1. /\ pc[Main] = "launchable" /\ UNCHANGED <<disk, tier, installed, events>>
        /\ \/ Goto(Main, "awaiting") /\ Begin(Main, j)
           \/ Goto(Main, "idle") /\ Begin(Main, NoJob)
    BY <1>1 DEF QueriesLauncher, Read, Ask
  <2> QED BY <1>g, <1>n, <1>s, <2>1 DEF Receiving, Forgetting
<1>2. CASE ReadsAwaiting
  <2> DEFINE i == [j EXCEPT !.pending = store.pending \cup {j.package}]
  <2>1. i \in Job /\ i.package = j.package /\ i.outcome = j.outcome
    <3>1. j.package \in Packages
      BY <1>2, <1>t DEF ReadsAwaiting, Read, Ask, TypeOK
    <3> QED BY <1>s, <3>1, StoreFields DEF Job
  <2>2. /\ pc[Main] = "awaiting" /\ Goto(Main, "awaits") /\ Begin(Main, i)
        /\ UNCHANGED <<disk, tier, installed, events>>
    BY <1>2 DEF ReadsAwaiting, Read, Ask
  <2> HIDE DEF i
  <2> QED BY <1>g, <2>1, <2>2 DEF Receiving, Forgetting
<1>3. CASE RecordsAwaiting
  <2>1. /\ pc[Main] = "awaits" /\ Goto(Main, "outcomes") /\ Begin(Main, j)
        /\ UNCHANGED <<disk, tier, installed, events>>
    BY <1>3, <1>s DEF RecordsAwaiting, Write, platform
  <2> QED BY <1>g, <1>s, <2>1 DEF Receiving, Forgetting
<1>4. CASE ReadsEnforcement
  <2> DEFINE i == [j EXCEPT !.result = store.enforcement]
  <2>1. i \in Job /\ i.outcome = j.outcome
    BY <1>s, StoreFields DEF Job
  <2>2. /\ pc[Main] = "outcomes" /\ Goto(Main, "packages") /\ Begin(Main, i)
        /\ UNCHANGED <<disk, tier, installed, events>>
    BY <1>4 DEF ReadsEnforcement, Read, Ask
  <2> HIDE DEF i
  <2> QED BY <1>g, <2>1, <2>2 DEF Receiving, Forgetting
<1>5. CASE ClearsPending
  <2>1. /\ pc[Main] = "cleared" /\ Goto(Main, "gone") /\ Begin(Main, j)
        /\ UNCHANGED <<disk, tier, installed, events>>
    BY <1>5, <1>s DEF ClearsPending, Write, platform
  <2> QED BY <1>g, <1>s, <2>1 DEF Receiving, Forgetting
<1>6. CASE ReadsHeld
  <2> DEFINE i == [j EXCEPT !.before = store.suspended \ {j.package}]
  <2>1. i \in Job /\ i.outcome = j.outcome
    BY <1>s, StoreFields DEF Job
  <2>2. /\ pc[Main] = "gone" /\ Goto(Main, "lifted") /\ Begin(Main, i)
        /\ UNCHANGED <<disk, tier, installed, events>>
    BY <1>6 DEF ReadsHeld, Read, Ask
  <2> HIDE DEF i
  <2> QED BY <1>g, <2>1, <2>2 DEF Receiving, Forgetting
<1>7. CASE ForgetsSuspended
  <2>1. /\ pc[Main] = "lifted" /\ Goto(Main, "idle") /\ Begin(Main, NoJob)
        /\ UNCHANGED <<disk, tier, installed, events>>
    BY <1>7 DEF ForgetsSuspended, Write, platform
  <2> QED BY <1>g, <1>n, <2>1 DEF Receiving, Forgetting
<1> QED BY <1>1, <1>2, <1>3, <1>4, <1>5, <1>6, <1>7 DEF Receive

LEMMA WorldModeBase ==
  ASSUME TypeOK, ModeBase, \/ Flush \/ Crash
                           \/ \E p \in Packages : Install(p) \/ Uninstall(p)
  PROVE  ModeBase'
<1>1. CASE Flush
  BY <1>1 DEF Flush, ModeBase, KeptStay, OwnersOnly, OutcomesKnown, Waiting, Adding, platform
<1>2. CASE Crash
  <2>1. /\ \A t \in Threads : pc'[t] = "idle" /\ job'[t].outcome = "applied"
        /\ store' = disk /\ events' = <<>> /\ UNCHANGED <<disk, tier, installed>>
    BY <1>2 DEF Crash, platform, NoJob, NewJob
  <2>2. Waiting("added")' = {} /\ ~Adding'
    BY <2>1 DEF Waiting, Adding, Receiving, Forgetting, Threads
  <2> QED BY <2>1, <2>2 DEF ModeBase, KeptStay, OwnersOnly, OutcomesKnown, AppMode, Receiving,
      Forgetting
<1>3. ASSUME NEW p \in Packages, Install(p) \/ Uninstall(p)
      PROVE  ModeBase'
  <2>1. UNCHANGED <<store, disk, tier, pc, job>>
    BY <1>3 DEF Install, Uninstall
  <2>2. PICK kind \in {"added", "removed"} :
          Broadcast(kind, p) /\ (kind = "added" => Install(p))
    BY <1>3 DEF Install, Uninstall
  <2>3. tier # "owner" => events' = events
    BY <2>2 DEF Broadcast
  <2>4. Waiting("added")' \cap Kept = {}
    <3>1. CASE events' = events
      BY <3>1 DEF Waiting, ModeBase, KeptStay
    <3>2. CASE events' = Append(events, [kind |-> kind, package |-> p])
      <4>1. CASE kind = "removed"
        BY <3>2, <4>1, Announced DEF ModeBase, KeptStay
      <4>2. CASE kind = "added"
        <5>1. p \notin Kept
          BY <2>2, <4>2 DEF Install, ModeBase, KeptStay
        <5> QED BY <3>2, <5>1, Announced DEF ModeBase, KeptStay
      <4> QED BY <4>1, <4>2
    <3> QED BY <2>2, <3>1, <3>2 DEF Broadcast
  <2>5. Kept \subseteq installed'
    BY <1>3 DEF Install, Uninstall, ModeBase, KeptStay
  <2> QED BY <2>1, <2>3, <2>4, <2>5
      DEF ModeBase, KeptStay, OwnersOnly, OutcomesKnown, Adding
<1> QED BY <1>1, <1>2, <1>3
-----------------------------------------------------------------------------
(* What holds while nothing began beside something else.                   *)

\* It is enough to look at the one that works.
LEMMA OnlyMode ==
  ASSUME NEW t \in Threads, \A u \in Threads : u # t => pc'[u] = "idle",
         Mode(pc[t], job[t])', StandsTrue'
  PROVE  ModeSole'
<1>1. ASSUME NEW u \in Threads PROVE Mode(pc[u], job[u])'
  <2>1. CASE u = t
    BY <2>1
  <2>2. CASE u # t
    BY <2>2 DEF Mode, AppMode
  <2> QED BY <2>1, <2>2
<1> QED BY <1>1 DEF ModeSole

\* While an apply goes on, and no handler, only broadcasts that wait tell.
LEMMA Ahead ==
  ASSUME TypeOK, OneWorks, NEW t \in Threads, NEW step \in Steps \ Receiving,
         pc[t] \notin {"idle"} \cup Receiving, Goto(t, step), UNCHANGED events
  PROVE  /\ pc'[t] = step /\ \A u \in Threads : u # t => pc'[u] = "idle"
         /\ Coming = Waiting("added") \cup unseen
         /\ Going = Waiting("removed") \cup unseen
         /\ Coming' = Waiting("added") \cup unseen'
         /\ Going' = Waiting("removed") \cup unseen'
         /\ step # "idle" => ~Standing'
<1>1. pc'[t] = step /\ \A u \in Threads : u # t => pc[u] = "idle" /\ pc'[u] = "idle"
  BY Stepped DEF OneWorks
<1>2. Main \in Threads /\ "idle" \notin Receiving /\ "cleared" \in Receiving
  BY DEF Threads, Receiving, Forgetting
<1>3. pc[Main] \notin Receiving /\ pc'[Main] \notin Receiving
  BY <1>1, <1>2
<1>4. Waiting("added")' = Waiting("added") /\ Waiting("removed")' = Waiting("removed")
  BY DEF Waiting
<1> QED BY <1>1, <1>2, <1>3, <1>4 DEF Coming, Going, Adding, Standing

LEMMA ApplyMode ==
  ASSUME FlagInv, ModeBase, alone, ModeSole, NEW t \in Threads,
         Apply(t) \/ FlagFails(t) \/ FlagReturnsFalse(t) \/ AppModeFails(t)
  PROVE  ModeSole'
<1> DEFINE j == job[t]
<1>t. /\ TypeOK /\ Sole /\ OneWorks /\ Mode(pc[t], job[t]) /\ j \in Job /\ store \in Record
      /\ job \in [Threads -> Job] /\ installed \subseteq Packages
  BY DEF FlagInv, BaseInv, TypeOK, Sole, ModeSole
<1>b. \A i : Begin(t, i) => job'[t] = i
  BY <1>t DEF Begin
<1>k. Working \subseteq Steps \ Receiving /\ "idle" \notin Working
  BY DEF Working, AppMode, Receiving, Forgetting, Steps
<1>a. ASSUME pc[t] \in Working, NEW to \in Working, Goto(t, to), UNCHANGED events
      PROVE  /\ pc'[t] = to
             /\ Coming = Waiting("added") \cup unseen /\ Going = Waiting("removed") \cup unseen
             /\ Coming' = Waiting("added") \cup unseen' /\ Going' = Waiting("removed") \cup unseen'
             /\ Mode(pc[t], job[t])' => ModeSole'
  <2>1. pc[t] \notin {"idle"} \cup Receiving /\ to \in Steps \ Receiving /\ to # "idle"
    BY <1>a, <1>k
  <2>2. /\ pc'[t] = to /\ \A u \in Threads : u # t => pc'[u] = "idle"
        /\ Coming = Waiting("added") \cup unseen /\ Going = Waiting("removed") \cup unseen
        /\ Coming' = Waiting("added") \cup unseen' /\ Going' = Waiting("removed") \cup unseen'
        /\ ~Standing'
    BY <1>a, <1>t, <2>1, Ahead
  <2>3. StandsTrue'
    BY <2>2 DEF StandsTrue
  <2> QED BY <2>2, <2>3, OnlyMode
\* A step between two of applyAppMode that keeps what is wanted.
<1>v. ASSUME pc[t] \in AppMode \ {"packages"}, NEW to \in AppMode \ {"packages"}, Goto(t, to),
             UNCHANGED <<events, installed, unseen>>,
             job'[t].policy = j.policy, job'[t].wanted = j.wanted
      PROVE  /\ pc'[t] = to /\ Coming' = Coming /\ Going' = Going /\ View(job[t])'
             /\ View(j) /\ (Mode(pc[t], job[t])' => ModeSole')
  <2>1. View(j)
    BY <1>t, <1>v DEF Mode
  <2>2. /\ pc'[t] = to /\ Coming' = Coming /\ Going' = Going
        /\ Mode(pc[t], job[t])' => ModeSole'
    BY <1>a, <1>v DEF Working
  <2>3. View(job[t])'
    BY <1>v, <2>1, <2>2 DEF View, Shown, Barred, Wanted
  <2> QED BY <2>1, <2>2, <2>3
<1>1. CASE StoresPolicy(t)
  <2>1. pc[t] \in Working /\ Goto(t, "flags") /\ UNCHANGED events
    BY <1>1 DEF StoresPolicy, Write, Working
  <2>2. pc'[t] = "flags" /\ (Mode(pc[t], job[t])' => ModeSole')
    BY <1>a, <2>1 DEF Working
  <2> QED BY <2>2 DEF Mode, AppMode
<1>2. CASE FlagApplied(t) \/ FlagFails(t) \/ FlagReturnsFalse(t) \/ FlagUnsupported(t)
  <2>1. PICK o \in Outcomes : Finish(t, o)
    BY <1>2 DEF FlagApplied, FlagFails, FlagReturnsFalse, FlagUnsupported, Outcomes
  <2>2. /\ pc[t] \in Working /\ Goto(t, AfterFlag(t)) /\ Begin(t, After(t, o))
        /\ UNCHANGED <<events, store, tier>>
    BY <2>1 DEF Finish, Ask, After, Working
  <2>3. AfterFlag(t) \in {"flags", "packages", "enforcement"}
    BY DEF AfterFlag
  <2>4. pc'[t] = AfterFlag(t) /\ (Mode(pc[t], job[t])' => ModeSole')
    BY <1>a, <2>2, <2>3 DEF Working, AppMode
  <2>5. CASE AfterFlag(t) # "enforcement"
    BY <2>3, <2>4, <2>5 DEF Mode, AppMode
  <2>6. CASE AfterFlag(t) = "enforcement"
    <3>1. tier # "owner"
      <4>1. job[t].next \in Nat /\ Len(Order) \in Nat
        BY <1>t, JobFields, EngineAssumption
      <4> QED BY <2>6, <4>1 DEF AfterFlag
    <3>2. job'[t].result["app_mode"] = "unsupported"
      BY <1>b, <1>t, <2>2, <3>1, AfterType, EndedOn
    <3>3. store'.pending = {}
      BY <2>2, <3>1 DEF ModeBase, OwnersOnly
    <3> QED BY <2>4, <2>6, <3>2, <3>3 DEF Mode, AppMode, Shown, Promising
  <2> QED BY <2>5, <2>6
<1>3. CASE ReadsPackages(t)
  <2>1. /\ pc[t] = "packages" /\ Goto(t, "before") /\ UNCHANGED <<events, installed>>
        /\ Begin(t, [j EXCEPT !.wanted = Wanted(j.policy)])
    BY <1>3 DEF ReadsPackages, Ask
  <2>2. pc'[t] = "before" /\ (Mode(pc[t], job[t])' => ModeSole')
    BY <1>a, <2>1 DEF Working, AppMode
  <2>3. job'[t].policy = j.policy /\ job'[t].wanted = Wanted(j.policy)
    <3>1. job'[t] = [j EXCEPT !.wanted = Wanted(j.policy)]
      BY <1>b, <2>1
    <3> QED BY <1>t, <3>1 DEF Job
  <2>4. View(job[t])'
    BY <1>t, <2>1, <2>3 DEF View, Shown, Wanted, Barred
  <2> QED BY <2>2, <2>4 DEF Mode
<1>4. CASE ReadsSuspended(t)
  <2>1. /\ pc[t] = "before" /\ Goto(t, "lift") /\ UNCHANGED <<events, installed, unseen>>
        /\ Begin(t, [j EXCEPT !.before = store.suspended])
    BY <1>4 DEF ReadsSuspended, Read, Ask
  <2>2. job'[t].policy = j.policy /\ job'[t].wanted = j.wanted
    <3>1. job'[t] = [j EXCEPT !.before = store.suspended]
      BY <1>b, <2>1
    <3> QED BY <1>t, <3>1 DEF Job
  <2>3. pc'[t] = "lift" /\ View(job[t])' /\ (Mode(pc[t], job[t])' => ModeSole')
    BY <1>v, <2>1, <2>2 DEF AppMode
  <2> QED BY <2>3 DEF Mode
<1>5. CASE Lifts(t)
  <2>1. /\ pc[t] = "lift" /\ Goto(t, "hold") /\ UNCHANGED <<events, installed, unseen>>
        /\ Begin(t, [j EXCEPT !.stuck = ToLift(t) \ installed])
    BY <1>5 DEF Lifts, Ask
  <2>2. job'[t].policy = j.policy /\ job'[t].wanted = j.wanted
    <3>1. job'[t] = [j EXCEPT !.stuck = ToLift(t) \ installed]
      BY <1>b, <2>1
    <3> QED BY <1>t, <3>1 DEF Job
  <2>3. pc'[t] = "hold" /\ View(job[t])' /\ (Mode(pc[t], job[t])' => ModeSole')
    BY <1>v, <2>1, <2>2 DEF AppMode
  <2> QED BY <2>3 DEF Mode
<1>6. CASE Holds(t)
  <2>1. /\ pc[t] = "hold" /\ Goto(t, "suspended") /\ UNCHANGED <<events, installed, unseen>>
        /\ Begin(t, [j EXCEPT !.stuck = @ \cup Refused(t)])
        /\ suspended' = suspended \cup (j.wanted \ Refused(t))
    BY <1>6 DEF Holds, Ask
  <2>2. /\ job'[t].policy = j.policy /\ job'[t].wanted = j.wanted
        /\ job'[t].stuck = j.stuck \cup Refused(t)
    <3>1. job'[t] = [j EXCEPT !.stuck = @ \cup Refused(t)]
      BY <1>b, <2>1
    <3> QED BY <1>t, <3>1 DEF Job
  <2>3. /\ pc'[t] = "suspended" /\ View(job[t])' /\ View(j) /\ Coming' = Coming
        /\ Mode(pc[t], job[t])' => ModeSole'
    BY <1>v, <2>1, <2>2 DEF AppMode
  <2>4. Covered(job[t].policy, job[t].stuck)'
    BY <2>1, <2>2, <2>3 DEF Covered, View, Wanted
  <2> QED BY <2>3, <2>4 DEF Mode
<1>7. CASE AppModeFails(t)
  <2>1. PICK o \in Refusals : Ask(t, pc[t], "suspended", [j EXCEPT !.outcome = o])
    BY <1>7 DEF AppModeFails
  <2>2. /\ pc[t] \in {"lift", "hold"} /\ Goto(t, "suspended")
        /\ UNCHANGED <<events, installed, unseen>>
        /\ Begin(t, [j EXCEPT !.outcome = o])
    BY <1>7, <2>1 DEF AppModeFails, Ask
  <2>3. job'[t].policy = j.policy /\ job'[t].wanted = j.wanted /\ job'[t].outcome = o
    <3>1. job'[t] = [j EXCEPT !.outcome = o]
      BY <1>b, <2>2
    <3> QED BY <1>t, <3>1 DEF Job
  <2>4. /\ pc'[t] = "suspended" /\ View(job[t])' /\ (Mode(pc[t], job[t])' => ModeSole')
    BY <1>v, <2>2, <2>3 DEF AppMode
  <2> QED BY <2>3, <2>4 DEF Mode, Refusals
<1>8. CASE RecordsSuspended(t)
  <2>1. /\ pc[t] = "suspended" /\ Goto(t, "unsuspendable")
        /\ UNCHANGED <<events, installed, unseen, suspended, job>>
    BY <1>8 DEF RecordsSuspended, Write, platform, history
  <2>2. /\ pc'[t] = "unsuspendable" /\ View(job[t])' /\ Coming' = Coming
        /\ Mode(pc[t], job[t])' => ModeSole'
    BY <1>v, <2>1 DEF AppMode
  <2>3. (j.outcome = "applied" => Covered(j.policy, j.stuck))'
    BY <1>t, <2>1, <2>2 DEF Mode, Covered, Wanted
  <2> QED BY <2>2, <2>3 DEF Mode
<1>9. CASE RecordsUnsuspendable(t)
  <2>1. /\ pc[t] = "unsuspendable" /\ Goto(t, "filter")
        /\ UNCHANGED <<events, installed, unseen, suspended, job>>
        /\ store' = [store EXCEPT !.unsuspendable = j.stuck]
    BY <1>9 DEF RecordsUnsuspendable, Write, platform, history
  <2>2. /\ pc'[t] = "filter" /\ View(job[t])' /\ Coming' = Coming
        /\ Mode(pc[t], job[t])' => ModeSole'
    BY <1>v, <2>1 DEF AppMode
  <2>3. (j.outcome = "applied" => Covered(j.policy, j.stuck))'
    BY <1>t, <2>1, <2>2 DEF Mode, Covered, Wanted
  <2>4. store'.unsuspendable = job'[t].stuck
    BY <1>t, <2>1 DEF Record
  <2> QED BY <2>2, <2>3, <2>4 DEF Mode
<1>10. CASE ReadsPending(t)
  <2>1. /\ pc[t] = "filter" /\ Goto(t, "pending")
        /\ UNCHANGED <<events, installed, unseen, suspended, store>>
        /\ Begin(t, [j EXCEPT !.pending = StillPending(t)])
    BY <1>10 DEF ReadsPending, Read, Ask
  <2>2. /\ job'[t].policy = j.policy /\ job'[t].wanted = j.wanted
        /\ job'[t].outcome = j.outcome /\ job'[t].stuck = j.stuck
        /\ job'[t].pending = StillPending(t)
    <3>1. job'[t] = [j EXCEPT !.pending = StillPending(t)]
      BY <1>b, <2>1
    <3> QED BY <1>t, <3>1 DEF Job
  <2>3. /\ pc'[t] = "pending" /\ View(job[t])' /\ Coming' = Coming /\ Going' = Going
        /\ View(j) /\ (Mode(pc[t], job[t])' => ModeSole')
    BY <1>v, <2>1, <2>2 DEF AppMode
  <2>4. (j.outcome = "applied" => Covered(j.policy, j.stuck))'
    BY <1>t, <2>1, <2>2, <2>3 DEF Mode, Covered, Wanted
  <2>5. Shown(job[t].pending, job[t].policy)'
    BY <2>1, <2>2, <2>3 DEF View, Shown, Barred, StillPending
  <2>6. store'.unsuspendable = job'[t].stuck
    BY <1>t, <2>1, <2>2 DEF Mode
  <2> QED BY <2>3, <2>4, <2>5, <2>6 DEF Mode
<1>11. CASE RecordsPending(t)
  <2> DEFINE i == [j EXCEPT !.result["app_mode"] = AppModeResult(t)]
  <2>1. /\ pc[t] = "pending" /\ Goto(t, "enforcement")
        /\ UNCHANGED <<events, installed, unseen, suspended, tier>>
        /\ store' = [store EXCEPT !.pending = j.pending] /\ Begin(t, i)
    BY <1>11 DEF RecordsPending, Write, platform, history
  <2>2. job'[t].policy = j.policy /\ job'[t].result["app_mode"] = AppModeResult(t)
    <3>1. job'[t] = i
      BY <1>b, <2>1
    <3>2. j.result \in Enforcement /\ "app_mode" \in Keys
      BY <1>t, JobFields DEF Keys
    <3> QED BY <1>t, <3>1, <3>2 DEF Job, Enforcement
  <2> HIDE DEF i
  <2>3. /\ pc'[t] = "enforcement" /\ (Mode(pc[t], job[t])' => ModeSole')
        /\ Coming' = Coming /\ Going' = Going
    BY <1>a, <2>1 DEF Working, AppMode
  <2>4. store'.pending = j.pending /\ store'.unsuspendable = store.unsuspendable
    BY <1>t, <2>1 DEF Record
  <2>5. tier = "owner" /\ j.outcome \in {"applied"} \cup Refusals
    BY <2>1 DEF ModeBase, OwnersOnly, OutcomesKnown, AppMode
  <2>6. Shown(store.pending, job[t].policy)'
    BY <1>t, <2>1, <2>2, <2>3, <2>4 DEF Mode, Shown, Barred
  <2>7. ASSUME job'[t].result["app_mode"] \in Promising
        PROVE  Covered(job[t].policy, store.unsuspendable)'
    <3>1. j.outcome = "applied"
      BY <2>2, <2>5, <2>7 DEF AppModeResult, Promising, Refusals
    <3>2. Covered(j.policy, j.stuck) /\ store.unsuspendable = j.stuck
      BY <1>t, <2>1, <3>1 DEF Mode
    <3> QED BY <2>1, <2>2, <2>3, <2>4, <3>2 DEF Covered, Wanted
  <2> QED BY <2>1, <2>3, <2>5, <2>6, <2>7 DEF Mode, AppMode
<1>12. CASE StoresEnforcement(t)
  <2>1. /\ pc[t] = "enforcement" /\ Goto(t, "idle")
        /\ UNCHANGED <<events, installed, unseen, suspended, tier>>
        /\ store' = [store EXCEPT !.enforcement = j.result]
    BY <1>12 DEF StoresEnforcement, Write, platform, history
  <2>2. /\ pc'[t] = "idle" /\ \A u \in Threads : u # t => pc'[u] = "idle"
        /\ Coming' = Coming /\ Going' = Going
    BY <1>t, <2>1, Ahead DEF Receiving, Forgetting, Steps
  <2>3. /\ store'.pending = store.pending /\ store'.unsuspendable = store.unsuspendable
        /\ store'.policy = j.policy /\ store'.enforcement = j.result
    <3>1. store.policy = j.policy
      BY <1>t, <2>1 DEF Sole, Enforced, Forgetting
    <3> QED BY <1>t, <2>1, <3>1 DEF Record
  <2>4. /\ Shown(store.pending, j.policy)
        /\ j.result["app_mode"] \in Promising =>
             tier = "owner" /\ Covered(j.policy, store.unsuspendable)
    BY <1>t, <2>1 DEF Mode
  <2>5. StandsTrue'
    BY <2>1, <2>2, <2>3, <2>4 DEF StandsTrue, Shown, Covered, Barred, Wanted
  <2>6. Mode(pc[t], job[t])'
    BY <2>2 DEF Mode, AppMode
  <2> QED BY <2>2, <2>5, <2>6, OnlyMode
<1> QED BY <1>1, <1>2, <1>3, <1>4, <1>5, <1>6, <1>7, <1>8, <1>9, <1>10, <1>11, <1>12 DEF Apply

LEMMA ReceiveMode ==
  ASSUME FlagInv, ModeBase, alone, ModeSole, Receive
  PROVE  ModeSole'
<1> DEFINE j == job[Main]
<1>t. /\ TypeOK /\ Sole /\ OneWorks /\ Main \in Threads /\ j \in Job /\ store \in Record
      /\ job \in [Threads -> Job] /\ installed \subseteq Packages
      /\ Mode(pc[Main], job[Main])
  BY DEF FlagInv, BaseInv, TypeOK, Sole, ModeSole, Threads
<1>b. \A i : Begin(Main, i) => job'[Main] = i
  BY <1>t DEF Begin
\* Meanwhile nothing else works, and what the store says is so.
<1>m. ASSUME pc[Main] \in Receiving
      PROVE  /\ up /\ \A u \in Threads : u # Main => pc[u] = "idle"
             /\ Shown(store.pending, store.policy)
             /\ store.enforcement["app_mode"] \in Promising =>
                  tier = "owner" /\ Covered(store.policy, store.unsuspendable)
             /\ tier = "owner"
  <2>1. up /\ tier = "owner"
    BY <1>m, <1>t DEF FlagInv, BaseInv, AllFit, Fits, ModeBase, OwnersOnly
  <2>2. \A u \in Threads : u # Main => pc[u] = "idle"
    BY <1>m, <1>t DEF OneWorks, Receiving, Forgetting
  <2>3. Standing
    BY <1>m, <2>1, <2>2 DEF Standing
  <2> QED BY <2>1, <2>2, <2>3 DEF ModeSole, StandsTrue
<1>g. ASSUME pc[Main] \in Receiving, NEW to \in Receiving \cup {"idle", "packages"},
             Goto(Main, to), UNCHANGED events
      PROVE  /\ pc'[Main] = to /\ \A u \in Threads : u # Main => pc'[u] = "idle"
             /\ Waiting("added")' = Waiting("added") /\ Waiting("removed")' = Waiting("removed")
             /\ StandsTrue' /\ Mode(pc[Main], job[Main])' => ModeSole'
  <2>1. to \in Steps
    BY DEF Receiving, Forgetting, Steps
  <2>2. pc'[Main] = to /\ \A u \in Threads : u # Main => pc'[u] = "idle"
    BY <1>g, <1>m, <1>t, <2>1, Stepped
  <2>3. Waiting("added")' = Waiting("added") /\ Waiting("removed")' = Waiting("removed")
    BY <1>g DEF Waiting
  <2> QED BY <1>t, <2>2, <2>3, OnlyMode
\* A step that changes nothing but what it handles.
<1>k. ASSUME pc[Main] \in Receiving, Coming \cap Wanted(store.policy) \subseteq Coming',
             store'.pending \subseteq installed \cup Going',
             store'.pending \subseteq Barred(store.policy),
             store'.policy = store.policy, store'.enforcement = store.enforcement,
             store'.unsuspendable = store.unsuspendable,
             UNCHANGED <<tier, installed, suspended>>
      PROVE  StandsTrue'
  BY <1>k, <1>m DEF StandsTrue, Shown, Covered, Barred, Wanted
<1>1. CASE QueriesLauncher
  <2>1. pc[Main] = "launchable" /\ pc[Main] \in Receiving \ Forgetting
        /\ UNCHANGED <<events, store, tier, installed, suspended, unseen>>
    BY <1>1 DEF QueriesLauncher, Read, Ask, Receiving, Forgetting
  <2>2. j.policy = store.policy /\ j.package \notin Kept
    BY <1>t, <2>1 DEF Sole, Enforced, Forgetting, ModeBase, KeptStay, Adding
  <2>3. CASE Held(j.package, j.policy)
    <3>1. Goto(Main, "awaiting") /\ job'[Main] = j
      BY <1>1, <1>b, <2>3 DEF QueriesLauncher, Read, Ask
    <3>2. /\ pc'[Main] = "awaiting" /\ Coming' = Coming /\ Going' = Going
          /\ StandsTrue' /\ Mode(pc[Main], job[Main])' => ModeSole'
      <4>1. "awaiting" \in Receiving
        BY DEF Receiving
      <4> QED BY <1>g, <2>1, <3>1, <4>1 DEF Coming, Going, Adding, Receiving, Forgetting
    <3>3. Shown({j.package}, j.policy)'
      BY <1>t, <2>1, <2>2, <2>3, <3>1 DEF Held, Shown, Barred
    <3>4. StandsTrue'
      BY <1>k, <1>m, <2>1, <3>2 DEF Shown
    <3> QED BY <3>1, <3>2, <3>3, <3>4 DEF Mode, AppMode
  <2>4. CASE ~Held(j.package, j.policy)
    <3>1. Goto(Main, "idle")
      BY <1>1, <2>4 DEF QueriesLauncher, Read, Ask
    <3>2. /\ pc'[Main] = "idle" /\ Coming \subseteq Coming' \cup {j.package} /\ Going' = Going
          /\ StandsTrue' /\ Mode(pc[Main], job[Main])' => ModeSole'
      BY <1>g, <2>1, <3>1 DEF Coming, Going, Adding, Receiving, Forgetting
    <3>3. j.package \notin Wanted(store.policy)
      BY <1>m, <2>1, <2>2, <2>4 DEF Held, Wanted
    <3>4. StandsTrue'
      BY <1>k, <1>m, <2>1, <3>2, <3>3 DEF Shown
    <3> QED BY <3>2, <3>4 DEF Mode, AppMode
  <2> QED BY <2>3, <2>4
<1>2. CASE ReadsAwaiting
  <2>1. /\ pc[Main] = "awaiting" /\ Goto(Main, "awaits")
        /\ UNCHANGED <<events, store, tier, installed, suspended, unseen>>
        /\ job'[Main] = [j EXCEPT !.pending = store.pending \cup {j.package}]
    BY <1>2, <1>b DEF ReadsAwaiting, Read, Ask
  <2>2. pc[Main] \in Receiving /\ "awaits" \in Receiving
    BY <2>1 DEF Receiving
  <2>3. /\ job'[Main].package = j.package /\ job'[Main].policy = j.policy
        /\ job'[Main].pending = store.pending \cup {j.package}
    BY <1>t, <2>1 DEF Job
  <2>4. /\ pc'[Main] = "awaits" /\ Coming' = Coming /\ Going' = Going
        /\ StandsTrue' /\ Mode(pc[Main], job[Main])' => ModeSole'
    BY <1>g, <2>1, <2>2, <2>3 DEF Coming, Going, Adding, Receiving, Forgetting
  <2>5. StandsTrue'
    BY <1>k, <1>m, <2>1, <2>2, <2>4 DEF Shown
  <2>6. j.policy = store.policy /\ Shown({j.package}, j.policy)
    BY <1>t, <2>1 DEF Sole, Enforced, Forgetting, Mode
  <2>7. Shown(job[Main].pending, job[Main].policy)'
    BY <1>m, <2>1, <2>2, <2>3, <2>4, <2>6 DEF Shown, Barred
  <2> QED BY <2>4, <2>5, <2>7 DEF Mode, AppMode
<1>3. CASE RecordsAwaiting
  <2>1. /\ pc[Main] = "awaits" /\ Goto(Main, "outcomes")
        /\ UNCHANGED <<events, tier, installed, suspended, unseen, job>>
        /\ store' = [store EXCEPT !.pending = j.pending]
    BY <1>3 DEF RecordsAwaiting, Write, platform, history
  <2>2. pc[Main] \in Receiving /\ "outcomes" \in Receiving
    BY <2>1 DEF Receiving
  <2>3. /\ pc'[Main] = "outcomes" /\ Coming' = Coming /\ Going' = Going
        /\ StandsTrue' /\ Mode(pc[Main], job[Main])' => ModeSole'
    BY <1>g, <2>1, <2>2 DEF Coming, Going, Adding, Receiving, Forgetting
  <2>4. j.policy = store.policy /\ Shown(j.pending, j.policy)
    BY <1>t, <2>1 DEF Sole, Enforced, Forgetting, Mode
  <2>5. StandsTrue'
    BY <1>k, <1>t, <2>1, <2>2, <2>3, <2>4 DEF Shown, Record
  <2> QED BY <2>3, <2>5 DEF Mode, AppMode
<1>4. CASE ReadsEnforcement
  <2>1. pc[Main] \in Receiving /\ Goto(Main, "packages") /\ UNCHANGED events
    BY <1>4 DEF ReadsEnforcement, Read, Ask, Receiving
  <2>2. pc'[Main] = "packages" /\ (StandsTrue' /\ Mode(pc[Main], job[Main])' => ModeSole')
    BY <1>g, <2>1
  <2>3. ~Standing'
    BY <1>t, <2>2 DEF Standing, Receiving, Forgetting
  <2> QED BY <2>2, <2>3 DEF Mode, AppMode, StandsTrue
<1>5. CASE ClearsPending
  <2>1. /\ pc[Main] = "cleared" /\ Goto(Main, "gone")
        /\ UNCHANGED <<events, tier, installed, suspended, unseen, job>>
        /\ store' = [store EXCEPT !.pending = j.pending]
    BY <1>5 DEF ClearsPending, Write, platform, history
  <2>2. pc[Main] \in Receiving /\ "gone" \in Receiving
    BY <2>1 DEF Receiving, Forgetting
  <2>3. /\ pc'[Main] = "gone" /\ Coming' = Coming /\ Going \subseteq Going' \cup {j.package}
        /\ StandsTrue' /\ Mode(pc[Main], job[Main])' => ModeSole'
    BY <1>g, <2>1, <2>2 DEF Coming, Going, Adding, Receiving, Forgetting
  <2>4. Shown(j.pending, store.policy) /\ j.package \notin j.pending
    BY <1>t, <2>1 DEF Mode
  <2>5. StandsTrue'
    BY <1>k, <1>t, <2>1, <2>2, <2>3, <2>4 DEF Shown, Record
  <2> QED BY <2>3, <2>5 DEF Mode, AppMode
<1>6. CASE ReadsHeld
  <2>1. /\ pc[Main] = "gone" /\ Goto(Main, "lifted")
        /\ UNCHANGED <<events, store, tier, installed, suspended, unseen>>
    BY <1>6 DEF ReadsHeld, Read, Ask
  <2>2. pc[Main] \in Receiving /\ "lifted" \in Receiving
    BY <2>1 DEF Receiving, Forgetting
  <2>3. /\ pc'[Main] = "lifted" /\ Coming' = Coming /\ Going' = Going
        /\ StandsTrue' /\ Mode(pc[Main], job[Main])' => ModeSole'
    BY <1>g, <2>1, <2>2 DEF Coming, Going, Adding, Receiving, Forgetting
  <2>4. StandsTrue'
    BY <1>k, <1>m, <2>1, <2>2, <2>3 DEF Shown
  <2> QED BY <2>3, <2>4 DEF Mode, AppMode
<1>7. CASE ForgetsSuspended
  <2>1. /\ pc[Main] = "lifted" /\ Goto(Main, "idle")
        /\ UNCHANGED <<events, tier, installed, suspended, unseen>>
        /\ store' = [store EXCEPT !.suspended = j.before]
    BY <1>7 DEF ForgetsSuspended, Write, platform, history
  <2>2. pc[Main] \in Receiving
    BY <2>1 DEF Receiving, Forgetting
  <2>3. /\ pc'[Main] = "idle" /\ Coming' = Coming /\ Going' = Going
        /\ StandsTrue' /\ Mode(pc[Main], job[Main])' => ModeSole'
    BY <1>g, <2>1, <2>2 DEF Coming, Going, Adding, Receiving, Forgetting
  <2>4. StandsTrue'
    BY <1>k, <1>m, <1>t, <2>1, <2>2, <2>3 DEF Shown, Record
  <2> QED BY <2>3, <2>4 DEF Mode, AppMode
<1> QED BY <1>1, <1>2, <1>3, <1>4, <1>5, <1>6, <1>7 DEF Receive

LEMMA BeginningMode ==
  ASSUME FlagInv, ModeBase, alone => ModeSole, alone',
         \/ \E t \in Handlers, p \in Documents : PutPolicy(t, p)
         \/ ServiceStarts \/ PackageAdded \/ PackageRemoved
  PROVE  ModeSole'
<1>t. /\ TypeOK /\ Main \in Threads /\ Handlers \subseteq Threads /\ store \in Record
      /\ installed \subseteq Packages
  BY DEF FlagInv, BaseInv, TypeOK, Threads
\* An apply begins: the store says nothing of how things are.
<1>b. ASSUME NEW t \in Threads, Goto(t, "policy"), AllIdle
      PROVE  ModeSole'
  <2>1. pc'[t] = "policy" /\ \A u \in Threads : u # t => pc'[u] = "idle"
    BY <1>b, <1>t, Stepped DEF AllIdle, Steps
  <2>2. ~Standing' /\ Mode(pc[t], job[t])'
    BY <2>1 DEF Standing, Mode, AppMode, Receiving, Forgetting
  <2> QED BY <2>1, <2>2, OnlyMode DEF StandsTrue
\* A handler does: the package it handles stays one to be told of.
<1>h. ASSUME NEW kind \in {"added", "removed"}, NEW to, NEW j \in Job, Handles(kind, to, j),
             to = (IF kind = "added" THEN "launchable" ELSE "cleared"),
             j.package = Head(events).package
      PROVE  /\ pc'[Main] = to /\ job'[Main] = j /\ UNCHANGED store
             /\ Shown(store.pending, store.policy)
             /\ installed' = installed /\ Going \subseteq Going'
             /\ Mode(to, job[Main])' => ModeSole'
  <2>1. /\ alone /\ AllIdle /\ up' = up /\ up /\ events # <<>> /\ events' = Tail(events)
        /\ Head(events).kind = kind /\ Goto(Main, to) /\ Begin(Main, j)
        /\ UNCHANGED <<store, tier, installed, suspended, unseen>>
    BY <1>h DEF Handles, platform, history
  <2>2. to \in Receiving /\ to \in Steps
    BY <1>h DEF Receiving, Forgetting, Steps
  <2>3. /\ pc'[Main] = to /\ \A u \in Threads : u # Main => pc'[u] = "idle"
        /\ job'[Main] = j
    BY <1>t, <2>1, <2>2, Stepped, Begun DEF AllIdle
  <2>4. /\ \A k : Waiting(k) \ {j.package} \subseteq Waiting(k)'
        /\ \A k : k # kind => Waiting(k) \subseteq Waiting(k)'
    BY <1>h, <1>t, <2>1, Heard
  <2>5. pc[Main] = "idle" /\ Standing
    BY <1>t, <2>1 DEF AllIdle, Standing
  <2>6. /\ Coming = Waiting("added") \cup unseen /\ Going = Waiting("removed") \cup unseen
    BY <2>5 DEF Coming, Going, Adding, Receiving, Forgetting
  <2>7. Coming \subseteq Coming' /\ Going \subseteq Going'
    <3>1. CASE kind = "added"
      <4>1. /\ Coming' = Waiting("added")' \cup unseen \cup {j.package}
            /\ Going' = Waiting("removed")' \cup unseen
        BY <1>h, <2>1, <2>3, <3>1 DEF Coming, Going, Adding, Receiving, Forgetting
      <4> QED BY <2>4, <2>6, <3>1, <4>1
    <3>2. CASE kind = "removed"
      <4>1. /\ Coming' = Waiting("added")' \cup unseen
            /\ Going' = Waiting("removed")' \cup unseen \cup {j.package}
        BY <1>h, <2>1, <2>3, <3>2 DEF Coming, Going, Adding, Receiving, Forgetting
      <4> QED BY <2>4, <2>6, <3>2, <4>1
    <3> QED BY <3>1, <3>2
  <2>8. /\ Shown(store.pending, store.policy)
        /\ store.enforcement["app_mode"] \in Promising =>
             tier = "owner" /\ Covered(store.policy, store.unsuspendable)
    BY <2>1, <2>5 DEF ModeSole, StandsTrue
  <2>9. StandsTrue'
    BY <2>1, <2>7, <2>8 DEF StandsTrue, Shown, Covered, Barred, Wanted
  <2> QED BY <1>t, <2>1, <2>3, <2>7, <2>8, <2>9, OnlyMode
<1>p. ASSUME PackageAdded \/ PackageRemoved
      PROVE  Head(events).package \in Packages
  BY <1>p, <1>t, FirstEvent DEF PackageAdded, PackageRemoved, Handles
<1>f. store.policy \in Policy /\ store.pending \subseteq Packages
  BY <1>t, StoreFields
<1>1. ASSUME NEW t \in Handlers, NEW p \in Documents, PutPolicy(t, p) PROVE ModeSole'
  BY <1>1, <1>t, <1>b DEF PutPolicy
<1>2. CASE ServiceStarts
  <2>1. CASE tier = "none"
    <3>1. /\ AllIdle /\ UNCHANGED <<store, pc>> /\ store.enforcement = Unreported
          /\ store.pending = {}
      BY <1>2, <2>1 DEF ServiceStarts, FlagInv, BaseInv, Unmanaged, ModeBase, OwnersOnly
    <3>2. store.enforcement["app_mode"] = "none"
      BY <3>1 DEF Unreported, Keys
    <3>3. StandsTrue'
      BY <3>1, <3>2 DEF StandsTrue, Shown, Promising
    <3>4. \A u \in Threads : pc'[u] = "idle"
      BY <3>1 DEF AllIdle
    <3>5. Mode(pc[Main], job[Main])'
      BY <1>t, <3>4 DEF Mode, AppMode
    <3> QED BY <1>t, <3>3, <3>4, <3>5, OnlyMode
  <2>2. CASE tier # "none"
    BY <1>2, <1>t, <1>b, <2>2 DEF ServiceStarts
  <2> QED BY <2>1, <2>2
<1>3. CASE PackageAdded
  <2> DEFINE j == NewJob(store.policy, Head(events).package)
  <2>1. j \in Job /\ j.package = Head(events).package
    BY <1>3, <1>p, <1>f, NewJobType DEF NewJob
  <2>2. Handles("added", "launchable", j)
    BY <1>3 DEF PackageAdded
  <2> HIDE DEF j
  <2>3. Mode("launchable", job[Main])' => ModeSole'
    BY <2>1, <2>2, <1>h
  <2> QED BY <2>3 DEF Mode, AppMode
<1>4. CASE PackageRemoved
  <2> DEFINE p == Head(events).package
             j == [NewJob(Default, p) EXCEPT !.pending = store.pending \ {p}]
  <2>1. j \in Job /\ j.package = p /\ j.pending = store.pending \ {p}
    <3>1. NewJob(Default, p) \in Job /\ NewJob(Default, p).package = p
      BY <1>4, <1>p, DefaultTypes, NewJobType DEF NewJob
    <3> QED BY <1>f, <3>1 DEF Job
  <2>2. Handles("removed", "cleared", j)
    BY <1>4 DEF PackageRemoved
  <2> HIDE DEF j
  <2>3. /\ job'[Main] = j /\ UNCHANGED <<store, installed>> /\ Going \subseteq Going'
        /\ Shown(store.pending, store.policy)
        /\ Mode("cleared", job[Main])' => ModeSole'
    BY <2>1, <2>2, <1>h
  <2>4. Shown(job[Main].pending, store.policy)' /\ job'[Main].package \notin job'[Main].pending
    BY <2>1, <2>3 DEF Shown, Barred
  <2> QED BY <2>3, <2>4 DEF Mode, AppMode
<1> QED BY <1>1, <1>2, <1>3, <1>4

LEMMA WorldMode ==
  ASSUME FlagInv, ModeBase, alone, ModeSole,
         \/ Flush \/ Crash \/ \E p \in Packages : Install(p) \/ Uninstall(p)
  PROVE  ModeSole'
<1>t. TypeOK /\ installed \subseteq Packages
  BY DEF FlagInv, BaseInv, TypeOK
\* Whatever comes or goes is told of, or goes unseen.
<1>k. ASSUME Coming \subseteq Coming', Going \subseteq Going',
             installed' \subseteq installed \cup Coming', installed \subseteq installed' \cup Going',
             suspended \cap installed' \subseteq suspended',
             UNCHANGED <<up, store, tier, pc, job>>
      PROVE  ModeSole'
  <2>1. \A P, p : Shown(P, p) => P \subseteq Barred(p) /\ P \subseteq installed' \cup Going'
    BY <1>k DEF Shown
  <2>2. \A p : Wanted(p)' \subseteq Wanted(p) \cup Coming'
    BY <1>k DEF Wanted
  <2>3. \A p, S : Covered(p, S) => Wanted(p)' \subseteq suspended' \cup S \cup Coming'
    BY <1>k, <2>2 DEF Covered, Wanted
  <2>4. StandsTrue'
    BY <1>k, <2>1, <2>3 DEF ModeSole, StandsTrue, Standing, Shown, Covered, Barred, Wanted
  <2>5. ASSUME NEW t \in Threads PROVE Mode(pc[t], job[t])'
    <3>1. Mode(pc[t], job[t]) /\ pc'[t] = pc[t] /\ job'[t] = job[t] /\ UNCHANGED <<store, tier>>
      BY <1>k DEF ModeSole
    <3>2. View(job[t]) => View(job[t])'
      BY <1>k, <3>1 DEF View, Shown, Barred, Wanted
    <3>3. Covered(job[t].policy, job[t].stuck) => Covered(job[t].policy, job[t].stuck)'
      BY <1>k, <3>1 DEF Covered, Wanted
    <3>4. Covered(job[t].policy, store.unsuspendable) => Covered(job[t].policy, store.unsuspendable)'
      BY <1>k, <3>1 DEF Covered, Wanted
    <3>5. Shown(job[t].pending, job[t].policy) => Shown(job[t].pending, job[t].policy)'
      BY <1>k, <3>1 DEF Shown, Barred
    <3>6. Shown(store.pending, job[t].policy) => Shown(store.pending, job[t].policy)'
      BY <1>k, <3>1 DEF Shown, Barred
    <3>7. Shown(job[t].pending, store.policy) => Shown(job[t].pending, store.policy)'
      BY <1>k, <3>1 DEF Shown, Barred
    <3>8. Shown({job[t].package}, job[t].policy) => Shown({job[t].package}, job[t].policy)'
      BY <1>k, <3>1 DEF Shown, Barred
    <3> QED BY <3>1, <3>2, <3>3, <3>4, <3>5, <3>6, <3>7, <3>8 DEF Mode
  <2> QED BY <2>4, <2>5 DEF ModeSole
<1>1. CASE Flush
  BY <1>1, <1>k DEF Flush, platform, history, Coming, Going, Waiting, Adding
<1>2. CASE Crash
  <2>1. ~up' /\ \A u \in Threads : pc'[u] = "idle"
    BY <1>2 DEF Crash
  <2>2. Mode(pc[Main], job[Main])' /\ Main \in Threads
    BY <2>1 DEF Mode, AppMode, Threads
  <2> QED BY <2>1, <2>2, OnlyMode DEF StandsTrue, Standing
<1>3. ASSUME NEW p \in Packages, Install(p) \/ Uninstall(p)
      PROVE  ModeSole'
  <2>1. UNCHANGED <<up, store, tier, pc, job>>
    BY <1>3 DEF Install, Uninstall
  <2>2. PICK kind \in {"added", "removed"} :
          /\ Broadcast(kind, p)
          /\ kind = "added" => Install(p)
          /\ kind = "removed" => Uninstall(p)
    BY <1>3 DEF Install, Uninstall
  <2>3. CASE up /\ tier = "owner"
    <3>1. /\ p \in Waiting(kind)'
          /\ Waiting("added") \subseteq Waiting("added")'
          /\ Waiting("removed") \subseteq Waiting("removed")'
          /\ unseen' = unseen
      BY <1>t, <2>2, <2>3, Announced DEF Broadcast
    <3>2. /\ Coming \subseteq Coming' /\ Going \subseteq Going'
          /\ kind = "added" => p \in Coming'
          /\ kind = "removed" => p \in Going'
      BY <2>1, <3>1 DEF Coming, Going, Adding
    <3> QED BY <1>k, <2>1, <2>2, <3>2 DEF Install, Uninstall
  <2>4. CASE ~up
    <3>1. UNCHANGED events /\ unseen' = unseen \cup {p}
      BY <2>2, <2>4 DEF Broadcast
    <3>2. /\ Coming \subseteq Coming' /\ Going \subseteq Going'
          /\ p \in Coming' /\ p \in Going'
      BY <2>1, <3>1 DEF Coming, Going, Adding, Waiting
    <3> QED BY <1>k, <2>1, <2>2, <3>2 DEF Install, Uninstall
  \* Of a tablet no owner controls the allowlist says nothing.
  <2>5. CASE tier # "owner"
    <3>1. store.pending = {} /\ \A t \in Threads : pc[t] \notin AppMode \cup Receiving
      BY <2>5 DEF ModeBase, OwnersOnly
    <3>2. StandsTrue'
      BY <2>1, <2>5, <3>1 DEF ModeSole, StandsTrue, Standing, Shown
    <3>3. ASSUME NEW t \in Threads PROVE Mode(pc[t], job[t])'
      <4>1. Mode(pc[t], job[t]) /\ pc'[t] = pc[t] /\ job'[t] = job[t]
        BY <2>1 DEF ModeSole
      <4> QED BY <2>1, <2>5, <3>1, <4>1 DEF Mode, Shown, AppMode, Receiving, Forgetting
    <3> QED BY <3>2, <3>3 DEF ModeSole
  <2> QED BY <2>3, <2>4, <2>5
<1> QED BY <1>1, <1>2, <1>3

LEMMA NextMode == ModeInv /\ [Next]_vars => ModeInv'
<1> SUFFICES ASSUME ModeInv, [Next]_vars PROVE ModeInv'
  OBVIOUS
<1>1. FlagInv /\ ModeBase /\ FlagInv' /\ TypeOK
  BY NextFlags DEF ModeInv, FlagInv, BaseInv
<1>2. ASSUME \/ \E t \in Handlers, p \in Documents : PutPolicy(t, p)
             \/ ServiceStarts \/ PackageAdded \/ PackageRemoved
      PROVE  ModeInv'
  <2>1. ModeBase'
    BY <1>1, <1>2, BeginningModeBase
  <2>2. alone' => ModeSole'
    BY <1>1, <1>2, BeginningMode DEF ModeInv
  <2> QED BY <1>1, <2>1, <2>2 DEF ModeInv
<1>3. ASSUME NEW t \in Threads,
             Apply(t) \/ FlagFails(t) \/ FlagReturnsFalse(t) \/ AppModeFails(t)
      PROVE  ModeInv'
  <2>1. ModeBase' /\ (alone => ModeSole')
    BY <1>1, <1>3, ApplyModeBase, ApplyMode DEF ModeInv
  <2>2. alone' = alone
    BY <1>3 DEF Apply, FlagFails, FlagReturnsFalse, AppModeFails, StoresPolicy, FlagApplied,
       FlagUnsupported, ReadsPackages, ReadsSuspended, Lifts, Holds, RecordsSuspended,
       RecordsUnsuspendable, ReadsPending, RecordsPending, StoresEnforcement, Finish, Read,
       Ask, Write, history
  <2> QED BY <1>1, <2>1, <2>2 DEF ModeInv
<1>4. CASE Receive
  <2>1. ModeBase' /\ (alone => ModeSole')
    BY <1>1, <1>4, ReceiveModeBase, ReceiveMode DEF ModeInv
  <2>2. alone' = alone
    BY <1>4 DEF Receive, QueriesLauncher, ReadsAwaiting, RecordsAwaiting, ReadsEnforcement,
       ClearsPending, ReadsHeld, ForgetsSuspended, Read, Ask, Write, history
  <2> QED BY <1>1, <2>1, <2>2 DEF ModeInv
<1>5. ASSUME Flush \/ Crash \/ \E p \in Packages : Install(p) \/ Uninstall(p)
      PROVE  ModeInv'
  <2>1. ModeBase' /\ (alone => ModeSole')
    BY <1>1, <1>5, WorldModeBase, WorldMode DEF ModeInv
  <2>2. alone' = alone
    BY <1>5 DEF Flush, Crash, Install, Uninstall, history
  <2> QED BY <1>1, <2>1, <2>2 DEF ModeInv
<1>6. CASE UNCHANGED vars
  <2>1. ModeBase'
    BY <1>1, <1>6 DEF vars, platform, ModeBase, KeptStay, OwnersOnly, OutcomesKnown, Waiting,
       Adding
  <2>2. ModeSole <=> ModeSole'
    BY <1>6 DEF vars, platform, history, ModeSole, StandsTrue, Standing, Mode, View, Shown,
       Covered, Barred, Wanted, Coming, Going, Waiting, Adding
  <2> QED BY <1>1, <1>6, <2>1, <2>2 DEF ModeInv, vars, history
<1> QED BY <1>2, <1>3, <1>4, <1>5, <1>6 DEF Next

LEMMA ModeKept == Spec => []ModeInv
<1> QED BY InitMode, NextMode, PTL DEF Spec

-----------------------------------------------------------------------------
(* At rest after a whole apply that nothing overlapped nothing waits and   *)
(* nothing is being handled: what is covered is suspended or stuck, and    *)
(* what is pending is there.                                               *)

LEMMA RestTells ==
  ASSUME ModeInv, Quiet, alone
  PROVE  /\ Shown(store.pending, store.policy) /\ Coming = unseen /\ Going = unseen
         /\ store.enforcement["app_mode"] \in Promising =>
              Covered(store.policy, store.unsuspendable)
         /\ installed \subseteq Packages
<1>1. ModeSole /\ Main \in Threads /\ installed \subseteq Packages
  BY DEF ModeInv, FlagInv, BaseInv, TypeOK, Threads
<1>2. Standing /\ pc[Main] = "idle" /\ events = <<>>
  BY <1>1 DEF Quiet, AllIdle, Standing
<1>3. Waiting("added") = {} /\ Waiting("removed") = {}
  BY <1>2 DEF Waiting
<1>4. Coming = unseen /\ Going = unseen
  BY <1>2, <1>3 DEF Coming, Going, Adding, Receiving, Forgetting
<1> QED BY <1>1, <1>2, <1>4 DEF ModeSole, StandsTrue

\* In every behaviour, at rest after a whole apply that nothing overlapped,
\* an allowlist reported applied or limited leaves no application outside it
\* to be opened, but for those reported unsuspendable and those installed
\* while the service started (applyAppMode, onPackageAdded): whatever
\* applies overlapped before, failed or were cut short by a crash.
THEOREM AllowlistEnforced == Spec => []AllowlistHolds
<1>1. ASSUME ModeInv PROVE AllowlistHolds
  BY <1>1, RestTells DEF AllowlistHolds, Covered, Promising
<1> QED BY <1>1, ModeKept, PTL

\* In every behaviour, at rest after such an apply, what awaits approval is
\* what the stored allowlist holds back (onPackageAdded, onPackageRemoved,
\* applyAppMode's filter), but for what was uninstalled unwatched.
THEOREM PendingHeld == Spec => []PendingIsHeld
<1>1. ASSUME ModeInv PROVE PendingIsHeld
  BY <1>1, RestTells DEF PendingIsHeld, Shown, Barred, Wanted
<1> QED BY <1>1, ModeKept, PTL
=============================================================================
