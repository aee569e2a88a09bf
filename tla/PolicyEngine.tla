---------------------------- MODULE PolicyEngine ----------------------------
(***************************************************************************)
(* Enforcement on the tablet (PolicyEngine.kt): apply writes the policy to *)
(* the store, makes one platform call per key and records each outcome;    *)
(* the allowlist suspends applications and holds newly installed ones for  *)
(* approval.  Nothing is locked: HTTP server threads run apply while the   *)
(* main thread handles package broadcasts, over a store (PolicyStore.kt)   *)
(* whose writes reach the disk some time later, in a process that may die  *)
(* between any two steps.                                                  *)
(*                                                                         *)
(* An action is one access to the store or one platform call; a read, the  *)
(* change of what was read and the write back are separate actions.  The   *)
(* flags here are those one call turns on or off: kiosk_mode and           *)
(* wifi_always_on are not among them.  The policy's version is left out:   *)
(* apply stores it, and nothing on the tablet compares it.                 *)
(***************************************************************************)
EXTENDS Naturals, Sequences

CONSTANTS
  Order,      \* the flags, in the order apply enforces them
  Packages,   \* the launchable packages there may be
  Kept,       \* those never suspended: itself, Settings, launchers, ...
  Protected,  \* those the platform refuses to suspend
  Documents,  \* the policies a PUT may bring
  Tiers,      \* what the controller may be: "owner", "admin" or "none"
  LiteFlags,  \* the flags a plain device admin can enforce
  Silent,     \* the flags whose call, for a tier, tells failure by a value
              \* nobody reads instead of throwing
  Handlers,   \* the HTTP server's threads
  Budgets     \* bounds: PUTs, package changes, failing calls, crashes

Flags    == {Order[i] : i \in DOMAIN Order}
Keys     == Flags \cup {"app_mode"}
Policy   == [flags : [Flags -> BOOLEAN], app_mode : {"open", "allowlist"},
             allowed_packages : SUBSET Packages]
Default  == [flags |-> [k \in Flags |-> FALSE], app_mode |-> "open",
             allowed_packages |-> {}]
Refusals == {"refused", "failed"}
Outcomes == Refusals \cup {"applied", "limited", "unsupported"}
Enforcement == [Keys -> Outcomes \cup {"none"}]
Unreported  == [k \in Keys |-> "none"]
Main     == "main"
Threads  == Handlers \cup {Main}
Budget   == [puts : Nat, packages : Nat, failures : Nat, crashes : Nat]

ASSUME EngineAssumption ==
  /\ Order \in Seq(STRING) /\ Order # <<>> /\ "app_mode" \notin Flags
  /\ \A i, j \in DOMAIN Order : Order[i] = Order[j] => i = j
  /\ Kept \subseteq Packages /\ Documents \subseteq Policy
  /\ Tiers \subseteq {"owner", "admin", "none"}
  /\ Main \notin Handlers
  /\ Silent \in [Tiers -> SUBSET Flags]
  /\ Budgets \subseteq Budget

VARIABLES
  up,         \* onCreate is over: the server and PackageWatch listen
  store,      \* PolicyStore as the process reads it
  disk,       \* what of it has reached the disk
  tier,       \* the platform: what this controller is,
  installed,  \*   packages there are,
  suspended,  \*   packages suspended,
  inForce,    \*   and the value of each flag in force
  events,     \* package broadcasts not delivered yet
  pc, job,    \* each thread's next step and its locals
  left,       \* how much of the budget remains
  alone,      \* history: since the last whole apply began with every thread
              \* idle, nothing began beside something else
  unseen      \* history: packages that came or went, since they were last
              \* asked for, while the service starts and watches none

platform == <<tier, installed, suspended, inForce>>
history  == <<alone, unseen>>
vars == <<up, store, disk, platform, events, pc, job, left, history>>

Record == [policy : Policy, enforcement : Enforcement, suspended : SUBSET Packages,
           unsuspendable : SUBSET Packages, pending : SUBSET Packages]
Fresh == [policy |-> Default, enforcement |-> Unreported, suspended |-> {},
          unsuspendable |-> {}, pending |-> {}]

Job == [policy : Policy, next : Nat, result : Enforcement,
        package : Packages \cup {"none"}, pending : SUBSET Packages,
        before : SUBSET Packages, wanted : SUBSET Packages, stuck : SUBSET Packages,
        outcome : Outcomes]
NewJob(policy, package) ==
  [policy |-> policy, next |-> 1, result |-> Unreported, package |-> package,
   pending |-> {}, before |-> {}, wanted |-> {}, stuck |-> {}, outcome |-> "applied"]
NoJob == NewJob(Default, "none")

\* The launchable packages the policy leaves nobody.
Wanted(p) ==
  IF p.app_mode = "allowlist" THEN (installed \ Kept) \ p.allowed_packages ELSE {}

AllIdle       == \A t \in Threads : pc[t] = "idle"
Goto(t, step) == pc' = [pc EXCEPT ![t] = step]
Spend(kind)   == left[kind] > 0 /\ left' = [left EXCEPT ![kind] = @ - 1]
Begin(t, j)   == job' = [job EXCEPT ![t] = j]

-----------------------------------------------------------------------------
(* How work begins.                                                        *)

\* HttpServer.putPolicy, on a thread of its own whatever the others do;
\* without owner or admin it answers 422.
PutPolicy(t, p) ==
  /\ up /\ pc[t] = "idle" /\ tier # "none"
  /\ Spend("puts")
  /\ Begin(t, NewJob(p, "none")) /\ Goto(t, "policy")
  /\ alone' = AllIdle
  /\ UNCHANGED <<up, store, disk, platform, events, unseen>>

\* MdmService.onCreate re-asserts the stored policy, then starts listening.
StartsUnasserted ==  \* variant: the stored policy is not re-asserted
  /\ ~up /\ pc[Main] = "idle"
  /\ up' = TRUE
  /\ UNCHANGED <<store, disk, platform, events, pc, job, left, history>>
ServiceStarts ==
  /\ ~up /\ pc[Main] = "idle"
  /\ IF tier = "none"
     THEN up' = TRUE /\ UNCHANGED <<pc, job, alone>>
     ELSE /\ Begin(Main, NewJob(store.policy, "none")) /\ Goto(Main, "policy")
          /\ alone' = AllIdle
          /\ UNCHANGED up
  /\ UNCHANGED <<store, disk, platform, events, left, unseen>>

\* PackageWatch hands the next broadcast to the main thread.
Handles(kind, to, j) ==
  /\ up /\ pc[Main] = "idle"
  /\ events # <<>> /\ Head(events).kind = kind
  /\ events' = Tail(events)
  /\ Begin(Main, j) /\ Goto(Main, to)
  /\ alone' = (alone /\ AllIdle)
  /\ UNCHANGED <<up, store, disk, platform, left, unseen>>

\* onPackageAdded reads the policy; onPackageRemoved, what is pending.
PackageAdded ==
  Handles("added", "launchable", NewJob(store.policy, Head(events).package))
PackageRemoved ==
  LET p == Head(events).package IN
  Handles("removed", "cleared",
          [NewJob(Default, p) EXCEPT !.pending = store.pending \ {p}])

-----------------------------------------------------------------------------
(* apply.                                                                  *)

\* From one step to another: writing the store, asking the platform, or
\* reading either.
Write(t, from, to, s) ==
  /\ pc[t] = from /\ Goto(t, to)
  /\ store' = s
  /\ UNCHANGED <<disk, platform, events, left, history>>
Ask(t, from, to, j) ==
  /\ pc[t] = from /\ Goto(t, to)
  /\ Begin(t, j)
  /\ UNCHANGED <<up, store, disk, tier, installed, events, alone>>
Read(t, from, to, j) ==
  /\ Ask(t, from, to, j)
  /\ UNCHANGED <<suspended, inForce, left, unseen>>

\* "Persist first."
StoresPolicy(t) ==
  /\ Write(t, "policy", "flags", [store EXCEPT !.policy = job[t].policy])
  /\ UNCHANGED <<up, job>>

\* attempt: one platform call per flag; a failing one never stops the others.
Flag(t)      == Order[job[t].next]
Supported(k) == tier = "owner" \/ k \in LiteFlags
AfterFlag(t) ==
  CASE job[t].next < Len(Order) -> "flags"
    [] job[t].next >= Len(Order) /\ tier = "owner" -> "packages"
    [] OTHER -> "enforcement"
EndedMode(t, outcome) ==  \* variant: the lite tier says nothing of app_mode
  [job[t].result EXCEPT ![Flag(t)] = outcome]
Ended(t, outcome) ==
  LET result == job[t].result IN
  [result EXCEPT ![Flag(t)] = outcome,
                 !["app_mode"] = IF tier = "owner" THEN result["app_mode"] ELSE "unsupported"]
Finish(t, outcome) ==
  /\ Ask(t, "flags", AfterFlag(t),
         [job[t] EXCEPT !.result = Ended(t, outcome), !.next = @ + 1])
  /\ UNCHANGED <<suspended, unseen>>

FlagApplied(t) ==
  /\ pc[t] = "flags" /\ Supported(Flag(t))
  /\ Finish(t, "applied")
  /\ inForce' = [inForce EXCEPT ![Flag(t)] = job[t].policy.flags[Flag(t)]]
  /\ UNCHANGED left
FailsSilently(t) ==  \* variant: a failing call is reported applied
  /\ pc[t] = "flags" /\ Supported(Flag(t))
  /\ Finish(t, "applied")
  /\ Spend("failures")
  /\ UNCHANGED inForce
FlagFails(t) ==
  /\ pc[t] = "flags" /\ Supported(Flag(t))
  /\ \E outcome \in Refusals : Finish(t, outcome)
  /\ Spend("failures")
  /\ UNCHANGED inForce
\* setStatusBarDisabled, putString: the call returns false, attempt drops it.
FlagReturnsFalse(t) ==
  /\ pc[t] = "flags" /\ Supported(Flag(t)) /\ Flag(t) \in Silent[tier]
  /\ Finish(t, "applied")
  /\ Spend("failures")
  /\ UNCHANGED inForce
FlagUnsupported(t) ==
  /\ pc[t] = "flags" /\ ~Supported(Flag(t))
  /\ Finish(t, "unsupported")
  /\ UNCHANGED <<inForce, left>>

\* The last store of apply; a service that was starting now listens.
StoresSilently(t) ==  \* variant: the service never starts to listen
  /\ Write(t, "enforcement", "idle", [store EXCEPT !.enforcement = job[t].result])
  /\ Begin(t, NoJob)
  /\ UNCHANGED up
StoresEnforcement(t) ==
  /\ Write(t, "enforcement", "idle", [store EXCEPT !.enforcement = job[t].result])
  /\ Begin(t, NoJob)
  /\ up' = TRUE

-----------------------------------------------------------------------------
(* applyAppMode, with the policy and the outcomes its caller has.          *)

ReadsPackages(t) ==
  /\ Ask(t, "packages", "before", [job[t] EXCEPT !.wanted = Wanted(job[t].policy)])
  /\ unseen' = {}
  /\ UNCHANGED <<suspended, inForce, left>>
ReadsSuspended(t) ==
  Read(t, "before", "lift", [job[t] EXCEPT !.before = store.suspended])

\* setPackagesSuspended returns the packages it could not change: those
\* that are gone, and among those to suspend the protected ones.
ToLift(t)  == job[t].before \ job[t].wanted
Refused(t) == job[t].wanted \cap (Protected \cup (Packages \ installed))
Lifts(t) ==
  /\ Ask(t, "lift", "hold", [job[t] EXCEPT !.stuck = ToLift(t) \ installed])
  /\ suspended' = suspended \ ToLift(t)
  /\ UNCHANGED <<inForce, left, unseen>>
Holds(t) ==
  /\ Ask(t, "hold", "suspended", [job[t] EXCEPT !.stuck = @ \cup Refused(t)])
  /\ suspended' = suspended \cup (job[t].wanted \ Refused(t))
  /\ UNCHANGED <<inForce, left, unseen>>

\* Either call throws: what follows it in the attempt is skipped.
AppModeFails(t) ==
  /\ \/ pc[t] = "lift" /\ ToLift(t) # {}
     \/ pc[t] = "hold" /\ job[t].wanted # {}
  /\ \E outcome \in Refusals :
       Ask(t, pc[t], "suspended", [job[t] EXCEPT !.outcome = outcome])
  /\ Spend("failures")
  /\ UNCHANGED <<suspended, inForce, unseen>>

RecordsSuspended(t) ==
  /\ Write(t, "suspended", "unsuspendable",
           [store EXCEPT !.suspended = job[t].wanted \ job[t].stuck])
  /\ UNCHANGED <<up, job>>
RecordsUnsuspendable(t) ==
  /\ Write(t, "unsuspendable", "filter", [store EXCEPT !.unsuspendable = job[t].stuck])
  /\ UNCHANGED <<up, job>>

\* Approved, uninstalled, or no allowlist any more: not pending.
AlwaysPending(t) == store.pending  \* variant: nothing clears a pending entry
StillPending(t) ==
  IF job[t].policy.app_mode = "allowlist"
  THEN store.pending \cap job[t].wanted ELSE {}
ReadsPending(t) ==
  Read(t, "filter", "pending", [job[t] EXCEPT !.pending = StillPending(t)])

AppModeResult(t) ==
  CASE job[t].outcome # "applied" -> job[t].outcome
    [] job[t].outcome = "applied" /\ job[t].stuck = {} -> "applied"
    [] OTHER -> "limited"
RecordsPending(t) ==
  /\ Write(t, "pending", "enforcement", [store EXCEPT !.pending = job[t].pending])
  /\ Begin(t, [job[t] EXCEPT !.result["app_mode"] = AppModeResult(t)])
  /\ UNCHANGED up

-----------------------------------------------------------------------------
(* onPackageAdded, once it has read the policy: a launchable package that  *)
(* is not on the allowlist is pending, and applyAppMode runs.              *)

NeverHeld(p, policy) == FALSE  \* variant: nobody holds a new package
Held(p, policy) ==
  /\ tier = "owner" /\ policy.app_mode = "allowlist"
  /\ p \notin policy.allowed_packages /\ p \in installed
QueriesLauncher ==
  IF Held(job[Main].package, job[Main].policy)
  THEN Read(Main, "launchable", "awaiting", job[Main])
  ELSE Read(Main, "launchable", "idle", NoJob)
ReadsAwaiting ==
  Read(Main, "awaiting", "awaits",
       [job[Main] EXCEPT !.pending = store.pending \cup {job[Main].package}])
RecordsAwaiting ==
  /\ Write(Main, "awaits", "outcomes", [store EXCEPT !.pending = job[Main].pending])
  /\ UNCHANGED <<up, job>>
ReadsEnforcement ==
  Read(Main, "outcomes", "packages", [job[Main] EXCEPT !.result = store.enforcement])

(* onPackageRemoved, once it has read what is pending: nothing to approve  *)
(* or lift any more.                                                       *)

ClearsPending ==
  /\ Write(Main, "cleared", "gone", [store EXCEPT !.pending = job[Main].pending])
  /\ UNCHANGED <<up, job>>
ReadsHeld ==
  Read(Main, "gone", "lifted",
       [job[Main] EXCEPT !.before = store.suspended \ {job[Main].package}])
ForgetsSuspended ==
  /\ Write(Main, "lifted", "idle", [store EXCEPT !.suspended = job[Main].before])
  /\ Begin(Main, NoJob)
  /\ UNCHANGED up

-----------------------------------------------------------------------------
(* The world around it.                                                    *)

\* SharedPreferences.apply() reaches the disk.
Flush ==
  /\ disk # store
  /\ disk' = store
  /\ UNCHANGED <<up, store, platform, events, pc, job, left, history>>

\* The process dies, by a reboot or otherwise; restrictions and suspensions
\* are the platform's and stay.
Crash ==
  /\ Spend("crashes")
  /\ up' = FALSE /\ store' = disk /\ events' = <<>>
  /\ pc' = [t \in Threads |-> "idle"] /\ job' = [t \in Threads |-> NoJob]
  /\ UNCHANGED <<disk, platform, history>>

\* PackageWatch is registered by an owner, once the startup apply is over.
Broadcast(kind, p) ==
  /\ events' = IF up /\ tier = "owner"
               THEN Append(events, [kind |-> kind, package |-> p]) ELSE events
  /\ unseen' = IF up THEN unseen ELSE unseen \cup {p}

Install(p) ==
  /\ p \notin installed /\ Spend("packages")
  /\ installed' = installed \cup {p}
  /\ Broadcast("added", p)
  /\ UNCHANGED <<up, store, disk, tier, suspended, inForce, pc, job, alone>>

Uninstall(p) ==
  /\ p \in installed \ Kept /\ Spend("packages")
  /\ installed' = installed \ {p} /\ suspended' = suspended \ {p}
  /\ Broadcast("removed", p)
  /\ UNCHANGED <<up, store, disk, tier, inForce, pc, job, alone>>

-----------------------------------------------------------------------------
Init ==
  /\ up = FALSE /\ store = Fresh /\ disk = Fresh
  /\ tier \in Tiers
  /\ installed \in {Kept, Packages} /\ suspended = {}
  /\ inForce = [k \in Flags |-> FALSE]
  /\ events = <<>>
  /\ pc = [t \in Threads |-> "idle"] /\ job = [t \in Threads |-> NoJob]
  /\ left \in Budgets
  /\ alone = FALSE /\ unseen = {}

\* A thread's next step of an apply, and of the main thread's handlers,
\* were every call to do what it is asked.
Apply(t) ==
  \/ StoresPolicy(t) \/ FlagApplied(t) \/ FlagUnsupported(t)
  \/ ReadsPackages(t) \/ ReadsSuspended(t) \/ Lifts(t) \/ Holds(t)
  \/ RecordsSuspended(t) \/ RecordsUnsuspendable(t)
  \/ ReadsPending(t) \/ RecordsPending(t) \/ StoresEnforcement(t)
Receive ==
  \/ QueriesLauncher \/ ReadsAwaiting \/ RecordsAwaiting \/ ReadsEnforcement
  \/ ClearsPending \/ ReadsHeld \/ ForgetsSuspended

Next ==
  \/ \E t \in Handlers, p \in Documents : PutPolicy(t, p)
  \/ ServiceStarts \/ PackageAdded \/ PackageRemoved
  \/ \E t \in Threads : Apply(t) \/ FlagFails(t) \/ FlagReturnsFalse(t) \/ AppModeFails(t)
  \/ Receive
  \/ Flush \/ Crash
  \/ \E p \in Packages : Install(p) \/ Uninstall(p)

Spec == Init /\ [][Next]_vars

\* Every thread runs.  What the main thread runs next is the apply or the
\* handler it is in, the broadcast delivered to it, or onCreate, for which
\* BootReceiver, or the system for a sticky service, starts the process again.
MainRuns == Apply(Main) \/ Receive \/ ServiceStarts \/ PackageAdded \/ PackageRemoved
FairSpec == Spec /\ WF_vars(MainRuns) /\ \A t \in Handlers : WF_vars(Apply(t))

-----------------------------------------------------------------------------
Steps == {"idle", "policy", "flags", "packages", "before", "lift", "hold", "suspended",
          "unsuspendable", "filter", "pending", "enforcement", "launchable", "awaiting",
          "awaits", "outcomes", "cleared", "gone", "lifted"}

TypeOK ==
  /\ up \in BOOLEAN /\ store \in Record /\ disk \in Record
  /\ tier \in Tiers /\ installed \subseteq Packages /\ suspended \subseteq installed
  /\ inForce \in [Flags -> BOOLEAN]
  /\ events \in Seq([kind : {"added", "removed"}, package : Packages])
  /\ pc \in [Threads -> Steps] /\ job \in [Threads -> Job]
  /\ left \in Budget
  /\ alone \in BOOLEAN /\ unseen \subseteq Packages
  /\ pc[Main] = "awaiting" => job[Main].package \in Packages

\* Nothing is being applied and no broadcast waits.
Quiet == up /\ AllIdle /\ events = <<>>

\* Once the service listens every key has an outcome, in every tier that
\* enforces any and however applies overlap: Home Assistant takes a key
\* without one for no problem.
EveryKeyReported ==
  up /\ tier # "none" => store.enforcement \in [Keys -> Outcomes]

\* However applies overlapped, failed or were cut short before: at rest after
\* a whole apply that nothing overlapped, a flag reported applied has the
\* stored policy's value, but for one whose call can fail without a word.
FlagsInForce ==
  Quiet /\ alone => \A k \in Flags \ Silent[tier] :
    store.enforcement[k] = "applied" => inForce[k] = store.policy.flags[k]

\* At rest after such an apply, under an allowlist reported applied or
\* limited, no application outside it opens, but for those reported
\* unsuspendable and those installed while the service started.
AllowlistHolds ==
  Quiet /\ alone /\ store.enforcement["app_mode"] \in {"applied", "limited"}
    => Wanted(store.policy) \ unseen \subseteq suspended \cup store.unsuspendable

\* At rest after such an apply only applications the allowlist holds back
\* await approval: none that is approved, uninstalled (while the service
\* watched) or free because the mode is open.
PendingIsHeld == Quiet /\ alone => store.pending \ unseen \subseteq Wanted(store.policy)

\* Whatever crashes, the service comes back and enforcement comes to rest.
ComesToRest == []<>Quiet

\* What Home Assistant may rely on: seen through its stored policy, the
\* values in force and the outcomes it reports, the tablet does what
\* TabletPromise says, through overlapping applies, failing calls, package
\* events and crashes.
Promise == INSTANCE TabletPromise WITH
  told      <- Flags \ Silent[tier],
  Policies  <- Documents \cup {Default},
  Outcomes  <- Outcomes \cup {"none"},
  policy    <- store.policy,
  durable   <- disk.policy,
  reported  <- [k \in Flags |-> store.enforcement[k]],
  state     <- IF ~AllIdle THEN "busy" ELSE IF up THEN "settled" ELSE "down",
  enforcing <- {job[t].policy : t \in {u \in Threads : pc[u] \in {"policy", "flags"}}}
KeepsPromise == Promise!Spec

(* What the documents say, and the code does not keep.                     *)

\* docs/protocol.md: "open: lift every suspension this DPC placed".
OpenLiftsAll ==
  Quiet /\ store.policy.app_mode = "open" /\ store.enforcement["app_mode"] = "applied"
    => suspended = {}

\* docs/decisions.md: "The DPC re-applies every key so a lost earlier push
\* cannot leave the tablet in a mixed state".
NeverMixed ==
  Quiet /\ (\A k \in Flags : store.enforcement[k] = "applied") =>
    inForce = store.policy.flags
=============================================================================
