# TLA+ verification of local_mdm

Local MDM manages Android tablets from Home Assistant without a cloud: a Python
integration (`src/custom_components/local_mdm`, "Home Assistant" below) pushes one
policy document over HTTP to a device policy controller
(`src/android/app/src/main/java/com/trooperthorn/localmdm`, "the tablet"), which
stores it, enforces it through Android's device policy manager and reports back by
webhook. These modules model the policy document, the protocol that carries it, its
enforcement, how a tablet is paired and followed, and how its reports reach Home
Assistant; TLC checks them on small instances and TLAPS proves the safety properties
for all instances.

## Inventory

| component | state it keeps | operations | hard behaviours |
|---|---|---|---|
| Policy document and guards (`policy.py`, `const.py`, `Policy.kt`) | none | `validate_policy`, `Policy.fromJson`, `toJson` | the same guard written twice, in two languages, over untyped JSON; normalisation (own package removed, kiosk targets folded into the allowlist) |
| Coordinator (`coordinator.py`, `api.py`, `services.py`, switches, selects, texts) | `desired_policy`, `_policy_version`, `_policy_known`, `data`, `_push_lock` and its queue, time of the last re-push | setup, poll, webhook report, one-key changes, whole-document service, re-push on drift | tasks interleave at every await; lost and late HTTP calls; the tablet silent while Home Assistant starts; restarts of both sides |
| Policy engine (`PolicyEngine.kt`, `PolicyStore.kt`, `PackageWatch.kt`, `HttpServer.kt`, `MdmService.kt`) | stored policy, version, enforcement, suspended, unsuspendable and pending packages; the platform's restrictions and suspensions | PUT, service start, package broadcasts, `apply`, `applyLite`, `applyAppMode` | no lock: HTTP threads and the main thread interleave between any two accesses to the store; crash between any two steps; asynchronous store; platform calls that throw, or fail without a word |
| Installer (`Installer.kt`, `InstallReceiver.kt`) | `running`, `lastInstall`, platform sessions | start, download, commit, confirmation, result, self-update | results after the process died, one guard for all of it |
| Kiosk (`KioskActivity.kt`, `HomeWatch.kt`, `applyKiosk`) | lock task mode, HOME alias, watched target | start, stop, re-launch, foreground poll | activity life cycle against a policy that changes |
| Reporting (`WebhookReporter.kt`, heartbeat, `__init__.py`, `_schedule_webhook`) | webhook URL, `_webhook_pending`, one reporting thread and its queue | deliver the URL, resend, report, poll | delivery fails and is retried; statuses read while they change; restarts of both sides |
| Pairing (`config_flow.py`, `unifi.py`, `_relocate`, `_sync_mac`) | config entries, device registry, host, MAC addresses, token | pair, pair again, reauthenticate, relocate, register a MAC | trackers that lag behind, addresses taken by another tablet, tokens rotated or mistyped |
| Immediate actions (lock, reboot, Wi-Fi) | `last_actions` | one call each | an answer that is lost, or a refusal |
| Fleet status, entities, diagnostics | none | views of `data` | tablets that are unreachable or were never seen |

Interaction: Home Assistant calls the tablet (GET status, PUT policy); the tablet's
answer and its webhook reports carry the same status document; the tablet's components
share `PolicyStore`. The correctness of each component, in a sentence:

* guards: both sides accept the same documents and normalise them alike, so that what is
  pushed is what is stored and what is read back;
* coordinator: no interleaving of safe changes makes an unsafe document, nothing nobody
  asked for changes, pushes are serialised, every call returns and the tablet converges
  to the desired policy;
* policy engine: whatever overlapped, failed or crashed, an apply that nothing overlaps leaves a
  report that is true, and seen from Home Assistant the tablet does what `TabletPromise` says;
* installer: one installation at a time, and every one settles;
* reporting: the URL arrives in the end, what is shown ends up true, and no outcome is made
  up or forgotten;
* pairing: an entry never takes another tablet's token or status, and a tablet that moved
  is found or asked about;
* kiosk: the locked application is the policy's (not modelled).

## Modules

| module | models |
|---|---|
| `PolicyDoc` | raw JSON documents, both guards, the wire form, and the guard on documents that already have a policy's shape |
| `PolicyRoundTrip` | a raw document sent through Home Assistant, or directly to the tablet, stored, and read back |
| `Coordinator` | one coordinator, its operators, the network and its tablet |
| `TabletPromise` | abstract: what a tablet promises about its flags |
| `PolicyEngine` | enforcement on the tablet, step by step; implements `TabletPromise` |
| `Installer` | `install_package` on the tablet, from the request to its result |
| `Tracking` | config flows, UniFi trackers, rejected tokens, MAC addresses and relocation |
| `Reporting` | polls, reports, the webhook URL, the buttons, and what the entities show |
| `MC*` | small instances of `PolicyRoundTrip` and the five components |
| `PolicyRoundTrip_proofs`, `Coordinator_proofs`, `PolicyEngine_proofs`, `Allowlist_proofs`, `Installer_proofs`, `Tracking_proofs`, `Reporting_proofs` | theorems; `Allowlist_proofs` builds on the invariant of `PolicyEngine_proofs` |

`Coordinator`, `Tracking` and `Reporting` are three views of the same coordinator.
They share no variables: which policy is pushed does not depend on where the tablet is, and
neither on whether its reports arrive, except that a poll may fail, which each of them lets
happen. `Coordinator` and `PolicyEngine` meet in `TabletPromise`: the engine implements it,
and its steps (a policy replaced as a whole, written to the disk later, set back by a restart)
are those of the tablet in `Coordinator`, which stores in one step.

A definition whose comment says "variant" is a plausible bug of the definition after
it; it is used to confirm that a property would notice that bug.

### PolicyDoc and PolicyRoundTrip

A raw document is a function from the keys present to typed JSON values. `PyVerdict`
and `KtVerdict` keep the order of the checks, which decides between "unsafe" and
"invalid". Differences between the languages are kept: Kotlin reads a list key that is not
an array as absent and turns a non-string entry into text (`CoercedName`). Lists are sets
because both guards sort and drop duplicates. On the tablet the store is read through the
guard again. `Normalize` and `Acceptable` are the guard restricted to documents of the
right shape, which is all that the coordinator hands to it. The tier is not in this module: a
tablet without owner or admin stores no document (422, `HttpServer.kt:59-61`), which is an exchange
that ends earlier. The store's own re-read of a document (`PolicyStore.kt:40-45`) is no step of its
own, because a stored policy passes the guard unchanged (`KtFixpoint`).

### Coordinator

An action is one run of the event loop between two awaits; the only awaits are the HTTP
call and the push lock. `pc[t]` says where each task is: operators' calls (`Writers`),
`Poll` and `Reconcile`. The correspondence:

| code | model |
|---|---|
| `_async_setup`, first refresh, later polls | `PollStarts`, `SetupAnswered`, `PollAnswered`, `PollFails`; `phase` |
| `async_set_policy_flag` and its siblings | `SetKnown`, or `SetUnknown` then `EnsureAnswered` / `EnsureFails` |
| `async_apply_policy` | `ApplyPolicy` (guard, lock), `Wake`, `PushAnswered`, `PushFails` |
| `_on_status`, `_adopt_policy`, `_reconcile_if_drifted` | `OnStatus`, `Adopt`, `ReconcileIfDrifted` |
| `async_handle_push` | `WebhookReceived` |
| the tablet's `putPolicy`, `status` | `TabletStores`, then `TabletAnswers` (both: `TabletServes`); `TabletServesLate`, `TabletReports` |
| `SharedPreferences.apply()` | `memory`, `disk`, `TabletFlushes`, `TabletRestarts` |

Assumptions, each from the code or the platform:

* `asyncio.Lock` is first in, first out, and is free between a release and the wake of
  the longest waiter: `locked()` is false there. Home Assistant runs the re-push as an
  eager background task, so it takes the lock or its place in the queue at once.
* The tablet's stored policy is a normalised one, or one that this Home Assistant's guard
  refuses (`Foreign`, for example of a newer tablet).
* `IntervalElapsed` happens only when no re-push is under way: 30 s is longer than the 5 s
  timeout of a request.
* One report is in flight at a time: `WebhookReporter` has a single thread.
* Requests that time out, are refused or answer with an error are `CallFails`; a PUT whose
  caller gave up may be executed later (`late`).
* The tablet stores a PUT in one step and answers in another: `HttpServer` runs each request in
  a thread of its own, so a late PUT may be stored between the two and be in the answer.
  `PolicyEngine` takes the first step apart. Rejected tokens and relocation are in `Tracking`,
  the webhook URL in `Reporting`.

### PolicyEngine

An action is one access to the store or one platform call; a read of the store, the change of what
was read and the write back are separate actions. Nothing is locked in the code and nothing is
locked here: each PUT runs on a thread of its own (`Handlers`), the start of the service and the
package broadcasts on the main thread, and any of them may take a step between any two of another.

| code | model |
|---|---|
| `putPolicy`, `onCreate`, `PackageWatch` | `PutPolicy`, `ServiceStarts`, `PackageAdded` and `PackageRemoved` |
| `apply`, `applyLite` | `StoresPolicy`; per flag `FlagApplied`, `FlagFails`, `FlagReturnsFalse` or `FlagUnsupported`; `StoresEnforcement` |
| `applyAppMode` | `ReadsPackages`, `ReadsSuspended`, `Lifts`, `Holds` (or `AppModeFails`), `RecordsSuspended`, `RecordsUnsuspendable`, `ReadsPending`, `RecordsPending` |
| `onPackageAdded` | `PackageAdded` reads the policy; `QueriesLauncher`, `ReadsAwaiting`, `RecordsAwaiting`, `ReadsEnforcement`, then `applyAppMode` |
| `onPackageRemoved` | `PackageRemoved` reads what is pending; `ClearsPending`, `ReadsHeld`, `ForgetsSuspended` |
| `SharedPreferences.apply()` | `store`, `disk`, `Flush`, `Crash` |

`suspended`, `inForce` and `installed` are the platform's. The job of a thread holds the locals of
the functions it is in. A platform call succeeds, is refused or fails; a few calls
(`setStatusBarDisabled`, `Settings.Global.putString`) tell failure by returning `false`, which
`attempt` drops, so the key is reported `applied` (`FlagReturnsFalse`; `Silent` says which flags
these are in which tier). `setPackagesSuspended` returns the packages it could not change. The tier
is fixed within a behaviour and takes all three values. `kiosk_mode` and `wifi_always_on` are left
out, since their enforcement is more than one call that turns something on or off, and so is the
policy's version, which nothing on the tablet compares.

While applies overlap, the tablet promises little, and what it comes to rest with may be wrong
(`Overlap`). What the code does keep is that an apply which nothing overlaps puts everything right
again, whatever happened before. Two history variables say so; no action's guard reads them:

* `alone` becomes true when an apply of a whole policy begins with every thread idle, and false when
  anything begins beside something else.
* `unseen` collects packages that came or went before `PackageWatch` listens and the apply that is
  starting the service asked for the packages. `PackageWatch` is registered after that apply
  (`MdmService.kt:40-42`), so no broadcast tells of them.

`FlagsInForce`, `AllowlistHolds` and `PendingIsHeld` speak of a tablet at rest with `alone`. What
they leave out is what the code does not keep:

* After an overlap flags may be reported `applied` and not be in force, an application outside the
  allowlist may be open, and an approved one may still be pending (an approval between
  `PolicyEngine.kt:117` and `122`), until the next apply that nothing overlaps.
* A flag in `Silent` may be reported `applied` and not be in force.
* An application installed while `onCreate` applies, after the apply asked for the packages, stays
  open and is not offered for approval until the next apply; `docs/protocol.md:103-104` says
  "suspended at once".

`EveryKeyReported` has no such condition: Home Assistant takes a key without an outcome for no
problem, so none may be missing whatever overlaps.

`TabletPromise` is the tablet as Home Assistant sees it: the policy it holds, the one a restart
would bring back, each flag's value in force and its reported outcome. It may replace its policy
only by one it is enforcing, may turn a flag only to the value of such a policy, and may settle, when
nothing overlapped, only with outcomes that are true of every flag whose failures it is told of. The
refinement mapping (`Promise` in `PolicyEngine`) takes the stored policy and the disk's for
`policy` and `durable`, the platform for `inForce`, the stored outcomes for `reported`, the flags
outside `Silent` for `told`, "no thread has work" for `settled`, and the policies of the threads that
store one or turn flags for `enforcing`. `KeepsPromise` is the abstract specification as a property.

### Installer

The worker is a queue of tasks and the next step of the first (`Downloads`, `ChecksDigest`,
`RecordsInstalling`, `Commits`, `DeletesFile`, and the two ways to fail). The file and the
platform's sessions and broadcasts outlive the process; the guard, the queue and the
`Installer` do not, and a broadcast that finds no `Installer` is dropped (`Finished`).
`start` takes the guard, records and queues in one action. A confirmation is answered no
sooner than what was recorded has reached the disk: a person takes seconds, the disk
milliseconds. How a session may end is the platform's (`Endings`): for a device owner either way at
once, for a plain admin by a failure before the question or as the user answers. Each installation
stands for one URL and gets one session. Tier "none"
answers 422 and is left out, as is the destruction of the service in a process that lives on.
`OneAtATime`, `ShownIsUnderway` and `OutcomeTold` are stated for the first process only (`epoch`),
because the code keeps them no longer: after a crash a result may find no `Installer`, so that
`installing` stays, and a result of an earlier process frees the guard of a later installation.
`SelfUpdateTold` and `SelfUpdateShown` are about the first update of the controller itself: a
second one, let in by a guard freed too early, may be confirmed while no service runs; then
`awaiting_user` is never recorded, and nothing is left to settle. With every installation in
`Self` TLC refutes `SelfUpdateTold` that way. `GuardHasOwner` holds in every process.

### Tracking

A tablet stands for its device id and its MAC; `at` is its address, `secret` how often its token
was rotated, `seen` what its UniFi tracker shows. Several tablets share addresses over time.

| code | model |
|---|---|
| `async_step_manual`, `async_step_unifi`, the probe and `_async_pair` | `PairByHand`, `PairFromUnifi`, then `Creates`, `Updates` or `FlowFails` |
| `async_step_reauth_confirm` | `Reauthenticate`, then `Reauthenticated` or `FlowFails` |
| `_fetch`, with `ConfigEntryAuthFailed` and connection errors | `PollAnswered`, `PollRejected`, `PollUnanswered`; `phase`, `asked` |
| `_relocate`, before and after its probe | `Relocate`, `Followed`, `NotFollowed`; `chase`, `armed` |
| `_sync_mac`, the device registry | `SyncMac`; `known`, `connections` |
| `async_handle_push` | `Reported` |
| options flow, restart | `Reload`, `Load` |

What is read before a probe is kept in `flow` or `chase`, so that the world may change before
the answer. A probe itself happens at one moment. Where the code takes the first tracker that
fits, any that fits may be taken. Config flows come one at a time, and a form that is shown
again is the next flow. A fetched status, the device and its entities come in one step (`Fetched`);
that the platforms are set up only after the webhook was sent is in `Reporting`. Each tablet draws its own token; a rotation never repeats one.

### Reporting

One flag stands for the policy. `status()` reads the policy and later the enforcement
(`ReadsPolicy`, `ReadsEnforcement`), for the answer to a poll, to a push, or for the reporting
thread, while the push handler writes the two one after the other (`StoresPolicy`,
`StoresEnforcement`). `phase` follows `async_setup_entry`; `sends` are the background sends of
`_schedule_webhook`, `pending` is `_webhook_pending`. A report is addressed to the URL known
when it was queued and reads the status when its turn comes. Queued reports to one URL are one:
each would read the status afresh. `performed` is a history variable: what the tablet carried
out since the button was last pressed. `FleetStatus` and `IsEnforced` are the entities' views.
A restart of Home Assistant takes longer than any call, so nothing of the old run is left in it;
a report under way may still arrive, because the webhook id is the entry's. A URL the tablet
answered for is taken to be on its disk.

## Runs

| run | asks | result |
|---|---|---|
| `RoundTrip` | every document with missing, well typed and ill typed keys, both ways in | holds |
| `Changes` | two operators on a tablet under the allowlist, changes safe alone and unsafe together, the re-push and one lost call; nobody waits for what will not come (`NobodyStranded`), and every call returns (`EveryCallReturns`, liveness) | holds |
| `Restarts` | one operator; a lost call, a late PUT and a reboot, or a late PUT and a restart of Home Assistant, or a tablet silent until after the first change is asked for. No flag changes unasked; polls alone restore the desired policy (`Converges`, liveness), and nothing but an operator or a restart of Home Assistant parts the two sides again (`AgreementLasts`) | holds |
| `Enforcement` | all tiers, two HTTP threads beside the main one, overlapping PUTs, package changes, failing calls, a crash; `ComesToRest` is liveness; `KeepsPromise` is the refinement of `TabletPromise` | holds |
| `Installing` | three installations, both tiers, a failure and a crash: the guard is taken for one installation and is freed (`OneAtATime`, `GuardHasOwner`, `GuardFreed`), what is installed is what was checked (`SealedIsIntact`), `last_install` tells what goes on and how it ended (`ShownIsUnderway`, `OutcomeTold`, `SelfUpdateShown`, `SelfUpdateTold`) | holds |
| `Tracking` | two tablets that swap addresses, rotate tokens and lose answers while they are paired; `FollowedOrAsked` is liveness | holds |
| `Reporting` | both tiers, lost calls, restarts, pushes, package events, buttons; `UrlSettles` and `ShownSettles` are liveness | holds |
| `LostChange` | `coordinator.py:352`: a call changes one flag | violated |
| `StaleAdoption` | `coordinator.py:264`: an acknowledged policy is not replaced by a report | violated |
| `OpenLifts` | `docs/protocol.md:96`: open lifts every suspension | violated |
| `Overlap` | `docs/decisions.md:25`: a lost earlier push leaves no mixed state | violated |
| `WrongMac` | `coordinator.py:183`: a MAC looked up at the tablet's host is the tablet's | violated |

The violated ones are short, and describe how to see it:

* `LostChange`: two switches are turned at once. Each merges its flag with
  `desired_policy` before it waits for the lock, so the second pushes a document without
  the first one's change. `docs/backlog.md:39` reports the symptom.
  The background re-push captures its document early too: a report of a drifted policy
  that arrives after a push released the lock and before its waiter runs (`locked()` is
  false there) starts a re-push that queues behind the waiter and overwrites its change.
* `StaleAdoption`: `apply_policy` is called while the policy is unknown. It does not set
  `_policy_known`, so a status read before the push is adopted after it.
* `OpenLifts`: a lift that fails erases the record of what was suspended; the next `open`
  lifts nothing and reports `applied`.
* `Overlap`: Home Assistant gives up on a PUT that the tablet still enforces and sends the next one.
  The two applies take turns flag by flag: some flags of each stay in force, and all are reported
  `applied`.
* `WrongMac`: a tablet took over an address whose tracker still names the client before it. Paired
  by hand, it is registered under that client's MAC (`config_flow.py:145`).

Four things the models contain that no run of its own is about:

* A push whose answer was lost is followed by one with the same version, although
  `docs/design.md:77` says versions increase, and a polled version is not taken into the maximum
  of `docs/design.md:79`. Nothing compares versions.
* `PolicyEngine.kt:50` persists first so that a crash cannot leave the previous policy on disk,
  but the write is asynchronous (`PolicyStore.kt:45`). `TabletPromise` promises only what the
  disk holds.
* A lock that the tablet refuses is neither recorded nor caught (`coordinator.py:398`);
  `OkWasDone` names the exception.
* A moved tablet whose old address was taken by another one answers 401, so the user is asked
  for a token and the flow probes the wrong tablet. A token rejected at the new address is
  swallowed (`coordinator.py:240`), and pairing a tablet again does not update its token
  (`config_flow.py:214`). `FollowedOrAsked` is therefore stated for a tablet whose stored token
  is current and whose only known MAC is its own, and lets the user be asked.

### Bounds

`Budgets` bounds the faults of a behaviour; the bounds are in the guards and every one is
a constant given in the `MC` module. Two operators suffice for every race about the lock,
because a third only lengthens the queue; the serialisation and safety properties are
proved for any number. One operator and two or three faults of different kinds, or three failures,
reach every path through setup, `_async_ensure_policy_known` and a push, in every order with the
restart of either side. Late PUTs and a request that empties the allowlist are not in `Changes`: that
they lead to no unsafe document is `PoliciesSafe`, for any requests and faults.
Three flags (kiosk, one that is changed, one that is not) and three packages (an
application, the controller, a coerced name) distinguish all that the guards distinguish.
In `Enforcement` two flags put a crash, a failure or another apply between two flags, and the three
packages are one never suspended, one ordinary and one the platform refuses to suspend. Two handlers
beside the main thread overlap in every way that matters to a pair, and three PUTs let one follow,
alone, on two that overlapped. Its budgets are three PUTs; two PUTs and a crash; a PUT with
two package changes and a crash; a PUT, a failing call and a package change; and a PUT, a failing call
and a crash. The theorems hold for any number of threads and faults.
In `Installing` there are an application with a digest, one without, and the controller.
`Tracking` has two tablets and two addresses, which is enough for one to take the other's; one
reports its own MAC and one does not. Its three budgets give moves with rotated tokens, three
flows (a pair, a second pair, a reauthentication or a pairing again), and a lost answer with a
reload. `Reporting` has two addresses of Home Assistant and splits the trouble over six budgets,
each a combination that meets in one mechanism (the URL, a push and its status, two pushes, the
buttons). Its one restart is a real bound for `BelievesRight`: two restarts of Home Assistant
while a single report is under way could let that report, of a URL two runs old, clear the
pending mark of the present one. A report's POST times out long before.

Each operator makes one call in a behaviour, of those `Asks` gives it: in `Changes` each of the
two asks for a change of its own, in the other runs of the coordinator for any of the requests. Each run of the coordinator is closed under
stuttering of the operators, so deadlock is checked there; `RoundTrip` ends, and
`PolicyEngine`, `Installer` and `Tracking` may be at rest with their budgets spent, so those
switch the check off.

### Fairness

`Coordinator`: weak fairness of each task's next step (`GoesOn`: the tablet serves its request,
the event loop continues it once it is answered, as asyncio runs every ready task, and the poll
timer starts the poll), of the wake of a waiter, of the re-push interval and of the write to the
tablet's disk. Nothing requires an operator to call, a report to arrive or be
sent, or a fault to happen: convergence is by polls alone. Faults are bounded, not unfair:
the property concerns what follows the last one. `PolicyEngine`: weak fairness of each
handler's steps, and of the main thread's (`MainRuns`): the step of what it is in, the delivery of
the next broadcast, or the restart of the service (`BootReceiver`, `START_STICKY`). A failing call
has none. `Flush` has none. `Installer`: the worker, the delivery of
broadcasts, the restart of the service, and the platform's handling of a committed session
(the end of one for a device owner, the question for a plain admin). No user has to answer.
`Tracking`: polls, the ends of probes, the relocation interval and the trackers' updates; no user
acts and no report arrives by fairness. `Reporting`: polls, the tablet's steps and its restart,
the end of every call; the reporting thread works, but any report may be lost, and the
heartbeat has no fairness: both liveness properties hold by polls and resends alone.

## Proofs

`PolicyRoundTrip_proofs` proves, for any sets of flags, packages and raw documents, the
type invariant and the four properties of `RoundTrip`. Each is inductive with the guards'
lemmas: what a guard accepts is normalised, and a normalised policy in its wire form passes
either guard unchanged (`PyFixpoint`, `KtFixpoint`).

`Coordinator_proofs` proves, for any operators, requests, flags, packages and number of
faults:

* `TypeCorrect`: `Spec => []TypeOK`. The types alone are not inductive: the answer to an
  ensuring read merges the request, so `TypeInv` adds that an ensuring operator's request is
  a change (`EnsuringHasChange`).
* `Serialised`: `Spec => []PushesSerialised`, inductive over the lock and the queue.
* `PoliciesSafe`: `Spec => []EveryPolicySafe`. The invariant is strengthened with the same
  fact for every status on its way (answers and reports), since adopted documents come
  from there.
* `UntouchedSurvive`: `Spec => UntouchedFlagsSurvive`. Its invariant says that, unless the
  tablet's policy is foreign, every place a document may come from (desired once known,
  plans, calls, late PUTs, reports, answers, memory and disk) agrees with the tablet on
  the untouched flags.
* `NobodyLeft`: `Spec => []NobodyStranded`, the safety half of `EveryCallReturns`. A task awaits
  an answer exactly when it has a call and only a push has a PUT (`CallsInv`). Together with the
  lock (`LockInv`) this gives the second half: whoever waits does so behind a task with a call, or
  the lock is free and it can be woken.
* `AgreementStays`: `Spec => AgreementLasts`, the safety half of `Converges`. It needs everything
  above but the untouched flags: agreed documents are normalised (`PoliciesSafe`'s invariant), so
  their report is no drift and starts no re-push; nobody pushes, so no PUT is in a call
  (`CallsInv`) and none can become late; a reboot brings back the same document.

`Installer_proofs` proves, for any installations and faults:

* `TypeCorrect`: `Spec => []TypeOK`.
* `SealsIntact`: `Spec => []SealedIsIntact`. The guard is no part of this argument, since a late
  result may free it: what keeps the file of one installation out of another's session is the
  single worker. The invariant adds that between the check and the session the file is the
  checked one, that every task begins with its download, and that broadcasts are about committed
  sessions.
* `GuardOwned` (`[]GuardHasOwner`), `ShownTruly` (`[]ShownIsUnderway`), `OneInstallation`
  (`[]OneAtATime`) and `UpdateShown` (`[]SelfUpdateShown`) from one inductive invariant, `GuardInv`,
  because none of them is inductive alone. It adds to `GuardHasOwner` and `ShownIsUnderway` that the
  worker's tasks are distinct and only the first can have a session already (`TasksOrdered`), that a
  broadcast tells the state its session is in, so that a session has one broadcast at most
  (`BroadcastsAgree`), that a dead process has no guard and no queue (`DeadIsIdle`), that in the
  first process whatever is under way has the guard and the controller is not updated yet
  (`FirstProcess`), and that after its first update what was recorded before the process died is
  what the next start settles (`AfterUpdate`). `OneAtATime` follows: what is under way is what is
  shown, and one installation is shown.

`PolicyEngine_proofs` proves, for any flags in any order, packages, policies, tiers, number of threads,
failures and crashes, overlapping applies included:

* `TypeCorrect`: `Spec => []TypeOK`.
* `OutcomesComplete`: `[]EveryKeyReported`. An apply writes its outcomes only after its last key, and
  the handler of a new package takes them from the store, which by then has all of them.
* `FlagsTrue`: `[]FlagsInForce`. At rest the property speaks of the store and the platform alone, so
  the invariant (`FlagInv`) follows an apply. Its first part (`BaseInv`) holds whatever overlaps; its
  second (`Sole`) holds while `alone` does: one thread at most has work, past its first step its policy
  is the stored one, and every outcome it has collected so far is true, whichever flag it has reached. A crash
  makes the stored outcomes false; nothing is claimed until a start has written new ones.
* `PromiseKept`: `Spec => KeepsPromise`: one lemma per kind of step shows which step of
  `TabletPromise` it is. The write of the outcomes is its `Report`, and needs `FlagInv`.

`Allowlist_proofs` proves `AllowlistEnforced` and `PendingHeld`, for as many threads and faults. An
apply looks at the installed packages once, and they change under it, so no invariant about suspended
packages is exact: `ModeInv` states every fact up to the broadcasts that wait (`Coming`, `Going`) and
the packages no broadcast tells of (`unseen`). While `alone` holds (`ModeSole`), what the stored policy
bars is among what the apply wants to suspend or about to be told of; after the calls that succeeded it
is suspended, recorded as stuck, or about to be told of; and what is pending is barred or a
broadcast tells that it is gone. At rest no broadcast waits, and the properties follow.

`Tracking_proofs` proves `TrackingTypeCorrect` and `EntryStaysWithItsTablet` (`[]NeverRedirected`) for any
tablets, addresses, trackers and amount of trouble. The argument does not look at addresses at
all: whoever accepts a token drew it, so a status taken with an entry's token is its tablet's, and a
config flow compares the device id before it writes. `Loaded` adds that whatever waits for an
entry's coordinator or user has an entry.

`Reporting_proofs` proves:

* `ReportingTypeCorrect`: `[]TypeOK`.
* `UrlBelievedRight`: `[]BelievesRight`, for any number of lost calls, reboots, pushes and sends, when
  Home Assistant restarts at most once. A report to this run's URL may clear the pending mark, so
  `UrlInv` adds that such a report is queued or under way only if the tablet has that URL; before the
  restart no URL but the present one is about. The bound is needed (see "Bounds").
* `OutcomesAreTrue`: `Spec => OkWasDone`, from the fact that the tablet's "ok" is of something done.
* `StatusIsKept`: `Spec => NeverForgotten`, from the fact that a reachable tablet's status is a document.

The theorems rest on the named assumptions of the modules that declare the constants: the kiosk
flag is a flag, keys of different kinds differ, the tablet starts with a normalised or a foreign
policy, the names of tasks and threads differ, an installation is neither "nothing" nor "corrupt",
and the value for "none" differs from what it may stand beside. TLC evaluates the assumptions
in every run. The number of restarts is an assumption of `UrlBelievedRight`; the others assume
nothing about faults or interleavings.

Only model-checked are the liveness properties (`Converges`, `EveryCallReturns`, `ComesToRest`,
`GuardFreed`, `OutcomeTold`, `SelfUpdateTold`, `FollowedOrAsked`, `UrlSettles`, `ShownSettles`):
fairness is out of the prover's reach, as is what a recursive definition computes for every input,
of which the proved modules have none. For `Converges`, `EveryCallReturns`, `GuardFreed` and
`SelfUpdateTold` the safety half is a property of its own and is proved (`AgreementLasts`,
`NobodyStranded`, `GuardHasOwner`, `SelfUpdateShown`). Every invariant and action property that a
passing run checks is stated by a theorem. `PolicyEngine`'s type invariant is only proved: no run
names it.

## State of the plan

Done: `PolicyDoc`, `PolicyRoundTrip`, `Coordinator`, `Installer`, `PolicyEngine` with
`TabletPromise`, `Tracking`, `Reporting`, and the proofs above.

What could follow, in this order: a run for an installation's late result (`OneAtATime` fails after a
crash, as the hazards say) and one for a package installed while the service starts; `kiosk_mode` and `wifi_always_on` as
sequences of platform calls in `PolicyEngine`.

## Not modelled

* The kiosk (`KioskActivity`, `HomeWatch`, `applyKiosk`): what could go wrong there is between the
  activity life cycle and Android's lock task mode, which the code calls and does not describe. A
  model would be of Android, not of the source.
* The entities that copy one field of the status, and diagnostics: no state and no condition.
* The tablet's screens, and the build and release scripts: no protocol state.
* Entry titles, areas, ports, URL syntax and wording: nothing depends on them.
