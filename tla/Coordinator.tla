---------------------------- MODULE Coordinator ----------------------------
(***************************************************************************)
(* The policy protocol between one LocalMdmCoordinator (coordinator.py)    *)
(* and its tablet: operator calls, polls, webhook reports and re-pushes,   *)
(* as tasks of Home Assistant's event loop; a network that loses requests  *)
(* and answers and may deliver a request after its caller gave up; a       *)
(* tablet that stores whatever PUT reaches it; restarts of either side.    *)
(*                                                                         *)
(* An action is one run of the event loop between two awaits.  The only    *)
(* awaits are the HTTP call and the push lock.                             *)
(***************************************************************************)
EXTENDS PolicyDoc, Naturals, Sequences

CONSTANTS
  Writers,          \* the operators' calls, one task each
  Requests,         \* what operators may ask for
  Asks,             \* which of it each of them may
  Foreign,          \* a stored policy this Home Assistant cannot own
  InitialPolicies,  \* what the tablet may hold at the start
  Budgets           \* bounds: how many faults of each kind may happen

Poll      == "poll"       \* the coordinator's own refresh, setup included
Reconcile == "reconcile"  \* the background re-push after drift
Tasks     == Writers \cup {Poll, Reconcile}

\* Changes of one part of the desired policy, and the whole-document service.
Change == [kind : {"flag"}, key : Flags, value : BOOLEAN]
          \cup [kind : {"kiosk_packages", "allowed_packages"}, value : SUBSET Packages]
          \cup [kind : {"app_mode"}, value : AppModes]
          \cup [kind : {"approve"}, value : Packages]
Whole  == [kind : {"whole"}, value : Policy]

Held    == Policy \cup {Foreign}
Version == Nat
Status  == [policy : Held, version : Version, reachable : BOOLEAN]
NoData    == [kind |-> "none"]
NoRequest == [kind |-> "none"]
NoCall    == [kind |-> "none"]
Get       == [kind |-> "get"]
Put(p, v) == [kind |-> "put", policy |-> p, version |-> v]
Answer(s) == [kind |-> "answer", status |-> s]
Calls     == {NoCall, Get} \cup [kind : {"put"}, policy : Policy, version : Version]
                           \cup [kind : {"answer"}, status : Status]
NoReport  == [kind |-> "none"]
Free      == "free"

\* HTTP calls that fail, requests executed after their caller gave up,
\* Home Assistant restarts and tablet restarts.
Budget == [failures : Nat, late : Nat, restarts : Nat, reboots : Nat]

ASSUME CoordinatorAssumption ==
  /\ Requests \subseteq Change \cup Whole
  /\ Asks \in [Writers -> SUBSET Requests]
  /\ Foreign \notin Policy
  /\ InitialPolicies \subseteq {p \in Policy : Normalized(p)} \cup {Foreign}
  /\ Writers \cap {Poll, Reconcile, Free} = {}
  /\ Budgets \subseteq Budget

VARIABLES
  \* the coordinator
  phase,    \* "setup", "refresh" (both inside async_setup_entry) or "running"
  desired,  \* desired_policy
  version,  \* _policy_version
  known,    \* _policy_known
  data,     \* self.data; NoData stands for None
  armed,    \* RECONCILE_MIN_INTERVAL has passed since the last re-push
  holder,   \* the task in the _push_lock, or Free
  queue,    \* the tasks waiting for it
  pc,       \* where each task is
  request,  \* what each operator asked for
  plan,     \* the safe document and version local to each task
  \* the network and the tablet
  call,     \* the HTTP call each task is awaiting
  late,     \* PUTs whose caller gave up but that may still be executed
  report,   \* the webhook report in flight
  memory,   \* the stored policy and version as the tablet reads them
  disk,     \* what has reached its disk
  left      \* how many faults of each kind remain

lock    == <<holder, queue, plan>>
tablet  == <<memory, disk>>
network == <<late, report, left>>
vars == <<phase, desired, version, known, data, armed, holder, queue, pc,
          request, plan, call, late, report, memory, disk, left>>

Locked == holder # Free
Max2(a, b) == IF a >= b THEN a ELSE b

Stored(p, v) == [policy |-> p, version |-> v]
Plan         == [policy : Policy, version : Version]
NoPlan       == Stored(DefaultPolicy, 0)

-----------------------------------------------------------------------------
(* What the event loop does between two awaits, as building blocks.  pc0   *)
(* and call0 are the tasks and the calls after the caller's own part.      *)

\* {**desired_policy, key: value}
Merge(p, r) ==
  CASE r.kind = "flag"             -> [p EXCEPT !.flags[r.key] = r.value]
    [] r.kind = "kiosk_packages"   -> [p EXCEPT !.kiosk_packages = r.value]
    [] r.kind = "allowed_packages" -> [p EXCEPT !.allowed_packages = r.value]
    [] r.kind = "app_mode"         -> [p EXCEPT !.app_mode = r.value]
    [] r.kind = "approve"          -> [p EXCEPT !.allowed_packages = @ \cup {r.value}]
    [] r.kind = "whole"            -> r.value

\* Inside the lock: the version is computed and the PUT leaves.
StartPush(t, safe, pc0, call0) ==
  LET v == version' + 1 IN
  /\ holder' = t
  /\ plan' = [plan EXCEPT ![t] = Stored(safe, v)]
  /\ pc' = [pc0 EXCEPT ![t] = "pushing"]
  /\ call' = [call0 EXCEPT ![t] = Put(safe, v)]

\* async_apply_policy up to its first await: the guard, then the lock, which
\* asyncio grants at once only when nobody holds it and nobody waits.
Refused(t, pc0, call0) ==
  /\ pc' = [pc0 EXCEPT ![t] = "error"]
  /\ call' = call0
  /\ UNCHANGED lock
Acquire(t, safe, pc0, call0) ==
  /\ ~Locked /\ queue = <<>>
  /\ StartPush(t, safe, pc0, call0)
  /\ UNCHANGED queue
Enqueue(t, safe, pc0, call0) ==
  /\ Locked \/ queue # <<>>
  /\ queue' = Append(queue, t)
  /\ plan' = [plan EXCEPT ![t] = Stored(safe, 0)]
  /\ pc' = [pc0 EXCEPT ![t] = "waiting"]
  /\ call' = call0
  /\ UNCHANGED holder

ApplyPolicy(t, p, pc0, call0) ==
  \/ ~Acceptable(p) /\ Refused(t, pc0, call0)
  \/ Acceptable(p) /\ Acquire(t, Normalize(p), pc0, call0)
  \/ Acceptable(p) /\ Enqueue(t, Normalize(p), pc0, call0)

\* validate_policy accepts what the tablet reports.
Ownable(p) == p # Foreign /\ Acceptable(p)

AdoptsAnything(s) ==  \* variant: a report nobody can own becomes desired
  /\ desired' = s.policy
  /\ version' = Max2(version, s.version) /\ known' = TRUE
Adopt(s) ==
  /\ desired' = IF Ownable(s.policy) THEN Normalize(s.policy) ELSE DefaultPolicy
  /\ version' = Max2(version, s.version)
  /\ known' = TRUE

DriftedVersion(s) ==  \* variant: versions are compared, not policies
  /\ s.reachable /\ known' /\ data # NoData /\ ~Locked
  /\ s.version < version' /\ armed
\* _reconcile_if_drifted: reads data before it is replaced.
Drifted(s) ==
  /\ s.reachable /\ known' /\ data # NoData /\ ~Locked
  /\ Ownable(s.policy) /\ Normalize(s.policy) # desired'
  /\ armed

\* The re-push is an eager background task: it reads desired_policy and
\* takes the lock, or its place in the queue, within the same step.
ReconcileIfDrifted(s, pc0, call0) ==
  \/ /\ Drifted(s)
     /\ armed' = FALSE
     /\ ApplyPolicy(Reconcile, desired', pc0, call0)
  \/ /\ ~Drifted(s)
     /\ pc' = pc0 /\ call' = call0
     /\ UNCHANGED <<armed, lock>>

\* _on_status, with the version it starts from.
OnStatus(s, v, pc0, call0) ==
  /\ IF s.reachable /\ ~known
     THEN Adopt(s)
     ELSE version' = v /\ UNCHANGED <<desired, known>>
  /\ ReconcileIfDrifted(s, pc0, call0)

-----------------------------------------------------------------------------
(* Operator calls: switches, selects, texts and the services.              *)

Submit(w, r, pc0, call0) == ApplyPolicy(w, Merge(desired', r), pc0, call0)

\* async_apply_policy: the whole-document service skips the read.
ApplyWhole(w, r) ==
  /\ phase = "running" /\ pc[w] = "idle" /\ r.kind = "whole"
  /\ request' = [request EXCEPT ![w] = r]
  /\ UNCHANGED <<phase, desired, version, known, data, armed, tablet, network>>
  /\ Submit(w, r, pc, call)

\* async_set_policy_flag, _value, async_set_kiosk_packages,
\* async_approve_package with the tablet's policy known.
SetKnown(w, r) ==
  /\ phase = "running" /\ pc[w] = "idle" /\ r.kind # "whole" /\ known
  /\ request' = [request EXCEPT ![w] = r]
  /\ UNCHANGED <<phase, desired, version, known, data, armed, tablet, network>>
  /\ Submit(w, r, pc, call)

SetsPlaceholder(w, r) ==  \* variant: no read before the first change
  /\ phase = "running" /\ pc[w] = "idle" /\ r.kind # "whole" /\ ~known
  /\ request' = [request EXCEPT ![w] = r]
  /\ UNCHANGED <<phase, desired, version, known, data, armed, tablet, network>>
  /\ Submit(w, r, pc, call)
\* The same with the policy unknown: _async_ensure_policy_known reads first.
SetUnknown(w, r) ==
  /\ phase = "running" /\ pc[w] = "idle" /\ r.kind # "whole" /\ ~known
  /\ request' = [request EXCEPT ![w] = r]
  /\ pc' = [pc EXCEPT ![w] = "ensuring"]
  /\ call' = [call EXCEPT ![w] = Get]
  /\ UNCHANGED <<phase, desired, version, known, data, armed, lock, tablet, network>>

\* The read returns: adopt it, whatever has happened meanwhile, and go on.
EnsureAnswered(w) ==
  /\ pc[w] = "ensuring" /\ call[w].kind = "answer"
  /\ Adopt(call[w].status)
  /\ data' = call[w].status
  /\ UNCHANGED <<phase, armed, request, tablet, network>>
  /\ Submit(w, request[w], pc, [call EXCEPT ![w] = NoCall])

-----------------------------------------------------------------------------
(* The push lock and the push.                                             *)

\* The longest waiter resumes, one turn of the loop after the release.
Wake ==
  /\ ~Locked /\ queue # <<>>
  /\ UNCHANGED <<phase, desired, version, known, data, armed, request, tablet, network>>
  /\ queue' = Tail(queue)
  /\ StartPush(Head(queue), plan[Head(queue)].policy, pc, call)

\* _reconcile ends with its task, an operator's call with its result.
Ended(t, result) == [pc EXCEPT ![t] = IF t = Reconcile THEN "idle" ELSE result]

PushKeepsLock(t) ==  \* variant: the lock is not released
  /\ pc[t] = "pushing" /\ call[t].kind = "answer"
  /\ desired' = plan[t].policy
  /\ version' = Max2(plan[t].version, call[t].status.version)
  /\ data' = call[t].status
  /\ pc' = Ended(t, "done")
  /\ call' = [call EXCEPT ![t] = NoCall]
  /\ UNCHANGED <<phase, known, armed, lock, request, tablet, network>>
PushAnswered(t) ==
  /\ pc[t] = "pushing" /\ call[t].kind = "answer"
  /\ desired' = plan[t].policy
  /\ version' = Max2(plan[t].version, call[t].status.version)
  /\ data' = call[t].status
  /\ holder' = Free
  /\ pc' = Ended(t, "done")
  /\ call' = [call EXCEPT ![t] = NoCall]
  /\ UNCHANGED <<phase, known, armed, queue, request, plan, tablet, network>>

-----------------------------------------------------------------------------
(* Polls and webhook reports.                                              *)

\* _async_setup, the first refresh, then every scan interval.
PollStarts ==
  /\ pc[Poll] = "idle"
  /\ pc' = [pc EXCEPT ![Poll] = "getting"]
  /\ call' = [call EXCEPT ![Poll] = Get]
  /\ UNCHANGED <<phase, desired, version, known, data, armed, lock, request, tablet, network>>

PollEnded == [pc EXCEPT ![Poll] = "idle"]
CallEnded(t) == [call EXCEPT ![t] = NoCall]

SetupAnswered ==
  /\ phase = "setup" /\ pc[Poll] = "getting" /\ call[Poll].kind = "answer"
  /\ Adopt(call[Poll].status)
  /\ phase' = "refresh"
  /\ pc' = PollEnded /\ call' = CallEnded(Poll)
  /\ UNCHANGED <<data, armed, lock, request, tablet, network>>

\* _async_update_data; async_setup_entry goes on after the first one.
PollAnswered ==
  /\ phase # "setup" /\ pc[Poll] = "getting" /\ call[Poll].kind = "answer"
  /\ phase' = "running"
  /\ data' = call[Poll].status
  /\ UNCHANGED <<request, tablet, network>>
  /\ OnStatus(call[Poll].status, version, PollEnded, CallEnded(Poll))

\* async_handle_push; an unregistered webhook drops the report.
WebhookReceived ==
  /\ report # NoReport
  /\ report' = NoReport
  /\ UNCHANGED <<phase, request, tablet, late, left>>
  /\ \/ /\ phase = "running"
        /\ data' = report
        /\ OnStatus(report, Max2(version, report.version), pc, call)
     \/ /\ phase # "running"
        /\ UNCHANGED <<desired, version, known, data, armed, lock, pc, call>>

\* time.monotonic() passes the limit.  A re-push is over by then: 30 s is
\* longer than the 5 s timeouts of everything that can be in the queue.
IntervalElapsed ==
  /\ ~armed /\ pc[Reconcile] = "idle"
  /\ armed' = TRUE
  /\ UNCHANGED <<phase, desired, version, known, data, lock, pc, request, call, tablet, network>>

-----------------------------------------------------------------------------
(* The network and the tablet.                                             *)

StatusOf(m) == [policy |-> m.policy, version |-> m.version, reachable |-> TRUE]

\* putPolicy stores whatever version comes; what is then left of the call
\* is to answer with the status, as for GET /v1/status.  Another request may
\* store its policy in between: HttpServer serves each in its own thread.
TabletStores(t) ==
  /\ call[t].kind = "put"
  /\ memory' = Stored(call[t].policy, call[t].version)
  /\ call' = [call EXCEPT ![t] = Get]
  /\ UNCHANGED <<phase, desired, version, known, data, armed, lock, pc, request, disk, network>>
TabletAnswers(t) ==
  /\ call[t].kind = "get"
  /\ call' = [call EXCEPT ![t] = Answer(StatusOf(memory))]
  /\ UNCHANGED <<phase, desired, version, known, data, armed, lock, pc, request, tablet, network>>
TabletServes(t) == TabletStores(t) \/ TabletAnswers(t)

\* A PUT its caller gave up on is read by the tablet after all.
TabletServesLate ==
  /\ \E m \in late : memory' = m /\ late' = late \ {m}
  /\ UNCHANGED <<phase, desired, version, known, data, armed, lock, pc, request,
                 call, disk, report, left>>

\* onReport and the heartbeat: the one reporting thread reads the status.
TabletReports ==
  /\ report = NoReport
  /\ report' = StatusOf(memory)
  /\ UNCHANGED <<phase, desired, version, known, data, armed, lock, pc, request,
                 call, tablet, late, left>>

ReportLost ==
  /\ report # NoReport
  /\ report' = NoReport
  /\ UNCHANGED <<phase, desired, version, known, data, armed, lock, pc, request,
                 call, tablet, late, left>>

\* SharedPreferences.apply() reaches the disk some time later.
TabletFlushes ==
  /\ disk # memory
  /\ disk' = memory
  /\ UNCHANGED <<phase, desired, version, known, data, armed, lock, pc, request,
                 call, memory, network>>

\* A crash or a reboot: the process starts again from its disk.
TabletRestarts ==
  /\ left.reboots > 0
  /\ left' = [left EXCEPT !.reboots = @ - 1]
  /\ memory' = disk
  /\ UNCHANGED <<phase, desired, version, known, data, armed, lock, pc, request,
                 call, disk, late, report>>

\* What is left on its way when the caller of t goes away.
Lingering(t) ==
  IF call[t].kind = "put" THEN {Stored(call[t].policy, call[t].version)} ELSE {}

\* A call times out or is refused: before the tablet saw it, with the
\* request still on its way, or after the tablet answered.
CallFails(t) ==
  /\ call[t] # NoCall /\ left.failures > 0
  /\ \/ /\ left' = [left EXCEPT !.failures = @ - 1]
        /\ UNCHANGED late
     \/ /\ left.late > 0 /\ Lingering(t) # {}
        /\ left' = [left EXCEPT !.failures = @ - 1, !.late = @ - 1]
        /\ late' = late \cup Lingering(t)
  /\ call' = CallEnded(t)
  /\ UNCHANGED <<desired, version, known, armed, queue, plan, request, tablet, report>>

\* _fetch keeps the last-known data, or a placeholder, as unreachable.
Offline == [policy |-> DefaultPolicy, version |-> 0, reachable |-> FALSE]
Unreachable == IF data = NoData THEN Offline ELSE [data EXCEPT !.reachable = FALSE]

PollFails ==
  /\ CallFails(Poll)
  /\ pc' = PollEnded
  /\ phase' = IF phase = "setup" THEN "refresh" ELSE "running"
  /\ data' = IF phase = "setup" THEN data ELSE Unreachable
  /\ UNCHANGED holder

EnsureFails(w) ==
  /\ pc[w] = "ensuring"
  /\ CallFails(w)
  /\ pc' = Ended(w, "error")
  /\ UNCHANGED <<phase, data, holder>>

PushFailsLocked(t) ==  \* variant: an error leaves the lock taken
  /\ pc[t] = "pushing"
  /\ CallFails(t)
  /\ pc' = Ended(t, "error")
  /\ UNCHANGED <<phase, data, holder>>
PushFails(t) ==
  /\ pc[t] = "pushing"
  /\ CallFails(t)
  /\ pc' = Ended(t, "error")
  /\ holder' = Free
  /\ UNCHANGED <<phase, data>>

\* Home Assistant restarts, or the entry is reloaded: every task is gone,
\* a request already on its way may still be executed.
HomeAssistantRestarts ==
  /\ left.restarts > 0
  /\ \/ /\ left' = [left EXCEPT !.restarts = @ - 1]
        /\ UNCHANGED late
     \/ /\ left.late > 0
        /\ left' = [left EXCEPT !.restarts = @ - 1, !.late = @ - 1]
        /\ \E t \in Tasks : Lingering(t) # {} /\ late' = late \cup Lingering(t)
  /\ phase' = "setup" /\ desired' = DefaultPolicy /\ version' = 0
  /\ known' = FALSE /\ data' = NoData /\ armed' = TRUE
  /\ holder' = Free /\ queue' = <<>> /\ plan' = [t \in Tasks |-> NoPlan]
  /\ pc' = [t \in Tasks |-> IF t \in Writers /\ pc[t] # "idle" THEN "gone" ELSE "idle"]
  /\ call' = [t \in Tasks |-> NoCall]
  /\ UNCHANGED <<request, report, tablet>>

-----------------------------------------------------------------------------
Init ==
  /\ phase = "setup" /\ desired = DefaultPolicy /\ version = 0
  /\ known = FALSE /\ data = NoData /\ armed = TRUE
  /\ holder = Free /\ queue = <<>> /\ plan = [t \in Tasks |-> NoPlan]
  /\ pc = [t \in Tasks |-> "idle"]
  /\ request = [w \in Writers |-> NoRequest]
  /\ call = [t \in Tasks |-> NoCall]
  /\ late = {} /\ report = NoReport
  /\ \E p \in InitialPolicies : memory = Stored(p, 1)
  /\ disk = memory
  /\ left \in Budgets

Operator == \E w \in Writers : \E r \in Asks[w] :
              ApplyWhole(w, r) \/ SetKnown(w, r) \/ SetUnknown(w, r)
CoordinatorStep ==
  \/ \E w \in Writers : EnsureAnswered(w)
  \/ \E t \in Tasks : PushAnswered(t)
  \/ Wake \/ PollStarts \/ SetupAnswered \/ PollAnswered \/ WebhookReceived
  \/ IntervalElapsed
TabletStep == (\E t \in Tasks : TabletServes(t)) \/ TabletReports \/ TabletFlushes
Fault ==
  \/ PollFails \/ (\E w \in Writers : EnsureFails(w)) \/ (\E t \in Tasks : PushFails(t))
  \/ ReportLost \/ TabletServesLate \/ TabletRestarts \/ HomeAssistantRestarts

Next == Operator \/ CoordinatorStep \/ TabletStep \/ Fault

Spec == Init /\ [][Next]_vars

\* The tablet serves every request that reached it and the event loop runs
\* every task that can run (calls fail only so often), writes reach the
\* tablet's disk.  No operator has to call, no report has to arrive.
PollStep == PollStarts \/ SetupAnswered \/ PollAnswered
GoesOn(t) ==
  \/ TabletServes(t) \/ PushAnswered(t)
  \/ t \in Writers /\ EnsureAnswered(t)
  \/ t = Poll /\ PollStep
Fairness ==
  /\ \A t \in Tasks : WF_vars(GoesOn(t))
  /\ WF_vars(Wake) /\ WF_vars(IntervalElapsed) /\ WF_vars(TabletFlushes)

FairSpec == Spec /\ Fairness

-----------------------------------------------------------------------------
PCs == [Tasks -> {"idle", "ensuring", "getting", "waiting", "pushing",
                  "done", "error", "gone"}]

TypeOK ==
  /\ phase \in {"setup", "refresh", "running"}
  /\ desired \in Policy /\ version \in Version /\ known \in BOOLEAN
  /\ data \in Status \cup {NoData} /\ armed \in BOOLEAN
  /\ holder \in Tasks \cup {Free} /\ queue \in Seq(Tasks)
  /\ pc \in PCs
  /\ request \in [Writers -> Requests \cup {NoRequest}]
  /\ plan \in [Tasks -> Plan]
  /\ call \in [Tasks -> Calls]
  /\ late \subseteq Plan
  /\ report \in Status \cup {NoReport}
  /\ memory \in [policy : Held, version : Version]
  /\ disk \in [policy : Held, version : Version]
  /\ left \in Budget

(* Safety.                                                                 *)

\* However the operators' changes interleave, no document that locks the
\* tablet to no application, or suspends every application, is wanted, on
\* its way or on the tablet; and no re-push is ever refused by the guard.
EveryPolicySafe ==
  /\ Normalized(desired)
  /\ \A t \in Tasks : pc[t] \in {"waiting", "pushing"} => Normalized(plan[t].policy)
  /\ \A t \in Tasks : call[t].kind = "put" => Normalized(call[t].policy)
  /\ \A m \in late \cup {memory, disk} : m.policy # Foreign => Normalized(m.policy)
  /\ pc[Reconcile] # "error"

\* The push lock: one push at a time in this Home Assistant, nobody waits
\* outside the queue, and nobody is in it twice.
PushesSerialised ==
  /\ \A t \in Tasks : pc[t] = "pushing" <=> holder = t
  /\ \A t \in Tasks : pc[t] = "waiting" <=> \E i \in 1..Len(queue) : queue[i] = t
  /\ \A i, j \in 1..Len(queue) : queue[i] = queue[j] => i = j

\* Flags no operator asks to change.
Untouched == {k \in Flags : \A r \in Requests :
                r.kind # "whole" /\ (r.kind = "flag" => r.key # k)}

\* "Writing while it is still the placeholder would turn off whatever the
\* tablet has on" (_async_ensure_policy_known): whatever is lost, late,
\* restarted or concurrent, a flag nobody asks to change never changes on
\* the tablet.
UntouchedFlagsSurvive ==
  [][memory.policy # Foreign /\ memory'.policy # Foreign =>
       \A k \in Untouched : memory'.policy.flags[k] = memory.policy.flags[k]]_vars

\* The safety half of EveryCallReturns: whoever awaits an answer has a call
\* under way that the tablet or the timeout will end, and whoever waits for
\* the lock waits for such a call or is about to be woken.
NobodyStranded ==
  /\ \A t \in Tasks : pc[t] \in {"ensuring", "getting", "pushing"} <=> call[t] # NoCall
  /\ \A t \in Tasks : pc[t] = "waiting" =>
       queue # <<>> /\ (Locked => call[holder] # NoCall)

\* Home Assistant and the tablet agree, memory and disk, and so does all
\* that is on its way; nobody pushes or is about to.
Agreed ==
  /\ phase = "running" /\ known
  /\ data # NoData /\ data.policy = desired
  /\ memory.policy = desired /\ disk.policy = desired
  /\ \A m \in late : m.policy = desired
  /\ report # NoReport => report.policy = desired
  /\ \A t \in Tasks : /\ pc[t] \notin {"ensuring", "waiting", "pushing"}
                      /\ call[t].kind = "answer" => call[t].status.policy = desired

\* The safety half of Converges: once they agree, lost calls, late requests,
\* reboots and reports, in whatever order, neither part them nor start a
\* re-push; only an operator's call or a restart of Home Assistant does.
AgreementLasts ==
  [][Agreed => \/ Agreed' \/ phase' = "setup"
               \/ \E w \in Writers : pc[w] = "idle" /\ pc'[w] # "idle"]_vars

(* What the documents say, and the code does not keep.                     *)

\* async_set_policy_flag: "Change one flag in the desired policy and push
\* the whole document."
CallChangesOnlyItsKey ==
  [][\A w \in Writers :
       pc[w] = "pushing" /\ pc'[w] = "done" /\ request[w].kind # "whole"
         => desired' = Normalize(Merge(desired, request[w]))]_vars

\* _reconcile_if_drifted: "a report that disagrees is drift, not a new
\* source of truth": once an operator's push has been acknowledged, only
\* another push changes the desired policy.
AcknowledgedPolicyStays ==
  [][(\E w \in Writers : pc[w] = "done") /\ phase' = "running" /\ desired' # desired
       => \E t \in Tasks : pc[t] = "pushing" /\ pc'[t] # "pushing"]_vars

(* Liveness.                                                               *)

\* Once faults and operators stop, the tablet holds the desired policy, on
\* its disk too, and Home Assistant shows what the tablet holds; but for a
\* policy it cannot own, which it leaves alone.
Converges ==
  <>[](/\ phase = "running"
       /\ memory.policy \in {desired, Foreign} /\ disk = memory
       /\ data.policy = memory.policy /\ data.reachable)

\* Every operator's call ends, with a result, an error or a restart, however
\* many wait for the lock and whichever push fails (an operator here calls
\* once, so the calls end for good).
EveryCallReturns ==
  <>[](\A w \in Writers : pc[w] \in {"idle", "done", "error", "gone"})
=============================================================================
