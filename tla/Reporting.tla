----------------------------- MODULE Reporting -----------------------------
(***************************************************************************)
(* What Home Assistant shows of a tablet, and how it gets there: the polls *)
(* and the answers to pushes, the webhook reports of the tablet's single   *)
(* reporting thread, the delivery of the webhook URL they need (__init__,  *)
(* coordinator._on_status, async_send_webhook), the buttons whose outcome  *)
(* only the coordinator keeps, and the states the entities derive.         *)
(*                                                                         *)
(* One flag stands for the policy.  The tablet writes the policy, then the *)
(* outcome of enforcing it, and every thread that builds a status reads    *)
(* the two one after the other.                                            *)
(***************************************************************************)
EXTENDS Naturals

CONSTANTS
  Addresses,  \* Home Assistant's own, each in a webhook URL
  None,       \* no URL, no status, no outcome yet
  Tiers,      \* the tiers the tablet may have
  Budgets     \* bounds: how much of each kind may happen

ActionKeys == {"last_lock_screen", "last_reboot", "last_configure_wifi"}
TierLimits == {"limited", "unsupported"}

\* What enforcing the flag may come to, by tier.
Outcomes(t) == {"applied", "failed"} \cup (IF t = "owner" THEN {} ELSE TierLimits)

Document == [policy : BOOLEAN, enforcement : Outcomes("admin"), held : BOOLEAN]
Shown    == [document : Document \cup {None}, reachable : BOOLEAN]
\* The call of a button, and what the tablet answered.
Actions  == [key : ActionKeys, result : {None, "ok", "refused"}]

\* Readers of the status on the tablet, and what the push handler does first.
Readers == {"poll", "reporter", "push"}
Idle    == [step |-> "idle"]
Asked   == [step |-> "asked"]
Steps   == {Idle, Asked}
           \cup [step : {"put", "stored"}, policy : BOOLEAN]
           \cup [step : {"half"}, policy : BOOLEAN]
           \cup [step : {"done"}, document : Document]

\* HTTP calls that fail, restarts of each side, pushes, packages held or
\* gone, presses of a button.
Budget == [lost : Nat, restarts : Nat, reboots : Nat, pushes : Nat,
           packages : Nat, presses : Nat]

ASSUME ReportingAssumption ==
  /\ Addresses # {} /\ None \notin Addresses \cup Document \cup Shown \cup Actions
  /\ None \notin {"ok", "refused"}
  /\ Tiers \subseteq {"owner", "admin"}
  /\ Budgets \subseteq Budget

VARIABLES
  \* Home Assistant
  phase,    \* "setup" (first refresh), "sending" and "sent" (the URL, before
            \* and after the tablet has it) or "running"
  address,  \* where it is reached; the URL of this run
  data,     \* self.data, None before the first refresh
  pending,  \* _webhook_pending
  sends,    \* the background sends of the URL: "asked", "stored"
  last,     \* last_actions
  action,   \* the button's call under way
  \* the tablet
  tier,
  policy, enforcement, held,  \* what the store holds; held: pending_packages
  inForce,  \* whether the flag is really in force
  url,      \* webhookUrl
  up,       \* the service runs
  queued,   \* the reports waiting for the reporting thread, by their URL
  to,       \* the URL of the report it is working on
  job,      \* what each reader is doing
  performed, \* the actions carried out since their button was last pressed
  left      \* how much of each kind remains

assistant == <<phase, address, data, pending, sends>>
buttons   == <<last, action, performed>>
store     == <<policy, enforcement, held, inForce>>
reporting == <<url, queued, to>>
vars == <<assistant, buttons, tier, store, reporting, up, job, left>>

Offline == [document |-> None, reachable |-> FALSE]
Truth   == [policy |-> policy, enforcement |-> enforcement, held |-> held]

-----------------------------------------------------------------------------
(* What the entities show of a status.                                     *)

\* DeviceStatus.enforcement_failures, is_enforced.
Failing(s)    == s.document # None
                 /\ s.document.enforcement \notin {"applied"} \cup TierLimits
IsEnforced(s) == s.document # None
                 /\ s.document.policy /\ s.document.enforcement = "applied"

Reasons(s) ==
  (IF tier # "owner" THEN {"not_device_owner"} ELSE {})
  \cup (IF Failing(s) THEN {"enforcement_failures"} ELSE {})
  \cup (IF s.document.held THEN {"apps_awaiting_approval"} ELSE {})

FleetStatus(s) ==
  CASE ~s.reachable -> IF s.document = None THEN "never_reported" ELSE "offline"
    [] s.reachable /\ "not_device_owner" \in Reasons(s) -> "misconfigured"
    [] s.reachable /\ Reasons(s) = {} -> "online"
    [] OTHER -> "needs_attention"

-----------------------------------------------------------------------------
(* Home Assistant.                                                         *)

Loses == left.lost > 0 /\ left' = [left EXCEPT !.lost = @ - 1]
Start(r, j) == job[r] = Idle /\ job' = [job EXCEPT ![r] = j]

\* _on_status for a status that was not pushed to the webhook, _schedule_webhook.
ScheduleWebhook == pending' = FALSE /\ sends' = sends \cup {"asked"}
NeverResends(reachable) ==  \* variant: only a tablet that comes back is sent it
  IF reachable /\ phase = "running" /\ data # None /\ ~data.reachable
  THEN ScheduleWebhook
  ELSE UNCHANGED <<pending, sends>>
OnStatus(reachable) ==
  IF reachable /\ phase = "running" /\ (pending \/ (data # None /\ ~data.reachable))
  THEN ScheduleWebhook
  ELSE UNCHANGED <<pending, sends>>

\* The first refresh, then every scan interval and every press of Refresh.
PollStarts ==
  /\ phase \in {"setup", "running"}
  /\ Start("poll", Asked)
  /\ UNCHANGED <<assistant, buttons, tier, store, reporting, up, left>>

\* async_setup_entry goes on after the first refresh: it registers the
\* webhook and sends the URL.
PollEnds(s) ==
  /\ OnStatus(s.reachable)
  /\ data' = s
  /\ phase' = IF phase = "setup" THEN "sending" ELSE phase
  /\ job' = [job EXCEPT !["poll"] = Idle]
  /\ UNCHANGED <<address, buttons, tier, store, reporting, up>>

KeepsReported ==  \* variant: a poll does not replace what is known
  /\ job["poll"].step = "done"
  /\ UNCHANGED left
  /\ PollEnds(IF data # None /\ data.reachable THEN data
              ELSE [document |-> job["poll"].document, reachable |-> TRUE])
PollAnswered ==
  /\ job["poll"].step = "done"
  /\ UNCHANGED left
  /\ PollEnds([document |-> job["poll"].document, reachable |-> TRUE])

ForgetsDocument ==  \* variant: always the placeholder
  /\ job["poll"] # Idle /\ (Loses \/ (~up /\ UNCHANGED left))
  /\ PollEnds(Offline)
\* The call fails, by bad luck or because the service is down.
PollFails ==
  /\ job["poll"] # Idle /\ (Loses \/ (~up /\ UNCHANGED left))
  /\ PollEnds(IF data = None THEN Offline ELSE [data EXCEPT !.reachable = FALSE])

\* async_handle_push, on a registered webhook.
ReportReceived ==
  /\ job["reporter"].step = "done"
  /\ to = address /\ phase # "setup"
  /\ data' = [document |-> job["reporter"].document, reachable |-> TRUE]
  /\ pending' = FALSE
  /\ job' = [job EXCEPT !["reporter"] = Idle]
  /\ to' = None
  /\ UNCHANGED <<phase, address, sends, buttons, tier, store, url, queued, up, left>>

\* async_apply_policy, its lock included; the answer does not go through
\* _on_status.
Push(p) ==
  /\ phase = "running" /\ left.pushes > 0
  /\ Start("push", [step |-> "put", policy |-> p])
  /\ left' = [left EXCEPT !.pushes = @ - 1]
  /\ UNCHANGED <<assistant, buttons, tier, store, reporting, up>>
PushAnswered ==
  /\ job["push"].step = "done"
  /\ data' = [document |-> job["push"].document, reachable |-> TRUE]
  /\ job' = [job EXCEPT !["push"] = Idle]
  /\ UNCHANGED <<phase, address, pending, sends, buttons, tier, store, reporting, up, left>>
\* Lost on its way or on the way back.
PushFails ==
  /\ \/ job["push"].step \in {"put", "done"} /\ Loses
     \/ job["push"] # Idle /\ ~up /\ UNCHANGED left
  /\ job' = [job EXCEPT !["push"] = Idle]
  /\ UNCHANGED <<assistant, buttons, tier, store, reporting, up>>

\* async_send_webhook: within async_setup_entry, or in the background.
SetupSent ==
  /\ phase = "sent" /\ phase' = "running"
  /\ pending' = FALSE
  /\ UNCHANGED <<address, data, sends, buttons, tier, store, reporting, up, job, left>>
SetupSendFails ==
  /\ phase \in {"sending", "sent"} /\ phase' = "running"
  /\ Loses \/ (~up /\ UNCHANGED left)
  /\ pending' = TRUE
  /\ UNCHANGED <<address, data, sends, buttons, tier, store, reporting, up, job>>
Resent ==
  /\ "stored" \in sends /\ sends' = sends \ {"stored"}
  /\ pending' = FALSE
  /\ UNCHANGED <<phase, address, data, buttons, tier, store, reporting, up, job, left>>
ResendForgotten ==  \* variant: a failed send is not kept for later
  /\ \E s \in sends : sends' = sends \ {s}
  /\ Loses \/ (~up /\ UNCHANGED left)
  /\ UNCHANGED <<phase, address, data, pending, buttons, tier, store, reporting, up, job>>
ResendFails ==
  /\ \E s \in sends : sends' = sends \ {s}
  /\ Loses \/ (~up /\ UNCHANGED left)
  /\ pending' = TRUE
  /\ UNCHANGED <<phase, address, data, buttons, tier, store, reporting, up, job>>

\* A restart, perhaps at another address.  It takes longer than a call:
\* nothing of the old run is left.
HomeAssistantRestarts ==
  /\ job["push"].step # "stored"
  /\ left.restarts > 0 /\ left' = [left EXCEPT !.restarts = @ - 1]
  /\ phase' = "setup" /\ address' \in Addresses
  /\ data' = None /\ pending' = FALSE /\ sends' = {}
  /\ last' = [k \in ActionKeys |-> None] /\ action' = None
  /\ job' = [job EXCEPT !["poll"] = Idle, !["push"] = Idle]
  /\ UNCHANGED <<performed, tier, store, reporting, up>>

-----------------------------------------------------------------------------
(* Immediate actions: async_lock_screen, async_reboot, async_configure_wifi. *)

Press(k) ==
  /\ phase = "running" /\ action = None /\ left.presses > 0
  /\ action' = [key |-> k, result |-> None]
  /\ performed' = performed \ {k}
  /\ left' = [left EXCEPT !.presses = @ - 1]
  /\ UNCHANGED <<assistant, last, tier, store, reporting, up, job>>

\* HttpServer.lock, reboot and configureWifi: done, or answered with 422;
\* a plain admin may only lock.
TabletActs ==
  /\ up /\ action # None /\ action.result = None
  /\ \/ /\ tier = "owner" \/ action.key = "last_lock_screen"
        /\ action' = [action EXCEPT !.result = "ok"]
        /\ performed' = performed \cup {action.key}
        /\ queued' = IF action.key = "last_configure_wifi" /\ url # None
                     THEN queued \cup {url} ELSE queued
     \/ /\ tier = "admin" \/ action.key # "last_reboot"
        /\ action' = [action EXCEPT !.result = "refused"]
        /\ UNCHANGED <<performed, queued>>
  /\ UNCHANGED <<assistant, last, tier, store, url, to, up, job, left>>

RecordsFirst ==  \* variant: recorded whatever the answer
  /\ action # None /\ action.result # None /\ action' = None
  /\ last' = [last EXCEPT ![action.key] = "ok"]
  /\ UNCHANGED <<assistant, performed, tier, store, reporting, up, job, left>>
\* A refused lock is not recorded: async_lock_screen does not expect it.
ActionAnswered ==
  /\ action # None /\ action.result # None /\ action' = None
  /\ last' = IF action.result = "ok" THEN [last EXCEPT ![action.key] = "ok"]
             ELSE IF action.key = "last_lock_screen" THEN last
             ELSE [last EXCEPT ![action.key] = "error"]
  /\ UNCHANGED <<assistant, performed, tier, store, reporting, up, job, left>>

ActionFails ==
  /\ action # None /\ action' = None
  /\ Loses \/ (~up /\ UNCHANGED left)
  /\ last' = [last EXCEPT ![action.key] = "error"]
  /\ UNCHANGED <<assistant, performed, tier, store, reporting, up, job>>

-----------------------------------------------------------------------------
(* The tablet.                                                             *)

ReportsUnset(u) == queued' = queued \cup {u}  \* variant: even without a URL
\* WebhookReporter.report: the URL is read now, the status when its turn comes.
Reports(u) == queued' = queued \cup ({u} \ {None})

\* apply, of the push handler: the policy, then what enforcing it came to.
StoresPolicy ==
  /\ up /\ job["push"].step = "put"
  /\ policy' = job["push"].policy
  /\ job' = [job EXCEPT !["push"].step = "stored"]
  /\ UNCHANGED <<assistant, buttons, tier, enforcement, held, inForce, reporting, up, left>>
Enforces(p) ==
  \E o \in Outcomes(tier) :
    /\ enforcement' = o
    /\ inForce' = IF o \in {"applied", "limited"} THEN p ELSE inForce
StoresEnforcement ==
  /\ up /\ job["push"].step = "stored"
  /\ Enforces(job["push"].policy)
  /\ Reports(url)
  /\ job' = [job EXCEPT !["push"] = Asked]
  /\ UNCHANGED <<assistant, buttons, tier, policy, held, url, to, up, left>>

\* status(), by any of its readers.
ReadsPolicy(r) ==
  /\ up /\ job[r] = Asked
  /\ job' = [job EXCEPT ![r] = [step |-> "half", policy |-> policy]]
  /\ UNCHANGED <<assistant, buttons, tier, store, reporting, up, left>>
ReadsEnforcement(r) ==
  /\ up /\ job[r].step = "half"
  /\ job' = [job EXCEPT ![r] = [step |-> "done",
       document |-> [Truth EXCEPT !.policy = job[r].policy]]]
  /\ UNCHANGED <<assistant, buttons, tier, store, reporting, up, left>>

\* The reporting thread takes the next report; the POST may fail.
TakesReport ==
  /\ up /\ Start("reporter", Asked)
  /\ \E u \in queued : to' = u /\ queued' = queued \ {u}
  /\ UNCHANGED <<assistant, buttons, tier, store, url, up, left>>
ReportLost ==
  /\ job["reporter"].step = "done"
  /\ job' = [job EXCEPT !["reporter"] = Idle] /\ to' = None
  /\ UNCHANGED <<assistant, buttons, tier, store, url, queued, up, left>>

\* putWebhook, for whichever send reaches the tablet.
PutWebhook ==
  /\ up
  /\ \/ phase = "sending" /\ phase' = "sent" /\ UNCHANGED sends
     \/ /\ "asked" \in sends /\ sends' = (sends \ {"asked"}) \cup {"stored"}
        /\ UNCHANGED phase
  /\ url' = address
  /\ Reports(address)
  /\ UNCHANGED <<address, data, pending, buttons, tier, store, to, up, job, left>>

Heartbeat ==
  /\ up /\ url # None /\ url \notin queued
  /\ Reports(url)
  /\ UNCHANGED <<assistant, buttons, tier, store, url, to, up, job, left>>

\* PackageWatch: a package is held for approval, or gone; then a report.
PackageEvent ==
  /\ up /\ tier = "owner" /\ left.packages > 0
  /\ held' = ~held
  /\ Reports(url)
  /\ left' = [left EXCEPT !.packages = @ - 1]
  /\ UNCHANGED <<assistant, buttons, tier, policy, enforcement, inForce, url, to, up, job>>

\* The service dies with its threads, and re-asserts the policy at its start.
TabletStops ==
  /\ up /\ up' = FALSE
  /\ left.reboots > 0 /\ left' = [left EXCEPT !.reboots = @ - 1]
  /\ queued' = {} /\ to' = None
  /\ job' = [job EXCEPT !["reporter"] = Idle]
  /\ UNCHANGED <<assistant, buttons, tier, store, url>>
TabletStarts ==
  /\ ~up /\ up' = TRUE
  /\ \A r \in Readers : job[r].step \notin {"half", "stored"}
  /\ Enforces(policy)
  /\ UNCHANGED <<assistant, buttons, tier, policy, held, reporting, job, left>>

-----------------------------------------------------------------------------
Init ==
  /\ phase = "setup" /\ data = None
  /\ address = CHOOSE a \in Addresses : TRUE  \* which one makes no difference
  /\ pending = FALSE /\ sends = {}
  /\ last = [k \in ActionKeys |-> None] /\ action = None /\ performed = {}
  /\ tier \in Tiers
  /\ policy = FALSE /\ inForce = FALSE /\ held = FALSE
  /\ enforcement = "applied"
  /\ url = None /\ up = TRUE /\ queued = {} /\ to = None
  /\ job = [r \in Readers |-> Idle]
  /\ left \in Budgets

AssistantStep ==
  \/ PollStarts \/ PollAnswered \/ ReportReceived \/ PushAnswered
  \/ SetupSent \/ Resent \/ ActionAnswered
Operator == (\E p \in BOOLEAN : Push(p)) \/ (\E k \in ActionKeys : Press(k))
TabletStep ==
  \/ StoresPolicy \/ StoresEnforcement \/ TakesReport \/ PutWebhook \/ Heartbeat
  \/ \E r \in Readers : ReadsPolicy(r) \/ ReadsEnforcement(r)
  \/ TabletActs \/ PackageEvent \/ TabletStarts
Fault ==
  \/ PollFails \/ PushFails \/ SetupSendFails \/ ResendFails \/ ActionFails
  \/ ReportLost \/ TabletStops \/ HomeAssistantRestarts

Next == AssistantStep \/ Operator \/ TabletStep \/ Fault

Spec == Init /\ [][Next]_vars

\* The event loop runs what can run, the tablet serves what reached it and
\* starts again, polls are repeated.  A report may always be lost.
PollStep == PollStarts \/ PollAnswered \/ (~up /\ PollFails)
SetupStep == SetupSent \/ (~up /\ SetupSendFails)
ResendStep == Resent \/ (~up /\ ResendFails)
PushStep == PushAnswered \/ StoresPolicy \/ StoresEnforcement \/ (~up /\ PushFails)
Fairness ==
  /\ WF_vars(PollStep) /\ WF_vars(SetupStep) /\ WF_vars(ResendStep) /\ WF_vars(PushStep)
  /\ WF_vars(ReportReceived \/ ReportLost \/ TakesReport)
  /\ \A r \in Readers : WF_vars(ReadsPolicy(r) \/ ReadsEnforcement(r))
  /\ WF_vars(PutWebhook) /\ WF_vars(TabletStarts)

FairSpec == Spec /\ Fairness

-----------------------------------------------------------------------------
TypeOK ==
  /\ phase \in {"setup", "sending", "sent", "running"}
  /\ address \in Addresses
  /\ data \in Shown \cup {None} /\ (data = None <=> phase = "setup")
  /\ pending \in BOOLEAN /\ sends \subseteq {"asked", "stored"}
  /\ last \in [ActionKeys -> {None, "ok", "error"}]
  /\ action \in Actions \cup {None} /\ performed \subseteq ActionKeys
  /\ tier \in Tiers
  /\ policy \in BOOLEAN /\ held \in BOOLEAN /\ inForce \in BOOLEAN
  /\ enforcement \in Outcomes("admin")
  /\ url \in Addresses \cup {None} /\ up \in BOOLEAN
  /\ queued \subseteq Addresses /\ to \in Addresses \cup {None}
  /\ job \in [Readers -> Steps]
  /\ left \in Budget

\* async_send_webhook, "retried when it is next reachable": whenever nothing
\* is pending or under way, the tablet holds the URL of this very run.
BelievesRight ==
  phase = "running" /\ ~pending /\ sends = {} => url = address

\* fleet_status: "never reported" is said of a tablet only until its first
\* status, however often it is lost after it.
NeverForgotten ==
  [][data # None /\ data' # None /\ FleetStatus(data) # "never_reported"
       => FleetStatus(data') # "never_reported"]_vars

\* LocalMdmActionSensor: when a button's call ends and the outcome shown is
\* "ok", the tablet carried it out since it was pressed.  The exception is
\* the code's: a refused lock leaves the outcome of the one before.
OkWasDone ==
  [][action # None /\ action' = None /\ last'[action.key] = "ok"
       => \/ action.key \in performed
          \/ action.key = "last_lock_screen" /\ action.result = "refused"]_vars

\* Once faults stop, the tablet's reports reach this Home Assistant.
UrlSettles == <>[](url = address)

\* Once faults and operators stop, torn and late statuses are overtaken:
\* Home Assistant shows what the tablet's store holds, the "enforced" sensor
\* is on only for a flag in force, and the board says "online" only of a
\* tablet that enforces what it was told.
ShownSettles ==
  <>[](/\ phase # "setup" /\ data = [document |-> Truth, reachable |-> TRUE]
       /\ IsEnforced(data) => inForce
       /\ FleetStatus(data) = "online" => inForce = policy)
=============================================================================
