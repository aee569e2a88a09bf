-------------------------- MODULE Reporting_proofs --------------------------
(***************************************************************************)
(* What Home Assistant believes of the webhook URL, of a button's outcome  *)
(* and of a tablet's having ever reported is right: the proofs, for any    *)
(* tier and any number of faults.  They rest on no fairness.               *)
(***************************************************************************)
EXTENDS Reporting, TLAPS

LEMMA InitType == Init => TypeOK
<1> SUFFICES ASSUME Init PROVE TypeOK
  OBVIOUS
<1>1. address \in Addresses /\ tier \in Tiers /\ left \in Budget
  BY ReportingAssumption DEF Init
<1>2. job \in [Readers -> Steps]
  BY DEF Init, Steps
<1> QED BY <1>1, <1>2 DEF Init, TypeOK, Outcomes

LEMMA Spent ==
  ASSUME left \in Budget,
         NEW n \in {"lost", "restarts", "reboots", "pushes", "packages", "presses"},
         left[n] > 0, left' = [left EXCEPT ![n] = @ - 1]
  PROVE  left' \in Budget /\ left'.restarts <= left.restarts
BY DEF Budget

\* A call that fails, by bad luck or because the service is down.
LEMMA Failed ==
  ASSUME left \in Budget, Loses \/ (~up /\ UNCHANGED left)
  PROVE  left' \in Budget
BY Spent DEF Loses

\* What the two reads of a status bring is a document.
LEMMA StepFields ==
  ASSUME NEW s \in Steps
  PROVE  /\ s.step = "done" => s.document \in Document
         /\ s.step \in {"put", "stored", "half"} => s.policy \in BOOLEAN
         /\ s.step = "put" => [s EXCEPT !.step = "stored"] \in Steps
<1>1. \/ s = Idle \/ s = Asked \/ s \in [step : {"put", "stored"}, policy : BOOLEAN]
      \/ s \in [step : {"half"}, policy : BOOLEAN] \/ s \in [step : {"done"}, document : Document]
  BY DEF Steps
<1>2. CASE s = Idle \/ s = Asked
  BY <1>2 DEF Idle, Asked
<1>3. CASE s \in [step : {"put", "stored"}, policy : BOOLEAN]
  <2>1. s.step # "done" /\ s.policy \in BOOLEAN
    BY <1>3
  <2>2. [s EXCEPT !.step = "stored"] \in [step : {"put", "stored"}, policy : BOOLEAN]
    BY <1>3
  <2> QED BY <2>1, <2>2 DEF Steps
<1>4. CASE s \in [step : {"half"}, policy : BOOLEAN]
  BY <1>4
<1>5. CASE s \in [step : {"done"}, document : Document]
  BY <1>5
<1> QED BY <1>1, <1>2, <1>3, <1>4, <1>5

LEMMA OutcomesType == \A t \in Tiers : Outcomes(t) \subseteq Outcomes("admin")
BY DEF Outcomes

LEMMA FreshStatus ==
  ASSUME NEW d \in Document \cup {None}, NEW b \in BOOLEAN
  PROVE  [document |-> d, reachable |-> b] \in Shown /\ [document |-> d, reachable |-> b] # None
BY ReportingAssumption DEF Shown
-----------------------------------------------------------------------------
(* Types.                                                                  *)

\* The steps by group, as the lemmas take them.
Polling   == PollStarts \/ PollAnswered \/ PollFails
Receiving == ReportReceived \/ PushAnswered \/ PushFails \/ \E p \in BOOLEAN : Push(p)
Sending   == SetupSent \/ SetupSendFails \/ Resent \/ ResendFails \/ PutWebhook \/ Heartbeat
             \/ TakesReport \/ ReportLost
Acting    == TabletActs \/ ActionAnswered \/ ActionFails \/ \E k \in ActionKeys : Press(k)
Working   == \/ StoresPolicy \/ StoresEnforcement \/ PackageEvent
             \/ TabletStarts \/ TabletStops \/ HomeAssistantRestarts
             \/ \E r \in Readers : ReadsPolicy(r) \/ ReadsEnforcement(r)

LEMMA NextGroups == Next => Polling \/ Receiving \/ Sending \/ Acting \/ Working
BY DEF Next, AssistantStep, Operator, TabletStep, Fault, Polling, Receiving, Sending, Acting, Working

\* A push is under way only once the setup is over.
Pushing == job["push"] # Idle => phase = "running"

LEMMA PollType ==
  ASSUME TypeOK, Polling
  PROVE  TypeOK'
<1>t. left \in Budget /\ job \in [Readers -> Steps] /\ "poll" \in Readers /\ data \in Shown \cup {None}
  BY DEF TypeOK, Readers
<1>1. CASE PollStarts
  <2>1. job' \in [Readers -> Steps]
    BY <1>1, <1>t DEF PollStarts, Start, Steps
  <2> QED BY <1>1, <2>1 DEF PollStarts, TypeOK, assistant, buttons, store, reporting
<1>2. ASSUME NEW s \in Shown, s # None, PollEnds(s), left' \in Budget PROVE TypeOK'
  <2>1. job' \in [Readers -> Steps]
    BY <1>2, <1>t DEF PollEnds, Steps
  <2>2. pending' \in BOOLEAN /\ sends' \subseteq {"asked", "stored"}
    BY <1>2 DEF PollEnds, OnStatus, ScheduleWebhook, TypeOK
  <2>3. /\ data' = s /\ phase' = IF phase = "setup" THEN "sending" ELSE phase
        /\ UNCHANGED <<address, buttons, tier, store, reporting, up>>
    BY <1>2 DEF PollEnds
  <2> QED BY <1>2, <2>1, <2>2, <2>3 DEF TypeOK, buttons, store, reporting
<1>3. CASE PollAnswered
  <2>1. job["poll"].document \in Document
    BY <1>3, <1>t, StepFields DEF PollAnswered
  <2> QED BY <1>2, <1>3, <1>t, <2>1, FreshStatus DEF PollAnswered
<1>4. CASE PollFails
  <2> DEFINE s == IF data = None THEN Offline ELSE [data EXCEPT !.reachable = FALSE]
  <2>1. s \in Shown /\ s # None
    <3>1. CASE data = None
      BY <3>1, FreshStatus DEF Offline
    <3>2. CASE data # None
      <4>1. s = [document |-> data.document, reachable |-> FALSE]
        BY <1>t, <3>2 DEF Shown
      <4>2. data.document \in Document \cup {None}
        BY <1>t, <3>2 DEF Shown
      <4> QED BY <4>1, <4>2, FreshStatus
    <3> QED BY <3>1, <3>2
  <2>2. PollEnds(s) /\ left' \in Budget
    BY <1>4, <1>t, Failed DEF PollFails
  <2> HIDE DEF s
  <2> QED BY <1>2, <2>1, <2>2
<1> QED BY <1>1, <1>3, <1>4 DEF Polling

LEMMA ReceivesType ==
  ASSUME TypeOK, Pushing, Receiving
  PROVE  TypeOK'
<1>t. /\ left \in Budget /\ job \in [Readers -> Steps]
      /\ "push" \in Readers /\ "reporter" \in Readers /\ Idle \in Steps
  BY DEF TypeOK, Readers, Steps
<1>1. CASE ReportReceived
  <2>1. job["reporter"].document \in Document
    BY <1>1, <1>t, StepFields DEF ReportReceived
  <2>2. data' \in Shown /\ data' # None
    BY <1>1, <2>1, FreshStatus DEF ReportReceived
  <2> QED BY <1>1, <1>t, <2>2 DEF ReportReceived, TypeOK, buttons, store
<1>2. CASE PushAnswered
  <2>1. job["push"].document \in Document
    BY <1>2, <1>t, StepFields DEF PushAnswered
  <2>2. data' \in Shown /\ data' # None
    BY <1>2, <2>1, FreshStatus DEF PushAnswered
  <2>3. phase # "setup"
    BY <1>2 DEF PushAnswered, Pushing, Idle
  <2> QED BY <1>2, <1>t, <2>2, <2>3 DEF PushAnswered, TypeOK, buttons, store, reporting
<1>3. CASE PushFails
  <2>1. left' \in Budget
    BY <1>3, <1>t, Failed DEF PushFails
  <2> QED BY <1>3, <1>t, <2>1 DEF PushFails, TypeOK, assistant, buttons, store, reporting
<1>4. ASSUME NEW p \in BOOLEAN, Push(p) PROVE TypeOK'
  <2>1. left' \in Budget
    BY <1>4, <1>t, Spent DEF Push
  <2>2. [step |-> "put", policy |-> p] \in Steps
    BY DEF Steps
  <2> QED BY <1>4, <1>t, <2>1, <2>2 DEF Push, Start, TypeOK, assistant, buttons, store, reporting
<1> QED BY <1>1, <1>2, <1>3, <1>4 DEF Receiving

LEMMA UrlType ==
  ASSUME TypeOK, Sending
  PROVE  TypeOK'
<1>t. /\ left \in Budget /\ job \in [Readers -> Steps] /\ "reporter" \in Readers
      /\ Idle \in Steps /\ Asked \in Steps /\ None \notin Addresses
  BY ReportingAssumption DEF TypeOK, Readers, Steps
<1>1. CASE SetupSent \/ Resent
  BY <1>1 DEF SetupSent, Resent, TypeOK, buttons, store, reporting
<1>2. CASE SetupSendFails \/ ResendFails
  <2>1. left' \in Budget
    BY <1>2, <1>t, Failed DEF SetupSendFails, ResendFails
  <2> QED BY <1>2, <2>1 DEF SetupSendFails, ResendFails, TypeOK, buttons, store, reporting
<1>3. CASE PutWebhook
  BY <1>3, <1>t DEF PutWebhook, Reports, TypeOK, buttons, store
<1>4. CASE Heartbeat
  BY <1>4, <1>t DEF Heartbeat, Reports, TypeOK, assistant, buttons, store
<1>5. CASE TakesReport
  BY <1>5, <1>t DEF TakesReport, Start, TypeOK, assistant, buttons, store
<1>6. CASE ReportLost
  BY <1>6, <1>t DEF ReportLost, TypeOK, assistant, buttons, store
<1> QED BY <1>1, <1>2, <1>3, <1>4, <1>5, <1>6 DEF Sending

LEMMA ActionType ==
  ASSUME TypeOK, Acting
  PROVE  TypeOK'
<1>t. left \in Budget /\ last \in [ActionKeys -> {None, "ok", "error"}] /\ action \in Actions \cup {None}
  BY DEF TypeOK
<1>1. CASE TabletActs
  <2>1. action \in Actions
    BY <1>1, <1>t DEF TabletActs
  <2>2. [action EXCEPT !.result = "ok"] \in Actions /\ [action EXCEPT !.result = "refused"] \in Actions
    BY <2>1 DEF Actions
  <2> QED BY <1>1, <2>1, <2>2 DEF TabletActs, TypeOK, Actions, assistant, store
<1>2. CASE ActionAnswered
  <2>1. last' \in [ActionKeys -> {None, "ok", "error"}] /\ action' = None
    BY <1>2, <1>t DEF ActionAnswered
  <2> QED BY <1>2, <2>1 DEF ActionAnswered, TypeOK, assistant, store, reporting
<1>3. CASE ActionFails
  <2>1. left' \in Budget
    BY <1>3, <1>t, Failed DEF ActionFails
  <2>2. last' \in [ActionKeys -> {None, "ok", "error"}] /\ action' = None
    BY <1>3, <1>t DEF ActionFails
  <2> QED BY <1>3, <2>1, <2>2 DEF ActionFails, TypeOK, assistant, store, reporting
<1>4. ASSUME NEW k \in ActionKeys, Press(k) PROVE TypeOK'
  <2>1. left' \in Budget
    BY <1>4, <1>t, Spent DEF Press
  <2>2. [key |-> k, result |-> None] \in Actions
    BY DEF Actions
  <2> QED BY <1>4, <2>1, <2>2 DEF Press, TypeOK, assistant, store, reporting
<1> QED BY <1>1, <1>2, <1>3, <1>4 DEF Acting

LEMMA TabletType ==
  ASSUME TypeOK, Working
  PROVE  TypeOK'
<1>t. /\ left \in Budget /\ job \in [Readers -> Steps] /\ tier \in Tiers
      /\ Readers = {"poll", "reporter", "push"} /\ Idle \in Steps /\ Asked \in Steps
  BY DEF TypeOK, Readers, Steps
<1>e. ASSUME NEW p \in BOOLEAN, Enforces(p)
      PROVE  enforcement' \in Outcomes("admin") /\ inForce' \in BOOLEAN
  BY <1>e, <1>t, OutcomesType DEF Enforces, TypeOK
<1>1. CASE StoresPolicy
  <2>1. job["push"].policy \in BOOLEAN /\ job' \in [Readers -> Steps]
    <3>1. job' = [job EXCEPT !["push"] = [job["push"] EXCEPT !.step = "stored"]]
      BY <1>1 DEF StoresPolicy
    <3> QED BY <1>1, <1>t, <3>1, StepFields DEF StoresPolicy
  <2> QED BY <1>1, <2>1 DEF StoresPolicy, TypeOK, assistant, buttons, reporting
<1>2. CASE StoresEnforcement
  <2>1. job["push"].policy \in BOOLEAN
    BY <1>2, <1>t, StepFields DEF StoresEnforcement
  <2>2. enforcement' \in Outcomes("admin") /\ inForce' \in BOOLEAN
    BY <1>2, <1>e, <2>1 DEF StoresEnforcement
  <2> QED BY <1>2, <1>t, <2>2 DEF StoresEnforcement, Reports, TypeOK, assistant, buttons
<1>3. CASE PackageEvent
  <2>1. left' \in Budget
    BY <1>3, <1>t, Spent DEF PackageEvent
  <2> QED BY <1>3, <1>t, <2>1 DEF PackageEvent, Reports, TypeOK, assistant, buttons
<1>4. CASE TabletStarts
  <2>1. enforcement' \in Outcomes("admin") /\ inForce' \in BOOLEAN
    BY <1>4, <1>e DEF TabletStarts, TypeOK
  <2> QED BY <1>4, <2>1 DEF TabletStarts, TypeOK, assistant, buttons, reporting
<1>5. CASE TabletStops
  <2>1. left' \in Budget
    BY <1>5, <1>t, Spent DEF TabletStops
  <2> QED BY <1>5, <1>t, <2>1 DEF TabletStops, TypeOK, assistant, buttons, store
<1>6. CASE HomeAssistantRestarts
  <2>1. left' \in Budget
    BY <1>6, <1>t, Spent DEF HomeAssistantRestarts
  <2> QED BY <1>6, <1>t, <2>1 DEF HomeAssistantRestarts, TypeOK, store, reporting
<1>7. ASSUME NEW r \in Readers, ReadsPolicy(r) PROVE TypeOK'
  <2>1. [step |-> "half", policy |-> policy] \in Steps
    BY DEF TypeOK, Steps
  <2> QED BY <1>7, <1>t, <2>1 DEF ReadsPolicy, TypeOK, assistant, buttons, store, reporting
<1>8. ASSUME NEW r \in Readers, ReadsEnforcement(r) PROVE TypeOK'
  <2> DEFINE d == [Truth EXCEPT !.policy = job[r].policy]
  <2>1. job[r].policy \in BOOLEAN
    BY <1>8, <1>t, StepFields DEF ReadsEnforcement
  <2>2. d \in Document
    BY <2>1 DEF Truth, TypeOK, Document
  <2>3. [step |-> "done", document |-> d] \in Steps
    BY <2>2 DEF Steps
  <2>4. job' = [job EXCEPT ![r] = [step |-> "done", document |-> d]]
        /\ UNCHANGED <<assistant, buttons, tier, store, reporting, up, left>>
    BY <1>8 DEF ReadsEnforcement
  <2> HIDE DEF d
  <2> QED BY <1>t, <2>3, <2>4 DEF TypeOK, assistant, buttons, store, reporting
<1> QED BY <1>1, <1>2, <1>3, <1>4, <1>5, <1>6, <1>7, <1>8 DEF Working

LEMMA NextType == TypeOK /\ Pushing /\ [Next]_vars => TypeOK'
<1> SUFFICES ASSUME TypeOK, Pushing, [Next]_vars PROVE TypeOK'
  OBVIOUS
<1>1. CASE UNCHANGED vars
  BY <1>1 DEF vars, assistant, buttons, store, reporting, TypeOK
<1> QED BY <1>1, NextGroups, PollType, ReceivesType, UrlType, ActionType, TabletType

\* Only a push begins one; only a restart of Home Assistant, which ends
\* every push, leaves "running".
LEMMA NextPushing == TypeOK /\ Pushing /\ [Next]_vars => Pushing'
<1> SUFFICES ASSUME TypeOK, Pushing, [Next]_vars PROVE Pushing'
  OBVIOUS
<1>t. job \in [Readers -> Steps] /\ "push" \in Readers
  BY DEF TypeOK, Readers
<1>1. CASE UNCHANGED vars
  BY <1>1 DEF vars, assistant, Pushing
<1>2. CASE Polling
  BY <1>2, <1>t DEF Polling, PollStarts, PollAnswered, PollFails, PollEnds, Start, Pushing, assistant
<1>3. CASE Receiving
  BY <1>3, <1>t DEF Receiving, ReportReceived, PushAnswered, PushFails, Push, Pushing, assistant
<1>4. CASE Sending
  BY <1>4, <1>t DEF Sending, SetupSent, SetupSendFails, Resent, ResendFails, PutWebhook,
     Heartbeat, TakesReport, ReportLost, Start, Pushing, assistant
<1>5. CASE Acting
  BY <1>5 DEF Acting, TabletActs, ActionAnswered, ActionFails, Press, Pushing, assistant
<1>6. CASE Working
  BY <1>6, <1>t DEF Working, StoresPolicy, StoresEnforcement, PackageEvent, TabletStarts,
     TabletStops, HomeAssistantRestarts, ReadsPolicy, ReadsEnforcement, Pushing, assistant,
     Idle, Asked
<1> QED BY <1>1, <1>2, <1>3, <1>4, <1>5, <1>6, NextGroups

LEMMA AlwaysTyped == Spec => [](TypeOK /\ Pushing)
<1>1. Init => Pushing
  BY DEF Init, Pushing, Readers
<1> QED BY <1>1, InitType, NextType, NextPushing, PTL DEF Spec

\* The types of every behaviour of coordinator.py, WebhookReporter.kt and
\* HttpServer.kt as far as reports go, for any tier and any faults.
THEOREM ReportingTypeCorrect == Spec => []TypeOK
BY AlwaysTyped, PTL

-----------------------------------------------------------------------------
(* The webhook URL.                                                        *)

\* Within one run, a report under way carries the URL the tablet holds, or
\* that of the run before; a send the tablet answered has brought it ours.
UrlInv ==
  /\ phase = "sent" \/ "stored" \in sends => url = address
  /\ BelievesRight
  /\ address \in queued \cup {to} => url = address
  /\ left.restarts > 0 => queued \cup {to, url} \subseteq {address, None}
  /\ left.restarts <= 1

LEMMA UrlStep ==
  ASSUME TypeOK, TypeOK', UrlInv, [Next]_vars
  PROVE  UrlInv'
<1>t. /\ left \in Budget /\ address \in Addresses /\ None \notin Addresses
      /\ job \in [Readers -> Steps] /\ queued \subseteq Addresses
  BY ReportingAssumption DEF TypeOK
<1>l. Loses \/ UNCHANGED left => left'.restarts = left.restarts
  BY <1>t DEF Loses, Budget
<1>1. CASE UNCHANGED vars
  BY <1>1 DEF vars, assistant, reporting, UrlInv, BelievesRight
<1>2. CASE Polling
  <2>1. left'.restarts = left.restarts
    BY <1>2, <1>l DEF Polling, PollStarts, PollAnswered, PollFails
  <2>2. UNCHANGED <<address, reporting>>
    BY <1>2 DEF Polling, PollStarts, PollAnswered, PollFails, PollEnds, assistant
  <2>3. /\ phase' \in {"setup", "sending"} \/ phase' = phase
        /\ \/ UNCHANGED <<pending, sends>>
           \/ ~pending' /\ sends' = sends \cup {"asked"}
        /\ phase' # phase => phase' # "running" /\ phase' # "sent"
    BY <1>2 DEF Polling, PollStarts, PollAnswered, PollFails, PollEnds, OnStatus, ScheduleWebhook, assistant
  <2> QED BY <2>1, <2>2, <2>3 DEF UrlInv, BelievesRight, reporting
<1>3. CASE Receiving
  <2>1. left'.restarts = left.restarts
    BY <1>3, <1>l, <1>t DEF Receiving, ReportReceived, PushAnswered, PushFails, Push, Budget
  <2>2. CASE ReportReceived
    BY <2>1, <2>2, <1>t DEF ReportReceived, UrlInv, BelievesRight
  <2>3. CASE PushAnswered \/ PushFails \/ \E p \in BOOLEAN : Push(p)
    <3>1. UNCHANGED <<phase, address, pending, sends, reporting>>
      BY <2>3 DEF PushAnswered, PushFails, Push, assistant
    <3> QED BY <2>1, <3>1 DEF UrlInv, BelievesRight, reporting
  <2> QED BY <1>3, <2>2, <2>3 DEF Receiving
<1>4. CASE Sending
  <2>1. left'.restarts = left.restarts /\ UNCHANGED address
    BY <1>4, <1>l DEF Sending, SetupSent, SetupSendFails, Resent, ResendFails, PutWebhook,
       Heartbeat, TakesReport, ReportLost, assistant
  <2>2. CASE SetupSent \/ SetupSendFails \/ Resent \/ ResendFails
    BY <2>1, <2>2 DEF SetupSent, SetupSendFails, Resent, ResendFails, UrlInv, BelievesRight, reporting
  <2>3. CASE PutWebhook
    BY <2>1, <2>3, <1>t DEF PutWebhook, Reports, UrlInv, BelievesRight
  <2>4. CASE Heartbeat
    BY <2>1, <2>4, <1>t DEF Heartbeat, Reports, UrlInv, BelievesRight, assistant
  <2>5. CASE TakesReport \/ ReportLost
    BY <2>1, <2>5, <1>t DEF TakesReport, ReportLost, UrlInv, BelievesRight, assistant
  <2> QED BY <1>4, <2>2, <2>3, <2>4, <2>5 DEF Sending
<1>5. CASE Acting
  <2>1. left'.restarts = left.restarts
    BY <1>5, <1>l, <1>t DEF Acting, TabletActs, ActionAnswered, ActionFails, Press, Budget
  <2>2. /\ UNCHANGED <<phase, address, pending, sends, url, to>>
        /\ queued' \subseteq queued \cup ({url} \ {None})
    BY <1>5 DEF Acting, TabletActs, ActionAnswered, ActionFails, Press, assistant, reporting
  <2> QED BY <2>1, <2>2, <1>t DEF UrlInv, BelievesRight
<1>6. CASE Working
  <2>1. CASE HomeAssistantRestarts
    <3>1. /\ left.restarts > 0 /\ left'.restarts = left.restarts - 1
          /\ phase' = "setup" /\ sends' = {} /\ UNCHANGED reporting /\ address' \in Addresses
      BY <1>t, <2>1 DEF HomeAssistantRestarts, Budget
    <3>2. left.restarts = 1 /\ left'.restarts = 0
      BY <1>t, <3>1 DEF UrlInv, Budget
    <3> QED BY <1>t, <3>1, <3>2 DEF UrlInv, BelievesRight, reporting
  <2>2. CASE TabletStops
    <3>1. left'.restarts = left.restarts
      BY <1>t, <2>2 DEF TabletStops, Budget
    <3> QED BY <1>t, <2>2, <3>1 DEF TabletStops, UrlInv, BelievesRight, assistant
  <2>3. CASE \/ StoresPolicy \/ StoresEnforcement \/ PackageEvent \/ TabletStarts
             \/ \E r \in Readers : ReadsPolicy(r) \/ ReadsEnforcement(r)
    <3>1. left'.restarts = left.restarts
      BY <1>t, <2>3 DEF StoresPolicy, StoresEnforcement, PackageEvent, TabletStarts, ReadsPolicy,
         ReadsEnforcement, Budget
    <3>2. /\ UNCHANGED <<phase, address, pending, sends, url, to>>
          /\ queued' \subseteq queued \cup ({url} \ {None})
      BY <2>3 DEF StoresPolicy, StoresEnforcement, PackageEvent, TabletStarts, ReadsPolicy,
         ReadsEnforcement, Reports, assistant, reporting
    <3> QED BY <1>t, <3>1, <3>2 DEF UrlInv, BelievesRight
  <2> QED BY <1>6, <2>1, <2>2, <2>3 DEF Working
<1> QED BY <1>1, <1>2, <1>3, <1>4, <1>5, <1>6, NextGroups

\* async_send_webhook's bookkeeping is right over a restart of Home
\* Assistant at any address, for any number of lost calls, reboots and sends:
\* with nothing pending or under way the tablet holds the URL of this run.
THEOREM UrlBelievedRight ==
  ASSUME \A b \in Budgets : b.restarts <= 1
  PROVE  Spec => []BelievesRight
<1>1. Init => UrlInv
  <2> SUFFICES ASSUME Init PROVE UrlInv
    OBVIOUS
  <2>1. left.restarts <= 1 /\ address \in Addresses /\ None \notin Addresses
    BY InitType, ReportingAssumption DEF Init, TypeOK
  <2> QED BY <2>1 DEF Init, UrlInv, BelievesRight
<1>2. TypeOK /\ TypeOK' /\ UrlInv /\ [Next]_vars => UrlInv'
  BY UrlStep
<1>3. UrlInv => BelievesRight
  BY DEF UrlInv
<1> QED BY <1>1, <1>2, <1>3, AlwaysTyped, PTL DEF Spec

-----------------------------------------------------------------------------
(* The outcome of a button.                                                *)

\* What the tablet answered "ok" to, it did since the button was pressed.
OkInv == action # None /\ action.result = "ok" => action.key \in performed

LEMMA OkStep ==
  ASSUME TypeOK, OkInv, [Next]_vars
  PROVE  /\ OkInv'
         /\ action # None /\ action' = None /\ last'[action.key] = "ok"
              => \/ action.key \in performed
                 \/ action.key = "last_lock_screen" /\ action.result = "refused"
<1>t. /\ action \in Actions \cup {None} /\ None \notin Actions /\ None # "ok"
      /\ last \in [ActionKeys -> {None, "ok", "error"}]
  BY ReportingAssumption DEF TypeOK
<1>1. CASE UNCHANGED <<action, performed>>
  BY <1>1 DEF OkInv
<1>2. CASE HomeAssistantRestarts
  <2>1. action' = None /\ (action # None => last'[action.key] = None)
    BY <1>2, <1>t DEF HomeAssistantRestarts, Actions
  <2> QED BY <1>t, <2>1 DEF OkInv
<1>3. CASE Acting
  <2>1. ASSUME NEW k \in ActionKeys, Press(k) PROVE action = None /\ OkInv'
    BY <1>t, <2>1 DEF Press, OkInv
  <2>2. CASE TabletActs
    <3>1. action \in Actions
      BY <1>t, <2>2 DEF TabletActs
    <3>2. /\ [action EXCEPT !.result = "ok"] \in Actions
          /\ [action EXCEPT !.result = "refused"] \in Actions
          /\ [action EXCEPT !.result = "refused"].result # "ok"
          /\ [action EXCEPT !.result = "ok"].key = action.key
      BY <3>1 DEF Actions
    <3>3. \/ /\ action' = [action EXCEPT !.result = "ok"]
             /\ performed' = performed \cup {action.key}
          \/ action' = [action EXCEPT !.result = "refused"]
      BY <2>2 DEF TabletActs
    <3> QED BY <1>t, <3>2, <3>3 DEF OkInv
  <2>3. CASE ActionAnswered
    <3>1. /\ action \in Actions /\ action.result \in {"ok", "refused"} /\ action.key \in ActionKeys
          /\ action' = None
      BY <1>t, <2>3 DEF ActionAnswered, Actions
    <3>2. CASE action.result = "ok"
      BY <3>1, <3>2, <1>t DEF OkInv
    <3>3. CASE action.result = "refused" /\ action.key # "last_lock_screen"
      <4>1. last'[action.key] = "error"
        BY <1>t, <2>3, <3>1, <3>3 DEF ActionAnswered
      <4> QED BY <3>1, <4>1 DEF OkInv
    <3>4. CASE action.result = "refused" /\ action.key = "last_lock_screen"
      BY <3>1, <3>4 DEF OkInv
    <3> QED BY <3>1, <3>2, <3>3, <3>4
  <2>4. CASE ActionFails
    <3>1. action' = None /\ last'[action.key] = "error"
      BY <1>t, <2>4 DEF ActionFails, Actions
    <3> QED BY <3>1 DEF OkInv
  <2> QED BY <1>3, <2>1, <2>2, <2>3, <2>4 DEF Acting
<1>4. ASSUME ~HomeAssistantRestarts, ~Acting PROVE UNCHANGED <<action, performed>>
  <2>1. CASE Polling \/ Receiving
    BY <2>1 DEF Polling, PollStarts, PollAnswered, PollFails, PollEnds,
       Receiving, ReportReceived, PushAnswered, PushFails, Push, buttons
  <2>2. CASE Sending
    BY <2>2 DEF Sending, SetupSent, SetupSendFails, Resent, ResendFails, PutWebhook,
       Heartbeat, TakesReport, ReportLost, buttons
  <2>3. CASE Working
    BY <1>4, <2>3 DEF Working, StoresPolicy, StoresEnforcement, PackageEvent, TabletStarts,
       TabletStops, ReadsPolicy, ReadsEnforcement, buttons
  <2>4. CASE UNCHANGED vars
    BY <2>4 DEF vars, buttons
  <2> QED BY <1>4, <2>1, <2>2, <2>3, <2>4, NextGroups
<1> QED BY <1>1, <1>2, <1>3, <1>4

\* Whatever the tier, the losses, reboots and restarts, an outcome recorded
\* as "ok" is of something the tablet did since the press, with the one
\* exception of async_lock_screen, which does not record a refusal.
THEOREM OutcomesAreTrue == Spec => OkWasDone
<1>1. Init => OkInv
  BY DEF Init, OkInv
<1>2. TypeOK /\ OkInv /\ [Next]_vars => OkInv'
  BY OkStep
<1>3. TypeOK /\ OkInv /\ [Next]_vars
        => [action # None /\ action' = None /\ last'[action.key] = "ok"
              => \/ action.key \in performed
                 \/ action.key = "last_lock_screen" /\ action.result = "refused"]_vars
  BY OkStep
<1> QED BY <1>1, <1>2, <1>3, AlwaysTyped, PTL DEF Spec, OkWasDone

-----------------------------------------------------------------------------
(* The first status.                                                       *)

\* A status shown as reachable has a document.
SeenInv == data # None /\ data.reachable => data.document # None

LEMMA NeverReported ==
  ASSUME NEW s \in Shown
  PROVE  FleetStatus(s) = "never_reported" <=> ~s.reachable /\ s.document = None
<1>1. CASE s.reachable
  BY <1>1 DEF FleetStatus
<1>2. CASE ~s.reachable
  <2>1. FleetStatus(s) = IF s.document = None THEN "never_reported" ELSE "offline"
    BY <1>2 DEF FleetStatus
  <2> QED BY <1>2, <2>1
<1> QED BY <1>1, <1>2 DEF Shown

\* A status is replaced by a document, or only marked unreachable.
LEMMA DataStep ==
  ASSUME TypeOK, [Next]_vars, data' # None
  PROVE  \/ UNCHANGED data
         \/ data'.document \in Document
         \/ ~data'.reachable /\ (data # None => data'.document = data.document)
<1>t. /\ job \in [Readers -> Steps] /\ Readers = {"poll", "reporter", "push"}
      /\ data \in Shown \cup {None}
  BY DEF TypeOK, Readers
<1>1. CASE PollAnswered \/ ReportReceived \/ PushAnswered
  <2>1. PICK r \in Readers : /\ job[r].step = "done"
                             /\ data' = [document |-> job[r].document, reachable |-> TRUE]
    BY <1>1, <1>t DEF PollAnswered, PollEnds, ReportReceived, PushAnswered
  <2>2. job[r].document \in Document
    BY <1>t, <2>1, StepFields
  <2> QED BY <2>1, <2>2
<1>2. CASE PollFails
  <2>1. data' = IF data = None THEN Offline ELSE [data EXCEPT !.reachable = FALSE]
    BY <1>2 DEF PollFails, PollEnds
  <2> QED BY <1>t, <2>1 DEF Shown, Offline
<1>3. ASSUME ~PollAnswered, ~ReportReceived, ~PushAnswered, ~PollFails PROVE UNCHANGED data
  <2>1. CASE Polling \/ Receiving
    BY <1>3, <2>1 DEF Polling, PollStarts, Receiving, PushFails, Push, assistant
  <2>2. CASE Sending
    BY <2>2 DEF Sending, SetupSent, SetupSendFails, Resent, ResendFails, PutWebhook,
       Heartbeat, TakesReport, ReportLost, assistant
  <2>3. CASE Acting
    BY <2>3 DEF Acting, TabletActs, ActionAnswered, ActionFails, Press, assistant
  <2>4. CASE Working
    BY <2>4 DEF Working, StoresPolicy, StoresEnforcement, PackageEvent, TabletStarts,
       TabletStops, HomeAssistantRestarts, ReadsPolicy, ReadsEnforcement, assistant
  <2>5. CASE UNCHANGED vars
    BY <2>5 DEF vars, assistant
  <2> QED BY <2>1, <2>2, <2>3, <2>4, <2>5, NextGroups
<1> QED BY <1>1, <1>2, <1>3

\* A tablet that was shown with a status of its own is never again said to
\* have "never reported", whatever is lost, until Home Assistant restarts.
THEOREM StatusIsKept == Spec => NeverForgotten
<1>1. Init => SeenInv
  BY DEF Init, SeenInv
<1>2. TypeOK /\ SeenInv /\ [Next]_vars => SeenInv'
  <2> SUFFICES ASSUME TypeOK, SeenInv, [Next]_vars, data' # None, data'.reachable
               PROVE  data'.document # None
    BY DEF SeenInv
  <2> QED BY DataStep, ReportingAssumption DEF SeenInv
<1>3. TypeOK /\ TypeOK' /\ SeenInv /\ [Next]_vars
        => [data # None /\ data' # None /\ FleetStatus(data) # "never_reported"
              => FleetStatus(data') # "never_reported"]_vars
  <2> SUFFICES ASSUME TypeOK, TypeOK', SeenInv, [Next]_vars, data # None, data' # None,
                      FleetStatus(data) # "never_reported"
               PROVE  FleetStatus(data') # "never_reported"
    OBVIOUS
  <2>1. data \in Shown /\ data' \in Shown
    BY DEF TypeOK
  <2>2. data.document # None
    BY <2>1, NeverReported DEF SeenInv
  <2>3. data'.document # None
    BY <2>2, DataStep, ReportingAssumption
  <2> QED BY <2>1, <2>3, NeverReported
<1> QED BY <1>1, <1>2, <1>3, AlwaysTyped, PTL DEF Spec, NeverForgotten
=============================================================================
