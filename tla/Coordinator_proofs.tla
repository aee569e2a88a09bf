------------------------- MODULE Coordinator_proofs -------------------------
(***************************************************************************)
(* Safety of the coordinator and its tablet for any number of operators,   *)
(* any requests and any number of faults.                                  *)
(***************************************************************************)
EXTENDS Coordinator, TLAPS

-----------------------------------------------------------------------------
(* Documents.                                                              *)

LEMMA DefaultNormalized == DefaultPolicy \in Policy /\ Normalized(DefaultPolicy)
<1>1. DefaultPolicy \in Policy
  BY DEF DefaultPolicy, Policy, AppModes
<1>2. Normalize(DefaultPolicy) = DefaultPolicy
  <2>1. /\ DefaultPolicy.kiosk_packages \ {DpcPackage} = DefaultPolicy.kiosk_packages
        /\ FoldKiosk(DefaultPolicy.app_mode, DefaultPolicy.kiosk_packages,
                     DefaultPolicy.allowed_packages \ {DpcPackage})
             = DefaultPolicy.allowed_packages
    BY DEF DefaultPolicy, FoldKiosk
  <2>2. Normalize(DefaultPolicy)
          = [DefaultPolicy EXCEPT !.kiosk_packages = DefaultPolicy.kiosk_packages,
                                  !.allowed_packages = DefaultPolicy.allowed_packages]
    BY <2>1 DEF Normalize
  <2> QED BY <1>1, <2>2 DEF Policy
<1>3. Safe(DefaultPolicy)
  BY PolicyAssumption DEF Safe, DefaultPolicy
<1> QED BY <1>1, <1>2, <1>3 DEF Normalized

\* The guard returns a policy in normal form.
LEMMA NormalizeNormalizes ==
  ASSUME NEW p \in Policy
  PROVE  /\ Normalize(p) \in Policy
         /\ Normalize(p).flags = p.flags
         /\ Acceptable(p) => Normalized(Normalize(p))
<1> DEFINE q == Normalize(p)
<1>1. /\ q.flags = p.flags /\ q.app_mode = p.app_mode
      /\ q.kiosk_packages = p.kiosk_packages \ {DpcPackage}
      /\ q.allowed_packages = FoldKiosk(p.app_mode, p.kiosk_packages \ {DpcPackage},
                                        p.allowed_packages \ {DpcPackage})
  BY DEF Normalize, Policy
<1>2. q \in Policy
  BY DEF Normalize, Policy, FoldKiosk
<1>3. /\ q.kiosk_packages \ {DpcPackage} = q.kiosk_packages
      /\ FoldKiosk(q.app_mode, q.kiosk_packages, q.allowed_packages \ {DpcPackage})
           = q.allowed_packages
  BY <1>1 DEF FoldKiosk
<1> HIDE DEF q
<1>4. Normalize(q) = [q EXCEPT !.kiosk_packages = q.kiosk_packages,
                               !.allowed_packages = q.allowed_packages]
  BY <1>3 DEF Normalize
<1>5. Normalize(q) = q
  BY <1>2, <1>4 DEF Policy
<1> QED BY <1>1, <1>2, <1>5 DEF q, Acceptable, Normalized

LEMMA NormalizedAcceptable ==
  ASSUME NEW p, Normalized(p)
  PROVE  p \in Policy /\ Acceptable(p) /\ Normalize(p) = p
BY DEF Normalized, Acceptable

LEMMA MergeType ==
  ASSUME NEW p \in Policy, NEW r \in Change \cup Whole
  PROVE  Merge(p, r) \in Policy
<1>1. CASE r \in [kind : {"flag"}, key : Flags, value : BOOLEAN]
  BY <1>1 DEF Merge, Policy
<1>2. CASE r \in [kind : {"kiosk_packages", "allowed_packages"}, value : SUBSET Packages]
  BY <1>2 DEF Merge, Policy
<1>3. CASE r \in [kind : {"app_mode"}, value : AppModes]
  BY <1>3 DEF Merge, Policy
<1>4. CASE r \in [kind : {"approve"}, value : Packages]
  BY <1>4 DEF Merge, Policy
<1>5. CASE r \in Whole
  BY <1>5 DEF Merge, Whole
<1> QED BY <1>1, <1>2, <1>3, <1>4, <1>5 DEF Change

-----------------------------------------------------------------------------
(* The building blocks keep the types.                                     *)

\* An operator in _async_ensure_policy_known asked for a change of one part.
EnsuringHasChange == \A w \in Writers : pc[w] = "ensuring" => request[w] \in Change
TypeInv == TypeOK /\ EnsuringHasChange

LEMMA CallTypes ==
  /\ NoCall \in Calls /\ Get \in Calls
  /\ \A p \in Policy, v \in Nat : Put(p, v) \in Calls
  /\ \A s \in Status : Answer(s) \in Calls
  /\ \A c \in Calls : c.kind = "answer" => c.status \in Status
  /\ \A c \in Calls : c.kind = "put" => c.policy \in Policy /\ c.version \in Nat
BY DEF NoCall, Get, Calls, Put, Answer, Version

LEMMA PlanTypes == \A p \in Policy, v \in Nat : Stored(p, v) \in Plan
BY DEF Stored, Plan, Version

LEMMA ApplyPolicyType ==
  ASSUME TypeOK, version' \in Nat,
         NEW t \in Tasks, NEW p \in Policy,
         NEW pc0 \in PCs, NEW call0 \in [Tasks -> Calls],
         ApplyPolicy(t, p, pc0, call0)
  PROVE  /\ holder' \in Tasks \cup {Free} /\ queue' \in Seq(Tasks)
         /\ plan' \in [Tasks -> Plan] /\ pc' \in PCs /\ call' \in [Tasks -> Calls]
<1>1. CASE Refused(t, pc0, call0)
  BY <1>1 DEF Refused, lock, TypeOK, PCs
<1>2. Normalize(p) \in Policy
  BY NormalizeNormalizes
<1>3. CASE Acquire(t, Normalize(p), pc0, call0)
  <2>1. Put(Normalize(p), version' + 1) \in Calls
    BY <1>2, CallTypes
  <2>2. Stored(Normalize(p), version' + 1) \in Plan
    BY <1>2, PlanTypes
  <2>3. /\ holder' = t /\ queue' = queue
        /\ plan' = [plan EXCEPT ![t] = Stored(Normalize(p), version' + 1)]
        /\ pc' = [pc0 EXCEPT ![t] = "pushing"]
        /\ call' = [call0 EXCEPT ![t] = Put(Normalize(p), version' + 1)]
    BY <1>3 DEF Acquire, StartPush
  <2>4. pc' \in PCs
    BY <2>3 DEF PCs
  <2>5. plan' \in [Tasks -> Plan]
    BY <2>2, <2>3 DEF TypeOK
  <2>6. call' \in [Tasks -> Calls]
    BY <2>1, <2>3
  <2> QED BY <2>3, <2>4, <2>5, <2>6 DEF TypeOK
<1>4. CASE Enqueue(t, Normalize(p), pc0, call0)
  <2>1. Stored(Normalize(p), 0) \in Plan
    BY <1>2, PlanTypes
  <2>2. queue' \in Seq(Tasks)
    <3>1. queue \in Seq(Tasks) /\ queue' = Append(queue, t)
      BY <1>4 DEF Enqueue, TypeOK
    <3> QED BY <3>1
  <2>3. plan' \in [Tasks -> Plan]
    BY <1>4, <2>1 DEF Enqueue, TypeOK
  <2>4. pc' \in PCs
    <3>1. pc' = [pc0 EXCEPT ![t] = "waiting"]
      BY <1>4 DEF Enqueue
    <3> QED BY <3>1 DEF PCs
  <2> QED BY <1>4, <2>2, <2>3, <2>4 DEF Enqueue, TypeOK
<1> QED BY <1>1, <1>3, <1>4 DEF ApplyPolicy

LEMMA AdoptType ==
  ASSUME TypeOK, NEW s \in Status, Adopt(s)
  PROVE  desired' \in Policy /\ version' \in Nat /\ known' = TRUE
<1>1. Ownable(s.policy) => s.policy \in Policy
  BY DEF Status, Held, Ownable
<1> QED BY <1>1, NormalizeNormalizes, DefaultNormalized
        DEF Adopt, Max2, Status, Version, TypeOK

LEMMA OnStatusType ==
  ASSUME TypeOK, NEW s \in Status, NEW v \in Nat,
         NEW pc0 \in PCs, NEW call0 \in [Tasks -> Calls],
         OnStatus(s, v, pc0, call0)
  PROVE  /\ desired' \in Policy /\ version' \in Nat /\ known' \in BOOLEAN
         /\ armed' \in BOOLEAN
         /\ holder' \in Tasks \cup {Free} /\ queue' \in Seq(Tasks)
         /\ plan' \in [Tasks -> Plan] /\ pc' \in PCs /\ call' \in [Tasks -> Calls]
<1>1. desired' \in Policy /\ version' \in Nat /\ known' \in BOOLEAN
  BY AdoptType DEF OnStatus, TypeOK
<1>2. Reconcile \in Tasks
  BY DEF Tasks
<1>3. CASE Drifted(s) /\ armed' = FALSE /\ ApplyPolicy(Reconcile, desired', pc0, call0)
  BY <1>1, <1>2, <1>3, ApplyPolicyType
<1>4. CASE /\ pc' = pc0 /\ call' = call0
           /\ UNCHANGED <<armed, lock>>
  BY <1>1, <1>4 DEF TypeOK, lock
<1> QED BY <1>1, <1>3, <1>4 DEF OnStatus, ReconcileIfDrifted

LEMMA StatusTypes ==
  ASSUME TypeOK
  PROVE  /\ StatusOf(memory) \in Status
         /\ Unreachable \in Status
         /\ \A t \in Tasks : call[t].kind = "answer" => call[t].status \in Status
         /\ \A t \in Tasks : Lingering(t) \subseteq Plan
<1>1. StatusOf(memory) \in Status
  BY DEF TypeOK, StatusOf, Status, Version
<1>2. Unreachable \in Status
  <2>1. Offline \in Status
    BY DefaultNormalized DEF Offline, Status, Held, Version
  <2>2. ASSUME data \in Status PROVE [data EXCEPT !.reachable = FALSE] \in Status
    BY <2>2 DEF Status
  <2> QED BY <2>1, <2>2 DEF TypeOK, Unreachable
<1>3. \A t \in Tasks : call[t] \in Calls
  BY DEF TypeOK
<1>4. \A t \in Tasks : call[t].kind = "answer" => call[t].status \in Status
  BY <1>3, CallTypes
<1>5. \A t \in Tasks : Lingering(t) \subseteq Plan
  BY <1>3, CallTypes, PlanTypes DEF Lingering
<1> QED BY <1>1, <1>2, <1>4, <1>5


\* A fault is spent only while one remains.
LEMMA BudgetSpent ==
  ASSUME NEW b \in Budget
  PROVE  /\ b.failures > 0 => [b EXCEPT !.failures = @ - 1] \in Budget
         /\ b.failures > 0 /\ b.late > 0
              => [b EXCEPT !.failures = @ - 1, !.late = @ - 1] \in Budget
         /\ b.restarts > 0 => [b EXCEPT !.restarts = @ - 1] \in Budget
         /\ b.restarts > 0 /\ b.late > 0
              => [b EXCEPT !.restarts = @ - 1, !.late = @ - 1] \in Budget
         /\ b.reboots > 0 => [b EXCEPT !.reboots = @ - 1] \in Budget
<1>1. /\ b.failures \in Nat /\ b.late \in Nat
      /\ b.restarts \in Nat /\ b.reboots \in Nat
  BY DEF Budget
<1>2. /\ b.failures > 0 => b.failures - 1 \in Nat
      /\ b.late > 0 => b.late - 1 \in Nat
      /\ b.restarts > 0 => b.restarts - 1 \in Nat
      /\ b.reboots > 0 => b.reboots - 1 \in Nat
  BY <1>1
<1> QED BY <1>2 DEF Budget

LEMMA CallFailsType ==
  ASSUME TypeOK, NEW t \in Tasks, CallFails(t)
  PROVE  /\ left' \in Budget
         /\ late' \subseteq Plan
         /\ call' \in [Tasks -> Calls]
<1>1. left' \in Budget
  <2>1. left \in Budget
    BY DEF TypeOK, Budget
  <2> QED BY <2>1, BudgetSpent DEF CallFails, Budget
<1>2. late' \subseteq Plan
  BY StatusTypes DEF CallFails, TypeOK
<1>3. call' \in [Tasks -> Calls]
  BY CallTypes DEF CallFails, CallEnded, TypeOK
<1> QED BY <1>1, <1>2, <1>3

-----------------------------------------------------------------------------
(* Type correctness.                                                       *)

LEMMA AskedIsRequest == \A w \in Writers : \A r \in Asks[w] : r \in Requests
BY CoordinatorAssumption

LEMMA InitType == Init => TypeInv
<1> SUFFICES ASSUME Init PROVE TypeInv
  OBVIOUS
<1>1. NoPlan \in Plan
  BY DefaultNormalized, PlanTypes DEF NoPlan
<1>2. memory \in [policy : Held, version : Version]
  BY CoordinatorAssumption DEF Init, Stored, Held, Version
<1>3. left \in Budget
  BY CoordinatorAssumption DEF Init
<1>4. call \in [Tasks -> Calls] /\ plan \in [Tasks -> Plan] /\ pc \in PCs
  BY <1>1, CallTypes DEF Init, PCs
<1>5. /\ request \in [Writers -> Requests \cup {NoRequest}]
      /\ queue \in Seq(Tasks) /\ version \in Version /\ desired \in Policy
  BY DefaultNormalized DEF Init, Version
<1>6. \A w \in Writers : pc[w] = "idle"
  BY DEF Init, Tasks
<1> QED BY <1>2, <1>3, <1>4, <1>5, <1>6
        DEF Init, TypeInv, TypeOK, EnsuringHasChange

LEMMA NextType == TypeInv /\ [Next]_vars => TypeInv'
<1> SUFFICES ASSUME TypeInv, [Next]_vars PROVE TypeInv'
  OBVIOUS
<1> USE DEF TypeInv
<1>w. \A w \in Writers : w \in Tasks /\ w # Poll /\ w # Reconcile
  BY CoordinatorAssumption DEF Tasks
<1>p. Poll \in Tasks /\ Reconcile \in Tasks
  BY DEF Tasks
<1>1. ASSUME NEW w \in Writers, NEW r \in Requests,
             ApplyWhole(w, r) \/ SetKnown(w, r)
      PROVE  TypeInv'
  <2>1. Submit(w, r, pc, call) /\ request' = [request EXCEPT ![w] = r]
        /\ UNCHANGED <<phase, desired, version, known, data, armed, tablet, network>>
    BY <1>1 DEF ApplyWhole, SetKnown
  <2>2. Merge(desired', r) \in Policy /\ version' \in Nat
    BY <2>1, MergeType, CoordinatorAssumption DEF TypeOK, Version
  <2>3. pc \in PCs /\ call \in [Tasks -> Calls] /\ w \in Tasks
    BY <1>w DEF TypeOK
  <2>4. /\ holder' \in Tasks \cup {Free} /\ queue' \in Seq(Tasks)
        /\ plan' \in [Tasks -> Plan] /\ pc' \in PCs /\ call' \in [Tasks -> Calls]
    BY <2>1, <2>2, <2>3, ApplyPolicyType DEF Submit
  <2>5. request' \in [Writers -> Requests \cup {NoRequest}]
    BY <2>1 DEF TypeOK
  <2>6. TypeOK'
    BY <2>1, <2>4, <2>5 DEF TypeOK, tablet, network
  <2>7. pc'[w] # "ensuring" /\ \A x \in Writers \ {w} : pc'[x] = pc[x] /\ request'[x] = request[x]
    BY <2>1, <1>w DEF Submit, ApplyPolicy, Refused, Acquire, StartPush, Enqueue, TypeOK, PCs
  <2> QED BY <2>6, <2>7 DEF EnsuringHasChange
<1>2. ASSUME NEW w \in Writers, NEW r \in Requests, SetUnknown(w, r)
      PROVE  TypeInv'
  <2>1. pc' \in PCs /\ call' \in [Tasks -> Calls]
    BY <1>2, <1>w, CallTypes DEF SetUnknown, TypeOK, PCs
  <2>2. r \in Change
    BY <1>2, CoordinatorAssumption DEF SetUnknown, Whole
  <2> QED BY <1>2, <2>1, <2>2, <1>w
          DEF SetUnknown, TypeOK, EnsuringHasChange, PCs, lock, tablet, network
<1>3. ASSUME NEW w \in Writers, EnsureAnswered(w)
      PROVE  TypeInv'
  <2> DEFINE s == call[w].status
  <2>1. s \in Status /\ request[w] \in Change /\ w \in Tasks
    BY <1>3, <1>w, StatusTypes DEF EnsureAnswered, EnsuringHasChange
  <2>2. desired' \in Policy /\ version' \in Nat /\ known' = TRUE
    BY <1>3, <2>1, AdoptType DEF EnsureAnswered
  <2>3. Merge(desired', request[w]) \in Policy
    BY <2>1, <2>2, MergeType
  <2>4. Submit(w, request[w], pc, [call EXCEPT ![w] = NoCall]) /\ data' = s
        /\ UNCHANGED <<phase, armed, request, tablet, network>>
    BY <1>3 DEF EnsureAnswered
  <2>5. [call EXCEPT ![w] = NoCall] \in [Tasks -> Calls] /\ pc \in PCs
    BY CallTypes DEF TypeOK
  <2>6. /\ holder' \in Tasks \cup {Free} /\ queue' \in Seq(Tasks)
        /\ plan' \in [Tasks -> Plan] /\ pc' \in PCs /\ call' \in [Tasks -> Calls]
    BY <2>1, <2>2, <2>3, <2>4, <2>5, ApplyPolicyType DEF Submit
  <2>7. TypeOK'
    BY <2>1, <2>2, <2>4, <2>6 DEF TypeOK, tablet, network, Version
  <2>8. pc'[w] # "ensuring" /\ \A x \in Writers \ {w} : pc'[x] = pc[x]
    BY <2>4, <1>w DEF Submit, ApplyPolicy, Refused, Acquire, StartPush, Enqueue, TypeOK, PCs
  <2> QED BY <2>4, <2>7, <2>8 DEF EnsuringHasChange
<1>4. CASE Wake
  <2> DEFINE t == Head(queue)
  <2>1. t \in Tasks /\ queue' \in Seq(Tasks)
    BY <1>4 DEF Wake, TypeOK
  <2>2. plan[t] \in Plan /\ plan[t].policy \in Policy
    BY <2>1 DEF TypeOK, Plan
  <2>3. version' \in Nat
    BY <1>4 DEF Wake, TypeOK, Version
  <2>4. /\ Put(plan[t].policy, version' + 1) \in Calls
        /\ Stored(plan[t].policy, version' + 1) \in Plan
    BY <2>2, <2>3, CallTypes, PlanTypes
  <2>5. /\ UNCHANGED <<phase, desired, version, known, data, armed, request, tablet, network>>
        /\ holder' = t
        /\ plan' = [plan EXCEPT ![t] = Stored(plan[t].policy, version' + 1)]
        /\ pc' = [pc EXCEPT ![t] = "pushing"]
        /\ call' = [call EXCEPT ![t] = Put(plan[t].policy, version' + 1)]
    BY <1>4 DEF Wake, StartPush
  <2> HIDE DEF t
  <2>6. plan' \in [Tasks -> Plan] /\ call' \in [Tasks -> Calls] /\ pc' \in PCs
    BY <2>1, <2>4, <2>5 DEF TypeOK, PCs
  <2> QED BY <2>1, <2>5, <2>6 DEF TypeOK, PCs, EnsuringHasChange, tablet, network
<1>5. ASSUME NEW t \in Tasks, PushAnswered(t)
      PROVE  TypeInv'
  <2>1. call[t].status \in Status /\ plan[t] \in Plan
    BY <1>5, StatusTypes DEF PushAnswered, TypeOK
  <2>2. desired' \in Policy /\ version' \in Nat /\ data' \in Status
    BY <1>5, <2>1 DEF PushAnswered, Plan, Status, Version, Max2
  <2>3. pc' \in PCs /\ call' \in [Tasks -> Calls]
    BY <1>5, CallTypes DEF PushAnswered, Ended, TypeOK, PCs
  <2> QED BY <1>5, <2>2, <2>3
          DEF PushAnswered, Ended, TypeOK, PCs, EnsuringHasChange, tablet, network, Version
<1>6. CASE PollStarts
  <2>1. pc' \in PCs /\ call' \in [Tasks -> Calls]
    BY <1>6, <1>p, CallTypes DEF PollStarts, TypeOK, PCs
  <2> QED BY <1>6, <2>1, <1>w
          DEF PollStarts, TypeOK, PCs, EnsuringHasChange, lock, tablet, network
<1>e. PollEnded \in PCs /\ CallEnded(Poll) \in [Tasks -> Calls]
  BY <1>p, CallTypes DEF PollEnded, CallEnded, TypeOK, PCs
<1>7. CASE SetupAnswered
  <2>1. call[Poll].status \in Status
    BY <1>7, <1>p, StatusTypes DEF SetupAnswered
  <2>2. desired' \in Policy /\ version' \in Nat /\ known' = TRUE
    BY <1>7, <2>1, AdoptType DEF SetupAnswered
  <2>3. pc' = PollEnded /\ call' = CallEnded(Poll) /\ phase' = "refresh"
        /\ UNCHANGED <<data, armed, lock, request, tablet, network>>
    BY <1>7 DEF SetupAnswered
  <2>4. TypeOK'
    BY <1>e, <2>2, <2>3 DEF TypeOK, Version, lock, tablet, network
  <2> QED BY <2>3, <2>4, <1>w DEF PollEnded, EnsuringHasChange, TypeOK, PCs
<1>o. ASSUME NEW s \in Status, NEW v \in Nat, NEW pc0 \in PCs,
             NEW call0 \in [Tasks -> Calls], OnStatus(s, v, pc0, call0)
      PROVE  \A w \in Writers : pc'[w] = pc0[w]
  BY <1>o, <1>w DEF OnStatus, ReconcileIfDrifted, ApplyPolicy, Refused, Acquire, StartPush,
                    Enqueue, PCs
<1>8. CASE PollAnswered
  <2> DEFINE s == call[Poll].status
  <2>1. s \in Status /\ version \in Nat
    BY <1>8, <1>p, StatusTypes DEF PollAnswered, TypeOK, Version
  <2>2. OnStatus(s, version, PollEnded, CallEnded(Poll)) /\ data' = s /\ phase' = "running"
        /\ UNCHANGED <<request, tablet, network>>
    BY <1>8 DEF PollAnswered
  <2> HIDE DEF s
  <2>3. TypeOK'
    BY <2>1, <2>2, <1>e, OnStatusType DEF TypeOK, Version, tablet, network
  <2>4. \A w \in Writers : pc'[w] = pc[w]
    <3>1. \A w \in Writers : pc'[w] = PollEnded[w]
      BY <2>1, <2>2, <1>e, <1>o
    <3> QED BY <3>1, <1>w DEF PollEnded, TypeOK, PCs
  <2> QED BY <2>2, <2>3, <2>4 DEF EnsuringHasChange
<1>9. CASE WebhookReceived
  <2>1. CASE phase # "running"
    BY <1>9, <2>1 DEF WebhookReceived, TypeOK, EnsuringHasChange, lock, tablet
  <2>2. CASE phase = "running"
    <3>1. report \in Status /\ Max2(version, report.version) \in Nat
      BY <1>9 DEF WebhookReceived, TypeOK, Status, Version, Max2
    <3>2. OnStatus(report, Max2(version, report.version), pc, call) /\ data' = report
          /\ report' = NoReport /\ UNCHANGED <<phase, request, tablet, late, left>>
      BY <1>9, <2>2 DEF WebhookReceived
    <3>3. pc \in PCs /\ call \in [Tasks -> Calls]
      BY DEF TypeOK
    <3>4. TypeOK'
      BY <3>1, <3>2, <3>3, OnStatusType DEF TypeOK, Version, tablet
    <3>5. \A w \in Writers : pc'[w] = pc[w]
      BY <3>1, <3>2, <3>3, <1>o
    <3> QED BY <3>2, <3>4, <3>5 DEF EnsuringHasChange
  <2> QED BY <2>1, <2>2
<1>10. CASE IntervalElapsed
  BY <1>10 DEF IntervalElapsed, TypeOK, EnsuringHasChange, lock, tablet, network
<1>11. ASSUME NEW t \in Tasks, TabletServes(t)
       PROVE  TypeInv'
  <2>1. CASE TabletStores(t)
    <3>1. memory' \in [policy : Held, version : Version] /\ call' \in [Tasks -> Calls]
      BY <2>1, CallTypes DEF TabletStores, TypeOK, Stored, Held, Version
    <3> QED BY <2>1, <3>1 DEF TabletStores, TypeOK, EnsuringHasChange, lock, network
  <2>2. CASE TabletAnswers(t)
    <3>1. call' \in [Tasks -> Calls]
      BY <2>2, CallTypes, StatusTypes DEF TabletAnswers, TypeOK
    <3> QED BY <2>2, <3>1 DEF TabletAnswers, TypeOK, EnsuringHasChange, lock, tablet, network
  <2> QED BY <1>11, <2>1, <2>2 DEF TabletServes
<1>12. CASE TabletReports
  BY <1>12, StatusTypes DEF TabletReports, TypeOK, EnsuringHasChange, lock, tablet
<1>13. CASE TabletFlushes
  BY <1>13 DEF TabletFlushes, TypeOK, EnsuringHasChange, lock, network
<1>14. CASE PollFails
  <2>1. /\ CallFails(Poll) /\ pc' = PollEnded
        /\ phase' = IF phase = "setup" THEN "refresh" ELSE "running"
        /\ data' = IF phase = "setup" THEN data ELSE Unreachable
        /\ UNCHANGED holder
    BY <1>14 DEF PollFails
  <2>2. UNCHANGED <<desired, version, known, armed, queue, plan, request, tablet, report>>
    BY <2>1 DEF CallFails
  <2>3. TypeOK'
    BY <2>1, <2>2, <1>e, <1>p, CallFailsType, StatusTypes DEF TypeOK, tablet
  <2> QED BY <2>1, <2>2, <2>3, <1>w DEF PollEnded, EnsuringHasChange, TypeOK, PCs
<1>15. ASSUME NEW t \in Tasks,
              PushFails(t) \/ (t \in Writers /\ EnsureFails(t))
       PROVE  TypeInv'
  <2>1. CallFails(t) /\ pc' = Ended(t, "error") /\ holder' \in {holder, Free}
        /\ UNCHANGED <<phase, data>>
    BY <1>15 DEF PushFails, EnsureFails
  <2>2. UNCHANGED <<desired, version, known, armed, queue, plan, request, tablet, report>>
    BY <2>1 DEF CallFails
  <2>3. pc' \in PCs
    BY <2>1 DEF Ended, TypeOK, PCs
  <2>4. TypeOK'
    BY <2>1, <2>2, <2>3, CallFailsType DEF TypeOK, tablet
  <2> QED BY <2>1, <2>2, <2>4 DEF Ended, EnsuringHasChange, TypeOK, PCs
<1>16. CASE ReportLost
  BY <1>16 DEF ReportLost, TypeOK, EnsuringHasChange, lock, tablet
<1>17. CASE TabletServesLate
  <2>1. memory' \in [policy : Held, version : Version] /\ late' \subseteq Plan
    BY <1>17 DEF TabletServesLate, TypeOK, Plan, Held
  <2> QED BY <1>17, <2>1 DEF TabletServesLate, TypeOK, EnsuringHasChange, lock
<1>18. CASE TabletRestarts
  <2>1. left' \in Budget
    <3>1. left \in Budget
      BY DEF TypeOK
    <3> QED BY <1>18, <3>1, BudgetSpent DEF TabletRestarts
  <2> QED BY <1>18, <2>1 DEF TabletRestarts, TypeOK, EnsuringHasChange, lock
<1>19. CASE HomeAssistantRestarts
  <2>1. left' \in Budget
    <3>1. left \in Budget
      BY DEF TypeOK, Budget
    <3> QED BY <1>19, <3>1, BudgetSpent DEF HomeAssistantRestarts
  <2>2. late' \subseteq Plan
    BY <1>19, StatusTypes DEF HomeAssistantRestarts, TypeOK
  <2>3. plan' \in [Tasks -> Plan]
    BY <1>19, DefaultNormalized, PlanTypes DEF HomeAssistantRestarts, NoPlan
  <2>4. pc' \in PCs /\ call' \in [Tasks -> Calls]
    BY <1>19, CallTypes DEF HomeAssistantRestarts, PCs
  <2>5. /\ phase' = "setup" /\ desired' = DefaultPolicy /\ version' = 0
        /\ known' = FALSE /\ data' = NoData /\ armed' = TRUE
        /\ holder' = Free /\ queue' = <<>>
        /\ UNCHANGED <<request, report, tablet>>
    BY <1>19 DEF HomeAssistantRestarts
  <2>6. \A w \in Writers : pc'[w] # "ensuring"
    BY <1>19, <1>w DEF HomeAssistantRestarts
  <2>7. TypeOK'
    <3>0. version' \in Version
      BY <2>5 DEF Version
    <3>1. data' \in Status \cup {NoData} /\ known' \in BOOLEAN /\ armed' \in BOOLEAN
          /\ desired' \in Policy
      BY <2>5, DefaultNormalized
    <3>q. queue' \in Seq(Tasks)
      BY <2>5
    <3>2. /\ request' \in [Writers -> Requests \cup {NoRequest}]
          /\ report' \in Status \cup {NoReport}
          /\ memory' \in [policy : Held, version : Version]
          /\ disk' \in [policy : Held, version : Version]
      BY <2>5 DEF TypeOK, tablet
    <3> QED BY <2>1, <2>2, <2>3, <2>4, <2>5, <3>0, <3>1, <3>2, <3>q DEF TypeOK, Budget
  <2> QED BY <2>6, <2>7 DEF EnsuringHasChange
<1>20. CASE UNCHANGED vars
  BY <1>20 DEF vars, TypeOK, EnsuringHasChange
<1> QED
  BY <1>1, <1>2, <1>3, <1>4, <1>5, <1>6, <1>7, <1>8, <1>9, <1>10, <1>11, <1>12, <1>13,
     <1>14, <1>15, <1>16, <1>17, <1>18, <1>19, <1>20, <1>w, AskedIsRequest
  DEF Next, Operator, CoordinatorStep, TabletStep, Fault

\* Every variable keeps its declared shape.
THEOREM TypeCorrect == Spec => []TypeOK
<1>1. TypeInv => TypeOK
  BY DEF TypeInv
<1> QED BY <1>1, InitType, NextType, PTL DEF Spec

-----------------------------------------------------------------------------
(* The push lock.                                                          *)

In(x, q)     == \E i \in 1..Len(q) : q[i] = x
NoRepeats(q) == \A i, j \in 1..Len(q) : q[i] = q[j] => i = j

LEMMA AppendInQueue ==
  ASSUME NEW S, NEW q \in Seq(S), NEW t \in S, NoRepeats(q), ~In(t, q)
  PROVE  /\ NoRepeats(Append(q, t))
         /\ \A x : In(x, Append(q, t)) <=> x = t \/ In(x, q)
<1>1. /\ Len(Append(q, t)) = Len(q) + 1 /\ Len(q) \in Nat
      /\ \A i \in 1..Len(q) : Append(q, t)[i] = q[i]
      /\ Append(q, t)[Len(q) + 1] = t
  OBVIOUS
<1> DEFINE r == Append(q, t)
<1> HIDE DEF r
<1>2. NoRepeats(r)
  <2> SUFFICES ASSUME NEW i \in 1..Len(r), NEW j \in 1..Len(r), r[i] = r[j]
               PROVE  i = j
    BY DEF NoRepeats
  <2> QED BY <1>1 DEF r, NoRepeats, In
<1>3. ASSUME NEW x PROVE In(x, r) <=> x = t \/ In(x, q)
  <2>1. In(x, r) => x = t \/ In(x, q)
    BY <1>1 DEF r, In
  <2>2. x = t => In(x, r)
    BY <1>1 DEF r, In
  <2>3. In(x, q) => In(x, r)
    BY <1>1 DEF r, In
  <2> QED BY <2>1, <2>2, <2>3
<1> QED BY <1>2, <1>3 DEF r

LEMMA TailOfQueue ==
  ASSUME NEW S, NEW q \in Seq(S), q # <<>>, NoRepeats(q)
  PROVE  /\ NoRepeats(Tail(q))
         /\ \A x : In(x, Tail(q)) <=> x # Head(q) /\ In(x, q)
         /\ In(Head(q), q)
<1>1. /\ Len(Tail(q)) = Len(q) - 1 /\ Len(q) \in Nat \ {0} /\ Head(q) = q[1]
      /\ \A i \in 1..Len(Tail(q)) : Tail(q)[i] = q[i + 1]
  OBVIOUS
<1> DEFINE r == Tail(q)
<1> HIDE DEF r
<1>2. NoRepeats(r)
  <2> SUFFICES ASSUME NEW i \in 1..Len(r), NEW j \in 1..Len(r), r[i] = r[j]
               PROVE  i = j
    BY DEF NoRepeats
  <2> QED BY <1>1 DEF r, NoRepeats
<1>3. ASSUME NEW x PROVE In(x, r) <=> x # Head(q) /\ In(x, q)
  <2>1. ASSUME In(x, r) PROVE x # Head(q) /\ In(x, q)
    <3>1. PICK i \in 1..Len(r) : r[i] = x
      BY <2>1 DEF In
    <3>2. i + 1 \in 1..Len(q) /\ q[i + 1] = x /\ i + 1 # 1 /\ 1 \in 1..Len(q)
      BY <1>1, <3>1 DEF r
    <3> QED BY <1>1, <3>2 DEF In, NoRepeats
  <2>2. ASSUME x # Head(q), In(x, q) PROVE In(x, r)
    <3>1. PICK i \in 1..Len(q) : q[i] = x
      BY <2>2 DEF In
    <3>2. i # 1 /\ i - 1 \in 1..Len(r) /\ r[i - 1] = x
      BY <1>1, <2>2, <3>1 DEF r
    <3> QED BY <3>2 DEF In
  <2> QED BY <2>1, <2>2
<1>4. In(Head(q), q)
  BY <1>1 DEF In
<1> QED BY <1>2, <1>3, <1>4 DEF r

\* PushesSerialised in terms of the queue's operators, and what keeps it true:
\* a re-push is launched only when none is queued or running.
LockInv ==
  /\ \A t \in Tasks : pc[t] = "pushing" <=> holder = t
  /\ \A t \in Tasks : pc[t] = "waiting" <=> In(t, queue)
  /\ NoRepeats(queue)
  /\ armed => pc[Reconcile] \notin {"waiting", "pushing"}
  /\ pc[Poll] \notin {"waiting", "pushing"}

\* pc0 says of the lock what pc says.
SameLock(pc0) ==
  \A x \in Tasks : /\ pc0[x] = "pushing" <=> pc[x] = "pushing"
                   /\ pc0[x] = "waiting" <=> pc[x] = "waiting"

LEMMA ApplyPolicyLock ==
  ASSUME TypeOK, LockInv, NEW t \in Tasks, NEW p,
         NEW pc0 \in PCs, SameLock(pc0), NEW call0,
         pc[t] \notin {"waiting", "pushing"},
         ApplyPolicy(t, p, pc0, call0)
  PROVE  /\ \A x \in Tasks : pc'[x] = "pushing" <=> holder' = x
         /\ \A x \in Tasks : pc'[x] = "waiting" <=> In(x, queue')
         /\ NoRepeats(queue')
         /\ \A x \in Tasks \ {t} : pc'[x] = pc0[x]
<1>f. Free \notin Tasks
  BY CoordinatorAssumption DEF Tasks, Poll, Reconcile, Free
<1>1. CASE Refused(t, pc0, call0)
  <2>1. pc' = [pc0 EXCEPT ![t] = "error"] /\ holder' = holder /\ queue' = queue
    BY <1>1 DEF Refused, lock
  <2> QED BY <2>1 DEF LockInv, SameLock, PCs
<1>2. ASSUME Acquire(t, Normalize(p), pc0, call0)
      PROVE  /\ \A x \in Tasks : pc'[x] = "pushing" <=> holder' = x
             /\ \A x \in Tasks : pc'[x] = "waiting" <=> In(x, queue')
             /\ NoRepeats(queue')
             /\ \A x \in Tasks \ {t} : pc'[x] = pc0[x]
  <2>1. holder = Free /\ holder' = t /\ pc' = [pc0 EXCEPT ![t] = "pushing"] /\ queue' = queue
    BY <1>2 DEF Acquire, StartPush, Locked
  <2> QED BY <1>f, <2>1 DEF LockInv, SameLock, PCs
<1>3. CASE Enqueue(t, Normalize(p), pc0, call0)
  <2>1. queue' = Append(queue, t) /\ pc' = [pc0 EXCEPT ![t] = "waiting"] /\ holder' = holder
    BY <1>3 DEF Enqueue
  <2>2. queue \in Seq(Tasks) /\ ~In(t, queue) /\ NoRepeats(queue)
    BY DEF TypeOK, LockInv
  <2>3. NoRepeats(queue') /\ \A x : In(x, queue') <=> x = t \/ In(x, queue)
    BY <2>1, <2>2, AppendInQueue
  <2> QED BY <2>1, <2>3 DEF LockInv, SameLock, PCs
<1> QED BY <1>1, <1>2, <1>3 DEF ApplyPolicy

LEMMA OnStatusLock ==
  ASSUME TypeOK, LockInv, NEW s, NEW v, NEW pc0 \in PCs, SameLock(pc0), NEW call0,
         pc0[Poll] \notin {"waiting", "pushing"},
         OnStatus(s, v, pc0, call0)
  PROVE  LockInv'
<1>t. Reconcile \in Tasks /\ Poll \in Tasks /\ Poll # Reconcile
  BY DEF Tasks, Poll, Reconcile
<1>1. CASE Drifted(s) /\ armed' = FALSE /\ ApplyPolicy(Reconcile, desired', pc0, call0)
  <2>1. pc[Reconcile] \notin {"waiting", "pushing"}
    BY <1>1 DEF Drifted, LockInv
  <2>2. /\ \A x \in Tasks : pc'[x] = "pushing" <=> holder' = x
        /\ \A x \in Tasks : pc'[x] = "waiting" <=> In(x, queue')
        /\ NoRepeats(queue')
        /\ pc'[Poll] = pc0[Poll]
    BY <1>1, <1>t, <2>1, ApplyPolicyLock
  <2> QED BY <1>1, <2>2 DEF LockInv
<1>2. CASE /\ pc' = pc0 /\ call' = call0
           /\ UNCHANGED <<armed, lock>>
  BY <1>2, <1>t DEF LockInv, SameLock, lock
<1> QED BY <1>1, <1>2 DEF OnStatus, ReconcileIfDrifted

LEMMA InitLock == Init => LockInv
BY CoordinatorAssumption DEF Init, LockInv, In, NoRepeats, Tasks, Poll, Reconcile, Free

LEMMA NextLock == TypeInv /\ LockInv /\ [Next]_vars => LockInv'
<1> SUFFICES ASSUME TypeInv, LockInv, [Next]_vars PROVE LockInv'
  OBVIOUS
<1>w. \A w \in Writers : w \in Tasks /\ w # Poll /\ w # Reconcile
  BY CoordinatorAssumption DEF Tasks
<1>p. Poll \in Tasks /\ Reconcile \in Tasks /\ Poll # Reconcile
  BY DEF Tasks, Poll, Reconcile
<1>f. Free \notin Tasks
  BY CoordinatorAssumption DEF Tasks, Poll, Reconcile, Free
<1>i. TypeOK /\ pc \in PCs /\ SameLock(pc)
  BY DEF TypeInv, TypeOK, SameLock
\* An operator's call reaches async_apply_policy.
<1>s. ASSUME NEW w \in Writers, NEW r, NEW call0,
             pc[w] \in {"idle", "ensuring"}, Submit(w, r, pc, call0), armed' = armed
      PROVE  LockInv'
  <2>1. /\ \A x \in Tasks : pc'[x] = "pushing" <=> holder' = x
        /\ \A x \in Tasks : pc'[x] = "waiting" <=> In(x, queue')
        /\ NoRepeats(queue')
        /\ pc'[Poll] = pc[Poll] /\ pc'[Reconcile] = pc[Reconcile]
    BY <1>s, <1>w, <1>p, <1>i, ApplyPolicyLock DEF Submit
  <2> QED BY <1>s, <2>1 DEF LockInv
<1>1. ASSUME NEW w \in Writers, NEW r \in Requests, ApplyWhole(w, r) \/ SetKnown(w, r)
      PROVE  LockInv'
  BY <1>1, <1>s DEF ApplyWhole, SetKnown
<1>2. ASSUME NEW w \in Writers, NEW r \in Requests, SetUnknown(w, r)
      PROVE  LockInv'
  BY <1>2, <1>w, <1>i DEF SetUnknown, LockInv, PCs, lock
<1>3. ASSUME NEW w \in Writers, EnsureAnswered(w)
      PROVE  LockInv'
  BY <1>3, <1>s DEF EnsureAnswered
<1>4. CASE Wake
  <2> DEFINE t == Head(queue)
  <2>1. /\ holder = Free /\ queue # <<>> /\ queue' = Tail(queue) /\ armed' = armed
        /\ holder' = t /\ pc' = [pc EXCEPT ![t] = "pushing"]
    BY <1>4 DEF Wake, StartPush, Locked
  <2>2. queue \in Seq(Tasks) /\ NoRepeats(queue)
    BY <1>i DEF TypeOK, LockInv
  <2>3. /\ NoRepeats(queue') /\ In(t, queue)
        /\ \A x : In(x, queue') <=> x # t /\ In(x, queue)
    BY <2>1, <2>2, TailOfQueue
  <2>4. t \in Tasks
    BY <2>1, <2>2
  <2>5. pc[t] = "waiting"
    BY <2>3, <2>4 DEF LockInv
  <2> HIDE DEF t
  <2> QED BY <1>f, <1>i, <1>p, <2>1, <2>3, <2>4, <2>5 DEF LockInv, PCs
<1>5. ASSUME NEW t \in Tasks, PushAnswered(t) \/ PushFails(t)
      PROVE  LockInv'
  <2>1. /\ pc[t] = "pushing" /\ holder' = Free /\ UNCHANGED <<armed, queue>>
        /\ pc' = Ended(t, "done") \/ pc' = Ended(t, "error")
    BY <1>5 DEF PushAnswered, PushFails, CallFails
  <2>2. holder = t
    BY <2>1 DEF LockInv
  <2> QED BY <1>f, <1>i, <1>p, <2>1, <2>2 DEF LockInv, Ended, PCs
<1>6. CASE PollStarts
  BY <1>6, <1>i, <1>p DEF PollStarts, LockInv, PCs, lock
<1>e. PollEnded \in PCs /\ SameLock(PollEnded) /\ PollEnded[Poll] = "idle"
      /\ PollEnded[Reconcile] = pc[Reconcile]
  BY <1>i, <1>p DEF PollEnded, PCs, SameLock, LockInv
<1>7. CASE SetupAnswered
  <2>1. pc' = PollEnded /\ UNCHANGED <<armed, lock>>
    BY <1>7 DEF SetupAnswered
  <2> QED BY <1>e, <2>1 DEF LockInv, SameLock, lock
<1>8. CASE PollAnswered
  BY <1>8, <1>e, <1>i, OnStatusLock DEF PollAnswered
<1>9. CASE WebhookReceived
  BY <1>9, <1>i, OnStatusLock DEF WebhookReceived, LockInv, lock
<1>10. CASE IntervalElapsed
  BY <1>10 DEF IntervalElapsed, LockInv, lock
<1>11. ASSUME NEW t \in Tasks, TabletServes(t)
       PROVE  LockInv'
  BY <1>11 DEF TabletServes, TabletStores, TabletAnswers, LockInv, lock
<1>12. CASE TabletReports \/ TabletFlushes \/ ReportLost \/ TabletServesLate \/ TabletRestarts
  BY <1>12 DEF TabletReports, TabletFlushes, ReportLost, TabletServesLate, TabletRestarts,
               LockInv, lock
<1>13. CASE PollFails
  <2>1. pc' = PollEnded /\ UNCHANGED <<armed, holder, queue>>
    BY <1>13 DEF PollFails, CallFails
  <2> QED BY <1>e, <2>1 DEF LockInv, SameLock
<1>14. ASSUME NEW w \in Writers, EnsureFails(w)
       PROVE  LockInv'
  <2>1. pc[w] = "ensuring" /\ pc' = [pc EXCEPT ![w] = "error"] /\ UNCHANGED <<armed, holder, queue>>
    BY <1>14, <1>w DEF EnsureFails, CallFails, Ended
  <2> QED BY <1>w, <1>i, <2>1 DEF LockInv, PCs
<1>15. CASE HomeAssistantRestarts
  <2>1. /\ holder' = Free /\ queue' = <<>>
        /\ \A t \in Tasks : pc'[t] \in {"gone", "idle"}
    BY <1>15 DEF HomeAssistantRestarts
  <2>2. \A x : ~In(x, queue')
    BY <2>1 DEF In
  <2>3. NoRepeats(queue')
    BY <2>1 DEF NoRepeats
  <2> QED BY <1>f, <1>p, <2>1, <2>2, <2>3 DEF LockInv
<1>16. CASE UNCHANGED vars
  BY <1>16 DEF vars, LockInv
<1> QED
  BY <1>1, <1>2, <1>3, <1>4, <1>5, <1>6, <1>7, <1>8, <1>9, <1>10, <1>11, <1>12, <1>13,
     <1>14, <1>15, <1>16, AskedIsRequest
  DEF Next, Operator, CoordinatorStep, TabletStep, Fault

\* One push at a time; whoever waits is in the queue, once.
THEOREM Serialised == Spec => []PushesSerialised
<1>1. Init => TypeInv /\ LockInv
  BY InitType, InitLock
<1>2. TypeInv /\ LockInv /\ [Next]_vars => (TypeInv /\ LockInv)'
  BY NextType, NextLock
<1>3. TypeInv /\ LockInv => PushesSerialised
  BY DEF LockInv, PushesSerialised, In, NoRepeats
<1> QED BY <1>1, <1>2, <1>3, PTL DEF Spec

-----------------------------------------------------------------------------
(* Where policies come from.  G is a set of normal forms that the          *)
(* operators' requests do not lead out of, H what the tablet may hold: G,  *)
(* or G and the foreign policy, which Home Assistant adopts as the default.*)

Closed(G, H) ==
  /\ \A p \in G : Normalized(p)
  /\ \A p \in G, r \in Requests : Acceptable(Merge(p, r)) => Normalize(Merge(p, r)) \in G
  /\ \A r \in Requests : r.kind = "whole" /\ Acceptable(r.value) => Normalize(r.value) \in G
  /\ G \subseteq H /\ H \subseteq G \cup {Foreign}
  /\ Foreign \in H => DefaultPolicy \in G

\* What tasks and calls carry.
Carried(pc0, call0, G, H) ==
  /\ \A t \in Tasks : pc0[t] \in {"waiting", "pushing"} => plan[t].policy \in G
  /\ \A t \in Tasks : call0[t].kind = "put" => call0[t].policy \in G
  /\ \A t \in Tasks : call0[t].kind = "answer" => call0[t].status.policy \in H
  /\ pc0[Reconcile] # "error"

Within(G, H) ==
  /\ known => desired \in G
  /\ desired \in G \cup {DefaultPolicy}
  /\ Carried(pc, call, G, H)
  /\ \A m \in late : m.policy \in G
  /\ report # NoReport => report.policy \in H
  /\ memory.policy \in H /\ disk.policy \in H

\* An operator waiting for the tablet's policy asked for what it may ask for.
EnsuringAsked == \A w \in Writers : pc[w] = "ensuring" => request[w] \in Requests

LEMMA EnsuringHasRequest == TypeInv => EnsuringAsked
BY DEF TypeInv, TypeOK, EnsuringHasChange, EnsuringAsked, Change, NoRequest

LEMMA ApplyPolicyWithin ==
  ASSUME TypeOK, NEW G \in SUBSET Policy, NEW H,
         NEW t \in Tasks, NEW p \in Policy, Acceptable(p) => Normalize(p) \in G,
         NEW pc0 \in PCs, NEW call0 \in [Tasks -> Calls], Carried(pc0, call0, G, H),
         t = Reconcile => Acceptable(p),
         ApplyPolicy(t, p, pc0, call0)
  PROVE  Carried(pc, call, G, H)'
<1>1. CASE Refused(t, pc0, call0) /\ ~Acceptable(p)
  <2>1. pc' = [pc0 EXCEPT ![t] = "error"] /\ call' = call0 /\ plan' = plan /\ t # Reconcile
    BY <1>1 DEF Refused, lock
  <2> QED BY <2>1 DEF Carried, PCs
<1>2. CASE Acquire(t, Normalize(p), pc0, call0) /\ Acceptable(p)
  <2>1. /\ plan' = [plan EXCEPT ![t] = Stored(Normalize(p), version' + 1)]
        /\ pc' = [pc0 EXCEPT ![t] = "pushing"]
        /\ call' = [call0 EXCEPT ![t] = Put(Normalize(p), version' + 1)]
    BY <1>2 DEF Acquire, StartPush
  <2>2. /\ Stored(Normalize(p), version' + 1).policy = Normalize(p)
        /\ Put(Normalize(p), version' + 1).policy = Normalize(p)
        /\ Put(Normalize(p), version' + 1).kind = "put"
    BY DEF Stored, Put
  <2>3. Normalize(p) \in G
    BY <1>2
  <2> QED BY <2>1, <2>2, <2>3 DEF Carried, PCs, TypeOK
<1>3. CASE Enqueue(t, Normalize(p), pc0, call0) /\ Acceptable(p)
  <2>1. /\ plan' = [plan EXCEPT ![t] = Stored(Normalize(p), 0)]
        /\ pc' = [pc0 EXCEPT ![t] = "waiting"] /\ call' = call0
    BY <1>3 DEF Enqueue
  <2>2. Stored(Normalize(p), 0).policy = Normalize(p) /\ Normalize(p) \in G
    BY <1>3 DEF Stored
  <2> QED BY <2>1, <2>2 DEF Carried, PCs, TypeOK
<1> QED BY <1>1, <1>2, <1>3 DEF ApplyPolicy

LEMMA AdoptWithin ==
  ASSUME NEW G \in SUBSET Policy, NEW H, Closed(G, H), NEW s, s.policy \in H, Adopt(s)
  PROVE  desired' \in G
<1>1. CASE s.policy \in G
  BY <1>1, NormalizedAcceptable, CoordinatorAssumption DEF Closed, Adopt, Ownable
<1>2. CASE s.policy = Foreign
  BY <1>2 DEF Closed, Adopt, Ownable
<1> QED BY <1>1, <1>2 DEF Closed

LEMMA OnStatusWithin ==
  ASSUME TypeOK, NEW G \in SUBSET Policy, NEW H, Closed(G, H), Within(G, H),
         NEW s \in Status, s.policy \in H, NEW v \in Nat,
         NEW pc0 \in PCs, NEW call0 \in [Tasks -> Calls], Carried(pc0, call0, G, H),
         OnStatus(s, v, pc0, call0)
  PROVE  /\ known' => desired' \in G
         /\ desired' \in G \cup {DefaultPolicy}
         /\ Carried(pc, call, G, H)'
<1>1. (known' => desired' \in G) /\ desired' \in G \cup {DefaultPolicy}
  <2>1. CASE Adopt(s)
    BY <2>1, AdoptWithin
  <2>2. CASE UNCHANGED <<desired, known>>
    BY <2>2 DEF Within
  <2> QED BY <2>1, <2>2 DEF OnStatus
<1>2. version' \in Nat
  BY OnStatusType
<1>3. Reconcile \in Tasks
  BY DEF Tasks
<1>4. CASE Drifted(s) /\ ApplyPolicy(Reconcile, desired', pc0, call0)
  <2>1. desired' \in G
    BY <1>1, <1>4 DEF Drifted
  <2>2. Acceptable(desired') /\ Normalize(desired') \in G /\ desired' \in Policy
    BY <2>1, NormalizedAcceptable DEF Closed
  <2> QED BY <1>1, <1>3, <1>4, <2>2, ApplyPolicyWithin
<1>5. CASE pc' = pc0 /\ call' = call0 /\ UNCHANGED lock
  BY <1>1, <1>5 DEF Carried, lock
<1> QED BY <1>1, <1>4, <1>5 DEF OnStatus, ReconcileIfDrifted

LEMMA NextWithin ==
  ASSUME NEW G \in SUBSET Policy, NEW H, Closed(G, H),
         TypeInv, LockInv, Within(G, H), [Next]_vars
  PROVE  Within(G, H)'
<1>w. \A w \in Writers : w \in Tasks /\ w # Poll /\ w # Reconcile
  BY CoordinatorAssumption DEF Tasks
<1>p. Poll \in Tasks /\ Reconcile \in Tasks /\ Poll # Reconcile
  BY DEF Tasks, Poll, Reconcile
<1>i. TypeOK /\ pc \in PCs /\ call \in [Tasks -> Calls] /\ plan \in [Tasks -> Plan]
  BY DEF TypeInv, TypeOK
<1>c. Carried(pc, call, G, H)
  BY DEF Within
\* A call that ends, and the task with it or going on.
<1>n. ASSUME NEW t \in Tasks
      PROVE  /\ [call EXCEPT ![t] = NoCall] \in [Tasks -> Calls]
             /\ CallEnded(t) = [call EXCEPT ![t] = NoCall]
             /\ \A x \in Tasks : CallEnded(t)[x] \in {call[x], NoCall}
             /\ NoCall.kind = "none"
  BY <1>i, CallTypes DEF CallEnded, NoCall
<1>g. Get.kind = "get"
  BY DEF Get
<1>1. ASSUME NEW w \in Writers, NEW r \in Requests, ApplyWhole(w, r) \/ SetKnown(w, r)
      PROVE  Within(G, H)'
  <2>1. /\ UNCHANGED <<phase, desired, version, known, data, armed, tablet, network>>
        /\ ApplyPolicy(w, Merge(desired, r), pc, call)
        /\ r.kind = "whole" \/ known
    BY <1>1 DEF ApplyWhole, SetKnown, Submit
  <2>2. Merge(desired, r) \in Policy /\ version' \in Nat
    BY <1>i, <2>1, MergeType, CoordinatorAssumption DEF TypeOK, Version
  <2>3. Acceptable(Merge(desired, r)) => Normalize(Merge(desired, r)) \in G
    <3>1. CASE known
      BY <3>1 DEF Within, Closed
    <3>2. CASE r.kind = "whole"
      BY <3>2 DEF Merge, Closed
    <3> QED BY <2>1, <3>1, <3>2
  <2>4. Carried(pc, call, G, H)'
    BY <1>c, <1>i, <1>w, <2>1, <2>2, <2>3, ApplyPolicyWithin
  <2> QED BY <2>1, <2>4 DEF Within, tablet, network
<1>2. ASSUME NEW w \in Writers, NEW r \in Requests, SetUnknown(w, r)
      PROVE  Within(G, H)'
  <2>1. /\ pc' = [pc EXCEPT ![w] = "ensuring"] /\ call' = [call EXCEPT ![w] = Get]
        /\ UNCHANGED <<phase, desired, version, known, data, armed, lock, tablet, network>>
    BY <1>2 DEF SetUnknown
  <2>2. Carried(pc, call, G, H)'
    BY <1>c, <1>g, <1>i, <1>w, <2>1 DEF Carried, PCs, lock
  <2> QED BY <2>1, <2>2 DEF Within, tablet, network
<1>3. ASSUME NEW w \in Writers, EnsureAnswered(w)
      PROVE  Within(G, H)'
  <2> DEFINE call0 == [call EXCEPT ![w] = NoCall]
  <2>1. /\ Adopt(call[w].status) /\ call[w].status.policy \in H /\ call[w].status \in Status
        /\ request[w] \in Requests
        /\ UNCHANGED <<phase, armed, request, tablet, network>>
        /\ ApplyPolicy(w, Merge(desired', request[w]), pc, call0)
    BY <1>3, <1>c, <1>i, <1>w, EnsuringHasRequest, StatusTypes
    DEF EnsureAnswered, Submit, Carried, EnsuringAsked
  <2>2. desired' \in G /\ version' \in Nat
    BY <1>i, <2>1, AdoptWithin, AdoptType
  <2>3. /\ Merge(desired', request[w]) \in Policy
        /\ Acceptable(Merge(desired', request[w])) => Normalize(Merge(desired', request[w])) \in G
    BY <2>1, <2>2, MergeType, CoordinatorAssumption DEF Closed
  <2>4. Carried(pc, call0, G, H) /\ call0 \in [Tasks -> Calls]
    BY <1>c, <1>i, <1>n, <1>w DEF Carried
  <2> HIDE DEF call0
  <2>5. Carried(pc, call, G, H)'
    BY <1>i, <1>w, <2>1, <2>2, <2>3, <2>4, ApplyPolicyWithin
  <2> QED BY <2>1, <2>2, <2>5 DEF Within, tablet, network
<1>4. CASE Wake
  <2> DEFINE t == Head(queue)
  <2>1. /\ UNCHANGED <<phase, desired, version, known, data, armed, request, tablet, network>>
        /\ plan' = [plan EXCEPT ![t] = Stored(plan[t].policy, version' + 1)]
        /\ pc' = [pc EXCEPT ![t] = "pushing"]
        /\ call' = [call EXCEPT ![t] = Put(plan[t].policy, version' + 1)]
    BY <1>4 DEF Wake, StartPush
  <2>2. t \in Tasks /\ pc[t] = "waiting"
    <3>1. queue \in Seq(Tasks) /\ queue # <<>> /\ NoRepeats(queue)
      BY <1>4, <1>i DEF Wake, TypeOK, LockInv
    <3>2. t \in Tasks
      BY <3>1
    <3> QED BY <3>1, <3>2, TailOfQueue DEF LockInv
  <2>3. plan[t].policy \in G
    BY <1>c, <2>2 DEF Carried
  <2>4. /\ Stored(plan[t].policy, version' + 1).policy = plan[t].policy
        /\ Put(plan[t].policy, version' + 1).policy = plan[t].policy
        /\ Put(plan[t].policy, version' + 1).kind = "put"
    BY DEF Stored, Put
  <2> HIDE DEF t
  <2>5. Carried(pc, call, G, H)'
    BY <1>c, <1>i, <2>1, <2>2, <2>3, <2>4 DEF Carried, PCs
  <2> QED BY <2>1, <2>5 DEF Within, tablet, network
<1>5. ASSUME NEW t \in Tasks, PushAnswered(t)
      PROVE  Within(G, H)'
  <2>1. plan[t].policy \in G
    BY <1>5, <1>c DEF PushAnswered, Carried
  <2>2. /\ desired' = plan[t].policy /\ known' = known /\ plan' = plan
        /\ pc' = Ended(t, "done") /\ call' = [call EXCEPT ![t] = NoCall]
        /\ UNCHANGED <<tablet, network>>
    BY <1>5 DEF PushAnswered
  <2>3. Carried(pc, call, G, H)'
    BY <1>c, <1>i, <1>n, <1>p, <2>2 DEF Carried, Ended, PCs
  <2> QED BY <2>1, <2>2, <2>3 DEF Within, tablet, network
<1>6. CASE PollStarts
  <2>1. /\ pc' = [pc EXCEPT ![Poll] = "getting"] /\ call' = [call EXCEPT ![Poll] = Get]
        /\ UNCHANGED <<phase, desired, version, known, data, armed, lock, tablet, network>>
    BY <1>6 DEF PollStarts
  <2>2. Carried(pc, call, G, H)'
    BY <1>c, <1>g, <1>i, <1>p, <2>1 DEF Carried, PCs, lock
  <2> QED BY <2>1, <2>2 DEF Within, tablet, network
<1>e. /\ PollEnded \in PCs /\ CallEnded(Poll) \in [Tasks -> Calls]
      /\ Carried(PollEnded, CallEnded(Poll), G, H)
  BY <1>c, <1>i, <1>n, <1>p DEF PollEnded, Carried, PCs
<1>7. CASE SetupAnswered
  <2>1. call[Poll].status.policy \in H
    BY <1>7, <1>c, <1>p DEF SetupAnswered, Carried
  <2>2. /\ Adopt(call[Poll].status) /\ pc' = PollEnded /\ call' = CallEnded(Poll)
        /\ UNCHANGED <<lock, tablet, network>>
    BY <1>7 DEF SetupAnswered
  <2>3. Carried(pc, call, G, H)'
    BY <1>e, <2>2 DEF Carried, lock
  <2> QED BY <2>1, <2>2, <2>3, AdoptWithin DEF Within, tablet, network
<1>8. CASE PollAnswered
  <2>1. /\ call[Poll].status.policy \in H /\ call[Poll].status \in Status /\ version \in Nat
        /\ OnStatus(call[Poll].status, version, PollEnded, CallEnded(Poll))
        /\ UNCHANGED <<tablet, network>>
    BY <1>8, <1>c, <1>i, <1>p, StatusTypes DEF PollAnswered, Carried, TypeOK, Version
  <2> QED BY <1>e, <1>i, <2>1, OnStatusWithin DEF Within, tablet, network
<1>9. CASE WebhookReceived
  <2>1. CASE phase # "running"
    <3>1. UNCHANGED <<desired, known, lock, pc, call, tablet, late>> /\ report' = NoReport
      BY <1>9, <2>1 DEF WebhookReceived
    <3>2. Carried(pc, call, G, H)'
      BY <1>c, <3>1 DEF Carried, lock
    <3> QED BY <3>1, <3>2 DEF Within, tablet
  <2>2. CASE phase = "running"
    <3>1. /\ OnStatus(report, Max2(version, report.version), pc, call)
          /\ report' = NoReport /\ UNCHANGED <<tablet, late>>
          /\ report.policy \in H /\ report \in Status /\ Max2(version, report.version) \in Nat
      BY <1>9, <1>i, <2>2 DEF WebhookReceived, Within, TypeOK, Status, Version, Max2
    <3> QED BY <1>c, <1>i, <3>1, OnStatusWithin DEF Within, tablet
  <2> QED BY <2>1, <2>2
<1>10. CASE IntervalElapsed
  <2>1. UNCHANGED <<desired, known, lock, pc, call, tablet, network>>
    BY <1>10 DEF IntervalElapsed
  <2> QED BY <1>c, <2>1 DEF Within, Carried, lock, tablet, network
<1>11. ASSUME NEW t \in Tasks, TabletServes(t)
       PROVE  Within(G, H)'
  <2>1. /\ memory'.policy \in H
        /\ UNCHANGED <<desired, known, lock, pc, disk, network>>
    BY <1>11, <1>c
    DEF TabletServes, TabletStores, TabletAnswers, tablet, Within, Carried, Closed, Stored
  <2>2. /\ Answer(StatusOf(memory)).kind = "answer"
        /\ Answer(StatusOf(memory)).status.policy \in H
    BY DEF Answer, StatusOf, Within
  <2>3. \/ call' = [call EXCEPT ![t] = Get]
        \/ call' = [call EXCEPT ![t] = Answer(StatusOf(memory))]
    BY <1>11 DEF TabletServes, TabletStores, TabletAnswers
  <2>4. Carried(pc, call, G, H)'
    BY <1>c, <1>g, <1>i, <2>1, <2>2, <2>3 DEF Carried, lock
  <2> QED BY <2>1, <2>4 DEF Within, network
<1>12. CASE TabletReports
  <2>1. /\ UNCHANGED <<desired, known, lock, pc, call, tablet, late>>
        /\ report' = StatusOf(memory)
    BY <1>12 DEF TabletReports
  <2>2. report'.policy \in H
    BY <2>1 DEF StatusOf, Within
  <2> QED BY <1>c, <2>1, <2>2 DEF Within, Carried, lock, tablet
<1>13. CASE TabletFlushes \/ ReportLost \/ TabletServesLate \/ TabletRestarts
  <2>1. UNCHANGED <<desired, known, lock, pc, call>>
    BY <1>13 DEF TabletFlushes, ReportLost, TabletServesLate, TabletRestarts, network
  <2>2. /\ report' \in {report, NoReport} /\ late' \subseteq late
        /\ memory' \in late \cup {memory, disk} /\ disk' \in {memory, disk}
    BY <1>13 DEF TabletFlushes, ReportLost, TabletServesLate, TabletRestarts, network, tablet
  <2> QED BY <1>c, <2>1, <2>2 DEF Within, Carried, lock, Closed
<1>l. \A t \in Tasks : \A m \in Lingering(t) : m.policy \in G
  BY <1>c DEF Lingering, Carried, Stored
<1>14. ASSUME NEW t \in Tasks, CallFails(t), NEW result,
              pc' = [pc EXCEPT ![t] = result], result \notin {"waiting", "pushing"},
              t = Reconcile => result # "error"
       PROVE  Within(G, H)'
  <2>1. /\ UNCHANGED <<desired, known, plan, tablet, report>>
        /\ call' = CallEnded(t)
        /\ late' \subseteq late \cup Lingering(t)
    BY <1>14 DEF CallFails
  <2>2. Carried(pc, call, G, H)'
    BY <1>c, <1>i, <1>n, <1>14, <2>1 DEF Carried, PCs
  <2>3. \A m \in late' : m.policy \in G
    BY <1>l, <2>1 DEF Within
  <2> QED BY <2>1, <2>2, <2>3 DEF Within, tablet
<1>15. CASE PollFails
  BY <1>14, <1>15, <1>p DEF PollFails, PollEnded
<1>16. ASSUME NEW w \in Writers, EnsureFails(w)
       PROVE  Within(G, H)'
  <2>1. w \in Tasks /\ w # Reconcile
    BY <1>w
  <2>2. CallFails(w) /\ pc' = [pc EXCEPT ![w] = "error"]
    BY <1>16, <2>1 DEF EnsureFails, Ended
  <2> QED BY <1>14, <2>1, <2>2
<1>17. ASSUME NEW t \in Tasks, PushFails(t)
       PROVE  Within(G, H)'
  <2>1. CallFails(t) /\ pc' = Ended(t, "error")
    BY <1>17 DEF PushFails
  <2>2. CASE t = Reconcile
    <3>1. pc' = [pc EXCEPT ![t] = "idle"]
      BY <2>1, <2>2 DEF Ended
    <3> QED BY <1>14, <2>1, <3>1
  <2>3. CASE t # Reconcile
    <3>1. pc' = [pc EXCEPT ![t] = "error"]
      BY <2>1, <2>3 DEF Ended
    <3> QED BY <1>14, <2>1, <2>3, <3>1
  <2> QED BY <2>2, <2>3
<1>18. CASE HomeAssistantRestarts
  <2>1. /\ known' = FALSE /\ desired' = DefaultPolicy /\ UNCHANGED <<report, tablet>>
        /\ \A t \in Tasks : pc'[t] \in {"gone", "idle"} /\ call'[t] = NoCall
    BY <1>18 DEF HomeAssistantRestarts
  <2>2. \A m \in late' : m.policy \in G
    BY <1>18, <1>l DEF HomeAssistantRestarts, Within
  <2>3. Carried(pc, call, G, H)'
    BY <1>p, <1>n, <2>1 DEF Carried
  <2> QED BY <2>1, <2>2, <2>3 DEF Within, tablet
<1>19. CASE UNCHANGED vars
  BY <1>19 DEF vars, Within, Carried
<1> QED
  BY <1>1, <1>2, <1>3, <1>4, <1>5, <1>6, <1>7, <1>8, <1>9, <1>10, <1>11, <1>12, <1>13,
     <1>15, <1>16, <1>17, <1>18, <1>19, AskedIsRequest
  DEF Next, Operator, CoordinatorStep, TabletStep, Fault

-----------------------------------------------------------------------------
(* First use: G is every policy in normal form.                            *)

NormalForms == {p \in Policy : Normalized(p)}

LEMMA NormalFormsClosed == Closed(NormalForms, NormalForms \cup {Foreign})
<1>1. ASSUME NEW p \in NormalForms, NEW r \in Requests, Acceptable(Merge(p, r))
      PROVE  Normalize(Merge(p, r)) \in NormalForms
  <2>1. Merge(p, r) \in Policy
    BY MergeType, CoordinatorAssumption DEF NormalForms
  <2> QED BY <1>1, <2>1, NormalizeNormalizes DEF NormalForms
<1>2. ASSUME NEW r \in Requests, r.kind = "whole", Acceptable(r.value)
      PROVE  Normalize(r.value) \in NormalForms
  <2>1. r.value \in Policy
    BY <1>2, CoordinatorAssumption DEF Whole, Change
  <2> QED BY <1>2, <2>1, NormalizeNormalizes DEF NormalForms
<1>3. DefaultPolicy \in NormalForms
  BY DefaultNormalized DEF NormalForms
<1> QED BY <1>1, <1>2, <1>3 DEF Closed, NormalForms

LEMMA InitWithin ==
  ASSUME NEW G, NEW H, Init, memory.policy \in H
  PROVE  Within(G, H)
<1>1. /\ \A t \in Tasks : pc[t] = "idle" /\ call[t].kind = "none"
      /\ late = {} /\ report = NoReport /\ disk = memory /\ known = FALSE
      /\ desired = DefaultPolicy
  BY DEF Init, NoCall
<1>2. Carried(pc, call, G, H)
  BY <1>1 DEF Carried, Tasks
<1> QED BY <1>1, <1>2 DEF Within

\* The tasks' types, the lock and the normal forms together.
SafeInv == TypeInv /\ LockInv /\ Within(NormalForms, NormalForms \cup {Foreign})

LEMMA InitSafe == Init => SafeInv
<1> SUFFICES ASSUME Init PROVE SafeInv
  OBVIOUS
<1>1. memory.policy \in NormalForms \cup {Foreign}
  BY CoordinatorAssumption DEF Init, Stored, NormalForms
<1> QED BY <1>1, InitType, InitLock, InitWithin DEF SafeInv

LEMMA NextSafe == SafeInv /\ [Next]_vars => SafeInv'
<1> SUFFICES ASSUME SafeInv, [Next]_vars PROVE SafeInv'
  OBVIOUS
<1>1. TypeInv' /\ LockInv'
  BY NextType, NextLock DEF SafeInv
<1>2. Within(NormalForms, NormalForms \cup {Foreign})'
  <2>1. NormalForms \in SUBSET Policy
    BY DEF NormalForms
  <2> QED BY <2>1, NormalFormsClosed, NextWithin DEF SafeInv
<1> QED BY <1>1, <1>2 DEF SafeInv

\* However the operators' changes interleave, no policy that strands the
\* operator is wanted, pushed or stored, and the guard refuses no re-push.
THEOREM PoliciesSafe == Spec => []EveryPolicySafe
<1>1. SafeInv => EveryPolicySafe
  <2> SUFFICES ASSUME SafeInv PROVE EveryPolicySafe
    OBVIOUS
  <2>1. /\ desired \in NormalForms \cup {DefaultPolicy}
        /\ Carried(pc, call, NormalForms, NormalForms \cup {Foreign})
        /\ \A m \in late : m.policy \in NormalForms
        /\ memory.policy \in NormalForms \cup {Foreign}
        /\ disk.policy \in NormalForms \cup {Foreign}
    BY DEF SafeInv, Within
  <2> QED BY <2>1, DefaultNormalized DEF EveryPolicySafe, Carried, NormalForms
<1> QED BY <1>1, InitSafe, NextSafe, PTL DEF Spec

-----------------------------------------------------------------------------
(* Second use: G is every normal form that has the untouched flags as the  *)
(* tablet had them at the start, b.                                        *)

Keeping(b) == {p \in NormalForms : \A k \in Untouched : p.flags[k] = b[k]}

LEMMA MergeKeeps ==
  ASSUME NEW p \in Policy, NEW r \in Requests, NEW k \in Untouched
  PROVE  Merge(p, r).flags[k] = p.flags[k]
<1>1. r \in Change /\ (r.kind = "flag" => r.key # k) /\ k \in Flags
  BY CoordinatorAssumption DEF Untouched, Whole
<1>2. CASE r.kind = "flag"
  <2>1. r.key \in Flags /\ r.key # k
    BY <1>1, <1>2 DEF Change
  <2>2. Merge(p, r) = [p EXCEPT !.flags[r.key] = r.value]
    BY <1>2 DEF Merge
  <2> QED BY <1>1, <2>1, <2>2 DEF Policy
<1>3. CASE r.kind \in {"kiosk_packages", "allowed_packages", "app_mode", "approve"}
  BY <1>3 DEF Merge, Policy
<1> QED BY <1>1, <1>2, <1>3 DEF Change

LEMMA KeepingClosed ==
  ASSUME NEW b, NEW H, Keeping(b) \subseteq H, H \subseteq Keeping(b) \cup {Foreign},
         Foreign \in H => \A k \in Untouched : b[k] = FALSE
  PROVE  Closed(Keeping(b), H)
<1>1. ASSUME NEW p \in Keeping(b), NEW r \in Requests, Acceptable(Merge(p, r))
      PROVE  Normalize(Merge(p, r)) \in Keeping(b)
  <2>1. p \in Policy /\ Merge(p, r) \in Policy
    BY MergeType, CoordinatorAssumption DEF Keeping, NormalForms
  <2>2. Normalize(Merge(p, r)).flags = Merge(p, r).flags
        /\ Normalize(Merge(p, r)) \in NormalForms
    BY <1>1, <2>1, NormalizeNormalizes DEF NormalForms
  <2> QED BY <2>1, <2>2, MergeKeeps DEF Keeping
<1>2. ASSUME NEW r \in Requests, r.kind = "whole", Acceptable(r.value)
      PROVE  Normalize(r.value) \in Keeping(b)
  <2>1. Untouched = {}
    BY <1>2 DEF Untouched
  <2> QED BY <1>2, <2>1, NormalFormsClosed DEF Closed, Keeping
<1>3. Foreign \in H => DefaultPolicy \in Keeping(b)
  BY DefaultNormalized DEF Keeping, NormalForms, DefaultPolicy, Untouched
<1> QED BY <1>1, <1>2, <1>3 DEF Closed, Keeping, NormalForms

KeepInv ==
  /\ TypeInv /\ LockInv
  /\ \E b, H : /\ Keeping(b) \subseteq H /\ H \subseteq Keeping(b) \cup {Foreign}
               /\ Foreign \in H => \A k \in Untouched : b[k] = FALSE
               /\ Within(Keeping(b), H)

\* Whatever is lost, late, restarted or concurrent, a flag no operator asks
\* to change never changes on the tablet.
THEOREM UntouchedSurvive == Spec => UntouchedFlagsSurvive
<1>1. Init => KeepInv
  <2> SUFFICES ASSUME Init PROVE KeepInv
    OBVIOUS
  <2>1. memory.policy \in NormalForms \cup {Foreign}
    BY CoordinatorAssumption DEF Init, Stored, NormalForms
  <2>2. CASE memory.policy = Foreign
    <3> DEFINE b == [k \in Flags |-> FALSE]
    <3>1. Within(Keeping(b), Keeping(b) \cup {Foreign})
      BY <2>2, InitWithin
    <3>2. \A k \in Untouched : b[k] = FALSE
      BY DEF Untouched
    <3> HIDE DEF b
    <3> QED BY <3>1, <3>2, InitType, InitLock DEF KeepInv
  <2>3. CASE memory.policy \in NormalForms
    <3> DEFINE b == memory.policy.flags
    <3>1. memory.policy \in Keeping(b) /\ Foreign \notin Keeping(b)
      BY <2>3, CoordinatorAssumption DEF Keeping, NormalForms
    <3>2. Within(Keeping(b), Keeping(b))
      BY <3>1, InitWithin
    <3> HIDE DEF b
    <3> QED BY <3>1, <3>2, InitType, InitLock DEF KeepInv
  <2> QED BY <2>1, <2>2, <2>3
<1>2. KeepInv /\ [Next]_vars =>
        /\ KeepInv'
        /\ memory.policy # Foreign /\ memory'.policy # Foreign =>
             \A k \in Untouched : memory'.policy.flags[k] = memory.policy.flags[k]
  <2> SUFFICES ASSUME KeepInv, [Next]_vars
               PROVE  /\ KeepInv'
                      /\ memory.policy # Foreign /\ memory'.policy # Foreign =>
                           \A k \in Untouched :
                             memory'.policy.flags[k] = memory.policy.flags[k]
    OBVIOUS
  <2>1. PICK b, H : /\ Keeping(b) \subseteq H /\ H \subseteq Keeping(b) \cup {Foreign}
                    /\ Foreign \in H => \A k \in Untouched : b[k] = FALSE
                    /\ Within(Keeping(b), H)
    BY DEF KeepInv
  <2>2. Keeping(b) \in SUBSET Policy /\ Closed(Keeping(b), H)
    BY <2>1, KeepingClosed DEF Keeping, NormalForms
  <2>3. Within(Keeping(b), H)'
    BY <2>1, <2>2, NextWithin DEF KeepInv
  <2>4. TypeInv' /\ LockInv'
    BY NextType, NextLock DEF KeepInv
  <2>5. KeepInv'
    BY <2>1, <2>3, <2>4 DEF KeepInv
  <2>6. memory.policy \in H /\ memory'.policy \in H
    BY <2>1, <2>3 DEF Within
  <2> QED BY <2>1, <2>5, <2>6 DEF Keeping
<1> QED BY <1>1, <1>2, PTL DEF Spec, UntouchedFlagsSurvive

-----------------------------------------------------------------------------
(* Nobody waits for what will not come.                                    *)

Awaiting == {"ensuring", "getting", "pushing"}

\* A task at c has the call k.
Paired(c, k) == /\ c \in Awaiting <=> k # NoCall
                /\ k.kind = "put" => c = "pushing"

CallsInv == /\ \A t \in Tasks : Paired(pc[t], call[t])
            /\ pc[Reconcile] \notin {"ensuring", "getting"}

LEMMA CallKinds ==
  /\ NoCall.kind = "none" /\ Get.kind = "get" /\ Get # NoCall
  /\ \A p, v : Put(p, v).kind = "put" /\ Put(p, v) # NoCall
  /\ \A s : Answer(s).kind = "answer" /\ Answer(s) # NoCall
<1>1. NoCall.kind = "none" /\ Get.kind = "get"
  BY DEF NoCall, Get
<1>2. \A p, v : Put(p, v).kind = "put"
  BY DEF Put
<1>3. \A s : Answer(s).kind = "answer"
  BY DEF Answer
<1> QED BY <1>1, <1>2, <1>3

\* Through async_apply_policy a task gets its call with its place in the lock.
LEMMA ApplyPolicyCalls ==
  ASSUME NEW t \in Tasks, NEW p, NEW pc0 \in PCs, NEW call0 \in [Tasks -> Calls],
         call0[t] = NoCall, \A x \in Tasks \ {t} : Paired(pc0[x], call0[x]),
         ApplyPolicy(t, p, pc0, call0)
  PROVE  /\ \A x \in Tasks : Paired(pc'[x], call'[x])
         /\ \A x \in Tasks \ {t} : pc'[x] = pc0[x]
         /\ pc'[t] \in {"error", "waiting", "pushing"}
<1>1. CASE pc' = [pc0 EXCEPT ![t] = "error"] /\ call' = call0
  BY <1>1, CallKinds DEF Paired, Awaiting, PCs
<1>2. CASE pc' = [pc0 EXCEPT ![t] = "waiting"] /\ call' = call0
  BY <1>2, CallKinds DEF Paired, Awaiting, PCs
<1>3. ASSUME NEW q, NEW v, pc' = [pc0 EXCEPT ![t] = "pushing"],
             call' = [call0 EXCEPT ![t] = Put(q, v)]
      PROVE  /\ \A x \in Tasks : Paired(pc'[x], call'[x])
             /\ \A x \in Tasks \ {t} : pc'[x] = pc0[x]
             /\ pc'[t] \in {"error", "waiting", "pushing"}
  BY <1>3, CallKinds DEF Paired, Awaiting, PCs
<1> QED BY <1>1, <1>2, <1>3 DEF ApplyPolicy, Refused, Acquire, StartPush, Enqueue

LEMMA OnStatusCalls ==
  ASSUME TypeOK, LockInv, NEW s, NEW v, NEW pc0 \in PCs, NEW call0 \in [Tasks -> Calls],
         \A x \in Tasks : Paired(pc0[x], call0[x]), pc0[Reconcile] = pc[Reconcile],
         CallsInv, OnStatus(s, v, pc0, call0)
  PROVE  CallsInv'
<1>r. Reconcile \in Tasks
  BY DEF Tasks
<1>1. CASE Drifted(s) /\ ApplyPolicy(Reconcile, desired', pc0, call0)
  <2>1. pc0[Reconcile] \notin Awaiting
    BY <1>1 DEF Drifted, LockInv, CallsInv, Awaiting
  <2>2. call0[Reconcile] = NoCall
    BY <1>r, <2>1 DEF Paired
  <2> QED BY <1>1, <1>r, <2>2, ApplyPolicyCalls DEF CallsInv
<1>2. CASE pc' = pc0 /\ call' = call0
  BY <1>2 DEF CallsInv
<1> QED BY <1>1, <1>2 DEF OnStatus, ReconcileIfDrifted

LEMMA InitCalls == Init => CallsInv
BY CallKinds DEF Init, CallsInv, Paired, Awaiting, Tasks

LEMMA NextCalls == TypeInv /\ LockInv /\ CallsInv /\ [Next]_vars => CallsInv'
<1> SUFFICES ASSUME TypeInv, LockInv, CallsInv, [Next]_vars PROVE CallsInv'
  OBVIOUS
<1>w. \A w \in Writers : w \in Tasks /\ w # Poll /\ w # Reconcile
  BY CoordinatorAssumption DEF Tasks
<1>p. Poll \in Tasks /\ Reconcile \in Tasks /\ Poll # Reconcile
  BY DEF Tasks, Poll, Reconcile
<1>i. TypeOK /\ pc \in PCs /\ call \in [Tasks -> Calls]
  BY DEF TypeInv, TypeOK
\* One task moves on, its call with it.
<1>m. ASSUME NEW t \in Tasks, NEW c, NEW k, Paired(c, k), NEW pc0, NEW call0,
             pc0 = [pc EXCEPT ![t] = c], call0 = [call EXCEPT ![t] = k],
             t = Reconcile => c \notin {"ensuring", "getting"}
      PROVE  /\ \A x \in Tasks : Paired(pc0[x], call0[x])
             /\ pc0[Reconcile] \notin {"ensuring", "getting"}
  BY <1>m, <1>i, <1>p DEF CallsInv, PCs
<1>n. /\ \A c : c \notin Awaiting => Paired(c, NoCall)
      /\ \A c \in Awaiting : Paired(c, Get) /\ \A s : Paired(c, Answer(s))
      /\ \A p, v : Paired("pushing", Put(p, v))
  BY CallKinds DEF Paired, Awaiting
<1>s. ASSUME NEW w \in Writers, NEW r, NEW call0 \in [Tasks -> Calls],
             call0 = [call EXCEPT ![w] = NoCall], Submit(w, r, pc, call0)
      PROVE  CallsInv'
  <2>1. \A x \in Tasks \ {w} : Paired(pc[x], call0[x])
    BY <1>s, <1>i DEF CallsInv
  <2>2. call0[w] = NoCall
    BY <1>s, <1>i, <1>w
  <2>3. ApplyPolicy(w, Merge(desired', r), pc, call0)
    BY <1>s DEF Submit
  <2>4. /\ \A x \in Tasks : Paired(pc'[x], call'[x])
        /\ \A x \in Tasks \ {w} : pc'[x] = pc[x]
    BY <1>i, <1>w, <2>1, <2>2, <2>3, ApplyPolicyCalls
  <2> QED BY <1>w, <1>p, <2>4 DEF CallsInv
<1>1. ASSUME NEW w \in Writers, NEW r, ApplyWhole(w, r) \/ SetKnown(w, r)
      PROVE  CallsInv'
  <2>1. pc[w] = "idle" /\ Submit(w, r, pc, call)
    BY <1>1 DEF ApplyWhole, SetKnown
  <2>2. call[w] = NoCall
    BY <1>w, <2>1 DEF CallsInv, Paired, Awaiting
  <2>3. call = [call EXCEPT ![w] = NoCall]
    BY <1>i, <1>w, <2>2
  <2> QED BY <1>i, <1>s, <2>1, <2>3
<1>2. ASSUME NEW w \in Writers, NEW r, SetUnknown(w, r)
      PROVE  CallsInv'
  BY <1>2, <1>m, <1>n, <1>w DEF SetUnknown, Awaiting, CallsInv
<1>3. ASSUME NEW w \in Writers, EnsureAnswered(w)
      PROVE  CallsInv'
  <2>1. Submit(w, request[w], pc, [call EXCEPT ![w] = NoCall])
    BY <1>3 DEF EnsureAnswered
  <2>2. [call EXCEPT ![w] = NoCall] \in [Tasks -> Calls]
    BY <1>i, CallTypes
  <2> QED BY <1>s, <2>1, <2>2
<1>4. CASE Wake
  <2> DEFINE t == Head(queue)
  <2>1. t \in Tasks
    BY <1>4, <1>i DEF Wake, TypeOK
  <2>2. /\ pc' = [pc EXCEPT ![t] = "pushing"]
        /\ call' = [call EXCEPT ![t] = Put(plan[t].policy, version' + 1)]
    BY <1>4 DEF Wake, StartPush
  <2> QED BY <1>m, <1>n, <2>1, <2>2 DEF CallsInv
<1>5. ASSUME NEW t \in Tasks, PushAnswered(t) \/ PushFails(t)
      PROVE  CallsInv'
  <2>1. PICK c \in {"idle", "done", "error"} : pc' = [pc EXCEPT ![t] = c]
    BY <1>5 DEF PushAnswered, PushFails, Ended
  <2>2. call' = [call EXCEPT ![t] = NoCall]
    BY <1>5 DEF PushAnswered, PushFails, CallFails, CallEnded
  <2> QED BY <1>m, <1>n, <2>1, <2>2 DEF CallsInv, Awaiting
<1>6. CASE PollStarts
  BY <1>6, <1>m, <1>n, <1>p DEF PollStarts, Awaiting, CallsInv
<1>e. /\ PollEnded \in PCs /\ CallEnded(Poll) \in [Tasks -> Calls]
      /\ \A x \in Tasks : Paired(PollEnded[x], CallEnded(Poll)[x])
      /\ PollEnded[Reconcile] = pc[Reconcile]
  <2>1. PollEnded \in PCs /\ CallEnded(Poll) \in [Tasks -> Calls]
        /\ PollEnded[Reconcile] = pc[Reconcile]
    BY <1>i, <1>p, CallTypes DEF PollEnded, CallEnded, PCs
  <2> QED BY <1>m, <1>n, <1>p, <2>1 DEF PollEnded, CallEnded, Awaiting
<1>7. CASE SetupAnswered \/ PollFails
  <2>1. pc' = PollEnded /\ call' = CallEnded(Poll)
    BY <1>7 DEF SetupAnswered, PollFails, CallFails
  <2> QED BY <1>e, <2>1 DEF CallsInv
<1>8. CASE PollAnswered
  <2>1. OnStatus(call[Poll].status, version, PollEnded, CallEnded(Poll))
    BY <1>8 DEF PollAnswered
  <2> QED BY <1>e, <1>i, <2>1, OnStatusCalls
<1>9. CASE WebhookReceived
  <2>1. \/ OnStatus(report, Max2(version, report.version), pc, call)
        \/ pc' = pc /\ call' = call
    BY <1>9 DEF WebhookReceived
  <2>2. CASE OnStatus(report, Max2(version, report.version), pc, call)
    BY <1>i, <2>2, OnStatusCalls DEF CallsInv
  <2> QED BY <2>1, <2>2 DEF CallsInv
<1>11. ASSUME NEW t \in Tasks, TabletServes(t)
       PROVE  CallsInv'
  <2>1. /\ call[t].kind \in {"put", "get"} /\ pc' = pc
        /\ \/ call' = [call EXCEPT ![t] = Get]
           \/ call' = [call EXCEPT ![t] = Answer(StatusOf(memory))]
    BY <1>11 DEF TabletServes, TabletStores, TabletAnswers
  <2>2. pc[t] \in Awaiting
    BY <2>1, CallKinds DEF CallsInv, Paired
  <2> QED BY <1>i, <1>n, <2>1, <2>2 DEF CallsInv
<1>12. CASE IntervalElapsed \/ TabletReports \/ TabletFlushes \/ ReportLost
            \/ TabletServesLate \/ TabletRestarts
  BY <1>12 DEF IntervalElapsed, TabletReports, TabletFlushes, ReportLost,
               TabletServesLate, TabletRestarts, CallsInv
<1>14. ASSUME NEW w \in Writers, EnsureFails(w)
       PROVE  CallsInv'
  <2>1. pc' = [pc EXCEPT ![w] = "error"] /\ call' = [call EXCEPT ![w] = NoCall]
    BY <1>14, <1>w DEF EnsureFails, CallFails, CallEnded, Ended
  <2> QED BY <1>m, <1>n, <1>w, <2>1 DEF CallsInv, Awaiting
<1>15. CASE HomeAssistantRestarts
  <2>1. \A t \in Tasks : pc'[t] \in {"gone", "idle"} /\ call'[t] = NoCall
    BY <1>15 DEF HomeAssistantRestarts
  <2> QED BY <1>n, <1>p, <2>1 DEF CallsInv, Awaiting
<1>16. CASE UNCHANGED vars
  BY <1>16 DEF vars, CallsInv
<1> QED
  BY <1>1, <1>2, <1>3, <1>4, <1>5, <1>6, <1>7, <1>8, <1>9, <1>11, <1>12, <1>14, <1>15, <1>16
  DEF Next, Operator, CoordinatorStep, TabletStep, Fault

\* Whoever awaits an answer has a call that the tablet or the timeout ends;
\* whoever waits for the lock waits for such a call, or is woken next.
THEOREM NobodyLeft == Spec => []NobodyStranded
<1>1. Init => TypeInv /\ LockInv /\ CallsInv
  BY InitType, InitLock, InitCalls
<1>2. TypeInv /\ LockInv /\ CallsInv /\ [Next]_vars => (TypeInv /\ LockInv /\ CallsInv)'
  BY NextType, NextLock, NextCalls
<1>3. TypeInv /\ LockInv /\ CallsInv => NobodyStranded
  <2> SUFFICES ASSUME TypeInv, LockInv, CallsInv PROVE NobodyStranded
    OBVIOUS
  <2>1. ASSUME NEW t \in Tasks, pc[t] = "waiting"
        PROVE  queue # <<>> /\ (Locked => call[holder] # NoCall)
    <3>1. queue # <<>>
      BY <2>1 DEF LockInv, In
    <3>2. Locked => holder \in Tasks /\ pc[holder] = "pushing"
      BY DEF Locked, LockInv, TypeInv, TypeOK
    <3> QED BY <3>1, <3>2 DEF CallsInv, Paired, Awaiting
  <2> QED BY <2>1 DEF NobodyStranded, CallsInv, Paired, Awaiting
<1> QED BY <1>1, <1>2, <1>3, PTL DEF Spec

-----------------------------------------------------------------------------
(* An agreement lasts.                                                     *)

AgreeInv == SafeInv /\ CallsInv

\* An operator's call leaves pc "idle" at once.
AsksNow == \E w \in Writers : pc[w] = "idle" /\ pc'[w] # "idle"

LEMMA OperatorAsks == TypeInv /\ Operator => AsksNow
<1> SUFFICES ASSUME TypeInv, NEW w \in Writers, NEW r,
                    ApplyWhole(w, r) \/ SetKnown(w, r) \/ SetUnknown(w, r)
             PROVE  pc[w] = "idle" /\ pc'[w] # "idle"
  BY DEF Operator, AsksNow
<1>1. w \in Tasks /\ pc \in PCs
  BY DEF Tasks, TypeInv, TypeOK
<1> QED BY <1>1 DEF ApplyWhole, SetKnown, SetUnknown, Submit, ApplyPolicy, Refused, Acquire,
                    StartPush, Enqueue, PCs

\* A report of what is wanted is adopted by nobody and is no drift.
LEMMA AgreedStatus ==
  ASSUME Normalized(desired), known, NEW s, s.policy = desired,
         NEW v, NEW pc0, NEW call0, OnStatus(s, v, pc0, call0)
  PROVE  /\ desired' = desired /\ known' = known
         /\ pc' = pc0 /\ call' = call0 /\ UNCHANGED lock
<1>1. desired' = desired /\ known' = known
  BY DEF OnStatus
<1>2. Normalize(s.policy) = desired'
  BY <1>1, NormalizedAcceptable
<1>3. ~Drifted(s)
  BY <1>2 DEF Drifted
<1> QED BY <1>1, <1>3 DEF OnStatus, ReconcileIfDrifted

\* Agreed, as what one step changes of it.
LEMMA AgreedNext ==
  ASSUME TypeInv, Agreed, phase' = "running", desired' = desired, known' = known,
         data' # NoData, data'.policy = desired,
         memory'.policy = desired, disk'.policy = desired,
         \A m \in late' : m.policy = desired,
         report' # NoReport => report'.policy = desired,
         \A t \in Tasks : pc'[t] \notin {"ensuring", "waiting", "pushing"},
         \A t \in Tasks : call'[t].kind = "answer" => call'[t].status.policy = desired
  PROVE  Agreed'
BY DEF Agreed

LEMMA AgreedStep ==
  AgreeInv /\ Agreed /\ [Next]_vars => Agreed' \/ phase' = "setup" \/ AsksNow
<1> SUFFICES ASSUME AgreeInv, Agreed, [Next]_vars, phase' # "setup", ~AsksNow
             PROVE  Agreed'
  OBVIOUS
<1>w. \A w \in Writers : w \in Tasks
  BY DEF Tasks
<1>p. Poll \in Tasks
  BY DEF Tasks
<1>i. TypeInv /\ TypeOK /\ pc \in PCs /\ call \in [Tasks -> Calls]
  BY DEF AgreeInv, SafeInv, TypeInv, TypeOK
<1>a. /\ phase = "running" /\ known /\ data # NoData /\ data.policy = desired
      /\ memory.policy = desired /\ disk.policy = desired
      /\ \A m \in late : m.policy = desired
      /\ report # NoReport => report.policy = desired
      /\ \A t \in Tasks : pc[t] \notin {"ensuring", "waiting", "pushing"}
      /\ \A t \in Tasks : call[t].kind = "answer" => call[t].status.policy = desired
  BY DEF Agreed
<1>d. Normalized(desired)
  BY <1>a DEF AgreeInv, SafeInv, Within, NormalForms
\* No policy is on its way in a call.
<1>k. \A t \in Tasks : call[t].kind # "put"
  BY <1>a DEF AgreeInv, CallsInv, Paired
<1>l. \A t \in Tasks : Lingering(t) = {}
  BY <1>k DEF Lingering
\* The poll's call ends, and the poll with it.
<1>e. /\ \A t \in Tasks : PollEnded[t] \notin {"ensuring", "waiting", "pushing"}
      /\ \A t \in Tasks : CallEnded(Poll)[t].kind = "answer" =>
                            CallEnded(Poll)[t].status.policy = desired
  BY <1>a, <1>i, CallKinds DEF PollEnded, CallEnded, PCs
<1>1. ~Operator
  BY <1>i, OperatorAsks
<1>2. ASSUME NEW w \in Writers, EnsureAnswered(w) \/ EnsureFails(w)
      PROVE  FALSE
  BY <1>2, <1>a, <1>w DEF EnsureAnswered, EnsureFails
<1>3. ASSUME NEW t \in Tasks, PushAnswered(t) \/ PushFails(t)
      PROVE  FALSE
  BY <1>3, <1>a DEF PushAnswered, PushFails
<1>4. ~Wake
  <2> SUFFICES ASSUME Wake PROVE FALSE
    OBVIOUS
  <2>1. queue \in Seq(Tasks) /\ queue # <<>> /\ NoRepeats(queue)
    BY <1>i DEF Wake, TypeOK, AgreeInv, SafeInv, LockInv
  <2>2. Head(queue) \in Tasks /\ In(Head(queue), queue)
    BY <2>1, TailOfQueue
  <2> QED BY <1>a, <2>2 DEF AgreeInv, SafeInv, LockInv
<1>5. ~SetupAnswered /\ ~HomeAssistantRestarts
  BY <1>a DEF SetupAnswered, HomeAssistantRestarts
<1>6. CASE PollStarts
  <2>1. /\ pc' = [pc EXCEPT ![Poll] = "getting"] /\ call' = [call EXCEPT ![Poll] = Get]
        /\ UNCHANGED <<phase, desired, known, data, memory, disk, late, report>>
    BY <1>6 DEF PollStarts, tablet, network
  <2>2. /\ \A t \in Tasks : pc'[t] \notin {"ensuring", "waiting", "pushing"}
        /\ \A t \in Tasks : call'[t].kind = "answer" => call'[t].status.policy = desired
    BY <1>a, <1>i, <2>1, CallKinds DEF PCs
  <2> QED BY <1>a, <1>i, <2>1, <2>2, AgreedNext
<1>7. CASE PollAnswered
  <2> DEFINE s == call[Poll].status
  <2>1. /\ OnStatus(s, version, PollEnded, CallEnded(Poll)) /\ s.policy = desired
        /\ phase' = "running" /\ data' = s
        /\ UNCHANGED <<memory, disk, late, report>>
    BY <1>7, <1>a, <1>p DEF PollAnswered, tablet, network
  <2>2. data' # NoData
    <3>1. s \in Status
      BY <1>7, <1>p, <1>i, StatusTypes DEF PollAnswered
    <3> QED BY <2>1, <3>1 DEF Status, NoData
  <2> HIDE DEF s
  <2>3. /\ desired' = desired /\ known' = known
        /\ pc' = PollEnded /\ call' = CallEnded(Poll)
    BY <1>a, <1>d, <2>1, AgreedStatus
  <2> QED BY <1>a, <1>e, <1>i, <2>1, <2>2, <2>3, AgreedNext
<1>8. CASE WebhookReceived
  <2>1. /\ OnStatus(report, Max2(version, report.version), pc, call)
        /\ report.policy = desired /\ report # NoReport
        /\ phase' = "running" /\ data' = report /\ report' = NoReport
        /\ UNCHANGED <<memory, disk, late>>
    BY <1>8, <1>a DEF WebhookReceived, tablet
  <2>2. /\ desired' = desired /\ known' = known /\ pc' = pc /\ call' = call
    BY <1>a, <1>d, <2>1, AgreedStatus
  <2>3. data' # NoData
    BY <2>1 DEF NoData, NoReport
  <2> QED BY <1>a, <1>i, <2>1, <2>2, <2>3, AgreedNext
<1>9. CASE IntervalElapsed
  <2>1. UNCHANGED <<phase, desired, known, data, pc, call, memory, disk, late, report>>
    BY <1>9 DEF IntervalElapsed, tablet, network
  <2> QED BY <1>a, <1>i, <2>1, AgreedNext
<1>10. ASSUME NEW t \in Tasks, TabletServes(t)
       PROVE  Agreed'
  <2>1. /\ call' = [call EXCEPT ![t] = Answer(StatusOf(memory))]
        /\ UNCHANGED <<phase, desired, known, data, pc, memory, disk, late, report>>
    BY <1>10, <1>k DEF TabletServes, TabletStores, TabletAnswers, tablet, network
  <2>2. Answer(StatusOf(memory)).status.policy = desired
    BY <1>a DEF Answer, StatusOf
  <2>3. \A x \in Tasks : call'[x].kind = "answer" => call'[x].status.policy = desired
    BY <1>a, <1>i, <2>1, <2>2
  <2> QED BY <1>a, <1>i, <2>1, <2>3, AgreedNext
<1>11. CASE TabletReports \/ ReportLost
  <2>1. /\ UNCHANGED <<phase, desired, known, data, pc, call, memory, disk, late>>
        /\ report' = StatusOf(memory) \/ report' = NoReport
    BY <1>11 DEF TabletReports, ReportLost, tablet
  <2>2. report' # NoReport => report'.policy = desired
    BY <1>a, <2>1 DEF StatusOf
  <2> QED BY <1>a, <1>i, <2>1, <2>2, AgreedNext
<1>12. CASE TabletFlushes \/ TabletServesLate \/ TabletRestarts
  <2>1. /\ UNCHANGED <<phase, desired, known, data, pc, call, report>>
        /\ late' \subseteq late
        /\ memory' \in late \cup {memory, disk} /\ disk' \in {memory, disk}
    BY <1>12 DEF TabletFlushes, TabletServesLate, TabletRestarts, network
  <2> QED BY <1>a, <1>i, <2>1, AgreedNext
<1>13. CASE PollFails
  <2>1. /\ call' = CallEnded(Poll) /\ pc' = PollEnded /\ late' \subseteq late
        /\ phase' = "running" /\ data' = Unreachable
        /\ UNCHANGED <<desired, known, memory, disk, report>>
    BY <1>13, <1>a, <1>l, <1>p DEF PollFails, CallFails, tablet
  <2>2. Unreachable \in Status /\ Unreachable.policy = data.policy
    <3>1. data \in Status
      BY <1>a, <1>i DEF TypeOK
    <3> QED BY <1>a, <1>i, <3>1, StatusTypes DEF Unreachable, Status
  <2>3. data' # NoData
    BY <2>1, <2>2 DEF Status, NoData
  <2> QED BY <1>a, <1>e, <1>i, <2>1, <2>2, <2>3, AgreedNext
<1>14. CASE UNCHANGED vars
  BY <1>14 DEF vars, Agreed
<1> QED
  BY <1>1, <1>2, <1>3, <1>4, <1>5, <1>6, <1>7, <1>8, <1>9, <1>10, <1>11, <1>12, <1>13, <1>14
  DEF Next, CoordinatorStep, TabletStep, Fault

\* Once Home Assistant and the tablet agree, lost calls, late requests,
\* reboots and reports neither part them nor start a re-push.
THEOREM AgreementStays == Spec => AgreementLasts
<1>1. Init => AgreeInv
  BY InitSafe, InitCalls DEF AgreeInv
<1>2. AgreeInv /\ [Next]_vars => AgreeInv'
  BY NextSafe, NextCalls DEF AgreeInv, SafeInv
<1>3. AgreeInv /\ [Next]_vars =>
        [Agreed => \/ Agreed' \/ phase' = "setup"
                   \/ \E w \in Writers : pc[w] = "idle" /\ pc'[w] # "idle"]_vars
  BY AgreedStep DEF AsksNow
<1> QED BY <1>1, <1>2, <1>3, PTL DEF Spec, AgreementLasts
=============================================================================
