------------------------ MODULE PolicyEngine_proofs ------------------------
(***************************************************************************)
(* What enforcement leaves behind, for any flags, packages, policies and   *)
(* tiers, any number of threads applying at once and any number of failing *)
(* calls, package changes and crashes: every key has an outcome, a flag    *)
(* reported applied is in force when nothing overlapped the last apply,    *)
(* and the tablet does what TabletPromise says.                            *)
(***************************************************************************)
EXTENDS PolicyEngine, TLAPS

-----------------------------------------------------------------------------
(* Types.                                                                  *)

LEMMA BudgetSpent ==
  ASSUME left \in Budget, NEW kind \in {"puts", "packages", "failures", "crashes"},
         Spend(kind)
  PROVE  left' \in Budget
<1>1. /\ left = [puts |-> left.puts, packages |-> left.packages,
                 failures |-> left.failures, crashes |-> left.crashes]
      /\ left.puts \in Nat /\ left.packages \in Nat
      /\ left.failures \in Nat /\ left.crashes \in Nat
  BY DEF Budget
<1>2. left[kind] - 1 \in Nat
  BY <1>1 DEF Spend
<1> QED BY <1>1, <1>2 DEF Spend, Budget

LEMMA DefaultTypes == Default \in Policy /\ Unreported \in Enforcement
BY DEF Default, Policy, Unreported, Enforcement

LEMMA NewJobType ==
  ASSUME NEW p \in Policy, NEW package \in Packages \cup {"none"}
  PROVE  NewJob(p, package) \in Job
BY DefaultTypes DEF NewJob, Job, Outcomes, Refusals

LEMMA NoJobType == NoJob \in Job
BY DefaultTypes, NewJobType DEF NoJob

\* The fields of the store and of a job.
LEMMA StoreFields ==
  ASSUME NEW s \in Record
  PROVE  /\ s.policy \in Policy /\ s.enforcement \in Enforcement
         /\ s.suspended \subseteq Packages /\ s.unsuspendable \subseteq Packages
         /\ s.pending \subseteq Packages
BY DEF Record

LEMMA JobFields ==
  ASSUME NEW j \in Job
  PROVE  /\ j.policy \in Policy /\ j.next \in Nat /\ j.result \in Enforcement
         /\ j.package \in Packages \cup {"none"} /\ j.pending \subseteq Packages
         /\ j.before \subseteq Packages /\ j.wanted \subseteq Packages
         /\ j.stuck \subseteq Packages /\ j.outcome \in Outcomes
BY DEF Job

LEMMA HeadAndTail ==
  ASSUME NEW S, NEW q \in Seq(S), q # <<>>
  PROVE  Head(q) \in S /\ Tail(q) \in Seq(S)
OBVIOUS

LEMMA Appended ==
  ASSUME NEW S, NEW q \in Seq(S), NEW e \in S
  PROVE  Append(q, e) \in Seq(S)
OBVIOUS

LEMMA FirstEvent ==
  ASSUME TypeOK, events # <<>>
  PROVE  /\ Head(events).package \in Packages
         /\ Tail(events) \in Seq([kind : {"added", "removed"}, package : Packages])
<1>1. Head(events) \in [kind : {"added", "removed"}, package : Packages]
  BY HeadAndTail DEF TypeOK
<1> QED BY <1>1, HeadAndTail DEF TypeOK

\* One step of one thread.
LEMMA Stepped ==
  ASSUME TypeOK, NEW t \in Threads, NEW step \in Steps, Goto(t, step)
  PROVE  /\ pc' \in [Threads -> Steps] /\ pc'[t] = step
         /\ \A u \in Threads : u # t => pc'[u] = pc[u]
BY DEF TypeOK, Goto
LEMMA Begun ==
  ASSUME TypeOK, NEW t \in Threads, NEW j \in Job, Begin(t, j)
  PROVE  /\ job' \in [Threads -> Job] /\ job'[t] = j
         /\ \A u \in Threads : u # t => job'[u] = job[u]
BY DEF TypeOK, Begin

\* A write of the store, a call to the platform and a read of either.
LEMMA WriteType ==
  ASSUME TypeOK, NEW t \in Threads, NEW from, NEW to \in Steps \ {"awaiting"},
         NEW s \in Record, Write(t, from, to, s), up' \in BOOLEAN,
         job' = job \/ \E j \in Job : Begin(t, j)
  PROVE  TypeOK'
<1>1. /\ job' \in [Threads -> Job]
      /\ \A u \in Threads : u # t => job'[u] = job[u]
  BY Begun DEF TypeOK
<1>2. /\ pc' \in [Threads -> Steps] /\ pc'[t] = to
      /\ \A u \in Threads : u # t => pc'[u] = pc[u]
  BY Stepped DEF Write
<1>3. pc'[Main] = "awaiting" => job'[Main].package \in Packages
  BY <1>1, <1>2 DEF TypeOK, Threads
<1> QED BY <1>1, <1>2, <1>3 DEF Write, TypeOK, platform, history

LEMMA AskType ==
  ASSUME TypeOK, NEW t \in Threads, NEW from, NEW to \in Steps, NEW j \in Job,
         to = "awaiting" => j.package \in Packages,
         Ask(t, from, to, j), suspended' \subseteq installed,
         inForce' \in [Flags -> BOOLEAN], left' \in Budget, unseen' \subseteq Packages
  PROVE  TypeOK'
<1>1. /\ job' \in [Threads -> Job] /\ job'[t] = j
      /\ \A u \in Threads : u # t => job'[u] = job[u]
  BY Begun DEF Ask
<1>2. /\ pc' \in [Threads -> Steps] /\ pc'[t] = to
      /\ \A u \in Threads : u # t => pc'[u] = pc[u]
  BY Stepped DEF Ask
<1>3. pc'[Main] = "awaiting" => job'[Main].package \in Packages
  BY <1>1, <1>2 DEF TypeOK, Threads
<1> QED BY <1>1, <1>2, <1>3 DEF Ask, TypeOK

LEMMA ReadType ==
  ASSUME TypeOK, NEW t \in Threads, NEW from, NEW to \in Steps, NEW j \in Job,
         to = "awaiting" => j.package \in Packages, Read(t, from, to, j)
  PROVE  TypeOK'
BY AskType DEF Read, TypeOK

\* A flag's attempt ends.
LEMMA EndedType ==
  ASSUME NEW t \in Threads, NEW o \in Outcomes, job[t] \in Job
  PROVE  Ended(t, o) \in Enforcement
<1>1. job[t].result \in Enforcement
  BY JobFields
<1>2. "app_mode" \in Keys
  BY DEF Keys
<1> QED BY <1>1, <1>2 DEF Ended, Enforcement, Outcomes

\* The job a finished flag leaves.
After(t, o) == [job[t] EXCEPT !.result = Ended(t, o), !.next = @ + 1]

LEMMA AfterType ==
  ASSUME NEW t \in Threads, NEW o \in Outcomes, job[t] \in Job
  PROVE  /\ After(t, o) \in Job
         /\ After(t, o).policy = job[t].policy /\ After(t, o).next = job[t].next + 1
         /\ After(t, o).result = Ended(t, o)
<1>1. job[t].next + 1 \in Nat
  BY JobFields
<1> QED BY <1>1, EndedType DEF After, Job

LEMMA FinishType ==
  ASSUME TypeOK, NEW t \in Threads, NEW o \in Outcomes,
         Finish(t, o), inForce' \in [Flags -> BOOLEAN], left' \in Budget
  PROVE  TypeOK'
<1>1. job[t] \in Job /\ suspended \subseteq installed /\ unseen \subseteq Packages
  BY DEF TypeOK
<1>2. Ask(t, "flags", AfterFlag(t), After(t, o)) /\ UNCHANGED <<suspended, unseen>>
  BY DEF Finish, After
<1>3. AfterFlag(t) \in Steps \ {"awaiting"}
  BY DEF AfterFlag, Steps
<1> QED BY <1>1, <1>2, <1>3, AfterType, AskType

LEMMA InitType == Init => TypeOK
<1> SUFFICES ASSUME Init PROVE TypeOK
  OBVIOUS
<1>1. store \in Record /\ disk \in Record
  BY DefaultTypes DEF Init, Fresh, Record
<1>2. pc \in [Threads -> Steps] /\ job \in [Threads -> Job]
  BY NoJobType DEF Init, Steps
<1>3. left \in Budget /\ installed \subseteq Packages
  BY EngineAssumption DEF Init
<1>4. inForce \in [Flags -> BOOLEAN] /\ suspended \subseteq installed /\ up \in BOOLEAN
  BY DEF Init
<1>5. events \in Seq([kind : {"added", "removed"}, package : Packages])
  BY DEF Init
<1>6. pc[Main] # "awaiting"
  BY DEF Init, Threads
<1> QED BY <1>1, <1>2, <1>3, <1>4, <1>5, <1>6 DEF Init, TypeOK

\* How work begins.
LEMMA BeginningType ==
  ASSUME TypeOK,
         \/ \E t \in Handlers, p \in Documents : PutPolicy(t, p)
         \/ ServiceStarts \/ PackageAdded \/ PackageRemoved
  PROVE  TypeOK'
<1>s. store \in Record /\ left \in Budget /\ Main \in Threads /\ Handlers \subseteq Threads
  BY DEF TypeOK, Threads
<1>f. store.policy \in Policy /\ store.pending \subseteq Packages
  BY <1>s, StoreFields
<1>o. ASSUME NEW t \in Threads, NEW step \in Steps \ {"awaiting"}, Goto(t, step),
             NEW j \in Job, Begin(t, j)
      PROVE  /\ pc' \in [Threads -> Steps] /\ job' \in [Threads -> Job]
             /\ pc'[Main] = "awaiting" => job'[Main].package \in Packages
  <2>1. /\ job' \in [Threads -> Job] /\ \A u \in Threads : u # t => job'[u] = job[u]
    BY <1>o, Begun
  <2>2. /\ pc' \in [Threads -> Steps] /\ pc'[t] = step
        /\ \A u \in Threads : u # t => pc'[u] = pc[u]
    BY <1>o, Stepped
  <2> QED BY <2>1, <2>2, <1>s DEF TypeOK
<1>1. ASSUME NEW t \in Handlers, NEW p \in Documents, PutPolicy(t, p) PROVE TypeOK'
  <2>1. p \in Policy /\ t \in Threads
    BY <1>s, EngineAssumption
  <2>2. NewJob(p, "none") \in Job
    BY <2>1, NewJobType
  <2>3. left' \in Budget
    BY <1>1, <1>s, BudgetSpent DEF PutPolicy
  <2>4. Goto(t, "policy") /\ Begin(t, NewJob(p, "none")) /\ "policy" \in Steps
    BY <1>1 DEF PutPolicy, Steps
  <2>5. alone' \in BOOLEAN
    BY <1>1 DEF PutPolicy, AllIdle
  <2> QED BY <1>1, <1>o, <2>1, <2>2, <2>3, <2>4, <2>5 DEF PutPolicy, TypeOK, platform
<1>2. CASE ServiceStarts
  <2>1. CASE tier = "none"
    BY <1>2, <2>1 DEF ServiceStarts, TypeOK, platform
  <2>2. CASE tier # "none"
    <3>1. NewJob(store.policy, "none") \in Job
      BY <1>f, NewJobType
    <3>2. Goto(Main, "policy") /\ Begin(Main, NewJob(store.policy, "none")) /\ "policy" \in Steps
      BY <1>2, <2>2 DEF ServiceStarts, Steps
    <3>3. alone' \in BOOLEAN
      BY <1>2, <2>2 DEF ServiceStarts, AllIdle
    <3> QED BY <1>2, <1>s, <1>o, <2>2, <3>1, <3>2, <3>3 DEF ServiceStarts, TypeOK, platform
  <2> QED BY <2>1, <2>2
<1>3. ASSUME NEW kind, NEW to \in Steps \ {"awaiting"}, NEW j \in Job, Handles(kind, to, j)
      PROVE  TypeOK'
  <2>1. events' \in Seq([kind : {"added", "removed"}, package : Packages])
    BY <1>3, FirstEvent DEF Handles
  <2>2. Goto(Main, to) /\ Begin(Main, j)
    BY <1>3 DEF Handles
  <2>3. alone' \in BOOLEAN
    BY <1>3 DEF Handles, AllIdle, TypeOK
  <2> QED BY <1>3, <1>s, <1>o, <2>1, <2>2, <2>3 DEF Handles, TypeOK, platform
<1>p. PackageAdded \/ PackageRemoved => Head(events).package \in Packages
  BY FirstEvent DEF PackageAdded, PackageRemoved, Handles
<1>4. CASE PackageAdded
  <2>1. NewJob(store.policy, Head(events).package) \in Job
    BY <1>4, <1>p, <1>f, NewJobType
  <2>2. Handles("added", "launchable", NewJob(store.policy, Head(events).package))
    BY <1>4 DEF PackageAdded
  <2> QED BY <2>1, <2>2, <1>3 DEF Steps
<1>5. CASE PackageRemoved
  <2> DEFINE p == Head(events).package
             j == [NewJob(Default, p) EXCEPT !.pending = store.pending \ {p}]
  <2>1. j \in Job
    <3>1. NewJob(Default, p) \in Job
      BY <1>5, <1>p, DefaultTypes, NewJobType
    <3> QED BY <3>1, <1>f DEF Job
  <2>2. Handles("removed", "cleared", j)
    BY <1>5 DEF PackageRemoved
  <2> HIDE DEF j
  <2> QED BY <2>1, <2>2, <1>3 DEF Steps
<1> QED BY <1>1, <1>2, <1>4, <1>5

\* A step of an apply.
LEMMA ApplyType ==
  ASSUME TypeOK, NEW t \in Threads,
         Apply(t) \/ FlagFails(t) \/ FlagReturnsFalse(t) \/ AppModeFails(t)
  PROVE  TypeOK'
<1> DEFINE j == job[t]
<1>s. /\ store \in Record /\ left \in Budget /\ up \in BOOLEAN
      /\ job \in [Threads -> Job] /\ inForce \in [Flags -> BOOLEAN]
      /\ suspended \subseteq installed /\ installed \subseteq Packages
      /\ unseen \subseteq Packages
  BY DEF TypeOK
<1>f. store.suspended \subseteq Packages /\ store.pending \subseteq Packages
  BY <1>s, StoreFields
<1>j. /\ j \in Job /\ j.policy \in Policy /\ j.result \in Enforcement
      /\ j.pending \subseteq Packages /\ j.before \subseteq Packages
      /\ j.wanted \subseteq Packages /\ j.stuck \subseteq Packages
      /\ j.outcome \in Outcomes
  <2>1. j \in Job
    BY <1>s
  <2> QED BY <2>1, JobFields
<1>k. Refusals \subseteq Outcomes /\ "applied" \in Outcomes /\ "unsupported" \in Outcomes
  BY DEF Outcomes
<1>1. CASE StoresPolicy(t)
  <2>1. [store EXCEPT !.policy = j.policy] \in Record
    BY <1>s, <1>j DEF Record
  <2> QED BY <1>1, <1>s, <2>1, WriteType DEF StoresPolicy, Steps
<1>2. CASE FlagApplied(t)
  <2>1. j.policy.flags \in [Flags -> BOOLEAN]
    BY <1>j DEF Policy
  <2>2. inForce' \in [Flags -> BOOLEAN]
    BY <1>2, <1>s, <2>1 DEF FlagApplied
  <2> QED BY <1>2, <1>s, <1>k, <2>2, FinishType DEF FlagApplied
<1>3. CASE FlagFails(t)
  <2>1. left' \in Budget
    BY <1>3, <1>s, BudgetSpent DEF FlagFails
  <2> QED BY <1>3, <1>s, <1>k, <2>1, FinishType DEF FlagFails
<1>4. CASE FlagReturnsFalse(t)
  <2>1. left' \in Budget
    BY <1>4, <1>s, BudgetSpent DEF FlagReturnsFalse
  <2> QED BY <1>4, <1>s, <1>k, <2>1, FinishType DEF FlagReturnsFalse
<1>5. CASE FlagUnsupported(t)
  BY <1>5, <1>s, <1>k, FinishType DEF FlagUnsupported
<1>6. CASE StoresEnforcement(t)
  <2>1. \E i \in Job : Begin(t, i)
    BY <1>6, NoJobType DEF StoresEnforcement
  <2>2. [store EXCEPT !.enforcement = j.result] \in Record
    BY <1>s, <1>j DEF Record
  <2> QED BY <1>6, <1>s, <2>1, <2>2, WriteType DEF StoresEnforcement, Steps
<1>7. CASE ReadsPackages(t)
  <2>1. Wanted(j.policy) \subseteq Packages
    BY <1>s DEF Wanted
  <2>2. [j EXCEPT !.wanted = Wanted(j.policy)] \in Job
    BY <1>j, <2>1 DEF Job
  <2> QED BY <1>7, <1>s, <2>2, AskType DEF ReadsPackages, Steps
<1>8. CASE ReadsSuspended(t)
  <2>1. [j EXCEPT !.before = store.suspended] \in Job
    BY <1>j, <1>f DEF Job
  <2> QED BY <1>8, <2>1, ReadType DEF ReadsSuspended, Steps
<1>9. CASE Lifts(t)
  <2>1. [j EXCEPT !.stuck = ToLift(t) \ installed] \in Job
    BY <1>j DEF ToLift, Job
  <2>2. suspended' \subseteq installed
    BY <1>9, <1>s DEF Lifts
  <2> QED BY <1>9, <1>s, <2>1, <2>2, AskType DEF Lifts, Steps
<1>10. CASE Holds(t)
  <2>1. [j EXCEPT !.stuck = @ \cup Refused(t)] \in Job
    BY <1>j DEF Refused, Job
  <2>2. suspended' \subseteq installed
    BY <1>10, <1>s, <1>j DEF Holds, Refused
  <2> QED BY <1>10, <1>s, <2>1, <2>2, AskType DEF Holds, Steps
<1>11. CASE AppModeFails(t)
  <2>1. left' \in Budget
    BY <1>11, <1>s, BudgetSpent DEF AppModeFails
  <2>2. \A o \in Refusals : [j EXCEPT !.outcome = o] \in Job
    BY <1>j, <1>k DEF Job
  <2> QED BY <1>11, <1>s, <2>1, <2>2, AskType DEF AppModeFails, Steps
<1>12. CASE RecordsSuspended(t)
  <2>1. [store EXCEPT !.suspended = j.wanted \ j.stuck] \in Record
    <3>1. j.wanted \ j.stuck \in SUBSET Packages
      BY <1>j
    <3> QED BY <1>s, <3>1 DEF Record
  <2> QED BY <1>12, <1>s, <2>1, WriteType DEF RecordsSuspended, Steps
<1>13. CASE RecordsUnsuspendable(t)
  <2>1. [store EXCEPT !.unsuspendable = j.stuck] \in Record
    BY <1>s, <1>j DEF Record
  <2> QED BY <1>13, <1>s, <2>1, WriteType DEF RecordsUnsuspendable, Steps
<1>14. CASE ReadsPending(t)
  <2>1. StillPending(t) \subseteq Packages
    BY <1>f DEF StillPending
  <2>2. [j EXCEPT !.pending = StillPending(t)] \in Job
    BY <1>j, <2>1 DEF Job
  <2> QED BY <1>14, <2>2, ReadType DEF ReadsPending, Steps
<1>15. CASE RecordsPending(t)
  <2>1. [j EXCEPT !.result["app_mode"] = AppModeResult(t)] \in Job
    <3>1. AppModeResult(t) \in Outcomes
      BY <1>j DEF AppModeResult, Outcomes
    <3>2. [j.result EXCEPT !["app_mode"] = AppModeResult(t)] \in Enforcement
      BY <1>j, <3>1 DEF Enforcement
    <3> QED BY <1>j, <3>2 DEF Job
  <2>2. \E i \in Job : Begin(t, i)
    BY <1>15, <2>1 DEF RecordsPending
  <2>3. [store EXCEPT !.pending = j.pending] \in Record
    BY <1>s, <1>j DEF Record
  <2> QED BY <1>15, <1>s, <2>2, <2>3, WriteType DEF RecordsPending, Steps
<1> QED BY <1>1, <1>2, <1>3, <1>4, <1>5, <1>6, <1>7, <1>8, <1>9, <1>10, <1>11, <1>12,
  <1>13, <1>14, <1>15 DEF Apply

\* A step of onPackageAdded or onPackageRemoved.
LEMMA ReceiveType ==
  ASSUME TypeOK, Receive
  PROVE  TypeOK'
<1> DEFINE j == job[Main]
<1>s. store \in Record /\ job \in [Threads -> Job] /\ up \in BOOLEAN /\ Main \in Threads
  BY DEF TypeOK, Threads
<1>f. /\ store.suspended \subseteq Packages /\ store.pending \subseteq Packages
      /\ store.enforcement \in Enforcement
  BY <1>s, StoreFields
<1>j. j \in Job /\ j.pending \subseteq Packages /\ j.before \subseteq Packages
  <2>1. j \in Job
    BY <1>s
  <2> QED BY <2>1, JobFields
<1>1. CASE QueriesLauncher
  <2>1. CASE Held(j.package, j.policy)
    <3>1. j.package \in Packages
      BY <2>1 DEF Held, TypeOK
    <3> QED BY <1>1, <1>s, <1>j, <2>1, <3>1, ReadType DEF QueriesLauncher, Steps
  <2>2. CASE ~Held(j.package, j.policy)
    BY <1>1, <1>s, <2>2, NoJobType, ReadType DEF QueriesLauncher, Steps
  <2> QED BY <2>1, <2>2
<1>2. CASE ReadsAwaiting
  <2>1. j.package \in Packages
    BY <1>2 DEF ReadsAwaiting, Read, Ask, TypeOK
  <2>2. [j EXCEPT !.pending = store.pending \cup {j.package}] \in Job
    BY <1>j, <1>f, <2>1 DEF Job
  <2> QED BY <1>2, <1>s, <2>2, ReadType DEF ReadsAwaiting, Steps
<1>3. CASE RecordsAwaiting
  <2>1. [store EXCEPT !.pending = j.pending] \in Record
    BY <1>s, <1>j DEF Record
  <2> QED BY <1>3, <1>s, <2>1, WriteType DEF RecordsAwaiting, Steps
<1>4. CASE ReadsEnforcement
  <2>1. [j EXCEPT !.result = store.enforcement] \in Job
    BY <1>j, <1>f DEF Job
  <2> QED BY <1>4, <1>s, <2>1, ReadType DEF ReadsEnforcement, Steps
<1>5. CASE ClearsPending
  <2>1. [store EXCEPT !.pending = j.pending] \in Record
    BY <1>s, <1>j DEF Record
  <2> QED BY <1>5, <1>s, <2>1, WriteType DEF ClearsPending, Steps
<1>6. CASE ReadsHeld
  <2>1. [j EXCEPT !.before = store.suspended \ {j.package}] \in Job
    BY <1>j, <1>f DEF Job
  <2> QED BY <1>6, <1>s, <2>1, ReadType DEF ReadsHeld, Steps
<1>7. CASE ForgetsSuspended
  <2>1. [store EXCEPT !.suspended = j.before] \in Record
    BY <1>s, <1>j DEF Record
  <2>2. \E i \in Job : Begin(Main, i)
    BY <1>7, NoJobType DEF ForgetsSuspended
  <2> QED BY <1>7, <1>s, <2>1, <2>2, WriteType DEF ForgetsSuspended, Steps
<1> QED BY <1>1, <1>2, <1>3, <1>4, <1>5, <1>6, <1>7 DEF Receive

LEMMA WorldType ==
  ASSUME TypeOK, \/ Flush \/ Crash
                 \/ \E p \in Packages : Install(p) \/ Uninstall(p)
  PROVE  TypeOK'
<1>s. left \in Budget /\ events \in Seq([kind : {"added", "removed"}, package : Packages])
  BY DEF TypeOK
<1>1. CASE Flush
  BY <1>1 DEF Flush, TypeOK, platform, history
<1>2. CASE Crash
  <2>1. left' \in Budget
    BY <1>2, <1>s, BudgetSpent DEF Crash
  <2>2. /\ pc' \in [Threads -> Steps] /\ job' \in [Threads -> Job]
        /\ events' \in Seq([kind : {"added", "removed"}, package : Packages])
        /\ pc'[Main] # "awaiting"
    BY <1>2, NoJobType DEF Crash, Steps, Threads
  <2> QED BY <1>2, <2>1, <2>2 DEF Crash, TypeOK, platform, history
<1>3. ASSUME NEW p \in Packages, NEW kind \in {"added", "removed"}, Broadcast(kind, p)
      PROVE  /\ events' \in Seq([kind : {"added", "removed"}, package : Packages])
             /\ unseen' \subseteq Packages
  <2>1. [kind |-> kind, package |-> p] \in [kind : {"added", "removed"}, package : Packages]
    OBVIOUS
  <2>2. unseen' \subseteq Packages
    BY <1>3 DEF Broadcast, TypeOK
  <2> HIDE DEF TypeOK
  <2> QED BY <1>3, <1>s, <2>1, <2>2, Appended DEF Broadcast
<1>4. ASSUME NEW p \in Packages, Install(p) PROVE TypeOK'
  <2>1. left' \in Budget
    BY <1>4, <1>s, BudgetSpent DEF Install
  <2>2. /\ events' \in Seq([kind : {"added", "removed"}, package : Packages])
        /\ unseen' \subseteq Packages
    BY <1>3, <1>4 DEF Install
  <2> QED BY <1>4, <2>1, <2>2 DEF Install, TypeOK
<1>5. ASSUME NEW p \in Packages, Uninstall(p) PROVE TypeOK'
  <2>1. left' \in Budget
    BY <1>5, <1>s, BudgetSpent DEF Uninstall
  <2>2. /\ events' \in Seq([kind : {"added", "removed"}, package : Packages])
        /\ unseen' \subseteq Packages
    BY <1>3, <1>5 DEF Uninstall
  <2> QED BY <1>5, <2>1, <2>2 DEF Uninstall, TypeOK
<1> QED BY <1>1, <1>2, <1>4, <1>5

LEMMA NextType == TypeOK /\ [Next]_vars => TypeOK'
<1> SUFFICES ASSUME TypeOK, [Next]_vars PROVE TypeOK'
  OBVIOUS
<1>1. CASE UNCHANGED vars
  BY <1>1 DEF vars, platform, history, TypeOK
<1> QED BY <1>1, BeginningType, ApplyType, ReceiveType, WorldType DEF Next

\* The types of every behaviour of PolicyEngine.kt and PolicyStore.kt, for
\* any flags, packages and policies and any amount of adversity.
THEOREM TypeCorrect == Spec => []TypeOK
BY InitType, NextType, PTL DEF Spec
-----------------------------------------------------------------------------
(* Flags, however applies overlap.                                         *)

Known == Documents \cup {Default}

\* The steps of applyAppMode, of the main thread's broadcast handlers, and
\* those of them that forget a package that is gone.
AppMode == {"packages", "before", "lift", "hold", "suspended", "unsuspendable",
            "filter", "pending"}
Forgetting == {"cleared", "gone", "lifted"}
Receiving  == Forgetting \cup {"launchable", "awaiting", "awaits", "outcomes"}

\* The HTTP server's threads work only while the service is up.
ServerIsUp == ~up => \A t \in Handlers : pc[t] = "idle"

\* Every policy there is came with a PUT or is the default.
PoliciesKnown ==
  /\ store.policy \in Known /\ disk.policy \in Known
  /\ \A t \in Threads : job[t].policy \in Known

\* A tablet that is neither owner nor admin never applied anything.
Unmanaged ==
  tier = "none" => /\ AllIdle /\ events = <<>>
                   /\ store.enforcement = Unreported /\ disk.enforcement = Unreported

\* A job is as far as the step it is at: every flag before the next has an
\* outcome, past the flags all have, and at the end every key.
Fits(t, step, j) ==
  /\ step \in {"policy", "flags"} =>
       /\ j.next \in DOMAIN Order
       /\ \A i \in DOMAIN Order : i < j.next => j.result[Order[i]] \in Outcomes
  /\ step \in AppMode => \A k \in Flags : j.result[k] \in Outcomes
  /\ step = "enforcement" => \A k \in Keys : j.result[k] \in Outcomes
  /\ step \in Receiving => t = Main /\ up
AllFit == \A t \in Threads : Fits(t, pc[t], job[t])

BaseInv ==
  /\ TypeOK /\ ServerIsUp /\ PoliciesKnown /\ Unmanaged /\ AllFit /\ EveryKeyReported

\* What holds while nothing began beside something else.
\* One thread works.
OneWorks == \A t, u \in Threads : pc[t] # "idle" /\ pc[u] # "idle" => t = u

\* Past its first step it enforces the policy in the store.
Enforced ==
  \A t \in Threads :
    pc[t] \notin {"idle", "policy"} \cup Forgetting => job[t].policy = store.policy

\* The flags whose calls tell of their failure.
Told == Flags \ Silent[tier]

\* What it is about to report applied is in force.
ResultsTrue ==
  \A t \in Threads : pc[t] # "idle" =>
    \A k \in Told : job[t].result[k] = "applied" => inForce[k] = job[t].policy.flags[k]

\* So is what the store reports, unless flags have just been turned.
ReportsTrue ==
  up /\ (\A t \in Threads : pc[t] \in {"idle"} \cup Receiving) =>
    \A k \in Told : store.enforcement[k] = "applied" => inForce[k] = store.policy.flags[k]

Sole == OneWorks /\ Enforced /\ ResultsTrue /\ ReportsTrue

FlagInv == BaseInv /\ (alone => Sole)

LEMMA FlagOf == \A i \in DOMAIN Order : Order[i] \in Flags
BY DEF Flags

LEMMA ToldFlags == TypeOK => Told \subseteq Flags
BY DEF Told

LEMMA InitFlags == Init => FlagInv
<1> SUFFICES ASSUME Init PROVE FlagInv
  OBVIOUS
<1>1. TypeOK
  BY InitType
<1>2. ServerIsUp /\ EveryKeyReported /\ (alone => Sole)
  BY DEF Init, ServerIsUp, EveryKeyReported, Threads
<1>3. PoliciesKnown
  BY DEF Init, PoliciesKnown, Known, Fresh, NoJob, NewJob
<1>4. Unmanaged
  BY DEF Init, Unmanaged, AllIdle, Fresh
<1>5. AllFit
  BY DEF Init, AllFit, Fits, AppMode, Receiving, Forgetting
<1> QED BY <1>1, <1>2, <1>3, <1>4, <1>5 DEF FlagInv, BaseInv

\* A thread goes from one step to another with what the other needs, and
\* neither the outcomes in the store nor what is on the disk change.
LEMMA StepBase ==
  ASSUME BaseInv, TypeOK', NEW t \in Threads, NEW step \in Steps, NEW j \in Job,
         Goto(t, step), Begin(t, j), j.policy \in Known, Fits(t, step, j),
         store'.policy \in Known, store'.enforcement = store.enforcement,
         pc[t] # "idle", disk' = disk, tier' = tier, up' = up
  PROVE  BaseInv'
<1>1. /\ pc'[t] = step /\ \A u \in Threads : u # t => pc'[u] = pc[u]
      /\ job'[t] = j /\ \A u \in Threads : u # t => job'[u] = job[u]
  BY Stepped, Begun DEF BaseInv
<1>2. ServerIsUp'
  BY <1>1 DEF ServerIsUp, BaseInv, Threads
<1>3. PoliciesKnown'
  BY <1>1 DEF PoliciesKnown, BaseInv
<1>4. tier # "none"
  BY DEF BaseInv, Unmanaged, AllIdle
<1>5. \A u \in Threads : Fits(u, pc'[u], job'[u])
  BY <1>1 DEF BaseInv, AllFit
<1>6. \A u \in Threads : Fits(u, pc[u], job[u])' <=> Fits(u, pc'[u], job'[u])
  BY DEF Fits
<1> QED BY <1>2, <1>3, <1>4, <1>5, <1>6 DEF BaseInv, Unmanaged, EveryKeyReported, AllFit

\* When nothing overlaps, the thread at work goes on.
LEMMA StepSole ==
  ASSUME BaseInv, Sole, NEW t \in Threads, NEW step \in Steps, NEW j \in Job,
         Goto(t, step), Begin(t, j), pc[t] # "idle", tier' = tier,
         step \notin {"idle", "policy"} \cup Forgetting => j.policy = store'.policy,
         step # "idle" =>
           \A k \in Told : j.result[k] = "applied" => inForce'[k] = j.policy.flags[k],
         up' /\ step \in {"idle"} \cup Receiving =>
           \A k \in Told : store'.enforcement[k] = "applied"
                             => inForce'[k] = store'.policy.flags[k]
  PROVE  Sole'
<1>1. /\ pc'[t] = step /\ \A u \in Threads : u # t => pc'[u] = pc[u]
      /\ job'[t] = j /\ \A u \in Threads : u # t => job'[u] = job[u]
  BY Stepped, Begun DEF BaseInv
<1>2. \A u \in Threads : u # t => pc'[u] = "idle"
  BY <1>1 DEF Sole, OneWorks
<1>3. OneWorks' /\ Enforced'
  BY <1>1, <1>2 DEF OneWorks, Enforced
<1>4. ResultsTrue'
  BY <1>1, <1>2 DEF ResultsTrue, Told
<1>5. ReportsTrue'
  BY <1>1, <1>2 DEF ReportsTrue, Told
<1> QED BY <1>3, <1>4, <1>5 DEF Sole

\* A step of applyAppMode or of a handler that leaves the policy, the
\* outcomes and the flags alone.
LEMMA Proceeds ==
  ASSUME FlagInv, TypeOK', NEW t \in Threads, NEW to \in Steps, NEW j \in Job,
         pc[t] \in AppMode \cup Receiving, Goto(t, to), Begin(t, j),
         \/ pc[t] \in AppMode /\ to \in AppMode
         \/ pc[t] \in Forgetting /\ to \in Forgetting
         \/ pc[t] \in Receiving \ Forgetting /\ to \in Receiving \ Forgetting,
         j.policy = job[t].policy, j.result = job[t].result,
         store'.policy = store.policy, store'.enforcement = store.enforcement,
         disk' = disk, tier' = tier, up' = up, inForce' = inForce, alone' = alone
  PROVE  FlagInv'
<1>1. /\ job[t].policy \in Known /\ store.policy \in Known /\ pc[t] # "idle"
      /\ pc[t] \notin {"idle", "policy"}
  BY DEF FlagInv, BaseInv, PoliciesKnown, AppMode, Receiving, Forgetting
<1>2. Fits(t, to, j)
  <2>1. Fits(t, pc[t], job[t])
    BY DEF FlagInv, BaseInv, AllFit
  <2> QED BY <2>1 DEF Fits, AppMode, Receiving, Forgetting
<1>3. BaseInv'
  BY <1>1, <1>2, StepBase DEF FlagInv
<1>4. ASSUME alone PROVE Sole'
  <2>1. Sole
    BY <1>4 DEF FlagInv
  <2>2. to \notin {"idle", "policy"} \cup Forgetting => j.policy = store'.policy
    BY <2>1 DEF Sole, Enforced, AppMode, Receiving, Forgetting
  <2>3. \A k \in Told : j.result[k] = "applied" => inForce'[k] = j.policy.flags[k]
    BY <1>1, <2>1 DEF Sole, ResultsTrue
  <2>4. up' /\ to \in {"idle"} \cup Receiving =>
          \A k \in Told : store'.enforcement[k] = "applied"
                            => inForce'[k] = store'.policy.flags[k]
    <3>1. to \in {"idle"} \cup Receiving => pc[t] \in Receiving
      BY DEF AppMode, Receiving, Forgetting
    <3>2. \A u \in Threads : u # t => pc[u] = "idle"
      BY <1>1, <2>1 DEF Sole, OneWorks
    <3> QED BY <2>1, <3>1, <3>2 DEF Sole, ReportsTrue
  <2> QED BY <1>1, <2>1, <2>2, <2>3, <2>4, StepSole DEF FlagInv
<1> QED BY <1>3, <1>4 DEF FlagInv

\* Work begins on a thread, for a policy or for a package that is gone.
LEMMA BeginsFlags ==
  ASSUME FlagInv, TypeOK', NEW t \in Threads, pc[t] = "idle", tier # "none",
         NEW p \in Known, NEW package \in Packages \cup {"none"}, NEW j \in Job,
         j.policy = p, j.next = 1, j.result = Unreported,
         NEW step \in {"policy", "launchable", "cleared"},
         step = "policy" => (up \/ t = Main) /\ alone' = AllIdle,
         step # "policy" => up /\ t = Main /\ alone' = (alone /\ AllIdle),
         step = "launchable" => p = store.policy,
         Begin(t, j), Goto(t, step),
         UNCHANGED <<up, store, disk, platform>>
  PROVE  FlagInv'
<1>0. step \in Steps /\ step # "idle"
  BY DEF Steps
<1>1. /\ pc'[t] = step /\ \A u \in Threads : u # t => pc'[u] = pc[u]
      /\ job'[t] = j /\ \A u \in Threads : u # t => job'[u] = job[u]
  BY <1>0, Stepped, Begun DEF FlagInv, BaseInv
<1>u. \A k \in Flags : Unreported[k] # "applied"
  BY DEF Unreported, Keys
<1>2. Fits(t, step, j)
  <2>1. Len(Order) \in Nat /\ Len(Order) # 0 /\ DOMAIN Order = 1..Len(Order)
    BY EngineAssumption
  <2>2. 1 \in DOMAIN Order /\ \A i \in DOMAIN Order : ~(i < 1)
    BY <2>1
  <2> QED BY <2>2 DEF Fits, AppMode, Receiving, Forgetting
<1>3. BaseInv'
  <2>1. ServerIsUp'
    BY <1>1, EngineAssumption DEF ServerIsUp, FlagInv, BaseInv, Threads
  <2>2. PoliciesKnown'
    BY <1>1 DEF PoliciesKnown, FlagInv, BaseInv
  <2>3. \A u \in Threads : Fits(u, pc'[u], job'[u])
    BY <1>1, <1>2 DEF FlagInv, BaseInv, AllFit
  <2>4. AllFit'
    BY <2>3 DEF AllFit, Fits
  <2> QED BY <2>1, <2>2, <2>4 DEF FlagInv, BaseInv, Unmanaged, EveryKeyReported, platform
<1>4. ASSUME alone' PROVE Sole'
  <2>1. \A u \in Threads : u # t => pc'[u] = "idle"
    BY <1>1, <1>4 DEF AllIdle
  <2>2. OneWorks' /\ Enforced'
    BY <1>1, <2>1, <1>4 DEF OneWorks, Enforced, Forgetting
  <2>3. ResultsTrue'
    BY <1>1, <1>u, <2>1 DEF ResultsTrue, Told, platform
  <2>4. ReportsTrue'
    <3>1. CASE step = "policy"
      BY <1>1, <3>1 DEF ReportsTrue, Receiving, Forgetting
    <3>2. CASE step # "policy"
      <4>1. alone /\ AllIdle /\ up
        BY <1>4, <3>2
      <4>2. \A k \in Told : store.enforcement[k] = "applied"
                              => inForce[k] = store.policy.flags[k]
        BY <4>1 DEF FlagInv, Sole, ReportsTrue, AllIdle
      <4> QED BY <4>2 DEF ReportsTrue, Told, platform
    <3> QED BY <3>1, <3>2
  <2> QED BY <2>2, <2>3, <2>4 DEF Sole
<1> QED BY <1>3, <1>4 DEF FlagInv

LEMMA BeginningFlags ==
  ASSUME FlagInv,
         \/ \E t \in Handlers, p \in Documents : PutPolicy(t, p)
         \/ ServiceStarts \/ PackageAdded \/ PackageRemoved
  PROVE  FlagInv'
<1>t. TypeOK /\ TypeOK'
  BY BeginningType DEF FlagInv, BaseInv
<1>s. /\ store \in Record /\ Main \in Threads /\ Handlers \subseteq Threads
      /\ store.policy \in Known /\ store.policy \in Policy /\ Default \in Known
      /\ store.pending \subseteq Packages
  <2>1. store \in Record
    BY <1>t DEF TypeOK
  <2> QED BY <2>1, StoreFields DEF Threads, FlagInv, BaseInv, PoliciesKnown, Known
<1>j. ASSUME NEW p \in Policy, NEW package \in Packages \cup {"none"}
      PROVE  /\ NewJob(p, package) \in Job /\ NewJob(p, package).policy = p
             /\ NewJob(p, package).next = 1 /\ NewJob(p, package).result = Unreported
  BY NewJobType DEF NewJob
<1>1. ASSUME NEW t \in Handlers, NEW p \in Documents, PutPolicy(t, p) PROVE FlagInv'
  <2>1. p \in Known /\ p \in Policy /\ t \in Threads
    BY <1>s, EngineAssumption DEF Known
  <2> DEFINE j == NewJob(p, "none")
  <2>2. j \in Job /\ j.policy = p /\ j.next = 1 /\ j.result = Unreported
    BY <2>1, <1>j
  <2>3. /\ up /\ pc[t] = "idle" /\ tier # "none" /\ alone' = AllIdle
        /\ Begin(t, j) /\ Goto(t, "policy") /\ UNCHANGED <<up, store, disk, platform>>
    BY <1>1 DEF PutPolicy
  <2> HIDE DEF j
  <2> QED BY <1>t, <2>1, <2>2, <2>3, BeginsFlags
<1>2. CASE ServiceStarts
  <2>1. CASE tier = "none"
    <3>1. /\ ~up /\ up' /\ UNCHANGED <<store, disk, platform, pc, job, alone>>
          /\ AllIdle /\ store.enforcement = Unreported /\ UNCHANGED events
      BY <1>2, <2>1 DEF ServiceStarts, FlagInv, BaseInv, Unmanaged
    <3>2. \A k \in Flags : store.enforcement[k] # "applied"
      BY <3>1 DEF Unreported, Keys
    <3>3. AllFit'
      BY <3>1 DEF AllFit, Fits, AllIdle, AppMode, Receiving, Forgetting
    <3>4. BaseInv'
      BY <1>t, <2>1, <3>1, <3>3
         DEF FlagInv, BaseInv, ServerIsUp, PoliciesKnown, Unmanaged, AllIdle, EveryKeyReported,
             platform
    <3>5. alone' => Sole'
      BY <3>1, <3>2, <1>t, ToldFlags
         DEF FlagInv, Sole, OneWorks, Enforced, ResultsTrue, ReportsTrue, Told, platform
    <3> QED BY <3>4, <3>5 DEF FlagInv
  <2>2. CASE tier # "none"
    <3> DEFINE j == NewJob(store.policy, "none")
    <3>1. j \in Job /\ j.policy = store.policy /\ j.next = 1 /\ j.result = Unreported
      BY <1>s, <1>j
    <3>2. /\ pc[Main] = "idle" /\ alone' = AllIdle
          /\ Begin(Main, j) /\ Goto(Main, "policy") /\ UNCHANGED <<up, store, disk, platform>>
      BY <1>2, <2>2 DEF ServiceStarts
    <3> HIDE DEF j
    <3> QED BY <1>t, <1>s, <2>2, <3>1, <3>2, BeginsFlags
  <2> QED BY <2>1, <2>2
<1>p. ASSUME PackageAdded \/ PackageRemoved
      PROVE  Head(events).package \in Packages /\ tier # "none"
  BY <1>p, <1>t, FirstEvent
     DEF PackageAdded, PackageRemoved, Handles, FlagInv, BaseInv, Unmanaged
<1>3. CASE PackageAdded
  <2> DEFINE j == NewJob(store.policy, Head(events).package)
  <2>1. j \in Job /\ j.policy = store.policy /\ j.next = 1 /\ j.result = Unreported
    BY <1>3, <1>p, <1>s, <1>j
  <2>2. Handles("added", "launchable", j)
    BY <1>3 DEF PackageAdded
  <2> HIDE DEF j
  <2> QED BY <1>3, <1>p, <1>t, <1>s, <2>1, <2>2, BeginsFlags DEF Handles
<1>4. CASE PackageRemoved
  <2> DEFINE p == Head(events).package
             j == [NewJob(Default, p) EXCEPT !.pending = store.pending \ {p}]
  <2>1. j \in Job /\ j.policy = Default /\ j.next = 1 /\ j.result = Unreported
    <3>1. /\ NewJob(Default, p) \in Job /\ NewJob(Default, p).policy = Default
          /\ NewJob(Default, p).next = 1 /\ NewJob(Default, p).result = Unreported
      BY <1>4, <1>p, <1>j, DefaultTypes
    <3> QED BY <3>1, <1>s DEF Job
  <2>2. Handles("removed", "cleared", j)
    BY <1>4 DEF PackageRemoved
  <2> HIDE DEF j
  <2> QED BY <1>4, <1>p, <1>t, <1>s, <2>1, <2>2, BeginsFlags DEF Handles
<1> QED BY <1>1, <1>2, <1>3, <1>4

\* What a flag's attempt leaves in the results.
LEMMA EndedOn ==
  ASSUME NEW t \in Threads, NEW o \in Outcomes, job[t] \in Job
  PROVE  /\ \A k \in Flags : Ended(t, o)[k] = IF k = Flag(t) THEN o ELSE job[t].result[k]
         /\ tier # "owner" => Ended(t, o)["app_mode"] = "unsupported"
<1>1. job[t].result \in Enforcement /\ "app_mode" \in Keys /\ Flags \subseteq Keys
  BY JobFields DEF Keys
<1>2. "app_mode" \notin Flags
  BY EngineAssumption
<1> QED BY <1>1, <1>2 DEF Ended, Enforcement

\* A flag's attempt ends: the flag is turned, its failure told of, or it is
\* one whose call says nothing.
LEMMA FinishFlags ==
  ASSUME FlagInv, TypeOK', NEW t \in Threads, NEW o \in Outcomes, Finish(t, o),
         \/ inForce' = [inForce EXCEPT ![Flag(t)] = job[t].policy.flags[Flag(t)]]
         \/ (o # "applied" \/ Flag(t) \in Silent[tier]) /\ UNCHANGED inForce
  PROVE  FlagInv'
<1> DEFINE j == After(t, o)
           i == job[t].next
<1>1. /\ job[t] \in Job /\ inForce \in [Flags -> BOOLEAN] /\ store \in Record
      /\ job[t].policy \in Known /\ store.policy \in Known
  BY DEF FlagInv, BaseInv, TypeOK, PoliciesKnown
<1>2. /\ pc[t] = "flags" /\ Goto(t, AfterFlag(t)) /\ Begin(t, j)
      /\ UNCHANGED <<up, store, disk, tier, alone>>
  BY DEF Finish, Ask, After
<1>3. /\ j \in Job /\ j.policy = job[t].policy /\ j.next = i + 1 /\ j.result = Ended(t, o)
  BY <1>1, AfterType
<1>4. /\ Order \in Seq(STRING) /\ Len(Order) \in Nat /\ DOMAIN Order = 1..Len(Order)
      /\ \A k \in DOMAIN Order : Order[k] \in Flags
  BY EngineAssumption, FlagOf
<1>5. /\ i \in DOMAIN Order /\ Flag(t) = Order[i]
      /\ \A k \in DOMAIN Order : k < i => job[t].result[Order[k]] \in Outcomes
  BY <1>2 DEF FlagInv, BaseInv, AllFit, Fits, Flag
<1>6. \A k \in Flags : j.result[k] = IF k = Order[i] THEN o ELSE job[t].result[k]
  BY <1>1, <1>3, <1>5, EndedOn
<1>7. AfterFlag(t) \in {"flags", "packages", "enforcement"}
  BY DEF AfterFlag
<1>8. \A k \in DOMAIN Order : k < i + 1 => j.result[Order[k]] \in Outcomes
  <2> TAKE k \in DOMAIN Order
  <2>1. k < i + 1 => k < i \/ k = i
    BY <1>4, <1>5
  <2> QED BY <2>1, <1>4, <1>5, <1>6
<1>9. Fits(t, AfterFlag(t), j)
  <2>1. CASE AfterFlag(t) = "flags"
    <3>1. i < Len(Order)
      BY <1>4, <1>5, <2>1 DEF AfterFlag
    <3>2. i + 1 \in DOMAIN Order
      BY <1>4, <1>5, <3>1
    <3> QED BY <1>3, <1>8, <2>1, <3>2 DEF Fits, AppMode, Receiving, Forgetting
  <2>2. CASE AfterFlag(t) # "flags"
    <3>1. i >= Len(Order)
      BY <1>4, <1>5, <2>2 DEF AfterFlag
    <3>2. \A k \in Flags : j.result[k] \in Outcomes
      <4> TAKE k \in Flags
      <4>1. PICK n \in DOMAIN Order : k = Order[n]
        BY DEF Flags
      <4>2. n < i + 1
        BY <1>4, <1>5, <3>1
      <4> QED BY <1>8, <4>1, <4>2
    <3>3. AfterFlag(t) = "enforcement" => j.result["app_mode"] \in Outcomes
      <4>1. AfterFlag(t) = "enforcement" => tier # "owner"
        BY <1>4, <1>5, <3>1 DEF AfterFlag
      <4> QED BY <1>1, <1>3, <4>1, EndedOn DEF Outcomes
    <3> QED BY <1>7, <2>2, <3>2, <3>3 DEF Fits, AppMode, Receiving, Forgetting, Keys
  <2> QED BY <2>1, <2>2
<1>10. AfterFlag(t) \in Steps
  BY <1>7 DEF Steps
<1> HIDE DEF j
<1>11. BaseInv'
  BY <1>1, <1>2, <1>3, <1>9, <1>10, StepBase DEF FlagInv
<1>12. ASSUME alone PROVE Sole'
  <2>1. Sole
    BY <1>12 DEF FlagInv
  <2>2. job[t].policy = store.policy
    BY <1>2, <2>1 DEF Sole, Enforced, Forgetting
  <2>3. ASSUME NEW k \in Told, j.result[k] = "applied"
        PROVE  inForce'[k] = j.policy.flags[k]
    <3>1. k \in Flags
      BY DEF Told
    <3>2. CASE k = Flag(t)
      BY <1>1, <1>3, <1>5, <1>6, <2>3, <3>1, <3>2 DEF Told
    <3>3. CASE k # Flag(t)
      <4>1. job[t].result[k] = "applied"
        BY <1>5, <1>6, <2>3, <3>1, <3>3
      <4>2. inForce[k] = job[t].policy.flags[k]
        BY <1>2, <2>1, <4>1 DEF Sole, ResultsTrue
      <4> QED BY <1>1, <1>3, <3>1, <3>3, <4>2
    <3> QED BY <3>2, <3>3
  <2>4. AfterFlag(t) \notin {"idle"} \cup Receiving
    BY <1>7 DEF Receiving, Forgetting
  <2> QED BY <1>2, <1>3, <1>10, <2>1, <2>2, <2>3, <2>4, StepSole DEF FlagInv
<1> QED BY <1>2, <1>11, <1>12 DEF FlagInv

\* The end of an apply: its results are the outcomes, and the service is up.
LEMMA StoresFlags ==
  ASSUME FlagInv, TypeOK', NEW t \in Threads, StoresEnforcement(t)
  PROVE  FlagInv'
<1>1. /\ pc[t] = "enforcement" /\ Goto(t, "idle") /\ Begin(t, NoJob)
      /\ UNCHANGED <<disk, tier, inForce, alone, events>> /\ up' = TRUE
      /\ store' = [store EXCEPT !.enforcement = job[t].result]
  BY DEF StoresEnforcement, Write, platform, history
<1>2. /\ job[t] \in Job /\ job[t].result \in Enforcement /\ store \in Record
  <2>1. job[t] \in Job /\ store \in Record
    BY DEF FlagInv, BaseInv, TypeOK
  <2> QED BY <2>1, JobFields
<1>3. store'.policy = store.policy /\ store'.enforcement = job[t].result
  BY <1>1, <1>2 DEF Record
<1>4. /\ pc'[t] = "idle" /\ \A u \in Threads : u # t => pc'[u] = pc[u]
      /\ job'[t] = NoJob /\ \A u \in Threads : u # t => job'[u] = job[u]
  BY <1>1, NoJobType, Stepped, Begun DEF FlagInv, BaseInv, Steps
<1>5. NoJob.policy = Default
  BY DEF NoJob, NewJob
<1>6. BaseInv'
  <2>1. ServerIsUp' /\ PoliciesKnown'
    BY <1>1, <1>3, <1>4, <1>5 DEF FlagInv, BaseInv, ServerIsUp, PoliciesKnown, Known
  <2>2. tier # "none"
    BY <1>1 DEF FlagInv, BaseInv, Unmanaged, AllIdle
  <2>3. store'.enforcement \in [Keys -> Outcomes]
    <3>1. \A k \in Keys : job[t].result[k] \in Outcomes
      BY <1>1 DEF FlagInv, BaseInv, AllFit, Fits
    <3> QED BY <1>2, <1>3, <3>1 DEF Enforcement
  <2>4. ASSUME NEW u \in Threads PROVE Fits(u, pc[u], job[u])'
    <3>1. CASE u = t
      BY <1>4, <3>1 DEF Fits, AppMode, Receiving, Forgetting
    <3>2. CASE u # t
      <4>1. Fits(u, pc[u], job[u]) /\ pc'[u] = pc[u] /\ job'[u] = job[u]
        BY <1>4, <3>2 DEF FlagInv, BaseInv, AllFit
      <4> QED BY <4>1, <1>1 DEF Fits
    <3> QED BY <3>1, <3>2
  <2> QED BY <1>1, <2>1, <2>2, <2>3, <2>4 DEF BaseInv, Unmanaged, AllFit, EveryKeyReported
<1>7. ASSUME alone PROVE Sole'
  <2>1. Sole
    BY <1>7 DEF FlagInv
  <2>2. /\ job[t].policy = store.policy
        /\ \A k \in Told : job[t].result[k] = "applied" => inForce[k] = job[t].policy.flags[k]
    BY <1>1, <2>1 DEF Sole, Enforced, ResultsTrue, Forgetting
  <2> QED BY <1>1, <1>3, <1>4, <2>1, <2>2, NoJobType, StepSole DEF FlagInv, Steps
<1> QED BY <1>1, <1>6, <1>7 DEF FlagInv

LEMMA ApplyFlags ==
  ASSUME FlagInv, NEW t \in Threads,
         Apply(t) \/ FlagFails(t) \/ FlagReturnsFalse(t) \/ AppModeFails(t)
  PROVE  FlagInv'
<1> DEFINE j == job[t]
<1>t. TypeOK /\ TypeOK'
  BY ApplyType DEF FlagInv, BaseInv
<1>s. /\ store \in Record /\ job \in [Threads -> Job] /\ j \in Job /\ j.result \in Enforcement
      /\ store.policy \in Known /\ j.policy \in Known /\ (Begin(t, j) <=> job' = job)
  <2>1. store \in Record /\ job \in [Threads -> Job] /\ j \in Job
    BY <1>t DEF TypeOK
  <2>2. [job EXCEPT ![t] = j] = job
    BY <2>1
  <2> QED BY <2>1, <2>2, JobFields DEF FlagInv, BaseInv, PoliciesKnown, Begin
\* A job that keeps its policy and its results.
<1> DEFINE Same(i) == i \in Job /\ i.policy = j.policy /\ i.result = j.result
<1>a. ASSUME NEW from \in AppMode, NEW to \in AppMode, NEW i \in Job, Same(i),
             Ask(t, from, to, i), UNCHANGED inForce
      PROVE  FlagInv'
  <2>1. to \in Steps
    BY DEF AppMode, Steps
  <2> QED BY <1>a, <1>t, <2>1, Proceeds DEF Ask
<1>w. ASSUME NEW from \in AppMode, NEW to \in AppMode, NEW s \in Record,
             s.policy = store.policy, s.enforcement = store.enforcement,
             Write(t, from, to, s), UNCHANGED <<up, job>>
      PROVE  FlagInv'
  <2>1. to \in Steps
    BY DEF AppMode, Steps
  <2> QED BY <1>w, <1>t, <1>s, <2>1, Proceeds DEF Write, platform, history
<1>1. CASE StoresPolicy(t)
  <2>1. /\ store'.policy = j.policy /\ store'.enforcement = store.enforcement
        /\ pc[t] = "policy" /\ Goto(t, "flags") /\ Begin(t, j) /\ "flags" \in Steps
        /\ UNCHANGED <<up, disk, tier, inForce, alone>>
    BY <1>1, <1>s DEF StoresPolicy, Write, Record, Steps, platform, history
  <2>2. Fits(t, "flags", j)
    BY <2>1 DEF FlagInv, BaseInv, AllFit, Fits, AppMode, Receiving, Forgetting
  <2>3. BaseInv'
    BY <1>t, <1>s, <2>1, <2>2, StepBase DEF FlagInv
  <2>4. ASSUME alone PROVE Sole'
    <3>1. Sole
      BY <2>4 DEF FlagInv
    <3>2. \A k \in Told : j.result[k] = "applied" => inForce[k] = j.policy.flags[k]
      BY <2>1, <3>1 DEF Sole, ResultsTrue
    <3> QED BY <1>s, <2>1, <3>1, <3>2, StepSole DEF FlagInv, Receiving, Forgetting
  <2> QED BY <2>1, <2>3, <2>4 DEF FlagInv
<1>2. CASE FlagApplied(t)
  BY <1>2, <1>t, FinishFlags DEF FlagApplied, Outcomes
<1>3. CASE FlagFails(t)
  BY <1>3, <1>t, FinishFlags DEF FlagFails, Outcomes, Refusals
<1>4. CASE FlagReturnsFalse(t)
  BY <1>4, <1>t, FinishFlags DEF FlagReturnsFalse, Outcomes
<1>5. CASE FlagUnsupported(t)
  BY <1>5, <1>t, FinishFlags DEF FlagUnsupported, Outcomes
<1>6. CASE StoresEnforcement(t)
  BY <1>6, <1>t, StoresFlags
<1>7. CASE ReadsPackages(t)
  <2>1. Same([j EXCEPT !.wanted = Wanted(j.policy)])
    <3>1. Wanted(j.policy) \subseteq Packages
      BY <1>t DEF Wanted, TypeOK
    <3> QED BY <1>s, <3>1 DEF Job
  <2> QED BY <1>7, <1>a, <2>1 DEF ReadsPackages, AppMode
<1>8. CASE ReadsSuspended(t)
  <2>1. Same([j EXCEPT !.before = store.suspended])
    BY <1>s, StoreFields DEF Job
  <2> QED BY <1>8, <1>a, <2>1 DEF ReadsSuspended, Read, AppMode
<1>9. CASE Lifts(t)
  <2>1. Same([j EXCEPT !.stuck = ToLift(t) \ installed])
    BY <1>s DEF ToLift, Job
  <2> QED BY <1>9, <1>a, <2>1 DEF Lifts, AppMode
<1>10. CASE Holds(t)
  <2>1. Same([j EXCEPT !.stuck = @ \cup Refused(t)])
    BY <1>s DEF Refused, Job
  <2> QED BY <1>10, <1>a, <2>1 DEF Holds, AppMode
<1>11. CASE AppModeFails(t)
  <2> PICK o \in Refusals : Ask(t, pc[t], "suspended", [j EXCEPT !.outcome = o])
    BY <1>11 DEF AppModeFails
  <2>1. Same([j EXCEPT !.outcome = o])
    BY <1>s DEF Job, Outcomes
  <2> QED BY <1>11, <1>a, <2>1 DEF AppModeFails, AppMode
<1>12. CASE RecordsSuspended(t)
  <2>1. j.wanted \ j.stuck \in SUBSET Packages
    BY <1>s, JobFields
  <2> QED BY <1>12, <1>s, <1>w, <2>1 DEF RecordsSuspended, Record, AppMode
<1>13. CASE RecordsUnsuspendable(t)
  <2>1. j.stuck \in SUBSET Packages
    BY <1>s, JobFields
  <2> QED BY <1>13, <1>s, <1>w, <2>1 DEF RecordsUnsuspendable, Record, AppMode
<1>14. CASE ReadsPending(t)
  <2>1. Same([j EXCEPT !.pending = StillPending(t)])
    <3>1. StillPending(t) \subseteq Packages
      BY <1>s, StoreFields DEF StillPending
    <3> QED BY <1>s, <3>1 DEF Job
  <2> QED BY <1>14, <1>a, <2>1 DEF ReadsPending, Read, AppMode
<1>15. CASE RecordsPending(t)
  <2> DEFINE i == [j EXCEPT !.result["app_mode"] = AppModeResult(t)]
  <2>1. AppModeResult(t) \in Outcomes
    BY <1>s, JobFields DEF AppModeResult, Outcomes
  <2>2. /\ i \in Job /\ i.policy = j.policy /\ i.result["app_mode"] \in Outcomes
        /\ \A k \in Flags : i.result[k] = j.result[k]
    <3>1. [j.result EXCEPT !["app_mode"] = AppModeResult(t)] \in Enforcement
      BY <1>s, <2>1 DEF Enforcement
    <3>2. "app_mode" \in Keys /\ "app_mode" \notin Flags /\ Flags \subseteq Keys
      BY EngineAssumption DEF Keys
    <3> QED BY <1>s, <2>1, <3>1, <3>2 DEF Job, Enforcement
  <2>3. /\ store'.policy = store.policy /\ store'.enforcement = store.enforcement
        /\ pc[t] = "pending" /\ Goto(t, "enforcement") /\ Begin(t, i) /\ "enforcement" \in Steps
        /\ UNCHANGED <<up, disk, tier, inForce, alone>>
    BY <1>15, <1>s DEF RecordsPending, Write, Record, Steps, platform, history
  <2> HIDE DEF i
  <2>4. Fits(t, "enforcement", i)
    <3>1. \A k \in Flags : j.result[k] \in Outcomes
      BY <2>3 DEF FlagInv, BaseInv, AllFit, Fits, AppMode
    <3> QED BY <2>2, <3>1 DEF Fits, Keys, AppMode, Receiving, Forgetting
  <2>5. BaseInv'
    BY <1>t, <1>s, <2>2, <2>3, <2>4, StepBase DEF FlagInv
  <2>6. ASSUME alone PROVE Sole'
    <3>1. Sole
      BY <2>6 DEF FlagInv
    <3>2. /\ j.policy = store.policy
          /\ \A k \in Told : j.result[k] = "applied" => inForce[k] = j.policy.flags[k]
      BY <2>3, <3>1 DEF Sole, Enforced, ResultsTrue, Forgetting
    <3>3. Told \subseteq Flags
      BY <1>t, ToldFlags
    <3>4. \A k \in Told : i.result[k] = "applied" => inForce'[k] = i.policy.flags[k]
      BY <2>2, <2>3, <3>2, <3>3
    <3> QED BY <2>2, <2>3, <3>1, <3>2, <3>4, StepSole DEF FlagInv, Receiving, Forgetting
  <2> QED BY <2>3, <2>5, <2>6 DEF FlagInv
<1> QED BY <1>1, <1>2, <1>3, <1>4, <1>5, <1>6, <1>7, <1>8, <1>9, <1>10, <1>11, <1>12,
  <1>13, <1>14, <1>15 DEF Apply

LEMMA ReceiveFlags ==
  ASSUME FlagInv, Receive
  PROVE  FlagInv'
<1> DEFINE j == job[Main]
<1>t. TypeOK /\ TypeOK' /\ Main \in Threads
  BY ReceiveType DEF FlagInv, BaseInv, Threads
<1>s. /\ store \in Record /\ job \in [Threads -> Job] /\ j \in Job
      /\ store.policy \in Known /\ j.policy \in Known /\ (Begin(Main, j) <=> job' = job)
      /\ store.pending \subseteq Packages /\ store.suspended \subseteq Packages
      /\ store.enforcement \in Enforcement
      /\ j.pending \subseteq Packages /\ j.before \subseteq Packages
  <2>1. store \in Record /\ job \in [Threads -> Job] /\ j \in Job
    BY <1>t DEF TypeOK
  <2>2. [job EXCEPT ![Main] = j] = job
    BY <2>1
  <2> QED BY <1>t, <2>1, <2>2, StoreFields, JobFields DEF FlagInv, BaseInv, PoliciesKnown, Begin
<1>k. AppMode \cup Receiving \subseteq Steps \ {"idle"}
  BY DEF AppMode, Receiving, Forgetting, Steps
\* The steps between two of a handler.
<1>r. ASSUME NEW from \in Receiving, NEW to \in Receiving, from \in Forgetting <=> to \in Forgetting,
             NEW i \in Job, i.policy = j.policy, i.result = j.result, Read(Main, from, to, i)
      PROVE  FlagInv'
  <2> HIDE DEF j
  <2> QED BY <1>r, <1>t, <1>k, Proceeds DEF Read, Ask, j
<1>w. ASSUME NEW from \in Receiving, NEW to \in Receiving, from \in Forgetting <=> to \in Forgetting,
             NEW s \in Record, s.policy = store.policy, s.enforcement = store.enforcement,
             Write(Main, from, to, s), UNCHANGED <<up, job>>
      PROVE  FlagInv'
  <2> HIDE DEF j
  <2> QED BY <1>w, <1>t, <1>s, <1>k, Proceeds DEF Write, platform, history, j
\* The end of a handler.
<1>e. ASSUME pc[Main] \in Receiving, Goto(Main, "idle"), Begin(Main, NoJob),
             store'.policy = store.policy, store'.enforcement = store.enforcement,
             UNCHANGED <<up, disk, tier, inForce, alone>>
      PROVE  FlagInv'
  <2>1. /\ NoJob \in Job /\ NoJob.policy \in Known /\ "idle" \in Steps /\ pc[Main] # "idle"
        /\ store'.policy \in Known
    BY <1>e, <1>s, NoJobType DEF NoJob, NewJob, Known, Steps, Receiving, Forgetting
  <2>2. Fits(Main, "idle", NoJob)
    BY DEF Fits, AppMode, Receiving, Forgetting
  <2>3. BaseInv'
    BY <1>e, <1>t, <2>1, <2>2, StepBase DEF FlagInv
  <2>4. ASSUME alone PROVE Sole'
    <3>1. Sole
      BY <2>4 DEF FlagInv
    <3>2. \A u \in Threads : u # Main => pc[u] = "idle"
      BY <1>t, <2>1, <3>1 DEF Sole, OneWorks
    <3>3. up => \A k \in Told : store.enforcement[k] = "applied"
                                  => inForce[k] = store.policy.flags[k]
      BY <1>e, <3>1, <3>2 DEF Sole, ReportsTrue
    <3> QED BY <1>e, <1>t, <2>1, <3>1, <3>3, StepSole DEF FlagInv
  <2> QED BY <1>e, <2>3, <2>4 DEF FlagInv
<1>1. CASE QueriesLauncher
  <2>1. CASE Held(j.package, j.policy)
    BY <1>1, <1>r, <1>s, <2>1 DEF QueriesLauncher, Receiving, Forgetting
  <2>2. CASE ~Held(j.package, j.policy)
    <3>1. Read(Main, "launchable", "idle", NoJob)
      BY <1>1, <2>2 DEF QueriesLauncher
    <3> QED BY <1>e, <3>1 DEF Read, Ask, Receiving
  <2> QED BY <2>1, <2>2
<1>2. CASE ReadsAwaiting
  <2>1. [j EXCEPT !.pending = store.pending \cup {j.package}] \in Job
    <3>1. j.package \in Packages
      BY <1>2, <1>t DEF ReadsAwaiting, Read, Ask, TypeOK
    <3> QED BY <1>s, <3>1 DEF Job
  <2>2. /\ [j EXCEPT !.pending = store.pending \cup {j.package}].policy = j.policy
        /\ [j EXCEPT !.pending = store.pending \cup {j.package}].result = j.result
    BY <1>s DEF Job
  <2> QED BY <1>2, <1>r, <2>1, <2>2 DEF ReadsAwaiting, Receiving, Forgetting
<1>3. CASE RecordsAwaiting
  BY <1>3, <1>w, <1>s DEF RecordsAwaiting, Record, Receiving, Forgetting
<1>4. CASE ReadsEnforcement
  <2> DEFINE i == [j EXCEPT !.result = store.enforcement]
  <2>1. i \in Job /\ i.policy = j.policy /\ i.result = store.enforcement
    BY <1>s DEF Job
  <2>2. /\ pc[Main] = "outcomes" /\ Goto(Main, "packages") /\ Begin(Main, i)
        /\ UNCHANGED <<up, store, disk, tier, inForce, alone>>
    BY <1>4 DEF ReadsEnforcement, Read, Ask
  <2> HIDE DEF i
  <2>3. pc[Main] \in Receiving /\ pc[Main] # "idle" /\ "packages" \in Steps
    BY <2>2 DEF Receiving, Steps
  <2>4. store.enforcement \in [Keys -> Outcomes]
    <3>1. up
      BY <1>t, <2>3 DEF FlagInv, BaseInv, AllFit, Fits
    <3>2. tier # "none"
      BY <1>t, <2>3 DEF FlagInv, BaseInv, Unmanaged, AllIdle
    <3> QED BY <3>1, <3>2 DEF FlagInv, BaseInv, EveryKeyReported
  <2>5. Fits(Main, "packages", i)
    BY <2>1, <2>4 DEF Fits, AppMode, Receiving, Forgetting, Keys
  <2>6. BaseInv'
    BY <1>t, <1>s, <2>1, <2>2, <2>3, <2>5, StepBase DEF FlagInv
  <2>7. ASSUME alone PROVE Sole'
    <3>1. Sole
      BY <2>7 DEF FlagInv
    <3>2. j.policy = store.policy
      BY <1>t, <2>2, <3>1 DEF Sole, Enforced, Forgetting
    <3>3. up /\ \A u \in Threads : u # Main => pc[u] = "idle"
      BY <1>t, <2>3, <3>1 DEF Sole, OneWorks, FlagInv, BaseInv, AllFit, Fits
    <3>4. \A k \in Told : store.enforcement[k] = "applied"
                            => inForce[k] = store.policy.flags[k]
      BY <2>3, <3>1, <3>3 DEF Sole, ReportsTrue
    <3>5. "packages" \notin {"idle"} \cup Receiving
      BY DEF Receiving, Forgetting
    <3> QED BY <1>t, <2>1, <2>2, <2>3, <3>1, <3>2, <3>4, <3>5, StepSole DEF FlagInv
  <2> QED BY <2>2, <2>6, <2>7 DEF FlagInv
<1>5. CASE ClearsPending
  BY <1>5, <1>w, <1>s DEF ClearsPending, Record, Receiving, Forgetting
<1>6. CASE ReadsHeld
  <2>1. /\ [j EXCEPT !.before = store.suspended \ {j.package}] \in Job
        /\ [j EXCEPT !.before = store.suspended \ {j.package}].policy = j.policy
        /\ [j EXCEPT !.before = store.suspended \ {j.package}].result = j.result
    BY <1>s DEF Job
  <2> QED BY <1>6, <1>r, <2>1 DEF ReadsHeld, Receiving, Forgetting
<1>7. CASE ForgetsSuspended
  <2>1. /\ pc[Main] = "lifted" /\ Goto(Main, "idle") /\ Begin(Main, NoJob)
        /\ UNCHANGED <<up, disk, tier, inForce, alone>>
        /\ store' = [store EXCEPT !.suspended = j.before]
    BY <1>7 DEF ForgetsSuspended, Write, platform, history
  <2>2. store'.policy = store.policy /\ store'.enforcement = store.enforcement
    BY <1>s, <2>1 DEF Record
  <2> QED BY <1>e, <2>1, <2>2 DEF Receiving, Forgetting
<1> QED BY <1>1, <1>2, <1>3, <1>4, <1>5, <1>6, <1>7 DEF Receive

LEMMA WorldFlags ==
  ASSUME FlagInv, \/ Flush \/ Crash
                  \/ \E p \in Packages : Install(p) \/ Uninstall(p)
  PROVE  FlagInv'
<1>t. TypeOK'
  BY WorldType DEF FlagInv, BaseInv
\* Nothing but the disk, the packages and the events changes.
<1>u. ASSUME UNCHANGED <<up, store, tier, inForce, pc, job, alone>>,
             disk'.policy \in Known, tier = "none" => events' = events,
             disk'.enforcement \in {disk.enforcement, store.enforcement}
      PROVE  FlagInv'
  <2>1. BaseInv'
    BY <1>u, <1>t DEF FlagInv, BaseInv, ServerIsUp, PoliciesKnown, Unmanaged, AllFit, Fits,
       EveryKeyReported, AllIdle
  <2>2. (alone => Sole)'
    BY <1>u DEF FlagInv, Sole, OneWorks, Enforced, ResultsTrue, ReportsTrue, Told
  <2> QED BY <2>1, <2>2 DEF FlagInv
<1>1. CASE Flush
  BY <1>1, <1>u DEF Flush, platform, history, FlagInv, BaseInv, PoliciesKnown
<1>2. CASE Crash
  <2>1. /\ \A t \in Threads : pc'[t] = "idle" /\ job'[t].policy = Default
        /\ ~up' /\ store' = disk /\ disk' = disk /\ tier' = tier /\ events' = <<>>
    BY <1>2 DEF Crash, NoJob, NewJob, platform
  <2>2. AllFit'
    BY <2>1 DEF AllFit, Fits, AppMode, Receiving, Forgetting
  <2>3. BaseInv'
    BY <1>t, <2>1, <2>2 DEF FlagInv, BaseInv, ServerIsUp, PoliciesKnown, Known, Unmanaged,
       EveryKeyReported, AllIdle, Threads
  <2>4. Sole'
    BY <2>1 DEF Sole, OneWorks, Enforced, ResultsTrue, ReportsTrue
  <2> QED BY <2>3, <2>4 DEF FlagInv
<1>3. ASSUME NEW p \in Packages, Install(p) \/ Uninstall(p)
      PROVE  FlagInv'
  <2>1. UNCHANGED <<up, store, disk, tier, inForce, pc, job, alone>>
    BY <1>3 DEF Install, Uninstall
  <2>2. tier = "none" => events' = events
    BY <1>3 DEF Install, Uninstall, Broadcast
  <2> QED BY <1>u, <2>1, <2>2 DEF FlagInv, BaseInv, PoliciesKnown
<1> QED BY <1>1, <1>2, <1>3

LEMMA NextFlags == FlagInv /\ [Next]_vars => FlagInv'
<1> SUFFICES ASSUME FlagInv, [Next]_vars PROVE FlagInv'
  OBVIOUS
<1>1. CASE UNCHANGED vars
  <2>1. UNCHANGED <<up, store, disk, tier, inForce, events, pc, job, alone>> /\ TypeOK'
    BY <1>1, NextType DEF vars, platform, history, FlagInv, BaseInv
  <2>2. BaseInv'
    BY <2>1 DEF FlagInv, BaseInv, ServerIsUp, PoliciesKnown, Unmanaged, AllFit, Fits,
       EveryKeyReported, AllIdle
  <2>3. (alone => Sole)'
    BY <2>1 DEF FlagInv, Sole, OneWorks, Enforced, ResultsTrue, ReportsTrue, Told
  <2> QED BY <2>2, <2>3 DEF FlagInv
<1> QED BY <1>1, BeginningFlags, ApplyFlags, ReceiveFlags, WorldFlags DEF Next

\* The invariant the theorems below rest on.
LEMMA FlagsKept == Spec => []FlagInv
BY InitFlags, NextFlags, PTL DEF Spec

\* Whenever the service listens on a tablet that is owner or admin, every
\* key has an outcome: for any policies, overlapping applies, failing calls,
\* package events, crashes and writes lost.
THEOREM OutcomesComplete == Spec => []EveryKeyReported
<1>1. FlagInv => EveryKeyReported
  BY DEF FlagInv, BaseInv
<1> QED BY <1>1, FlagsKept, PTL

\* At rest after a whole apply that nothing overlapped, a flag reported
\* applied has the stored policy's value unless its call fails without a
\* word, whatever applies overlapped, failed or were cut short before.
THEOREM FlagsTrue == Spec => []FlagsInForce
<1>1. FlagInv => FlagsInForce
  BY DEF FlagInv, Sole, ReportsTrue, Told, FlagsInForce, Quiet, AllIdle
<1> QED BY <1>1, FlagsKept, PTL
-----------------------------------------------------------------------------
(* The refinement: what each step is to TabletPromise.                     *)

Turning   == {"policy", "flags"}
State     == IF ~AllIdle THEN "busy" ELSE IF up THEN "settled" ELSE "down"
Enforcing == {job[t].policy : t \in {u \in Threads : pc[u] \in Turning}}
Reported  == [k \in Flags |-> store.enforcement[k]]

LEMMA SameReported == store'.enforcement = store.enforcement => Reported' = Reported
BY DEF Reported

\* The outcomes of the flags are outcomes of the promise.
LEMMA ReportedType ==
  ASSUME NEW s \in Record
  PROVE  [k \in Flags |-> s.enforcement[k]] \in [Flags -> Outcomes \cup {"none"}]
<1>1. s.enforcement \in [Keys -> Outcomes \cup {"none"}]
  BY StoreFields DEF Enforcement
<1> QED BY <1>1 DEF Keys

\* The tier is the platform's.
LEMMA SameTold == [Next]_vars => Told' = Told
<1> SUFFICES ASSUME [Next]_vars PROVE tier' = tier
  BY DEF Told
<1>1. ASSUME NEW t \in Threads, Apply(t) \/ FlagFails(t) \/ FlagReturnsFalse(t) \/ AppModeFails(t)
      PROVE  tier' = tier
  BY <1>1 DEF Apply, StoresPolicy, FlagApplied, FlagFails, FlagReturnsFalse, FlagUnsupported,
     ReadsPackages, ReadsSuspended, Lifts, Holds, AppModeFails, RecordsSuspended,
     RecordsUnsuspendable, ReadsPending, RecordsPending, StoresEnforcement, Finish, Write, Read,
     Ask, platform
<1>2. Receive => tier' = tier
  BY DEF Receive, QueriesLauncher, ReadsAwaiting, RecordsAwaiting, ReadsEnforcement,
     ClearsPending, ReadsHeld, ForgetsSuspended, Write, Read, Ask, platform
<1> QED BY <1>1, <1>2 DEF Next, vars, PutPolicy, ServiceStarts, PackageAdded, PackageRemoved,
     Handles, Flush, Crash, Install, Uninstall, platform

\* What a thread's step makes of the policies being enforced.
LEMMA EnforcingStep ==
  ASSUME TypeOK, NEW t \in Threads, NEW step \in Steps, NEW j \in Job,
         Goto(t, step), Begin(t, j)
  PROVE  /\ pc[t] \notin Turning /\ step \notin Turning => Enforcing' = Enforcing
         /\ pc[t] \in Turning /\ step \in Turning /\ j.policy = job[t].policy
              => Enforcing' = Enforcing
         /\ pc[t] \notin Turning /\ step \in Turning
              => Enforcing' = Enforcing \cup {j.policy}
         /\ pc[t] \in Turning /\ step \notin Turning
              => Enforcing' \in {Enforcing, Enforcing \ {job[t].policy}}
         /\ pc[t] \in Turning => job[t].policy \in Enforcing
<1> DEFINE Others == {job[u].policy : u \in {v \in Threads : v # t /\ pc[v] \in Turning}}
<1>1. /\ pc'[t] = step /\ \A u \in Threads : u # t => pc'[u] = pc[u]
      /\ job'[t] = j /\ \A u \in Threads : u # t => job'[u] = job[u]
  BY Stepped, Begun
<1>2. Enforcing = IF pc[t] \in Turning THEN Others \cup {job[t].policy} ELSE Others
  BY DEF Enforcing
<1>3. Enforcing' = IF step \in Turning THEN Others \cup {j.policy} ELSE Others
  BY <1>1 DEF Enforcing
<1> HIDE DEF Others
<1> QED BY <1>2, <1>3

\* At work or not.
LEMMA Busy == (\E t \in Threads : pc[t] # "idle") => State = "busy"
BY DEF State, AllIdle
LEMMA Resting == State # "busy" => AllIdle /\ State \in {"settled", "down"}
BY DEF State

LEMMA PromiseInit == Init => Promise!Init
<1> SUFFICES ASSUME Init PROVE Promise!Init
  OBVIOUS
<1>1. store.policy = Default /\ disk.policy = Default
  BY DEF Init, Fresh
<1>2. State = "down" /\ Enforcing = {}
  BY DEF Init, State, AllIdle, Enforcing, Turning
<1>3. inForce \in [Flags -> BOOLEAN] /\ alone = FALSE /\ Told \subseteq Flags
  BY DEF Init, Told
<1>4. Reported \in [Flags -> Outcomes \cup {"none"}]
  BY InitType, ReportedType DEF Reported, TypeOK
<1> QED BY <1>1, <1>2, <1>3, <1>4
    DEF Promise!Init, State, Enforcing, Turning, Reported, Told

\* A step of a thread that turns no flag, writes neither the policy nor the
\* outcomes and ends nothing changes nothing the promise speaks of.
LEMMA QuietStep ==
  ASSUME TypeOK, NEW t \in Threads, pc[t] \notin {"idle"} \cup Turning,
         NEW step \in Steps \ ({"idle"} \cup Turning), Goto(t, step),
         job' = job \/ \E j \in Job : Begin(t, j), Told' = Told,
         store'.policy = store.policy, store'.enforcement = store.enforcement,
         disk' = disk, inForce' = inForce, alone' = alone
  PROVE  UNCHANGED Promise!promise
<1>1. /\ job \in [Threads -> Job] /\ pc \in [Threads -> Steps] /\ pc'[t] = step
  BY Stepped DEF TypeOK
<1>2. State = "busy" /\ State' = "busy"
  BY <1>1 DEF State, AllIdle
<1>3. Enforcing' = Enforcing
  <2>1. \E j \in Job : Begin(t, j)
    <3>1. [job EXCEPT ![t] = job[t]] = job /\ job[t] \in Job
      BY <1>1
    <3> QED BY <3>1 DEF Begin
  <2> QED BY <2>1, EnforcingStep
<1> QED BY <1>2, <1>3, SameReported
    DEF Promise!promise, State, Enforcing, Turning, Reported, Told

\* The promise's actions, in the terms above.
LEMMA IsBegin ==
  ASSUME NEW p \in Known,
         /\ State = "down" => p = store.policy
         /\ State' = "busy" /\ Enforcing' = Enforcing \cup {p}
         /\ alone' = (State # "busy") /\ Told' = Told /\ Reported' = Reported
         /\ UNCHANGED <<store, disk, inForce>>
  PROVE  Promise!Next
<1>1. Promise!Begin(p)
  BY DEF Promise!Begin, State, Enforcing, Turning, Reported
<1> QED BY <1>1 DEF Promise!Next, Known, Told

LEMMA IsAttend ==
  ASSUME State # "down" /\ State' = "busy" /\ alone' = (alone /\ State # "busy"),
         Enforcing' = Enforcing /\ Told' = Told /\ Reported' = Reported,
         UNCHANGED <<store, disk, inForce>>
  PROVE  Promise!Next
<1>1. Promise!Attend
  BY DEF Promise!Attend, State, Enforcing, Turning, Reported
<1> QED BY <1>1 DEF Promise!Next, Told

LEMMA IsReplace ==
  ASSUME store'.policy \in Enforcing /\ Told' = Told /\ Reported' = Reported,
         State' = State /\ Enforcing' = Enforcing /\ UNCHANGED <<disk, inForce, alone>>
  PROVE  Promise!Next
<1>1. Promise!Replace
  BY DEF Promise!Replace, State, Enforcing, Turning, Reported
<1> QED BY <1>1 DEF Promise!Next, Told

LEMMA IsTurn ==
  ASSUME NEW k \in Flags, NEW p \in Enforcing,
         inForce' \in {inForce, [inForce EXCEPT ![k] = p.flags[k]]},
         Enforcing' \in {Enforcing, Enforcing \ {p}},
         State' = State /\ Told' = Told /\ Reported' = Reported,
         UNCHANGED <<store, disk, alone>>
  PROVE  Promise!Next
<1>1. Promise!Turn(k)
  BY DEF Promise!Turn, State, Enforcing, Turning, Reported
<1> QED BY <1>1 DEF Promise!Next, Told

LEMMA IsReport ==
  ASSUME State # "settled" /\ State' \in {"busy", "settled"},
         Reported' \in [Flags -> Outcomes \cup {"none"}],
         State' = "settled" /\ alone =>
           \A k \in Told' : Reported'[k] = "applied" => inForce'[k] = store'.policy.flags[k],
         store'.policy = store.policy /\ Enforcing' = Enforcing /\ Told' = Told,
         UNCHANGED <<disk, inForce, alone>>
  PROVE  Promise!Next
<1>1. Promise!Report
  BY DEF Promise!Report, Promise!Holds, State, Enforcing, Turning, Reported, Told
<1> QED BY <1>1 DEF Promise!Next, Told

LEMMA IsPersist ==
  ASSUME disk'.policy = store.policy /\ Told' = Told /\ Reported' = Reported,
         State' = State /\ Enforcing' = Enforcing /\ UNCHANGED <<store, inForce, alone>>
  PROVE  Promise!Next
<1>1. Promise!Persist
  BY DEF Promise!Persist, State, Enforcing, Turning, Reported
<1> QED BY <1>1 DEF Promise!Next, Told

LEMMA IsRestart ==
  ASSUME State' = "down" /\ store'.policy = disk.policy /\ Enforcing' = {} /\ Told' = Told,
         Reported' \in [Flags -> Outcomes \cup {"none"}] /\ UNCHANGED <<disk, inForce, alone>>
  PROVE  Promise!Next
<1>1. Promise!Restart
  BY DEF Promise!Restart, State, Enforcing, Turning, Reported
<1> QED BY <1>1 DEF Promise!Next, Told

LEMMA BeginningPromise ==
  ASSUME FlagInv, FlagInv', Told' = Told,
         \/ \E t \in Handlers, p \in Documents : PutPolicy(t, p)
         \/ ServiceStarts \/ PackageAdded \/ PackageRemoved
  PROVE  Promise!Next
<1>t. /\ TypeOK /\ store \in Record /\ store.policy \in Policy /\ store.policy \in Known
      /\ Main \in Threads /\ Handlers \subseteq Threads
  <2>1. TypeOK /\ store \in Record /\ store.policy \in Known
    BY DEF FlagInv, BaseInv, TypeOK, PoliciesKnown
  <2> QED BY <2>1, StoreFields DEF Threads
\* A policy comes.
<1>b. ASSUME NEW t \in Threads, NEW p \in Known, p \in Policy, pc[t] = "idle",
             Goto(t, "policy"), Begin(t, NewJob(p, "none")), alone' = AllIdle,
             ~up => AllIdle /\ p = store.policy,
             UNCHANGED <<store, disk, inForce>>
      PROVE  Promise!Next
  <2>1. /\ NewJob(p, "none") \in Job /\ NewJob(p, "none").policy = p /\ "policy" \in Steps
        /\ pc[t] \notin Turning /\ "policy" \in Turning
    BY <1>b, NewJobType DEF NewJob, Steps, Turning
  <2>2. Enforcing' = Enforcing \cup {p}
    BY <1>b, <1>t, <2>1, EnforcingStep
  <2>3. State' = "busy"
    <3>1. pc'[t] = "policy"
      BY <1>b, <1>t, <2>1, Stepped
    <3> QED BY <3>1 DEF State, AllIdle
  <2>4. (State = "down" => p = store.policy) /\ AllIdle = (State # "busy")
    BY <1>b DEF State, AllIdle
  <2> QED BY <1>b, <2>2, <2>3, <2>4, SameReported, IsBegin
\* A broadcast is handled.
<1>h. ASSUME NEW kind, NEW to \in Receiving, NEW j \in Job, Handles(kind, to, j)
      PROVE  Promise!Next
  <2>1. /\ pc[Main] = "idle" /\ up /\ Goto(Main, to) /\ Begin(Main, j)
        /\ alone' = (alone /\ AllIdle) /\ UNCHANGED <<store, disk, inForce>>
    BY <1>h DEF Handles, platform
  <2>2. to \in Steps /\ to # "idle" /\ to \notin Turning /\ pc[Main] \notin Turning
    BY <2>1 DEF Receiving, Forgetting, Steps, Turning
  <2>3. Enforcing' = Enforcing
    BY <1>t, <2>1, <2>2, EnforcingStep
  <2>4. State' = "busy"
    <3>1. pc'[Main] = to
      BY <1>t, <2>1, <2>2, Stepped
    <3> QED BY <1>t, <2>2, <3>1 DEF State, AllIdle
  <2>5. State # "down" /\ AllIdle = (State # "busy")
    BY <2>1 DEF State, AllIdle
  <2> QED BY <2>1, <2>3, <2>4, <2>5, SameReported, IsAttend
<1>p. ASSUME PackageAdded \/ PackageRemoved
      PROVE  Head(events).package \in Packages
  BY <1>p, <1>t, FirstEvent DEF PackageAdded, PackageRemoved, Handles
<1>1. ASSUME NEW t \in Handlers, NEW p \in Documents, PutPolicy(t, p) PROVE Promise!Next
  <2>1. p \in Known /\ p \in Policy /\ t \in Threads
    BY <1>t, EngineAssumption DEF Known
  <2> QED BY <1>1, <2>1, <1>b DEF PutPolicy, platform
<1>2. CASE ServiceStarts
  <2>1. CASE tier = "none"
    <3>1. /\ State = "down" /\ State' = "settled" /\ UNCHANGED <<store, disk, inForce, alone, pc, job>>
          /\ store.enforcement = Unreported
      BY <1>2, <2>1 DEF ServiceStarts, platform, FlagInv, BaseInv, Unmanaged, State, AllIdle
    <3>2. Enforcing' = Enforcing /\ Reported' = Reported
      BY <3>1 DEF Enforcing, Reported
    <3>3. \A k \in Told : Reported[k] # "applied"
      BY <3>1 DEF Told, Reported, Unreported, Keys
    <3>4. Reported \in [Flags -> Outcomes \cup {"none"}]
      BY <1>t, ReportedType DEF Reported
    <3> QED BY <3>1, <3>2, <3>3, <3>4, IsReport
  <2>2. CASE tier # "none"
    <3>1. AllIdle
      BY <1>2 DEF ServiceStarts, FlagInv, BaseInv, ServerIsUp, AllIdle, Threads
    <3> QED BY <1>2, <1>t, <1>b, <2>2, <3>1 DEF ServiceStarts, platform
  <2> QED BY <2>1, <2>2
<1>3. CASE PackageAdded
  <2>1. NewJob(store.policy, Head(events).package) \in Job
    BY <1>3, <1>p, <1>t, NewJobType
  <2> QED BY <1>3, <2>1, <1>h DEF PackageAdded, Receiving
<1>4. CASE PackageRemoved
  <2> DEFINE p == Head(events).package
             j == [NewJob(Default, p) EXCEPT !.pending = store.pending \ {p}]
  <2>1. j \in Job
    <3>1. NewJob(Default, p) \in Job
      BY <1>4, <1>p, DefaultTypes, NewJobType
    <3> QED BY <1>t, <3>1, StoreFields DEF Job
  <2>2. Handles("removed", "cleared", j)
    BY <1>4 DEF PackageRemoved
  <2> HIDE DEF j
  <2> QED BY <2>1, <2>2, <1>h DEF Receiving, Forgetting
<1> QED BY <1>1, <1>2, <1>3, <1>4

\* A thread's work ends: what is reported now holds.
LEMMA EndPromise ==
  ASSUME FlagInv, FlagInv', Told' = Told, NEW t \in Threads,
         pc[t] \notin {"idle"} \cup Turning, Goto(t, "idle"), Begin(t, NoJob),
         up', store'.policy = store.policy, UNCHANGED <<disk, inForce, alone>>
  PROVE  Promise!Next
<1>1. TypeOK /\ TypeOK' /\ "idle" \in Steps /\ "idle" \notin Turning
  BY DEF FlagInv, BaseInv, Steps, Turning
<1>2. Enforcing' = Enforcing
  BY <1>1, NoJobType, EnforcingStep
<1>3. State = "busy" /\ State' \in {"busy", "settled"}
  BY DEF State, AllIdle
<1>4. Reported' \in [Flags -> Outcomes \cup {"none"}]
  BY <1>1, ReportedType DEF Reported, TypeOK
<1>5. ASSUME State' = "settled", alone
      PROVE  \A k \in Told' : Reported'[k] = "applied" => inForce'[k] = store'.policy.flags[k]
  <2>1. Sole' /\ AllIdle'
    BY <1>5 DEF FlagInv, State
  <2>2. \A k \in Told' : store'.enforcement[k] = "applied" => inForce'[k] = store'.policy.flags[k]
    BY <2>1 DEF Sole, ReportsTrue, AllIdle
  <2> QED BY <2>2 DEF Reported, Told
<1> QED BY <1>2, <1>3, <1>4, <1>5, IsReport

\* A flag's attempt ends.
LEMMA TurnPromise ==
  ASSUME FlagInv, Told' = Told, NEW t \in Threads, NEW o \in Outcomes, Finish(t, o),
         \/ inForce' = [inForce EXCEPT ![Flag(t)] = job[t].policy.flags[Flag(t)]]
         \/ UNCHANGED inForce
  PROVE  Promise!Next
<1>1. /\ TypeOK /\ job[t] \in Job
      /\ pc[t] = "flags" /\ Goto(t, AfterFlag(t)) /\ Begin(t, After(t, o))
      /\ UNCHANGED <<up, store, disk, alone>>
  BY DEF FlagInv, BaseInv, TypeOK, Finish, Ask, After
<1>2. After(t, o) \in Job /\ After(t, o).policy = job[t].policy
  BY <1>1, AfterType
<1>3. /\ AfterFlag(t) \in Steps /\ AfterFlag(t) # "idle"
      /\ pc[t] \in Turning
  BY <1>1 DEF AfterFlag, Steps, Turning
<1>4. /\ Enforcing' \in {Enforcing, Enforcing \ {job[t].policy}}
      /\ job[t].policy \in Enforcing
  BY <1>1, <1>2, <1>3, EnforcingStep
<1>5. State' = State
  <2>1. pc'[t] = AfterFlag(t)
    BY <1>1, <1>3, Stepped
  <2> QED BY <1>1, <1>3, <2>1 DEF State, AllIdle
<1>6. Flag(t) \in Flags
  BY <1>1, FlagOf DEF FlagInv, BaseInv, AllFit, Fits, Flag
<1> QED BY <1>1, <1>4, <1>5, <1>6, SameReported, IsTurn

LEMMA ApplyPromise ==
  ASSUME FlagInv, FlagInv', Told' = Told, NEW t \in Threads,
         Apply(t) \/ FlagFails(t) \/ FlagReturnsFalse(t) \/ AppModeFails(t)
  PROVE  Promise!Next \/ UNCHANGED Promise!promise
<1>t. /\ TypeOK /\ TypeOK' /\ store \in Record /\ job[t] \in Job
      /\ job' \in [Threads -> Job]
  BY DEF FlagInv, BaseInv, TypeOK
\* A step of applyAppMode, or its last, to "enforcement".
<1>m. AppMode \cup {"enforcement"} \subseteq Steps \ ({"idle"} \cup Turning)
  BY DEF AppMode, Steps, Turning
<1>j. ASSUME NEW i, Begin(t, i)
      PROVE  \E j \in Job : Begin(t, j)
  <2>1. job'[t] = i
    BY <1>j, <1>t DEF Begin, TypeOK
  <2> QED BY <1>j, <1>t, <2>1
<1>a. ASSUME NEW from \in AppMode, NEW to \in AppMode, NEW i, Ask(t, from, to, i),
             UNCHANGED inForce
      PROVE  UNCHANGED Promise!promise
  BY <1>a, <1>t, <1>m, <1>j, QuietStep DEF Ask
<1>w. ASSUME NEW from \in AppMode, NEW to \in AppMode, NEW s,
             s.policy = store.policy, s.enforcement = store.enforcement,
             Write(t, from, to, s), UNCHANGED job
      PROVE  UNCHANGED Promise!promise
  BY <1>w, <1>t, <1>m, QuietStep DEF Write, platform, history
<1>1. CASE StoresPolicy(t)
  <2>1. /\ store'.policy = job[t].policy /\ store'.enforcement = store.enforcement
        /\ pc[t] = "policy" /\ Goto(t, "flags") /\ UNCHANGED <<up, job, disk, inForce, alone>>
    BY <1>1, <1>t DEF StoresPolicy, Write, Record, platform, history
  <2>2. pc[t] \in Turning /\ "flags" \in Turning /\ "flags" \in Steps /\ Begin(t, job[t])
    <3>1. [job EXCEPT ![t] = job[t]] = job
      BY <1>t DEF TypeOK
    <3> QED BY <2>1, <3>1 DEF Begin, Turning, Steps
  <2>3. Enforcing' = Enforcing /\ job[t].policy \in Enforcing
    BY <1>t, <2>1, <2>2, EnforcingStep
  <2>4. State' = State
    <3>1. pc'[t] = "flags"
      BY <1>t, <2>1, <2>2, Stepped
    <3> QED BY <2>1, <3>1 DEF State, AllIdle
  <2> QED BY <2>1, <2>3, <2>4, SameReported, IsReplace
<1>2. CASE FlagApplied(t)
  BY <1>2, TurnPromise DEF FlagApplied, Outcomes
<1>3. CASE FlagFails(t)
  BY <1>3, TurnPromise DEF FlagFails, Outcomes
<1>4. CASE FlagReturnsFalse(t)
  BY <1>4, TurnPromise DEF FlagReturnsFalse, Outcomes
<1>5. CASE FlagUnsupported(t)
  BY <1>5, TurnPromise DEF FlagUnsupported, Outcomes
<1>6. CASE StoresEnforcement(t)
  <2>1. store'.policy = store.policy
    BY <1>6, <1>t DEF StoresEnforcement, Write, Record
  <2>2. pc[t] \notin {"idle"} \cup Turning /\ Goto(t, "idle") /\ Begin(t, NoJob) /\ up'
    BY <1>6 DEF StoresEnforcement, Write, Turning
  <2>3. UNCHANGED <<disk, inForce, alone>>
    BY <1>6 DEF StoresEnforcement, Write, platform, history
  <2> QED BY <2>1, <2>2, <2>3, EndPromise
<1>7. CASE ReadsPackages(t) \/ ReadsSuspended(t) \/ Lifts(t) \/ Holds(t) \/ ReadsPending(t)
  BY <1>7, <1>a DEF ReadsPackages, ReadsSuspended, Lifts, Holds, ReadsPending, Read, AppMode
<1>8. CASE AppModeFails(t)
  BY <1>8, <1>a DEF AppModeFails, AppMode
<1>9. CASE RecordsSuspended(t)
  BY <1>9, <1>t, <1>w DEF RecordsSuspended, Record, AppMode
<1>10. CASE RecordsUnsuspendable(t)
  BY <1>10, <1>t, <1>w DEF RecordsUnsuspendable, Record, AppMode
<1>11. CASE RecordsPending(t)
  <2>1. store'.policy = store.policy /\ store'.enforcement = store.enforcement
    BY <1>11, <1>t DEF RecordsPending, Write, Record
  <2>2. /\ pc[t] \in AppMode /\ Goto(t, "enforcement") /\ \E i \in Job : Begin(t, i)
        /\ UNCHANGED <<disk, inForce, alone>>
    BY <1>11, <1>j DEF RecordsPending, Write, AppMode, platform, history
  <2> QED BY <1>t, <1>m, <2>1, <2>2, QuietStep
<1> QED BY <1>1, <1>2, <1>3, <1>4, <1>5, <1>6, <1>7, <1>8, <1>9, <1>10, <1>11 DEF Apply

LEMMA ReceivePromise ==
  ASSUME FlagInv, FlagInv', Told' = Told, Receive
  PROVE  Promise!Next \/ UNCHANGED Promise!promise
<1>t. /\ TypeOK /\ TypeOK' /\ store \in Record /\ Main \in Threads
      /\ job' \in [Threads -> Job] /\ job \in [Threads -> Job]
  BY DEF FlagInv, BaseInv, TypeOK, Threads
<1>m. Receiving \cup {"packages"} \subseteq Steps \ ({"idle"} \cup Turning)
  BY DEF Receiving, Forgetting, Steps, Turning
<1>r. ASSUME NEW from \in Receiving, NEW to \in Receiving \cup {"packages"}, NEW i,
             Read(Main, from, to, i)
      PROVE  UNCHANGED Promise!promise
  <2>1. \E j \in Job : Begin(Main, j)
    <3>1. job'[Main] = i /\ Begin(Main, i)
      BY <1>r, <1>t DEF Read, Ask, Begin
    <3> QED BY <1>t, <3>1
  <2> QED BY <1>r, <1>t, <1>m, <2>1, QuietStep DEF Read, Ask
<1>w. ASSUME NEW from \in Receiving, NEW to \in Receiving, NEW s,
             s.policy = store.policy, s.enforcement = store.enforcement,
             Write(Main, from, to, s), UNCHANGED job
      PROVE  UNCHANGED Promise!promise
  BY <1>w, <1>t, <1>m, QuietStep DEF Write, platform, history
<1>e. ASSUME pc[Main] \in Receiving, Goto(Main, "idle"), Begin(Main, NoJob),
             store'.policy = store.policy, UNCHANGED <<up, disk, inForce, alone>>
      PROVE  Promise!Next
  <2>1. up'
    BY <1>e, <1>t DEF FlagInv, BaseInv, AllFit, Fits
  <2> QED BY <1>e, <1>t, <1>m, <2>1, EndPromise
<1>1. CASE QueriesLauncher
  <2>1. CASE Held(job[Main].package, job[Main].policy)
    BY <1>1, <1>r, <2>1 DEF QueriesLauncher, Receiving
  <2>2. CASE ~Held(job[Main].package, job[Main].policy)
    BY <1>1, <1>e, <2>2 DEF QueriesLauncher, Read, Ask, Receiving
  <2> QED BY <2>1, <2>2
<1>2. CASE ReadsAwaiting \/ ReadsEnforcement \/ ReadsHeld
  BY <1>2, <1>r DEF ReadsAwaiting, ReadsEnforcement, ReadsHeld, Receiving, Forgetting
<1>3. CASE RecordsAwaiting
  BY <1>3, <1>t, <1>w DEF RecordsAwaiting, Record, Receiving
<1>4. CASE ClearsPending
  BY <1>4, <1>t, <1>w DEF ClearsPending, Record, Receiving, Forgetting
<1>5. CASE ForgetsSuspended
  <2>1. store'.policy = store.policy
    BY <1>5, <1>t DEF ForgetsSuspended, Write, Record
  <2> QED BY <1>5, <1>e, <2>1 DEF ForgetsSuspended, Write, Receiving, Forgetting, platform, history
<1> QED BY <1>1, <1>2, <1>3, <1>4, <1>5 DEF Receive

LEMMA WorldPromise ==
  ASSUME FlagInv, FlagInv', Told' = Told,
         \/ Flush \/ Crash
         \/ \E p \in Packages : Install(p) \/ Uninstall(p)
  PROVE  Promise!Next \/ UNCHANGED Promise!promise
<1>1. CASE Flush
  BY <1>1, SameReported, IsPersist DEF Flush, State, AllIdle, Enforcing, platform, history
<1>2. CASE Crash
  <2>1. /\ store' = disk /\ UNCHANGED <<disk, inForce, alone>> /\ ~up'
        /\ \A t \in Threads : pc'[t] = "idle"
    BY <1>2 DEF Crash, platform, history
  <2>2. State' = "down" /\ Enforcing' = {}
    BY <2>1 DEF State, AllIdle, Enforcing, Turning
  <2>3. Reported' \in [Flags -> Outcomes \cup {"none"}]
    BY ReportedType DEF FlagInv, BaseInv, TypeOK, Reported
  <2> QED BY <2>1, <2>2, <2>3, IsRestart
<1>3. ASSUME NEW p \in Packages, Install(p) \/ Uninstall(p)
      PROVE  UNCHANGED Promise!promise
  BY <1>3 DEF Install, Uninstall, Promise!promise, AllIdle, Told
<1> QED BY <1>1, <1>2, <1>3

\* The tablet implements TabletPromise: seen through its stored policy, the
\* values in force, the policies being enforced and the outcomes it reports,
\* every step of PolicyEngine is a step of the promise or changes nothing it
\* speaks of, for any policies, overlapping applies, failures and crashes.
THEOREM PromiseKept == Spec => KeepsPromise
<1>1. FlagInv /\ FlagInv' /\ [Next]_vars => [Promise!Next]_(Promise!promise)
  <2> SUFFICES ASSUME FlagInv, FlagInv', [Next]_vars
               PROVE  Promise!Next \/ UNCHANGED Promise!promise
    OBVIOUS
  <2>1. CASE UNCHANGED vars
    BY <2>1 DEF vars, platform, history, Promise!promise, AllIdle
  <2>2. Told' = Told
    BY SameTold
  <2> QED BY <2>1, <2>2, BeginningPromise, ApplyPromise, ReceivePromise, WorldPromise DEF Next
<1> QED BY <1>1, PromiseInit, FlagsKept, PTL DEF Spec, KeepsPromise, Promise!Spec
=============================================================================
