-------------------------- MODULE Installer_proofs --------------------------
(***************************************************************************)
(* What a session holds, who has the guard, and what last_install shows,   *)
(* for any installations and any number of failures, crashes and results   *)
(* that free the guard too early.                                          *)
(***************************************************************************)
EXTENDS Installer, FiniteSetTheorems, TLAPS

-----------------------------------------------------------------------------
(* Types.                                                                  *)

LEMMA StoreTypes ==
  ASSUME NEW s \in Store, NEW i \in Installs, NEW v \in Nat,
         NEW state \in Working \cup Settled \cup {"awaiting_user"}
  PROVE  /\ [s EXCEPT !.state = state, !.install = i] \in Store
         /\ [s EXCEPT !.seen = v, !.state = state] \in Store
BY DEF Store

LEMMA SettleType == TypeOK => Settle(store) \in Store
<1> SUFFICES ASSUME TypeOK PROVE Settle(store) \in Store
  OBVIOUS
<1>1. store \in Store /\ versions \in Nat
  BY DEF TypeOK
<1>2. [store EXCEPT !.seen = versions, !.state = "installed"] \in Store
  BY <1>1 DEF Store, Settled
<1>3. [store EXCEPT !.seen = versions, !.state = @] \in Store
  BY <1>1 DEF Store
<1> QED BY <1>2, <1>3 DEF Settle

LEMMA BudgetSpent ==
  ASSUME left \in Budget, NEW kind \in {"failures", "crashes"}, Spend(kind)
  PROVE  left' \in Budget
<1>1. left.failures \in Nat /\ left.crashes \in Nat
  BY DEF Budget
<1>2. CASE kind = "failures"
  <2>1. left.failures - 1 \in Nat
    BY <1>1, <1>2 DEF Spend
  <2> QED BY <1>2, <2>1 DEF Spend, Budget
<1>3. CASE kind = "crashes"
  <2>1. left.crashes - 1 \in Nat
    BY <1>1, <1>3 DEF Spend
  <2> QED BY <1>3, <2>1 DEF Spend, Budget
<1> QED BY <1>2, <1>3

\* The first task of the worker.
LEMMA FirstTask ==
  ASSUME TypeOK, queue # <<>>
  PROVE  Head(queue) \in Installs /\ Tail(queue) \in Seq(Installs)
BY DEF TypeOK

\* The installations a broadcast is about.
LEMMA BroadcastTypes ==
  ASSUME TypeOK, NEW b \in broadcasts
  PROVE  b.install \in Installs /\ b.kind \in {"ask", "installed", "failed"}
BY DEF TypeOK

LEMMA InitType == Init => TypeOK
<1> SUFFICES ASSUME Init PROVE TypeOK
  OBVIOUS
<1>1. store \in Store /\ disk \in Store
  BY DEF Init, Store, Settled
<1>2. left \in Budget
  BY InstallerAssumption DEF Init
<1>3. queue \in Seq(Installs)
  BY DEF Init
<1>4. /\ session \in [Installs -> {"none", "committed", "prompted", "asking",
                                 "installed", "failed"}]
      /\ sealed \in [Installs -> Installs \cup {Nothing, Corrupt}]
  BY DEF Init
<1> QED BY <1>1, <1>2, <1>3, <1>4 DEF Init, TypeOK

\* What becomes of a process that dies.
LEMMA DiesType ==
  ASSUME TypeOK, Dies
  PROVE  /\ up' \in BOOLEAN /\ running' \in BOOLEAN /\ queue' \in Seq(Installs)
         /\ step' = "download" /\ store' \in Store
<1>1. queue' \in Seq(Installs)
  BY DEF Dies
<1>2. store' \in Store
  BY DEF Dies, TypeOK
<1>3. up' \in BOOLEAN /\ running' \in BOOLEAN /\ step' = "download"
  BY DEF Dies
<1> QED BY <1>1, <1>2, <1>3

\* A result recorded by the Installer there is, or dropped.
LEMMA FinishedType ==
  ASSUME TypeOK, NEW i \in Installs, NEW outcome \in {"installed", "failed"},
         Finished(outcome, i)
  PROVE  store' \in Store /\ running' \in BOOLEAN
<1>1. store \in Store /\ running \in BOOLEAN /\ outcome \in Settled
  BY DEF TypeOK, Settled
<1>2. CASE up
  <2>1. [store EXCEPT !.state = outcome, !.install = i] \in Store
    BY <1>1 DEF Store
  <2>2. store' = [store EXCEPT !.state = outcome, !.install = i] /\ running' = FALSE
    BY <1>2 DEF Finished, Record
  <2> QED BY <2>1, <2>2
<1>3. CASE ~up
  BY <1>1, <1>3 DEF Finished
<1> QED BY <1>2, <1>3

LEMMA GivesUpType ==
  ASSUME TypeOK, queue # <<>>, GivesUp
  PROVE  /\ store' \in Store /\ queue' \in Seq(Installs) /\ step' = "download"
         /\ running' = FALSE
<1>1. store \in Store /\ "failed" \in Settled
  BY DEF TypeOK, Settled
<1> QED BY <1>1, FirstTask, StoreTypes DEF GivesUp, TaskEnds, Record

\* How a session ends: installed or failed, only a committed or an asking
\* one, and at tier admin installed only by the confirmation.
LEMMA EndingsAre ==
  \A i \in Installs : \A outcome \in Endings(i) :
    /\ outcome \in {"installed", "failed"}
    /\ session[i] \in {"committed", "asking"}
    /\ outcome = "installed" /\ tier = "admin" => session[i] = "asking" /\ disk = store
BY DEF Endings

LEMMA NextType == TypeOK /\ [Next]_vars => TypeOK'
<1> SUFFICES ASSUME TypeOK, [Next]_vars PROVE TypeOK'
  OBVIOUS
<1>s. store \in Store /\ disk \in Store /\ left \in Budget
  BY DEF TypeOK
<1>1. ASSUME NEW i \in Installs, Start(i) PROVE TypeOK'
  <2>1. store' \in Store
    BY <1>1, <1>s, StoreTypes DEF Start, Record, Working
  <2>2. queue' \in Seq(Installs)
    BY <1>1 DEF Start, TypeOK
  <2> QED BY <1>1, <2>1, <2>2 DEF Start, TypeOK, platform
<1>2. ASSUME NEW i \in Installs, PlatformAsks(i) PROVE TypeOK'
  BY <1>2 DEF PlatformAsks, Broadcast, TypeOK, process
<1>3. ASSUME NEW i \in Installs, Resolves(i) PROVE TypeOK'
  <2> PICK outcome \in {"installed", "failed"} :
         /\ session' = [session EXCEPT ![i] = outcome]
         /\ Broadcast(i, outcome)
         /\ IF i \in Self /\ outcome = "installed"
            THEN /\ versions' = versions + 1 /\ Dies
                 /\ epoch' = IF epoch = "first" THEN "updated" ELSE epoch
            ELSE UNCHANGED <<versions, process, store, epoch>>
    BY <1>3, EndingsAre DEF Resolves
  <2>0. UNCHANGED <<file, disk, tier, sealed, left>>
    BY <1>3 DEF Resolves
  <2>1. /\ session' \in [Installs -> {"none", "committed", "prompted", "asking",
                                      "installed", "failed"}]
        /\ broadcasts' \subseteq [install : Installs, kind : {"ask", "installed", "failed"}]
    BY DEF TypeOK, Broadcast
  <2>2. CASE i \in Self /\ outcome = "installed"
    <3>1. Dies /\ versions' = versions + 1
          /\ epoch' = IF epoch = "first" THEN "updated" ELSE epoch
      BY <2>2
    <3>2. versions' \in Nat /\ epoch' \in {"first", "updated", "crashed"}
      BY <3>1 DEF TypeOK
    <3> QED BY <2>0, <2>1, <3>1, <3>2, DiesType DEF TypeOK
  <2>3. CASE ~(i \in Self /\ outcome = "installed")
    BY <2>0, <2>1, <2>3 DEF TypeOK, process
  <2> QED BY <2>2, <2>3
<1>4. CASE Downloads
  <2>1. left' \in Budget
    BY <1>4, <1>s, BudgetSpent DEF Downloads
  <2> QED BY <1>4, <2>1, FirstTask DEF Downloads, Now, TypeOK, platform
<1>5. CASE DownloadFails
  <2>1. left' \in Budget
    BY <1>5, <1>s, BudgetSpent DEF DownloadFails
  <2> QED BY <1>5, <2>1, GivesUpType DEF DownloadFails, GivesUp, Now, TypeOK, platform
<1>6. CASE ChecksDigest
  BY <1>6 DEF ChecksDigest, TypeOK, platform
<1>7. CASE DigestMismatch
  BY <1>7, GivesUpType DEF DigestMismatch, GivesUp, Now, TypeOK, platform
<1>8. CASE RecordsInstalling
  <2>1. store' \in Store
    BY <1>8, <1>s, FirstTask, StoreTypes DEF RecordsInstalling, Now, Record, Working
  <2> QED BY <1>8, <2>1 DEF RecordsInstalling, TypeOK, platform
<1>9. CASE Commits
  BY <1>9, FirstTask DEF Commits, Now, TypeOK
<1>10. CASE CommitFails
  <2>1. left' \in Budget
    BY <1>10, <1>s, BudgetSpent DEF CommitFails
  <2> QED BY <1>10, <2>1, GivesUpType DEF CommitFails, GivesUp, Now, TypeOK, platform
<1>11. CASE DeletesFile
  BY <1>11, FirstTask DEF DeletesFile, TaskEnds, Now, TypeOK, platform
<1>12. ASSUME NEW b \in broadcasts, ResultArrives(b) PROVE TypeOK'
  <2>1. store' \in Store /\ running' \in BOOLEAN
    <3>1. b.kind \in {"installed", "failed"} /\ b.install \in Installs
      BY <1>12, BroadcastTypes DEF ResultArrives
    <3> QED BY <1>12, <3>1, FinishedType DEF ResultArrives
  <2> QED BY <1>12, <2>1 DEF ResultArrives, Receive, TypeOK
<1>13. ASSUME NEW b \in broadcasts, AwaitingUser(b) PROVE TypeOK'
  <2>1. store' \in Store
    BY <1>13, <1>s, BroadcastTypes, StoreTypes DEF AwaitingUser, Record
  <2> QED BY <1>13, <2>1, BroadcastTypes DEF AwaitingUser, Receive, TypeOK, process
<1>14. ASSUME NEW b \in broadcasts, NoConfirmation(b) PROVE TypeOK'
  <2>1. store' \in Store /\ running' \in BOOLEAN
    BY <1>14, BroadcastTypes, FinishedType DEF NoConfirmation
  <2>2. left' \in Budget
    BY <1>14, <1>s, BudgetSpent DEF NoConfirmation
  <2> QED BY <1>14, <2>1, <2>2 DEF NoConfirmation, Receive, TypeOK
<1>15. CASE ServiceStarts
  BY <1>15, SettleType DEF ServiceStarts, TypeOK, platform
<1>16. CASE Flush
  BY <1>16 DEF Flush, TypeOK, platform, process
<1>17. CASE Crash
  <2>1. left' \in Budget
    BY <1>17, <1>s, BudgetSpent DEF Crash
  <2> QED BY <1>17, <2>1, DiesType DEF Crash, TypeOK, platform
<1>18. CASE UNCHANGED vars
  BY <1>18 DEF vars, TypeOK, platform, process
<1> QED
  BY <1>1, <1>2, <1>3, <1>4, <1>5, <1>6, <1>7, <1>8, <1>9, <1>10, <1>11, <1>12,
     <1>13, <1>14, <1>15, <1>16, <1>17, <1>18 DEF Next, Work, Delivery

\* Types, for any installations, failures and crashes.
THEOREM TypeCorrect == Spec => []TypeOK
BY InitType, NextType, PTL DEF Spec

-----------------------------------------------------------------------------
(* The shared file.                                                        *)

\* Between the check and the session the file is the one checked.
FileIsChecked ==
  queue # <<>> /\ step \in {"record", "commit"} /\ Head(queue) \in Given
    => file = Head(queue)

\* Every task begins with its download.
BeginsWithDownload == queue = <<>> => step = "download"

\* Only committed sessions are broadcast about.
BroadcastsOfSessions == \A b \in broadcasts : session[b.install] # "none"

SealInv == /\ TypeOK /\ FileIsChecked /\ BeginsWithDownload
           /\ BroadcastsOfSessions /\ SealedIsIntact

\* A new task goes behind the first one.
LEMMA FirstStays ==
  ASSUME NEW S, NEW q \in Seq(S), NEW i \in S, q # <<>>
  PROVE  Append(q, i) # <<>> /\ Head(Append(q, i)) = Head(q)
OBVIOUS

\* A step that leaves the worker and the sessions alone, or ends a task.
LEMMA Undisturbed ==
  ASSUME SealInv, UNCHANGED <<queue, step, file, sealed>>,
         \A i \in Given : session'[i] # "none" => session[i] # "none"
  PROVE  (FileIsChecked /\ BeginsWithDownload /\ SealedIsIntact)'
BY DEF SealInv, FileIsChecked, BeginsWithDownload, SealedIsIntact

LEMMA AtDownload ==
  ASSUME SealInv, step' = "download", UNCHANGED sealed,
         \A i \in Given : session'[i] # "none" => session[i] # "none"
  PROVE  (FileIsChecked /\ BeginsWithDownload /\ SealedIsIntact)'
BY DEF SealInv, FileIsChecked, BeginsWithDownload, SealedIsIntact

LEMMA NextBroadcasts ==
  TypeOK /\ BroadcastsOfSessions /\ [Next]_vars => BroadcastsOfSessions'
<1> SUFFICES ASSUME TypeOK, BroadcastsOfSessions, [Next]_vars
             PROVE  BroadcastsOfSessions'
  OBVIOUS
<1>1. ASSUME NEW i \in Installs, PlatformAsks(i) PROVE BroadcastsOfSessions'
  BY <1>1 DEF PlatformAsks, Broadcast, BroadcastsOfSessions, TypeOK
<1>2. ASSUME NEW i \in Installs, Resolves(i) PROVE BroadcastsOfSessions'
  BY <1>2, EndingsAre DEF Resolves, Broadcast, BroadcastsOfSessions, TypeOK
<1>3. CASE Commits
  BY <1>3 DEF Commits, BroadcastsOfSessions, TypeOK
<1>4. ASSUME NEW b \in broadcasts,
             ResultArrives(b) \/ AwaitingUser(b) \/ NoConfirmation(b)
      PROVE  BroadcastsOfSessions'
  BY <1>4 DEF ResultArrives, AwaitingUser, NoConfirmation, Receive,
              BroadcastsOfSessions, TypeOK
<1>5. ASSUME UNCHANGED <<session, broadcasts>> PROVE BroadcastsOfSessions'
  BY <1>5 DEF BroadcastsOfSessions
<1>6. CASE \/ \E i \in Installs : Start(i)
           \/ Downloads \/ DownloadFails \/ ChecksDigest \/ DigestMismatch
           \/ RecordsInstalling \/ CommitFails \/ DeletesFile
           \/ ServiceStarts \/ Flush \/ Crash \/ UNCHANGED vars
  <2>1. UNCHANGED <<session, broadcasts>>
    BY <1>6 DEF Start, Downloads, DownloadFails, ChecksDigest, DigestMismatch,
                RecordsInstalling, CommitFails, DeletesFile, GivesUp,
                ServiceStarts, Flush, Crash, vars, platform
  <2> QED BY <1>5, <2>1
<1> QED BY <1>1, <1>2, <1>3, <1>4, <1>6 DEF Next, Work, Delivery

LEMMA NextSeal == SealInv /\ [Next]_vars => SealInv'
<1> SUFFICES ASSUME SealInv, [Next]_vars
             PROVE  (FileIsChecked /\ BeginsWithDownload /\ SealedIsIntact)'
  BY NextType, NextBroadcasts DEF SealInv
<1>t. TypeOK /\ Given \subseteq Installs
  BY InstallerAssumption DEF SealInv
<1>1. ASSUME NEW i \in Installs, Start(i)
      PROVE  (FileIsChecked /\ BeginsWithDownload /\ SealedIsIntact)'
  <2>1. UNCHANGED <<step, file, session, sealed>> /\ queue' = Append(queue, i)
    BY <1>1 DEF Start, platform
  <2>2. CASE queue = <<>>
    BY <2>1, <2>2, AtDownload DEF SealInv, BeginsWithDownload
  <2>3. CASE queue # <<>>
    <3>1. queue' # <<>> /\ Head(queue') = Head(queue)
      BY <1>t, <2>1, <2>3, FirstStays DEF TypeOK
    <3> QED BY <2>1, <2>3, <3>1
            DEF SealInv, FileIsChecked, BeginsWithDownload, SealedIsIntact
  <2> QED BY <2>2, <2>3
<1>2. ASSUME NEW i \in Installs, PlatformAsks(i)
      PROVE  (FileIsChecked /\ BeginsWithDownload /\ SealedIsIntact)'
  BY <1>2, <1>t, Undisturbed DEF PlatformAsks, TypeOK, process
<1>3. ASSUME NEW i \in Installs, Resolves(i)
      PROVE  (FileIsChecked /\ BeginsWithDownload /\ SealedIsIntact)'
  <2>1. UNCHANGED <<file, sealed>> /\ session[i] # "none"
    BY <1>3, EndingsAre DEF Resolves
  <2>2. \A j \in Given : session'[j] # "none" => session[j] # "none"
    BY <1>3, <1>t, <2>1 DEF Resolves, TypeOK
  <2>3. UNCHANGED <<queue, step>> \/ step' = "download"
    BY <1>3 DEF Resolves, Dies, process
  <2> QED BY <2>1, <2>2, <2>3, AtDownload, Undisturbed
<1>4. CASE Downloads
  BY <1>4 DEF Downloads, Now, platform, SealInv, FileIsChecked,
              BeginsWithDownload, SealedIsIntact
<1>5. CASE DownloadFails
  BY <1>5, AtDownload DEF DownloadFails, GivesUp, TaskEnds, platform
<1>6. CASE ChecksDigest
  BY <1>6 DEF ChecksDigest, Now, Matches, platform, SealInv, FileIsChecked,
              BeginsWithDownload, SealedIsIntact
<1>7. CASE DigestMismatch
  BY <1>7, AtDownload DEF DigestMismatch, GivesUp, TaskEnds, platform
<1>8. CASE RecordsInstalling
  BY <1>8 DEF RecordsInstalling, Now, platform, SealInv, FileIsChecked,
              BeginsWithDownload, SealedIsIntact
<1>9. CASE Commits
  <2>1. Head(queue) \in Installs
    BY <1>9, <1>t, FirstTask DEF Commits, Now
  <2>2. (FileIsChecked /\ BeginsWithDownload)'
    BY <1>9 DEF Commits, Now, FileIsChecked, BeginsWithDownload
  <2>3. ASSUME NEW i \in Given, session'[i] # "none" PROVE sealed'[i] = i
    <3>1. CASE i = Head(queue)
      BY <1>9, <1>t, <2>1, <3>1 DEF Commits, Now, SealInv, FileIsChecked, TypeOK
    <3>2. CASE i # Head(queue)
      BY <1>9, <1>t, <2>1, <2>3, <3>2 DEF Commits, SealInv, SealedIsIntact, TypeOK
    <3> QED BY <3>1, <3>2
  <2> QED BY <2>2, <2>3 DEF SealedIsIntact
<1>10. CASE CommitFails
  BY <1>10, AtDownload DEF CommitFails, GivesUp, TaskEnds, platform
<1>11. CASE DeletesFile
  BY <1>11, AtDownload DEF DeletesFile, TaskEnds, platform
<1>12. ASSUME NEW b \in broadcasts, ResultArrives(b)
       PROVE  (FileIsChecked /\ BeginsWithDownload /\ SealedIsIntact)'
  BY <1>12, Undisturbed DEF ResultArrives
<1>13. ASSUME NEW b \in broadcasts, AwaitingUser(b)
       PROVE  (FileIsChecked /\ BeginsWithDownload /\ SealedIsIntact)'
  <2>1. session[b.install] # "none"
    BY DEF SealInv, BroadcastsOfSessions
  <2> QED BY <2>1, <1>13, <1>t, Undisturbed DEF AwaitingUser, TypeOK, process
<1>14. ASSUME NEW b \in broadcasts, NoConfirmation(b)
       PROVE  (FileIsChecked /\ BeginsWithDownload /\ SealedIsIntact)'
  BY <1>14, Undisturbed DEF NoConfirmation
<1>15. CASE ServiceStarts
  BY <1>15, Undisturbed DEF ServiceStarts, platform
<1>16. CASE Flush
  BY <1>16, Undisturbed DEF Flush, platform, process
<1>17. CASE Crash
  BY <1>17, AtDownload DEF Crash, Dies, platform
<1>18. CASE UNCHANGED vars
  BY <1>18, Undisturbed DEF vars, platform, process
<1> QED
  BY <1>1, <1>2, <1>3, <1>4, <1>5, <1>6, <1>7, <1>8, <1>9, <1>10, <1>11, <1>12,
     <1>13, <1>14, <1>15, <1>16, <1>17, <1>18 DEF Next, Work, Delivery

\* Whatever fails, crashes or frees the guard too early, a session whose
\* request came with a digest holds the file that was checked against it.
THEOREM SealsIntact == Spec => []SealedIsIntact
<1>1. Init => SealInv
  BY InitType, InstallerAssumption
     DEF Init, SealInv, FileIsChecked, BeginsWithDownload, BroadcastsOfSessions,
         SealedIsIntact
<1>2. SealInv => SealedIsIntact
  BY DEF SealInv
<1> QED BY <1>1, <1>2, NextSeal, PTL DEF Spec

-----------------------------------------------------------------------------
(* The guard and what last_install shows.                                  *)

\* The worker's tasks are distinct, and only the first of them may have a
\* session already: when all that is left of it is to delete the file.
TasksOrdered ==
  /\ BeginsWithDownload
  /\ \A j, k \in DOMAIN queue : queue[j] = queue[k] => j = k
  /\ \A j \in DOMAIN queue :
       session[queue[j]] = "none" <=> j # 1 \/ step # "delete"

\* A broadcast tells where its session is, so there is one of a session.
BroadcastsAgree ==
  \A b \in broadcasts : session[b.install] = IF b.kind = "ask" THEN "prompted" ELSE b.kind

\* Of a process that is gone neither the guard nor a task is left.
DeadIsIdle == ~up => ~running /\ queue = <<>>

WorkInv == TypeOK /\ TasksOrdered /\ BroadcastsAgree /\ DeadIsIdle

\* Until the first process is killed everything that is under way has the
\* guard, is shown, and no update of the controller has been applied.
FirstProcess ==
  epoch = "first" =>
    /\ Underway # {} => up /\ running
    /\ versions = 1 /\ (up => store.seen = 1)
    /\ \A i \in Self : session[i] # "installed"

\* Before the service has started again, the settlement is still to come.
AfterUpdate ==
  epoch = "updated" =>
    /\ versions >= 2
    /\ versions = 2 /\ tier = "admin" =>
         \A i \in Self : session[i] = "installed"
           => \/ store.install # i
              \/ store.state = "installed"
              \/ ~up /\ store.state = "awaiting_user" /\ store.seen = 1

Shown == FirstProcess /\ ShownIsUnderway /\ AfterUpdate
GuardInv == WorkInv /\ GuardHasOwner /\ Shown

\* What a task that ends, or one that is added, makes of the others.
LEMMA TailElements ==
  ASSUME NEW S, NEW q \in Seq(S), q # <<>>
  PROVE  /\ Head(q) = q[1] /\ 1 \in DOMAIN q /\ DOMAIN q \subseteq Nat \ {0}
         /\ \A j \in DOMAIN Tail(q) : j + 1 \in DOMAIN q /\ Tail(q)[j] = q[j + 1]
         /\ \A j \in DOMAIN q \ {1} : j - 1 \in DOMAIN Tail(q) /\ Tail(q)[j - 1] = q[j]
<1>1. Len(q) \in Nat \ {0} /\ DOMAIN q = 1..Len(q)
  OBVIOUS
<1>2. Head(q) = q[1] /\ DOMAIN Tail(q) = 1..(Len(q) - 1)
      /\ \A j \in 1..(Len(q) - 1) : Tail(q)[j] = q[j + 1]
  BY <1>1
<1> QED BY <1>1, <1>2

LEMMA AppendElements ==
  ASSUME NEW S, NEW q \in Seq(S), NEW i \in S
  PROVE  /\ DOMAIN Append(q, i) = DOMAIN q \cup {Len(q) + 1}
         /\ Len(q) + 1 \notin DOMAIN q /\ (q # <<>> => Len(q) + 1 # 1)
         /\ Append(q, i)[Len(q) + 1] = i
         /\ \A j \in DOMAIN q : Append(q, i)[j] = q[j]
         /\ Append(q, i) # <<>>
<1>1. Len(q) \in Nat /\ DOMAIN q = 1..Len(q) /\ (q # <<>> => Len(q) # 0)
  OBVIOUS
<1>2. DOMAIN Append(q, i) = 1..(Len(q) + 1) /\ Append(q, i)[Len(q) + 1] = i
      /\ \A j \in 1..Len(q) : Append(q, i)[j] = q[j]
  BY <1>1
<1>3. Append(q, i) # <<>>
  <2>1. Len(Append(q, i)) = Len(q) + 1
    OBVIOUS
  <2> QED BY <1>1, <2>1
<1> QED BY <1>1, <1>2, <1>3

LEMMA OrderKept ==
  ASSUME TypeOK, TasksOrdered, UNCHANGED <<queue, step>>,
         \A i \in Installs : session'[i] = "none" <=> session[i] = "none"
  PROVE  TasksOrdered'
<1>1. \A j \in DOMAIN queue : queue[j] \in Installs
  BY DEF TypeOK
<1> QED BY <1>1 DEF TasksOrdered, BeginsWithDownload

LEMMA OrderAtEnd ==
  ASSUME TypeOK, TasksOrdered, queue # <<>>, TaskEnds, UNCHANGED session
  PROVE  TasksOrdered'
<1>1. /\ \A j \in DOMAIN queue' : j + 1 \in DOMAIN queue /\ queue'[j] = queue[j + 1]
      /\ step' = "download"
  BY TailElements DEF TaskEnds, TypeOK
<1>2. DOMAIN queue' \subseteq Nat \ {0}
  BY DEF TaskEnds, TypeOK
<1>3. \A j \in DOMAIN queue' : session'[queue'[j]] = "none"
  <2> TAKE j \in DOMAIN queue'
  <2>1. j + 1 \in DOMAIN queue /\ j + 1 # 1 /\ queue'[j] = queue[j + 1]
    BY <1>1, <1>2
  <2> QED BY <2>1 DEF TasksOrdered
<1>4. ASSUME NEW j \in DOMAIN queue', NEW k \in DOMAIN queue', queue'[j] = queue'[k]
      PROVE  j = k
  <2>1. j + 1 = k + 1
    BY <1>1, <1>4 DEF TasksOrdered
  <2> QED BY <1>2, <2>1
<1> QED BY <1>1, <1>3, <1>4 DEF TasksOrdered, BeginsWithDownload

LEMMA NextWork == WorkInv /\ [Next]_vars => WorkInv'
<1> SUFFICES ASSUME WorkInv, [Next]_vars
             PROVE  (TasksOrdered /\ BroadcastsAgree /\ DeadIsIdle)'
  BY NextType DEF WorkInv
<1>t. TypeOK /\ TasksOrdered /\ BroadcastsAgree /\ DeadIsIdle
  BY DEF WorkInv
<1>s. /\ UNCHANGED <<session, broadcasts>> => BroadcastsAgree'
      /\ UNCHANGED <<up, running, queue>> => DeadIsIdle'
      /\ UNCHANGED <<queue, step, session>> => TasksOrdered'
  BY <1>t, OrderKept DEF BroadcastsAgree, DeadIsIdle
<1>d. ASSUME Dies PROVE (TasksOrdered /\ DeadIsIdle)'
  BY <1>d DEF Dies, TasksOrdered, BeginsWithDownload, DeadIsIdle
<1>g. ASSUME queue # <<>>, GivesUp PROVE (TasksOrdered /\ BroadcastsAgree /\ DeadIsIdle)'
  <2>1. TasksOrdered' /\ BroadcastsAgree'
    BY <1>g, <1>t, <1>s, OrderAtEnd DEF GivesUp, platform
  <2>2. DeadIsIdle'
    BY <1>g, <1>t DEF GivesUp, DeadIsIdle
  <2> QED BY <2>1, <2>2
<1>w. ASSUME queue # <<>>, step # "delete", step' # "delete",
             UNCHANGED <<up, running, queue, platform>>
      PROVE  (TasksOrdered /\ BroadcastsAgree /\ DeadIsIdle)'
  BY <1>w, <1>t, <1>s DEF TasksOrdered, BeginsWithDownload, platform
<1>1. ASSUME NEW i \in Installs, Start(i)
      PROVE  (TasksOrdered /\ BroadcastsAgree /\ DeadIsIdle)'
  <2>1. /\ queue' = Append(queue, i) /\ up /\ session[i] = "none"
        /\ \A j \in DOMAIN queue : queue[j] # i
        /\ UNCHANGED <<up, step, session, broadcasts>>
    BY <1>1 DEF Start, platform
  <2>2. queue \in Seq(Installs)
    BY <1>t DEF TypeOK
  <2>3. /\ DOMAIN queue' = DOMAIN queue \cup {Len(queue) + 1}
        /\ Len(queue) + 1 \notin DOMAIN queue /\ (queue # <<>> => Len(queue) + 1 # 1)
        /\ queue'[Len(queue) + 1] = i /\ queue' # <<>>
        /\ \A j \in DOMAIN queue : queue'[j] = queue[j]
    BY <2>1, <2>2, AppendElements
  <2>4. \A j, k \in DOMAIN queue' : queue'[j] = queue'[k] => j = k
    BY <1>t, <2>1, <2>3 DEF TasksOrdered
  <2>5. \A j \in DOMAIN queue' : session'[queue'[j]] = "none" <=> j # 1 \/ step' # "delete"
    <3> TAKE j \in DOMAIN queue'
    <3>1. CASE j \in DOMAIN queue
      BY <1>t, <2>1, <2>3, <3>1 DEF TasksOrdered
    <3>2. CASE j = Len(queue) + 1
      BY <1>t, <2>1, <2>3, <3>2 DEF TasksOrdered, BeginsWithDownload
    <3> QED BY <2>3, <3>1, <3>2
  <2>6. TasksOrdered'
    BY <2>3, <2>4, <2>5 DEF TasksOrdered, BeginsWithDownload
  <2> QED BY <1>s, <2>1, <2>6 DEF DeadIsIdle
<1>2. ASSUME NEW i \in Installs, PlatformAsks(i)
      PROVE  (TasksOrdered /\ BroadcastsAgree /\ DeadIsIdle)'
  <2>1. TasksOrdered' /\ DeadIsIdle'
    BY <1>2, <1>t, <1>s, OrderKept DEF PlatformAsks, TypeOK, process
  <2>2. BroadcastsAgree'
    BY <1>2, <1>t, BroadcastTypes DEF PlatformAsks, Broadcast, BroadcastsAgree, TypeOK
  <2> QED BY <2>1, <2>2
<1>3. ASSUME NEW i \in Installs, Resolves(i)
      PROVE  (TasksOrdered /\ BroadcastsAgree /\ DeadIsIdle)'
  <2> PICK outcome \in {"installed", "failed"} :
         /\ session' = [session EXCEPT ![i] = outcome]
         /\ Broadcast(i, outcome)
         /\ Dies \/ UNCHANGED process
    BY <1>3, EndingsAre DEF Resolves, process
  <2>0. session[i] \in {"committed", "asking"}
    BY <1>3, EndingsAre DEF Resolves
  <2>1. BroadcastsAgree'
    BY <1>t, <2>0, BroadcastTypes DEF Broadcast, BroadcastsAgree, TypeOK
  <2>2. CASE Dies
    BY <1>d, <2>1, <2>2
  <2>3. CASE UNCHANGED process
    <3>1. TasksOrdered'
      BY <1>t, <2>0, <2>3, OrderKept DEF TypeOK, process
    <3> QED BY <1>s, <2>1, <2>3, <3>1 DEF process
  <2> QED BY <2>2, <2>3
<1>4. CASE Downloads
  BY <1>4, <1>w DEF Downloads, Now
<1>5. CASE DownloadFails
  BY <1>5, <1>g DEF DownloadFails, Now
<1>6. CASE ChecksDigest
  BY <1>6, <1>w DEF ChecksDigest, Now
<1>7. CASE DigestMismatch
  BY <1>7, <1>g DEF DigestMismatch, Now
<1>8. CASE RecordsInstalling
  BY <1>8, <1>w DEF RecordsInstalling, Now
<1>9. CASE Commits
  <2> DEFINE i == Head(queue)
  <2>1. /\ session' = [session EXCEPT ![i] = "committed"] /\ step' = "delete"
        /\ queue # <<>> /\ step = "commit"
        /\ UNCHANGED <<up, running, queue, broadcasts>>
    BY <1>9 DEF Commits, Now
  <2>2. i = queue[1] /\ 1 \in DOMAIN queue /\ i \in Installs
    BY <1>t, <2>1, TailElements DEF TypeOK
  <2> HIDE DEF i
  <2>3. session[i] = "none"
    BY <1>t, <2>1, <2>2 DEF TasksOrdered
  <2>4. \A j \in DOMAIN queue : session'[queue[j]] = "none" <=> j # 1
    <3> TAKE j \in DOMAIN queue
    <3>1. queue[j] \in Installs /\ session[queue[j]] = "none" /\ (queue[j] = i => j = 1)
      BY <1>t, <2>1, <2>2 DEF TasksOrdered, TypeOK
    <3> QED BY <1>t, <2>1, <2>2, <3>1 DEF TypeOK
  <2>5. TasksOrdered'
    BY <1>t, <2>1, <2>4 DEF TasksOrdered, BeginsWithDownload
  <2>6. BroadcastsAgree'
    BY <1>t, <2>1, <2>2, <2>3, BroadcastTypes DEF BroadcastsAgree, TypeOK
  <2> QED BY <1>s, <2>1, <2>5, <2>6
<1>10. CASE CommitFails
  BY <1>10, <1>g DEF CommitFails, Now
<1>11. CASE DeletesFile
  <2>1. TasksOrdered' /\ BroadcastsAgree'
    BY <1>11, <1>t, <1>s, OrderAtEnd DEF DeletesFile, Now, platform
  <2>2. DeadIsIdle'
    BY <1>11, <1>t DEF DeletesFile, Now, DeadIsIdle
  <2> QED BY <2>1, <2>2
<1>12. ASSUME NEW b \in broadcasts, ResultArrives(b) \/ NoConfirmation(b)
       PROVE  (TasksOrdered /\ BroadcastsAgree /\ DeadIsIdle)'
  <2>1. UNCHANGED <<up, queue, step, session>> /\ broadcasts' \subseteq broadcasts
        /\ (~up => UNCHANGED running)
    BY <1>12 DEF ResultArrives, NoConfirmation, Receive, Finished
  <2> QED BY <1>t, <1>s, <2>1 DEF BroadcastsAgree, DeadIsIdle
<1>13. ASSUME NEW b \in broadcasts, AwaitingUser(b)
       PROVE  (TasksOrdered /\ BroadcastsAgree /\ DeadIsIdle)'
  <2>1. /\ session[b.install] = "prompted" /\ b.install \in Installs
        /\ session' = [session EXCEPT ![b.install] = "asking"]
        /\ broadcasts' = broadcasts \ {b} /\ b.kind = "ask"
        /\ UNCHANGED process
    BY <1>13, <1>t, BroadcastTypes DEF AwaitingUser, Receive, BroadcastsAgree
  <2>2. \A c \in broadcasts' : c.install # b.install
    <3> SUFFICES ASSUME NEW c \in broadcasts, c.install = b.install PROVE c = b
      BY <2>1
    <3>1. c.kind = "ask"
      BY <1>t, <2>1, BroadcastTypes DEF BroadcastsAgree
    <3> QED BY <1>t, <2>1, <3>1 DEF TypeOK
  <2>3. BroadcastsAgree'
    BY <1>t, <2>1, <2>2, BroadcastTypes DEF BroadcastsAgree, TypeOK
  <2>4. TasksOrdered'
    BY <1>t, <2>1, OrderKept DEF TypeOK, process
  <2> QED BY <1>s, <2>1, <2>3, <2>4 DEF process
<1>15. CASE ServiceStarts
  BY <1>15, <1>t, <1>s DEF ServiceStarts, DeadIsIdle, platform
<1>16. CASE Flush
  BY <1>16, <1>s DEF Flush, platform, process
<1>17. CASE Crash
  BY <1>17, <1>s, <1>d DEF Crash, platform
<1>18. CASE UNCHANGED vars
  BY <1>18, <1>s DEF vars, platform, process
<1> QED
  BY <1>1, <1>2, <1>3, <1>4, <1>5, <1>6, <1>7, <1>8, <1>9, <1>10, <1>11, <1>12,
     <1>13, <1>15, <1>16, <1>17, <1>18 DEF Next, Work, Delivery

\* What each step makes of the set of those under way: one more, one less,
\* or another stage of the same.
LEMMA OneMore ==
  ASSUME WorkInv, NEW i \in Installs, Start(i)
  PROVE  Underway' = Underway \cup {i}
<1>1. /\ queue' = Append(queue, i) /\ session[i] = "none"
      /\ UNCHANGED <<session, broadcasts>>
  BY DEF Start, platform
<1>2. /\ DOMAIN queue' = DOMAIN queue \cup {Len(queue) + 1}
      /\ queue'[Len(queue) + 1] = i
      /\ \A j \in DOMAIN queue : queue'[j] = queue[j]
  BY <1>1, AppendElements DEF WorkInv, TypeOK
<1>3. \A x \in Installs : (\E j \in DOMAIN queue' : queue'[j] = x)
                             <=> x = i \/ \E j \in DOMAIN queue : queue[j] = x
  BY <1>2
<1> QED BY <1>1, <1>3 DEF Underway

\* A task of a session that is not there yet gives up.
LEMMA OneTaskLess ==
  ASSUME WorkInv, queue # <<>>, step # "delete", TaskEnds,
         UNCHANGED <<session, broadcasts>>
  PROVE  Head(queue) \in Underway /\ Underway' = Underway \ {Head(queue)}
<1> DEFINE i == Head(queue)
<1>1. queue \in Seq(Installs) /\ queue' = Tail(queue)
  BY DEF WorkInv, TypeOK, TaskEnds
<1>2. /\ i = queue[1] /\ 1 \in DOMAIN queue /\ DOMAIN queue \subseteq Nat \ {0}
      /\ \A j \in DOMAIN queue' : j + 1 \in DOMAIN queue /\ queue'[j] = queue[j + 1]
      /\ \A j \in DOMAIN queue \ {1} : j - 1 \in DOMAIN queue' /\ queue'[j - 1] = queue[j]
  BY <1>1, TailElements
<1>3. i \in Installs /\ session[i] = "none"
  BY <1>1, <1>2 DEF WorkInv, TasksOrdered
<1>4. DOMAIN queue' \subseteq Nat \ {0}
  BY <1>1
<1>5. \A x \in Installs : (\E j \in DOMAIN queue' : queue'[j] = x)
                             <=> x # i /\ \E j \in DOMAIN queue : queue[j] = x
  <2> TAKE x \in Installs
  <2>1. ASSUME NEW j \in DOMAIN queue', queue'[j] = x
        PROVE  x # i /\ \E k \in DOMAIN queue : queue[k] = x
    <3>1. j + 1 \in DOMAIN queue /\ queue[j + 1] = x /\ j + 1 # 1
      BY <1>2, <1>4, <2>1
    <3> QED BY <1>2, <3>1 DEF WorkInv, TasksOrdered
  <2>2. ASSUME NEW j \in DOMAIN queue, queue[j] = x, x # i
        PROVE  \E k \in DOMAIN queue' : queue'[k] = x
    BY <1>2, <2>2
  <2> QED BY <2>1, <2>2
<1>6. \A b \in broadcasts : b.install # i
  BY <1>3, BroadcastTypes DEF WorkInv, BroadcastsAgree
<1> HIDE DEF i
<1>7. i \in Underway
  BY <1>2, <1>3 DEF Underway
<1>8. Underway' = Underway \ {i}
  BY <1>3, <1>5, <1>6 DEF Underway
<1> QED BY <1>7, <1>8 DEF i

\* The last broadcast of a session is delivered.
LEMMA OneResultLess ==
  ASSUME WorkInv, NEW b \in broadcasts, Receive(b), UNCHANGED <<queue, session>>
  PROVE  b.install \in Underway /\ Underway' = Underway \ {b.install}
<1> DEFINE i == b.install
<1>1. i \in Installs /\ broadcasts' = broadcasts \ {b}
      /\ session[i] \in {"prompted", "installed", "failed"}
  BY BroadcastTypes DEF WorkInv, Receive, BroadcastsAgree
<1>2. \A c \in broadcasts : c.install = i => c = b
  <2> SUFFICES ASSUME NEW c \in broadcasts, c.install = b.install PROVE c = b
    OBVIOUS
  <2>1. c.kind = b.kind
    BY BroadcastTypes DEF WorkInv, BroadcastsAgree
  <2> QED BY <2>1 DEF WorkInv, TypeOK
<1> HIDE DEF i
<1>3. b.install = i
  BY DEF i
<1>4. i \in Underway
  BY <1>1, <1>3 DEF Underway
<1>5. Underway' = Underway \ {i}
  BY <1>1, <1>2, <1>3 DEF Underway
<1> QED BY <1>3, <1>4, <1>5

\* The same installations, one of them at its next stage.
LEMMA SameSet ==
  ASSUME WorkInv,
         \/ Downloads \/ ChecksDigest \/ RecordsInstalling \/ Commits \/ DeletesFile
         \/ \E i \in Installs : PlatformAsks(i) \/ (Resolves(i) /\ UNCHANGED process)
         \/ \E b \in broadcasts : AwaitingUser(b)
         \/ ServiceStarts \/ Flush \/ UNCHANGED vars
  PROVE  Underway' = Underway
<1>t. TypeOK /\ TasksOrdered /\ BroadcastsAgree
  BY DEF WorkInv
<1>q. ASSUME UNCHANGED <<queue, session, broadcasts>> PROVE Underway' = Underway
  BY <1>q DEF Underway
<1>1. CASE Downloads \/ ChecksDigest \/ RecordsInstalling \/ ServiceStarts \/ Flush
           \/ UNCHANGED vars
  BY <1>1, <1>q DEF Downloads, ChecksDigest, RecordsInstalling, ServiceStarts, Flush,
                    vars, platform, process
<1>2. CASE Commits
  <2> DEFINE i == Head(queue)
  <2>1. /\ session' = [session EXCEPT ![i] = "committed"] /\ queue # <<>>
        /\ step = "commit" /\ UNCHANGED <<queue, broadcasts>>
    BY <1>2 DEF Commits, Now
  <2>2. i = queue[1] /\ 1 \in DOMAIN queue /\ i \in Installs
    BY <1>t, <2>1, TailElements DEF TypeOK
  <2> HIDE DEF i
  <2>3. session[i] = "none"
    BY <1>t, <2>1, <2>2 DEF TasksOrdered
  <2>4. i \in Underway /\ i \in Underway'
    BY <1>t, <2>1, <2>2, <2>3 DEF Underway, TypeOK
  <2>5. \A x \in Installs \ {i} : x \in Underway <=> x \in Underway'
    BY <1>t, <2>1 DEF Underway, TypeOK
  <2> QED BY <2>4, <2>5 DEF Underway
<1>3. CASE DeletesFile
  <2>1. /\ queue # <<>> /\ step = "delete" /\ queue' = Tail(queue)
        /\ UNCHANGED <<session, broadcasts>>
    BY <1>3 DEF DeletesFile, Now, TaskEnds, platform
  <2>2. /\ 1 \in DOMAIN queue /\ session[queue[1]] # "none"
        /\ \A j \in DOMAIN queue' : j + 1 \in DOMAIN queue /\ queue'[j] = queue[j + 1]
        /\ \A j \in DOMAIN queue \ {1} : j - 1 \in DOMAIN queue' /\ queue'[j - 1] = queue[j]
    BY <1>t, <2>1, TailElements DEF TypeOK, TasksOrdered
  <2>3. \A x \in Installs : session[x] = "none" =>
          ((\E j \in DOMAIN queue' : queue'[j] = x) <=> \E j \in DOMAIN queue : queue[j] = x)
    BY <2>2
  <2> QED BY <2>1, <2>3 DEF Underway
<1>4. ASSUME NEW i \in Installs, PlatformAsks(i) \/ (Resolves(i) /\ UNCHANGED process)
      PROVE  Underway' = Underway
  <2>1. PICK kind \in {"ask", "installed", "failed"}, stage \in {"prompted", "installed", "failed"} :
          /\ session' = [session EXCEPT ![i] = stage]
          /\ broadcasts' = broadcasts \cup {[install |-> i, kind |-> kind]}
          /\ UNCHANGED queue
    BY <1>4, EndingsAre DEF PlatformAsks, Resolves, Broadcast, process
  <2>2. session[i] \in {"committed", "asking"}
    BY <1>4, EndingsAre DEF PlatformAsks, Resolves
  <2>3. i \in Underway /\ i \in Underway'
    <3>1. [install |-> i, kind |-> kind] \in broadcasts'
      BY <2>1
    <3>2. \E b \in broadcasts' : b.install = i
      BY <3>1
    <3> QED BY <2>2, <3>2 DEF Underway
  <2>4. \A x \in Installs \ {i} : x \in Underway <=> x \in Underway'
    BY <1>t, <2>1 DEF Underway, TypeOK
  <2> QED BY <2>3, <2>4 DEF Underway
<1>5. ASSUME NEW b \in broadcasts, AwaitingUser(b) PROVE Underway' = Underway
  <2> DEFINE i == b.install
  <2>1. /\ i \in Installs /\ session[i] = "prompted"
        /\ session' = [session EXCEPT ![i] = "asking"]
        /\ broadcasts' = broadcasts \ {b} /\ UNCHANGED queue
    BY <1>5, <1>t, BroadcastTypes DEF AwaitingUser, Receive, BroadcastsAgree, process
  <2>2. i \in Underway /\ i \in Underway'
    BY <1>t, <2>1 DEF Underway, TypeOK
  <2>3. \A x \in Installs \ {i} : x \in Underway <=> x \in Underway'
    BY <1>t, <2>1 DEF Underway, TypeOK
  <2> QED BY <2>2, <2>3 DEF Underway
<1> QED BY <1>1, <1>2, <1>3, <1>4, <1>5

\* A step that neither shows nor frees anything.
LEMMA NothingShown ==
  ASSUME GuardInv, Underway' = Underway,
         UNCHANGED <<up, running, store, epoch, versions, tier>>,
         \A i \in Installs : session'[i] = "asking" => session[i] = "asking",
         \A i \in Self : session'[i] = "installed" => session[i] = "installed"
  PROVE  (GuardHasOwner /\ Shown)'
BY DEF GuardInv, GuardHasOwner, Shown, FirstProcess, ShownIsUnderway, AfterUpdate

\* Of the first process: who is under way is shown and has the guard.
LEMMA WhoIsShown ==
  ASSUME GuardInv, epoch = "first", NEW i \in Underway
  PROVE  up /\ running /\ Underway = {i} /\ store.install = i
         /\ store.state \in Working \cup {"awaiting_user"}
BY DEF GuardInv, Shown, FirstProcess, ShownIsUnderway

LEMMA AskedIsUnderway ==
  \A i \in Installs : session[i] = "asking" => i \in Underway
BY DEF Underway

LEMMA NextGuard == GuardInv /\ [Next]_vars => GuardInv'
<1> SUFFICES ASSUME GuardInv, [Next]_vars PROVE (GuardHasOwner /\ Shown)'
  BY NextWork DEF GuardInv
<1>t. /\ WorkInv /\ TypeOK /\ GuardHasOwner /\ FirstProcess /\ ShownIsUnderway
      /\ AfterUpdate /\ Self \subseteq Installs
  BY InstallerAssumption DEF GuardInv, WorkInv, Shown
<1>r. \A state, i : LET s == Record(state, i) IN
        s.state = state /\ s.install = i /\ s.seen = store.seen
  BY <1>t DEF TypeOK, Store, Record
<1>g. ASSUME queue # <<>>, step # "delete", GivesUp PROVE (GuardHasOwner /\ Shown)'
  <2> DEFINE i == Head(queue)
  <2>1. /\ store' = Record("failed", i) /\ running' = FALSE /\ TaskEnds
        /\ UNCHANGED <<up, tier, versions, session, broadcasts, epoch>>
    BY <1>g DEF GivesUp, platform
  <2>2. i \in Underway /\ Underway' = Underway \ {i}
    BY <1>g, <1>t, <2>1, OneTaskLess
  <2>3. session[i] = "none"
    BY <1>g, <1>t, TailElements DEF TypeOK, WorkInv, TasksOrdered
  <2> HIDE DEF i
  <2>4. epoch = "first" => up /\ Underway' = {}
    BY <2>2, WhoIsShown
  <2>5. FirstProcess'
    BY <1>t, <1>r, <2>1, <2>4 DEF FirstProcess
  <2>6. ShownIsUnderway'
    <3>1. epoch = "first" => \A x \in Installs : session[x] # "asking"
      BY <2>2, <2>3, AskedIsUnderway, WhoIsShown
    <3>2. store'.state = "failed"
      BY <1>r, <2>1
    <3> QED BY <2>1, <2>4, <3>1, <3>2 DEF ShownIsUnderway, Working
  <2>7. AfterUpdate'
    BY <1>t, <1>r, <2>1, <2>3 DEF AfterUpdate
  <2> QED BY <2>1, <2>5, <2>6, <2>7 DEF Shown, GuardHasOwner
<1>1. ASSUME NEW i \in Installs, Start(i) PROVE (GuardHasOwner /\ Shown)'
  <2>1. /\ store' = Record("downloading", i) /\ running' = TRUE
        /\ up /\ ~running /\ session[i] = "none"
        /\ UNCHANGED <<up, tier, versions, session, epoch>>
    BY <1>1 DEF Start, platform
  <2>2. Underway' = Underway \cup {i}
    BY <1>1, <1>t, OneMore
  <2>3. epoch = "first" => Underway = {}
    BY <1>t, <2>1 DEF FirstProcess
  <2>4. FirstProcess'
    BY <1>t, <1>r, <2>1 DEF FirstProcess
  <2>5. ShownIsUnderway'
    BY <1>r, <2>1, <2>2, <2>3, AskedIsUnderway DEF ShownIsUnderway, Working
  <2>6. AfterUpdate'
    BY <1>t, <1>r, <2>1 DEF AfterUpdate
  <2> QED BY <2>2, <2>4, <2>5, <2>6 DEF Shown, GuardHasOwner
<1>2. CASE Downloads \/ ChecksDigest \/ DeletesFile \/ Flush \/ UNCHANGED vars
  <2>1. UNCHANGED <<up, running, store, epoch, versions, tier, session>>
    BY <1>2 DEF Downloads, ChecksDigest, DeletesFile, Flush, vars, platform, process
  <2> QED BY <1>2, <1>t, <2>1, SameSet, NothingShown
<1>3. CASE Commits
  <2>1. UNCHANGED <<up, running, store, epoch, versions, tier>>
        /\ session' = [session EXCEPT ![Head(queue)] = "committed"]
    BY <1>3 DEF Commits
  <2>2. \A i \in Installs : session'[i] \in {session[i], "committed"}
    BY <1>t, <2>1 DEF TypeOK
  <2> QED BY <1>3, <1>t, <2>1, <2>2, SameSet, NothingShown
<1>4. ASSUME NEW i \in Installs, PlatformAsks(i) PROVE (GuardHasOwner /\ Shown)'
  <2>1. UNCHANGED <<up, running, store, epoch, versions, tier>>
        /\ session' = [session EXCEPT ![i] = "prompted"]
    BY <1>4 DEF PlatformAsks, process
  <2>2. \A x \in Installs : session'[x] \in {session[x], "prompted"}
    BY <1>t, <2>1 DEF TypeOK
  <2> QED BY <1>4, <1>t, <2>1, <2>2, SameSet, NothingShown
<1>5. CASE RecordsInstalling
  <2> DEFINE i == Head(queue)
  <2>1. /\ store' = Record("installing", i) /\ queue # <<>> /\ step # "delete"
        /\ UNCHANGED <<up, running, epoch, versions, tier, session>>
    BY <1>5 DEF RecordsInstalling, Now, platform
  <2>2. i \in Installs /\ session[i] = "none" /\ i \in Underway
    BY <1>t, <2>1, TailElements DEF TypeOK, WorkInv, TasksOrdered, Underway
  <2>3. Underway' = Underway
    BY <1>5, <1>t, SameSet
  <2> HIDE DEF i
  <2>4. FirstProcess' /\ GuardHasOwner'
    BY <1>t, <1>r, <2>1, <2>3 DEF FirstProcess, GuardHasOwner
  <2>5. ShownIsUnderway'
    BY <1>r, <2>1, <2>2, <2>3, AskedIsUnderway, WhoIsShown DEF ShownIsUnderway, Working
  <2>6. AfterUpdate'
    BY <1>t, <1>r, <2>1, <2>2 DEF AfterUpdate
  <2> QED BY <2>4, <2>5, <2>6 DEF Shown
<1>6. CASE DownloadFails \/ DigestMismatch \/ CommitFails
  BY <1>6, <1>g DEF DownloadFails, DigestMismatch, CommitFails, Now
<1>7. ASSUME NEW i \in Installs, Resolves(i) PROVE (GuardHasOwner /\ Shown)'
  <2> PICK outcome \in Endings(i) :
         /\ session' = [session EXCEPT ![i] = outcome]
         /\ IF i \in Self /\ outcome = "installed"
            THEN /\ versions' = versions + 1 /\ Dies
                 /\ epoch' = IF epoch = "first" THEN "updated" ELSE epoch
            ELSE UNCHANGED <<versions, process, store, epoch>>
    BY <1>7 DEF Resolves
  <2>0. UNCHANGED <<disk, tier>>
    BY <1>7 DEF Resolves
  <2>1. CASE ~(i \in Self /\ outcome = "installed")
    <3>1. UNCHANGED <<up, running, store, epoch, versions, tier, process>>
      BY <2>0, <2>1 DEF process
    <3>2. /\ \A x \in Installs : session'[x] = "asking" => session[x] = "asking"
          /\ \A x \in Self : session'[x] = "installed" => session[x] = "installed"
      BY <1>t, <2>1, EndingsAre DEF TypeOK
    <3> QED BY <1>7, <1>t, <3>1, <3>2, SameSet, NothingShown
  <2>2. CASE i \in Self /\ outcome = "installed"
    <3>1. /\ versions' = versions + 1 /\ ~up' /\ ~running' /\ store' = disk
          /\ epoch' = IF epoch = "first" THEN "updated" ELSE epoch
      BY <2>2 DEF Dies
    <3>2. GuardHasOwner' /\ FirstProcess' /\ ShownIsUnderway'
      BY <3>1 DEF GuardHasOwner, FirstProcess, ShownIsUnderway
    <3>3. CASE epoch = "first"
      <4>1. versions' = 2 /\ \A x \in Self \ {i} : session'[x] # "installed"
        BY <1>t, <3>1, <3>3 DEF FirstProcess, TypeOK
      <4>2. ASSUME tier = "admin"
            PROVE  store'.state = "awaiting_user" /\ store'.seen = 1
        <5>1. session[i] = "asking" /\ disk = store
          BY <2>2, <4>2, EndingsAre
        <5> QED BY <1>t, <3>1, <3>3, <5>1, AskedIsUnderway, WhoIsShown
                DEF FirstProcess, ShownIsUnderway
      <4>3. AfterUpdate'
        BY <2>0, <3>1, <4>1, <4>2 DEF AfterUpdate
      <4> QED BY <3>2, <4>3 DEF Shown
    <3>4. CASE epoch # "first"
      <4>1. AfterUpdate'
        BY <1>t, <3>1, <3>4 DEF AfterUpdate, TypeOK
      <4> QED BY <3>2, <4>1 DEF Shown
    <3> QED BY <3>3, <3>4
  <2> QED BY <2>1, <2>2
<1>8. ASSUME NEW b \in broadcasts, ResultArrives(b) \/ NoConfirmation(b)
      PROVE  (GuardHasOwner /\ Shown)'
  <2> DEFINE i == b.install
  <2>1. PICK outcome \in {"installed", "failed"} :
          Finished(outcome, i) /\ (session[i] = "installed" => outcome = "installed")
    BY <1>8, <1>t, BroadcastTypes
       DEF ResultArrives, NoConfirmation, WorkInv, BroadcastsAgree
  <2>2. Receive(b) /\ UNCHANGED <<up, queue, tier, versions, session, epoch>>
    BY <1>8 DEF ResultArrives, NoConfirmation
  <2>3. i \in Underway /\ Underway' = Underway \ {i}
    BY <1>t, <2>2, OneResultLess
  <2> HIDE DEF i
  <2>4. epoch = "first" => up /\ Underway' = {}
    BY <2>3, WhoIsShown
  <2>5. GuardHasOwner'
    BY <1>t, <2>1 DEF Finished, GuardHasOwner, WorkInv, DeadIsIdle
  <2>6. FirstProcess'
    BY <1>t, <1>r, <2>1, <2>2, <2>4 DEF Finished, FirstProcess
  <2>7. ShownIsUnderway'
    <3>1. ASSUME epoch = "first" PROVE store'.state \notin Working \cup {"awaiting_user"}
      BY <1>r, <2>1, <2>4, <3>1 DEF Finished, Working
    <3>2. epoch = "first" => \A x \in Installs : session[x] # "asking"
      <4> SUFFICES ASSUME epoch = "first", NEW x \in Installs, session[x] = "asking"
                   PROVE  FALSE
        OBVIOUS
      <4>1. x = i /\ session'[x] = "asking"
        BY <2>2, <2>3, AskedIsUnderway, WhoIsShown
      <4>2. session[i] # "asking"
        BY <1>t, BroadcastTypes DEF WorkInv, BroadcastsAgree, i
      <4> QED BY <4>1, <4>2
    <3> QED BY <2>2, <2>4, <3>1, <3>2 DEF ShownIsUnderway
  <2>8. AfterUpdate'
    BY <1>t, <1>r, <2>1, <2>2 DEF Finished, AfterUpdate
  <2> QED BY <2>5, <2>6, <2>7, <2>8 DEF Shown
<1>9. ASSUME NEW b \in broadcasts, AwaitingUser(b) PROVE (GuardHasOwner /\ Shown)'
  <2> DEFINE i == b.install
  <2>1. /\ session' = [session EXCEPT ![i] = "asking"] /\ i \in Installs
        /\ store' = IF up THEN Record("awaiting_user", i) ELSE store
        /\ UNCHANGED <<up, running, epoch, versions, tier>>
    BY <1>9, <1>t, BroadcastTypes DEF AwaitingUser, process
  <2>2. i \in Underway /\ Underway' = Underway
    BY <1>9, <1>t, <2>1, SameSet DEF Underway
  <2> HIDE DEF i
  <2>3. FirstProcess' /\ GuardHasOwner'
    BY <1>t, <1>r, <2>1, <2>2 DEF FirstProcess, GuardHasOwner, TypeOK
  <2>4. ShownIsUnderway'
    BY <1>r, <2>1, <2>2, WhoIsShown DEF ShownIsUnderway
  <2>5. AfterUpdate'
    BY <1>t, <1>r, <2>1 DEF AfterUpdate, TypeOK
  <2> QED BY <2>3, <2>4, <2>5 DEF Shown
<1>10. CASE ServiceStarts
  <2>1. /\ ~up /\ up' /\ store' = Settle(store)
        /\ UNCHANGED <<running, epoch, versions, tier, session>>
    BY <1>10 DEF ServiceStarts, platform
  <2>2. Underway' = Underway
    BY <1>10, <1>t, SameSet
  <2>3. /\ store'.seen = versions /\ store'.install = store.install
        /\ store'.state = IF store.state = "awaiting_user" /\ store.seen \notin {0, versions}
                          THEN "installed" ELSE store.state
    BY <1>t, <2>1 DEF Settle, TypeOK, Store
  <2>4. FirstProcess' /\ GuardHasOwner'
    BY <1>t, <2>1, <2>2, <2>3 DEF FirstProcess, GuardHasOwner
  <2>5. ShownIsUnderway'
    <3>1. epoch = "first" => Underway = {} /\ store.state # "awaiting_user"
      BY <1>t, <2>1 DEF FirstProcess, ShownIsUnderway
    <3> QED BY <1>t, <2>1, <2>2, <2>3, <3>1 DEF ShownIsUnderway
  <2>6. AfterUpdate'
    BY <1>t, <2>1, <2>3 DEF AfterUpdate
  <2> QED BY <2>4, <2>5, <2>6 DEF Shown
<1>11. CASE Crash
  BY <1>11 DEF Crash, Dies, GuardHasOwner, Shown, FirstProcess, ShownIsUnderway, AfterUpdate
<1> QED
  BY <1>1, <1>2, <1>3, <1>4, <1>5, <1>6, <1>7, <1>8, <1>9, <1>10, <1>11
     DEF Next, Work, Delivery

LEMMA InitGuard == Init => GuardInv
<1> SUFFICES ASSUME Init PROVE GuardInv
  OBVIOUS
<1>1. WorkInv
  BY InitType DEF Init, WorkInv, TasksOrdered, BeginsWithDownload, BroadcastsAgree,
                  DeadIsIdle
<1>2. Underway = {}
  BY DEF Init, Underway
<1>3. GuardHasOwner /\ FirstProcess /\ AfterUpdate
  BY <1>2, InstallerAssumption DEF Init, GuardHasOwner, FirstProcess, AfterUpdate
<1>4. ShownIsUnderway
  BY <1>2 DEF Init, ShownIsUnderway, Working
<1> QED BY <1>1, <1>3, <1>4 DEF GuardInv, Shown

LEMMA GuardAlways == Spec => []GuardInv
BY InitGuard, NextGuard, PTL DEF Spec

\* A taken guard has an installation that will free it, for any
\* installations and whatever crashed, was updated or came too late.
THEOREM GuardOwned == Spec => []GuardHasOwner
<1>1. GuardInv => GuardHasOwner
  BY DEF GuardInv
<1> QED BY <1>1, GuardAlways, PTL

\* As long as the first process lives, last_install shows what is under way.
THEOREM ShownTruly == Spec => []ShownIsUnderway
<1>1. GuardInv => ShownIsUnderway
  BY DEF GuardInv, Shown
<1> QED BY <1>1, GuardAlways, PTL

\* As long as the first process lives, at most one installation is under
\* way and the guard is taken for it.
THEOREM OneInstallation == Spec => []OneAtATime
<1>1. GuardInv => OneAtATime
  <2> SUFFICES ASSUME GuardInv, epoch = "first"
               PROVE  Cardinality(Underway) <= 1 /\ (Underway # {} => running)
    BY DEF OneAtATime
  <2>1. CASE Underway = {}
    BY <2>1, FS_EmptySet
  <2>2. CASE Underway # {}
    <3> PICK i \in Underway : TRUE
      BY <2>2
    <3>1. Underway = {i} /\ running
      BY WhoIsShown
    <3> QED BY <3>1, FS_Singleton
  <2> QED BY <2>1, <2>2
<1> QED BY <1>1, GuardAlways, PTL

\* The first confirmed update of the controller is shown as installed from
\* the next start of the service on.
THEOREM UpdateShown == Spec => []SelfUpdateShown
<1>1. GuardInv => SelfUpdateShown
  BY DEF GuardInv, Shown, AfterUpdate, SelfUpdateShown
<1> QED BY <1>1, GuardAlways, PTL
=============================================================================
