----------------------------- MODULE Installer -----------------------------
(***************************************************************************)
(* install_package on the tablet (Installer.kt, InstallReceiver.kt): one   *)
(* guard for an installation from the HTTP request to its result, one      *)
(* worker thread that downloads to one file, checks it and commits a       *)
(* session, and a platform that keeps the session and broadcasts its       *)
(* result whatever becomes of the process.  An update of the controller    *)
(* itself kills the process that asked for it.                             *)
(***************************************************************************)
EXTENDS Naturals, Sequences, FiniteSets

CONSTANTS
  Installs,  \* the installations that may be asked for, each once
  Given,     \* those whose request carries a sha256
  Self,      \* those that update the controller itself
  Tiers,     \* what the controller may be: "owner" or "admin"
  Budgets    \* bounds: failures and crashes

Nothing == "nothing"  \* no installation, no file
Corrupt == "corrupt"  \* a file that is not what was published
Budget  == [failures : Nat, crashes : Nat]

ASSUME InstallerAssumption ==
  /\ Given \subseteq Installs /\ Self \subseteq Installs
  /\ Installs \cap {Nothing, Corrupt} = {}
  /\ Tiers \subseteq {"owner", "admin"}
  /\ Budgets \subseteq Budget

VARIABLES
  up,         \* the service runs: HTTP is served and Installer.current is set
  running,    \* the guard
  queue,      \* the worker's tasks
  step,       \* the next step of the first of them
  file,       \* cacheDir/update.apk
  store,      \* last_install and last_seen_version as the process reads them
  disk,       \* what of them has reached the disk
  tier,
  versions,   \* how often the controller has been updated, from 1
  session,    \* the platform's session of each installation
  sealed,     \* what is in it
  broadcasts, \* those not delivered yet
  epoch,      \* how the first process ended, if it did
  left        \* how much of the budget remains

process  == <<up, running, queue, step>>
platform == <<tier, versions, session, sealed, broadcasts>>
vars == <<process, file, store, disk, platform, epoch, left>>

Working == {"downloading", "installing"}
Settled == {"none", "installed", "failed"}
Store == [state : Working \cup Settled \cup {"awaiting_user"},
          install : Installs \cup {Nothing}, seen : Nat]

Record(state, i) == [store EXCEPT !.state = state, !.install = i]
Spend(kind) == left[kind] > 0 /\ left' = [left EXCEPT ![kind] = @ - 1]

-----------------------------------------------------------------------------
(* The request and the worker.                                             *)

\* start; with the guard taken the answer is 422 and nothing changes.
StartsAnyway(i) ==  \* variant: the guard is not looked at
  /\ up /\ session[i] = "none"
  /\ \A j \in DOMAIN queue : queue[j] # i
  /\ running' = TRUE
  /\ store' = Record("downloading", i)
  /\ queue' = Append(queue, i)
  /\ UNCHANGED <<up, step, file, disk, platform, epoch, left>>
Start(i) ==
  /\ up /\ ~running /\ session[i] = "none"
  /\ \A j \in DOMAIN queue : queue[j] # i
  /\ running' = TRUE
  /\ store' = Record("downloading", i)
  /\ queue' = Append(queue, i)
  /\ UNCHANGED <<up, step, file, disk, platform, epoch, left>>

Now(s) == queue # <<>> /\ step = s
TaskEnds == queue' = Tail(queue) /\ step' = "download"

\* The catch around download and commit.
GivesUpLocked ==  \* variant: a failure keeps the guard
  /\ TaskEnds
  /\ store' = Record("failed", Head(queue))
  /\ UNCHANGED <<up, running, disk, platform, epoch>>
GivesUp ==
  /\ TaskEnds
  /\ store' = Record("failed", Head(queue))
  /\ running' = FALSE
  /\ UNCHANGED <<up, disk, platform, epoch>>

Downloads ==
  /\ Now("download")
  /\ step' = "check"
  /\ \/ file' = Head(queue) /\ UNCHANGED left
     \/ file' = Corrupt /\ Spend("failures")
  /\ UNCHANGED <<up, running, queue, store, disk, platform, epoch>>
DownloadFails ==
  /\ Now("download") /\ Spend("failures")
  /\ file' \in {file, Corrupt}
  /\ GivesUp

\* The digest is checked only if one came with the request.
AnyMatches(i) == TRUE  \* variant: the digest is not looked at
Matches(i) == i \in Given => file = i
ChecksDigest ==
  /\ Now("check") /\ Matches(Head(queue))
  /\ step' = "record"
  /\ UNCHANGED <<up, running, queue, file, store, disk, platform, epoch, left>>
DigestMismatch ==
  /\ Now("check") /\ ~Matches(Head(queue))
  /\ file' = Nothing
  /\ GivesUp
  /\ UNCHANGED left

\* commit: the session is written, recorded, committed; the file deleted.
RecordsInstalling ==
  /\ Now("record")
  /\ store' = Record("installing", Head(queue))
  /\ step' = "commit"
  /\ UNCHANGED <<up, running, queue, file, disk, platform, epoch, left>>
Commits ==
  /\ Now("commit")
  /\ session' = [session EXCEPT ![Head(queue)] = "committed"]
  /\ sealed' = [sealed EXCEPT ![Head(queue)] = file]
  /\ step' = "delete"
  /\ UNCHANGED <<up, running, queue, file, store, disk, tier, versions,
                 broadcasts, epoch, left>>
CommitFails ==
  /\ Now("record") \/ Now("commit")
  /\ Spend("failures")
  /\ GivesUp
  /\ UNCHANGED file
DeletesFile ==
  /\ Now("delete")
  /\ file' = Nothing
  /\ TaskEnds
  /\ UNCHANGED <<up, running, store, disk, platform, epoch, left>>

-----------------------------------------------------------------------------
(* The platform and InstallReceiver.                                       *)

Broadcast(i, kind) == broadcasts' = broadcasts \cup {[install |-> i, kind |-> kind]}

\* The process is gone; the platform goes on, the disk has what reached it.
Dies ==
  /\ up' = FALSE /\ running' = FALSE /\ queue' = <<>> /\ step' = "download"
  /\ store' = disk

\* Without device ownership the platform wants the user to confirm.
PlatformAsks(i) ==
  /\ session[i] = "committed" /\ tier = "admin"
  /\ session' = [session EXCEPT ![i] = "prompted"]
  /\ Broadcast(i, "ask")
  /\ UNCHANGED <<process, file, store, disk, tier, versions, sealed, epoch, left>>

\* How a session may end: for a plain admin a failure before the question,
\* or the user's answer, which comes no sooner than what was recorded has
\* reached the disk.
Endings(i) ==
  CASE session[i] = "committed" /\ tier = "admin" -> {"failed"}
    [] session[i] = "committed" /\ tier # "admin" -> {"installed", "failed"}
    [] session[i] = "asking" /\ disk = store      -> {"installed", "failed"}
    [] OTHER -> {}
Resolves(i) ==
  /\ \E outcome \in Endings(i) :
       /\ session' = [session EXCEPT ![i] = outcome]
       /\ Broadcast(i, outcome)
       /\ IF i \in Self /\ outcome = "installed"
          THEN /\ versions' = versions + 1 /\ Dies
               /\ epoch' = IF epoch = "first" THEN "updated" ELSE epoch
          ELSE UNCHANGED <<versions, process, store, epoch>>
  /\ UNCHANGED <<file, disk, tier, sealed, left>>

FinishesUntold(outcome, i) ==  \* variant: only the guard is freed
  IF up THEN running' = FALSE /\ UNCHANGED store
        ELSE UNCHANGED <<store, running>>
\* finished, of the Installer there is: of a process that only the
\* broadcast started there is none, and the result is dropped.
Finished(outcome, i) ==
  IF up THEN store' = Record(outcome, i) /\ running' = FALSE
        ELSE UNCHANGED <<store, running>>
Receive(b) == b \in broadcasts /\ broadcasts' = broadcasts \ {b}

AnythingArrives(b) ==  \* variant: a pending confirmation is taken for a result
  /\ Receive(b)
  /\ Finished(b.kind, b.install)
  /\ UNCHANGED <<up, queue, step, file, disk, tier, versions, session, sealed, epoch, left>>
\* The result is recorded, or the confirmation is on the screen.
ResultArrives(b) ==
  /\ Receive(b) /\ b.kind # "ask"
  /\ Finished(b.kind, b.install)
  /\ UNCHANGED <<up, queue, step, file, disk, tier, versions, session, sealed, epoch, left>>
AwaitingUser(b) ==
  /\ Receive(b) /\ b.kind = "ask"
  /\ session' = [session EXCEPT ![b.install] = "asking"]
  /\ store' = IF up THEN Record("awaiting_user", b.install) ELSE store
  /\ UNCHANGED <<process, file, disk, tier, versions, sealed, epoch, left>>
NoConfirmation(b) ==
  /\ Receive(b) /\ b.kind = "ask" /\ Spend("failures")
  /\ Finished("failed", b.install)
  /\ UNCHANGED <<up, queue, step, file, disk, tier, versions, session, sealed, epoch>>

-----------------------------------------------------------------------------
(* The service and the disk.                                               *)

\* settleSelfUpdate, then a new Installer with its guard free.
SettlesNothing(s) == [s EXCEPT !.seen = versions]  \* variant: no settlement
Settle(s) ==
  [s EXCEPT !.seen = versions,
            !.state = IF @ = "awaiting_user" /\ s.seen \notin {0, versions}
                      THEN "installed" ELSE @]
ServiceStarts ==
  /\ ~up
  /\ up' = TRUE
  /\ store' = Settle(store)
  /\ UNCHANGED <<running, queue, step, file, disk, platform, epoch, left>>

Flush ==
  /\ disk # store
  /\ disk' = store
  /\ UNCHANGED <<process, file, store, platform, epoch, left>>

Crash ==
  /\ Spend("crashes") /\ Dies
  /\ epoch' = "crashed"
  /\ UNCHANGED <<file, disk, platform>>

-----------------------------------------------------------------------------
Init ==
  /\ up = FALSE /\ running = FALSE /\ queue = <<>> /\ step = "download"
  /\ file = Nothing
  /\ store = [state |-> "none", install |-> Nothing, seen |-> 0] /\ disk = store
  /\ tier \in Tiers /\ versions = 1
  /\ session = [i \in Installs |-> "none"]
  /\ sealed = [i \in Installs |-> Nothing]
  /\ broadcasts = {} /\ epoch = "first" /\ left \in Budgets

Work == Downloads \/ ChecksDigest \/ DigestMismatch \/ RecordsInstalling
        \/ Commits \/ DeletesFile
Delivery == \E b \in broadcasts : ResultArrives(b) \/ AwaitingUser(b) \/ NoConfirmation(b)

Next ==
  \/ \E i \in Installs : Start(i) \/ PlatformAsks(i) \/ Resolves(i)
  \/ Work \/ DownloadFails \/ CommitFails \/ Delivery
  \/ ServiceStarts \/ Flush \/ Crash

Spec == Init /\ [][Next]_vars

\* The worker works, the platform handles a committed session and delivers
\* its broadcasts, the service is started again.  No user has to answer.
FairSpec ==
  /\ Spec
  /\ WF_vars(Work) /\ WF_vars(Delivery) /\ WF_vars(ServiceStarts)
  /\ \A i \in Installs : /\ WF_vars(PlatformAsks(i))
                         /\ WF_vars(tier = "owner" /\ Resolves(i))

-----------------------------------------------------------------------------
TypeOK ==
  /\ up \in BOOLEAN /\ running \in BOOLEAN /\ queue \in Seq(Installs)
  /\ step \in {"download", "check", "record", "commit", "delete"}
  /\ file \in Installs \cup {Nothing, Corrupt}
  /\ store \in Store /\ disk \in Store
  /\ tier \in Tiers /\ versions \in Nat
  /\ session \in [Installs -> {"none", "committed", "prompted", "asking",
                               "installed", "failed"}]
  /\ sealed \in [Installs -> Installs \cup {Nothing, Corrupt}]
  /\ broadcasts \subseteq [install : Installs, kind : {"ask", "installed", "failed"}]
  /\ epoch \in {"first", "updated", "crashed"} /\ left \in Budget

\* Installations on their way: with the worker, the platform or the receiver.
Underway == {i \in Installs :
               \/ \E j \in DOMAIN queue : queue[j] = i /\ session[i] = "none"
               \/ session[i] \in {"committed", "asking"}
               \/ \E b \in broadcasts : b.install = i}

\* "an install is already running" (HttpServer.install): as long as the
\* first process lives, at most one installation is under way, and the
\* guard is taken for it.
OneAtATime ==
  epoch = "first" => Cardinality(Underway) <= 1 /\ (Underway # {} => running)

\* The safety half of GuardFreed: as long as the guard is taken there is an
\* installation on its way whose failure or result will free it, whatever
\* was killed, restarted or freed too early before.
GuardHasOwner == running => Underway # {}

\* "progress and outcome arrive in last_install" (docs/protocol.md): as long
\* as the first process lives, it shows an installation that has not ended
\* exactly when there is one, it names that one, and it reports
\* awaiting_user when the user is asked.
ShownIsUnderway ==
  epoch = "first" =>
    /\ Underway = IF store.state \in Working \cup {"awaiting_user"}
                  THEN {store.install} ELSE {}
    /\ \A i \in Installs : session[i] = "asking" => store.state = "awaiting_user"

\* The safety half of SelfUpdateTold: once the service runs again after the
\* first confirmed update of the controller, last_install shows that update
\* as nothing but installed, whatever was asked for since.
SelfUpdateShown ==
  epoch = "updated" /\ versions = 2 /\ up /\ tier = "admin" =>
    \A i \in Self : session[i] = "installed"
                     => store.install # i \/ store.state = "installed"

\* "the optional sha256 adds transport integrity": the shared file is never
\* replaced between the check and the session, however many installations
\* a wrongly freed guard lets in.
SealedIsIntact ==
  \A i \in Given : session[i] # "none" => sealed[i] = i

\* The guard is freed in the end, unless the user is asked.
GuardFreed == running ~> ~running \/ \E i \in Installs : session[i] = "asking"

\* "progress and outcome arrive in last_install" (docs/protocol.md), as long
\* as the first process lives.
OutcomeTold ==
  store.state \in Working ~> store.state \notin Working \/ epoch # "first"

\* settleSelfUpdate: "record it as installed" when a confirmed update of the
\* controller itself has killed the process before its result arrived.
SelfUpdateTold ==
  \A i \in Self :
    session[i] = "installed" /\ tier = "admin"
      ~> store.install # i \/ store.state = "installed" \/ epoch = "crashed"
=============================================================================
