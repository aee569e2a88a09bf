-------------------------- MODULE Tracking_proofs ---------------------------
(***************************************************************************)
(* Whatever moves, is rotated, lost, seen late or paired by whom, an entry *)
(* of Home Assistant stays with its tablet: the proof, for any tablets,    *)
(* addresses and budgets.  It rests on no fairness.                        *)
(***************************************************************************)
EXTENDS Tracking, TLAPS

\* What has a coordinator, waits for the user or is looked for has an entry.
Loaded ==
  /\ \A t \in Tablets : phase[t] # "none" \/ asked[t] \/ chase[t] # None
                          => entry[t] # NoEntry
  /\ flow.kind = "reauth" => flow.for \in Tablets /\ entry[flow.for] # NoEntry

TrackInv == TypeOK /\ Loaded /\ NeverRedirected

LEMMA InitTrack == Init => TrackInv
<1> SUFFICES ASSUME Init PROVE TrackInv
  OBVIOUS
<1>1. at \in [Tablets -> Addresses \cup {None}] /\ left \in Budget
  BY TrackingAssumption DEF Init
<1>2. TypeOK
  BY <1>1 DEF Init, TypeOK
<1>3. Loaded
  BY DEF Init, Loaded, NoFlow
<1>4. NeverRedirected
  BY DEF Init, NeverRedirected
<1> QED BY <1>2, <1>3, <1>4 DEF TrackInv

\* An entry there is, is one with an address.
LEMMA EntryType ==
  ASSUME TypeOK, NEW t \in Tablets
  PROVE  /\ entry[t] # NoEntry => entry[t] \in Entry
         /\ entry[t].mac \in Tablets \cup {None}
<1>1. entry[t] \in Entry \cup {NoEntry}
  BY DEF TypeOK
<1> QED BY <1>1 DEF Entry, NoEntry

\* Whoever accepts a token is the tablet that drew it.
LEMMA Accepted ==
  ASSUME NEW host, NEW token, NEW u \in Accepting(host, token)
  PROVE  u \in Tablets /\ at[u] = host /\ token = Token(u) /\ token[1] = u
BY DEF Accepting, Token

LEMMA Spent ==
  ASSUME left \in Budget, NEW n \in {"moves", "rotations", "lost", "flows", "reloads"},
         left[n] > 0, left' = [left EXCEPT ![n] = @ - 1]
  PROVE  left' \in Budget
BY DEF Budget

LEMMA UnansweredType ==
  ASSUME left \in Budget, NEW host, Unanswered(host)
  PROVE  left' \in Budget
BY Spent DEF Unanswered, Loses, Budget

\* _sync_mac only ever registers the MAC of some tablet.
LEMMA SyncType ==
  ASSUME TypeOK, entry' \in [Tablets -> Entry \cup {NoEntry}],
         NEW t \in Tablets, NEW s, s \in Tablets \cup {None}, NEW adding \in BOOLEAN,
         SyncMac(t, s, adding)
  PROVE  /\ known' \in [Tablets -> Tablets \cup {None}]
         /\ device' \in [Tablets -> BOOLEAN]
         /\ connections' \in [Tablets -> SUBSET Tablets]
<1>1. OwnMac(t, s) \in Tablets \cup {None}
  <2>1. entry'[t] \in Entry \cup {NoEntry}
    OBVIOUS
  <2> QED BY <2>1 DEF OwnMac, Entry, NoEntry
<1>2. MacsAt(entry'[t].host) \subseteq Tablets
  BY DEF MacsAt, Clients
<1>3. FoundMacs(t, s) \subseteq Tablets
  BY <1>1, <1>2 DEF FoundMacs
<1>4. PICK m \in Tablets \cup {None} :
        /\ known' = [known EXCEPT ![t] = m]
        /\ device' = [device EXCEPT ![t] = @ \/ adding]
        /\ connections' = [connections EXCEPT ![t] =
             @ \cup Some(m) \cup (IF adding THEN Some(OwnMac(t, s)) ELSE {})]
  <2>1. known[t] \in Tablets \cup {None}
    BY DEF TypeOK
  <2> QED BY <1>3, <2>1 DEF SyncMac
<1>5. Some(m) \subseteq Tablets /\ Some(OwnMac(t, s)) \subseteq Tablets
  BY <1>1 DEF Some
<1> QED BY <1>4, <1>5 DEF TypeOK

\* What a poll or a report leaves of the coordinator.
LEMMA FetchedType ==
  ASSUME TypeOK, entry' \in [Tablets -> Entry \cup {NoEntry}],
         NEW t \in Tablets, NEW s \in {t, None}, Fetched(t, s)
  PROVE  /\ known' \in [Tablets -> Tablets \cup {None}]
         /\ device' \in [Tablets -> BOOLEAN]
         /\ connections' \in [Tablets -> SUBSET Tablets]
         /\ phase' \in [Tablets -> {"none", "setup", "refresh", "running", "failed", "stopped"}]
         /\ shown' \in [Tablets -> Tablets \cup {None}]
         /\ shown'[t] \in {shown[t], s}
         /\ \A u \in Tablets \ {t} : phase'[u] = phase[u] /\ shown'[u] = shown[u]
<1>1. CASE phase[t] = "setup"
  BY <1>1 DEF Fetched, TypeOK, registry
<1>2. CASE phase[t] # "setup"
  <2>1. /\ phase' = [phase EXCEPT ![t] = "running"] /\ shown' = [shown EXCEPT ![t] = s]
        /\ SyncMac(t, s, phase[t] = "refresh")
    BY <1>2 DEF Fetched
  <2>2. /\ known' \in [Tablets -> Tablets \cup {None}]
        /\ device' \in [Tablets -> BOOLEAN]
        /\ connections' \in [Tablets -> SUBSET Tablets]
    BY <2>1, SyncType
  <2> QED BY <2>1, <2>2 DEF TypeOK
<1> QED BY <1>1, <1>2

\* A new coordinator starts from the entry.
LEMMA LoadType ==
  ASSUME TypeOK, NEW t \in Tablets, entry'[t] \in Entry, Load(t)
  PROVE  /\ phase' \in [Tablets -> {"none", "setup", "refresh", "running", "failed", "stopped"}]
         /\ client' \in [Tablets -> Addresses \cup {None}]
         /\ chase' \in [Tablets -> Addresses \cup {None}]
         /\ armed' \in [Tablets -> BOOLEAN]
         /\ known' \in [Tablets -> Tablets \cup {None}]
         /\ shown' \in [Tablets -> Tablets \cup {None}]
         /\ shown'[t] = None
         /\ \A u \in Tablets \ {t} : /\ phase'[u] = phase[u] /\ chase'[u] = chase[u]
                                     /\ shown'[u] = shown[u]
<1>1. entry'[t].host \in Addresses
  BY DEF Entry
<1> QED BY <1>1 DEF Load, TypeOK
-----------------------------------------------------------------------------
(* The steps.                                                              *)

LEMMA WorldTrack == TrackInv /\ Environment => TrackInv'
<1> SUFFICES ASSUME TrackInv, NEW t \in Tablets,
                    \/ \E a \in Addresses \cup {None} : Move(t, a)
                    \/ TrackerUpdates(t) \/ RotateToken(t)
             PROVE  TrackInv'
  BY DEF Environment
<1>1. /\ at' \in [Tablets -> Addresses \cup {None}] /\ seen' \in [Tablets -> Addresses \cup {None}]
      /\ secret' \in [Tablets -> Nat]
  BY DEF TrackInv, TypeOK, Move, TrackerUpdates, RotateToken
<1>2. left' \in Budget
  BY Spent DEF TrackInv, TypeOK, Move, TrackerUpdates, RotateToken
<1>3. UNCHANGED <<entry, registry, coordinator, asked, flow>>
  BY DEF Move, TrackerUpdates, RotateToken
<1> QED BY <1>1, <1>2, <1>3
    DEF TrackInv, TypeOK, Loaded, NeverRedirected, registry, coordinator

LEMMA PollTrack ==
  ASSUME TrackInv, NEW t \in Tablets, PollStep(t)
  PROVE  TrackInv'
<1>t. TypeOK /\ Loaded /\ NeverRedirected /\ left \in Budget /\ None \notin Tablets
  BY TrackingAssumption DEF TrackInv, TypeOK
<1>e. Polls(t) => entry[t] # NoEntry /\ entry[t] \in Entry /\ entry[t].token[1] = t
  BY <1>t, EntryType DEF Loaded, NeverRedirected, Polls
<1>f. ASSUME Polls(t), NEW s \in {t, None}, Fetched(t, s), s = t \/ s = shown[t], left' \in Budget,
             UNCHANGED <<world, entry, client, chase, armed, asked, flow>>
      PROVE  TrackInv'
  <2>1. entry' \in [Tablets -> Entry \cup {NoEntry}]
    BY <1>f, <1>t DEF TypeOK
  <2>2. TypeOK'
    BY <1>f, <1>t, <2>1, FetchedType DEF TypeOK, world
  <2>3. Loaded'
    <3>1. \A u \in Tablets \ {t} : phase'[u] = phase[u]
      BY <1>f, <1>t, <2>1, FetchedType
    <3> QED BY <1>f, <1>t, <1>e, <3>1 DEF Loaded
  <2>4. NeverRedirected'
    <3>1. /\ shown'[t] \in {shown[t], s}
          /\ \A u \in Tablets \ {t} : shown'[u] = shown[u]
      BY <1>f, <1>t, <2>1, FetchedType
    <3> QED BY <1>f, <1>t, <3>1 DEF NeverRedirected
  <2> QED BY <2>2, <2>3, <2>4 DEF TrackInv
<1>1. CASE PollAnswered(t)
  <2>1. PICK u \in Accepting(client[t], entry[t].token) : Fetched(t, u)
    BY <1>1 DEF PollAnswered
  <2>2. u = t
    BY <1>1, <1>e, <2>1, Accepted DEF PollAnswered
  <2> QED BY <1>1, <1>t, <1>f, <2>1, <2>2 DEF PollAnswered
<1>2. CASE PollRejected(t)
  BY <1>2, <1>t, <1>e DEF PollRejected, TrackInv, TypeOK, Loaded, NeverRedirected, world, registry
<1>3. CASE Relocate(t)
  <2>1. left' \in Budget
    BY <1>3, <1>t, UnansweredType DEF Relocate
  <2>2. PICK a \in PlacesOf(KnownMacs(t)) : chase' = [chase EXCEPT ![t] = a]
    BY <1>3 DEF Relocate
  <2>3. a \in Addresses
    <3>1. \A c \in Clients : c.ip \in Addresses \cup {None}
      BY <1>t DEF Clients, TypeOK
    <3> QED BY <3>1 DEF PlacesOf
  <2>4. Polls(t) /\ armed' = [armed EXCEPT ![t] = FALSE]
        /\ UNCHANGED <<world, entry, registry, phase, client, known, shown, asked, flow>>
    BY <1>3 DEF Relocate
  <2> QED BY <1>t, <1>e, <2>1, <2>2, <2>3, <2>4
      DEF TrackInv, TypeOK, Loaded, NeverRedirected, world, registry
<1>4. CASE PollUnanswered(t)
  <2>1. left' \in Budget
    BY <1>4, <1>t, UnansweredType DEF PollUnanswered
  <2>2. shown[t] \in {t, None}
    BY <1>t DEF NeverRedirected
  <2> QED BY <1>4, <1>t, <1>f, <2>1, <2>2 DEF PollUnanswered
<1> QED BY <1>1, <1>2, <1>3, <1>4 DEF PollStep

LEMMA ChaseTrack ==
  ASSUME TrackInv, NEW t \in Tablets, ChaseStep(t)
  PROVE  TrackInv'
<1>t. /\ TypeOK /\ Loaded /\ NeverRedirected /\ left \in Budget
      /\ chase[t] # None /\ chase[t] \in Addresses
  BY DEF TrackInv, TypeOK, ChaseStep, Followed, NotFollowed
<1>e. entry[t] # NoEntry /\ entry[t] \in Entry /\ entry[t].token[1] = t
  BY <1>t, EntryType DEF Loaded, NeverRedirected
<1> DEFINE moved == [entry EXCEPT ![t].host = chase[t]]
<1>m. /\ moved \in [Tablets -> Entry \cup {NoEntry}] /\ moved[t].host \in Addresses
      /\ moved[t] # NoEntry
      /\ \A u \in Tablets : moved[u].token = entry[u].token /\ (u # t => moved[u] = entry[u])
  <2>1. entry \in [Tablets -> Entry \cup {NoEntry}]
    BY <1>t DEF TypeOK
  <2>2. [entry[t] EXCEPT !.host = chase[t]] \in Entry
    BY <1>t, <1>e DEF Entry
  <2>3. moved[t].host = chase[t] /\ moved[t].token = entry[t].token
    BY <1>t, <1>e, <2>1 DEF Entry
  <2>4. chase[t] # None
    BY <1>t
  <2> QED BY <1>t, <2>1, <2>2, <2>3, <2>4 DEF NoEntry
<1> HIDE DEF moved
<1>1. ASSUME NEW s \in {t, None}, Fetched(t, s), s = t \/ s = shown[t], left' \in Budget,
             entry' \in {entry, moved}, client' \in [Tablets -> Addresses \cup {None}],
             chase' = [chase EXCEPT ![t] = None], UNCHANGED <<world, armed, asked, flow>>
      PROVE  TrackInv'
  <2>1. entry' \in [Tablets -> Entry \cup {NoEntry}]
    BY <1>1, <1>t, <1>m DEF TypeOK
  <2>2. TypeOK'
    BY <1>1, <1>t, <2>1, FetchedType DEF TypeOK, world
  <2>3. /\ \A u \in Tablets : entry'[u].token = entry[u].token
                            /\ (entry'[u] = NoEntry <=> entry[u] = NoEntry)
    BY <1>1, <1>m, <1>e
  <2>4. Loaded'
    <3>1. \A u \in Tablets \ {t} : phase'[u] = phase[u]
      BY <1>1, <1>t, <2>1, FetchedType
    <3>2. \A u \in Tablets \ {t} : chase'[u] = chase[u]
      BY <1>1, <1>t DEF TypeOK
    <3> QED BY <1>1, <1>t, <1>e, <2>3, <3>1, <3>2 DEF Loaded
  <2>5. NeverRedirected'
    <3>1. /\ shown'[t] \in {shown[t], s}
          /\ \A u \in Tablets \ {t} : shown'[u] = shown[u]
      BY <1>1, <1>t, <2>1, FetchedType
    <3>2. \A u \in Tablets : entry'[u] # NoEntry => entry'[u].token[1] = u
      BY <1>t, <2>3 DEF NeverRedirected
    <3>3. s \in {t, None}
      BY <1>1
    <3>4. \A u \in Tablets : shown'[u] \in {u, None}
      BY <1>t, <3>1, <3>3 DEF NeverRedirected
    <3> QED BY <3>2, <3>4 DEF NeverRedirected
  <2> QED BY <2>2, <2>4, <2>5 DEF TrackInv
<1>2. CASE Followed(t)
  <2>1. client' = [client EXCEPT ![t] = chase[t]] /\ entry' = moved /\ Fetched(t, t)
    BY <1>2 DEF Followed, moved
  <2>2. /\ chase' = [chase EXCEPT ![t] = None] /\ UNCHANGED <<world, armed, asked, flow>>
        /\ left' = left
    BY <1>2 DEF Followed
  <2>3. client' \in [Tablets -> Addresses \cup {None}]
    BY <1>t, <2>1 DEF TypeOK
  <2> QED BY <1>1, <1>t, <2>1, <2>2, <2>3
<1>3. CASE NotFollowed(t)
  <2>1. left' \in Budget
    BY <1>3, <1>t, UnansweredType DEF NotFollowed
  <2>2. shown[t] \in {t, None}
    BY <1>t DEF NeverRedirected
  <2> QED BY <1>1, <1>3, <1>t, <2>1, <2>2 DEF NotFollowed, TypeOK
<1> QED BY <1>2, <1>3 DEF ChaseStep

LEMMA CoordinatorTrack ==
  ASSUME TrackInv, NEW t \in Tablets, IntervalElapsed(t) \/ Reported(t) \/ Reload(t)
  PROVE  TrackInv'
<1>t. TypeOK /\ Loaded /\ NeverRedirected /\ left \in Budget
  BY DEF TrackInv, TypeOK
<1>1. CASE IntervalElapsed(t)
  BY <1>1, <1>t DEF IntervalElapsed, TrackInv, TypeOK, Loaded, NeverRedirected, world, registry
<1>2. CASE Reported(t)
  <2>1. /\ phase[t] # "none" /\ phase' = [phase EXCEPT ![t] = "running"]
        /\ shown' = [shown EXCEPT ![t] = t] /\ SyncMac(t, t, FALSE)
        /\ UNCHANGED <<world, entry, client, chase, armed, asked, flow, left>>
    BY <1>2 DEF Reported
  <2>2. entry' \in [Tablets -> Entry \cup {NoEntry}]
    BY <1>t, <2>1 DEF TypeOK
  <2>3. /\ known' \in [Tablets -> Tablets \cup {None}]
        /\ device' \in [Tablets -> BOOLEAN]
        /\ connections' \in [Tablets -> SUBSET Tablets]
    BY <1>t, <2>1, <2>2, SyncType
  <2>4. TypeOK'
    BY <1>t, <2>1, <2>2, <2>3 DEF TypeOK, world
  <2> QED BY <1>t, <2>1, <2>4 DEF TrackInv, TypeOK, Loaded, NeverRedirected
<1>3. CASE Reload(t)
  <2>1. phase[t] # "none" /\ UNCHANGED <<world, entry, registry, asked, flow>> /\ Load(t)
    BY <1>3 DEF Reload
  <2>2. left' \in Budget
    BY <1>3, <1>t, Spent DEF Reload
  <2>3. entry'[t] \in Entry /\ entry[t] # NoEntry
    BY <1>t, <2>1, EntryType DEF Loaded
  <2>4. TypeOK'
    BY <1>t, <2>1, <2>2, <2>3, LoadType DEF TypeOK, world, registry
  <2> QED BY <1>t, <2>1, <2>3, <2>4, LoadType DEF TrackInv, Loaded, NeverRedirected
<1> QED BY <1>1, <1>2, <1>3

\* What the user starts is well-typed, whatever the trackers show.
LEMMA UserTrack == TrackInv /\ User => TrackInv'
<1> SUFFICES ASSUME TrackInv, User PROVE TrackInv'
  OBVIOUS
<1>t. /\ TypeOK /\ Loaded /\ NeverRedirected /\ left \in Budget
      /\ Paired \subseteq Tablets /\ \A u \in Tablets : Token(u) \in Tokens
  BY TrackingAssumption DEF TrackInv, TypeOK, Tokens, Token
<1>1. ASSUME NEW f \in Flow, Begin(f),
             f.kind = "reauth" => f.for \in Tablets /\ entry[f.for] # NoEntry
      PROVE  TrackInv'
  <2>1. left' \in Budget
    BY <1>1, <1>t, Spent DEF Begin
  <2>2. flow' = f /\ UNCHANGED <<world, entry, registry, coordinator, asked>>
    BY <1>1 DEF Begin
  <2> QED BY <1>1, <1>t, <2>1, <2>2
      DEF TrackInv, TypeOK, Loaded, NeverRedirected, world, registry, coordinator
<1>2. ASSUME NEW t \in Paired, PairByHand(t) PROVE TrackInv'
  <2>1. MacsAt(at[t]) \subseteq Tablets /\ t \in Tablets
    BY <1>t DEF MacsAt, Clients
  <2>2. PICK m \in Tablets \cup {None} :
          Begin([kind |-> "pair", for |-> None, host |-> at[t], mac |-> m, token |-> Token(t)])
    BY <1>2, <2>1 DEF PairByHand
  <2>3. at[t] \in Addresses
    BY <1>2, <1>t, <2>1 DEF PairByHand, TypeOK
  <2> QED BY <1>1, <1>t, <2>1, <2>2, <2>3 DEF Flow
<1>3. ASSUME NEW t \in Paired, PairFromUnifi(t) PROVE TrackInv'
  <2>1. PICK c \in Candidates(PairedMacs) :
          /\ c.mac = t
          /\ Begin([kind |-> "pair", for |-> None, host |-> c.ip, mac |-> c.mac, token |-> Token(t)])
    BY <1>3 DEF PairFromUnifi
  <2>2. c.ip \in Addresses /\ c.mac \in Tablets
    BY <1>t, <2>1 DEF Candidates, Clients, TypeOK
  <2> QED BY <1>1, <1>t, <2>1, <2>2 DEF Flow
<1>4. ASSUME NEW t \in Tablets, NEW u \in Tablets, Reauthenticate(t, u) PROVE TrackInv'
  <2>1. entry[t] # NoEntry /\ entry[t] \in Entry
    BY <1>4, <1>t, EntryType DEF Reauthenticate, Loaded
  <2>2. entry[t].host \in Addresses
    BY <2>1 DEF Entry
  <2> QED BY <1>1, <1>4, <1>t, <2>1, <2>2 DEF Reauthenticate, Flow
<1> QED BY <1>2, <1>3, <1>4 DEF User

LEMMA FlowTrack == TrackInv /\ FlowStep => TrackInv'
<1> SUFFICES ASSUME TrackInv, FlowStep PROVE TrackInv'
  OBVIOUS
<1>t. /\ TypeOK /\ Loaded /\ NeverRedirected /\ left \in Budget
      /\ flow \in Flow \cup {NoFlow} /\ entry \in [Tablets -> Entry \cup {NoEntry}]
  BY DEF TrackInv, TypeOK
<1>f. /\ flow.kind \in {"pair", "reauth"} => flow \in Flow
      /\ NoFlow.kind = "none"
  BY <1>t DEF NoFlow
<1>1. CASE FlowFails
  <2>1. left' \in Budget
    BY <1>1, <1>t, UnansweredType DEF FlowFails
  <2> QED BY <1>1, <1>t, <1>f, <2>1
      DEF FlowFails, TrackInv, TypeOK, Loaded, NeverRedirected, world, registry, coordinator
<1>l. ASSUME NEW u \in Tablets, entry' \in [Tablets -> Entry \cup {NoEntry}],
             entry'[u] \in Entry, entry'[u] # NoEntry, entry'[u].token[1] = u,
             \A v \in Tablets \ {u} : entry'[v] = entry[v],
             Load(u), flow' = NoFlow, asked' \in [Tablets -> BOOLEAN],
             \A v \in Tablets : asked'[v] => asked[v],
             UNCHANGED <<world, registry, left>>
      PROVE  TrackInv'
  <2>1. TypeOK'
    BY <1>l, <1>t, LoadType DEF TypeOK, world, registry
  <2>2. Loaded'
    BY <1>l, <1>t, <1>f, LoadType DEF Loaded
  <2>3. NeverRedirected'
    BY <1>l, <1>t, LoadType DEF NeverRedirected
  <2> QED BY <2>1, <2>2, <2>3 DEF TrackInv
<1>2. CASE Creates
  <2>1. PICK u \in Accepting(flow.host, flow.token) :
          /\ entry' = [entry EXCEPT ![u] =
               [host |-> flow.host, mac |-> flow.mac, token |-> flow.token]]
          /\ Load(u)
    BY <1>2 DEF Creates
  <2>2. u \in Tablets /\ flow.token[1] = u
    BY Accepted
  <2>3. flow \in Flow
    BY <1>2, <1>f DEF Creates
  <2>4. [host |-> flow.host, mac |-> flow.mac, token |-> flow.token] \in Entry
    BY <2>3 DEF Flow, Entry
  <2>5. flow.host # None
    BY <2>3, TrackingAssumption DEF Flow
  <2> QED BY <1>2, <1>t, <1>l, <2>1, <2>2, <2>4, <2>5 DEF Creates, NoEntry, TypeOK
<1>3. CASE Updates
  <2>1. PICK u \in Accepting(flow.host, flow.token) :
          /\ entry[u] # NoEntry
          /\ entry' = [entry EXCEPT ![u] = Updated(entry[u])]
          /\ IF entry' # entry /\ phase[u] \in {"running", "stopped"}
             THEN Load(u) ELSE UNCHANGED coordinator
    BY <1>3 DEF Updates
  <2>2. u \in Tablets
    BY Accepted
  <2>3. flow \in Flow /\ entry[u] \in Entry /\ entry[u].token[1] = u
    BY <1>3, <1>t, <1>f, <2>1, <2>2, EntryType DEF Updates, NeverRedirected
  <2> DEFINE e == Updated(entry[u])
  <2>4. e \in Entry /\ e.token[1] = u /\ e # NoEntry
    <3>1. flow.host # None
      BY <2>3, TrackingAssumption DEF Flow
    <3> QED BY <2>3, <3>1 DEF Updated, Flow, Entry, NoEntry
  <2>5. entry' = [entry EXCEPT ![u] = e]
    BY <2>1
  <2> HIDE DEF e
  <2>6. /\ entry' \in [Tablets -> Entry \cup {NoEntry}] /\ entry'[u] = e
        /\ \A v \in Tablets \ {u} : entry'[v] = entry[v]
    BY <1>t, <2>2, <2>4, <2>5
  <2>7. flow' = NoFlow /\ UNCHANGED <<world, registry, asked, left>>
    BY <1>3 DEF Updates
  <2>8. CASE Load(u)
    BY <1>t, <1>l, <2>2, <2>4, <2>6, <2>7, <2>8 DEF TypeOK
  <2>9. CASE UNCHANGED coordinator
    BY <1>t, <1>f, <2>2, <2>4, <2>6, <2>7, <2>9
       DEF TrackInv, TypeOK, Loaded, NeverRedirected, world, registry, coordinator
  <2> QED BY <2>1, <2>8, <2>9
<1>4. CASE Reauthenticated
  <2> DEFINE w == flow.for
  <2>1. w \in Tablets /\ entry[w] # NoEntry /\ flow \in Flow
    BY <1>4, <1>t, <1>f DEF Reauthenticated, Loaded
  <2>2. PICK u \in Accepting(flow.host, flow.token) :
          \/ /\ u = w
             /\ entry' = [entry EXCEPT ![u].token = flow.token]
             /\ Load(u)
          \/ u # w /\ UNCHANGED <<entry, coordinator>>
    BY <1>4 DEF Reauthenticated
  <2>3. u \in Tablets /\ flow.token[1] = u /\ flow.token \in Tokens
    BY <2>1, Accepted DEF Flow
  <2>4. /\ asked' = [asked EXCEPT ![w] = FALSE] /\ asked' \in [Tablets -> BOOLEAN]
        /\ \A v \in Tablets : asked'[v] => asked[v]
        /\ flow' = NoFlow /\ UNCHANGED <<world, registry, left>>
    BY <1>4, <1>t DEF Reauthenticated, TypeOK
  <2>5. CASE u = w /\ entry' = [entry EXCEPT ![u].token = flow.token] /\ Load(u)
    <3>1. entry[u] \in Entry
      BY <1>t, <2>1, <2>5, EntryType
    <3>2. /\ [entry[u] EXCEPT !.token = flow.token] \in Entry
          /\ [entry[u] EXCEPT !.token = flow.token].token = flow.token
          /\ [entry[u] EXCEPT !.token = flow.token].host = entry[u].host
          /\ entry[u].host \in Addresses
      BY <2>3, <3>1 DEF Entry
    <3>3. [entry[u] EXCEPT !.token = flow.token] # NoEntry
      BY <3>2, TrackingAssumption DEF NoEntry
    <3> QED BY <1>t, <1>l, <2>3, <2>4, <2>5, <3>2, <3>3
  <2>6. CASE u # w /\ UNCHANGED <<entry, coordinator>>
    BY <1>t, <1>f, <2>4, <2>6
       DEF TrackInv, TypeOK, Loaded, NeverRedirected, world, registry, coordinator
  <2> QED BY <2>2, <2>5, <2>6
<1> QED BY <1>1, <1>2, <1>3, <1>4 DEF FlowStep

LEMMA NextTrack == TrackInv /\ [Next]_vars => TrackInv'
<1> SUFFICES ASSUME TrackInv, [Next]_vars PROVE TrackInv'
  OBVIOUS
<1>1. CASE UNCHANGED vars
  BY <1>1 DEF vars, world, registry, coordinator, TrackInv, TypeOK, Loaded, NeverRedirected
<1> QED BY <1>1, WorldTrack, PollTrack, ChaseTrack, CoordinatorTrack, UserTrack, FlowTrack
  DEF Next

LEMMA AlwaysTrack == Spec => []TrackInv
BY InitTrack, NextTrack, PTL DEF Spec

\* The types of every behaviour of config_flow.py, unifi.py and _relocate.
THEOREM TrackingTypeCorrect == Spec => []TypeOK
<1>1. TrackInv => TypeOK
  BY DEF TrackInv
<1> QED BY <1>1, AlwaysTrack, PTL

\* _relocate, the two ways to pair and reauthentication never give an entry
\* another tablet's token, and the coordinator never shows another tablet's
\* status, for any tablets, addresses, moves, stale trackers, rotated and
\* mistyped tokens: a tablet's token is its own and a status follows it.
THEOREM EntryStaysWithItsTablet == Spec => []NeverRedirected
<1>1. TrackInv => NeverRedirected
  BY DEF TrackInv
<1> QED BY <1>1, AlwaysTrack, PTL
=============================================================================
