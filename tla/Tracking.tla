------------------------------ MODULE Tracking ------------------------------
(***************************************************************************)
(* How Home Assistant finds a tablet and stays with it: pairing by hand or *)
(* from the list of UniFi clients, reauthentication (config_flow.py), the  *)
(* device trackers of UniFi (unifi.py), and a coordinator that registers   *)
(* the tablet's MAC and follows it to a new address (_sync_mac, _relocate).*)
(*                                                                         *)
(* A tablet stands for its device id and its MAC, neither of which         *)
(* changes; its token does, and so does its address, which another tablet  *)
(* may take.  The trackers lag behind.  An HTTP exchange happens at one    *)
(* moment; what the code read before it is kept from an earlier step.      *)
(***************************************************************************)
EXTENDS Naturals

CONSTANTS
  Tablets,
  Addresses,
  None,        \* no address, no MAC, no status yet
  Paired,      \* the tablets an operator pairs
  ReportsMac,  \* the tablets whose Android gives the controller the MAC in use
  Places,      \* where the tablets may be at the start
  Budgets      \* bounds: how much of each kind may happen

\* Address changes, tokens rotated, exchanges lost, config flows, reloads.
Budget == [moves : Nat, rotations : Nat, lost : Nat, flows : Nat, reloads : Nat]

ASSUME TrackingAssumption ==
  /\ None \notin Tablets \cup Addresses
  /\ Paired \subseteq Tablets /\ ReportsMac \subseteq Tablets
  /\ Places \subseteq [Tablets -> Addresses \cup {None}]
  /\ Budgets \subseteq Budget

VARIABLES
  at,           \* the address of each tablet, None off Wi-Fi
  secret,       \* how often its token was rotated
  seen,         \* the address its UniFi tracker shows, None when away
  entry,        \* its config entry's host, MAC and token
  device,       \* it is in the device registry
  connections,  \* the MACs registered on that device
  phase,        \* its coordinator: "setup", "refresh", "running", or after a
                \* rejected token "failed" (in setup) or "stopped" (no polls)
  client,       \* the address its LocalMdmClient talks to
  chase,        \* the address _relocate is probing
  armed,        \* RELOCATE_MIN_INTERVAL has passed since the last probe
  known,        \* _known_mac
  shown,        \* whose status is in self.data
  asked,        \* a reauthentication flow waits for the user
  flow,         \* the config flow between its reads and its probe's answer
  left          \* how much of each kind remains

world == <<at, secret, seen>>
coordinator == <<phase, client, chase, armed, known, shown>>
registry == <<device, connections>>
vars == <<world, entry, registry, coordinator, asked, flow, left>>

NoEntry == [host |-> None, mac |-> None, token |-> None]
NoFlow  == [kind |-> "none"]
Token(t) == <<t, secret[t]>>
Tokens   == Tablets \X Nat
Entry    == [host : Addresses, mac : Tablets \cup {None}, token : Tokens]
Flow     == [kind : {"pair", "reauth"}, for : Tablets \cup {None},
             host : Addresses, mac : Tablets \cup {None}, token : Tokens]

Some(x) == {x} \ {None}

\* Who answers a GET /v1/status, and whether somebody refuses it.
Accepting(host, token) == {u \in Tablets : at[u] = host /\ token = Token(u)}
Refusing(host, token)  == \E u \in Tablets : at[u] = host /\ token # Token(u)
Silent(host)           == \A u \in Tablets : at[u] # host

\* The trackers of UniFi, and those of tablets that may be offered: every
\* tablet is named after its room.  async_mac_for_ip and async_ip_for_macs
\* take the first that fits, in an order nothing here fixes: any of these.
Clients        == {[mac |-> m, ip |-> seen[m]] : m \in Tablets}
Candidates(macs) == {c \in Clients : c.ip # None /\ c.mac \notin macs}
MacsAt(host)   == {c.mac : c \in {d \in Clients : d.ip = host}}
PlacesOf(macs) == {c.ip : c \in {d \in Clients : d.mac \in macs}} \ {None}
KnownMacs(t)   == Some(entry[t].mac) \cup connections[t]

-----------------------------------------------------------------------------
(* The world.                                                              *)

Move(t, a) ==
  /\ left.moves > 0 /\ a # at[t]
  /\ a # None => Silent(a)
  /\ at' = [at EXCEPT ![t] = a]
  /\ left' = [left EXCEPT !.moves = @ - 1]
  /\ UNCHANGED <<secret, seen, entry, registry, coordinator, asked, flow>>

TrackerUpdates(t) ==
  /\ seen[t] # at[t]
  /\ seen' = [seen EXCEPT ![t] = at[t]]
  /\ UNCHANGED <<at, secret, entry, registry, coordinator, asked, flow, left>>

\* The user draws a new token on the tablet's screen.
RotateToken(t) ==
  /\ left.rotations > 0
  /\ secret' = [secret EXCEPT ![t] = @ + 1]
  /\ left' = [left EXCEPT !.rotations = @ - 1]
  /\ UNCHANGED <<at, seen, entry, registry, coordinator, asked, flow>>

Loses == left.lost > 0 /\ left' = [left EXCEPT !.lost = @ - 1]

-----------------------------------------------------------------------------
(* The coordinator.                                                        *)

\* A new coordinator for t's entry: __init__ and the start of the setup.
Load(t) ==
  /\ phase'  = [phase EXCEPT ![t] = "setup"]
  /\ client' = [client EXCEPT ![t] = entry'[t].host]
  /\ chase'  = [chase EXCEPT ![t] = None]
  /\ armed'  = [armed EXCEPT ![t] = TRUE]
  /\ known'  = [known EXCEPT ![t] = None]
  /\ shown'  = [shown EXCEPT ![t] = None]

\* The MAC a status of s, or None for the placeholder, and the entry give,
\* and what _sync_mac makes of it.
OwnMac(t, s) == IF s \in ReportsMac THEN s ELSE entry'[t].mac
FoundMacs(t, s) ==
  IF OwnMac(t, s) # None THEN {OwnMac(t, s)} ELSE MacsAt(entry'[t].host)

\* _sync_mac for an entry whose entities may be added in the same step.
SyncsNone(t, s, adding) ==  \* variant: no MAC is a MAC
  \E m \in IF device[t] /\ FoundMacs(t, s) # {} THEN FoundMacs(t, s) ELSE {known[t]} :
    /\ known' = [known EXCEPT ![t] = m]
    /\ device' = [device EXCEPT ![t] = @ \/ adding]
    /\ connections' = [connections EXCEPT ![t] =
         @ \cup {m} \cup (IF adding THEN {OwnMac(t, s)} ELSE {})]
SyncMac(t, s, adding) ==
  \E m \in IF device[t] /\ FoundMacs(t, s) # {} THEN FoundMacs(t, s) ELSE {known[t]} :
    /\ known' = [known EXCEPT ![t] = m]
    /\ device' = [device EXCEPT ![t] = @ \/ adding]
    /\ connections' = [connections EXCEPT ![t] =
         @ \cup Some(m) \cup (IF adding THEN Some(OwnMac(t, s)) ELSE {})]

\* _fetch returned a status of s: _async_setup only reads it; the refresh
\* goes through _on_status, and the entities are added after the first.
Fetched(t, s) ==
  \/ /\ phase[t] = "setup"
     /\ phase' = [phase EXCEPT ![t] = "refresh"]
     /\ UNCHANGED <<shown, known, registry>>
  \/ /\ phase[t] # "setup"
     /\ phase' = [phase EXCEPT ![t] = "running"]
     /\ shown' = [shown EXCEPT ![t] = s]
     /\ SyncMac(t, s, phase[t] = "refresh")

Polls(t) == phase[t] \in {"setup", "refresh", "running"} /\ chase[t] = None

PollAnswered(t) ==
  /\ Polls(t)
  /\ UNCHANGED <<world, entry, client, chase, armed, asked, flow, left>>
  /\ \E u \in Accepting(client[t], entry[t].token) : Fetched(t, u)

\* ConfigEntryAuthFailed: setup fails, or polling stops; the user is asked.
PollRejected(t) ==
  /\ Polls(t) /\ Refusing(client[t], entry[t].token)
  /\ phase' = [phase EXCEPT ![t] = IF @ = "running" THEN "stopped" ELSE "failed"]
  /\ asked' = [asked EXCEPT ![t] = TRUE]
  /\ UNCHANGED <<world, entry, registry, client, chase, armed, known, shown, flow, left>>

Unanswered(host) == (Silent(host) /\ UNCHANGED left) \/ Loses

\* _relocate up to its probe; a place that is the host is not one to go to.
Relocate(t) ==
  /\ Polls(t) /\ armed[t] /\ Unanswered(client[t])
  /\ \E a \in PlacesOf(KnownMacs(t)) \ {client[t]} : chase' = [chase EXCEPT ![t] = a]
  /\ armed' = [armed EXCEPT ![t] = FALSE]
  /\ UNCHANGED <<world, entry, registry, phase, client, known, shown, asked, flow>>

\* No relocation: the last-known data, marked unreachable.
PollUnanswered(t) ==
  /\ Polls(t) /\ Unanswered(client[t])
  /\ \/ ~armed[t]
     \/ PlacesOf(KnownMacs(t)) = {}
     \/ client[t] \in PlacesOf(KnownMacs(t))
  /\ UNCHANGED <<world, entry, client, chase, armed, asked, flow>>
  /\ Fetched(t, shown[t])

FollowsInEntryOnly(t) ==  \* variant: the client keeps the old address
  /\ chase[t] # None
  /\ \E u \in Accepting(chase[t], entry[t].token) :
       /\ u = t
       /\ entry' = [entry EXCEPT ![t].host = chase[t]]
       /\ chase' = [chase EXCEPT ![t] = None]
       /\ UNCHANGED <<world, client, armed, asked, flow, left>>
       /\ Fetched(t, u)
\* The probe answers as the stored device: client and entry follow.
Followed(t) ==
  /\ chase[t] # None
  /\ \E u \in Accepting(chase[t], entry[t].token) :
       /\ u = t
       /\ entry' = [entry EXCEPT ![t].host = chase[t]]
       /\ client' = [client EXCEPT ![t] = chase[t]]
       /\ chase' = [chase EXCEPT ![t] = None]
       /\ UNCHANGED <<world, armed, asked, flow, left>>
       /\ Fetched(t, u)

\* It is silent or refuses the token.  No other device accepts it: every
\* tablet draws its own.
NotFollowed(t) ==
  /\ chase[t] # None
  /\ Unanswered(chase[t]) \/ (Refusing(chase[t], entry[t].token) /\ UNCHANGED left)
  /\ chase' = [chase EXCEPT ![t] = None]
  /\ UNCHANGED <<world, entry, client, armed, asked, flow>>
  /\ Fetched(t, shown[t])

IntervalElapsed(t) ==
  /\ ~armed[t] /\ chase[t] = None
  /\ armed' = [armed EXCEPT ![t] = TRUE]
  /\ UNCHANGED <<world, entry, registry, phase, client, chase, known, shown,
                 asked, flow, left>>

\* async_handle_push: no token is needed, and polling goes on after it.
Reported(t) ==
  /\ phase[t] \in {"running", "stopped"} /\ at[t] # None
  /\ phase' = [phase EXCEPT ![t] = "running"]
  /\ shown' = [shown EXCEPT ![t] = t]
  /\ UNCHANGED <<world, entry, client, chase, armed, asked, flow, left>>
  /\ SyncMac(t, t, FALSE)

\* The options flow, or a restart of Home Assistant.
Reload(t) ==
  /\ left.reloads > 0 /\ phase[t] # "none"
  /\ left' = [left EXCEPT !.reloads = @ - 1]
  /\ UNCHANGED <<world, entry, registry, asked, flow>>
  /\ Load(t)

-----------------------------------------------------------------------------
(* Config flows, one at a time: what a flow reads, then what its probe     *)
(* brings.                                                                 *)

Begin(f) ==
  /\ flow = NoFlow /\ left.flows > 0
  /\ flow' = f
  /\ left' = [left EXCEPT !.flows = @ - 1]
  /\ UNCHANGED <<world, entry, registry, coordinator, asked>>

\* async_step_manual: address and token from the tablet's screen; the MAC is
\* looked up before the probe.
PairByHand(t) ==
  /\ at[t] # None
  /\ \E m \in IF MacsAt(at[t]) = {} THEN {None} ELSE MacsAt(at[t]) :
       Begin([kind |-> "pair", for |-> None, host |-> at[t], mac |-> m,
              token |-> Token(t)])

\* async_step_user and async_step_unifi: the list of clients, without those
\* already paired, is read once, when the flow starts.
PairedMacs == UNION {KnownMacs(t) : t \in Tablets}
PairFromUnifi(t) ==
  \E c \in Candidates(PairedMacs) :
    /\ c.mac = t
    /\ Begin([kind |-> "pair", for |-> None, host |-> c.ip, mac |-> c.mac,
              token |-> Token(t)])

\* async_step_reauth_confirm: the token may be read off the wrong tablet.
Reauthenticate(t, u) ==
  /\ asked[t]
  /\ Begin([kind |-> "reauth", for |-> t, host |-> entry[t].host, mac |-> None,
            token |-> Token(u)])

\* The form is shown again; a later flow stands for the next attempt.
FlowFails ==
  /\ flow # NoFlow
  /\ Unanswered(flow.host) \/ (Refusing(flow.host, flow.token) /\ UNCHANGED left)
  /\ flow' = NoFlow
  /\ UNCHANGED <<world, entry, registry, coordinator, asked>>

Creates ==
  /\ flow.kind = "pair"
  /\ \E u \in Accepting(flow.host, flow.token) :
       /\ entry[u] = NoEntry
       /\ entry' = [entry EXCEPT ![u] =
            [host |-> flow.host, mac |-> flow.mac, token |-> flow.token]]
       /\ Load(u)
  /\ flow' = NoFlow
  /\ UNCHANGED <<world, registry, asked, left>>

\* _abort_if_unique_id_configured: address and MAC are updated, the token is
\* not; an entry that is loaded is reloaded if that changed it.
Updated(e) ==
  [host |-> flow.host, mac |-> IF flow.mac # None THEN flow.mac ELSE e.mac,
   token |-> e.token]
Updates ==
  /\ flow.kind = "pair"
  /\ \E u \in Accepting(flow.host, flow.token) :
       /\ entry[u] # NoEntry
       /\ entry' = [entry EXCEPT ![u] = Updated(entry[u])]
       /\ IF entry' # entry /\ phase[u] \in {"running", "stopped"}
          THEN Load(u) ELSE UNCHANGED coordinator
  /\ flow' = NoFlow
  /\ UNCHANGED <<world, registry, asked, left>>

AcceptsAnyDevice ==  \* variant: the device id is not compared
  /\ flow.kind = "reauth"
  /\ Accepting(flow.host, flow.token) # {}
  /\ entry' = [entry EXCEPT ![flow.for].token = flow.token]
  /\ Load(flow.for)
  /\ asked' = [asked EXCEPT ![flow.for] = FALSE]
  /\ flow' = NoFlow
  /\ UNCHANGED <<world, registry, left>>
Reauthenticated ==
  /\ flow.kind = "reauth"
  /\ \E u \in Accepting(flow.host, flow.token) :
       \/ /\ u = flow.for
          /\ entry' = [entry EXCEPT ![u].token = flow.token]
          /\ Load(u)
       \/ u # flow.for /\ UNCHANGED <<entry, coordinator>>
  /\ asked' = [asked EXCEPT ![flow.for] = FALSE]
  /\ flow' = NoFlow
  /\ UNCHANGED <<world, registry, left>>

-----------------------------------------------------------------------------
Init ==
  /\ at \in Places /\ seen = at
  /\ secret = [t \in Tablets |-> 0]
  /\ entry = [t \in Tablets |-> NoEntry]
  /\ device = [t \in Tablets |-> FALSE] /\ connections = [t \in Tablets |-> {}]
  /\ phase = [t \in Tablets |-> "none"]
  /\ client = [t \in Tablets |-> None] /\ chase = [t \in Tablets |-> None]
  /\ armed = [t \in Tablets |-> TRUE]
  /\ known = [t \in Tablets |-> None] /\ shown = [t \in Tablets |-> None]
  /\ asked = [t \in Tablets |-> FALSE]
  /\ flow = NoFlow
  /\ left \in Budgets

Environment ==
  \E t \in Tablets :
    (\E a \in Addresses \cup {None} : Move(t, a)) \/ TrackerUpdates(t) \/ RotateToken(t)
PollStep(t) ==
  PollAnswered(t) \/ PollRejected(t) \/ Relocate(t) \/ PollUnanswered(t)
ChaseStep(t) == Followed(t) \/ NotFollowed(t)
User ==
  \/ \E t \in Paired : PairByHand(t) \/ PairFromUnifi(t)
  \/ \E t, u \in Tablets : Reauthenticate(t, u)
FlowStep == FlowFails \/ Creates \/ Updates \/ Reauthenticated

Next ==
  \/ Environment \/ User \/ FlowStep
  \/ \E t \in Tablets : \/ PollStep(t) \/ ChaseStep(t) \/ IntervalElapsed(t)
                        \/ Reported(t) \/ Reload(t)

Spec == Init /\ [][Next]_vars

\* Polls and probes end, time passes, UniFi notices where a client is.  No
\* user has to do anything and no report has to arrive.
Fairness ==
  \A t \in Tablets : /\ WF_vars(PollStep(t)) /\ WF_vars(ChaseStep(t))
                     /\ WF_vars(IntervalElapsed(t)) /\ WF_vars(TrackerUpdates(t))

FairSpec == Spec /\ Fairness

-----------------------------------------------------------------------------
TypeOK ==
  /\ at \in [Tablets -> Addresses \cup {None}]
  /\ secret \in [Tablets -> Nat]
  /\ seen \in [Tablets -> Addresses \cup {None}]
  /\ entry \in [Tablets -> Entry \cup {NoEntry}]
  /\ device \in [Tablets -> BOOLEAN]
  /\ connections \in [Tablets -> SUBSET Tablets]
  /\ phase \in [Tablets -> {"none", "setup", "refresh", "running", "failed", "stopped"}]
  /\ client \in [Tablets -> Addresses \cup {None}]
  /\ chase \in [Tablets -> Addresses \cup {None}]
  /\ armed \in [Tablets -> BOOLEAN]
  /\ known \in [Tablets -> Tablets \cup {None}]
  /\ shown \in [Tablets -> Tablets \cup {None}]
  /\ asked \in [Tablets -> BOOLEAN]
  /\ flow \in Flow \cup {NoFlow}
  /\ left \in Budget

\* _relocate: "a stale tracker cannot redirect the entry to another device".
\* Whatever moves, is rotated, typed wrongly or seen late, an entry keeps a
\* token of its own tablet and shows its own tablet's status.
NeverRedirected ==
  \A t \in Tablets :
    /\ entry[t] # NoEntry => entry[t].token[1] = t
    /\ shown[t] \in {t, None}

\* docs/onboarding.md, "a tablet that stops answering is looked up in UniFi
\* by its MAC": once the tablets stop moving, a tablet whose token is stored
\* and that is known by its own MAC alone is found, or, when another tablet
\* answers at its old address, the user is asked.
Trackable(t) ==
  /\ entry[t] # NoEntry /\ entry[t].token = Token(t) /\ at[t] # None
  /\ KnownMacs(t) = {t}
FollowedOrAsked ==
  <>[](\A t \in Tablets :
         Trackable(t) => client[t] = at[t] \/ asked[t] \/ phase[t] \in {"failed", "stopped"})

(* What a comment says, and the code does not keep.                        *)

\* _sync_mac, of the UniFi tracker at the tablet's host: "both are the MAC
\* the access point sees".
MacIsOurs == \A t \in Tablets : connections[t] \subseteq {t}
=============================================================================
