---------------------------- MODULE MediaSessions ----------------------------
(***************************************************************************)
(* One media session, shared by several workers (Instances) over nostr     *)
(* relays: src/media/MediaServiceManager.mjs, SignalingBridge.mjs and      *)
(* NostrSignalingTransport.mjs.                                            *)
(*                                                                         *)
(* A worker lists the participants it knows, subscribes to the relays as   *)
(* long as one of its own peers is in the session, and publishes an event  *)
(* when one of them joins, leaves or signals.  A join runs to its          *)
(* publication without letting another message in; a leave waits for the   *)
(* relays' answers and only then looks whether it was the last one, on the *)
(* record it read before.  Requests and events reach a relay in the order  *)
(* they were sent to it, and come from it in the order it took them; two   *)
(* relays keep no order between them, so every event may come twice.       *)
(*                                                                         *)
(* `mishaps` remembers what went wrong so far: the properties say what     *)
(* holds without them.                                                     *)
(***************************************************************************)
EXTENDS Integers, FiniteSets, SequencesExt, Subsequences

CONSTANTS
    Instances,        \* workers, each with its instanceId
    Relays,           \* nostr relays
    Peers,            \* peers that join the session
    Home,             \* the worker of each peer
    Hints,            \* relay lists a command may come with
    DefaultRelays,    \* relays every list is filled up with
    MaxRelays,        \* maxRelays of the transport
    MaxParticipants,  \* maxParticipantsPerSession
    MaxSeen,          \* MAX_SEEN_EVENT_IDS
    Storing,          \* relays that keep the events for later subscribers
    MaxSent           \* bound: events a worker publishes

ASSUME InstancesAssumption == IsFiniteSet(Instances) /\ Home \in [Peers -> Instances]
ASSUME RelaysAssumption ==
    /\ DefaultRelays \in Seq(Relays) /\ DefaultRelays # <<>>
    /\ Hints \subseteq Seq(Relays) /\ Storing \subseteq Relays
ASSUME BoundsAssumption ==
    /\ MaxRelays \in Nat \ {0} /\ MaxParticipants \in Nat \ {0}
    /\ MaxSeen \in Nat \ {0} /\ MaxSent \in Nat

VARIABLES
    sessions,       \* workers that have the session
    participants,   \* what each worker lists
    transport,      \* its transport state of the session: none or one record
    subscription,   \* its subscription: none or one record
    subscribed,     \* ghost: subscriptions it has made
    waiting,        \* leaves that wait for the relays: those that read the
                    \* current record, and those whose record is gone
    seen,           \* ids of the events it need not handle again
    sent,           \* number of events it has published
    toRelay,        \* requests and events on their way to a relay
    serves,         \* the subscription of each worker that a relay knows
    kept,           \* events a relay has kept
    fromRelay,      \* events on their way from a relay
    joined,         \* ghost: own peers whose last command was a join
    handled,        \* ghost: how often an event was handled
    newest,         \* ghost: last event handled of each worker
    forgotten,      \* ghost: ids dropped from the list of events seen
    mishaps         \* ghost: what has gone wrong so far

vars == <<sessions, participants, transport, subscription, subscribed, waiting, seen, sent,
          toRelay, serves, kept, fromRelay, joined, handled, newest, forgotten, mishaps>>

None == [none |-> TRUE]
Events == [by : Instances, n : 1 .. MaxSent, type : {"join", "leave", "signal"},
           peer : Peers, target : SUBSET Peers]
EventId(e) == <<e.by, e.n>>

(* What can go wrong: an event did not reach a relay; came after a later   *)
(* one of the same worker; came for a subscription that was replaced; found *)
(* the session full; a leave removed the record of peers that had joined   *)
(* since.                                                                  *)
Mishaps == {"lost", "overtaken", "gap", "limit", "removed"}

(* The relays of a command: its hints, those of the session, the defaults. *)
Joined(hints, others) == Distinct(hints \o others)
SessionRelays(i) == IF transport[i] = None THEN <<>> ELSE transport[i].relayUrls
RelayHints(i, hints) == Joined(hints, SessionRelays(i))
ResolveRelays(list) ==
    LET all == Joined(list, DefaultRelays)
    IN SubSeq(all, 1, IF Len(all) < MaxRelays THEN Len(all) ELSE MaxRelays)

Subscribed(i) == subscription[i] # None

-----------------------------------------------------------------------------
(* What a worker publishes.  `requests` is what attaching sends before it. *)

(* Variant: announce first, subscribe afterwards. *)
AnnounceFirstVariant(i, relays, requests, e, failed) ==
    LET event(r) == IF r \in ToSet(relays) \ failed THEN <<e>> ELSE <<>>
    IN toRelay' = [toRelay EXCEPT ![i] = [r \in Relays |->
                        toRelay[i][r] \o event(r) \o requests[r]]]

Send(i, relays, requests, e, failed) ==
    LET event(r) == IF r \in ToSet(relays) \ failed THEN <<e>> ELSE <<>>
    IN toRelay' = [toRelay EXCEPT ![i] = [r \in Relays |->
                        toRelay[i][r] \o requests[r] \o event(r)]]


(* A subscription request names the subscription; 0 closes the last one. *)
Request(id) == [request |-> id]
IsRequest(m) == "request" \in DOMAIN m
Closing(i, r) ==
    IF Subscribed(i) /\ r \in ToSet(subscription[i].relays) THEN <<Request(0)>> ELSE <<>>
NoRequests == [r \in Relays |-> <<>>]

Event(i, type, p, target) ==
    [by |-> i, n |-> sent[i] + 1, type |-> type, peer |-> p, target |-> target]

TrackSeen(i, e) ==
    LET queue == Append(seen[i], EventId(e))
    IN IF Len(queue) <= MaxSeen
       THEN /\ seen' = [seen EXCEPT ![i] = queue]
            /\ UNCHANGED forgotten
       ELSE /\ seen' = [seen EXCEPT ![i] = Tail(queue)]
            /\ forgotten' = [forgotten EXCEPT ![i] = @ \cup {Head(queue)}]

Publish(i, relays, requests, e) ==
    \E failed \in SUBSET ToSet(relays) :
        /\ Send(i, relays, requests, e, failed)
        /\ mishaps' = mishaps \cup IF failed = {} THEN {} ELSE {"lost"}
        /\ TrackSeen(i, e)
        /\ sent' = [sent EXCEPT ![i] = @ + 1]

-----------------------------------------------------------------------------
(* Commands of the application *)

(* createSession; the same for a join that the full session refuses. *)
Create(i) ==
    /\ i \notin sessions
    /\ sessions' = sessions \cup {i}
    /\ UNCHANGED <<participants, transport, subscription, subscribed, waiting,
                   seen, sent, toRelay, serves, kept, fromRelay, joined, handled,
                   newest, forgotten, mishaps>>

Full(i, p) == p \notin participants[i] /\ Cardinality(participants[i]) >= MaxParticipants

(* attachSession: the same relays share the subscription, others replace   *)
(* it.  What was on its way for the old one is dropped when it comes.      *)
Reuses(i, relays) == Subscribed(i) /\ subscription[i].relays = relays
Attach(i, relays) ==
    subscription' = [subscription EXCEPT ![i] =
        IF Reuses(i, relays) THEN [subscription[i] EXCEPT !.refCount = @ + 1]
        ELSE [relays |-> relays, refCount |-> 1, id |-> subscribed[i] + 1]]
Requests(i, relays) ==
    [r \in Relays |-> IF Reuses(i, relays) THEN <<>>
                      ELSE IF r \in ToSet(relays) THEN <<Request(subscribed[i] + 1)>>
                      ELSE Closing(i, r)]

Join(i, p, hints) ==
    LET urls   == RelayHints(i, hints)
        relays == ResolveRelays(urls)
        peers  == IF transport[i] = None THEN {} ELSE transport[i].localPeerIds
    IN /\ Home[p] = i /\ sent[i] < MaxSent /\ ~Full(i, p)
       /\ sessions' = sessions \cup {i}
       /\ participants' = [participants EXCEPT ![i] = @ \cup {p}]
       /\ transport' = [transport EXCEPT ![i] =
              [localPeerIds |-> peers \cup {p}, relayUrls |-> urls]]
       /\ Attach(i, relays)
       /\ subscribed' = [subscribed EXCEPT ![i] = IF Reuses(i, relays) THEN @ ELSE @ + 1]
       /\ Publish(i, relays, Requests(i, relays), Event(i, "join", p, {}))
       /\ joined' = joined \cup {p}
       /\ UNCHANGED <<waiting, serves, kept, fromRelay, handled, newest>>

SendSignal(i, p, target, hints) ==
    /\ Home[p] = i /\ sent[i] < MaxSent
    /\ {p} \cup target \subseteq participants[i]
    /\ Publish(i, ResolveRelays(RelayHints(i, hints)), NoRequests,
               Event(i, "signal", p, target))
    /\ UNCHANGED <<sessions, participants, transport, subscription, subscribed,
                   waiting, serves, kept, fromRelay, joined, handled, newest>>

(* leaveSession, and detachRemoteSession up to the publication. *)
Leave(i, p) ==
    /\ Home[p] = i /\ i \in sessions
    /\ participants' = [participants EXCEPT ![i] = @ \ {p}]
    /\ joined' = joined \ {p}
    /\ \/ /\ transport[i] = None
          /\ UNCHANGED <<transport, waiting, seen, sent, toRelay, forgotten,
                         mishaps>>
       \/ /\ transport[i] # None /\ sent[i] < MaxSent
          /\ transport' = [transport EXCEPT ![i].localPeerIds = @ \ {p}]
          /\ Publish(i, ResolveRelays(SessionRelays(i)), NoRequests,
                     Event(i, "leave", p, {}))
          /\ waiting' = [waiting EXCEPT ![i].current = @ + 1]
    /\ UNCHANGED <<sessions, subscription, subscribed, serves, kept, fromRelay,
                   handled, newest>>

(* Variant: the subscription stays after its last user has left. *)
NeverCloseVariant(i) ==
    /\ subscription' = [subscription EXCEPT ![i] =
           IF @ = None THEN None ELSE [@ EXCEPT !.refCount = @ - 1]]
    /\ UNCHANGED toRelay

DetachSession(i) ==
    \/ /\ ~Subscribed(i)
       /\ UNCHANGED <<subscription, toRelay>>
    \/ /\ Subscribed(i) /\ subscription[i].refCount > 1
       /\ subscription' = [subscription EXCEPT ![i].refCount = @ - 1]
       /\ UNCHANGED toRelay
    \/ /\ Subscribed(i) /\ subscription[i].refCount = 1
       /\ subscription' = [subscription EXCEPT ![i] = None]
       /\ toRelay' = [toRelay EXCEPT ![i] = [r \in Relays |-> @[r] \o Closing(i, r)]]

(* The relays have answered, or did not within 12 seconds. *)
PeerRetained(i) ==
    /\ waiting[i].current > 0 /\ transport[i].localPeerIds # {}
    /\ waiting' = [waiting EXCEPT ![i].current = @ - 1]
    /\ UNCHANGED <<sessions, participants, transport, subscription, subscribed,
                   seen, sent, toRelay, serves, kept, fromRelay, joined, handled,
                   newest, forgotten, mishaps>>

(* Variant: every leave detaches, whoever is still in the session. *)
AlwaysDetachVariant(i) ==
    /\ waiting[i].current > 0
    /\ transport' = [transport EXCEPT ![i] = None]
    /\ DetachSession(i)
    /\ waiting' = [waiting EXCEPT ![i] = [current |-> 0, gone |-> @.gone + @.current - 1]]
    /\ UNCHANGED <<sessions, participants, subscribed, seen, sent, serves, kept,
                   fromRelay, joined, handled, newest, forgotten, mishaps>>

LastLeft(i) ==
    /\ waiting[i].current > 0 /\ transport[i].localPeerIds = {}
    /\ transport' = [transport EXCEPT ![i] = None]
    /\ DetachSession(i)
    /\ waiting' = [waiting EXCEPT ![i] = [current |-> 0, gone |-> @.gone + @.current - 1]]
    /\ UNCHANGED <<sessions, participants, subscribed, seen, sent, serves, kept,
                   fromRelay, joined, handled, newest, forgotten, mishaps>>

(* The record this leave read is gone, with no peer in it: it removes the  *)
(* one that is there now, whatever its peers.                              *)
LateLeft(i) ==
    /\ waiting[i].gone > 0
    /\ transport' = [transport EXCEPT ![i] = None]
    /\ DetachSession(i)
    /\ waiting' = [waiting EXCEPT ![i] = [current |-> 0, gone |-> @.gone + @.current - 1]]
    /\ mishaps' = mishaps \cup IF transport[i] = None THEN {} ELSE {"removed"}
    /\ UNCHANGED <<sessions, participants, subscribed, seen, sent, serves, kept,
                   fromRelay, joined, handled, newest, forgotten>>

-----------------------------------------------------------------------------
(* The relays: outside of src/, as subscribeMany and publish use them *)

Push(r, i, list) ==
    fromRelay' = [fromRelay EXCEPT ![r][i] =
        @ \o [k \in 1 .. Len(list) |-> [to |-> serves'[r][i], event |-> list[k]]]]

RelaySubscribes(i, r) ==
    /\ toRelay[i][r] # <<>> /\ IsRequest(Head(toRelay[i][r]))
    /\ toRelay' = [toRelay EXCEPT ![i][r] = Tail(@)]
    /\ serves' = [serves EXCEPT ![r][i] = Head(toRelay[i][r]).request]
    /\ \E order \in {kept[r], Reverse(kept[r])} :
           Push(r, i, IF serves'[r][i] = 0 THEN <<>> ELSE order)
    /\ UNCHANGED <<sessions, participants, transport, subscription, subscribed,
                   waiting, seen, sent, kept, joined, handled, newest, forgotten,
                   mishaps>>

RelayForwards(i, r) ==
    /\ toRelay[i][r] # <<>> /\ ~IsRequest(Head(toRelay[i][r]))
    /\ LET e == Head(toRelay[i][r])
       IN /\ fromRelay' = [fromRelay EXCEPT ![r] = [j \in Instances |->
                 IF serves[r][j] = 0 THEN @[j]
                 ELSE Append(@[j], [to |-> serves[r][j], event |-> e])]]
          /\ kept' = [kept EXCEPT ![r] = IF r \in Storing THEN Append(@, e) ELSE @]
    /\ toRelay' = [toRelay EXCEPT ![i][r] = Tail(@)]
    /\ UNCHANGED <<sessions, participants, transport, subscription, subscribed,
                   waiting, seen, sent, serves, joined, handled, newest,
                   forgotten, mishaps>>

-----------------------------------------------------------------------------
(* An event comes to a worker: handleIncomingEvent and handleRemoteSignal *)

Current(i, m) == Subscribed(i) /\ m.to = subscription[i].id

(* Variants: the events seen, or the own ones, are not recognised. *)
ForgetSeenVariant(i, e) == e.by # i
TakeOwnVariant(i, e) == EventId(e) \notin ToSet(seen[i])

(* parseSignalFromEvent knows events it has seen and its own ones. *)
New(i, e) == EventId(e) \notin ToSet(seen[i]) /\ e.by # i

(* upsertParticipant, for the peers in order: the first that does not fit  *)
(* ends the handler.                                                       *)
Fits(list, peers) == peers \subseteq list \/ Cardinality(list \cup peers) <= MaxParticipants
AddPeers(i, e) ==
    LET from == participants[i] \cup {e.peer}
    IN IF ~Fits(participants[i], {e.peer}) THEN participants[i]
       ELSE IF ~Fits(from, e.target) THEN from
       ELSE from \cup e.target

Changed(i, e) ==
    CASE e.type = "join"   -> AddPeers(i, e)
      [] e.type = "leave"  -> participants[i] \ {e.peer}
      [] e.type = "signal" -> AddPeers(i, e)

Dropped(r, i) == fromRelay' = [fromRelay EXCEPT ![r][i] = Tail(@)]

HandleEvent(r, i) ==
    /\ fromRelay[r][i] # <<>> /\ Dropped(r, i)
    /\ LET m == Head(fromRelay[r][i])
           e == m.event
       IN /\ Current(i, m) /\ New(i, e)
          /\ TrackSeen(i, e)
          /\ sessions' = sessions \cup {i}
          /\ participants' = [participants EXCEPT ![i] = Changed(i, e)]
          /\ handled' = [handled EXCEPT ![i][EventId(e)] = @ + 1]
          /\ newest' = [newest EXCEPT ![i][e.by] = IF e.n > @ THEN e.n ELSE @]
          /\ mishaps' = mishaps
                \cup (IF e.n < newest[i][e.by] THEN {"overtaken"} ELSE {})
                \cup (IF e.type = "leave" \/ {e.peer} \cup e.target \subseteq Changed(i, e)
                        THEN {} ELSE {"limit"})
    /\ UNCHANGED <<transport, subscription, subscribed, waiting, sent, toRelay,
                   serves, kept, joined>>

IgnoreEvent(r, i) ==
    /\ fromRelay[r][i] # <<>> /\ Dropped(r, i)
    /\ LET m == Head(fromRelay[r][i])
       IN /\ ~(Current(i, m) /\ New(i, m.event))
          /\ mishaps' = mishaps \cup
                 IF Subscribed(i) /\ New(i, m.event) THEN {"gap"} ELSE {}
    /\ UNCHANGED <<sessions, participants, transport, subscription, subscribed,
                   waiting, seen, sent, toRelay, serves, kept, joined, handled,
                   newest, forgotten>>

-----------------------------------------------------------------------------
Init ==
    /\ sessions = {}
    /\ participants = [i \in Instances |-> {}]
    /\ transport = [i \in Instances |-> None]
    /\ subscription = [i \in Instances |-> None]
    /\ subscribed = [i \in Instances |-> 0]
    /\ waiting = [i \in Instances |-> [current |-> 0, gone |-> 0]]
    /\ seen = [i \in Instances |-> <<>>]
    /\ sent = [i \in Instances |-> 0]
    /\ toRelay = [i \in Instances |-> [r \in Relays |-> <<>>]]
    /\ serves = [r \in Relays |-> [i \in Instances |-> 0]]
    /\ kept = [r \in Relays |-> <<>>]
    /\ fromRelay = [r \in Relays |-> [i \in Instances |-> <<>>]]
    /\ joined = {}
    /\ handled = [i \in Instances |-> [d \in Instances \X (1 .. MaxSent) |-> 0]]
    /\ newest = [i \in Instances |-> [j \in Instances |-> 0]]
    /\ forgotten = [i \in Instances |-> {}]
    /\ mishaps = {}

Command(i) ==
    \/ Create(i)
    \/ \E p \in Peers, hints \in Hints : Join(i, p, hints)
    \/ \E p \in Peers : Leave(i, p)
    \/ \E p \in Peers, target \in SUBSET Peers, hints \in Hints :
           Cardinality(target) <= 1 /\ SendSignal(i, p, target, hints)

LeaveEnds(i) == PeerRetained(i) \/ LastLeft(i) \/ LateLeft(i)

Network(i, r) ==
    RelaySubscribes(i, r) \/ RelayForwards(i, r) \/ HandleEvent(r, i) \/ IgnoreEvent(r, i)

Next == \E i \in Instances :
    Command(i) \/ LeaveEnds(i) \/ \E r \in Relays : Network(i, r)

Spec == Init /\ [][Next]_vars

-----------------------------------------------------------------------------
(* Every variable keeps its type: a subscription is held by at least one   *)
(* join, and no leave waits on a record that is not there.                 *)
MediaTypeOK ==
    /\ sessions \subseteq Instances
    /\ participants \in [Instances -> SUBSET Peers]
    /\ \A i \in Instances : transport[i] # None =>
           /\ transport[i].localPeerIds \subseteq {p \in Peers : Home[p] = i}
           /\ transport[i].relayUrls \in Seq(Relays)
    /\ \A i \in Instances : Subscribed(i) =>
           /\ subscription[i].relays \in Seq(Relays)
           /\ subscription[i].refCount \in 1 .. MaxSent
           /\ subscription[i].id \in 1 .. subscribed[i]
    /\ waiting \in [Instances -> [current : 0 .. MaxSent, gone : 0 .. MaxSent]]
    /\ \A i \in Instances : waiting[i].current > 0 => transport[i] # None
    /\ \A i \in Instances : Len(seen[i]) <= MaxSeen /\ IsInjective(seen[i])
    /\ sent \in [Instances -> 0 .. MaxSent]
    /\ \A r \in Relays, i \in Instances : serves[r][i] \in 0 .. subscribed[i]
    /\ joined \subseteq Peers /\ mishaps \subseteq Mishaps

(* A worker receives what is said in the session as long as one of its own *)
(* peers is in it: the peer is in the transport state and listed, and the  *)
(* subscription is open on the relays of that state -- however joins,      *)
(* leaves that wait and other relay lists follow each other.  The one way  *)
(* to lose it: of two last leaves that both waited, the second ends after  *)
(* a new join (MediaServiceManager.detachRemoteSession).                   *)
LocalsSubscribed == "removed" \notin mishaps => \A p \in joined :
    LET i == Home[p]
    IN /\ i \in sessions /\ p \in participants[i]
       /\ transport[i] # None /\ p \in transport[i].localPeerIds
       /\ Subscribed(i)
       /\ subscription[i].relays = ResolveRelays(transport[i].relayUrls)

(* An event is handled once, though every relay sends it, and again when   *)
(* the subscription is replaced, until its id is forgotten; and never by   *)
(* the worker that published it, even then.                                *)
HandledOnce == \A i, j \in Instances, n \in 1 .. MaxSent :
    /\ handled[i][<<i, n>>] = 0
    /\ handled[i][<<j, n>>] <= 1 \/ <<j, n>> \in forgotten[i]

(* What Rendezvous needs: every list a session can come to, of hints and    *)
(* hints before it, has the relay c in common.                             *)
SharedRelay(c, lists) ==
    /\ <<>> \in lists
    /\ \A hints \in Hints, list \in lists : Joined(hints, list) \in lists
    /\ \A list \in lists : c \in ToSet(ResolveRelays(list))

(* When nothing is on its way, of two peers in the session at different    *)
(* workers one is known where the other is: each subscribes before it      *)
(* announces itself, and every list of relays has one in common, so the    *)
(* later announcement finds the other's subscription in place.  (The       *)
(* earlier one is not repeated: both know each other only after a signal.) *)
Quiet == \A i \in Instances, r \in Relays : toRelay[i][r] = <<>> /\ fromRelay[r][i] = <<>>
Rendezvous == Quiet /\ mishaps = {} =>
    \A p, q \in joined : \/ Home[p] = Home[q]
                         \/ q \in participants[Home[p]]
                         \/ p \in participants[Home[q]]
=============================================================================
