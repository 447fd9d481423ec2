---------------------------- MODULE Worker_proofs ----------------------------
(* Proofs about WorkerServices: its media sessions, its joins and its access  *)
(* to gateways; for the stores see ReplicaStores_proofs.                      *)
(*                                                                            *)
(* Media sessions, for any workers, peers, relays and bounds: an event is     *)
(* handled once, a worker is subscribed for the peers it has in the session,  *)
(* and of two peers of different workers one is known where the other is.     *)
(* The third rests on the first two and on a relay c that is in every list of *)
(* relays.  A peer's last join has a number, N; what is on its way to c opens *)
(* the subscription before it announces the peer (Serving).  So when c        *)
(* forwards the announcement of one of two peers, it either serves the worker *)
(* of the other or has the other's announcement before it.                    *)
(*                                                                            *)
(* Joins and access to gateways, for any commands, re-authentications,        *)
(* relays, hosts and number of tries: the locks and the marks of provisional  *)
(* joins follow what runs, the app is told of no stale success, and the app,  *)
(* the profile and the host end with the same token.  And what is held of a   *)
(* relay, for any gateways, joins, fetches, refs and number of tokens: a      *)
(* token goes to the gateway it is from, the newest is held, and the refs of  *)
(* the profile are in the store of core refs.                                 *)
(*                                                                            *)
(* That the app, the profile and the host agree is about three copies of a    *)
(* token that are made one after another, at the host, in the profile and at  *)
(* the app (Carried).  They could be set apart by a request that comes late:  *)
(* another job's, for the same relay.  It is answered with a token only if    *)
(* the host has that job's challenge, and it has not once it granted a token  *)
(* to the job that holds the lock (Late): a job's join request is gone before *)
(* its verify request is made (Asked).                                        *)
(*                                                                            *)
(* The newest token of a gateway is held (InTurn) because one that arrives is *)
(* never older than the one that is held, or was withdrawn with it: what is   *)
(* on its way and may become the newest (Newest) is from the gateway of each  *)
(* fetch that has a token, and is withdrawn if that fetch's token is.  While  *)
(* a join asks for a token nobody else has one (JoinAlone), or their requests *)
(* overlap.                                                                   *)
EXTENDS WorkerServices, ReplicaStores_proofs

\* Events are of a peer of the worker that publishes them.
Own == {e \in Events : Home[e.peer] = e.by}
Ids == Instances \X (1 .. MaxSent)
Asking == [request : Nat]
Message == Asking \cup Own
Delivery == [to : Nat, event : Own]

\* What is on its way.
Traffic ==
    /\ toRelay \in [Instances -> [Relays -> Seq(Message)]]
    /\ serves \in [Relays -> [Instances -> Nat]]
    /\ kept \in [Relays -> Seq(Own)]
    /\ fromRelay \in [Relays -> [Instances -> Seq(Delivery)]]

\* What a worker has counted and noted.
Logs ==
    /\ sent \in [Instances -> 0 .. MaxSent]
    /\ seen \in [Instances -> Seq(Ids)]
    /\ forgotten \in [Instances -> SUBSET Ids]
    /\ handled \in [Instances -> [Ids -> Nat]]
    /\ newest \in [Instances -> [Instances -> Nat]]
    /\ subscribed \in [Instances -> Nat]
    /\ mishaps \subseteq Mishaps

\* An event that was handled came from another worker and is still known,
\* unless it was forgotten.
HandledKept == \A i \in Instances : \A id \in Ids :
    /\ handled[i][id] > 0 => id[1] # i /\ id \in ToSet(seen[i]) \cup forgotten[i]
    /\ handled[i][id] > 1 => id \in forgotten[i]

History == Traffic /\ Logs /\ HandledKept

-----------------------------------------------------------------------------
(* Sequences and their elements                                            *)
LEMMA TailFacts ==
  ASSUME NEW S, NEW s \in Seq(S), s # <<>>
  PROVE  /\ Len(s) \in Nat \ {0} /\ DOMAIN s = 1 .. Len(s)
         /\ Head(s) = s[1] /\ s[1] \in S
         /\ Tail(s) \in Seq(S) /\ Len(Tail(s)) = Len(s) - 1
         /\ DOMAIN Tail(s) = 1 .. (Len(s) - 1)
         /\ \A k \in 1 .. (Len(s) - 1) : Tail(s)[k] = s[k + 1]
  OBVIOUS

LEMMA ConcatFacts ==
  ASSUME NEW S, NEW s \in Seq(S), NEW t \in Seq(S)
  PROVE  /\ s \o t \in Seq(S) /\ Len(s \o t) = Len(s) + Len(t)
         /\ Len(s) \in Nat /\ Len(t) \in Nat
         /\ DOMAIN s = 1 .. Len(s) /\ DOMAIN t = 1 .. Len(t) /\ DOMAIN (s \o t) = 1 .. (Len(s) + Len(t))
         /\ \A k \in 1 .. Len(s) : (s \o t)[k] = s[k]
         /\ \A k \in 1 .. Len(t) : (s \o t)[Len(s) + k] = t[k]
         /\ \A k \in 1 .. (Len(s) + Len(t)) : k \in 1 .. Len(s) \/ k - Len(s) \in 1 .. Len(t)
  OBVIOUS

LEMMA TailElements ==
  ASSUME NEW S, NEW s \in Seq(S), s # <<>>
  PROVE  ToSet(Tail(s)) \subseteq ToSet(s) /\ Head(s) \in ToSet(s)
         /\ ToSet(s) \subseteq ToSet(Tail(s)) \cup {Head(s)}
  <1>1. /\ Len(s) \in Nat \ {0} /\ DOMAIN s = 1 .. Len(s) /\ Head(s) = s[1]
        /\ DOMAIN Tail(s) = 1 .. (Len(s) - 1)
        /\ \A k \in 1 .. (Len(s) - 1) : Tail(s)[k] = s[k + 1]
    BY TailFacts
  <1>2. \A k \in 1 .. (Len(s) - 1) : k + 1 \in 1 .. Len(s)  BY <1>1
  <1>3. 1 \in DOMAIN s  BY <1>1
  <1>4. ASSUME NEW k \in 1 .. Len(s), k # 1  PROVE s[k] \in ToSet(Tail(s))
    <2>1. k - 1 \in DOMAIN Tail(s) /\ Tail(s)[k - 1] = s[(k - 1) + 1] /\ (k - 1) + 1 = k  BY <1>1, <1>4
    <2> QED  BY <2>1 DEF ToSet
  <1>5. ToSet(s) \subseteq ToSet(Tail(s)) \cup {Head(s)}
    BY <1>1, <1>4 DEF ToSet
  <1> QED  BY <1>1, <1>2, <1>3, <1>5 DEF ToSet

LEMMA AppendSet ==
  ASSUME NEW S, NEW s \in Seq(S), NEW x \in S
  PROVE  ToSet(Append(s, x)) = ToSet(s) \cup {x}
  <1>1. Append(s, x) = s \o <<x>> /\ Append(s, x) \in Seq(S) /\ ToSet(Append(s, x)) = ToSet(s) \cup {x}
    BY AppendElements
  <1> QED  BY <1>1

LEMMA SeqOfMore ==
  ASSUME NEW S, NEW T, NEW s \in Seq(S), S \subseteq T
  PROVE  s \in Seq(T) /\ ToSet(s) \subseteq S
  <1>1. DOMAIN s = 1 .. Len(s) /\ \A k \in 1 .. Len(s) : s[k] \in S  OBVIOUS
  <1> QED  BY <1>1 DEF ToSet

LEMMA ConcatEmpty ==
  ASSUME NEW S, NEW s \in Seq(S), NEW t \in Seq(S)
  PROVE  (s \o <<>>) \o t = s \o t
  <1>1. <<>> \in Seq(S) /\ Len(<<>>) = 0  OBVIOUS
  <1>2. s \o <<>> \in Seq(S) /\ Len(s \o <<>>) = Len(s) /\ Len(s) \in Nat
        /\ \A k \in 1 .. Len(s) : (s \o <<>>)[k] = s[k]
    BY <1>1, ConcatFacts
  <1>3. s = s \o <<>>  BY <1>2
  <1> QED  BY <1>3

LEMMA ConcatAssoc ==
  ASSUME NEW S, NEW s \in Seq(S), NEW t \in Seq(S), NEW u \in Seq(S)
  PROVE  (s \o t) \o u = s \o (t \o u)
  OBVIOUS

-----------------------------------------------------------------------------
(* What is sent, noted and handled                                         *)
LEMMA TrackSeenKeeps ==
  ASSUME Logs, NEW i \in Instances, NEW e, EventId(e) \in Ids, TrackSeen(i, e)
  PROVE  /\ seen' \in [Instances -> Seq(Ids)] /\ forgotten' \in [Instances -> SUBSET Ids]
         /\ \A j \in Instances : forgotten[j] \subseteq forgotten'[j]
         /\ \A j \in Instances : ToSet(seen[j]) \subseteq ToSet(seen'[j]) \cup forgotten'[j]
         /\ EventId(e) \in ToSet(seen'[i])
         /\ \A j \in Instances \ {i} : seen'[j] = seen[j]
         /\ ToSet(seen'[i]) \subseteq ToSet(seen[i]) \cup {EventId(e)}
         /\ Len(seen[i]) <= MaxSeen => Len(seen'[i]) <= MaxSeen
         /\ IsInjective(seen[i]) /\ EventId(e) \notin ToSet(seen[i]) => IsInjective(seen'[i])
  <1> DEFINE s == seen[i]
             id == EventId(e)
             q == Append(s, id)
  <1> HIDE DEF id
  <1>1. /\ s \in Seq(Ids) /\ Len(s) \in Nat /\ DOMAIN s = 1 .. Len(s)
        /\ q \in Seq(Ids) /\ Len(q) = Len(s) + 1 /\ DOMAIN q = 1 .. (Len(s) + 1)
        /\ q[Len(s) + 1] = id /\ \A k \in 1 .. Len(s) : q[k] = s[k]
    BY DEF Logs, id
  <1>2. MaxSeen \in Nat \ {0}  BY BoundsAssumption
  <1>3. ToSet(q) = ToSet(s) \cup {id}
    <2>1. \A k \in DOMAIN q : k \in DOMAIN s \/ k = Len(s) + 1  BY <1>1
    <2> QED  BY <1>1, <2>1 DEF ToSet
  <1>4. IsInjective(s) /\ id \notin ToSet(s) => IsInjective(q)
    <2>1. \A k \in DOMAIN q : k \in DOMAIN s \/ k = Len(s) + 1  BY <1>1
    <2> QED  BY <1>1, <2>1 DEF ToSet, IsInjective
  <1>5. CASE Len(q) <= MaxSeen
    <2>1. seen' = [seen EXCEPT ![i] = q] /\ forgotten' = forgotten
      BY <1>5 DEF TrackSeen, id
    <2>2. seen' \in [Instances -> Seq(Ids)] /\ seen'[i] = q
      BY <1>1, <2>1 DEF Logs
    <2>3. \A j \in Instances \ {i} : seen'[j] = seen[j]
      BY <2>1 DEF Logs
    <2> QED  BY <1>1, <1>3, <1>4, <1>5, <2>1, <2>2, <2>3 DEF Logs, id
  <1>6. CASE ~(Len(q) <= MaxSeen)
    <2> DEFINE t == Tail(q)
    <2>1. seen' = [seen EXCEPT ![i] = t] /\ forgotten' = [forgotten EXCEPT ![i] = @ \cup {Head(q)}]
      BY <1>6 DEF TrackSeen, id
    <2>2. /\ t \in Seq(Ids) /\ Len(t) = Len(s) /\ DOMAIN t = 1 .. Len(s)
          /\ \A k \in 1 .. Len(s) : t[k] = q[k + 1]
          /\ Head(q) = q[1] /\ Head(q) \in Ids
      <3> HIDE DEF q, s
      <3>1. q # <<>>  BY <1>1
      <3>2. (Len(s) + 1) - 1 = Len(s)  BY <1>1
      <3> QED  BY <1>1, <3>1, <3>2, TailFacts
    <2>3. Len(s) > 0  BY <1>1, <1>2, <1>6
    <2>4. id \in ToSet(t)
      <3>1. Len(s) \in DOMAIN t /\ t[Len(s)] = id  BY <1>1, <2>2, <2>3
      <3> QED  BY <3>1 DEF ToSet
    <2>5. ToSet(q) \subseteq ToSet(t) \cup {Head(q)}
      <3> SUFFICES ASSUME NEW k \in 1 .. (Len(s) + 1), k # 1  PROVE q[k] \in ToSet(t)
        BY <1>1, <2>2 DEF ToSet
      <3>1. k - 1 \in DOMAIN t /\ t[k - 1] = q[(k - 1) + 1] /\ (k - 1) + 1 = k  BY <1>1, <2>2
      <3> QED  BY <3>1 DEF ToSet
    <2>6. ToSet(t) \subseteq ToSet(q)
      <3> SUFFICES ASSUME NEW k \in 1 .. Len(s)  PROVE t[k] \in ToSet(q)
        BY <2>2 DEF ToSet
      <3>1. k + 1 \in DOMAIN q /\ t[k] = q[k + 1]  BY <1>1, <2>2
      <3> QED  BY <3>1 DEF ToSet
    <2>7. IsInjective(q) => IsInjective(t)
      <3> SUFFICES ASSUME IsInjective(q), NEW k \in 1 .. Len(s), NEW l \in 1 .. Len(s), t[k] = t[l]
                   PROVE  k = l
        BY <2>2 DEF IsInjective
      <3>1. k + 1 \in DOMAIN q /\ l + 1 \in DOMAIN q /\ q[k + 1] = q[l + 1]  BY <1>1, <2>2
      <3>2. k + 1 = l + 1  BY <3>1 DEF IsInjective
      <3> QED  BY <1>1, <3>2
    <2>8. /\ seen' \in [Instances -> Seq(Ids)] /\ seen'[i] = t
          /\ \A j \in Instances \ {i} : seen'[j] = seen[j]
      BY <2>1, <2>2 DEF Logs
    <2>9. /\ forgotten' \in [Instances -> SUBSET Ids] /\ Head(q) \in forgotten'[i]
          /\ \A j \in Instances : forgotten[j] \subseteq forgotten'[j]
      BY <2>1, <2>2 DEF Logs
    <2>10. Len(s) <= MaxSeen => Len(t) <= MaxSeen  BY <2>2
    <2>11. \A j \in Instances : ToSet(seen[j]) \subseteq ToSet(seen'[j]) \cup forgotten'[j]
      BY <1>3, <2>5, <2>8, <2>9
    <2> QED  BY <1>3, <1>4, <2>4, <2>6, <2>7, <2>8, <2>9, <2>10, <2>11 DEF id
  <1> QED  BY <1>5, <1>6

LEMMA OwnEvent ==
  ASSUME Logs, NEW i \in Instances, NEW p \in Peers, Home[p] = i, sent[i] < MaxSent,
         NEW type \in {"join", "leave", "signal"}, NEW target \in SUBSET Peers
  PROVE  Event(i, type, p, target) \in Own /\ EventId(Event(i, type, p, target)) = <<i, sent[i] + 1>>
         /\ <<i, sent[i] + 1>> \in Ids
  <1>1. sent[i] + 1 \in 1 .. MaxSent  BY BoundsAssumption DEF Logs
  <1> QED  BY <1>1 DEF Event, Own, Events, EventId, Ids

LEMMA OwnIds ==
  ASSUME NEW e \in Own
  PROVE  EventId(e) \in Ids /\ e.by \in Instances /\ e.n \in 1 .. MaxSent /\ e.peer \in Peers
         /\ e.target \subseteq Peers /\ EventId(e)[1] = e.by /\ Home[e.peer] = e.by
         /\ e.type \in {"join", "leave", "signal"}
  BY DEF Own, Events, EventId, Ids

LEMMA OwnIsNoRequest ==
  ASSUME NEW m \in Message
  PROVE  /\ IsRequest(m) => m \in Asking /\ m.request \in Nat
         /\ ~IsRequest(m) => m \in Own
  <1>1. CASE m \in Asking
    BY <1>1 DEF IsRequest, Asking
  <1>2. CASE m \in Own
    <2>1. m \in Events  BY <1>2 DEF Own
    <2>2. DOMAIN m = {"by", "n", "type", "peer", "target"}  BY <2>1 DEF Events
    <2>3. ~IsRequest(m)  BY <2>2 DEF IsRequest
    <2> QED  BY <1>2, <2>3
  <1> QED  BY <1>1, <1>2 DEF Message

\* What is on its way to r after e was sent.
Outgoing(i, r, relays, asks, e, failed) ==
    toRelay[i][r] \o asks[r] \o (IF r \in ToSet(relays) \ failed THEN <<e>> ELSE <<>>)

LEMMA SendTyped ==
  ASSUME Traffic, NEW i \in Instances, NEW relays, NEW asks \in [Relays -> Seq(Message)],
         NEW e \in Own, NEW failed, Send(i, relays, asks, e, failed)
  PROVE  /\ toRelay' \in [Instances -> [Relays -> Seq(Message)]]
         /\ \A j \in Instances \ {i} : toRelay'[j] = toRelay[j]
         /\ \A r \in Relays : toRelay'[i][r] = Outgoing(i, r, relays, asks, e, failed)
  <1> DEFINE event(r) == IF r \in ToSet(relays) \ failed THEN <<e>> ELSE <<>>
             new == [r \in Relays |-> toRelay[i][r] \o asks[r] \o event(r)]
  <1>1. toRelay' = [toRelay EXCEPT ![i] = new]
    BY DEF Send
  <1>2. ASSUME NEW r \in Relays  PROVE toRelay[i][r] \o asks[r] \o event(r) \in Seq(Message)
    <2>1. event(r) \in Seq(Message)
      <3>1. e \in Message  BY DEF Message
      <3>2. <<e>> \in Seq(Message) /\ <<>> \in Seq(Message)  BY <3>1
      <3> QED  BY <3>2
    <2>2. toRelay[i][r] \in Seq(Message) /\ asks[r] \in Seq(Message)  BY DEF Traffic
    <2> HIDE DEF event
    <2> QED  BY <2>1, <2>2
  <1>3. new \in [Relays -> Seq(Message)]  BY <1>2
  <1>4. \A r \in Relays : new[r] = Outgoing(i, r, relays, asks, e, failed)  BY DEF Outgoing
  <1> HIDE DEF new
  <1>5. toRelay' \in [Instances -> [Relays -> Seq(Message)]] /\ toRelay'[i] = new
        /\ \A j \in Instances \ {i} : toRelay'[j] = toRelay[j]
    BY <1>1, <1>3 DEF Traffic
  <1> QED  BY <1>4, <1>5

\* A worker publishes an event.
LEMMA PublishKeeps ==
  ASSUME History, NEW i \in Instances, NEW relays, NEW asks \in [Relays -> Seq(Message)],
         NEW p \in Peers, Home[p] = i, sent[i] < MaxSent,
         NEW type \in {"join", "leave", "signal"}, NEW target \in SUBSET Peers,
         Publish(i, relays, asks, Event(i, type, p, target)),
         subscribed' \in [Instances -> Nat],
         UNCHANGED <<serves, kept, fromRelay, handled, newest>>
  PROVE  History'
  <1> DEFINE e == Event(i, type, p, target)
  <1>1. e \in Own /\ EventId(e) = <<i, sent[i] + 1>> /\ <<i, sent[i] + 1>> \in Ids
    BY OwnEvent DEF History
  <1> HIDE DEF e
  <1>2. PICK failed \in SUBSET ToSet(relays) :
            /\ Send(i, relays, asks, e, failed)
            /\ mishaps' = mishaps \cup IF failed = {} THEN {} ELSE {"lost"}
            /\ TrackSeen(i, e)
            /\ sent' = [sent EXCEPT ![i] = @ + 1]
    BY DEF Publish, e
  <1>3. Traffic'
    BY <1>1, <1>2, SendTyped DEF Traffic, History
  <1>4. /\ seen' \in [Instances -> Seq(Ids)] /\ forgotten' \in [Instances -> SUBSET Ids]
        /\ \A j \in Instances : forgotten[j] \subseteq forgotten'[j]
        /\ \A j \in Instances : ToSet(seen[j]) \subseteq ToSet(seen'[j]) \cup forgotten'[j]
    BY <1>1, <1>2, TrackSeenKeeps DEF History
  <1>5. sent' \in [Instances -> 0 .. MaxSent]
    BY <1>2, BoundsAssumption DEF Logs, History
  <1>6. mishaps' \subseteq Mishaps
    BY <1>2 DEF Logs, History, Mishaps
  <1>7. Logs'
    BY <1>4, <1>5, <1>6 DEF Logs, History
  <1>8. HandledKept'
    BY <1>4 DEF HandledKept, History, Logs
  <1> QED  BY <1>3, <1>7, <1>8 DEF History

LEMMA NoRequestsTyped == NoRequests \in [Relays -> Seq(Message)]
  <1>1. <<>> \in Seq(Message)  OBVIOUS
  <1> QED  BY <1>1 DEF NoRequests

LEMMA RequestTyped ==
  ASSUME NEW id \in Nat
  PROVE  <<Request(id)>> \in Seq(Message)
  <1>1. Request(id) \in Message  BY DEF Request, Message, Asking
  <1> QED  BY <1>1

LEMMA ClosingTyped ==
  ASSUME NEW i, NEW r
  PROVE  Closing(i, r) \in Seq(Message)
  <1>1. <<Request(0)>> \in Seq(Message)  BY RequestTyped
  <1>2. <<>> \in Seq(Message)  OBVIOUS
  <1> QED  BY <1>1, <1>2 DEF Closing

LEMMA RequestsTyped ==
  ASSUME Logs, NEW i \in Instances, NEW relays
  PROVE  Requests(i, relays) \in [Relays -> Seq(Message)]
  <1>1. subscribed[i] + 1 \in Nat  BY DEF Logs
  <1>2. <<Request(subscribed[i] + 1)>> \in Seq(Message)  BY <1>1, RequestTyped
  <1>3. <<>> \in Seq(Message)  OBVIOUS
  <1>4. \A r \in Relays : Closing(i, r) \in Seq(Message)  BY ClosingTyped
  <1> HIDE DEF Closing, Request, Reuses
  <1> QED  BY <1>2, <1>3, <1>4 DEF Requests

LEMMA DetachTyped ==
  ASSUME Traffic, NEW i \in Instances, DetachSession(i)
  PROVE  toRelay' \in [Instances -> [Relays -> Seq(Message)]]
  <1>1. CASE UNCHANGED toRelay  BY <1>1 DEF Traffic
  <1>2. CASE toRelay' = [toRelay EXCEPT ![i] = [r \in Relays |-> @[r] \o Closing(i, r)]]
    <2>1. \A r \in Relays : toRelay[i][r] \o Closing(i, r) \in Seq(Message)
      <3> SUFFICES ASSUME NEW r \in Relays  PROVE toRelay[i][r] \o Closing(i, r) \in Seq(Message)
        OBVIOUS
      <3>1. toRelay[i][r] \in Seq(Message) /\ Closing(i, r) \in Seq(Message)
        BY ClosingTyped DEF Traffic
      <3> QED  BY <3>1
    <2> QED  BY <1>2, <2>1 DEF Traffic
  <1> QED  BY <1>1, <1>2 DEF DetachSession

LEMMA RelaySubscribesPushes ==
  ASSUME History, NEW i \in Instances, NEW r \in Relays, RelaySubscribes(i, r)
  PROVE  /\ toRelay' \in [Instances -> [Relays -> Seq(Message)]]
         /\ serves' \in [Relays -> [Instances -> Nat]]
         /\ \E add \in Seq(Delivery) :
                /\ fromRelay' = [fromRelay EXCEPT ![r][i] = @ \o add]
                /\ \A d \in ToSet(add) : d.event \in ToSet(kept[r])
  <1> DEFINE m == Head(toRelay[i][r])
  <1>1. toRelay[i][r] \in Seq(Message) /\ toRelay[i][r] # <<>> /\ IsRequest(m)
    BY DEF History, Traffic, RelaySubscribes
  <1>2. m \in Message /\ Tail(toRelay[i][r]) \in Seq(Message)
    BY <1>1, TailFacts
  <1>3. m.request \in Nat
    BY <1>1, <1>2, OwnIsNoRequest
  <1>4. /\ toRelay' \in [Instances -> [Relays -> Seq(Message)]]
        /\ serves' \in [Relays -> [Instances -> Nat]]
    BY <1>2, <1>3 DEF RelaySubscribes, History, Traffic
  <1>5. PICK list \in Seq(Own) : Push(r, i, list) /\ ToSet(list) \subseteq ToSet(kept[r])
    <2>1. kept[r] \in Seq(Own)  BY DEF History, Traffic
    <2>2. Reverse(kept[r]) \in Seq(Own) /\ ToSet(Reverse(kept[r])) \subseteq ToSet(kept[r])
      <3>1. Reverse(kept[r]) = [k \in 1 .. Len(kept[r]) |-> kept[r][(Len(kept[r]) - k) + 1]]
        BY DEF Reverse
      <3>2. \A k \in 1 .. Len(kept[r]) : (Len(kept[r]) - k) + 1 \in 1 .. Len(kept[r])
        BY <2>1
      <3>3. Reverse(kept[r]) \in Seq(Own)  BY <2>1, <3>1, <3>2
      <3>4. DOMAIN Reverse(kept[r]) = 1 .. Len(kept[r]) /\ DOMAIN kept[r] = 1 .. Len(kept[r])  BY <2>1, <3>1
      <3>5. \A k \in 1 .. Len(kept[r]) : Reverse(kept[r])[k] \in ToSet(kept[r])
        BY <3>1, <3>2, <3>4 DEF ToSet
      <3>6. ToSet(Reverse(kept[r])) \subseteq ToSet(kept[r])
        <4> SUFFICES ASSUME NEW x \in ToSet(Reverse(kept[r]))  PROVE x \in ToSet(kept[r])
          OBVIOUS
        <4>1. PICK k \in DOMAIN Reverse(kept[r]) : x = Reverse(kept[r])[k]  BY DEF ToSet
        <4> QED  BY <3>4, <3>5, <4>1
      <3> QED  BY <3>3, <3>6
    <2>3. <<>> \in Seq(Own) /\ ToSet(<<>>) = {}  BY DEF ToSet
    <2> QED  BY <2>1, <2>2, <2>3 DEF RelaySubscribes
  <1> DEFINE add == [k \in 1 .. Len(list) |-> [to |-> serves'[r][i], event |-> list[k]]]
  <1>6. Len(list) \in Nat /\ DOMAIN list = 1 .. Len(list) /\ \A k \in 1 .. Len(list) : list[k] \in Own
    OBVIOUS
  <1>7. add \in Seq(Delivery)
    <2>1. serves'[r][i] \in Nat  BY <1>4
    <2>2. \A k \in 1 .. Len(list) : [to |-> serves'[r][i], event |-> list[k]] \in Delivery
      BY <1>6, <2>1 DEF Delivery
    <2> QED  BY <1>6, <2>2
  <1>8. \A d \in ToSet(add) : d.event \in ToSet(kept[r])
    <2>1. \A k \in 1 .. Len(list) : add[k].event = list[k]  OBVIOUS
    <2>2. DOMAIN add = 1 .. Len(list)  OBVIOUS
    <2> HIDE DEF add
    <2>3. \A k \in 1 .. Len(list) : list[k] \in ToSet(kept[r])  BY <1>5, <1>6 DEF ToSet
    <2> SUFFICES ASSUME NEW d \in ToSet(add)  PROVE d.event \in ToSet(kept[r])
      OBVIOUS
    <2>4. PICK k \in DOMAIN add : d = add[k]  BY DEF ToSet
    <2> QED  BY <2>1, <2>2, <2>3, <2>4
  <1>9. fromRelay' = [fromRelay EXCEPT ![r][i] = @ \o add]
    BY <1>5 DEF Push
  <1> HIDE DEF add
  <1> QED  BY <1>4, <1>7, <1>8, <1>9

LEMMA RelaySubscribesTraffic ==
  ASSUME History, NEW i \in Instances, NEW r \in Relays, RelaySubscribes(i, r)
  PROVE  Traffic'
  <1>1. PICK add \in Seq(Delivery) : fromRelay' = [fromRelay EXCEPT ![r][i] = @ \o add]
    BY RelaySubscribesPushes
  <1>2. fromRelay[r][i] \o add \in Seq(Delivery)
    BY DEF History, Traffic
  <1>3. fromRelay' \in [Relays -> [Instances -> Seq(Delivery)]]
    BY <1>1, <1>2 DEF History, Traffic
  <1>4. kept' = kept  BY DEF RelaySubscribes
  <1> QED  BY <1>3, <1>4, RelaySubscribesPushes DEF History, Traffic

LEMMA RelayForwardsTraffic ==
  ASSUME History, NEW i \in Instances, NEW r \in Relays, RelayForwards(i, r)
  PROVE  Traffic'
  <1> DEFINE e == Head(toRelay[i][r])
             add(j) == [to |-> serves[r][j], event |-> e]
  <1>1. toRelay[i][r] \in Seq(Message) /\ toRelay[i][r] # <<>> /\ ~IsRequest(e)
    BY DEF History, Traffic, RelayForwards
  <1>2. e \in Message /\ Tail(toRelay[i][r]) \in Seq(Message)
    BY <1>1, TailFacts
  <1>3. e \in Own
    BY <1>1, <1>2, OwnIsNoRequest
  <1>4. toRelay' \in [Instances -> [Relays -> Seq(Message)]] /\ serves' = serves
    BY <1>2 DEF RelayForwards, History, Traffic
  <1> HIDE DEF e
  <1>5. kept' \in [Relays -> Seq(Own)]
    <2>1. kept[r] \in Seq(Own) /\ Append(kept[r], e) \in Seq(Own)
      BY <1>3 DEF History, Traffic
    <2> QED  BY <2>1 DEF RelayForwards, History, Traffic, e
  <1>6. \A j \in Instances : fromRelay[r][j] \in Seq(Delivery) /\ add(j) \in Delivery
    BY <1>3 DEF History, Traffic, Delivery
  <1> HIDE DEF add
  <1>7. \A j \in Instances : Append(fromRelay[r][j], add(j)) \in Seq(Delivery)
    BY <1>6
  <1>8. fromRelay' \in [Relays -> [Instances -> Seq(Delivery)]]
    BY <1>6, <1>7 DEF RelayForwards, add, e, History, Traffic
  <1> QED  BY <1>4, <1>5, <1>8 DEF History, Traffic

\* An event that is taken from its relay.
LEMMA HeadDelivery ==
  ASSUME Traffic, NEW i \in Instances, NEW r \in Relays, fromRelay[r][i] # <<>>, Dropped(r, i)
  PROVE  /\ Head(fromRelay[r][i]) \in Delivery /\ Head(fromRelay[r][i]).event \in Own
         /\ fromRelay' \in [Relays -> [Instances -> Seq(Delivery)]]
  <1>1. fromRelay[r][i] \in Seq(Delivery)  BY DEF Traffic
  <1>2. Head(fromRelay[r][i]) \in Delivery /\ Tail(fromRelay[r][i]) \in Seq(Delivery)
    BY <1>1, TailFacts
  <1>3. fromRelay' \in [Relays -> [Instances -> Seq(Delivery)]]
    BY <1>2 DEF Traffic, Dropped
  <1> QED  BY <1>2, <1>3 DEF Delivery

LEMMA HandleEventHistory ==
  ASSUME History, NEW i \in Instances, NEW r \in Relays, HandleEvent(r, i)
  PROVE  History'
  <1> DEFINE m == Head(fromRelay[r][i])
             e == m.event
             id == EventId(e)
  <1>1. /\ m \in Delivery /\ e \in Own
        /\ fromRelay' \in [Relays -> [Instances -> Seq(Delivery)]]
    BY HeadDelivery DEF HandleEvent, History
  <1>2. id \in Ids /\ e.by \in Instances /\ e.n \in 1 .. MaxSent /\ id[1] = e.by
    BY <1>1, OwnIds
  <1>3. /\ id \notin ToSet(seen[i]) /\ e.by # i /\ TrackSeen(i, e)
        /\ handled' = [handled EXCEPT ![i][id] = @ + 1]
        /\ newest' = [newest EXCEPT ![i][e.by] = IF e.n > @ THEN e.n ELSE @]
        /\ mishaps' \subseteq mishaps \cup {"overtaken", "limit"}
        /\ UNCHANGED <<subscribed, sent, toRelay, serves, kept>>
    BY DEF HandleEvent, New
  <1> HIDE DEF m
  <1>4. /\ seen' \in [Instances -> Seq(Ids)] /\ forgotten' \in [Instances -> SUBSET Ids]
        /\ \A j \in Instances : forgotten[j] \subseteq forgotten'[j]
        /\ \A j \in Instances : ToSet(seen[j]) \subseteq ToSet(seen'[j]) \cup forgotten'[j]
        /\ id \in ToSet(seen'[i])
    BY <1>2, <1>3, TrackSeenKeeps DEF History
  <1> HIDE DEF id
  <1>5. newest' \in [Instances -> [Instances -> Nat]]
    BY <1>2, <1>3 DEF History, Logs
  <1>6. /\ handled' \in [Instances -> [Ids -> Nat]]
        /\ handled'[i][id] = handled[i][id] + 1
        /\ \A j \in Instances : \A d \in Ids : j # i \/ d # id => handled'[j][d] = handled[j][d]
    BY <1>2, <1>3 DEF History, Logs
  <1>7. Logs'
    BY <1>3, <1>4, <1>5, <1>6 DEF History, Logs, Mishaps
  <1>8. HandledKept'
    <2> SUFFICES ASSUME NEW j \in Instances, NEW d \in Ids
                 PROVE  /\ handled'[j][d] > 0 => d[1] # j /\ d \in ToSet(seen'[j]) \cup forgotten'[j]
                        /\ handled'[j][d] > 1 => d \in forgotten'[j]
      BY DEF HandledKept
    <2>1. CASE j # i \/ d # id
      BY <1>4, <1>6, <2>1 DEF HandledKept, History
    <2>2. CASE j = i /\ d = id
      <3>1. handled[i][id] \in Nat  BY <1>2 DEF History, Logs
      <3>2. handled'[i][id] > 1 => handled[i][id] > 0  BY <1>6, <3>1
      <3>3. handled[i][id] > 0 => id \in forgotten[i]  BY <1>2, <1>3 DEF HandledKept, History
      <3> QED  BY <1>2, <1>3, <1>4, <2>2, <3>2, <3>3
    <2> QED  BY <2>1, <2>2
  <1>9. Traffic'
    BY <1>1, <1>3 DEF History, Traffic
  <1> QED  BY <1>7, <1>8, <1>9 DEF History

LEMMA HistoryStep == History /\ [Next]_vars => History'
  <1> SUFFICES ASSUME History, [Next]_vars  PROVE History'
    OBVIOUS
  <1>1. ASSUME NEW i \in Instances, Create(i)  PROVE History'
    BY <1>1 DEF Create, History, Traffic, Logs, HandledKept
  <1>2. ASSUME NEW i \in Instances, NEW p \in Peers, NEW hints \in Hints, Join(i, p, hints)
        PROVE  History'
    <2> DEFINE urls == RelayHints(i, hints)
               relays == ResolveRelays(urls)
    <2>1. /\ Home[p] = i /\ sent[i] < MaxSent
          /\ Publish(i, relays, Requests(i, relays), Event(i, "join", p, {}))
          /\ subscribed' = [subscribed EXCEPT ![i] = IF Reuses(i, relays) THEN @ ELSE @ + 1]
          /\ UNCHANGED <<waiting, serves, kept, fromRelay, handled, newest>>
      BY <1>2 DEF Join
    <2> HIDE DEF urls, relays
    <2>2. Requests(i, relays) \in [Relays -> Seq(Message)]
      BY RequestsTyped DEF History
    <2>3. subscribed' \in [Instances -> Nat]
      BY <2>1 DEF History, Logs
    <2>4. {} \in SUBSET Peers  OBVIOUS
    <2> QED  BY <2>1, <2>2, <2>3, <2>4, PublishKeeps
  <1>3. ASSUME NEW i \in Instances, NEW p \in Peers, Leave(i, p)  PROVE History'
    <2>1. /\ Home[p] = i
          /\ UNCHANGED <<sessions, subscription, subscribed, serves, kept, fromRelay, handled, newest>>
      BY <1>3 DEF Leave
    <2>2. CASE UNCHANGED <<transport, waiting, seen, sent, toRelay, forgotten, mishaps>>
      BY <2>1, <2>2 DEF History, Traffic, Logs, HandledKept
    <2>3. CASE /\ sent[i] < MaxSent
               /\ Publish(i, ResolveRelays(SessionRelays(i)), NoRequests, Event(i, "leave", p, {}))
      <3>1. subscribed' \in [Instances -> Nat]  BY <2>1 DEF History, Logs
      <3>2. {} \in SUBSET Peers  OBVIOUS
      <3> QED  BY <2>1, <2>3, <3>1, <3>2, NoRequestsTyped, PublishKeeps
    <2> QED  BY <1>3, <2>2, <2>3 DEF Leave
  <1>4. ASSUME NEW i \in Instances, NEW p \in Peers, NEW target \in SUBSET Peers, NEW hints \in Hints,
               SendSignal(i, p, target, hints)
        PROVE  History'
    <2>1. /\ Home[p] = i /\ sent[i] < MaxSent
          /\ Publish(i, ResolveRelays(RelayHints(i, hints)), NoRequests, Event(i, "signal", p, target))
          /\ UNCHANGED <<subscribed, serves, kept, fromRelay, handled, newest>>
      BY <1>4 DEF SendSignal
    <2>2. subscribed' \in [Instances -> Nat]  BY <2>1 DEF History, Logs
    <2> QED  BY <2>1, <2>2, NoRequestsTyped, PublishKeeps
  <1>5. ASSUME NEW i \in Instances, LeaveEnds(i)  PROVE History'
    <2>1. UNCHANGED <<subscribed, seen, sent, serves, kept, fromRelay, handled, newest, forgotten>>
      BY <1>5 DEF LeaveEnds, PeerRetained, LastLeft, LateLeft
    <2>2. UNCHANGED toRelay \/ DetachSession(i)
      BY <1>5 DEF LeaveEnds, PeerRetained, LastLeft, LateLeft
    <2>3. mishaps' \subseteq mishaps \cup {"removed"}
      BY <1>5 DEF LeaveEnds, PeerRetained, LastLeft, LateLeft
    <2>4. toRelay' \in [Instances -> [Relays -> Seq(Message)]]
      BY <2>2, DetachTyped DEF History, Traffic
    <2> QED  BY <2>1, <2>3, <2>4 DEF History, Traffic, Logs, HandledKept, Mishaps
  <1>6. ASSUME NEW i \in Instances, NEW r \in Relays, RelaySubscribes(i, r)  PROVE History'
    <2>1. UNCHANGED <<subscribed, seen, sent, handled, newest, forgotten, mishaps>>
      BY <1>6 DEF RelaySubscribes
    <2> QED  BY <1>6, <2>1, RelaySubscribesTraffic DEF History, Logs, HandledKept
  <1>7. ASSUME NEW i \in Instances, NEW r \in Relays, RelayForwards(i, r)  PROVE History'
    <2>1. UNCHANGED <<subscribed, seen, sent, handled, newest, forgotten, mishaps>>
      BY <1>7 DEF RelayForwards
    <2> QED  BY <1>7, <2>1, RelayForwardsTraffic DEF History, Logs, HandledKept
  <1>8. ASSUME NEW i \in Instances, NEW r \in Relays, IgnoreEvent(r, i)  PROVE History'
    <2>1. /\ UNCHANGED <<subscribed, seen, sent, toRelay, serves, kept, handled, newest, forgotten>>
          /\ mishaps' \subseteq mishaps \cup {"gap"}
          /\ fromRelay[r][i] # <<>> /\ Dropped(r, i)
      BY <1>8 DEF IgnoreEvent
    <2>2. fromRelay' \in [Relays -> [Instances -> Seq(Delivery)]]
      BY <2>1, HeadDelivery DEF History
    <2> QED  BY <2>1, <2>2 DEF History, Traffic, Logs, HandledKept, Mishaps
  <1>9. CASE UNCHANGED vars
    BY <1>9 DEF vars, History, Traffic, Logs, HandledKept
  <1> QED
    BY <1>1, <1>2, <1>3, <1>4, <1>5, <1>6, <1>7, <1>8, <1>9, HandleEventHistory
    DEF Next, Command, Network

LEMMA HistoryInit == Init => History
  <1> SUFFICES ASSUME Init  PROVE History
    OBVIOUS
  <1>1. Traffic
    <2>1. <<>> \in Seq(Message) /\ <<>> \in Seq(Own) /\ <<>> \in Seq(Delivery)  OBVIOUS
    <2> QED  BY <2>1 DEF Init, Traffic
  <1>2. Logs
    <2>1. <<>> \in Seq(Ids)  OBVIOUS
    <2> QED  BY <2>1, BoundsAssumption DEF Init, Logs, Ids
  <1>3. HandledKept
    BY DEF Init, HandledKept, Ids
  <1> QED  BY <1>1, <1>2, <1>3 DEF History

\* HandledOnce: an event is handled once until its id is forgotten, and never
\* by the worker that published it.
THEOREM EventsHandledOnce == Spec => []HandledOnce
  <1>1. History => HandledOnce
    <2> SUFFICES ASSUME History, NEW i \in Instances, NEW j \in Instances, NEW n \in 1 .. MaxSent
                 PROVE  /\ handled[i][<<i, n>>] = 0
                        /\ handled[i][<<j, n>>] <= 1 \/ <<j, n>> \in forgotten[i]
      BY DEF HandledOnce
    <2>1. <<i, n>> \in Ids /\ <<j, n>> \in Ids /\ <<i, n>>[1] = i  BY DEF Ids
    <2>2. handled[i][<<i, n>>] \in Nat /\ handled[i][<<j, n>>] \in Nat
      BY <2>1 DEF History, Logs
    <2> QED  BY <2>1, <2>2 DEF History, HandledKept
  <1> QED  BY <1>1, HistoryInit, HistoryStep, PTL DEF Spec

-----------------------------------------------------------------------------
(* The records of a worker: transport state, subscription and leaves       *)
Homed(i) == {p \in Peers : Home[p] = i}

Transports ==
    /\ transport = [i \in Instances |-> transport[i]]
    /\ \A i \in Instances : transport[i] # None =>
           /\ transport[i] = [localPeerIds |-> transport[i].localPeerIds, relayUrls |-> transport[i].relayUrls]
           /\ transport[i].localPeerIds \subseteq Homed(i)

Subscriptions ==
    /\ subscription = [i \in Instances |-> subscription[i]]
    /\ \A i \in Instances : Subscribed(i) =>
           /\ subscription[i] = [relays |-> subscription[i].relays, refCount |-> subscription[i].refCount,
                                 id |-> subscription[i].id]
           /\ subscription[i].refCount \in 1 .. sent[i]
           /\ subscription[i].id \in 1 .. subscribed[i]

Leaving ==
    /\ waiting \in [Instances -> [current : Nat, gone : Nat]]
    /\ \A i \in Instances : /\ waiting[i].current + waiting[i].gone <= sent[i]
                            /\ waiting[i].current > 0 => transport[i] # None

Listing ==
    /\ sessions \subseteq Instances
    /\ participants \in [Instances -> SUBSET Peers]
    /\ joined \subseteq Peers

Records == Listing /\ Transports /\ Subscriptions /\ Leaving

LEMMA NoneIsNoRecord ==
  /\ \A a, b : [localPeerIds |-> a, relayUrls |-> b] # None
  /\ \A a, b, d : [relays |-> a, refCount |-> b, id |-> d] # None
  <1>1. DOMAIN None = {"none"}  BY DEF None
  <1>2. \A a, b : DOMAIN [localPeerIds |-> a, relayUrls |-> b] = {"localPeerIds", "relayUrls"}  OBVIOUS
  <1>3. \A a, b, d : DOMAIN [relays |-> a, refCount |-> b, id |-> d] = {"relays", "refCount", "id"}  OBVIOUS
  <1> QED  BY <1>1, <1>2, <1>3

LEMMA ChangedPeers ==
  ASSUME NEW i \in Instances, NEW e \in Own, participants[i] \subseteq Peers
  PROVE  /\ Changed(i, e) \subseteq Peers
         /\ participants[i] \ {e.peer} \subseteq Changed(i, e)
         /\ e.type # "leave" => participants[i] \subseteq Changed(i, e)
  <1>1. e.type \in {"join", "leave", "signal"} /\ e.peer \in Peers /\ e.target \subseteq Peers
    BY OwnIds
  <1>2. participants[i] \subseteq AddPeers(i, e) /\ AddPeers(i, e) \subseteq Peers
    BY <1>1 DEF AddPeers
  <1> QED  BY <1>1, <1>2 DEF Changed

LEMMA PublishCounts ==
  ASSUME Logs, NEW i \in Instances, NEW relays, NEW asks, NEW e, Publish(i, relays, asks, e)
  PROVE  /\ sent' = [sent EXCEPT ![i] = @ + 1] /\ sent'[i] = sent[i] + 1
         /\ \A j \in Instances : sent[j] \in Nat /\ sent[j] <= sent'[j]
         /\ mishaps' \subseteq mishaps \cup {"lost"} /\ mishaps \subseteq mishaps'
  BY BoundsAssumption DEF Publish, Logs

LEMMA AttachKeeps ==
  ASSUME Logs, Subscriptions, NEW i \in Instances, NEW relays, Attach(i, relays),
         sent' = [sent EXCEPT ![i] = @ + 1],
         subscribed' = [subscribed EXCEPT ![i] = IF Reuses(i, relays) THEN @ ELSE @ + 1]
  PROVE  /\ Subscriptions'
         /\ subscription'[i] # None /\ subscription'[i].relays = relays
         /\ \A j \in Instances \ {i} : subscription'[j] = subscription[j]
  <1> DEFINE new == IF Reuses(i, relays) THEN [subscription[i] EXCEPT !.refCount = @ + 1]
                    ELSE [relays |-> relays, refCount |-> 1, id |-> subscribed[i] + 1]
  <1>1. subscription' = [subscription EXCEPT ![i] = new]
    BY DEF Attach
  <1>2. sent[i] \in Nat /\ subscribed[i] \in Nat
    BY BoundsAssumption DEF Logs
  <1>3. sent'[i] = sent[i] + 1 /\ \A j \in Instances \ {i} : sent'[j] = sent[j]
    BY DEF Logs
  <1>4. \A j \in Instances \ {i} : subscribed'[j] = subscribed[j]
    BY DEF Logs
  <1>5. /\ new # None /\ new = [relays |-> relays, refCount |-> new.refCount, id |-> new.id]
        /\ new.refCount \in 1 .. sent'[i] /\ new.id \in 1 .. subscribed'[i] /\ new.relays = relays
    <2>1. CASE Reuses(i, relays)
      <3>1. /\ subscription[i] = [relays |-> relays, refCount |-> subscription[i].refCount,
                                  id |-> subscription[i].id]
            /\ subscription[i].refCount \in 1 .. sent[i] /\ subscription[i].id \in 1 .. subscribed[i]
        BY <2>1 DEF Subscriptions, Reuses
      <3>2. new = [relays |-> relays, refCount |-> subscription[i].refCount + 1, id |-> subscription[i].id]
        BY <2>1, <3>1
      <3>3. subscribed'[i] = subscribed[i]  BY <2>1 DEF Logs
      <3> HIDE DEF new
      <3> QED  BY <1>2, <1>3, <3>1, <3>2, <3>3, NoneIsNoRecord
    <2>2. CASE ~Reuses(i, relays)
      <3>1. new = [relays |-> relays, refCount |-> 1, id |-> subscribed[i] + 1]
        BY <2>2
      <3>2. subscribed'[i] = subscribed[i] + 1  BY <2>2 DEF Logs
      <3> HIDE DEF new
      <3> QED  BY <1>2, <1>3, <3>1, <3>2, NoneIsNoRecord
    <2> QED  BY <2>1, <2>2
  <1> HIDE DEF new
  <1>6. subscription' = [j \in Instances |-> subscription'[j]] /\ subscription'[i] = new
        /\ \A j \in Instances \ {i} : subscription'[j] = subscription[j]
    BY <1>1 DEF Subscriptions
  <1>7. ASSUME NEW j \in Instances, subscription'[j] # None
        PROVE  /\ subscription'[j] = [relays |-> subscription'[j].relays, refCount |-> subscription'[j].refCount,
                                     id |-> subscription'[j].id]
               /\ subscription'[j].refCount \in 1 .. sent'[j]
               /\ subscription'[j].id \in 1 .. subscribed'[j]
    <2>1. CASE j = i  BY <1>5, <1>6, <2>1
    <2>2. CASE j # i  BY <1>3, <1>4, <1>6, <1>7, <2>2 DEF Subscriptions, Subscribed
    <2> QED  BY <2>1, <2>2
  <1> QED  BY <1>5, <1>6, <1>7 DEF Subscriptions, Subscribed

LEMMA DetachKeeps ==
  ASSUME Logs, Subscriptions, NEW i \in Instances, DetachSession(i), UNCHANGED <<sent, subscribed>>
  PROVE  Subscriptions' /\ \A j \in Instances \ {i} : subscription'[j] = subscription[j]
  <1>1. CASE UNCHANGED subscription
    BY <1>1 DEF Subscriptions, Subscribed
  <1>2. CASE subscription' = [subscription EXCEPT ![i] = None]
    BY <1>2 DEF Subscriptions, Subscribed
  <1>3. CASE /\ Subscribed(i) /\ subscription[i].refCount > 1
             /\ subscription' = [subscription EXCEPT ![i].refCount = @ - 1]
    <2> DEFINE s == subscription[i]
               new == [relays |-> s.relays, refCount |-> s.refCount - 1, id |-> s.id]
    <2>1. /\ s = [relays |-> s.relays, refCount |-> s.refCount, id |-> s.id]
          /\ s.refCount \in 1 .. sent[i] /\ s.id \in 1 .. subscribed[i] /\ sent[i] \in Nat
      BY <1>3, BoundsAssumption DEF Subscriptions, Logs
    <2>2. [s EXCEPT !.refCount = @ - 1] = new  BY <2>1
    <2>3. /\ subscription' = [j \in Instances |-> subscription'[j]]
          /\ subscription'[i] = [s EXCEPT !.refCount = @ - 1]
          /\ \A j \in Instances \ {i} : subscription'[j] = subscription[j]
      BY <1>3 DEF Subscriptions
    <2>4. new.refCount \in 1 .. sent[i]  BY <1>3, <2>1
    <2>5. \A j \in Instances : subscription'[j] # None =>
               /\ subscription'[j] = [relays |-> subscription'[j].relays,
                                      refCount |-> subscription'[j].refCount, id |-> subscription'[j].id]
               /\ subscription'[j].refCount \in 1 .. sent[j]
               /\ subscription'[j].id \in 1 .. subscribed[j]
      BY <2>1, <2>2, <2>3, <2>4 DEF Subscriptions, Subscribed
    <2> QED  BY <2>3, <2>5 DEF Subscriptions, Subscribed
  <1> QED  BY <1>1, <1>2, <1>3 DEF DetachSession

\* A step that leaves the records of peers, subscriptions and leaves alone.
LEMMA RecordsKept ==
  ASSUME Records, LocalsSubscribed, mishaps \subseteq mishaps',
         sessions \subseteq sessions', sessions' \subseteq Instances,
         participants' \in [Instances -> SUBSET Peers],
         \A i \in Instances : \A p \in participants[i] : Home[p] = i => p \in participants'[i],
         UNCHANGED <<transport, subscription, subscribed, waiting, joined>>,
         \A i \in Instances : sent[i] \in Nat /\ sent'[i] \in Nat /\ sent[i] <= sent'[i]
  PROVE  Records' /\ LocalsSubscribed'
  <1>1. Listing' /\ Transports'
    BY DEF Records, Listing, Transports
  <1>2. Subscriptions'
    BY DEF Records, Subscriptions, Subscribed
  <1>3. Leaving'
    BY DEF Records, Leaving
  <1>4. LocalsSubscribed'
    <2> SUFFICES ASSUME "removed" \notin mishaps', NEW p \in joined
                 PROVE  /\ Home[p] \in sessions' /\ p \in participants'[Home[p]]
                        /\ transport[Home[p]] # None /\ p \in transport[Home[p]].localPeerIds
                        /\ Subscribed(Home[p])
                        /\ subscription[Home[p]].relays = ResolveRelays(transport[Home[p]].relayUrls)
      BY DEF LocalsSubscribed, Subscribed
    <2>1. p \in Peers /\ Home[p] \in Instances
      BY InstancesAssumption DEF Records, Listing
    <2> QED  BY <2>1 DEF LocalsSubscribed
  <1> QED  BY <1>1, <1>2, <1>3, <1>4 DEF Records

LEMMA RecordsJoin ==
  ASSUME Logs, Records, LocalsSubscribed, NEW i \in Instances, NEW p \in Peers, NEW hints, Join(i, p, hints)
  PROVE  Records' /\ LocalsSubscribed'
  <1> DEFINE urls == RelayHints(i, hints)
             relays == ResolveRelays(urls)
             peers == IF transport[i] = None THEN {} ELSE transport[i].localPeerIds
             new == [localPeerIds |-> peers \cup {p}, relayUrls |-> urls]
  <1>1. /\ Home[p] = i
        /\ sessions' = sessions \cup {i}
        /\ participants' = [participants EXCEPT ![i] = @ \cup {p}]
        /\ transport' = [transport EXCEPT ![i] = new]
        /\ Attach(i, relays)
        /\ subscribed' = [subscribed EXCEPT ![i] = IF Reuses(i, relays) THEN @ ELSE @ + 1]
        /\ Publish(i, relays, Requests(i, relays), Event(i, "join", p, {}))
        /\ joined' = joined \cup {p}
        /\ waiting' = waiting
    BY DEF Join
  <1>2. /\ sent' = [sent EXCEPT ![i] = @ + 1] /\ mishaps \subseteq mishaps'
        /\ \A j \in Instances : sent[j] \in Nat /\ sent[j] <= sent'[j]
    BY <1>1, PublishCounts
  <1>3. peers \subseteq Homed(i)
    BY DEF Records, Transports
  <1> HIDE DEF urls, relays, peers
  <1>4. /\ Subscriptions' /\ subscription'[i] # None /\ subscription'[i].relays = relays
        /\ \A j \in Instances \ {i} : subscription'[j] = subscription[j]
    BY <1>1, <1>2, AttachKeeps DEF Records
  <1>5. new # None /\ new.localPeerIds = peers \cup {p} /\ new.relayUrls = urls
        /\ new = [localPeerIds |-> new.localPeerIds, relayUrls |-> new.relayUrls]
    BY NoneIsNoRecord
  <1>6. new.localPeerIds \subseteq Homed(i)
    BY <1>1, <1>3, <1>5 DEF Homed
  <1> HIDE DEF new
  <1>7. /\ transport' = [j \in Instances |-> transport'[j]] /\ transport'[i] = new
        /\ \A j \in Instances \ {i} : transport'[j] = transport[j]
    BY <1>1 DEF Records, Transports
  <1>8. Transports'
    BY <1>5, <1>6, <1>7 DEF Records, Transports
  <1>9. Listing'
    BY <1>1 DEF Records, Listing
  <1>10. Leaving'
    <2>1. waiting' \in [Instances -> [current : Nat, gone : Nat]]
      BY <1>1 DEF Records, Leaving
    <2>2. ASSUME NEW j \in Instances
          PROVE  waiting'[j].current + waiting'[j].gone <= sent'[j]
      <3>1. waiting[j].current + waiting[j].gone <= sent[j] /\ waiting'[j] = waiting[j]
            /\ waiting[j].current \in Nat /\ waiting[j].gone \in Nat
        BY <1>1 DEF Records, Leaving
      <3>2. sent[j] \in Nat /\ sent[j] <= sent'[j] /\ sent'[j] \in Nat
        BY <1>2
      <3> QED  BY <3>1, <3>2
    <2>3. \A j \in Instances : waiting'[j].current > 0 => transport'[j] # None
      BY <1>1, <1>5, <1>7 DEF Records, Leaving
    <2> QED  BY <2>1, <2>2, <2>3 DEF Leaving
  <1>11. LocalsSubscribed'
    <2> SUFFICES ASSUME "removed" \notin mishaps', NEW q \in joined'
                 PROVE  /\ Home[q] \in sessions' /\ q \in participants'[Home[q]]
                        /\ transport'[Home[q]] # None /\ q \in transport'[Home[q]].localPeerIds
                        /\ subscription'[Home[q]] # None
                        /\ subscription'[Home[q]].relays = ResolveRelays(transport'[Home[q]].relayUrls)
      BY DEF LocalsSubscribed, Subscribed
    <2>1. q \in Peers /\ Home[q] \in Instances
      BY <1>9, InstancesAssumption DEF Listing
    <2>2. participants'[i] = participants[i] \cup {p}
          /\ \A j \in Instances \ {i} : participants'[j] = participants[j]
      BY <1>1 DEF Records, Listing
    <2>3. CASE q = p
      BY <1>1, <1>4, <1>5, <1>7, <2>2, <2>3 DEF relays
    <2>4. CASE q # p
      <3>1. q \in joined /\ "removed" \notin mishaps  BY <1>1, <1>2, <2>4
      <3>2. /\ Home[q] \in sessions /\ q \in participants[Home[q]]
            /\ transport[Home[q]] # None /\ q \in transport[Home[q]].localPeerIds
            /\ Subscribed(Home[q])
            /\ subscription[Home[q]].relays = ResolveRelays(transport[Home[q]].relayUrls)
        BY <3>1 DEF LocalsSubscribed
      <3>3. CASE Home[q] = i
        BY <1>1, <1>4, <1>5, <1>7, <2>2, <3>2, <3>3 DEF relays, peers
      <3>4. CASE Home[q] # i
        BY <1>1, <1>4, <1>7, <2>1, <2>2, <3>2, <3>4 DEF Subscribed
      <3> QED  BY <3>3, <3>4
    <2> QED  BY <2>3, <2>4
  <1> QED  BY <1>4, <1>8, <1>9, <1>10, <1>11 DEF Records

LEMMA LeaveRecords ==
  ASSUME Logs, Records, LocalsSubscribed, NEW i \in Instances, NEW p \in Peers, Leave(i, p)
  PROVE  Records' /\ LocalsSubscribed'
  <1>1. /\ Home[p] = i /\ joined' = joined \ {p}
        /\ participants' = [participants EXCEPT ![i] = @ \ {p}]
        /\ UNCHANGED <<sessions, subscription, subscribed>>
    BY DEF Leave
  <1>2. participants'[i] = participants[i] \ {p} /\ Listing'
        /\ \A j \in Instances \ {i} : participants'[j] = participants[j]
    BY <1>1 DEF Records, Listing
  <1>3. CASE UNCHANGED <<transport, waiting, seen, sent, toRelay, forgotten, mishaps>>
    <2>1. Transports' /\ Subscriptions' /\ Leaving'
      BY <1>1, <1>3 DEF Records, Transports, Subscriptions, Leaving, Subscribed
    <2>2. LocalsSubscribed'
      <3> SUFFICES ASSUME "removed" \notin mishaps, NEW q \in joined \ {p}
                   PROVE  /\ Home[q] \in sessions /\ q \in participants'[Home[q]]
                          /\ transport[Home[q]] # None /\ q \in transport[Home[q]].localPeerIds
                          /\ Subscribed(Home[q])
                          /\ subscription[Home[q]].relays = ResolveRelays(transport[Home[q]].relayUrls)
        BY <1>1, <1>3 DEF LocalsSubscribed, Subscribed
      <3>1. Home[q] \in Instances
        BY InstancesAssumption DEF Records, Listing
      <3> QED  BY <1>2, <3>1 DEF LocalsSubscribed
    <2> QED  BY <1>2, <2>1, <2>2 DEF Records
  <1>4. CASE /\ transport[i] # None
             /\ transport' = [transport EXCEPT ![i].localPeerIds = @ \ {p}]
             /\ Publish(i, ResolveRelays(SessionRelays(i)), NoRequests, Event(i, "leave", p, {}))
             /\ waiting' = [waiting EXCEPT ![i].current = @ + 1]
    <2>1. /\ sent' = [sent EXCEPT ![i] = @ + 1] /\ sent'[i] = sent[i] + 1
          /\ \A j \in Instances : sent[j] \in Nat /\ sent[j] <= sent'[j]
          /\ mishaps \subseteq mishaps'
      BY <1>4, PublishCounts
    <2> DEFINE t == transport[i]
               new == [localPeerIds |-> t.localPeerIds \ {p}, relayUrls |-> t.relayUrls]
    <2>2. t = [localPeerIds |-> t.localPeerIds, relayUrls |-> t.relayUrls] /\ t.localPeerIds \subseteq Homed(i)
      BY <1>4 DEF Records, Transports
    <2>3. [t EXCEPT !.localPeerIds = @ \ {p}] = new /\ new # None
          /\ new.localPeerIds = t.localPeerIds \ {p} /\ new.relayUrls = t.relayUrls
      BY <2>2, NoneIsNoRecord
    <2>4. /\ transport' = [j \in Instances |-> transport'[j]]
          /\ transport'[i] = [t EXCEPT !.localPeerIds = @ \ {p}]
          /\ \A j \in Instances \ {i} : transport'[j] = transport[j]
      BY <1>4 DEF Records, Transports
    <2> HIDE DEF new
    <2>5. Transports'
      <3>1. new = [localPeerIds |-> new.localPeerIds, relayUrls |-> new.relayUrls]  BY DEF new
      <3> QED  BY <2>2, <2>3, <2>4, <3>1 DEF Records, Transports
    <2>6. Subscriptions'
      <3>1. ASSUME NEW j \in Instances, subscription[j] # None  PROVE subscription[j].refCount \in 1 .. sent'[j]
        BY <2>1, <3>1 DEF Records, Subscriptions, Subscribed
      <3> QED  BY <1>1, <3>1 DEF Records, Subscriptions, Subscribed
    <2>7. Leaving'
      <3>1. waiting' \in [Instances -> [current : Nat, gone : Nat]]
            /\ waiting'[i].current = waiting[i].current + 1 /\ waiting'[i].gone = waiting[i].gone
            /\ \A j \in Instances \ {i} : waiting'[j] = waiting[j]
        BY <1>4 DEF Records, Leaving
      <3>2. ASSUME NEW j \in Instances
            PROVE  waiting'[j].current + waiting'[j].gone <= sent'[j]
        <4>1. /\ waiting[j].current + waiting[j].gone <= sent[j]
              /\ waiting[j].current \in Nat /\ waiting[j].gone \in Nat
          BY DEF Records, Leaving
        <4>2. sent[j] \in Nat /\ (j # i => sent'[j] = sent[j])  BY <2>1
        <4> QED  BY <2>1, <3>1, <4>1, <4>2
      <3>3. \A j \in Instances : waiting'[j].current > 0 => transport'[j] # None
        BY <2>3, <2>4, <3>1 DEF Records, Leaving
      <3> QED  BY <3>1, <3>2, <3>3 DEF Leaving
    <2>8. LocalsSubscribed'
      <3> SUFFICES ASSUME "removed" \notin mishaps', NEW q \in joined \ {p}
                   PROVE  /\ Home[q] \in sessions /\ q \in participants'[Home[q]]
                          /\ transport'[Home[q]] # None /\ q \in transport'[Home[q]].localPeerIds
                          /\ Subscribed(Home[q])
                          /\ subscription[Home[q]].relays = ResolveRelays(transport'[Home[q]].relayUrls)
        BY <1>1 DEF LocalsSubscribed, Subscribed
      <3>1. Home[q] \in Instances
        BY InstancesAssumption DEF Records, Listing
      <3>2. /\ Home[q] \in sessions /\ q \in participants[Home[q]]
            /\ transport[Home[q]] # None /\ q \in transport[Home[q]].localPeerIds
            /\ Subscribed(Home[q])
            /\ subscription[Home[q]].relays = ResolveRelays(transport[Home[q]].relayUrls)
        BY <2>1 DEF LocalsSubscribed
      <3>3. CASE Home[q] = i  BY <1>2, <2>3, <2>4, <3>1, <3>2, <3>3
      <3>4. CASE Home[q] # i  BY <1>2, <2>4, <3>1, <3>2, <3>4
      <3> QED  BY <3>3, <3>4
    <2> QED  BY <1>2, <2>5, <2>6, <2>7, <2>8 DEF Records
  <1> QED  BY <1>3, <1>4 DEF Leave

\* The record of i goes, with the subscription or without.
LEMMA RemovedRecords ==
  ASSUME Logs, Records, LocalsSubscribed, NEW i \in Instances,
         transport[i] # None => transport[i].localPeerIds = {} \/ "removed" \in mishaps',
         waiting[i].current + waiting[i].gone > 0,
         transport' = [transport EXCEPT ![i] = None],
         DetachSession(i),
         waiting' = [waiting EXCEPT ![i] = [current |-> 0, gone |-> @.gone + @.current - 1]],
         mishaps \subseteq mishaps',
         UNCHANGED <<sessions, participants, subscribed, sent, joined>>
  PROVE  Records' /\ LocalsSubscribed'
  <1>1. Subscriptions' /\ \A j \in Instances \ {i} : subscription'[j] = subscription[j]
    BY DetachKeeps DEF Records
  <1>2. Listing' /\ Transports'
    BY DEF Records, Listing, Transports
  <1>3. Leaving'
    <2>1. waiting[i].current \in Nat /\ waiting[i].gone \in Nat /\ sent[i] \in Nat
          /\ waiting[i].current + waiting[i].gone <= sent[i]
      BY BoundsAssumption DEF Records, Leaving, Logs
    <2> DEFINE new == [current |-> 0, gone |-> waiting[i].gone + waiting[i].current - 1]
    <2>2. new.gone \in Nat /\ new.current = 0 /\ new.current + new.gone <= sent[i]
      BY <2>1
    <2>3. new \in [current : Nat, gone : Nat]
      BY <2>2
    <2> HIDE DEF new
    <2>4. waiting' \in [Instances -> [current : Nat, gone : Nat]] /\ waiting'[i] = new
          /\ \A j \in Instances \ {i} : waiting'[j] = waiting[j]
      BY <2>3 DEF Records, Leaving, new
    <2>5. \A j \in Instances \ {i} : transport'[j] = transport[j]
      BY DEF Records, Transports
    <2> QED  BY <2>2, <2>4, <2>5 DEF Records, Leaving
  <1>4. LocalsSubscribed'
    <2> SUFFICES ASSUME "removed" \notin mishaps', NEW q \in joined
                 PROVE  /\ Home[q] \in sessions /\ q \in participants[Home[q]]
                        /\ transport'[Home[q]] # None /\ q \in transport'[Home[q]].localPeerIds
                        /\ subscription'[Home[q]] # None
                        /\ subscription'[Home[q]].relays = ResolveRelays(transport'[Home[q]].relayUrls)
      BY DEF LocalsSubscribed, Subscribed
    <2>1. Home[q] \in Instances
      BY InstancesAssumption DEF Records, Listing
    <2>2. /\ Home[q] \in sessions /\ q \in participants[Home[q]]
          /\ transport[Home[q]] # None /\ q \in transport[Home[q]].localPeerIds
          /\ Subscribed(Home[q])
          /\ subscription[Home[q]].relays = ResolveRelays(transport[Home[q]].relayUrls)
      BY DEF LocalsSubscribed
    <2>3. Home[q] # i  BY <2>2
    <2>4. transport'[Home[q]] = transport[Home[q]]  BY <2>1, <2>3 DEF Records, Transports
    <2> QED  BY <1>1, <2>1, <2>2, <2>3, <2>4 DEF Subscribed
  <1> QED  BY <1>1, <1>2, <1>3, <1>4 DEF Records

LEMMA RecordsStep ==
  ASSUME History, Records, LocalsSubscribed, [Next]_vars
  PROVE  Records' /\ LocalsSubscribed'
  <1> USE DEF History
  <1>1. ASSUME sent' = sent  PROVE \A i \in Instances : sent[i] \in Nat /\ sent'[i] \in Nat /\ sent[i] <= sent'[i]
    BY <1>1, BoundsAssumption DEF Logs
  <1>2. ASSUME NEW i \in Instances, Create(i)  PROVE Records' /\ LocalsSubscribed'
    <2>1. /\ sessions' = sessions \cup {i} /\ sent' = sent
          /\ UNCHANGED <<participants, transport, subscription, subscribed, waiting, joined, mishaps>>
      BY <1>2 DEF Create
    <2>2. sessions' \subseteq Instances /\ participants' \in [Instances -> SUBSET Peers]
      BY <2>1 DEF Records, Listing
    <2> QED  BY <1>1, <2>1, <2>2, RecordsKept
  <1>3. ASSUME NEW i \in Instances, NEW p \in Peers, NEW target \in SUBSET Peers, NEW hints,
               SendSignal(i, p, target, hints)
        PROVE  Records' /\ LocalsSubscribed'
    <2>1. /\ Publish(i, ResolveRelays(RelayHints(i, hints)), NoRequests, Event(i, "signal", p, target))
          /\ sent[i] < MaxSent
          /\ UNCHANGED <<sessions, participants, transport, subscription, subscribed, waiting, joined>>
      BY <1>3 DEF SendSignal
    <2>2. /\ mishaps \subseteq mishaps'
          /\ \A j \in Instances : sent[j] \in Nat /\ sent[j] <= sent'[j]
          /\ sent' = [sent EXCEPT ![i] = @ + 1]
      BY <2>1, PublishCounts
    <2>3. \A j \in Instances : sent'[j] \in Nat
      BY <2>2 DEF Logs
    <2>4. sessions' \subseteq Instances /\ participants' \in [Instances -> SUBSET Peers]
      BY <2>1 DEF Records, Listing
    <2> QED  BY <2>1, <2>2, <2>3, <2>4, RecordsKept
  <1>4. ASSUME NEW i \in Instances, LeaveEnds(i)  PROVE Records' /\ LocalsSubscribed'
    <2>1. waiting[i].current \in Nat /\ waiting[i].gone \in Nat
      BY DEF Records, Leaving
    <2>2. CASE PeerRetained(i)
      <3>1. /\ waiting[i].current > 0 /\ waiting' = [waiting EXCEPT ![i].current = @ - 1]
            /\ UNCHANGED <<sessions, participants, transport, subscription, subscribed, sent, joined, mishaps>>
        BY <2>2 DEF PeerRetained
      <3>2. Listing' /\ Transports' /\ Subscriptions'
        BY <3>1 DEF Records, Listing, Transports, Subscriptions, Subscribed
      <3>3. LocalsSubscribed'
        BY <3>1 DEF LocalsSubscribed, Subscribed
      <3>4. /\ waiting' \in [Instances -> [current : Nat, gone : Nat]]
            /\ waiting'[i].current = waiting[i].current - 1 /\ waiting'[i].gone = waiting[i].gone
            /\ \A j \in Instances \ {i} : waiting'[j] = waiting[j]
        BY <2>1, <3>1 DEF Records, Leaving
      <3>5. ASSUME NEW j \in Instances  PROVE waiting'[j].current + waiting'[j].gone <= sent[j]
        <4>1. /\ waiting[j].current \in Nat /\ waiting[j].gone \in Nat /\ sent[j] \in Nat
              /\ waiting[j].current + waiting[j].gone <= sent[j]
          BY BoundsAssumption DEF Records, Leaving, Logs
        <4> QED  BY <3>4, <4>1
      <3>6. \A j \in Instances : waiting'[j].current > 0 => transport[j] # None
        BY <2>1, <3>1, <3>4 DEF Records, Leaving
      <3> QED  BY <3>1, <3>2, <3>3, <3>4, <3>5, <3>6 DEF Records, Leaving
    <2>3. CASE LastLeft(i)
      <3>1. waiting[i].current + waiting[i].gone > 0  BY <2>1, <2>3 DEF LastLeft
      <3>2. /\ transport[i].localPeerIds = {} /\ transport' = [transport EXCEPT ![i] = None]
            /\ DetachSession(i)
            /\ waiting' = [waiting EXCEPT ![i] = [current |-> 0, gone |-> @.gone + @.current - 1]]
            /\ UNCHANGED <<sessions, participants, subscribed, sent, joined, mishaps>>
        BY <2>3 DEF LastLeft
      <3> QED  BY <3>1, <3>2, RemovedRecords
    <2>4. CASE LateLeft(i)
      <3>1. waiting[i].current + waiting[i].gone > 0  BY <2>1, <2>4 DEF LateLeft
      <3>2. /\ transport' = [transport EXCEPT ![i] = None]
            /\ DetachSession(i)
            /\ waiting' = [waiting EXCEPT ![i] = [current |-> 0, gone |-> @.gone + @.current - 1]]
            /\ mishaps' = mishaps \cup IF transport[i] = None THEN {} ELSE {"removed"}
            /\ UNCHANGED <<sessions, participants, subscribed, sent, joined>>
        BY <2>4 DEF LateLeft
      <3>3. transport[i] # None => "removed" \in mishaps'  BY <3>2
      <3> QED  BY <3>1, <3>2, <3>3, RemovedRecords
    <2> QED  BY <1>4, <2>2, <2>3, <2>4 DEF LeaveEnds
  <1>5. ASSUME NEW i \in Instances, NEW r \in Relays, RelaySubscribes(i, r) \/ RelayForwards(i, r)
        PROVE  Records' /\ LocalsSubscribed'
    <2>1. UNCHANGED <<sessions, participants, transport, subscription, subscribed, waiting, joined,
                      mishaps, sent>>
      BY <1>5 DEF RelaySubscribes, RelayForwards
    <2>2. sessions' \subseteq Instances /\ participants' \in [Instances -> SUBSET Peers]
      BY <2>1 DEF Records, Listing
    <2> QED  BY <1>1, <2>1, <2>2, RecordsKept
  <1>6. ASSUME NEW i \in Instances, NEW r \in Relays, IgnoreEvent(r, i)
        PROVE  Records' /\ LocalsSubscribed'
    <2>1. /\ UNCHANGED <<sessions, participants, transport, subscription, subscribed, waiting, joined, sent>>
          /\ mishaps \subseteq mishaps'
      BY <1>6 DEF IgnoreEvent
    <2>2. sessions' \subseteq Instances /\ participants' \in [Instances -> SUBSET Peers]
      BY <2>1 DEF Records, Listing
    <2> QED  BY <1>1, <2>1, <2>2, RecordsKept
  <1>7. ASSUME NEW i \in Instances, NEW r \in Relays, HandleEvent(r, i)
        PROVE  Records' /\ LocalsSubscribed'
    <2> DEFINE e == Head(fromRelay[r][i]).event
    <2>1. e \in Own
      BY <1>7, HeadDelivery DEF HandleEvent
    <2>2. /\ e.by # i /\ sessions' = sessions \cup {i}
          /\ participants' = [participants EXCEPT ![i] = Changed(i, e)]
          /\ mishaps \subseteq mishaps' /\ sent' = sent
          /\ UNCHANGED <<transport, subscription, subscribed, waiting, joined>>
      BY <1>7 DEF HandleEvent, New
    <2> HIDE DEF e
    <2>3. participants[i] \subseteq Peers
      BY DEF Records, Listing
    <2>4. Changed(i, e) \subseteq Peers /\ participants[i] \ {e.peer} \subseteq Changed(i, e)
      BY <2>1, <2>3, ChangedPeers
    <2>5. Home[e.peer] = e.by
      BY <2>1, OwnIds
    <2>6. sessions' \subseteq Instances /\ participants' \in [Instances -> SUBSET Peers]
      BY <2>2, <2>4 DEF Records, Listing
    <2>7. \A j \in Instances : \A p \in participants[j] : Home[p] = j => p \in participants'[j]
      BY <2>2, <2>4, <2>5 DEF Records, Listing
    <2> QED  BY <1>1, <2>2, <2>6, <2>7, RecordsKept
  <1>8. CASE UNCHANGED vars
    BY <1>8 DEF vars, Records, Listing, Transports, Subscriptions, Leaving, LocalsSubscribed, Subscribed
  <1> QED
    BY <1>2, <1>3, <1>4, <1>5, <1>6, <1>7, <1>8, RecordsJoin, LeaveRecords
    DEF Next, Command, Network

LEMMA RecordsInit == Init => Records /\ LocalsSubscribed
  BY BoundsAssumption DEF Init, Records, Listing, Transports, Subscriptions, Leaving, LocalsSubscribed, Subscribed

\* LocalsSubscribed: a worker receives what is said in a session as long as one
\* of its own peers is in it.
THEOREM MembersSubscribed == Spec => []LocalsSubscribed
  <1>1. Init => History /\ Records /\ LocalsSubscribed
    BY HistoryInit, RecordsInit
  <1>2. (History /\ Records /\ LocalsSubscribed) /\ [Next]_vars => (History /\ Records /\ LocalsSubscribed)'
    BY HistoryStep, RecordsStep
  <1> QED  BY <1>1, <1>2, PTL DEF Spec

-----------------------------------------------------------------------------
(* What is on its way to a relay that is in every list                     *)
Announcement(m, p, n) == m \in Own /\ m.type = "join" /\ m.peer = p /\ m.n = n
Opens(m) == IsRequest(m) /\ m.request # 0
NeverCloses(s, m) == \A k \in DOMAIN s : k > m => ~(IsRequest(s[k]) /\ s[k].request = 0)

\* The relay serves the worker once it has taken what is on its way, s; v is
\* the subscription it knows now.
Opened(v, s) ==
    \/ v # 0 /\ NeverCloses(s, 0)
    \/ \E m \in DOMAIN s : Opens(s[m]) /\ NeverCloses(s, m)

\* ... and has done so when it takes the last announcement of p.
Precedes(v, s, p, n) ==
    \/ v # 0 /\ NeverCloses(s, 0)
    \/ \E m, k \in DOMAIN s : m < k /\ Opens(s[m]) /\ NeverCloses(s, m) /\ Announcement(s[k], p, n)

Announcing(s, p, n) == \E k \in DOMAIN s : Announcement(s[k], p, n)

\* What is sent after s leaves what s opens and announces in place.
LEMMA AppendKeeps ==
  ASSUME NEW s \in Seq(Message), NEW t \in Seq(Message), NeverCloses(t, 0), NEW v, NEW p, NEW n
  PROVE  /\ Opened(v, s) => Opened(v, s \o t)
         /\ Precedes(v, s, p, n) => Precedes(v, s \o t, p, n)
         /\ Announcing(s, p, n) => Announcing(s \o t, p, n)
         /\ NeverCloses(s, 0) => NeverCloses(s \o t, 0)
  <1> DEFINE u == s \o t
  <1>1. /\ Len(s) \in Nat /\ Len(t) \in Nat
        /\ DOMAIN s = 1 .. Len(s) /\ DOMAIN t = 1 .. Len(t) /\ DOMAIN u = 1 .. (Len(s) + Len(t))
        /\ \A k \in 1 .. Len(s) : u[k] = s[k]
        /\ \A k \in 1 .. Len(t) : u[Len(s) + k] = t[k]
        /\ \A k \in 1 .. (Len(s) + Len(t)) : k \in 1 .. Len(s) \/ k - Len(s) \in 1 .. Len(t)
    BY ConcatFacts
  <1> HIDE DEF u
  <1>2. ASSUME NEW m \in Nat, NeverCloses(s, m)  PROVE NeverCloses(u, m)
    <2> SUFFICES ASSUME NEW k \in 1 .. (Len(s) + Len(t)), k > m
                 PROVE  ~(IsRequest(u[k]) /\ u[k].request = 0)
      BY <1>1 DEF NeverCloses
    <2>1. CASE k \in 1 .. Len(s)  BY <1>1, <1>2, <2>1 DEF NeverCloses
    <2>2. CASE k - Len(s) \in 1 .. Len(t)
      <3>1. u[Len(s) + (k - Len(s))] = t[k - Len(s)] /\ Len(s) + (k - Len(s)) = k /\ k - Len(s) > 0
        BY <1>1, <2>2
      <3> QED  BY <1>1, <2>2, <3>1 DEF NeverCloses
    <2> QED  BY <1>1, <2>1, <2>2
  <1>3. \A k \in DOMAIN s : k \in Nat /\ k \in DOMAIN u /\ u[k] = s[k]
    BY <1>1
  <1>4. NeverCloses(s, 0) => NeverCloses(u, 0)  BY <1>2
  <1>5. Opened(v, s) => Opened(v, u)  BY <1>2, <1>3, <1>4 DEF Opened
  <1>6. Precedes(v, s, p, n) => Precedes(v, u, p, n)  BY <1>2, <1>3, <1>4 DEF Precedes
  <1>7. Announcing(s, p, n) => Announcing(u, p, n)  BY <1>3 DEF Announcing
  <1> QED  BY <1>4, <1>5, <1>6, <1>7 DEF u

\* An announcement that is sent when the worker is served, or will be.
LEMMA AnnounceLast ==
  ASSUME NEW s \in Seq(Message), NEW v, NEW e \in Own, NEW p, NEW n, Announcement(e, p, n)
  PROVE  /\ Announcing(s \o <<e>>, p, n)
         /\ Opened(v, s) => Precedes(v, s \o <<e>>, p, n)
  <1> DEFINE u == s \o <<e>>
  <1>1. <<e>> \in Seq(Message)
    <2>1. e \in Message  BY DEF Message
    <2> QED  BY <2>1
  <1>2. /\ Len(s) \in Nat /\ Len(<<e>>) = 1 /\ <<e>>[1] = e
        /\ DOMAIN s = 1 .. Len(s) /\ DOMAIN u = 1 .. (Len(s) + Len(<<e>>))
        /\ \A k \in 1 .. Len(s) : u[k] = s[k]
        /\ \A k \in 1 .. Len(<<e>>) : u[Len(s) + k] = <<e>>[k]
    BY <1>1, ConcatFacts
  <1> HIDE DEF u
  <1>3. u[Len(s) + 1] = e /\ Len(s) + 1 \in DOMAIN u /\ DOMAIN u = 1 .. (Len(s) + 1)
    BY <1>2
  <1>4. ~IsRequest(e)
    BY DEF IsRequest, Own, Events
  <1>5. ASSUME NEW m \in Nat, NeverCloses(s, m)  PROVE NeverCloses(u, m)
    <2>1. \A k \in DOMAIN u : k \in DOMAIN s \/ k = Len(s) + 1  BY <1>2, <1>3
    <2> QED  BY <1>2, <1>3, <1>4, <1>5, <2>1 DEF NeverCloses
  <1>6. Announcing(u, p, n)  BY <1>3 DEF Announcing
  <1>7. ASSUME Opened(v, s)  PROVE Precedes(v, u, p, n)
    <2>1. CASE v # 0 /\ NeverCloses(s, 0)
      BY <1>5, <2>1 DEF Precedes
    <2>2. CASE \E m \in DOMAIN s : Opens(s[m]) /\ NeverCloses(s, m)
      <3>1. PICK m \in DOMAIN s : Opens(s[m]) /\ NeverCloses(s, m)  BY <2>2
      <3>2. m \in Nat /\ m \in DOMAIN u /\ u[m] = s[m] /\ m < Len(s) + 1  BY <1>2, <1>3
      <3>3. NeverCloses(u, m)  BY <1>5, <3>1, <3>2
      <3> QED  BY <1>3, <3>1, <3>2, <3>3 DEF Precedes
    <2> QED  BY <1>7, <2>1, <2>2 DEF Opened
  <1> QED  BY <1>6, <1>7 DEF u

\* A request that opens.
LEMMA RequestOpens ==
  ASSUME NEW s \in Seq(Message), NEW v, NEW id \in Nat \ {0}
  PROVE  Opened(v, s \o <<Request(id)>>) /\ NeverCloses(<<Request(id)>>, 0)
         /\ s \o <<Request(id)>> \in Seq(Message)
  <1> DEFINE t == <<Request(id)>>
             u == s \o t
  <1>1. t \in Seq(Message)  BY RequestTyped
  <1>2. Opens(Request(id))  BY DEF Opens, Request, IsRequest
  <1>3. /\ Len(s) \in Nat /\ Len(t) = 1 /\ t[1] = Request(id) /\ DOMAIN t = 1 .. 1
        /\ u \in Seq(Message) /\ DOMAIN u = 1 .. (Len(s) + Len(t))
        /\ \A k \in 1 .. Len(t) : u[Len(s) + k] = t[k]
    BY <1>1, ConcatFacts
  <1> HIDE DEF u, t
  <1>4. u[Len(s) + 1] = Request(id) /\ Len(s) + 1 \in DOMAIN u /\ \A k \in DOMAIN u : k <= Len(s) + 1
    BY <1>3
  <1>5. NeverCloses(u, Len(s) + 1)  BY <1>3, <1>4 DEF NeverCloses
  <1>6. NeverCloses(t, 0)  BY <1>2, <1>3 DEF NeverCloses, Opens
  <1> QED  BY <1>2, <1>3, <1>4, <1>5, <1>6 DEF Opened, u, t

\* The relay takes the first of what is on its way.
LEMMA TailKeeps ==
  ASSUME NEW s \in Seq(Message), s # <<>>, NEW v, NEW w, NEW p, NEW n,
         IF IsRequest(Head(s)) THEN w = Head(s).request ELSE w = v
  PROVE  /\ Opened(v, s) => Opened(w, Tail(s))
         /\ Precedes(v, s, p, n) => Precedes(w, Tail(s), p, n)
         /\ Announcing(s, p, n) => Announcing(Tail(s), p, n) \/ Announcement(Head(s), p, n)
  <1> DEFINE u == Tail(s)
  <1>1. /\ Len(s) \in Nat \ {0} /\ DOMAIN s = 1 .. Len(s) /\ Head(s) = s[1]
        /\ DOMAIN u = 1 .. (Len(s) - 1)
        /\ \A k \in 1 .. (Len(s) - 1) : u[k] = s[k + 1]
    BY TailFacts
  <1> HIDE DEF u
  <1>2. \A k \in DOMAIN s : k # 1 => k - 1 \in DOMAIN u /\ u[k - 1] = s[k]
    <2> SUFFICES ASSUME NEW k \in 1 .. Len(s), k # 1  PROVE k - 1 \in DOMAIN u /\ u[k - 1] = s[k]
      BY <1>1
    <2>1. k - 1 \in 1 .. (Len(s) - 1) /\ (k - 1) + 1 = k  BY <1>1
    <2>2. u[k - 1] = s[(k - 1) + 1]  BY <1>1, <2>1
    <2> QED  BY <1>1, <2>1, <2>2
  <1>3. \A k \in DOMAIN u : k \in Nat /\ k + 1 \in DOMAIN s /\ u[k] = s[k + 1]
    BY <1>1
  <1>4. ASSUME NEW m \in Nat, NeverCloses(s, m)  PROVE NeverCloses(u, m - 1) /\ NeverCloses(u, m)
    BY <1>3, <1>4 DEF NeverCloses
  <1>5. ASSUME v # 0, NeverCloses(s, 0)  PROVE w # 0 /\ NeverCloses(u, 0)
    <2>1. 1 \in DOMAIN s /\ 1 > 0  BY <1>1
    <2>2. ~(IsRequest(Head(s)) /\ Head(s).request = 0)  BY <1>1, <1>5, <2>1 DEF NeverCloses
    <2>3. w # 0  BY <1>5, <2>2
    <2> QED  BY <1>4, <1>5, <2>3
  <1>6. ASSUME NEW m \in DOMAIN s, Opens(s[m]), NeverCloses(s, m)
        PROVE  \/ w # 0 /\ NeverCloses(u, 0)
               \/ m # 1 /\ m - 1 \in DOMAIN u /\ Opens(u[m - 1]) /\ NeverCloses(u, m - 1)
    <2>1. m \in Nat  BY <1>1
    <2>2. NeverCloses(u, m - 1)  BY <1>4, <1>6, <2>1
    <2>3. CASE m = 1
      <3>1. w # 0  BY <1>1, <1>6, <2>3 DEF Opens
      <3>2. m - 1 = 0  BY <2>3
      <3> QED  BY <2>2, <3>1, <3>2
    <2>4. CASE m # 1  BY <1>2, <1>6, <2>2, <2>4
    <2> QED  BY <2>3, <2>4
  <1>7. Opened(v, s) => Opened(w, u)
    BY <1>5, <1>6 DEF Opened
  <1>8. ASSUME NEW m \in DOMAIN s, NEW k \in DOMAIN s, m < k, Opens(s[m]), NeverCloses(s, m),
               Announcement(s[k], p, n)
        PROVE  Precedes(w, u, p, n)
    <2>1. CASE w # 0 /\ NeverCloses(u, 0)  BY <2>1 DEF Precedes
    <2>2. CASE m # 1 /\ m - 1 \in DOMAIN u /\ Opens(u[m - 1]) /\ NeverCloses(u, m - 1)
      <3>1. k # 1 /\ m - 1 < k - 1  BY <1>1, <1>8
      <3>2. k - 1 \in DOMAIN u /\ u[k - 1] = s[k]  BY <1>2, <3>1
      <3> QED  BY <1>8, <2>2, <3>1, <3>2 DEF Precedes
    <2> QED  BY <1>6, <1>8, <2>1, <2>2
  <1>9. Precedes(v, s, p, n) => Precedes(w, u, p, n)
    <2>1. CASE v # 0 /\ NeverCloses(s, 0)  BY <1>5, <2>1 DEF Precedes
    <2> QED  BY <1>8, <2>1 DEF Precedes
  <1>10. Announcing(s, p, n) => Announcing(u, p, n) \/ Announcement(Head(s), p, n)
    BY <1>1, <1>2 DEF Announcing
  <1> QED  BY <1>7, <1>9, <1>10 DEF u

LEMMA PrecedesServes ==
  ASSUME NEW s, NEW v, NEW p, NEW n, Precedes(v, s, p, n)
  PROVE  v # 0 \/ Announcing(s, p, n)
  BY DEF Precedes, Announcing

-----------------------------------------------------------------------------
(* The events that have been sent                                          *)
\* The events on their way to a relay, kept by it or on their way from it.
Travels(e) ==
    \/ \E i \in Instances, r \in Relays : e \in ToSet(toRelay[i][r])
    \/ \E r \in Relays : e \in ToSet(kept[r])
    \/ \E r \in Relays, i \in Instances : \E m \in ToSet(fromRelay[r][i]) : m.event = e
Traveling == {e \in Own : Travels(e)}

\* Messages that are not events.
LEMMA RequestsAlone ==
  ASSUME NEW s \in Seq(Asking)
  PROVE  s \in Seq(Message) /\ ToSet(s) \cap Own = {}
  <1>1. ASSUME NEW m \in Asking, m \in Own  PROVE FALSE
    <2>1. DOMAIN m = {"request"}  BY DEF Asking
    <2>2. DOMAIN m = {"by", "n", "type", "peer", "target"}  BY <1>1 DEF Own, Events
    <2> QED  BY <2>1, <2>2
  <1> QED  BY <1>1, SeqOfMore DEF Message

LEMMA ClosingAlone ==
  ASSUME NEW i, NEW r
  PROVE  Closing(i, r) \in Seq(Asking)
  <1>1. Request(0) \in Asking  BY DEF Request, Asking
  <1>2. <<Request(0)>> \in Seq(Asking) /\ <<>> \in Seq(Asking)  BY <1>1
  <1> QED  BY <1>2 DEF Closing

LEMMA RequestsAreAlone ==
  ASSUME Logs, NEW i \in Instances, NEW relays
  PROVE  Requests(i, relays) \in [Relays -> Seq(Asking)]
  <1>1. Request(subscribed[i] + 1) \in Asking  BY DEF Logs, Request, Asking
  <1>2. <<Request(subscribed[i] + 1)>> \in Seq(Asking) /\ <<>> \in Seq(Asking)  BY <1>1
  <1>3. \A r \in Relays : Closing(i, r) \in Seq(Asking)  BY ClosingAlone
  <1> HIDE DEF Closing, Request, Reuses
  <1> QED  BY <1>2, <1>3 DEF Requests

LEMMA NoRequestsAlone == NoRequests \in [Relays -> Seq(Asking)]
  <1>1. <<>> \in Seq(Asking)  OBVIOUS
  <1> QED  BY <1>1 DEF NoRequests

LEMMA PublishTravels ==
  ASSUME History, NEW i \in Instances, NEW relays, NEW asks \in [Relays -> Seq(Asking)],
         NEW e \in Own, NEW failed, Send(i, relays, asks, e, failed), UNCHANGED <<kept, fromRelay>>
  PROVE  Traveling' \subseteq Traveling \cup {e}
  <1>1. /\ asks \in [Relays -> Seq(Message)]
        /\ \A r \in Relays : ToSet(asks[r]) \cap Own = {}
    BY RequestsAlone
  <1>2. /\ \A j \in Instances \ {i} : toRelay'[j] = toRelay[j]
        /\ \A r \in Relays : toRelay'[i][r] = Outgoing(i, r, relays, asks, e, failed)
    <2>1. Traffic  BY DEF History
    <2>2. asks \in [Relays -> Seq(Message)]  BY <1>1
    <2>3. Send(i, relays, asks, e, failed)  OBVIOUS
    <2> HIDE DEF Traffic, Send
    <2> QED  BY <2>1, <2>2, <2>3, SendTyped, ZenonT(40)
  <1>3. ASSUME NEW r \in Relays  PROVE ToSet(toRelay'[i][r]) \cap Own \subseteq ToSet(toRelay[i][r]) \cup {e}
    <2> DEFINE ev == IF r \in ToSet(relays) \ failed THEN <<e>> ELSE <<>>
               s == toRelay[i][r] \o asks[r]
    <2>1. e \in Message  BY DEF Message
    <2>2. ev \in Seq(Message) /\ ToSet(ev) \subseteq {e}
      <3>1. <<e>> \in Seq(Message) /\ <<>> \in Seq(Message)  BY <2>1
      <3>2. ToSet(<<e>>) \subseteq {e} /\ ToSet(<<>>) = {}  BY DEF ToSet
      <3> QED  BY <3>1, <3>2
    <2>3. toRelay[i][r] \in Seq(Message) /\ asks[r] \in Seq(Message)  BY <1>1 DEF History, Traffic
    <2>4. s \in Seq(Message) /\ ToSet(s) = ToSet(toRelay[i][r]) \cup ToSet(asks[r])
      BY <2>3, ConcatElements, ConcatFacts
    <2>5. toRelay'[i][r] = s \o ev  BY <1>2 DEF Outgoing
    <2> HIDE DEF ev, s
    <2>6. ToSet(s \o ev) = ToSet(s) \cup ToSet(ev)
      BY <2>2, <2>4, ConcatElements
    <2> QED  BY <1>1, <2>2, <2>4, <2>5, <2>6
  <1> SUFFICES ASSUME NEW f \in Own, Travels(f)'  PROVE Travels(f) \/ f = e
    BY DEF Traveling
  <1>4. CASE \E j \in Instances, r \in Relays : f \in ToSet(toRelay'[j][r])
    <2>1. PICK j \in Instances, r \in Relays : f \in ToSet(toRelay'[j][r])  BY <1>4
    <2>2. f \in ToSet(toRelay[j][r]) \/ f = e  BY <1>2, <1>3, <2>1
    <2> QED  BY <2>2 DEF Travels
  <1> QED  BY <1>4 DEF Travels

LEMMA DetachTravels ==
  ASSUME History, NEW i \in Instances, DetachSession(i) \/ UNCHANGED toRelay, UNCHANGED <<kept, fromRelay>>
  PROVE  Traveling' \subseteq Traveling
  <1>1. ASSUME NEW j \in Instances, NEW r \in Relays
        PROVE  ToSet(toRelay'[j][r]) \cap Own \subseteq ToSet(toRelay[j][r])
    <2>1. CASE toRelay'[j][r] = toRelay[j][r]  BY <2>1
    <2>2. CASE j = i /\ toRelay'[i][r] = toRelay[i][r] \o Closing(i, r)
      <3>1. Closing(i, r) \in Seq(Message) /\ ToSet(Closing(i, r)) \cap Own = {}
        BY ClosingAlone, RequestsAlone
      <3>2. toRelay[i][r] \in Seq(Message)  BY DEF History, Traffic
      <3>3. ToSet(toRelay'[i][r]) = ToSet(toRelay[i][r]) \cup ToSet(Closing(i, r))
        BY <2>2, <3>1, <3>2, ConcatElements
      <3> QED  BY <2>2, <3>1, <3>3
    <2>3. toRelay'[j][r] = toRelay[j][r] \/ (j = i /\ toRelay'[i][r] = toRelay[i][r] \o Closing(i, r))
      <3>1. toRelay \in [Instances -> [Relays -> Seq(Message)]]  BY DEF History, Traffic
      <3>2. UNCHANGED toRelay
            \/ toRelay' = [toRelay EXCEPT ![i] = [x \in Relays |-> toRelay[i][x] \o Closing(i, x)]]
        BY DEF DetachSession
      <3> QED  BY <3>1, <3>2
    <2> QED  BY <2>1, <2>2, <2>3
  <1> SUFFICES ASSUME NEW f \in Own, Travels(f)'  PROVE Travels(f)
    BY DEF Traveling
  <1> QED  BY <1>1 DEF Travels

LEMMA RelaySubscribesTravels ==
  ASSUME History, NEW i \in Instances, NEW r \in Relays, RelaySubscribes(i, r)
  PROVE  Traveling' \subseteq Traveling
  <1>1. toRelay[i][r] \in Seq(Message) /\ toRelay[i][r] # <<>>
        /\ toRelay' = [toRelay EXCEPT ![i][r] = Tail(@)] /\ kept' = kept
    BY DEF History, Traffic, RelaySubscribes
  <1>2. \A j \in Instances, s \in Relays : ToSet(toRelay'[j][s]) \subseteq ToSet(toRelay[j][s])
    <2>1. ToSet(Tail(toRelay[i][r])) \subseteq ToSet(toRelay[i][r])  BY <1>1, TailElements
    <2> QED  BY <1>1, <2>1 DEF History, Traffic
  <1>3. PICK add \in Seq(Delivery) : /\ fromRelay' = [fromRelay EXCEPT ![r][i] = @ \o add]
                                     /\ \A d \in ToSet(add) : d.event \in ToSet(kept[r])
    BY RelaySubscribesPushes
  <1>4. ToSet(fromRelay[r][i] \o add) = ToSet(fromRelay[r][i]) \cup ToSet(add)
    <2>1. fromRelay[r][i] \in Seq(Delivery)  BY DEF History, Traffic
    <2> QED  BY <2>1, ConcatElements
  <1>5. \A s \in Relays, j \in Instances : \A d \in ToSet(fromRelay'[s][j]) :
            d \in ToSet(fromRelay[s][j]) \/ d.event \in ToSet(kept[r])
    BY <1>3, <1>4 DEF History, Traffic
  <1> SUFFICES ASSUME NEW f \in Own, Travels(f)'  PROVE Travels(f)
    BY DEF Traveling
  <1>6. CASE \E s \in Relays, j \in Instances : \E d \in ToSet(fromRelay'[s][j]) : d.event = f
    <2>1. PICK s \in Relays, j \in Instances : \E d \in ToSet(fromRelay'[s][j]) : d.event = f  BY <1>6
    <2>2. PICK d \in ToSet(fromRelay'[s][j]) : d.event = f  BY <2>1
    <2>3. d \in ToSet(fromRelay[s][j]) \/ f \in ToSet(kept[r])  BY <1>5, <2>2
    <2> QED  BY <2>2, <2>3 DEF Travels
  <1> QED  BY <1>1, <1>2, <1>6 DEF Travels

LEMMA RelayForwardsTravels ==
  ASSUME History, NEW i \in Instances, NEW r \in Relays, RelayForwards(i, r)
  PROVE  Traveling' \subseteq Traveling
  <1> DEFINE e == Head(toRelay[i][r])
  <1>1. toRelay[i][r] \in Seq(Message) /\ toRelay[i][r] # <<>> /\ ~IsRequest(e)
        /\ toRelay' = [toRelay EXCEPT ![i][r] = Tail(@)]
        /\ fromRelay' = [fromRelay EXCEPT ![r] = [j \in Instances |->
               IF serves[r][j] = 0 THEN @[j] ELSE Append(@[j], [to |-> serves[r][j], event |-> e])]]
        /\ kept' = [kept EXCEPT ![r] = IF r \in Storing THEN Append(@, e) ELSE @]
    BY DEF History, Traffic, RelayForwards
  <1>2. e \in ToSet(toRelay[i][r]) /\ ToSet(Tail(toRelay[i][r])) \subseteq ToSet(toRelay[i][r])
    BY <1>1, TailElements
  <1>3. e \in Own
    <2>1. e \in Message  BY <1>1, TailFacts
    <2> QED  BY <1>1, <2>1, OwnIsNoRequest
  <1>4. \A j \in Instances, s \in Relays : ToSet(toRelay'[j][s]) \subseteq ToSet(toRelay[j][s])
    BY <1>1, <1>2 DEF History, Traffic
  <1> HIDE DEF e
  <1>6. \A s \in Relays : ToSet(kept'[s]) \subseteq ToSet(kept[s]) \cup {e}
    <2>1. kept[r] \in Seq(Own)  BY DEF History, Traffic
    <2>2. ToSet(Append(kept[r], e)) = ToSet(kept[r]) \cup {e}  BY <1>3, AppendSet, <2>1
    <2> QED  BY <1>1, <2>2 DEF History, Traffic
  <1>7. \A s \in Relays, j \in Instances : \A m \in ToSet(fromRelay'[s][j]) :
            m \in ToSet(fromRelay[s][j]) \/ m.event = e
    <2> SUFFICES ASSUME NEW s \in Relays, NEW j \in Instances, NEW m \in ToSet(fromRelay'[s][j])
                 PROVE  m \in ToSet(fromRelay[s][j]) \/ m.event = e
      OBVIOUS
    <2> DEFINE d == [to |-> serves[r][j], event |-> e]
    <2>1. fromRelay[r][j] \in Seq(Delivery) /\ d \in Delivery
      BY <1>3 DEF History, Traffic, Delivery
    <2>2. d.event = e  OBVIOUS
    <2> HIDE DEF d
    <2>3. ToSet(Append(fromRelay[r][j], d)) = ToSet(fromRelay[r][j]) \cup {d}  BY AppendSet, <2>1
    <2>4. fromRelay'[s][j] = fromRelay[s][j] \/ (s = r /\ fromRelay'[s][j] = Append(fromRelay[r][j], d))
      BY <1>1 DEF History, Traffic, d
    <2> QED  BY <2>2, <2>3, <2>4
  <1>8. Travels(e)  BY <1>2 DEF Travels
  <1> SUFFICES ASSUME NEW f \in Own, Travels(f)'  PROVE Travels(f)
    BY DEF Traveling
  <1>9. CASE \E s \in Relays, j \in Instances : \E m \in ToSet(fromRelay'[s][j]) : m.event = f
    <2>0. PICK s \in Relays, j \in Instances : \E m \in ToSet(fromRelay'[s][j]) : m.event = f  BY <1>9
    <2>1. PICK m \in ToSet(fromRelay'[s][j]) : m.event = f  BY <2>0
    <2>2. m \in ToSet(fromRelay[s][j]) \/ f = e  BY <1>7, <2>1
    <2> QED  BY <1>8, <2>1, <2>2 DEF Travels
  <1>10. CASE \E s \in Relays : f \in ToSet(kept'[s])
    <2>1. PICK s \in Relays : f \in ToSet(kept'[s])  BY <1>10
    <2>2. f \in ToSet(kept[s]) \/ f = e  BY <1>6, <2>1
    <2> QED  BY <1>8, <2>2 DEF Travels
  <1>11. CASE \E j \in Instances, s \in Relays : f \in ToSet(toRelay'[j][s])
    BY <1>4, <1>11 DEF Travels
  <1> QED  BY <1>9, <1>10, <1>11 DEF Travels

\* An event is taken from its relay, where it was.
LEMMA DroppedTravels ==
  ASSUME History, NEW i \in Instances, NEW r \in Relays, fromRelay[r][i] # <<>>, Dropped(r, i),
         UNCHANGED <<toRelay, kept>>
  PROVE  Traveling' \subseteq Traveling /\ Head(fromRelay[r][i]).event \in Traveling
  <1>1. fromRelay[r][i] \in Seq(Delivery) /\ fromRelay' = [fromRelay EXCEPT ![r][i] = Tail(@)]
    BY DEF History, Traffic, Dropped
  <1>2. ToSet(Tail(fromRelay[r][i])) \subseteq ToSet(fromRelay[r][i])
        /\ Head(fromRelay[r][i]) \in ToSet(fromRelay[r][i])
    BY <1>1, TailElements
  <1>3. Head(fromRelay[r][i]).event \in Traveling
    <2>1. Head(fromRelay[r][i]).event \in Own  BY HeadDelivery DEF History
    <2> QED  BY <1>2, <2>1 DEF Traveling, Travels
  <1>4. \A s \in Relays, j \in Instances : ToSet(fromRelay'[s][j]) \subseteq ToSet(fromRelay[s][j])
    BY <1>1, <1>2 DEF History, Traffic
  <1> SUFFICES ASSUME NEW f \in Own, Travels(f)'  PROVE Travels(f)
    BY <1>3 DEF Traveling
  <1> QED  BY <1>4 DEF Travels

-----------------------------------------------------------------------------
(* Two peers meet at the relay c                                           *)
\* N numbers the last join of every peer.  j has handled it ...
Known(N, p, j) == p \in participants[j] /\ N[p] <= newest[j][Home[p]]
\* ... or it comes from c, or is on its way there.
Coming(c, N, p, j) == \E m \in ToSet(fromRelay[c][j]) : Announcement(m.event, p, N[p])
Reaches(c, N, p, j) == Known(N, p, j) \/ Coming(c, N, p, j)
Announced(c, N, p) == Announcing(toRelay[Home[p]][c], p, N[p])

Shared(c, lists) == \A i \in Instances :
    /\ transport[i] # None => transport[i].relayUrls \in lists
    /\ Subscribed(i) => c \in ToSet(subscription[i].relays)

Numbered(N) ==
    /\ \A e \in Traveling : e.n <= sent[e.by]
    /\ \A i \in Instances : \A id \in ToSet(seen[i]) : id[2] <= sent[id[1]]
    /\ \A p \in joined : N[p] \in Nat /\ N[p] <= sent[Home[p]]
    /\ \A p \in joined : \A e \in Traveling :
           /\ e.peer = p /\ e.type = "leave" => e.n < N[p]
           /\ e.by = Home[p] /\ e.n = N[p] => e.type = "join" /\ e.peer = p

Serving(c, N) ==
    /\ \A i \in Instances : Subscribed(i) => Opened(serves[c][i], toRelay[i][c])
    /\ \A p \in joined : Precedes(serves[c][Home[p]], toRelay[Home[p]][c], p, N[p])
SeenKnown(N) == \A p \in joined : \A i \in Instances \ {Home[p]} :
    <<Home[p], N[p]>> \in ToSet(seen[i]) => Known(N, p, i)
Meeting(c, N) == \A p, q \in joined : Home[p] # Home[q] =>
    \/ Announced(c, N, p) \/ Announced(c, N, q)
    \/ Reaches(c, N, p, Home[q]) \/ Reaches(c, N, q, Home[p])

Base == History /\ Records /\ LocalsSubscribed
MeetInv(c, lists, N) ==
    /\ Shared(c, lists) /\ Numbered(N)
    /\ mishaps = {} => Serving(c, N) /\ SeenKnown(N) /\ Meeting(c, N)

LEMMA JoinedHome ==
  ASSUME Records, NEW p \in joined
  PROVE  p \in Peers /\ Home[p] \in Instances
  BY InstancesAssumption DEF Records, Listing

LEMMA OwnFacts ==
  ASSUME Base
  PROVE  /\ Traveling \subseteq Own
         /\ \A i \in Instances : sent[i] \in Nat
         /\ \A i \in Instances : ToSet(seen[i]) \subseteq Ids
         /\ \A i, j \in Instances : newest[i][j] \in Nat
  <1>1. Traveling \subseteq Own  BY DEF Traveling
  <1>2. \A i \in Instances : sent[i] \in Nat  BY BoundsAssumption DEF Base, History, Logs
  <1>3. \A i \in Instances : ToSet(seen[i]) \subseteq Ids
    <2> SUFFICES ASSUME NEW i \in Instances  PROVE ToSet(seen[i]) \subseteq Ids
      OBVIOUS
    <2>1. seen[i] \in Seq(Ids)  BY DEF Base, History, Logs
    <2> QED  BY <2>1, SeqOfMore
  <1> QED  BY <1>1, <1>2, <1>3 DEF Base, History, Logs

\* Nothing is published.
LEMMA NumberedKept ==
  ASSUME Base, NEW N, Numbered(N), Traveling' \subseteq Traveling, joined' \subseteq joined, sent' = sent,
         \A i \in Instances : \A id \in ToSet(seen'[i]) :
             id \in ToSet(seen[i]) \/ \E e \in Traveling : id = EventId(e)
  PROVE  Numbered(N)'
  <1>1. \A e \in Traveling : EventId(e)[1] = e.by /\ EventId(e)[2] = e.n
    BY DEF EventId
  <1>2. \A i \in Instances : \A id \in ToSet(seen'[i]) : id[2] <= sent[id[1]]
    BY <1>1 DEF Numbered
  <1> QED  BY <1>2 DEF Numbered

\* e is published by i: the last join of its peer, or something else.
Renumbered(N, M, i, e) == \A q \in joined' :
    \/ q \in joined /\ M[q] = N[q] /\ ~(e.type = "leave" /\ e.peer = q)
    \/ M[q] = sent[i] + 1 /\ Home[q] = i /\ e.type = "join" /\ e.peer = q

LEMMA NumberedPublished ==
  ASSUME Base, NEW N, Numbered(N), NEW i \in Instances, NEW e \in Own, e.by = i, e.n = sent[i] + 1,
         Traveling' \subseteq Traveling \cup {e}, sent' = [sent EXCEPT ![i] = @ + 1],
         \A j \in Instances : ToSet(seen'[j]) \subseteq ToSet(seen[j]) \cup {EventId(e)},
         NEW M, Renumbered(N, M, i, e)
  PROVE  Numbered(M)'
  <1>1. /\ \A j \in Instances : sent[j] \in Nat /\ sent'[j] \in Nat /\ sent[j] <= sent'[j]
        /\ sent'[i] = sent[i] + 1
    BY OwnFacts DEF Base, History, Logs
  <1>2. \A f \in Traveling : f.by \in Instances /\ f.n \in Nat /\ Home[f.peer] = f.by /\ f.n <= sent[f.by]
    BY OwnFacts, OwnIds DEF Numbered
  <1>3. \A f \in Traveling' : f.n <= sent'[f.by]
    <2> SUFFICES ASSUME NEW f \in Traveling \cup {e}  PROVE f.n <= sent'[f.by]
      OBVIOUS
    <2>1. CASE f = e  BY <1>1, <2>1
    <2>2. CASE f \in Traveling
      <3>1. f.n \in Nat /\ f.n <= sent[f.by] /\ f.by \in Instances  BY <1>2, <2>2
      <3>2. sent[f.by] <= sent'[f.by] /\ sent[f.by] \in Nat /\ sent'[f.by] \in Nat  BY <1>1, <3>1
      <3> QED  BY <3>1, <3>2
    <2> QED  BY <2>1, <2>2
  <1>4. \A j \in Instances : \A id \in ToSet(seen'[j]) : id[2] <= sent'[id[1]]
    <2> SUFFICES ASSUME NEW j \in Instances, NEW id \in ToSet(seen[j]) \cup {EventId(e)}
                 PROVE  id[2] <= sent'[id[1]]
      OBVIOUS
    <2>1. CASE id = EventId(e)  BY <1>1, <2>1 DEF EventId
    <2>2. CASE id \in ToSet(seen[j])
      <3>1. id \in Ids /\ id[2] <= sent[id[1]]  BY <2>2, OwnFacts DEF Numbered
      <3>2. id[1] \in Instances /\ id[2] \in Nat  BY <3>1 DEF Ids
      <3>3. sent[id[1]] <= sent'[id[1]] /\ sent[id[1]] \in Nat /\ sent'[id[1]] \in Nat  BY <1>1, <3>2
      <3> QED  BY <3>1, <3>2, <3>3
    <2> QED  BY <2>1, <2>2
  <1>5. ASSUME NEW q \in joined'
        PROVE  /\ M[q] \in Nat /\ M[q] <= sent'[Home[q]]
               /\ \A f \in Traveling' :
                      /\ f.peer = q /\ f.type = "leave" => f.n < M[q]
                      /\ f.by = Home[q] /\ f.n = M[q] => f.type = "join" /\ f.peer = q
    <2>1. CASE q \in joined /\ M[q] = N[q] /\ ~(e.type = "leave" /\ e.peer = q)
      <3>1. Home[q] \in Instances  BY <2>1, JoinedHome DEF Base
      <3>2. N[q] \in Nat /\ N[q] <= sent[Home[q]]  BY <2>1 DEF Numbered
      <3>3. sent[Home[q]] \in Nat /\ sent'[Home[q]] \in Nat /\ sent[Home[q]] <= sent'[Home[q]]  BY <1>1, <3>1
      <3>4. M[q] \in Nat /\ M[q] <= sent'[Home[q]]  BY <2>1, <3>2, <3>3
      <3>5. ~(e.by = Home[q] /\ e.n = N[q])
        <4> SUFFICES ASSUME i = Home[q], sent[i] + 1 = N[q]  PROVE FALSE
          OBVIOUS
        <4> QED  BY <3>2, <3>3
      <3>6. ASSUME NEW f \in Traveling
            PROVE  /\ f.peer = q /\ f.type = "leave" => f.n < N[q]
                   /\ f.by = Home[q] /\ f.n = N[q] => f.type = "join" /\ f.peer = q
        BY <2>1 DEF Numbered
      <3> QED  BY <2>1, <3>4, <3>5, <3>6
    <2>2. CASE M[q] = sent[i] + 1 /\ Home[q] = i /\ e.type = "join" /\ e.peer = q
      <3>1. ASSUME NEW f \in Traveling, f.by = i  PROVE f.n < M[q] /\ f.n # M[q]
        <4>1. f.n \in Nat /\ f.n <= sent[i] /\ sent[i] \in Nat  BY <1>1, <1>2, <3>1
        <4> QED  BY <2>2, <4>1
      <3>2. \A f \in Traveling : f.peer = q => f.by = i  BY <1>2, <2>2
      <3> QED  BY <1>1, <2>2, <3>1, <3>2
    <2> QED  BY <1>5, <2>1, <2>2 DEF Renumbered
  <1> QED  BY <1>3, <1>4, <1>5 DEF Numbered

\* The lists of a session, and the relays they resolve to, are among these.
Closed(lists, resolved) ==
    /\ <<>> \in lists
    /\ \A hints \in Hints, list \in lists : Joined(hints, list) \in lists
    /\ \A list \in lists : ResolveRelays(list) \in resolved
Within(lists, resolved) == \A i \in Instances :
    /\ transport[i] # None => transport[i].relayUrls \in lists
    /\ Subscribed(i) => subscription[i].relays \in resolved

LEMMA WithinStep ==
  ASSUME Base, NEW lists, NEW resolved, Closed(lists, resolved), Within(lists, resolved), [Next]_vars
  PROVE  Within(lists, resolved)'
  <1>1. ASSUME UNCHANGED <<transport, subscription>>  PROVE Within(lists, resolved)'
    BY <1>1 DEF Within, Subscribed
  <1>2. ASSUME NEW i \in Instances, NEW p \in Peers, NEW hints \in Hints, Join(i, p, hints)
        PROVE  Within(lists, resolved)'
    <2> DEFINE urls == RelayHints(i, hints)
    <2>1. SessionRelays(i) \in lists
      BY DEF SessionRelays, Within, Closed
    <2>2. urls \in lists /\ ResolveRelays(urls) \in resolved
      BY <2>1 DEF RelayHints, Closed
    <2>3. PICK peers : transport' = [transport EXCEPT ![i] = [localPeerIds |-> peers, relayUrls |-> urls]]
      BY <1>2 DEF Join
    <2>4. Attach(i, ResolveRelays(urls))
      BY <1>2 DEF Join
    <2>5. subscription'[i].relays = ResolveRelays(urls)
          /\ \A j \in Instances \ {i} : subscription'[j] = subscription[j]
      <3>1. Publish(i, ResolveRelays(urls), Requests(i, ResolveRelays(urls)), Event(i, "join", p, {}))
            /\ subscribed' = [subscribed EXCEPT ![i] = IF Reuses(i, ResolveRelays(urls)) THEN @ ELSE @ + 1]
        BY <1>2 DEF Join
      <3> HIDE DEF urls
      <3>2. sent' = [sent EXCEPT ![i] = @ + 1]  BY <3>1 DEF Publish
      <3> QED  BY <2>4, <3>1, <3>2, AttachKeeps DEF Base, History, Records
    <2>6. transport'[i].relayUrls = urls /\ \A j \in Instances \ {i} : transport'[j] = transport[j]
      BY <2>3 DEF Base, Records, Transports
    <2> HIDE DEF urls
    <2> QED  BY <2>2, <2>5, <2>6 DEF Within, Subscribed
  <1>3. ASSUME NEW i \in Instances, NEW p \in Peers, Leave(i, p)  PROVE Within(lists, resolved)'
    <2>1. CASE UNCHANGED transport  BY <1>1, <1>3, <2>1 DEF Leave
    <2>2. CASE transport[i] # None /\ transport' = [transport EXCEPT ![i].localPeerIds = @ \ {p}]
      <3>1. transport[i] = [localPeerIds |-> transport[i].localPeerIds, relayUrls |-> transport[i].relayUrls]
        BY <2>2 DEF Base, Records, Transports
      <3>2. transport'[i] = [transport[i] EXCEPT !.localPeerIds = @ \ {p}]
            /\ \A j \in Instances \ {i} : transport'[j] = transport[j]
        BY <2>2 DEF Base, Records, Transports
      <3>3. transport'[i].relayUrls = transport[i].relayUrls  BY <3>1, <3>2
      <3>4. subscription' = subscription  BY <1>3 DEF Leave
      <3> QED  BY <2>2, <3>2, <3>3, <3>4 DEF Within, Subscribed
    <2> QED  BY <1>3, <2>1, <2>2 DEF Leave
  <1>4. ASSUME NEW i \in Instances, DetachSession(i), transport' = [transport EXCEPT ![i] = None]
        PROVE  Within(lists, resolved)'
    <2>1. /\ transport'[i] = None
          /\ \A j \in Instances \ {i} : transport'[j] = transport[j]
      BY <1>4 DEF Base, Records, Transports
    <2>2. ASSUME NEW j \in Instances, subscription'[j] # None
          PROVE  Subscribed(j) /\ subscription'[j].relays = subscription[j].relays
      <3>1. CASE UNCHANGED subscription  BY <2>2, <3>1 DEF Subscribed
      <3>2. CASE subscription' = [subscription EXCEPT ![i] = None]
        BY <2>2, <3>2 DEF Base, Records, Subscriptions, Subscribed
      <3>3. CASE Subscribed(i) /\ subscription' = [subscription EXCEPT ![i].refCount = @ - 1]
        <4>1. subscription[i] = [relays |-> subscription[i].relays, refCount |-> subscription[i].refCount,
                                 id |-> subscription[i].id]
          BY <3>3 DEF Base, Records, Subscriptions
        <4>2. /\ subscription'[i] = [subscription[i] EXCEPT !.refCount = @ - 1]
              /\ \A k \in Instances \ {i} : subscription'[k] = subscription[k]
          BY <3>3 DEF Base, Records, Subscriptions
        <4>3. subscription'[i].relays = subscription[i].relays  BY <4>1, <4>2
        <4> QED  BY <2>2, <3>3, <4>2, <4>3 DEF Subscribed
      <3> QED  BY <1>4, <3>1, <3>2, <3>3 DEF DetachSession
    <2> QED  BY <2>1, <2>2 DEF Within, Subscribed
  <1>5. ASSUME NEW i \in Instances, LeaveEnds(i)  PROVE Within(lists, resolved)'
    BY <1>1, <1>4, <1>5 DEF LeaveEnds, PeerRetained, LastLeft, LateLeft
  <1>6. ASSUME NEW i \in Instances, NEW r \in Relays, Network(i, r)  PROVE Within(lists, resolved)'
    BY <1>1, <1>6 DEF Network, RelaySubscribes, RelayForwards, HandleEvent, IgnoreEvent
  <1>7. ASSUME NEW i \in Instances, Create(i)  PROVE Within(lists, resolved)'
    BY <1>1, <1>7 DEF Create
  <1>8. ASSUME NEW i \in Instances, NEW p \in Peers, NEW target \in SUBSET Peers, NEW hints \in Hints,
               SendSignal(i, p, target, hints)
        PROVE  Within(lists, resolved)'
    BY <1>1, <1>8 DEF SendSignal
  <1>9. CASE UNCHANGED vars
    BY <1>1, <1>9 DEF vars
  <1> QED  BY <1>2, <1>3, <1>5, <1>6, <1>7, <1>8, <1>9 DEF Next, Command

LEMMA SharedStep ==
  ASSUME Base, NEW c, NEW lists, SharedRelay(c, lists), Shared(c, lists), [Next]_vars
  PROVE  Shared(c, lists)'
  <1>1. PICK resolved : resolved = {s \in {ResolveRelays(list) : list \in lists}
                                        \cup {subscription[i].relays : i \in Instances} : c \in ToSet(s)}
    OBVIOUS
  <1>2. Closed(lists, resolved)  BY <1>1 DEF Closed, SharedRelay
  <1>3. Within(lists, resolved)  BY <1>1 DEF Within, Shared
  <1>4. Within(lists, resolved)'  BY <1>2, <1>3, WithinStep
  <1>5. \A s \in resolved : c \in ToSet(s)  BY <1>1
  <1> QED  BY <1>4, <1>5 DEF Within, Shared, Subscribed

\* The three parts that hold as long as nothing has gone wrong.
Parts(c, N) == Serving(c, N) /\ SeenKnown(N) /\ Meeting(c, N)

\* The worker i publishes: what it sends to c closes nothing, and the peers
\* whose last join this is, if any, announce themselves when c serves i.
Reannounced(c, N, M, i) == \A q \in joined' :
    \/ q \in joined /\ M[q] = N[q]
    \/ /\ Home[q] = i /\ Announcing(toRelay'[i][c], q, M[q])
       /\ Precedes(serves[c][i], toRelay'[i][c], q, M[q])
       /\ \A j \in Instances \ {i} : <<i, M[q]>> \notin ToSet(seen[j])

LEMMA PublishedParts ==
  ASSUME Base, NEW c \in Relays, NEW N, Parts(c, N), NEW i \in Instances,
         NEW t \in Seq(Message), NeverCloses(t, 0),
         toRelay'[i][c] = toRelay[i][c] \o t, \A j \in Instances \ {i} : toRelay'[j][c] = toRelay[j][c],
         UNCHANGED <<fromRelay, serves, newest>>,
         \A j \in Instances \ {i} : Subscribed(j)' => Subscribed(j),
         Subscribed(i)' => Subscribed(i) \/ Opened(serves[c][i], toRelay'[i][c]),
         \A j \in Instances : \A q \in participants[j] : Home[q] # j => q \in participants'[j],
         \A j \in Instances : \A id \in ToSet(seen'[j]) : id \in ToSet(seen[j]) \/ id[1] = j,
         joined' \subseteq Peers,
         NEW M,
         Reannounced(c, N, M, i)
  PROVE  Parts(c, M)'
  <1> DEFINE Old(q) == q \in joined /\ M[q] = N[q]
  <1>1. \A j \in Instances : toRelay[j][c] \in Seq(Message)
    BY DEF Base, History, Traffic
  <1>2. \A q \in joined' : q \in Peers /\ Home[q] \in Instances
    BY InstancesAssumption
  <1>3. ASSUME NEW j \in Instances, NEW p, NEW n
        PROVE  /\ Opened(serves[c][j], toRelay[j][c]) => Opened(serves[c][j], toRelay'[j][c])
               /\ Precedes(serves[c][j], toRelay[j][c], p, n) => Precedes(serves[c][j], toRelay'[j][c], p, n)
               /\ Announcing(toRelay[j][c], p, n) => Announcing(toRelay'[j][c], p, n)
    <2>1. CASE j = i
      <3> DEFINE s == toRelay[i][c]
      <3>1. s \in Seq(Message) /\ toRelay'[i][c] = s \o t  BY <1>1
      <3> HIDE DEF s
      <3>2. /\ Opened(serves[c][i], s) => Opened(serves[c][i], s \o t)
            /\ Precedes(serves[c][i], s, p, n) => Precedes(serves[c][i], s \o t, p, n)
            /\ Announcing(s, p, n) => Announcing(s \o t, p, n)
        BY <3>1, AppendKeeps
      <3> QED  BY <2>1, <3>1, <3>2 DEF s
    <2>2. CASE j # i  BY <2>2
    <2> QED  BY <2>1, <2>2
  <1>0. \A q \in joined' : Old(q) \/
            /\ Home[q] = i /\ Announcing(toRelay'[i][c], q, M[q])
            /\ Precedes(serves[c][i], toRelay'[i][c], q, M[q])
            /\ \A j \in Instances \ {i} : <<i, M[q]>> \notin ToSet(seen[j])
    BY DEF Reannounced
  <1>4. Serving(c, M)'
    <2>1. ASSUME NEW j \in Instances, Subscribed(j)'  PROVE Opened(serves[c][j], toRelay'[j][c])
      BY <1>3, <2>1 DEF Parts, Serving
    <2>2. ASSUME NEW q \in joined'  PROVE Precedes(serves[c][Home[q]], toRelay'[Home[q]][c], q, M[q])
      <3>1. CASE Old(q)  BY <1>2, <1>3, <3>1 DEF Parts, Serving
      <3> QED  BY <1>0, <3>1
    <2> QED  BY <2>1, <2>2 DEF Serving
  <1>5. ASSUME NEW q \in joined, NEW j \in Instances, Home[q] # j, M[q] = N[q]
        PROVE  /\ Known(N, q, j) => Known(M, q, j)'
               /\ Coming(c, N, q, j) => Coming(c, M, q, j)'
    BY <1>5 DEF Known, Coming
  <1>6. SeenKnown(M)'
    <2> SUFFICES ASSUME NEW q \in joined', NEW j \in Instances \ {Home[q]},
                        <<Home[q], M[q]>> \in ToSet(seen'[j])
                 PROVE  Known(M, q, j)'
      BY DEF SeenKnown
    <2>1. <<Home[q], M[q]>> \in ToSet(seen[j])  OBVIOUS
    <2>2. Old(q)  BY <1>0, <2>1
    <2>3. Known(N, q, j)  BY <2>1, <2>2 DEF Parts, SeenKnown
    <2> QED  BY <1>5, <2>2, <2>3
  <1>7. Meeting(c, M)'
    <2> SUFFICES ASSUME NEW p \in joined', NEW q \in joined', Home[p] # Home[q]
                 PROVE  \/ Announced(c, M, p)' \/ Announced(c, M, q)'
                        \/ Reaches(c, M, p, Home[q])' \/ Reaches(c, M, q, Home[p])'
      BY DEF Meeting
    <2>1. CASE ~Old(p)  BY <1>0, <2>1 DEF Announced
    <2>2. CASE ~Old(q)  BY <1>0, <2>2 DEF Announced
    <2>3. CASE Old(p) /\ Old(q)
      <3>1. \/ Announced(c, N, p) \/ Announced(c, N, q)
            \/ Reaches(c, N, p, Home[q]) \/ Reaches(c, N, q, Home[p])
        BY <2>3 DEF Parts, Meeting
      <3>2. Announced(c, N, p) => Announced(c, M, p)'  BY <1>2, <1>3, <2>3 DEF Announced
      <3>3. Announced(c, N, q) => Announced(c, M, q)'  BY <1>2, <1>3, <2>3 DEF Announced
      <3>4. Reaches(c, N, p, Home[q]) => Reaches(c, M, p, Home[q])'  BY <1>2, <1>5, <2>3 DEF Reaches
      <3>5. Reaches(c, N, q, Home[p]) => Reaches(c, M, q, Home[p])'  BY <1>2, <1>5, <2>3 DEF Reaches
      <3> QED  BY <3>1, <3>2, <3>3, <3>4, <3>5
    <2> QED  BY <2>1, <2>2, <2>3
  <1> QED  BY <1>4, <1>6, <1>7 DEF Parts

\* A leave ends: c is told to close only if no peer of the worker is joined.
LEMMA LeaveEndsParts ==
  ASSUME Base, mishaps' = {}, NEW c \in Relays, NEW N, Parts(c, N), NEW i \in Instances, LeaveEnds(i)
  PROVE  Parts(c, N)'
  <1>1. UNCHANGED <<participants, fromRelay, serves, newest, seen, joined>>
    BY DEF LeaveEnds, PeerRetained, LastLeft, LateLeft
  <1>2. \/ UNCHANGED <<subscription, toRelay>>
        \/ /\ Subscribed(i) /\ UNCHANGED toRelay
           /\ subscription' = [subscription EXCEPT ![i].refCount = @ - 1]
        \/ /\ \A q \in joined : Home[q] # i
           /\ subscription' = [subscription EXCEPT ![i] = None]
           /\ toRelay' = [toRelay EXCEPT ![i] = [r \in Relays |-> @[r] \o Closing(i, r)]]
    <2>1. CASE PeerRetained(i)  BY <2>1 DEF PeerRetained
    <2>2. CASE LastLeft(i)
      <3>1. transport[i].localPeerIds = {} /\ DetachSession(i) /\ mishaps = {}  BY <2>2 DEF LastLeft
      <3>2. \A q \in joined : Home[q] # i  BY <3>1 DEF Base, LocalsSubscribed
      <3> QED  BY <3>1, <3>2 DEF DetachSession
    <2>3. CASE LateLeft(i)
      <3>1. transport[i] = None /\ DetachSession(i) /\ mishaps = {}  BY <2>3 DEF LateLeft
      <3>2. \A q \in joined : Home[q] # i  BY <3>1 DEF Base, LocalsSubscribed
      <3> QED  BY <3>1, <3>2 DEF DetachSession
    <2> QED  BY <2>1, <2>2, <2>3 DEF LeaveEnds
  <1>3. \A q \in joined : q \in Peers /\ Home[q] \in Instances
    BY JoinedHome DEF Base
  <1>4. \A j \in Instances : Subscribed(j)' => Subscribed(j) /\ toRelay'[j][c] = toRelay[j][c]
    <2> SUFFICES ASSUME NEW j \in Instances, subscription'[j] # None
                 PROVE  Subscribed(j) /\ toRelay'[j][c] = toRelay[j][c]
      BY DEF Subscribed
    <2>1. CASE UNCHANGED <<subscription, toRelay>>  BY <2>1 DEF Subscribed
    <2>2. CASE /\ Subscribed(i) /\ UNCHANGED toRelay
               /\ subscription' = [subscription EXCEPT ![i].refCount = @ - 1]
      BY <2>2 DEF Subscribed, Base, Records, Subscriptions
    <2>3. CASE /\ subscription' = [subscription EXCEPT ![i] = None]
               /\ toRelay' = [toRelay EXCEPT ![i] = [r \in Relays |-> @[r] \o Closing(i, r)]]
      BY <2>3 DEF Subscribed, Base, Records, Subscriptions, History, Traffic
    <2> QED  BY <1>2, <2>1, <2>2, <2>3
  <1>5. \A q \in joined : toRelay'[Home[q]][c] = toRelay[Home[q]][c]
    BY <1>2, <1>3 DEF Base, History, Traffic
  <1>6. Serving(c, N)'
    BY <1>1, <1>3, <1>4, <1>5 DEF Parts, Serving
  <1>7. SeenKnown(N)'
    BY <1>1 DEF Parts, SeenKnown, Known
  <1>8. Meeting(c, N)'
    BY <1>1, <1>5 DEF Parts, Meeting, Announced, Reaches, Known, Coming
  <1> QED  BY <1>6, <1>7, <1>8 DEF Parts

LEMMA RelaySubscribesParts ==
  ASSUME Base, NEW c \in Relays, NEW N, Parts(c, N), NEW i \in Instances, NEW r \in Relays,
         RelaySubscribes(i, r)
  PROVE  Parts(c, N)'
  <1> DEFINE m == Head(toRelay[i][r])
  <1>1. /\ toRelay[i][r] \in Seq(Message) /\ toRelay[i][r] # <<>> /\ IsRequest(m)
        /\ toRelay' = [toRelay EXCEPT ![i][r] = Tail(@)]
        /\ serves' = [serves EXCEPT ![r][i] = m.request]
        /\ UNCHANGED <<subscription, participants, newest, seen, joined>>
    BY DEF Base, History, Traffic, RelaySubscribes
  <1>2. \A j \in Instances, s \in Relays : j # i \/ s # r =>
            toRelay'[j][s] = toRelay[j][s] /\ serves'[s][j] = serves[s][j]
    BY <1>1 DEF Base, History, Traffic
  <1>3. toRelay'[i][r] = Tail(toRelay[i][r]) /\ serves'[r][i] = m.request
    BY <1>1 DEF Base, History, Traffic
  <1>4. \A s \in Relays, j \in Instances : ToSet(fromRelay[s][j]) \subseteq ToSet(fromRelay'[s][j])
    <2>1. PICK add \in Seq(Delivery) : fromRelay' = [fromRelay EXCEPT ![r][i] = @ \o add]
      BY RelaySubscribesPushes DEF Base
    <2>2. fromRelay[r][i] \in Seq(Delivery)  BY DEF Base, History, Traffic
    <2>3. ToSet(fromRelay[r][i] \o add) = ToSet(fromRelay[r][i]) \cup ToSet(add)
      BY <2>2, ConcatElements
    <2> QED  BY <2>1, <2>3 DEF Base, History, Traffic
  <1>5. ASSUME NEW j \in Instances, NEW p, NEW n
        PROVE  /\ Opened(serves[c][j], toRelay[j][c]) => Opened(serves'[c][j], toRelay'[j][c])
               /\ Precedes(serves[c][j], toRelay[j][c], p, n) => Precedes(serves'[c][j], toRelay'[j][c], p, n)
               /\ Announcing(toRelay[j][c], p, n) => Announcing(toRelay'[j][c], p, n)
    <2>1. CASE j = i /\ c = r
      <3>1. m \in Message  BY <1>1, TailFacts
      <3>2. ~Announcement(m, p, n)
        BY <1>1 DEF Announcement, Own, Events, IsRequest
      <3> HIDE DEF m
      <3>3. /\ Opened(serves[r][i], toRelay[i][r]) => Opened(m.request, Tail(toRelay[i][r]))
            /\ Precedes(serves[r][i], toRelay[i][r], p, n) => Precedes(m.request, Tail(toRelay[i][r]), p, n)
            /\ Announcing(toRelay[i][r], p, n) => Announcing(Tail(toRelay[i][r]), p, n) \/ Announcement(m, p, n)
        BY <1>1, TailKeeps DEF m
      <3> QED  BY <1>3, <2>1, <3>2, <3>3 DEF m
    <2>2. CASE ~(j = i /\ c = r)  BY <1>2, <2>2
    <2> QED  BY <2>1, <2>2
  <1> HIDE DEF m
  <1>6. \A q \in joined : q \in Peers /\ Home[q] \in Instances
    BY JoinedHome DEF Base
  <1>7. Serving(c, N)'
    BY <1>1, <1>5, <1>6 DEF Parts, Serving, Subscribed
  <1>8. SeenKnown(N)'
    BY <1>1 DEF Parts, SeenKnown, Known
  <1>9. ASSUME NEW q \in joined, NEW j \in Instances  PROVE Reaches(c, N, q, j) => Reaches(c, N, q, j)'
    BY <1>1, <1>4 DEF Reaches, Known, Coming
  <1>10. ASSUME NEW q \in joined  PROVE Announced(c, N, q) => Announced(c, N, q)'
    BY <1>5, <1>6 DEF Announced
  <1>11. Meeting(c, N)'
    BY <1>1, <1>6, <1>9, <1>10 DEF Parts, Meeting
  <1> QED  BY <1>7, <1>8, <1>11 DEF Parts

\* The relay forwards an event: the announcement of q comes to the workers it
\* serves; one it does not serve has its own announcement still to make.
LEMMA RelayForwardsParts ==
  ASSUME Base, NEW c \in Relays, NEW N, Parts(c, N), NEW i \in Instances, NEW r \in Relays,
         RelayForwards(i, r)
  PROVE  Parts(c, N)'
  <1> DEFINE e == Head(toRelay[i][r])
             d(j) == [to |-> serves[r][j], event |-> e]
  <1>1. /\ toRelay[i][r] \in Seq(Message) /\ toRelay[i][r] # <<>> /\ ~IsRequest(e)
        /\ toRelay' = [toRelay EXCEPT ![i][r] = Tail(@)]
        /\ fromRelay' = [fromRelay EXCEPT ![r] = [j \in Instances |->
               IF serves[r][j] = 0 THEN @[j] ELSE Append(@[j], d(j))]]
        /\ UNCHANGED <<subscription, participants, newest, seen, joined, serves>>
    BY DEF Base, History, Traffic, RelayForwards
  <1>2. \A j \in Instances, s \in Relays : j # i \/ s # r => toRelay'[j][s] = toRelay[j][s]
    BY <1>1 DEF Base, History, Traffic
  <1>3. toRelay'[i][r] = Tail(toRelay[i][r])
    BY <1>1 DEF Base, History, Traffic
  <1>4. e \in Own
    <2>1. e \in Message  BY <1>1, TailFacts
    <2> QED  BY <1>1, <2>1, OwnIsNoRequest
  <1>5. ASSUME NEW j \in Instances, NEW p, NEW n
        PROVE  /\ Opened(serves[c][j], toRelay[j][c]) => Opened(serves[c][j], toRelay'[j][c])
               /\ Precedes(serves[c][j], toRelay[j][c], p, n) => Precedes(serves[c][j], toRelay'[j][c], p, n)
               /\ Announcing(toRelay[j][c], p, n) =>
                      \/ Announcing(toRelay'[j][c], p, n)
                      \/ j = i /\ c = r /\ Announcement(e, p, n)
    <2>1. CASE j = i /\ c = r
      <3> HIDE DEF e
      <3>1. /\ Opened(serves[r][i], toRelay[i][r]) => Opened(serves[r][i], Tail(toRelay[i][r]))
            /\ Precedes(serves[r][i], toRelay[i][r], p, n) => Precedes(serves[r][i], Tail(toRelay[i][r]), p, n)
            /\ Announcing(toRelay[i][r], p, n) => Announcing(Tail(toRelay[i][r]), p, n) \/ Announcement(e, p, n)
        BY <1>1, TailKeeps DEF e
      <3> QED  BY <1>3, <2>1, <3>1
    <2>2. CASE ~(j = i /\ c = r)  BY <1>2, <2>2
    <2> QED  BY <2>1, <2>2
  <1> HIDE DEF e
  <1>6. \A j \in Instances : fromRelay[r][j] \in Seq(Delivery) /\ d(j) \in Delivery /\ d(j).event = e
    BY <1>4 DEF Base, History, Traffic, Delivery
  <1> HIDE DEF d
  <1>7. \A j \in Instances : ToSet(Append(fromRelay[r][j], d(j))) = ToSet(fromRelay[r][j]) \cup {d(j)}
    BY <1>6, AppendSet
  <1>8. \A s \in Relays, j \in Instances : ToSet(fromRelay[s][j]) \subseteq ToSet(fromRelay'[s][j])
    BY <1>1, <1>7 DEF Base, History, Traffic
  <1>9. \A j \in Instances : serves[r][j] # 0 => d(j) \in ToSet(fromRelay'[r][j])
    BY <1>1, <1>7 DEF Base, History, Traffic
  <1>10. \A q \in joined : q \in Peers /\ Home[q] \in Instances
    BY JoinedHome DEF Base
  <1>11. Serving(c, N)'
    BY <1>1, <1>5, <1>10 DEF Parts, Serving, Subscribed
  <1>12. SeenKnown(N)'
    BY <1>1 DEF Parts, SeenKnown, Known
  <1>13. ASSUME NEW q \in joined, NEW j \in Instances  PROVE Reaches(c, N, q, j) => Reaches(c, N, q, j)'
    BY <1>1, <1>8 DEF Reaches, Known, Coming
  <1>14. ASSUME NEW q \in joined, NEW p \in joined, Home[p] # Home[q], Announced(c, N, q)
         PROVE  Announced(c, N, q)' \/ Announced(c, N, p)' \/ Reaches(c, N, q, Home[p])'
    <2>1. CASE Announcing(toRelay'[Home[q]][c], q, N[q])  BY <2>1 DEF Announced
    <2>2. CASE Home[q] = i /\ c = r /\ Announcement(e, q, N[q])
      <3>1. CASE serves[c][Home[p]] # 0
        <4>1. d(Home[p]) \in ToSet(fromRelay'[c][Home[p]]) /\ d(Home[p]).event = e
          BY <1>6, <1>9, <1>10, <2>2, <3>1
        <4> QED  BY <2>2, <4>1 DEF Reaches, Coming
      <3>2. CASE serves[c][Home[p]] = 0
        <4>1. Precedes(serves[c][Home[p]], toRelay[Home[p]][c], p, N[p])  BY DEF Parts, Serving
        <4>2. Announcing(toRelay[Home[p]][c], p, N[p])  BY <3>2, <4>1, PrecedesServes
        <4>3. toRelay'[Home[p]][c] = toRelay[Home[p]][c]  BY <1>2, <1>10, <1>14, <2>2
        <4> QED  BY <4>2, <4>3 DEF Announced
      <3> QED  BY <3>1, <3>2
    <2> QED  BY <1>5, <1>10, <1>14, <2>1, <2>2 DEF Announced
  <1>15. Meeting(c, N)'
    <2> SUFFICES ASSUME NEW p \in joined, NEW q \in joined, Home[p] # Home[q]
                 PROVE  \/ Announced(c, N, p)' \/ Announced(c, N, q)'
                        \/ Reaches(c, N, p, Home[q])' \/ Reaches(c, N, q, Home[p])'
      BY <1>1 DEF Meeting
    <2>1. \/ Announced(c, N, p) \/ Announced(c, N, q)
          \/ Reaches(c, N, p, Home[q]) \/ Reaches(c, N, q, Home[p])
      BY DEF Parts, Meeting
    <2>2. CASE Announced(c, N, p)  BY <1>14, <2>2
    <2>3. CASE Announced(c, N, q)  BY <1>14, <2>3
    <2> QED  BY <1>10, <1>13, <2>1, <2>2, <2>3
  <1> QED  BY <1>11, <1>12, <1>15 DEF Parts

\* The worker lists the peers of a join it handles, unless it was full.
LEMMA HandleEventParts ==
  ASSUME Base, mishaps' = {}, NEW c \in Relays, NEW N, Numbered(N), Parts(c, N),
         NEW i \in Instances, NEW r \in Relays, HandleEvent(r, i)
  PROVE  Parts(c, N)'
  <1> DEFINE m == Head(fromRelay[r][i])
             e == m.event
  <1>1. /\ fromRelay[r][i] # <<>> /\ Dropped(r, i) /\ e.by # i /\ TrackSeen(i, e)
        /\ participants' = [participants EXCEPT ![i] = Changed(i, e)]
        /\ newest' = [newest EXCEPT ![i][e.by] = IF e.n > @ THEN e.n ELSE @]
        /\ mishaps' = mishaps \cup (IF e.n < newest[i][e.by] THEN {"overtaken"} ELSE {})
              \cup (IF e.type = "leave" \/ {e.peer} \cup e.target \subseteq Changed(i, e)
                      THEN {} ELSE {"limit"})
        /\ UNCHANGED <<subscription, serves, toRelay, joined, kept>>
    BY DEF HandleEvent, New
  <1>2. ~(e.n < newest[i][e.by]) /\ (e.type = "leave" \/ e.peer \in Changed(i, e))
    BY <1>1
  <1>3. e \in Traveling /\ e \in Own
    BY <1>1, DroppedTravels DEF Base, Traveling
  <1>4. \A s \in Relays, j \in Instances : \A x \in ToSet(fromRelay[s][j]) :
            x \in ToSet(fromRelay'[s][j]) \/ (s = r /\ j = i /\ x = m)
    <2>1. fromRelay[r][i] \in Seq(Delivery)  BY DEF Base, History, Traffic
    <2>2. ToSet(fromRelay[r][i]) \subseteq ToSet(Tail(fromRelay[r][i])) \cup {m}
      BY <1>1, <2>1, TailElements
    <2> QED  BY <1>1, <2>2 DEF Dropped, Base, History, Traffic
  <1> HIDE DEF m
  <1>5. e.by \in Instances /\ e.n \in Nat /\ Home[e.peer] = e.by /\ e.type \in {"join", "leave", "signal"}
        /\ EventId(e) = <<e.by, e.n>> /\ EventId(e) \in Ids
    BY <1>3, OwnIds DEF EventId
  <1>6. \A j \in Instances, k \in Instances : newest[j][k] \in Nat
    BY OwnFacts
  <1>7. /\ newest'[i][e.by] = (IF e.n > newest[i][e.by] THEN e.n ELSE newest[i][e.by])
        /\ \A j \in Instances, k \in Instances : j # i \/ k # e.by => newest'[j][k] = newest[j][k]
    BY <1>1, <1>5 DEF Base, History, Logs
  <1>8. /\ participants'[i] = Changed(i, e)
        /\ \A j \in Instances \ {i} : participants'[j] = participants[j]
    BY <1>1 DEF Base, Records, Listing
  <1>9. \A q \in joined : q \in Peers /\ Home[q] \in Instances /\ N[q] \in Nat
    BY JoinedHome DEF Base, Numbered
  <1>10. \A j \in Instances, k \in Instances : newest[j][k] <= newest'[j][k] /\ newest'[j][k] \in Nat
    BY <1>5, <1>6, <1>7
  <1>11. ASSUME NEW q \in joined, NEW j \in Instances, Known(N, q, j)  PROVE Known(N, q, j)'
    <2>1. N[q] <= newest'[j][Home[q]]
      <3>1. N[q] <= newest[j][Home[q]]  BY <1>11 DEF Known
      <3>2. newest[j][Home[q]] <= newest'[j][Home[q]] /\ newest[j][Home[q]] \in Nat
            /\ newest'[j][Home[q]] \in Nat /\ N[q] \in Nat
        BY <1>6, <1>9, <1>10
      <3> QED  BY <3>1, <3>2
    <2>2. q \in participants'[j]
      <3>1. CASE j = i /\ e.type = "leave" /\ e.peer = q
        <4>1. e.n < N[q]  BY <1>3, <3>1 DEF Numbered
        <4>2. e.n < newest[i][e.by]
          <5>1. N[q] <= newest[i][Home[q]] /\ Home[q] = e.by  BY <1>5, <1>11, <3>1 DEF Known
          <5> QED  BY <1>5, <1>6, <1>9, <4>1, <5>1
        <4> QED  BY <1>2, <4>2
      <3>2. CASE j = i /\ e.type = "leave" /\ e.peer # q
        BY <1>8, <1>11, <3>2 DEF Changed, Known
      <3>3. CASE j = i /\ e.type # "leave"
        <4>1. Changed(i, e) = AddPeers(i, e)  BY <1>5, <3>3 DEF Changed
        <4>2. participants[i] \subseteq AddPeers(i, e)  BY DEF AddPeers
        <4> QED  BY <1>8, <1>11, <3>3, <4>1, <4>2 DEF Known
      <3>4. CASE j # i  BY <1>8, <1>11, <3>4 DEF Known
      <3> QED  BY <3>1, <3>2, <3>3, <3>4
    <2> QED  BY <2>1, <2>2 DEF Known
  <1>12. ASSUME NEW q \in joined, e.type = "join", e.peer = q, e.n = N[q]  PROVE Known(N, q, i)'
    <2>1. q \in participants'[i]  BY <1>2, <1>8, <1>12
    <2>2. N[q] <= newest'[i][Home[q]]
      <3>1. Home[q] = e.by  BY <1>5, <1>12
      <3> QED  BY <1>5, <1>6, <1>7, <1>12, <3>1
    <2> QED  BY <2>1, <2>2 DEF Known
  <1>13. ASSUME NEW q \in joined, NEW j \in Instances, Reaches(c, N, q, j)  PROVE Reaches(c, N, q, j)'
    <2>1. CASE Known(N, q, j)  BY <1>11, <2>1 DEF Reaches
    <2>2. CASE Coming(c, N, q, j)
      <3>1. PICK x \in ToSet(fromRelay[c][j]) : Announcement(x.event, q, N[q])  BY <2>2 DEF Coming
      <3>2. CASE x \in ToSet(fromRelay'[c][j])  BY <1>1, <3>1, <3>2 DEF Reaches, Coming
      <3>3. CASE j = i /\ x = m
        <4>1. Known(N, q, i)'  BY <1>12, <3>1, <3>3 DEF Announcement
        <4> QED  BY <3>3, <4>1 DEF Reaches
      <3> QED  BY <1>4, <3>2, <3>3
    <2> QED  BY <1>13, <2>1, <2>2 DEF Reaches
  <1>14. Serving(c, N)'
    BY <1>1 DEF Parts, Serving, Subscribed
  <1>15. SeenKnown(N)'
    <2>1. /\ \A j \in Instances \ {i} : seen'[j] = seen[j]
          /\ ToSet(seen'[i]) \subseteq ToSet(seen[i]) \cup {EventId(e)}
      BY <1>1, <1>5, TrackSeenKeeps DEF Base, History
    <2> SUFFICES ASSUME NEW q \in joined, NEW j \in Instances \ {Home[q]}, <<Home[q], N[q]>> \in ToSet(seen'[j])
                 PROVE  Known(N, q, j)'
      BY <1>1 DEF SeenKnown
    <2>2. CASE <<Home[q], N[q]>> \in ToSet(seen[j])
      <3>1. Known(N, q, j)  BY <2>2 DEF Parts, SeenKnown
      <3> QED  BY <1>11, <3>1
    <2>3. CASE j = i /\ <<Home[q], N[q]>> = <<e.by, e.n>>
      <3>1. e.by = Home[q] /\ e.n = N[q]  BY <2>3
      <3>2. e.type = "join" /\ e.peer = q  BY <1>3, <3>1 DEF Numbered
      <3> QED  BY <1>12, <2>3, <3>1, <3>2
    <2> QED  BY <1>5, <2>1, <2>2, <2>3
  <1>16. Meeting(c, N)'
    BY <1>1, <1>9, <1>13 DEF Parts, Meeting, Announced
  <1> QED  BY <1>14, <1>15, <1>16 DEF Parts

\* A worker with a peer in the session only drops events it has handled.
LEMMA IgnoreEventParts ==
  ASSUME Base, mishaps' = {}, NEW c \in Relays, NEW N, Numbered(N), Parts(c, N),
         NEW i \in Instances, NEW r \in Relays, IgnoreEvent(r, i)
  PROVE  Parts(c, N)'
  <1> DEFINE m == Head(fromRelay[r][i])
             e == m.event
  <1>1. /\ fromRelay[r][i] # <<>> /\ Dropped(r, i) /\ mishaps = {}
        /\ Subscribed(i) => ~New(i, e)
        /\ UNCHANGED <<subscription, serves, toRelay, joined, participants, newest, seen>>
    BY DEF IgnoreEvent
  <1>2. \A s \in Relays, j \in Instances : \A x \in ToSet(fromRelay[s][j]) :
            x \in ToSet(fromRelay'[s][j]) \/ (s = r /\ j = i /\ x = m)
    <2>1. fromRelay[r][i] \in Seq(Delivery)  BY DEF Base, History, Traffic
    <2>2. ToSet(fromRelay[r][i]) \subseteq ToSet(Tail(fromRelay[r][i])) \cup {m}
      BY <1>1, <2>1, TailElements
    <2> QED  BY <1>1, <2>2 DEF Dropped, Base, History, Traffic
  <1>3. e \in Own
    BY <1>1, HeadDelivery DEF Base, History
  <1> HIDE DEF m
  <1>4. \A q \in joined : q \in Peers /\ Home[q] \in Instances
    BY JoinedHome DEF Base
  <1>5. ASSUME NEW q \in joined, NEW p \in joined, Home[p] # Home[q], Reaches(c, N, q, Home[p])
        PROVE  Reaches(c, N, q, Home[p])'
    <2>1. CASE Known(N, q, Home[p])  BY <1>1, <2>1 DEF Reaches, Known
    <2>2. CASE Coming(c, N, q, Home[p])
      <3>1. PICK x \in ToSet(fromRelay[c][Home[p]]) : Announcement(x.event, q, N[q])  BY <2>2 DEF Coming
      <3>2. CASE x \in ToSet(fromRelay'[c][Home[p]])  BY <1>1, <3>1, <3>2 DEF Reaches, Coming
      <3>3. CASE Home[p] = i /\ x = m
        <4>1. Subscribed(i)  BY <1>1, <3>3 DEF Base, LocalsSubscribed
        <4>2. e.by = Home[q] /\ EventId(e) = <<Home[q], N[q]>>
          BY <1>3, <3>1, <3>3, OwnIds DEF Announcement, EventId
        <4>3. <<Home[q], N[q]>> \in ToSet(seen[i])  BY <1>1, <1>5, <3>3, <4>1, <4>2 DEF New
        <4>4. Known(N, q, i)  BY <1>4, <1>5, <3>3, <4>3 DEF Parts, SeenKnown
        <4> QED  BY <1>1, <3>3, <4>4 DEF Reaches, Known
      <3> QED  BY <1>2, <1>4, <3>2, <3>3
    <2> QED  BY <1>5, <2>1, <2>2 DEF Reaches
  <1>6. Serving(c, N)'
    BY <1>1 DEF Parts, Serving, Subscribed
  <1>7. SeenKnown(N)'
    BY <1>1 DEF Parts, SeenKnown, Known
  <1>8. Meeting(c, N)'
    <2> SUFFICES ASSUME NEW p \in joined, NEW q \in joined, Home[p] # Home[q]
                 PROVE  \/ Announced(c, N, p)' \/ Announced(c, N, q)'
                        \/ Reaches(c, N, p, Home[q])' \/ Reaches(c, N, q, Home[p])'
      BY <1>1 DEF Meeting
    <2>1. \/ Announced(c, N, p) \/ Announced(c, N, q)
          \/ Reaches(c, N, p, Home[q]) \/ Reaches(c, N, q, Home[p])
      BY DEF Parts, Meeting
    <2> QED  BY <1>1, <1>5, <2>1 DEF Announced
  <1> QED  BY <1>6, <1>7, <1>8 DEF Parts

\* What c gets of a published event, e, and of the asks before it.
LEMMA SentTo ==
  ASSUME Traffic, NEW i \in Instances, NEW relays, NEW asks \in [Relays -> Seq(Message)],
         NEW e \in Own, NEW failed, Send(i, relays, asks, e, failed), NEW c \in Relays
  PROVE  /\ \A j \in Instances \ {i} : toRelay'[j][c] = toRelay[j][c]
         /\ c \in ToSet(relays) /\ failed = {} => toRelay'[i][c] = (toRelay[i][c] \o asks[c]) \o <<e>>
         /\ toRelay'[i][c] = (toRelay[i][c] \o asks[c]) \o <<e>>
            \/ toRelay'[i][c] = (toRelay[i][c] \o asks[c]) \o <<>>
  <1>1. /\ \A j \in Instances \ {i} : toRelay'[j] = toRelay[j]
        /\ \A r \in Relays : toRelay'[i][r] = Outgoing(i, r, relays, asks, e, failed)
    <2>1. Traffic  OBVIOUS
    <2>2. asks \in [Relays -> Seq(Message)]  OBVIOUS
    <2>3. Send(i, relays, asks, e, failed)  OBVIOUS
    <2> HIDE DEF Traffic, Send
    <2>4. e \in Own /\ i \in Instances  OBVIOUS
    <2> QED  BY <2>1, <2>2, <2>3, <2>4, SendTyped, ZenonT(60)
  <1>2. toRelay'[i][c] = (toRelay[i][c] \o asks[c]) \o (IF c \in ToSet(relays) \ failed THEN <<e>> ELSE <<>>)
    BY <1>1 DEF Outgoing
  <1> QED  BY <1>1, <1>2

LEMMA EventOpensNothing ==
  ASSUME NEW e \in Own
  PROVE  <<e>> \in Seq(Message) /\ NeverCloses(<<e>>, 0) /\ <<>> \in Seq(Message) /\ NeverCloses(<<>>, 0)
  <1>1. e \in Message  BY DEF Message
  <1>2. <<e>> \in Seq(Message) /\ DOMAIN <<e>> = {1} /\ <<e>>[1] = e /\ DOMAIN <<>> = {}  BY <1>1
  <1>3. ~IsRequest(e)  BY DEF IsRequest, Own, Events
  <1> QED  BY <1>2, <1>3 DEF NeverCloses

\* ... without asks.
LEMMA SentAlone ==
  ASSUME Traffic, NEW i \in Instances, NEW relays, NEW e \in Own, NEW failed,
         Send(i, relays, NoRequests, e, failed), NEW c \in Relays
  PROVE  \E t \in Seq(Message) : NeverCloses(t, 0) /\ toRelay'[i][c] = toRelay[i][c] \o t
  <1>1. toRelay'[i][c] = (toRelay[i][c] \o NoRequests[c]) \o <<e>>
        \/ toRelay'[i][c] = (toRelay[i][c] \o NoRequests[c]) \o <<>>
    BY SentTo, NoRequestsTyped
  <1>2. NoRequests[c] = <<>>  BY DEF NoRequests
  <1>3. toRelay[i][c] \in Seq(Message)  BY DEF Traffic
  <1>4. /\ (toRelay[i][c] \o <<>>) \o <<e>> = toRelay[i][c] \o <<e>>
        /\ (toRelay[i][c] \o <<>>) \o <<>> = toRelay[i][c] \o <<>>
    BY <1>3, EventOpensNothing, ConcatEmpty
  <1> QED  BY <1>1, <1>2, <1>4, EventOpensNothing

LEMMA MeetSignal ==
  ASSUME Base, NEW c \in Relays, NEW N, Numbered(N), mishaps = {} => Parts(c, N),
         NEW i \in Instances, NEW p \in Peers, NEW target \in SUBSET Peers, NEW hints \in Hints,
         SendSignal(i, p, target, hints)
  PROVE  Numbered(N)' /\ (mishaps' = {} => Parts(c, N)')
  <1> DEFINE relays == ResolveRelays(RelayHints(i, hints))
             e == Event(i, "signal", p, target)
  <1>1. /\ Home[p] = i /\ sent[i] < MaxSent /\ Publish(i, relays, NoRequests, e)
        /\ UNCHANGED <<subscription, participants, serves, kept, fromRelay, joined, newest>>
    BY DEF SendSignal
  <1>2. e \in Own /\ EventId(e) = <<i, sent[i] + 1>> /\ EventId(e) \in Ids
    BY <1>1, OwnEvent DEF Base, History
  <1>3. e.by = i /\ e.n = sent[i] + 1 /\ e.type = "signal"
    BY DEF Event
  <1> HIDE DEF e, relays
  <1>4. PICK failed \in SUBSET ToSet(relays) :
            /\ Send(i, relays, NoRequests, e, failed)
            /\ mishaps' = mishaps \cup IF failed = {} THEN {} ELSE {"lost"}
            /\ TrackSeen(i, e)
            /\ sent' = [sent EXCEPT ![i] = @ + 1]
    BY <1>1 DEF Publish
  <1>5. /\ \A j \in Instances \ {i} : seen'[j] = seen[j]
        /\ ToSet(seen'[i]) \subseteq ToSet(seen[i]) \cup {EventId(e)}
    BY <1>2, <1>4, TrackSeenKeeps DEF Base, History
  <1>6. Traveling' \subseteq Traveling \cup {e}
    BY <1>1, <1>2, <1>4, PublishTravels, NoRequestsAlone DEF Base
  <1>7. Numbered(N)'
    <2>1. \A j \in Instances : ToSet(seen'[j]) \subseteq ToSet(seen[j]) \cup {EventId(e)}
      BY <1>5
    <2>2. Renumbered(N, N, i, e)  BY <1>1, <1>3 DEF Renumbered
    <2> HIDE DEF Numbered, Base
    <2> QED  BY <1>2, <1>3, <1>4, <1>6, <2>1, <2>2, NumberedPublished
  <1>8. ASSUME mishaps' = {}  PROVE Parts(c, N)'
    <2>1. Parts(c, N)  BY <1>4, <1>8
    <2>2. PICK t \in Seq(Message) : NeverCloses(t, 0) /\ toRelay'[i][c] = toRelay[i][c] \o t
      BY <1>2, <1>4, SentAlone DEF Base, History
    <2>3. \A j \in Instances \ {i} : toRelay'[j][c] = toRelay[j][c]
      BY <1>2, <1>4, SentTo, NoRequestsTyped DEF Base, History
    <2>4. \A j \in Instances : \A id \in ToSet(seen'[j]) : id \in ToSet(seen[j]) \/ id[1] = j
      BY <1>2, <1>5
    <2>5. joined' \subseteq Peers  BY <1>1 DEF Base, Records, Listing
    <2>6. \A j \in Instances : Subscribed(j)' => Subscribed(j)  BY <1>1 DEF Subscribed
    <2> HIDE DEF Base, Parts, NeverCloses
    <2>7. Reannounced(c, N, N, i)  BY <1>1 DEF Reannounced
    <2> QED  BY <1>1, <2>1, <2>2, <2>3, <2>4, <2>5, <2>6, <2>7, PublishedParts
  <1> QED  BY <1>7, <1>8

LEMMA MeetLeave ==
  ASSUME Base, NEW c \in Relays, NEW N, Numbered(N), mishaps = {} => Parts(c, N),
         NEW i \in Instances, NEW p \in Peers, Leave(i, p)
  PROVE  Numbered(N)' /\ (mishaps' = {} => Parts(c, N)')
  <1> DEFINE relays == ResolveRelays(SessionRelays(i))
             e == Event(i, "leave", p, {})
  <1>1. /\ Home[p] = i /\ joined' = joined \ {p}
        /\ participants' = [participants EXCEPT ![i] = @ \ {p}]
        /\ UNCHANGED <<subscription, serves, kept, fromRelay, newest>>
    BY DEF Leave
  <1>2. /\ joined' \subseteq Peers /\ joined' \subseteq joined
        /\ \A j \in Instances : Subscribed(j)' => Subscribed(j)
        /\ \A j \in Instances : \A q \in participants[j] : Home[q] # j => q \in participants'[j]
    BY <1>1 DEF Base, Records, Listing, Subscribed
  <1>3. CASE UNCHANGED <<transport, waiting, seen, sent, toRelay, forgotten, mishaps>>
    <2>1. Traveling' \subseteq Traveling  BY <1>1, <1>3 DEF Traveling, Travels
    <2>2. Numbered(N)'
      <3>1. sent' = sent /\ \A j \in Instances : ToSet(seen'[j]) = ToSet(seen[j])  BY <1>3
      <3> HIDE DEF Numbered, Base
      <3> QED  BY <1>2, <2>1, <3>1, NumberedKept
    <2>3. ASSUME Parts(c, N)  PROVE Parts(c, N)'
      <3>1. Serving(c, N)'  BY <1>1, <1>2, <1>3, <2>3 DEF Parts, Serving
      <3>2. ASSUME NEW q \in joined', NEW j \in Instances, Home[q] # j  PROVE Known(N, q, j) => Known(N, q, j)'
        BY <1>1, <1>2, <3>2 DEF Known
      <3>3. SeenKnown(N)'  BY <1>2, <1>3, <2>3, <3>2 DEF Parts, SeenKnown
      <3>4. \A q \in joined' : Home[q] \in Instances  BY <1>2, InstancesAssumption
      <3>5. Meeting(c, N)'
        BY <1>1, <1>2, <1>3, <2>3, <3>2, <3>4 DEF Parts, Meeting, Announced, Reaches, Coming
      <3> QED  BY <3>1, <3>3, <3>5 DEF Parts
    <2> QED  BY <1>3, <2>2, <2>3
  <1>4. CASE sent[i] < MaxSent /\ Publish(i, relays, NoRequests, e)
    <2>1. e \in Own /\ EventId(e) = <<i, sent[i] + 1>> /\ EventId(e) \in Ids
      BY <1>1, <1>4, OwnEvent DEF Base, History
    <2>2. e.by = i /\ e.n = sent[i] + 1 /\ e.type = "leave" /\ e.peer = p
      BY DEF Event
    <2> HIDE DEF e, relays
    <2>3. PICK failed \in SUBSET ToSet(relays) :
              /\ Send(i, relays, NoRequests, e, failed)
              /\ mishaps' = mishaps \cup IF failed = {} THEN {} ELSE {"lost"}
              /\ TrackSeen(i, e)
              /\ sent' = [sent EXCEPT ![i] = @ + 1]
      BY <1>4 DEF Publish
    <2>4. /\ \A j \in Instances \ {i} : seen'[j] = seen[j]
          /\ ToSet(seen'[i]) \subseteq ToSet(seen[i]) \cup {EventId(e)}
      BY <2>1, <2>3, TrackSeenKeeps DEF Base, History
    <2>5. Traveling' \subseteq Traveling \cup {e}
      BY <1>1, <2>1, <2>3, PublishTravels, NoRequestsAlone DEF Base
    <2>6. Numbered(N)'
      <3>1. \A j \in Instances : ToSet(seen'[j]) \subseteq ToSet(seen[j]) \cup {EventId(e)}
        BY <2>4
      <3>2. Renumbered(N, N, i, e)  BY <1>1, <2>2 DEF Renumbered
      <3> HIDE DEF Numbered, Base
      <3>3. sent' = [sent EXCEPT ![i] = @ + 1]  BY <2>3
      <3>4. e \in Own /\ e.by = i /\ e.n = sent[i] + 1  BY <2>1, <2>2
      <3> QED  BY <2>5, <3>1, <3>2, <3>3, <3>4, NumberedPublished
    <2>7. ASSUME mishaps' = {}  PROVE Parts(c, N)'
      <3>1. Parts(c, N)  BY <2>3, <2>7
      <3>2. PICK t \in Seq(Message) : NeverCloses(t, 0) /\ toRelay'[i][c] = toRelay[i][c] \o t
        BY <2>1, <2>3, SentAlone DEF Base, History
      <3>3. \A j \in Instances \ {i} : toRelay'[j][c] = toRelay[j][c]
        BY <2>1, <2>3, SentTo, NoRequestsTyped DEF Base, History
      <3>4. \A j \in Instances : \A id \in ToSet(seen'[j]) : id \in ToSet(seen[j]) \/ id[1] = j
        BY <2>1, <2>4
      <3> HIDE DEF Base, Parts, NeverCloses
      <3>5. Reannounced(c, N, N, i)  BY <1>1 DEF Reannounced
      <3> QED  BY <1>1, <1>2, <3>1, <3>2, <3>3, <3>4, <3>5, PublishedParts
    <2> QED  BY <2>6, <2>7
  <1> QED  BY <1>3, <1>4 DEF Leave

\* What attaching asks of c, which is in the list.
LEMMA RequestsOpen ==
  ASSUME Logs, NEW i \in Instances, NEW relays, NEW c \in Relays, c \in ToSet(relays),
         NEW s \in Seq(Message), NEW v, Subscribed(i) => Opened(v, s)
  PROVE  /\ s \o Requests(i, relays)[c] \in Seq(Message) /\ Opened(v, s \o Requests(i, relays)[c])
         /\ NeverCloses(Requests(i, relays)[c], 0)
  <1>1. CASE Reuses(i, relays)
    <2>1. Requests(i, relays)[c] = <<>>  BY <1>1 DEF Requests
    <2>0. Subscribed(i)  BY <1>1 DEF Reuses
    <2>2. NeverCloses(<<>>, 0) /\ <<>> \in Seq(Message)
      <3>1. DOMAIN <<>> = {}  OBVIOUS
      <3> QED  BY <3>1 DEF NeverCloses
    <2>3. s \o <<>> \in Seq(Message)  BY <2>2, ConcatFacts
    <2>4. Opened(v, s \o <<>>)  BY <2>0, <2>2, AppendKeeps
    <2> QED  BY <2>1, <2>2, <2>3, <2>4
  <1>2. CASE ~Reuses(i, relays)
    <2>1. Requests(i, relays)[c] = <<Request(subscribed[i] + 1)>>  BY <1>2 DEF Requests
    <2>2. subscribed[i] + 1 \in Nat \ {0}
      <3>1. subscribed[i] \in Nat  BY DEF Logs
      <3> QED  BY <3>1
    <2> QED  BY <2>1, <2>2, RequestOpens
  <1> QED  BY <1>1, <1>2

LEMMA NeverClosesConcat ==
  ASSUME NEW s \in Seq(Message), NEW t \in Seq(Message), NeverCloses(s, 0), NeverCloses(t, 0)
  PROVE  s \o t \in Seq(Message) /\ NeverCloses(s \o t, 0)
  <1>1. NeverCloses(s \o t, 0)  BY AppendKeeps
  <1> QED  BY <1>1, ConcatFacts

LEMMA MeetJoin ==
  ASSUME Base, NEW c \in Relays, NEW lists, SharedRelay(c, lists), Shared(c, lists),
         NEW N, Numbered(N), mishaps = {} => Parts(c, N),
         NEW i \in Instances, NEW p \in Peers, NEW hints \in Hints, Join(i, p, hints)
  PROVE  \E M : Numbered(M)' /\ (mishaps' = {} => Parts(c, M)')
  <1> DEFINE relays == ResolveRelays(RelayHints(i, hints))
             asks == Requests(i, relays)
             e == Event(i, "join", p, {})
  <1>0. PICK M : M = [q \in Peers |-> IF q = p THEN sent[i] + 1 ELSE N[q]]
    OBVIOUS
  <1>1. /\ Home[p] = i /\ sent[i] < MaxSent /\ Publish(i, relays, asks, e) /\ Attach(i, relays)
        /\ subscribed' = [subscribed EXCEPT ![i] = IF Reuses(i, relays) THEN @ ELSE @ + 1]
        /\ joined' = joined \cup {p}
        /\ participants' = [participants EXCEPT ![i] = @ \cup {p}]
        /\ UNCHANGED <<serves, kept, fromRelay, newest>>
    BY DEF Join
  <1>2. c \in ToSet(relays)
    <2>1. SessionRelays(i) \in lists
      BY DEF SessionRelays, Shared, SharedRelay
    <2> QED  BY <2>1 DEF RelayHints, SharedRelay
  <1>3. e \in Own /\ EventId(e) = <<i, sent[i] + 1>> /\ EventId(e) \in Ids
    BY <1>1, OwnEvent DEF Base, History
  <1>4. e.by = i /\ e.n = sent[i] + 1 /\ e.type = "join" /\ e.peer = p
    BY DEF Event
  <1> HIDE DEF e, relays
  <1>5. PICK failed \in SUBSET ToSet(relays) :
            /\ Send(i, relays, asks, e, failed)
            /\ mishaps' = mishaps \cup IF failed = {} THEN {} ELSE {"lost"}
            /\ TrackSeen(i, e)
            /\ sent' = [sent EXCEPT ![i] = @ + 1]
    BY <1>1 DEF Publish
  <1>6. /\ asks \in [Relays -> Seq(Asking)] /\ asks \in [Relays -> Seq(Message)]
    BY RequestsAreAlone, RequestsTyped DEF Base, History
  <1> HIDE DEF asks
  <1>7. /\ \A j \in Instances \ {i} : seen'[j] = seen[j]
        /\ ToSet(seen'[i]) \subseteq ToSet(seen[i]) \cup {EventId(e)}
    BY <1>3, <1>5, TrackSeenKeeps DEF Base, History
  <1>8. Traveling' \subseteq Traveling \cup {e}
    BY <1>1, <1>3, <1>5, <1>6, PublishTravels DEF Base
  <1>9. /\ joined' \subseteq Peers
        /\ M[p] = sent[i] + 1
        /\ \A q \in joined' : q # p => q \in joined /\ M[q] = N[q]
    BY <1>0, <1>1 DEF Base, Records, Listing
  <1>10. Numbered(M)'
    <2>1. \A j \in Instances : ToSet(seen'[j]) \subseteq ToSet(seen[j]) \cup {EventId(e)}
      BY <1>7
    <2>2. Renumbered(N, M, i, e)  BY <1>1, <1>4, <1>9 DEF Renumbered
    <2> HIDE DEF Numbered, Base
    <2>3. sent' = [sent EXCEPT ![i] = @ + 1]  BY <1>5
    <2>4. e \in Own /\ e.by = i /\ e.n = sent[i] + 1  BY <1>3, <1>4
    <2> QED  BY <1>8, <2>1, <2>2, <2>3, <2>4, NumberedPublished
  <1>11. ASSUME mishaps' = {}  PROVE Parts(c, M)'
    <2>1. Parts(c, N) /\ failed = {}  BY <1>5, <1>11
    <2> DEFINE s == toRelay[i][c]
               v == serves[c][i]
               u == s \o asks[c]
               t == asks[c] \o <<e>>
    <2>2. /\ toRelay'[i][c] = u \o <<e>>
          /\ \A j \in Instances \ {i} : toRelay'[j][c] = toRelay[j][c]
      BY <1>2, <1>3, <1>5, <1>6, <2>1, SentTo, ZenonT(40) DEF Base, History
    <2>3. s \in Seq(Message) /\ asks[c] \in Seq(Message)  BY <1>6 DEF Base, History, Traffic
    <2>4. Subscribed(i) => Opened(v, s)  BY <2>1 DEF Parts, Serving
    <2> HIDE DEF s, v
    <2>5. u \in Seq(Message) /\ Opened(v, u) /\ NeverCloses(asks[c], 0)
      BY <1>2, <2>3, <2>4, RequestsOpen DEF asks, Base, History
    <2>6. u \o <<e>> = s \o t /\ t \in Seq(Message) /\ NeverCloses(t, 0)
      <3>1. <<e>> \in Seq(Message) /\ NeverCloses(<<e>>, 0)  BY <1>3, EventOpensNothing
      <3> DEFINE a == asks[c]
                 b == <<e>>
      <3>2. a \in Seq(Message) /\ b \in Seq(Message)  BY <2>3, <3>1
      <3>3. u \o <<e>> = (s \o a) \o b /\ s \o t = s \o (a \o b)  OBVIOUS
      <3> HIDE DEF a, b
      <3>4. (s \o a) \o b = s \o (a \o b)  BY <2>3, <3>2, ConcatAssoc
      <3>5. u \o <<e>> = s \o t  BY <3>3, <3>4
      <3> QED  BY <2>3, <2>5, <3>1, <3>5, NeverClosesConcat
    <2>7. Announcement(e, p, M[p])  BY <1>3, <1>4, <1>9 DEF Announcement
    <2> HIDE DEF u, t
    <2>8. Announcing(u \o <<e>>, p, M[p]) /\ Precedes(v, u \o <<e>>, p, M[p])
      BY <1>3, <2>5, <2>7, AnnounceLast
    <2>9. Opened(v, u \o <<e>>)
      BY <1>3, <2>5, EventOpensNothing, AppendKeeps
    <2>10. \A j \in Instances : \A id \in ToSet(seen'[j]) : id \in ToSet(seen[j]) \/ id[1] = j
      BY <1>3, <1>7
    <2>11. \A j \in Instances \ {i} : Subscribed(j)' => Subscribed(j)
      <3>1. \A j \in Instances \ {i} : subscription'[j] = subscription[j]
        BY <1>1, <1>5, AttachKeeps DEF Base, History, Records
      <3> QED  BY <3>1 DEF Subscribed
    <2>12. \A j \in Instances : \A q \in participants[j] : Home[q] # j => q \in participants'[j]
      BY <1>1 DEF Base, Records, Listing
    <2>13. \A j \in Instances \ {i} : <<i, M[p]>> \notin ToSet(seen[j])
      <3> SUFFICES ASSUME NEW j \in Instances, <<i, M[p]>> \in ToSet(seen[j])  PROVE FALSE
        OBVIOUS
      <3>1. M[p] <= sent[i]  BY DEF Numbered
      <3>2. sent[i] \in Nat  BY OwnFacts
      <3> QED  BY <1>9, <3>1, <3>2
    <2>14. Reannounced(c, N, M, i)
      BY <1>1, <1>9, <2>2, <2>8, <2>13 DEF v, Reannounced
    <2>15. toRelay'[i][c] = toRelay[i][c] \o t  BY <2>2, <2>6 DEF s
    <2>16. Opened(serves[c][i], toRelay'[i][c])  BY <2>2, <2>9 DEF v
    <2>17. UNCHANGED <<fromRelay, serves, newest>>  BY <1>1
    <2>18. /\ t \in Seq(Message) /\ NeverCloses(t, 0)
           /\ \A j \in Instances \ {i} : toRelay'[j][c] = toRelay[j][c]
           /\ joined' \subseteq Peers
      BY <1>9, <2>2, <2>6
    <2>19. Subscribed(i)' => Subscribed(i) \/ Opened(serves[c][i], toRelay'[i][c])  BY <2>16
    <2>20. Parts(c, N)  BY <2>1
    <2> HIDE DEF Base, Parts, NeverCloses
    <2> QED
      BY <2>10, <2>11, <2>12, <2>14, <2>15, <2>17, <2>18, <2>19, <2>20, PublishedParts
  <1> QED  BY <1>10, <1>11

\* Nothing is published: what is on its way was so before.
LEMMA MeetQuiet ==
  ASSUME Base, NEW N, Numbered(N), NEW i \in Instances,
         LeaveEnds(i) \/ \E r \in Relays : Network(i, r)
  PROVE  Numbered(N)'
  <1>1. joined' = joined /\ sent' = sent
    BY DEF LeaveEnds, PeerRetained, LastLeft, LateLeft, Network, RelaySubscribes, RelayForwards,
           HandleEvent, IgnoreEvent
  <1>2. CASE LeaveEnds(i)
    <2>1. (DetachSession(i) \/ UNCHANGED toRelay) /\ UNCHANGED <<kept, fromRelay, seen>>
      BY <1>2 DEF LeaveEnds, PeerRetained, LastLeft, LateLeft
    <2>2. Traveling' \subseteq Traveling  BY <2>1, DetachTravels DEF Base
    <2>3. \A j \in Instances : ToSet(seen'[j]) = ToSet(seen[j])  BY <2>1
    <2> HIDE DEF Numbered, Base
    <2> QED  BY <1>1, <2>2, <2>3, NumberedKept
  <1>3. ASSUME NEW r \in Relays, RelaySubscribes(i, r) \/ RelayForwards(i, r)  PROVE Numbered(N)'
    <2>1. Traveling' \subseteq Traveling
      BY <1>3, RelaySubscribesTravels, RelayForwardsTravels DEF Base
    <2>2. \A j \in Instances : ToSet(seen'[j]) = ToSet(seen[j])
      BY <1>3 DEF RelaySubscribes, RelayForwards
    <2> HIDE DEF Numbered, Base
    <2> QED  BY <1>1, <2>1, <2>2, NumberedKept
  <1>4. ASSUME NEW r \in Relays, HandleEvent(r, i) \/ IgnoreEvent(r, i)  PROVE Numbered(N)'
    <2> DEFINE e == Head(fromRelay[r][i]).event
    <2>1. /\ fromRelay[r][i] # <<>> /\ Dropped(r, i) /\ UNCHANGED <<toRelay, kept>>
          /\ TrackSeen(i, e) \/ seen' = seen
      BY <1>4 DEF HandleEvent, IgnoreEvent
    <2>2. Traveling' \subseteq Traveling /\ e \in Traveling  BY <2>1, DroppedTravels DEF Base
    <2> HIDE DEF e
    <2>3. EventId(e) \in Ids
      <3>1. e \in Own  BY <2>2, OwnFacts
      <3> QED  BY <3>1, OwnIds
    <2>4. \A j \in Instances : \A id \in ToSet(seen'[j]) : id \in ToSet(seen[j]) \/ id = EventId(e)
      <3>1. CASE seen' = seen  BY <3>1
      <3>2. CASE TrackSeen(i, e)
        <4>1. /\ \A j \in Instances \ {i} : seen'[j] = seen[j]
              /\ ToSet(seen'[i]) \subseteq ToSet(seen[i]) \cup {EventId(e)}
          BY <2>3, <3>2, TrackSeenKeeps DEF Base, History
        <4> QED  BY <4>1
      <3> QED  BY <2>1, <3>1, <3>2
    <2>5. \A j \in Instances : \A id \in ToSet(seen'[j]) :
              id \in ToSet(seen[j]) \/ \E f \in Traveling : id = EventId(f)
      BY <2>2, <2>4
    <2> HIDE DEF Numbered, Base
    <2> QED  BY <1>1, <2>2, <2>5, NumberedKept
  <1> QED  BY <1>2, <1>3, <1>4 DEF Network

LEMMA MeetStep ==
  ASSUME NEW c \in Relays, NEW lists, SharedRelay(c, lists), Base,
         NEW N, MeetInv(c, lists, N), [Next]_vars
  PROVE  \E M : MeetInv(c, lists, M)'
  <1>1. Shared(c, lists)'  BY SharedStep DEF MeetInv
  <1>2. Numbered(N) /\ Shared(c, lists) /\ (mishaps = {} => Parts(c, N))
    BY DEF MeetInv, Parts
  <1> SUFFICES \E M : Numbered(M)' /\ (mishaps' = {} => Parts(c, M)')
    BY <1>1 DEF MeetInv, Parts
  <1>3. ASSUME UNCHANGED <<participants, subscription, seen, sent, toRelay, serves, kept, fromRelay,
                           joined, newest, mishaps>>
        PROVE  Numbered(N)' /\ (mishaps' = {} => Parts(c, N)')
    <2>1. Numbered(N)'  BY <1>2, <1>3 DEF Numbered, Traveling, Travels
    <2>2. Parts(c, N) => Parts(c, N)'
      BY <1>3 DEF Parts, Serving, SeenKnown, Meeting, Known, Reaches, Coming, Announced, Subscribed
    <2> QED  BY <1>2, <1>3, <2>1, <2>2
  <1>4. ASSUME NEW i \in Instances, Command(i)  PROVE \E M : Numbered(M)' /\ (mishaps' = {} => Parts(c, M)')
    <2>1. CASE Create(i)  BY <1>3, <2>1 DEF Create
    <2>2. ASSUME NEW p \in Peers, NEW hints \in Hints, Join(i, p, hints)
          PROVE  \E M : Numbered(M)' /\ (mishaps' = {} => Parts(c, M)')
      BY <1>2, <2>2, MeetJoin
    <2>3. ASSUME NEW p \in Peers, Leave(i, p)
          PROVE  Numbered(N)' /\ (mishaps' = {} => Parts(c, N)')
      BY <1>2, <2>3, MeetLeave
    <2>4. ASSUME NEW p \in Peers, NEW target \in SUBSET Peers, NEW hints \in Hints,
                 SendSignal(i, p, target, hints)
          PROVE  Numbered(N)' /\ (mishaps' = {} => Parts(c, N)')
      BY <1>2, <2>4, MeetSignal
    <2> QED  BY <1>4, <2>1, <2>2, <2>3, <2>4 DEF Command
  <1>5. ASSUME NEW i \in Instances, LeaveEnds(i) \/ \E r \in Relays : Network(i, r)
        PROVE  Numbered(N)' /\ (mishaps' = {} => Parts(c, N)')
    <2>1. Numbered(N)'  BY <1>2, <1>5, MeetQuiet
    <2>2. ASSUME mishaps' = {}  PROVE Parts(c, N)'
      <3>1. mishaps = {}
        BY <1>5, <2>2 DEF LeaveEnds, PeerRetained, LastLeft, LateLeft, Network, RelaySubscribes,
                          RelayForwards, HandleEvent, IgnoreEvent
      <3>2. Parts(c, N)  BY <1>2, <3>1
      <3>3. CASE LeaveEnds(i)  BY <2>2, <3>2, <3>3, LeaveEndsParts
      <3>4. ASSUME NEW r \in Relays, RelaySubscribes(i, r)  PROVE Parts(c, N)'
        BY <3>2, <3>4, RelaySubscribesParts
      <3>5. ASSUME NEW r \in Relays, RelayForwards(i, r)  PROVE Parts(c, N)'
        BY <3>2, <3>5, RelayForwardsParts
      <3>6. ASSUME NEW r \in Relays, HandleEvent(r, i)  PROVE Parts(c, N)'
        BY <1>2, <2>2, <3>2, <3>6, HandleEventParts
      <3>7. ASSUME NEW r \in Relays, IgnoreEvent(r, i)  PROVE Parts(c, N)'
        BY <1>2, <2>2, <3>2, <3>7, IgnoreEventParts
      <3> QED  BY <1>5, <3>3, <3>4, <3>5, <3>6, <3>7 DEF Network
    <2> QED  BY <2>1, <2>2
  <1>6. CASE UNCHANGED vars  BY <1>3, <1>6 DEF vars
  <1> QED  BY <1>4, <1>5, <1>6 DEF Next

LEMMA MeetInit ==
  ASSUME Init, NEW c \in Relays, NEW lists, SharedRelay(c, lists)
  PROVE  \E N : MeetInv(c, lists, N)
  <1>1. /\ \A i \in Instances : transport[i] = None /\ subscription[i] = None /\ seen[i] = <<>>
        /\ \A i \in Instances, r \in Relays : toRelay[i][r] = <<>> /\ fromRelay[r][i] = <<>>
        /\ \A r \in Relays : kept[r] = <<>>
        /\ joined = {}
    BY DEF Init
  <1>2. ToSet(<<>>) = {}  BY DEF ToSet
  <1>3. Traveling = {}  BY <1>1, <1>2 DEF Traveling, Travels
  <1>4. \A N : Numbered(N)  BY <1>1, <1>2, <1>3 DEF Numbered
  <1> QED
    BY <1>1, <1>4 DEF MeetInv, Shared, Subscribed, Serving, SeenKnown, Meeting

\* Rendezvous: with one relay c in every list a command may resolve to, two
\* peers of different workers do not miss each other.
THEOREM PeersMeet ==
  ASSUME NEW c \in Relays, NEW lists, SharedRelay(c, lists)
  PROVE  Spec => []Rendezvous
  <1> DEFINE Inv == Base /\ \E N : MeetInv(c, lists, N)
  <1>1. Init => Inv
    <2> SUFFICES ASSUME Init  PROVE Inv
      OBVIOUS
    <2>1. Base  BY HistoryInit, RecordsInit DEF Base
    <2>2. \E N : MeetInv(c, lists, N)  BY MeetInit
    <2> QED  BY <2>1, <2>2
  <1>2. Inv /\ [Next]_vars => Inv'
    <2> SUFFICES ASSUME Inv, [Next]_vars  PROVE Inv'
      OBVIOUS
    <2>1. Base'  BY HistoryStep, RecordsStep DEF Base
    <2>2. PICK N : MeetInv(c, lists, N)  OBVIOUS
    <2>3. \E M : MeetInv(c, lists, M)'  BY <2>2, MeetStep
    <2> QED  BY <2>1, <2>3
  <1>3. Inv => Rendezvous
    <2> SUFFICES ASSUME Inv, Quiet, mishaps = {}, NEW p \in joined, NEW q \in joined
                 PROVE  \/ Home[p] = Home[q]
                        \/ q \in participants[Home[p]]
                        \/ p \in participants[Home[q]]
      BY DEF Rendezvous
    <2>1. PICK N : MeetInv(c, lists, N)  OBVIOUS
    <2>2. Home[p] \in Instances /\ Home[q] \in Instances  BY JoinedHome DEF Base
    <2>3. ToSet(<<>>) = {} /\ DOMAIN <<>> = {}  BY DEF ToSet
    <2>4. \A i \in Instances : toRelay[i][c] = <<>> /\ fromRelay[c][i] = <<>>  BY DEF Quiet
    <2>5. ~Announced(c, N, p) /\ ~Announced(c, N, q)  BY <2>2, <2>3, <2>4 DEF Announced, Announcing
    <2>6. ~Coming(c, N, p, Home[q]) /\ ~Coming(c, N, q, Home[p])  BY <2>2, <2>3, <2>4 DEF Coming
    <2>7. Home[p] # Home[q] => Known(N, p, Home[q]) \/ Known(N, q, Home[p])
      BY <2>1, <2>5, <2>6 DEF MeetInv, Meeting, Reaches
    <2> QED  BY <2>7 DEF Known
  <1> HIDE DEF Inv
  <1> QED  BY <1>1, <1>2, <1>3, PTL DEF Spec

-----------------------------------------------------------------------------
(* The types                                                               *)
LEMMA JoinedTyped ==
  ASSUME NEW a \in Seq(Relays), NEW b \in Seq(Relays)
  PROVE  Joined(a, b) \in Seq(Relays)
  <1>1. a \o b \in Seq(Relays)  OBVIOUS
  <1> QED  BY <1>1, DistinctFacts DEF Joined

LEMMA ResolvedTyped ==
  ASSUME NEW list \in Seq(Relays)
  PROVE  ResolveRelays(list) \in Seq(Relays)
  <1> DEFINE all == Joined(list, DefaultRelays)
             n == IF Len(all) < MaxRelays THEN Len(all) ELSE MaxRelays
  <1>1. all \in Seq(Relays)  BY JoinedTyped, RelaysAssumption
  <1>2. n \in 0 .. Len(all)
    <2> HIDE DEF all
    <2> QED  BY <1>1, BoundsAssumption
  <1> HIDE DEF all, n
  <1>3. SubSeq(all, 1, n) \in Seq(Relays)  BY <1>1, <1>2
  <1> QED  BY <1>3 DEF ResolveRelays, all, n

LEMMA RelaysClosed == Closed(Seq(Relays), Seq(Relays))
  <1>1. <<>> \in Seq(Relays) /\ Hints \subseteq Seq(Relays)  BY RelaysAssumption
  <1> QED  BY <1>1, JoinedTyped, ResolvedTyped DEF Closed

\* An id is in the list of ids seen once; an own one was published.
SeenOnce == \A i \in Instances :
    /\ Len(seen[i]) <= MaxSeen /\ IsInjective(seen[i])
    /\ \A n \in 1 .. MaxSent : <<i, n>> \in ToSet(seen[i]) => n <= sent[i]

\* What a relay is asked to serve, or serves, is a subscription that was made.
RequestsMade == \A i \in Instances, r \in Relays :
    /\ serves[r][i] <= subscribed[i]
    /\ \A m \in ToSet(toRelay[i][r]) : IsRequest(m) => m.request <= subscribed[i]

LEMMA PublishSeen ==
  ASSUME History, SeenOnce, NEW i \in Instances, NEW relays, NEW asks, NEW p \in Peers, Home[p] = i,
         sent[i] < MaxSent, NEW type \in {"join", "leave", "signal"}, NEW target \in SUBSET Peers,
         Publish(i, relays, asks, Event(i, type, p, target))
  PROVE  SeenOnce'
  <1> DEFINE e == Event(i, type, p, target)
  <1>1. EventId(e) = <<i, sent[i] + 1>> /\ <<i, sent[i] + 1>> \in Ids
    BY OwnEvent DEF History
  <1> HIDE DEF e
  <1>2. TrackSeen(i, e) /\ sent' = [sent EXCEPT ![i] = @ + 1]
    BY DEF Publish, e
  <1>3. sent[i] \in Nat /\ sent[i] + 1 \in 1 .. MaxSent /\ sent'[i] = sent[i] + 1
        /\ \A j \in Instances \ {i} : sent'[j] = sent[j]
    BY <1>2, BoundsAssumption DEF History, Logs
  <1>4. EventId(e) \notin ToSet(seen[i])
    BY <1>1, <1>3 DEF SeenOnce
  <1>5. /\ \A j \in Instances \ {i} : seen'[j] = seen[j]
        /\ ToSet(seen'[i]) \subseteq ToSet(seen[i]) \cup {EventId(e)}
        /\ Len(seen'[i]) <= MaxSeen /\ IsInjective(seen'[i])
    BY <1>1, <1>2, <1>4, TrackSeenKeeps DEF History, SeenOnce
  <1>6. ASSUME NEW n \in 1 .. MaxSent, <<i, n>> \in ToSet(seen'[i])  PROVE n <= sent'[i]
    <2>1. CASE <<i, n>> \in ToSet(seen[i])
      <3>1. n <= sent[i]  BY <2>1 DEF SeenOnce
      <3> QED  BY <1>3, <3>1
    <2>2. CASE <<i, n>> = <<i, sent[i] + 1>>  BY <1>3, <2>2
    <2> QED  BY <1>1, <1>5, <1>6, <2>1, <2>2
  <1> QED
    BY <1>3, <1>5, <1>6 DEF SeenOnce

LEMMA ClosingRequests ==
  ASSUME NEW i, NEW r, NEW m \in ToSet(Closing(i, r))
  PROVE  m.request = 0
  BY DEF Closing, Request, ToSet

LEMMA RequestsNumbered ==
  ASSUME Logs, NEW i \in Instances, NEW relays, NEW r \in Relays, NEW m \in ToSet(Requests(i, relays)[r])
  PROVE  m.request = 0 \/ (~Reuses(i, relays) /\ m.request = subscribed[i] + 1)
  <1>1. Requests(i, relays)[r] = IF Reuses(i, relays) THEN <<>>
                                 ELSE IF r \in ToSet(relays) THEN <<Request(subscribed[i] + 1)>>
                                 ELSE Closing(i, r)
    BY DEF Requests
  <1>2. CASE Reuses(i, relays)  BY <1>1, <1>2 DEF ToSet
  <1>3. CASE ~Reuses(i, relays) /\ r \in ToSet(relays)  BY <1>1, <1>3 DEF ToSet, Request
  <1>4. CASE ~Reuses(i, relays) /\ r \notin ToSet(relays)  BY <1>1, <1>4, ClosingRequests
  <1> QED  BY <1>2, <1>3, <1>4

\* A worker sends what it asks of the relays, and an event.
LEMMA SendRequests ==
  ASSUME History, RequestsMade, NEW i \in Instances, NEW relays, NEW asks \in [Relays -> Seq(Message)],
         NEW e \in Own, NEW failed, Send(i, relays, asks, e, failed), serves' = serves,
         \A j \in Instances : subscribed'[j] \in Nat /\ subscribed[j] <= subscribed'[j],
         \A r \in Relays : \A m \in ToSet(asks[r]) : m.request <= subscribed'[i]
  PROVE  RequestsMade'
  <1>1. Traffic /\ Send(i, relays, asks, e, failed)  BY DEF History
  <1>2. /\ \A j \in Instances \ {i} : toRelay'[j] = toRelay[j]
        /\ \A r \in Relays : toRelay'[i][r] = Outgoing(i, r, relays, asks, e, failed)
    <2> HIDE DEF Traffic, Send
    <2> QED  BY <1>1, SendTyped, ZenonT(40)
  <1>3. ASSUME NEW r \in Relays
        PROVE  ToSet(toRelay'[i][r]) \subseteq ToSet(toRelay[i][r]) \cup ToSet(asks[r]) \cup {e}
    <2> DEFINE ev == IF r \in ToSet(relays) \ failed THEN <<e>> ELSE <<>>
               s == toRelay[i][r] \o asks[r]
    <2>1. e \in Message  BY DEF Message
    <2>2. ev \in Seq(Message) /\ ToSet(ev) \subseteq {e}
      <3>1. <<e>> \in Seq(Message) /\ <<>> \in Seq(Message)  BY <2>1
      <3>2. ToSet(<<e>>) \subseteq {e} /\ ToSet(<<>>) = {}  BY DEF ToSet
      <3> QED  BY <3>1, <3>2
    <2>3. toRelay[i][r] \in Seq(Message) /\ asks[r] \in Seq(Message)  BY DEF History, Traffic
    <2>4. s \in Seq(Message) /\ ToSet(s) = ToSet(toRelay[i][r]) \cup ToSet(asks[r])
      BY <2>3, ConcatElements
    <2>5. toRelay'[i][r] = s \o ev  BY <1>2 DEF Outgoing
    <2> HIDE DEF ev, s
    <2>6. ToSet(s \o ev) = ToSet(s) \cup ToSet(ev)
      BY <2>2, <2>4, ConcatElements
    <2> QED  BY <2>2, <2>4, <2>5, <2>6
  <1>4. ~IsRequest(e)
    <2>1. DOMAIN e = {"by", "n", "type", "peer", "target"}  BY DEF Own, Events
    <2> QED  BY <2>1 DEF IsRequest
  <1>5. ASSUME NEW j \in Instances, NEW r \in Relays, NEW m \in ToSet(toRelay'[j][r]), IsRequest(m)
        PROVE  m.request <= subscribed'[j]
    <2>1. CASE m \in ToSet(toRelay[j][r])
      <3>1. m \in Message
        <4>1. toRelay[j][r] \in Seq(Message)  BY DEF History, Traffic
        <4>2. ToSet(toRelay[j][r]) \subseteq Message  BY <4>1, SeqOfMore
        <4> QED  BY <2>1, <4>2
      <3>2. m.request \in Nat  BY <1>5, <3>1, OwnIsNoRequest
      <3>3. m.request <= subscribed[j]  BY <1>5, <2>1 DEF RequestsMade
      <3>4. subscribed[j] \in Nat  BY DEF History, Logs
      <3> QED  BY <3>2, <3>3, <3>4
    <2>2. CASE m \notin ToSet(toRelay[j][r])
      <3>1. j = i  BY <1>2, <1>5, <2>2
      <3>2. m \in ToSet(asks[r])  BY <1>3, <1>4, <1>5, <2>2, <3>1
      <3> QED  BY <3>1, <3>2
    <2> QED  BY <2>1, <2>2
  <1>6. ASSUME NEW j \in Instances, NEW r \in Relays  PROVE serves'[r][j] <= subscribed'[j]
    <2>1. serves[r][j] \in Nat /\ subscribed[j] \in Nat /\ serves[r][j] <= subscribed[j]
      BY DEF History, Traffic, Logs, RequestsMade
    <2>2. subscribed'[j] \in Nat /\ subscribed[j] <= subscribed'[j]  OBVIOUS
    <2> QED  BY <2>1, <2>2
  <1> QED  BY <1>5, <1>6 DEF RequestsMade

LEMMA PublishRequests ==
  ASSUME History, RequestsMade, NEW i \in Instances, NEW relays, NEW asks \in [Relays -> Seq(Message)],
         NEW p \in Peers, Home[p] = i, sent[i] < MaxSent,
         NEW type \in {"join", "leave", "signal"}, NEW target \in SUBSET Peers,
         Publish(i, relays, asks, Event(i, type, p, target)), serves' = serves,
         \A j \in Instances : subscribed'[j] \in Nat /\ subscribed[j] <= subscribed'[j],
         \A r \in Relays : \A m \in ToSet(asks[r]) : m.request <= subscribed'[i]
  PROVE  RequestsMade'
  <1>1. PICK e : e = Event(i, type, p, target)  OBVIOUS
  <1>2. e \in Own  BY <1>1, OwnEvent DEF History
  <1>3. PICK failed : Send(i, relays, asks, e, failed)  BY <1>1 DEF Publish
  <1> QED  BY <1>2, <1>3, SendRequests

\* Requests leave the way to a relay, or close a subscription.
LEMMA FewerRequests ==
  ASSUME RequestsMade, subscribed' = subscribed,
         \A i \in Instances, r \in Relays : serves'[r][i] <= subscribed[i],
         \A i \in Instances, r \in Relays : \A m \in ToSet(toRelay'[i][r]) :
             m \in ToSet(toRelay[i][r]) \/ m.request <= subscribed[i]
  PROVE  RequestsMade'
  BY DEF RequestsMade

LEMMA DetachRequests ==
  ASSUME History, RequestsMade, NEW i \in Instances, DetachSession(i), UNCHANGED <<subscribed, serves>>
  PROVE  RequestsMade'
  <1>1. CASE UNCHANGED toRelay  BY <1>1 DEF RequestsMade
  <1>2. CASE toRelay' = [toRelay EXCEPT ![i] = [r \in Relays |-> @[r] \o Closing(i, r)]]
    <2>1. ASSUME NEW j \in Instances, NEW r \in Relays, NEW m \in ToSet(toRelay'[j][r])
          PROVE  m \in ToSet(toRelay[j][r]) \/ m.request <= subscribed[j]
      <3>1. CASE j # i
        <4>1. toRelay'[j] = toRelay[j]  BY <1>2, <3>1 DEF History, Traffic
        <4> QED  BY <2>1, <4>1
      <3>2. CASE j = i
        <4>1. toRelay'[i][r] = toRelay[i][r] \o Closing(i, r)  BY <1>2 DEF History, Traffic
        <4>2. toRelay[i][r] \in Seq(Message) /\ Closing(i, r) \in Seq(Message)
          BY ClosingTyped DEF History, Traffic
        <4>3. ToSet(toRelay'[i][r]) = ToSet(toRelay[i][r]) \cup ToSet(Closing(i, r))
          BY <4>1, <4>2, ConcatElements
        <4>4. m \in ToSet(Closing(i, r)) => m.request = 0  BY ClosingRequests
        <4>5. subscribed[i] \in Nat  BY DEF History, Logs
        <4> QED  BY <2>1, <3>2, <4>3, <4>4, <4>5
      <3> QED  BY <3>1, <3>2
    <2> QED  BY <2>1, FewerRequests DEF RequestsMade
  <1> QED  BY <1>1, <1>2 DEF DetachSession

\* A relay takes what comes next from a worker.
LEMMA TakenRequests ==
  ASSUME History, RequestsMade, NEW i \in Instances, NEW r \in Relays, toRelay[i][r] # <<>>,
         toRelay' = [toRelay EXCEPT ![i][r] = Tail(@)], subscribed' = subscribed,
         \/ serves' = serves
         \/ /\ IsRequest(Head(toRelay[i][r]))
            /\ serves' = [serves EXCEPT ![r][i] = Head(toRelay[i][r]).request]
  PROVE  RequestsMade'
  <1>1. toRelay[i][r] \in Seq(Message)  BY DEF History, Traffic
  <1>2. ToSet(Tail(toRelay[i][r])) \subseteq ToSet(toRelay[i][r]) /\ Head(toRelay[i][r]) \in ToSet(toRelay[i][r])
    BY <1>1, TailElements
  <1>3. ASSUME NEW j \in Instances, NEW s \in Relays
        PROVE  ToSet(toRelay'[j][s]) \subseteq ToSet(toRelay[j][s])
    <2>1. toRelay'[j][s] = IF j = i /\ s = r THEN Tail(toRelay[i][r]) ELSE toRelay[j][s]
      BY DEF History, Traffic
    <2> QED  BY <1>2, <2>1
  <1>4. IsRequest(Head(toRelay[i][r])) => Head(toRelay[i][r]).request <= subscribed[i]
    BY <1>2 DEF RequestsMade
  <1>5. ASSUME NEW j \in Instances, NEW s \in Relays  PROVE serves'[s][j] <= subscribed[j]
    <2>1. serves'[s][j] = serves[s][j] \/ (j = i /\ s = r /\ IsRequest(Head(toRelay[i][r]))
                                            /\ serves'[s][j] = Head(toRelay[i][r]).request)
      BY DEF History, Traffic
    <2> QED  BY <1>4, <2>1 DEF RequestsMade
  <1> QED  BY <1>3, <1>5, FewerRequests

LEMMA TypedStep ==
  ASSUME History, Records, SeenOnce, RequestsMade, [Next]_vars
  PROVE  SeenOnce' /\ RequestsMade'
  <1>1. ASSUME UNCHANGED <<seen, sent>>  PROVE SeenOnce'
    BY <1>1 DEF SeenOnce
  <1>2. ASSUME UNCHANGED <<subscribed, serves, toRelay>>  PROVE RequestsMade'
    BY <1>2 DEF RequestsMade
  <1>3. \A j \in Instances : subscribed[j] \in Nat  BY DEF History, Logs
  <1>4. ASSUME NEW i \in Instances, NEW relays, NEW p \in Peers, Home[p] = i, sent[i] < MaxSent,
               NEW type \in {"join", "leave", "signal"}, NEW target \in SUBSET Peers,
               Publish(i, relays, NoRequests, Event(i, type, p, target)), UNCHANGED <<serves, subscribed>>
        PROVE  SeenOnce' /\ RequestsMade'
    <2>1. \A r \in Relays : ToSet(NoRequests[r]) = {}  BY DEF NoRequests, ToSet
    <2>2. \A j \in Instances : subscribed'[j] \in Nat /\ subscribed[j] <= subscribed'[j]  BY <1>3, <1>4
    <2>3. SeenOnce'  BY <1>4, PublishSeen
    <2>4. \A r \in Relays : \A m \in ToSet(NoRequests[r]) : m.request <= subscribed'[i]  BY <2>1
    <2>5. RequestsMade'  BY <1>4, <2>2, <2>4, PublishRequests, NoRequestsTyped
    <2> QED  BY <2>3, <2>5
  <1>5. ASSUME NEW i \in Instances, NEW p \in Peers, NEW hints \in Hints, Join(i, p, hints)
        PROVE  SeenOnce' /\ RequestsMade'
    <2> DEFINE relays == ResolveRelays(RelayHints(i, hints))
    <2>1. /\ Home[p] = i /\ sent[i] < MaxSent /\ serves' = serves
          /\ Publish(i, relays, Requests(i, relays), Event(i, "join", p, {}))
          /\ subscribed' = [subscribed EXCEPT ![i] = IF Reuses(i, relays) THEN @ ELSE @ + 1]
      BY <1>5 DEF Join
    <2> HIDE DEF relays
    <2>2. /\ subscribed'[i] = IF Reuses(i, relays) THEN subscribed[i] ELSE subscribed[i] + 1
          /\ \A j \in Instances \ {i} : subscribed'[j] = subscribed[j]
      BY <2>1 DEF History, Logs
    <2>3. \A j \in Instances : subscribed'[j] \in Nat /\ subscribed[j] <= subscribed'[j]  BY <1>3, <2>2
    <2>4. \A r \in Relays : \A m \in ToSet(Requests(i, relays)[r]) : m.request <= subscribed'[i]
      <3> SUFFICES ASSUME NEW r \in Relays, NEW m \in ToSet(Requests(i, relays)[r])
                   PROVE  m.request <= subscribed'[i]
        OBVIOUS
      <3>1. m.request = 0 \/ (~Reuses(i, relays) /\ m.request = subscribed[i] + 1)
        BY RequestsNumbered DEF History
      <3> QED  BY <1>3, <2>2, <3>1
    <2>5. Requests(i, relays) \in [Relays -> Seq(Message)]  BY RequestsTyped DEF History
    <2>6. {} \in SUBSET Peers  OBVIOUS
    <2>7. SeenOnce'  BY <2>1, <2>6, PublishSeen
    <2>8. RequestsMade'  BY <2>1, <2>3, <2>4, <2>5, <2>6, PublishRequests
    <2> QED  BY <2>7, <2>8
  <1>6. ASSUME NEW i \in Instances, Command(i)  PROVE SeenOnce' /\ RequestsMade'
    <2>1. CASE Create(i)  BY <1>1, <1>2, <2>1 DEF Create
    <2>2. ASSUME NEW p \in Peers, Leave(i, p)  PROVE SeenOnce' /\ RequestsMade'
      <3>1. Home[p] = i /\ UNCHANGED <<serves, subscribed>>  BY <2>2 DEF Leave
      <3>2. CASE UNCHANGED <<seen, sent, toRelay>>  BY <1>1, <1>2, <3>1, <3>2
      <3>3. CASE sent[i] < MaxSent
                 /\ Publish(i, ResolveRelays(SessionRelays(i)), NoRequests, Event(i, "leave", p, {}))
        BY <1>4, <3>1, <3>3
      <3> QED  BY <2>2, <3>2, <3>3 DEF Leave
    <2>3. ASSUME NEW p \in Peers, NEW target \in SUBSET Peers, NEW hints \in Hints,
                 SendSignal(i, p, target, hints)
          PROVE  SeenOnce' /\ RequestsMade'
      <3>1. /\ Home[p] = i /\ sent[i] < MaxSent /\ UNCHANGED <<serves, subscribed>>
            /\ Publish(i, ResolveRelays(RelayHints(i, hints)), NoRequests, Event(i, "signal", p, target))
        BY <2>3 DEF SendSignal
      <3> QED  BY <1>4, <3>1
    <2> QED  BY <1>5, <1>6, <2>1, <2>2, <2>3 DEF Command
  <1>7. ASSUME NEW i \in Instances, LeaveEnds(i)  PROVE SeenOnce' /\ RequestsMade'
    <2>1. UNCHANGED <<seen, sent, subscribed, serves>> /\ (DetachSession(i) \/ UNCHANGED toRelay)
      BY <1>7 DEF LeaveEnds, PeerRetained, LastLeft, LateLeft
    <2> QED  BY <1>1, <1>2, <2>1, DetachRequests
  <1>8. ASSUME NEW i \in Instances, NEW r \in Relays, RelaySubscribes(i, r) \/ RelayForwards(i, r)
        PROVE  SeenOnce' /\ RequestsMade'
    <2>1. /\ toRelay[i][r] # <<>> /\ toRelay' = [toRelay EXCEPT ![i][r] = Tail(@)]
          /\ UNCHANGED <<seen, sent, subscribed>>
          /\ \/ serves' = serves
             \/ /\ IsRequest(Head(toRelay[i][r]))
                /\ serves' = [serves EXCEPT ![r][i] = Head(toRelay[i][r]).request]
      BY <1>8 DEF RelaySubscribes, RelayForwards
    <2> QED  BY <1>1, <2>1, TakenRequests
  <1>9. ASSUME NEW i \in Instances, NEW r \in Relays, HandleEvent(r, i)
        PROVE  SeenOnce' /\ RequestsMade'
    <2> DEFINE e == Head(fromRelay[r][i]).event
    <2>1. e \in Own  BY <1>9, HeadDelivery DEF HandleEvent, History
    <2>2. New(i, e) /\ TrackSeen(i, e) /\ UNCHANGED <<sent, subscribed, serves, toRelay>>
      BY <1>9 DEF HandleEvent
    <2> HIDE DEF e
    <2>3. EventId(e) \in Ids /\ EventId(e)[1] = e.by  BY <2>1, OwnIds
    <2>4. EventId(e) \notin ToSet(seen[i]) /\ e.by # i  BY <2>2 DEF New
    <2>5. /\ \A j \in Instances \ {i} : seen'[j] = seen[j]
          /\ ToSet(seen'[i]) \subseteq ToSet(seen[i]) \cup {EventId(e)}
          /\ Len(seen'[i]) <= MaxSeen /\ IsInjective(seen'[i])
      BY <2>2, <2>3, <2>4, TrackSeenKeeps DEF History, SeenOnce
    <2>6. \A n \in 1 .. MaxSent : <<i, n>> # EventId(e)  BY <2>3, <2>4
    <2>7. SeenOnce'  BY <2>2, <2>5, <2>6 DEF SeenOnce
    <2> QED  BY <1>2, <2>2, <2>7
  <1>10. ASSUME NEW i \in Instances, NEW r \in Relays, IgnoreEvent(r, i)
         PROVE  SeenOnce' /\ RequestsMade'
    BY <1>1, <1>2, <1>10 DEF IgnoreEvent
  <1>11. CASE UNCHANGED vars  BY <1>1, <1>2, <1>11 DEF vars
  <1> QED  BY <1>6, <1>7, <1>8, <1>9, <1>10, <1>11 DEF Next, Network

\* MediaTypeOK: the types of a session, its transport state, its subscription,
\* the leaves that wait and the ids seen.
THEOREM SessionTyped == Spec => []MediaTypeOK
  <1> DEFINE Relayed == Within(Seq(Relays), Seq(Relays))
             Inv == Base /\ Relayed /\ SeenOnce /\ RequestsMade
  <1>1. Init => Inv
    <2> SUFFICES ASSUME Init  PROVE Inv
      OBVIOUS
    <2>1. Base  BY HistoryInit, RecordsInit DEF Base
    <2>2. Relayed  BY DEF Init, Within, Subscribed
    <2>3. SeenOnce
      <3>1. Len(<<>>) = 0 /\ IsInjective(<<>>) /\ ToSet(<<>>) = {}  BY DEF IsInjective, ToSet
      <3> QED  BY <3>1, BoundsAssumption DEF Init, SeenOnce
    <2>4. RequestsMade
      <3>1. ToSet(<<>>) = {}  BY DEF ToSet
      <3> QED  BY <3>1 DEF Init, RequestsMade
    <2> QED  BY <2>1, <2>2, <2>3, <2>4
  <1>2. Inv /\ [Next]_vars => Inv'
    <2> SUFFICES ASSUME Inv, [Next]_vars  PROVE Inv'
      OBVIOUS
    <2>1. Base'  BY HistoryStep, RecordsStep DEF Base
    <2>2. Relayed'  BY RelaysClosed, WithinStep
    <2>3. SeenOnce' /\ RequestsMade'  BY TypedStep DEF Base
    <2> QED  BY <2>1, <2>2, <2>3
  <1>3. Inv => MediaTypeOK
    <2> SUFFICES ASSUME Inv  PROVE MediaTypeOK
      OBVIOUS
    <2> USE DEF Base, History
    <2>1. \A i \in Instances : sent[i] \in 0 .. MaxSent /\ MaxSent \in Nat
      BY BoundsAssumption DEF Logs
    <2>2. ASSUME NEW i \in Instances, transport[i] # None
          PROVE  /\ transport[i].localPeerIds \subseteq {p \in Peers : Home[p] = i}
                 /\ transport[i].relayUrls \in Seq(Relays)
      BY <2>2 DEF Records, Transports, Homed, Within
    <2>3. ASSUME NEW i \in Instances, Subscribed(i)
          PROVE  /\ subscription[i].relays \in Seq(Relays)
                 /\ subscription[i].refCount \in 1 .. MaxSent
                 /\ subscription[i].id \in 1 .. subscribed[i]
      <3>1. subscription[i].refCount \in 1 .. sent[i] /\ subscription[i].id \in 1 .. subscribed[i]
        BY <2>3 DEF Records, Subscriptions
      <3> QED  BY <2>1, <2>3, <3>1 DEF Within
    <2>4. waiting \in [Instances -> [current : 0 .. MaxSent, gone : 0 .. MaxSent]]
      <3>1. ASSUME NEW i \in Instances
            PROVE  waiting[i] \in [current : 0 .. MaxSent, gone : 0 .. MaxSent]
        <4>1. waiting[i] \in [current : Nat, gone : Nat] /\ waiting[i].current + waiting[i].gone <= sent[i]
          BY DEF Records, Leaving
        <4>2. waiting[i].current \in 0 .. MaxSent /\ waiting[i].gone \in 0 .. MaxSent  BY <2>1, <4>1
        <4> QED  BY <4>1, <4>2
      <3> QED  BY <3>1 DEF Records, Leaving
    <2>5. \A i \in Instances : waiting[i].current > 0 => transport[i] # None
      BY DEF Records, Leaving
    <2>6. \A i \in Instances : Len(seen[i]) <= MaxSeen /\ IsInjective(seen[i])
      BY DEF SeenOnce
    <2>7. \A r \in Relays, i \in Instances : serves[r][i] \in 0 .. subscribed[i]
      BY DEF Traffic, Logs, RequestsMade
    <2> QED
      BY <2>2, <2>3, <2>4, <2>5, <2>6, <2>7 DEF MediaTypeOK, Records, Listing, Logs
  <1> HIDE DEF Inv
  <1> QED  BY <1>1, <1>2, <1>3, PTL DEF Spec

-----------------------------------------------------------------------------

Pcs == Locked \cup {"off", "starting", "ended"}
AuthRecord == [pc : Pcs, hosts : SUBSET Hosts, host : Hosts \cup {Nil}, token : Tokens \cup {NoToken}]

\* JoinTypeOK, in parts.
AuthTyped ==
  /\ auth \in [Jobs -> AuthRecord]
  /\ about \in [Jobs -> RelayKeys \cup {Nil}]
  /\ \A j \in Jobs : auth[j].pc # "off" => about[j] \in RelayKeys
AppTyped ==
  /\ flow \in [Flows -> {"idle", "resolving", "authenticating", "done", "failed"}]
  /\ kind \in [Flows -> Kinds \cup {Nil}]
  /\ pending \in [RelayKeys -> {Nil, "waiting", "inFlight"}]
  /\ lock \in [RelayKeys -> Jobs \cup {Nil}]
  /\ teller \in [RelayKeys -> Jobs \cup {Nil}]
  /\ silenced \subseteq RelayKeys /\ broken \subseteq RelayKeys /\ pruned \subseteq Flows
AttemptTyped ==
  attempt \in [RelayKeys -> [id : Flows \cup {Nil}, status : {Nil, "in-progress", "succeeded", "failed"}]]
TokensTyped ==
  /\ saved \in [RelayKeys -> Tokens \cup {NoToken}]
  /\ told \in [RelayKeys -> Tokens \cup {NoToken}]
  /\ accepted \in [Hosts -> [RelayKeys -> Tokens \cup {NoToken}]]
HostsTyped ==
  /\ requests \subseteq {JoinRequest(j, h, k) : j \in Jobs, h \in Hosts, k \in {"join", "verify"}}
  /\ challenge \in [Hosts -> [job : Jobs \cup {Nil}, tries : 0..MaxAttempts]]
Typed == AuthTyped /\ AppTyped /\ AttemptTyped /\ TokensTyped /\ HostsTyped

\* Where a command and its attempt are: an attempt is of a command that has
\* begun, and failed with it.
Attempts ==
  /\ \A f \in Flows : flow[f] \in {"idle", "resolving"} => auth[f].pc = "off"
  /\ \A f \in Flows : flow[f] # "idle" => kind[f] \in Kinds /\ about[f] \in RelayKeys
  /\ \A r \in RelayKeys : attempt[r].id # Nil =>
       /\ attempt[r].id \in Flows
       /\ about[attempt[r].id] = r /\ flow[attempt[r].id] # "idle"
       /\ flow[attempt[r].id] = "failed" => attempt[r].status = "failed"
  /\ \A f \in Flows \ pruned : flow[f] # "idle" => attempt[about[f]].id # Nil

\* JoinLockIsExact, job by job.
Holders ==
  \A r \in RelayKeys, j \in Jobs : lock[r] = j <=> about[j] = r /\ auth[j].pc \in Locked

\* What has a job's name is of a job that has begun; a host is asked once, and
\* to verify only after it was asked to join.
Asked ==
  /\ \A q \in requests : auth[q.job].pc # "off" /\ q.host \notin auth[q.job].hosts
  /\ \A j \in Jobs, h \in Hosts :
       JoinRequest(j, h, "verify") \in requests => JoinRequest(j, h, "join") \notin requests
  /\ \A h \in Hosts : challenge[h].job # Nil => auth[challenge[h].job].pc # "off"
  /\ \A h \in Hosts, r \in RelayKeys : accepted[h][r].by \in Jobs =>
       auth[accepted[h][r].by].pc # "off" /\ about[accepted[h][r].by] = r

Granting(j) == auth[j].pc \in {"saving", "joining"}

\* The token of a job that was granted one is the host's, and once it is saved
\* the profile's.
Carried ==
  \A j \in Jobs : Granting(j) =>
    /\ auth[j].token \in Tokens /\ auth[j].token.by = j
    /\ auth[j].token.from \in Hosts => accepted[auth[j].token.from][about[j]] = auth[j].token
    /\ auth[j].pc = "joining" => saved[about[j]] = auth[j].token

\* The host of that token has no challenge of another job that asks it late.
Late ==
  \A j, k \in Jobs : Granting(j) /\ k # j /\ about[k] = about[j] /\ auth[j].token.from \in Hosts =>
    \/ JoinRequest(k, auth[j].token.from, "verify") \notin requests
    \/ challenge[auth[j].token.from].job # k

\* The app, the profile and the host have the same token for r.
Agreed(r) ==
  /\ told[r] = saved[r]
  /\ told[r].from \in Hosts => accepted[told[r].from][r] = told[r]

\* So they have unless a job for r was granted one and has not ended.
AllAgreed ==
  \A r \in RelayKeys \ (silenced \cup broken) :
    (lock[r] \in Jobs => ~Granting(lock[r])) => Agreed(r)

IInv ==
  /\ Typed /\ Attempts /\ Holders /\ NothingWaitsInVain
  /\ Asked /\ Carried /\ Late /\ AllAgreed
-----------------------------------------------------------------------------

LEMMA TypedType == Typed <=> JoinTypeOK
  BY DEF Typed, JoinTypeOK, AuthTyped, AppTyped, AttemptTyped, TokensTyped, HostsTyped, AuthRecord, Pcs

-----------------------------------------------------------------------------
(* What the operators on auth return                                          *)

LEMMA AuthIsTyped ==
  ASSUME NEW pc \in Pcs, NEW hs \in SUBSET Hosts, NEW h \in Hosts \cup {Nil},
         NEW token \in Tokens \cup {NoToken}
  PROVE  /\ Auth(pc, hs, h, token) \in AuthRecord
         /\ Auth(pc, hs, h, token).pc = pc /\ Auth(pc, hs, h, token).hosts = hs
         /\ Auth(pc, hs, h, token).host = h /\ Auth(pc, hs, h, token).token = token
  BY DEF Auth, AuthRecord

LEMMA AuthFields ==
  ASSUME AuthTyped, NEW j \in Jobs
  PROVE  /\ auth[j] \in AuthRecord /\ auth[j].pc \in Pcs /\ auth[j].hosts \in SUBSET Hosts
         /\ auth[j].host \in Hosts \cup {Nil} /\ auth[j].token \in Tokens \cup {NoToken}
  BY DEF AuthTyped, AuthRecord

\* Only where the job is changes.
LEMMA ToFacts ==
  ASSUME AuthTyped, NEW j \in Jobs, NEW pc \in Pcs
  PROVE  /\ To(j, pc) \in [Jobs -> AuthRecord]
         /\ To(j, pc)[j].pc = pc /\ To(j, pc)[j].hosts = auth[j].hosts
         /\ To(j, pc)[j].host = auth[j].host /\ To(j, pc)[j].token = auth[j].token
         /\ \A k \in Jobs : k # j => To(j, pc)[k] = auth[k]
  <1> DEFINE a == [auth[j] EXCEPT !.pc = pc]
  <1>1. auth[j] \in AuthRecord  BY DEF AuthTyped
  <1>2. /\ a \in AuthRecord /\ a.pc = pc /\ a.hosts = auth[j].hosts
        /\ a.host = auth[j].host /\ a.token = auth[j].token
    BY <1>1 DEF AuthRecord
  <1>3. To(j, pc) = [auth EXCEPT ![j] = a]  BY DEF To
  <1> HIDE DEF a
  <1>4. /\ To(j, pc) \in [Jobs -> AuthRecord] /\ To(j, pc)[j] = a
        /\ \A k \in Jobs : k # j => To(j, pc)[k] = auth[k]
    BY <1>2, <1>3 DEF AuthTyped
  <1> QED  BY <1>2, <1>4

LEMMA SetFacts ==
  ASSUME AuthTyped, NEW j \in Jobs, NEW a \in AuthRecord
  PROVE  /\ [auth EXCEPT ![j] = a] \in [Jobs -> AuthRecord]
         /\ [auth EXCEPT ![j] = a][j] = a
         /\ \A k \in Jobs : k # j => [auth EXCEPT ![j] = a][k] = auth[k]
  BY DEF AuthTyped

\* A request that is on its way is of a job that has begun.
LEMMA RequestFacts ==
  ASSUME Typed, Asked, NEW q \in requests
  PROVE  /\ q.job \in Jobs /\ q.host \in Hosts /\ q.kind \in {"join", "verify"}
         /\ q = JoinRequest(q.job, q.host, q.kind)
         /\ auth[q.job].pc # "off" /\ about[q.job] \in RelayKeys
         /\ q.host \notin auth[q.job].hosts
  <1>1. PICK j \in Jobs, h \in Hosts, k \in {"join", "verify"} : q = JoinRequest(j, h, k)
    BY DEF Typed, HostsTyped
  <1>2. q.job = j /\ q.host = h /\ q.kind = k  BY <1>1 DEF JoinRequest
  <1> QED  BY <1>1, <1>2 DEF Asked, Typed, AuthTyped

LEMMA ToTyped ==
  ASSUME AuthTyped, NEW j \in Jobs, NEW pc \in Pcs, about[j] \in RelayKeys, auth' = To(j, pc), about' = about
  PROVE  AuthTyped'
  BY ToFacts DEF AuthTyped

LEMMA SetTyped ==
  ASSUME AuthTyped, NEW j \in Jobs, NEW a \in AuthRecord, about[j] \in RelayKeys,
         auth' = [auth EXCEPT ![j] = a], about' = about
  PROVE  AuthTyped'
  BY SetFacts DEF AuthTyped

LEMMA BegunFacts ==
  ASSUME NEW hs \in SUBSET Hosts
  PROVE  Begun(hs) \in AuthRecord /\ Begun(hs).pc = "starting" /\ Begun(hs).hosts = hs
  BY AuthIsTyped DEF Begun, Pcs, Locked

LEMMA GrantedFacts ==
  ASSUME AuthTyped, NEW j \in Jobs, NEW token \in Tokens
  PROVE  /\ Granted(j, token) \in AuthRecord /\ Granted(j, token).pc = "saving"
         /\ Granted(j, token).token = token /\ Granted(j, token).hosts = auth[j].hosts
  BY AuthIsTyped, AuthFields DEF Granted, Pcs, Locked

LEMMA TokenFacts ==
  ASSUME NEW j \in Jobs, NEW from \in Hosts \cup {"self", "invite"}
  PROVE  Token(j, from) \in Tokens /\ Token(j, from).by = j /\ Token(j, from).from = from
  BY DEF Tokens, Token

\* The status of an attempt changes, and only of the command's own.
LEMMA MarkFacts ==
  ASSUME AttemptTyped, NEW r \in RelayKeys, NEW f, NEW status \in {"failed", "succeeded"}
  PROVE  /\ Mark(r, f, status) \in [RelayKeys -> [id : Flows \cup {Nil},
                                               status : {Nil, "in-progress", "succeeded", "failed"}]]
         /\ \A s \in RelayKeys : Mark(r, f, status)[s].id = attempt[s].id
         /\ \A s \in RelayKeys : attempt[s].id # f => Mark(r, f, status)[s] = attempt[s]
         /\ \A s \in RelayKeys : s # r => Mark(r, f, status)[s] = attempt[s]
         /\ attempt[r].id = f => Mark(r, f, status)[r].status = status
  <1> DEFINE a == [attempt[r] EXCEPT !.status = status]
  <1>1. attempt[r] \in [id : Flows \cup {Nil}, status : {Nil, "in-progress", "succeeded", "failed"}]
    BY DEF AttemptTyped
  <1>2. /\ a \in [id : Flows \cup {Nil}, status : {Nil, "in-progress", "succeeded", "failed"}]
        /\ a.id = attempt[r].id /\ a.status = status
    BY <1>1
  <1>3. Mark(r, f, status) = IF attempt[r].id = f THEN [attempt EXCEPT ![r] = a] ELSE attempt  BY DEF Mark
  <1> HIDE DEF a
  <1> QED  BY <1>2, <1>3 DEF AttemptTyped

LEMMA PendingFacts ==
  ASSUME AppTyped, NEW r \in RelayKeys
  PROVE  /\ AfterError(r) \in [RelayKeys -> {Nil, "waiting", "inFlight"}]
         /\ \A s \in RelayKeys : s # r => AfterError(r)[s] = pending[s]
         /\ AfterError(r)[r] # "inFlight"
         /\ \A token : /\ AfterSuccess(r, token) \in [RelayKeys -> {Nil, "waiting", "inFlight"}]
                       /\ \A s \in RelayKeys : s # r => AfterSuccess(r, token)[s] = pending[s]
                       /\ AfterSuccess(r, token)[r] # "inFlight"
  BY DEF AppTyped, AfterError, AfterSuccess, Nil

LEMMA ReleasedFacts ==
  ASSUME AppTyped, Holders, NEW j \in Jobs, about[j] \in RelayKeys, auth[j].pc \in Locked
  PROVE  Released(j) = [lock EXCEPT ![about[j]] = Nil]
  BY DEF Released, Holders

\* What a command's path may be: without a writer it fails, else it begins an
\* authentication with at most one host.
LEMMA ResolveCases ==
  ASSUME JoinConstants, Typed, Attempts, NEW f \in Flows, Resolve(f)
  PROVE  /\ UNCHANGED <<kind, about, lock, saved, requests, host, ghosts>>
         /\ flow[f] = "resolving"
         /\ \/ FlowFails(f) /\ UNCHANGED auth
            \/ \E hs \in SUBSET Hosts :
                 /\ flow' = [flow EXCEPT ![f] = "authenticating"]
                 /\ auth' = [auth EXCEPT ![f] = Begun(hs)]
                 /\ UNCHANGED app
  <1>1. PICK found \in Candidates(kind[f]), valid \in BOOLEAN :
        \E path \in Paths(kind[f], Claimed(found, valid)) :
          IF path = "no-writer-path"
            THEN FlowFails(f) /\ UNCHANGED auth
            ELSE /\ flow' = [flow EXCEPT ![f] = "authenticating"]
                 /\ auth' = [auth EXCEPT ![f] =
                      Begun(IF path = "direct-join" THEN {Claimed(found, valid)[2]} ELSE {})]
                 /\ UNCHANGED app
    BY DEF Resolve
  <1> DEFINE candidate == Claimed(found, valid)
  <1>2. PICK path \in Paths(kind[f], candidate) :
          IF path = "no-writer-path"
            THEN FlowFails(f) /\ UNCHANGED auth
            ELSE /\ flow' = [flow EXCEPT ![f] = "authenticating"]
                 /\ auth' = [auth EXCEPT ![f] = Begun(IF path = "direct-join" THEN {candidate[2]} ELSE {})]
                 /\ UNCHANGED app
    BY <1>1
  <1>3. candidate[1] = Nil \/ candidate[2] \in Hosts  BY DEF Claimed, Candidates
  <1>4. kind[f] \in {"open", "invite", "plain"}  BY DEF Resolve, Attempts, JoinConstants
  <1> HIDE DEF candidate
  <1>5. path = "direct-join" => candidate[2] \in Hosts
    BY <1>3, <1>4 DEF Paths, OpenPath, InvitePath, PlainPath, Nil
  <1>6. (IF path = "direct-join" THEN {candidate[2]} ELSE {}) \in SUBSET Hosts  BY <1>5
  <1> QED
    BY <1>2, <1>6 DEF Resolve

\* Dial, when the host is connected to.
Asks(j, h) ==
  /\ auth[j].pc = "dial" /\ h \in auth[j].hosts
  /\ auth' = [auth EXCEPT ![j] = Auth("asked", auth[j].hosts \ {h}, h, NoToken)]
  /\ requests' = requests \cup {JoinRequest(j, h, "join")}
  /\ UNCHANGED <<flow, kind, about, lock, saved, app, host, ghosts>>

\* Only a lock, a mark or a command that changes can set them apart from what runs.
LEMMA StillRunning ==
  ASSUME Holders, NothingWaitsInVain, UNCHANGED <<flow, about, lock, pending, silenced>>,
         \A k \in Jobs : auth'[k].pc = auth[k].pc \/ (auth[k].pc \in Locked /\ auth'[k].pc \in Locked)
  PROVE  Holders' /\ NothingWaitsInVain'
  <1>1. \A k \in Jobs : auth'[k].pc \in Locked <=> auth[k].pc \in Locked  OBVIOUS
  <1>2. \A k \in Jobs : auth'[k].pc \in Locked \cup {"starting"} <=> auth[k].pc \in Locked \cup {"starting"}
    BY DEF Locked
  <1>3. Holders'  BY <1>1 DEF Holders
  <1>4. \A r : Running(r)' = Running(r)  BY <1>2 DEF Running
  <1>5. NothingWaitsInVain'  BY <1>4 DEF NothingWaitsInVain
  <1> QED  BY <1>3, <1>5

\* A step of a job that tells no host anything, and is granted nothing.
LEMMA SameAtHosts ==
  ASSUME Typed, Asked, UNCHANGED <<about, requests, challenge, accepted>>,
         \A k \in Jobs : (auth[k].pc # "off" => auth'[k].pc # "off") /\ auth'[k].hosts \subseteq auth[k].hosts
  PROVE  Asked'
  <1>1. \A q \in requests : q.job \in Jobs  BY RequestFacts
  <1>2. \A h \in Hosts : challenge[h].job \in Jobs \cup {Nil}  BY DEF Typed, HostsTyped
  <1> QED  BY <1>1, <1>2 DEF Asked

LEMMA SameTokens ==
  ASSUME Carried, Late, UNCHANGED <<about, requests, challenge, accepted, saved>>,
         \A k \in Jobs : auth'[k] = auth[k] \/ auth'[k].pc \notin {"saving", "joining"}
  PROVE  Carried' /\ Late'
  <1>1. \A k \in Jobs : Granting(k)' => Granting(k) /\ auth'[k] = auth[k]  BY DEF Granting
  <1>2. Carried'  BY <1>1 DEF Carried
  <1>3. Late'  BY <1>1 DEF Late
  <1> QED  BY <1>2, <1>3

LEMMA StartInv ==
  ASSUME JoinConstants, IInv, NEW f \in Flows, NEW r \in RelayKeys, NEW k \in Kinds, Start(f, r, k)
  PROVE  IInv'
  <1>1. AuthTyped'  BY DEF IInv, Jobs, Start, Typed, AuthTyped
  <1>2. AppTyped'  BY DEF IInv, ghosts, Start, Typed, AppTyped
  <1>3. AttemptTyped'  BY DEF IInv, Start, Typed, AttemptTyped
  <1>4. TokensTyped'  BY DEF IInv, host, Start, Typed, TokensTyped
  <1>5. HostsTyped'  BY DEF IInv, host, Start, Typed, HostsTyped
  <1>6. Attempts'
    BY DEF JoinConstants, IInv, Jobs, ghosts, Start, Typed, AuthTyped, AppTyped, AttemptTyped, Attempts
  <1>7. Holders'  BY DEF IInv, Locked, Start, Attempts, Holders
  <1>8. NothingWaitsInVain'  BY DEF IInv, ghosts, Locked, Start, Attempts, NothingWaitsInVain, Running
  <1>9. Asked'  BY DEF IInv, host, Start, Attempts, Asked
  <1>10. Carried'  BY DEF IInv, host, Start, Attempts, Carried, Granting
  <1>11. Late'  BY DEF IInv, host, Start, Attempts, Asked, Late, Granting, JoinRequest
  <1>12. AllAgreed'  BY DEF IInv, host, ghosts, Start, AllAgreed, Agreed, Granting
  <1> QED  BY <1>1, <1>2, <1>3, <1>4, <1>5, <1>6, <1>7, <1>8, <1>9, <1>10, <1>11, <1>12 DEF IInv, Typed

LEMMA FlowEndsInv ==
  ASSUME JoinConstants, IInv, NEW f \in Flows, flow[f] # "idle", FlowFails(f), UNCHANGED auth,
         UNCHANGED <<kind, about, lock, saved, requests, host, ghosts>>
  PROVE  IInv'
  <1>0. /\ about[f] \in RelayKeys /\ f # Nil
        /\ flow' = [flow EXCEPT ![f] = "failed"] /\ attempt' = Mark(about[f], f, "failed")
        /\ pending' = AfterError(about[f])
        /\ UNCHANGED <<kind, about, auth, lock, saved, told, teller, requests, challenge,
                       accepted, silenced, broken, pruned>>
    BY DEF IInv, Attempts, FlowFails, JoinConstants, Jobs, host, ghosts
  <1>1. AuthTyped'  BY <1>0 DEF IInv, Typed, AuthTyped
  <1>2. AppTyped'  BY <1>0, PendingFacts DEF IInv, Typed, AppTyped
  <1>3. AttemptTyped'  BY <1>0, MarkFacts DEF IInv, Typed, AttemptTyped
  <1>4. TokensTyped'  BY <1>0 DEF IInv, Typed, TokensTyped
  <1>5. HostsTyped'  BY <1>0 DEF IInv, Typed, HostsTyped
  <1>6. Attempts'  BY <1>0, MarkFacts DEF IInv, Jobs, Typed, AuthTyped, AttemptTyped, Attempts
  <1>7. Holders'  BY <1>0 DEF IInv, Holders
  <1>8. NothingWaitsInVain'  BY <1>0, PendingFacts DEF JoinConstants, IInv, Typed, NothingWaitsInVain, Running
  <1>9. Asked'  BY <1>0 DEF IInv, Asked
  <1>10. Carried'  BY <1>0 DEF IInv, Carried, Granting
  <1>11. Late'  BY <1>0 DEF IInv, Late, Granting
  <1>12. AllAgreed'  BY <1>0 DEF IInv, AllAgreed, Agreed, Granting
  <1> QED  BY <1>1, <1>2, <1>3, <1>4, <1>5, <1>6, <1>7, <1>8, <1>9, <1>10, <1>11, <1>12 DEF IInv, Typed

LEMMA ResolveBeginsInv ==
  ASSUME JoinConstants, IInv, NEW f \in Flows, NEW hs \in SUBSET Hosts, flow[f] = "resolving",
         flow' = [flow EXCEPT ![f] = "authenticating"], auth' = [auth EXCEPT ![f] = Begun(hs)], UNCHANGED app,
         UNCHANGED <<kind, about, lock, saved, requests, host, ghosts>>
  PROVE  IInv'
  <1>0. /\ about[f] \in RelayKeys /\ auth[f].pc = "off" /\ f \in Jobs
        /\ auth'[f] \in AuthRecord /\ auth'[f].pc = "starting"
        /\ \A j \in Jobs : j # f => auth'[j] = auth[j]
        /\ UNCHANGED <<kind, about, attempt, pending, lock, saved, told, teller, requests, challenge,
                       accepted, silenced, broken, pruned>>
    BY BegunFacts, SetFacts DEF IInv, Typed, Attempts, Jobs, app, host, ghosts
  <1>1. AuthTyped'  BY <1>0, BegunFacts, SetTyped DEF IInv, Typed
  <1>2. AppTyped'  BY <1>0 DEF IInv, Typed, AppTyped
  <1>3. AttemptTyped'  BY <1>0 DEF IInv, Typed, AttemptTyped
  <1>4. TokensTyped'  BY <1>0 DEF IInv, Typed, TokensTyped
  <1>5. HostsTyped'  BY <1>0 DEF IInv, Typed, HostsTyped
  <1>6. Attempts'  BY <1>0 DEF IInv, Typed, AppTyped, Attempts
  <1>7. Holders'  BY <1>0 DEF IInv, Locked, Holders
  <1>8. NothingWaitsInVain'  BY <1>0 DEF IInv, NothingWaitsInVain, Running
  <1>9. Asked'  BY <1>0 DEF IInv, Asked
  <1>10. Carried'  BY <1>0 DEF IInv, Carried, Granting
  <1>11. Late'  BY <1>0 DEF IInv, Late, Granting
  <1>12. AllAgreed'  BY <1>0 DEF IInv, AllAgreed, Agreed, Granting
  <1> QED  BY <1>1, <1>2, <1>3, <1>4, <1>5, <1>6, <1>7, <1>8, <1>9, <1>10, <1>11, <1>12 DEF IInv, Typed

LEMMA ReauthInv ==
  ASSUME JoinConstants, IInv, NEW a \in Reauths, NEW r \in RelayKeys, NEW hs \in SUBSET Hosts,
         Reauth(a, r, hs)
  PROVE  IInv'
  <1>1. AuthTyped'  BY DEF IInv, Jobs, Auth, Reauth, Begun, Typed, AuthTyped, AuthRecord, Pcs
  <1>2. AppTyped'  BY DEF IInv, ghosts, Reauth, Typed, AppTyped
  <1>3. AttemptTyped'  BY DEF IInv, Reauth, Typed, AttemptTyped
  <1>4. TokensTyped'  BY DEF IInv, host, Reauth, Typed, TokensTyped
  <1>5. HostsTyped'  BY DEF IInv, host, Reauth, Typed, HostsTyped
  <1>6. Attempts'  BY DEF JoinConstants, IInv, ghosts, Reauth, Attempts
  <1>7. Holders'  BY DEF IInv, Locked, Auth, Reauth, Begun, Holders
  <1>8. NothingWaitsInVain'
    BY DEF IInv, Jobs, ghosts, Locked, Auth, Reauth, Begun, Typed, AuthTyped, NothingWaitsInVain, Running
  <1>9. Asked'  BY DEF IInv, host, Reauth, Asked
  <1>10. Carried'  BY DEF IInv, host, Auth, Reauth, Begun, Carried, Granting
  <1>11. Late'  BY DEF IInv, host, Auth, Reauth, Begun, Asked, Late, Granting, JoinRequest
  <1>12. AllAgreed'  BY DEF IInv, host, ghosts, Reauth, AllAgreed, Agreed, Granting
  <1> QED  BY <1>1, <1>2, <1>3, <1>4, <1>5, <1>6, <1>7, <1>8, <1>9, <1>10, <1>11, <1>12 DEF IInv, Typed

LEMMA AcquireInv ==
  ASSUME JoinConstants, IInv, NEW j \in Jobs, Acquire(j)
  PROVE  IInv'
  <1>0. /\ auth[j].pc = "starting" /\ auth' = To(j, "dial") /\ "dial" \in Pcs
        /\ auth'[j].pc = "dial" /\ auth'[j].hosts = auth[j].hosts /\ auth'[j].token = auth[j].token
        /\ \A k \in Jobs : k # j => auth'[k] = auth[k]
        /\ about[j] \in RelayKeys
    BY ToFacts DEF IInv, Typed, AuthTyped, Pcs, Locked, Acquire
  <1>1. AuthTyped'  BY <1>0, ToTyped DEF IInv, Typed, Acquire
  <1>2. AppTyped'  BY DEF IInv, app, ghosts, Acquire, Typed, AppTyped
  <1>3. AttemptTyped'  BY DEF IInv, app, Acquire, Typed, AttemptTyped
  <1>4. TokensTyped'  BY DEF IInv, app, host, Acquire, Typed, TokensTyped
  <1>5. HostsTyped'  BY DEF IInv, host, Acquire, Typed, HostsTyped
  <1>6. Attempts'  BY DEF IInv, app, ghosts, Acquire, To, Attempts
  <1>7. Holders'
    BY DEF JoinConstants, IInv, Locked, Acquire, To, InFlight, Typed, AuthTyped, AppTyped, Holders
  <1>8. NothingWaitsInVain'  BY DEF IInv, app, ghosts, Locked, Acquire, To, NothingWaitsInVain, Running
  <1>9. Asked'  BY DEF IInv, host, Acquire, To, Asked
  <1>10. Carried'  BY DEF IInv, host, Acquire, To, Carried, Granting
  <1>11. Late'  BY DEF IInv, host, Acquire, To, Late, Granting
  <1>12. AllAgreed'
    BY DEF JoinConstants, IInv, app, host, ghosts, Acquire, To, InFlight, AllAgreed, Agreed, Granting
  <1> QED  BY <1>1, <1>2, <1>3, <1>4, <1>5, <1>6, <1>7, <1>8, <1>9, <1>10, <1>11, <1>12 DEF IInv, Typed

LEMMA RefusedInv ==
  ASSUME JoinConstants, IInv, NEW j \in Jobs, Refused(j)
  PROVE  IInv'
  <1>a. "ended" \in Pcs /\ about[j] \in RelayKeys /\ j # Nil
    BY DEF IInv, Typed, AuthTyped, Pcs, Refused, JoinConstants
  <1>b. AuthTyped'  BY <1>a, ToTyped DEF IInv, Typed, Refused
  <1>0. /\ auth[j].pc = "starting" /\ auth'[j].pc = "ended" /\ auth'[j].hosts = auth[j].hosts
        /\ auth'[j].token = auth[j].token
        /\ \A k \in Jobs : k # j => auth'[k] = auth[k]
        /\ lock[about[j]] \in Jobs
        /\ UNCHANGED <<kind, about, lock, saved, told, teller, requests, challenge,
                       accepted, silenced, broken, pruned>>
    BY <1>a, ToFacts DEF IInv, Typed, AppTyped, Refused, InFlight, FlowFails, app, host, ghosts
  <1>c. \/ /\ j \in Flows /\ flow[j] = "authenticating" /\ flow' = [flow EXCEPT ![j] = "failed"]
           /\ attempt' = Mark(about[j], j, "failed") /\ pending' = AfterError(about[j])
        \/ /\ ~(j \in Flows /\ flow[j] = "authenticating")
           /\ UNCHANGED <<flow, attempt, pending>>
    BY DEF Refused, FlowFails, app
  <1>1. AuthTyped'  BY <1>b
  <1>2. AppTyped'  BY <1>a, <1>0, <1>c, PendingFacts DEF JoinConstants, IInv, Jobs, Locked, Typed, AppTyped
  <1>3. AttemptTyped'  BY <1>a, <1>0, <1>c, MarkFacts DEF IInv, Typed, AttemptTyped
  <1>4. TokensTyped'  BY <1>a, <1>0, <1>c DEF IInv, Typed, TokensTyped
  <1>5. HostsTyped'  BY <1>a, <1>0, <1>c DEF IInv, Typed, HostsTyped
  <1>6. Attempts'
    <2>1. CASE UNCHANGED <<flow, attempt>>
      BY <1>a, <1>0, <2>1 DEF IInv, Attempts, Jobs
    <2>2. CASE /\ j \in Flows /\ flow[j] = "authenticating" /\ flow' = [flow EXCEPT ![j] = "failed"]
               /\ attempt' = Mark(about[j], j, "failed")
      <3>1. /\ flow'[j] = "failed" /\ \A f \in Flows : f # j => flow'[f] = flow[f]
            /\ auth[j].pc # "off"
        BY <1>0, <2>2 DEF IInv, Typed, AppTyped
      <3>2. \A r \in RelayKeys : attempt'[r].id = attempt[r].id  BY <1>a, <2>2, MarkFacts DEF IInv, Typed
      <3>3. \A r \in RelayKeys : attempt[r].id # j => attempt'[r] = attempt[r]
        BY <1>a, <2>2, MarkFacts DEF IInv, Typed
      <3>4. \A r \in RelayKeys : attempt[r].id = j => attempt'[r].status = "failed"
        BY <1>a, <2>2, MarkFacts DEF IInv, Typed, Attempts
      <3> QED  BY <1>0, <2>2, <3>1, <3>2, <3>3, <3>4 DEF IInv, Attempts, Jobs
    <2> QED  BY <1>c, <2>1, <2>2
  <1>7. Holders'  BY <1>a, <1>0, <1>c DEF IInv, Locked, Holders
  <1>8. NothingWaitsInVain'
    <2>1. \A k \in Jobs \ {j} : auth'[k] = auth[k]  BY <1>0
    <2>2. PICK k \in Jobs : k # j /\ about[k] = about[j] /\ auth[k].pc \in Locked
      BY <1>a, <1>0 DEF IInv, Holders, Locked
    <2>3. Running(about[j])' # {}  BY <1>0, <2>1, <2>2 DEF Running
    <2>4. \A r : r # about[j] => Running(r)' = Running(r)  BY <1>0, <2>1 DEF Running
    <2>5. \A f \in Flows : flow'[f] = "authenticating" => flow[f] = "authenticating" /\ f # j
      BY <1>c DEF IInv, Typed, AppTyped
    <2>6. \A f \in Flows : flow'[f] = "authenticating" => f \in Running(about[f])'
      BY <1>0, <2>1, <2>5 DEF IInv, NothingWaitsInVain, Running
    <2>7. \A r \in RelayKeys : r # about[j] => pending'[r] = pending[r]
      BY <1>a, <1>c, PendingFacts DEF IInv, Typed
    <2> QED  BY <1>0, <2>3, <2>4, <2>6, <2>7 DEF IInv, NothingWaitsInVain
  <1>9. Asked'  BY <1>a, <1>0, SameAtHosts DEF IInv
  <1>10. Carried'  BY <1>0, SameTokens DEF IInv
  <1>11. Late'  BY <1>0, SameTokens DEF IInv
  <1>12. AllAgreed'  BY <1>a, <1>0, <1>c DEF IInv, AllAgreed, Agreed, Granting
  <1> QED  BY <1>1, <1>2, <1>3, <1>4, <1>5, <1>6, <1>7, <1>8, <1>9, <1>10, <1>11, <1>12 DEF IInv, Typed

LEMMA JoinTimeoutInv ==
  ASSUME JoinConstants, IInv, NEW j \in Jobs, JoinTimeout(j)
  PROVE  IInv'
  <1>0. /\ auth[j].pc = "asked" /\ auth' = To(j, "dial") /\ "dial" \in Pcs
        /\ auth'[j].pc = "dial" /\ auth'[j].hosts = auth[j].hosts /\ auth'[j].token = auth[j].token
        /\ \A k \in Jobs : k # j => auth'[k] = auth[k]
        /\ about[j] \in RelayKeys
    BY ToFacts DEF IInv, Typed, AuthTyped, Pcs, Locked, JoinTimeout
  <1>1. AuthTyped'  BY <1>0, ToTyped DEF IInv, Typed, JoinTimeout
  <1>2. AppTyped'  BY DEF IInv, app, ghosts, JoinTimeout, Typed, AppTyped
  <1>3. AttemptTyped'  BY DEF IInv, app, JoinTimeout, Typed, AttemptTyped
  <1>4. TokensTyped'  BY DEF IInv, app, host, JoinTimeout, Typed, TokensTyped
  <1>5. HostsTyped'  BY DEF IInv, host, JoinTimeout, Typed, HostsTyped
  <1>6. Attempts'  BY DEF IInv, app, ghosts, JoinTimeout, To, Attempts
  <1>7. Holders'  BY DEF IInv, Locked, JoinTimeout, To, Holders
  <1>8. NothingWaitsInVain'  BY DEF IInv, app, ghosts, Locked, JoinTimeout, To, NothingWaitsInVain, Running
  <1>9. Asked'  BY DEF IInv, host, JoinTimeout, To, Asked
  <1>10. Carried'  BY DEF IInv, host, JoinTimeout, To, Carried, Granting
  <1>11. Late'  BY DEF IInv, host, JoinTimeout, To, Late, Granting
  <1>12. AllAgreed'  BY DEF IInv, app, host, ghosts, JoinTimeout, To, AllAgreed, Agreed, Granting
  <1> QED  BY <1>1, <1>2, <1>3, <1>4, <1>5, <1>6, <1>7, <1>8, <1>9, <1>10, <1>11, <1>12 DEF IInv, Typed

LEMMA FallbackInv ==
  ASSUME JoinConstants, IInv, NEW j \in Jobs, Fallback(j)
  PROVE  IInv'
  <1>0. PICK from \in {"invite", "self"} : auth' = [auth EXCEPT ![j] = Granted(j, Token(j, from))]
    BY DEF Fallback
  <1>a. /\ Token(j, from) \in Tokens /\ Token(j, from).by = j /\ Token(j, from).from \notin Hosts
        /\ Granted(j, Token(j, from)) \in AuthRecord
        /\ auth[j].pc = "dial" /\ auth'[j].pc = "saving" /\ auth'[j].hosts = auth[j].hosts
        /\ auth'[j].token = Token(j, from)
        /\ \A k \in Jobs : k # j => auth'[k] = auth[k]
        /\ about[j] \in RelayKeys
        /\ UNCHANGED <<flow, kind, about, lock, saved, requests, attempt, pending, told, teller, challenge,
                       accepted, silenced, broken, pruned>>
    BY <1>0, TokenFacts, GrantedFacts, SetFacts DEF IInv, Typed, AuthTyped, Fallback, JoinConstants, app,
       host, ghosts
  <1>1. AuthTyped'  BY <1>0, <1>a, SetTyped DEF IInv, Typed
  <1>2. AppTyped'  BY <1>a DEF IInv, Typed, AppTyped
  <1>3. AttemptTyped'  BY <1>a DEF IInv, Typed, AttemptTyped
  <1>4. TokensTyped'  BY <1>a DEF IInv, Typed, TokensTyped
  <1>5. HostsTyped'  BY <1>a DEF IInv, Typed, HostsTyped
  <1>6. Attempts'  BY <1>a DEF IInv, Fallback, Attempts
  <1>7. Holders'  BY <1>a DEF IInv, Locked, Holders
  <1>8. NothingWaitsInVain'  BY <1>a DEF IInv, Locked, Fallback, NothingWaitsInVain, Running
  <1>9. Asked'  BY <1>a DEF IInv, Fallback, Asked
  <1>10. Carried'  BY <1>a DEF IInv, Fallback, Carried, Granting
  <1>11. Late'  BY <1>a DEF IInv, Late, Granting
  <1>12. AllAgreed'  BY <1>a DEF IInv, AllAgreed, Agreed, Granting
  <1> QED  BY <1>1, <1>2, <1>3, <1>4, <1>5, <1>6, <1>7, <1>8, <1>9, <1>10, <1>11, <1>12 DEF IInv, Typed

LEMMA SaveInv ==
  ASSUME JoinConstants, IInv, NEW j \in Jobs, Save(j)
  PROVE  IInv'
  <1>0. /\ auth[j].pc = "saving" /\ auth' = To(j, "joining") /\ "joining" \in Pcs
        /\ auth'[j].pc = "joining" /\ auth'[j].hosts = auth[j].hosts /\ auth'[j].token = auth[j].token
        /\ \A k \in Jobs : k # j => auth'[k] = auth[k]
        /\ about[j] \in RelayKeys
    BY ToFacts DEF IInv, Typed, AuthTyped, Pcs, Locked, Save
  <1>1. AuthTyped'  BY <1>0, ToTyped DEF IInv, Typed, Save
  <1>2. AppTyped'  BY DEF IInv, app, ghosts, Save, Typed, AppTyped
  <1>3. AttemptTyped'  BY DEF IInv, app, Save, Typed, AttemptTyped
  <1>4. TokensTyped'  BY DEF IInv, app, host, Save, Typed, AuthTyped, TokensTyped, Carried, Granting
  <1>5. HostsTyped'  BY DEF IInv, host, Save, Typed, HostsTyped
  <1>6. Attempts'  BY DEF IInv, app, ghosts, Save, To, Attempts
  <1>7. Holders'  BY DEF IInv, Locked, Save, To, Holders
  <1>8. NothingWaitsInVain'  BY DEF IInv, app, ghosts, Locked, Save, To, NothingWaitsInVain, Running
  <1>9. Asked'  BY DEF IInv, host, Save, To, Asked
  <1>10. Carried'
    BY DEF IInv, host, Locked, Save, To, Typed, AuthTyped, AppTyped, TokensTyped, Holders, Carried, Granting
  <1>11. Late'  BY DEF IInv, host, Save, To, Late, Granting
  <1>12. AllAgreed'  BY DEF IInv, app, host, ghosts, Locked, Save, To, Holders, AllAgreed, Agreed, Granting
  <1> QED  BY <1>1, <1>2, <1>3, <1>4, <1>5, <1>6, <1>7, <1>8, <1>9, <1>10, <1>11, <1>12 DEF IInv, Typed

LEMMA SucceedInv ==
  ASSUME JoinConstants, IInv, NEW j \in Jobs, Succeed(j)
  PROVE  IInv'
  <1>0. /\ auth[j].pc = "joining" /\ auth' = To(j, "ended") /\ "ended" \in Pcs
        /\ auth'[j].pc = "ended" /\ auth'[j].hosts = auth[j].hosts /\ auth'[j].token = auth[j].token
        /\ \A k \in Jobs : k # j => auth'[k] = auth[k]
        /\ about[j] \in RelayKeys
    BY ToFacts DEF IInv, Typed, AuthTyped, Pcs, Succeed
  <1>1. AuthTyped'  BY <1>0, ToTyped DEF IInv, Typed, Succeed
  <1>2. AppTyped'
    <2>1. AppTyped  BY DEF IInv, Typed
    <2>2. /\ flow' \in [Flows -> {"idle", "resolving", "authenticating", "done", "failed"}]
          /\ kind' = kind /\ pruned' = pruned
      BY <2>1 DEF AppTyped, Succeed
    <2>3. pending' \in [RelayKeys -> {Nil, "waiting", "inFlight"}]
      BY <1>0, <2>1, PendingFacts DEF AppTyped, Succeed
    <2>4. lock' \in [RelayKeys -> Jobs \cup {Nil}]
      BY <1>0, <2>1, ReleasedFacts DEF AppTyped, Locked, IInv, Succeed
    <2>5. /\ teller' \in [RelayKeys -> Jobs \cup {Nil}]
          /\ silenced' \subseteq RelayKeys /\ broken' \subseteq RelayKeys
      BY <1>0, <2>1 DEF AppTyped, Succeed
    <2> QED  BY <2>1, <2>2, <2>3, <2>4, <2>5 DEF AppTyped
  <1>3. AttemptTyped'  BY DEF IInv, Succeed, Typed, AttemptTyped, Mark
  <1>4. TokensTyped'
    BY DEF JoinConstants, IInv, Jobs, Nil, host, Succeed, To, Released, Suppressed, Typed, AuthTyped,
       TokensTyped, Carried, Granting
  <1>5. HostsTyped'  BY DEF IInv, host, Succeed, Typed, HostsTyped
  <1>6. Attempts'  BY DEF JoinConstants, IInv, Succeed, To, Suppressed, Attempts, Mark
  <1>7. Holders'
    BY DEF JoinConstants, IInv, Locked, Succeed, To, Released, Typed, AuthTyped, AppTyped, Holders
  <1>8. NothingWaitsInVain'
    BY DEF IInv, Nil, Succeed, To, Typed, AppTyped, NothingWaitsInVain, Running, AfterSuccess
  <1>9. Asked'  BY DEF IInv, host, Succeed, To, Asked
  <1>10. Carried'  BY DEF IInv, host, Succeed, To, Carried, Granting
  <1>11. Late'  BY DEF IInv, host, Succeed, To, Late, Granting
  <1>12. AllAgreed'
    BY DEF IInv, host, Succeed, To, Released, Typed, TokensTyped, Holders, AllAgreed, Agreed, Carried,
       Granting
  <1> QED  BY <1>1, <1>2, <1>3, <1>4, <1>5, <1>6, <1>7, <1>8, <1>9, <1>10, <1>11, <1>12 DEF IInv, Typed

LEMMA FailInv ==
  ASSUME JoinConstants, IInv, NEW j \in Jobs, Fail(j, about[j])
  PROVE  IInv'
  <1>a. auth[j].pc \in Locked /\ "ended" \in Pcs /\ about[j] \in RelayKeys /\ j # Nil
    BY DEF IInv, Typed, AuthTyped, Pcs, Locked, Fail, JoinConstants
  <1>b. AuthTyped'  BY <1>a, ToTyped DEF IInv, Typed, Fail
  <1>0. /\ auth'[j].pc = "ended" /\ auth'[j].hosts = auth[j].hosts /\ auth'[j].token = auth[j].token
        /\ \A k \in Jobs : k # j => auth'[k] = auth[k]
        /\ lock' = [lock EXCEPT ![about[j]] = Nil]
        /\ broken' = IF auth[j].pc \in {"saving", "joining"} THEN broken \cup {about[j]} ELSE broken
        /\ pending' = AfterError(about[j])
        /\ UNCHANGED <<kind, about, saved, told, teller, requests, challenge, accepted, silenced, pruned>>
    BY <1>a, ToFacts, ReleasedFacts DEF IInv, Typed, Fail, FlowFails, host
  <1>c. \/ /\ j \in Flows /\ flow[j] = "authenticating" /\ flow' = [flow EXCEPT ![j] = "failed"]
           /\ attempt' = Mark(about[j], j, "failed")
        \/ /\ ~(j \in Flows /\ flow[j] = "authenticating")
           /\ UNCHANGED <<flow, attempt>>
    BY DEF Fail, FlowFails
  <1>1. AuthTyped'  BY <1>b
  <1>2. AppTyped'  BY <1>a, <1>0, <1>c, PendingFacts DEF IInv, Typed, AppTyped
  <1>3. AttemptTyped'  BY <1>a, <1>0, <1>c, MarkFacts DEF IInv, Typed, AttemptTyped
  <1>4. TokensTyped'  BY <1>a, <1>0, <1>c DEF IInv, Typed, TokensTyped
  <1>5. HostsTyped'  BY <1>a, <1>0, <1>c DEF IInv, Typed, HostsTyped
  <1>6. Attempts'
    BY <1>a, <1>0, <1>c, MarkFacts DEF IInv, Jobs, Nil, Locked, Typed, AuthTyped, AppTyped, AttemptTyped,
       AuthRecord, Pcs, Attempts, Holders
  <1>7. Holders'  BY <1>a, <1>0, <1>c DEF JoinConstants, IInv, Locked, Typed, AppTyped, Holders
  <1>8. NothingWaitsInVain'
    <2>1. \A k \in Jobs \ {j} : auth'[k] = auth[k]  BY <1>0
    <2>2. \A r : r # about[j] => Running(r)' = Running(r)  BY <1>0, <2>1 DEF Running
    <2>3. \A f \in Flows : flow'[f] = "authenticating" => flow[f] = "authenticating" /\ f # j
      BY <1>c DEF IInv, Typed, AppTyped
    <2>4. \A f \in Flows : flow'[f] = "authenticating" => f \in Running(about[f])'
      BY <1>0, <2>1, <2>3 DEF IInv, NothingWaitsInVain, Running
    <2>5. \A r \in RelayKeys : pending'[r] = "inFlight" => r # about[j] /\ pending[r] = "inFlight"
      BY <1>a, <1>0, PendingFacts DEF IInv, Typed
    <2> QED  BY <1>0, <2>2, <2>4, <2>5 DEF IInv, NothingWaitsInVain
  <1>9. Asked'  BY <1>a, <1>0, SameAtHosts DEF IInv, Locked
  <1>10. Carried'  BY <1>0, SameTokens DEF IInv
  <1>11. Late'  BY <1>0, SameTokens DEF IInv
  <1>12. AllAgreed'  BY <1>a, <1>0, <1>c DEF IInv, Holders, AllAgreed, Agreed, Granting
  <1> QED  BY <1>1, <1>2, <1>3, <1>4, <1>5, <1>6, <1>7, <1>8, <1>9, <1>10, <1>11, <1>12 DEF IInv, Typed

LEMMA AsksInv ==
  ASSUME JoinConstants, IInv, NEW j \in Jobs, NEW h \in Hosts, Asks(j, h)
  PROVE  IInv'
  <1> DEFINE a == Auth("asked", auth[j].hosts \ {h}, h, NoToken)
  <1>a. a \in AuthRecord /\ a.pc = "asked" /\ a.hosts = auth[j].hosts \ {h} /\ about[j] \in RelayKeys
    BY AuthFields, AuthIsTyped DEF IInv, Typed, AuthTyped, Pcs, Locked, Asks
  <1>b. auth' = [auth EXCEPT ![j] = a]  BY DEF Asks
  <1> HIDE DEF a
  <1>c. AuthTyped'  BY <1>a, <1>b, SetTyped DEF IInv, Typed, Asks
  <1>0. /\ auth[j].pc = "dial" /\ auth'[j].pc = "asked"
        /\ \A k \in Jobs : k # j => auth'[k] = auth[k]
        /\ about[j] \in RelayKeys
        /\ UNCHANGED <<flow, kind, about, lock, saved, attempt, pending, told, teller, challenge,
                       accepted, silenced, broken, pruned>>
    BY <1>a, <1>b, SetFacts DEF IInv, Typed, Asks, app, host, ghosts
  <1>f. auth'[j].hosts = auth[j].hosts \ {h}  BY <1>a, <1>b, SetFacts DEF IInv, Typed
  <1>e. requests' = requests \cup {JoinRequest(j, h, "join")}  BY DEF Asks
  <1>d. \A k \in Jobs : auth'[k].pc = auth[k].pc \/ (auth[k].pc \in Locked /\ auth'[k].pc \in Locked)
    BY <1>0 DEF Locked
  <1>1. AuthTyped'  BY <1>c
  <1>2. AppTyped'  BY <1>0 DEF IInv, Typed, AppTyped
  <1>3. AttemptTyped'  BY <1>0 DEF IInv, Typed, AttemptTyped
  <1>4. TokensTyped'  BY <1>0 DEF IInv, Typed, TokensTyped
  <1>5. HostsTyped'  BY <1>0, <1>e DEF IInv, Typed, HostsTyped
  <1>6. Attempts'  BY <1>0 DEF IInv, Jobs, Attempts
  <1>7. Holders'  BY <1>0, <1>d, StillRunning DEF IInv
  <1>8. NothingWaitsInVain'  BY <1>0, <1>d, StillRunning DEF IInv
  <1>9. Asked'
    <2>1. JoinRequest(j, h, "verify") \notin requests  BY DEF IInv, Asked, JoinRequest, Asks
    <2>2. \A q \in requests' : q \in requests \/ q = JoinRequest(j, h, "join")  BY <1>e
    <2>3. \A q \in requests : q.job \in Jobs /\ auth[q.job].pc # "off" /\ q.host \notin auth[q.job].hosts
      BY RequestFacts DEF IInv
    <2>4. \A k \in Jobs : /\ auth[k].pc # "off" => auth'[k].pc # "off"
                          /\ auth'[k].hosts \subseteq auth[k].hosts
      BY <1>0, <1>f
    <2>5. \A q \in requests' : auth'[q.job].pc # "off" /\ q.host \notin auth'[q.job].hosts
      BY <1>0, <1>f, <2>2, <2>3, <2>4 DEF JoinRequest
    <2>6. \A k \in Jobs, i \in Hosts :
            JoinRequest(k, i, "verify") \in requests' => JoinRequest(k, i, "join") \notin requests'
      BY <2>1, <2>2 DEF IInv, Asked, JoinRequest
    <2> QED  BY <1>0, <2>4, <2>5, <2>6 DEF IInv, Typed, HostsTyped, Asked
  <1>10. Carried'  BY <1>0 DEF IInv, Carried, Granting
  <1>11. Late'
    <2>1. \A k \in Jobs, i \in Hosts :
            JoinRequest(k, i, "verify") \in requests' => JoinRequest(k, i, "verify") \in requests
      BY <1>e DEF JoinRequest
    <2>2. \A k \in Jobs : Granting(k)' => Granting(k) /\ auth'[k] = auth[k]  BY <1>0 DEF Granting
    <2> QED  BY <1>0, <2>1, <2>2 DEF IInv, Late
  <1>12. AllAgreed'  BY <1>0 DEF IInv, AllAgreed, Agreed, Granting
  <1> QED  BY <1>1, <1>2, <1>3, <1>4, <1>5, <1>6, <1>7, <1>8, <1>9, <1>10, <1>11, <1>12 DEF IInv, Typed

LEMMA UnreachedInv ==
  ASSUME JoinConstants, IInv, NEW j \in Jobs, NEW h \in Hosts, auth[j].pc = "dial",
         auth' = [auth EXCEPT ![j].hosts = auth[j].hosts \ {h}],
         UNCHANGED <<flow, kind, about, lock, saved, requests, app, host, ghosts>>
  PROVE  IInv'
  <1>a. auth[j] \in AuthRecord /\ auth[j].hosts \in SUBSET Hosts /\ about[j] \in RelayKeys
    BY AuthFields DEF IInv, Typed, AuthTyped
  <1> DEFINE a == [auth[j] EXCEPT !.hosts = auth[j].hosts \ {h}]
  <1>b. a \in AuthRecord /\ a.pc = auth[j].pc /\ a.hosts = auth[j].hosts \ {h} /\ a.token = auth[j].token
    BY <1>a DEF AuthRecord
  <1>c. auth' = [auth EXCEPT ![j] = a]  OBVIOUS
  <1> HIDE DEF a
  <1>0. /\ auth'[j].pc = "dial" /\ auth'[j].hosts \subseteq auth[j].hosts
        /\ \A k \in Jobs : k # j => auth'[k] = auth[k]
        /\ about[j] \in RelayKeys
        /\ UNCHANGED <<flow, kind, about, lock, saved, requests, attempt, pending, told, teller, challenge,
                       accepted, silenced, broken, pruned>>
    BY <1>a, <1>b, <1>c, SetFacts DEF IInv, app, host, ghosts
  <1>1. AuthTyped'  BY <1>a, <1>b, <1>c, SetTyped DEF IInv, Typed
  <1>2. AppTyped'  BY <1>0 DEF IInv, Typed, AppTyped
  <1>3. AttemptTyped'  BY <1>0 DEF IInv, Typed, AttemptTyped
  <1>4. TokensTyped'  BY <1>0 DEF IInv, Typed, TokensTyped
  <1>5. HostsTyped'  BY <1>0 DEF IInv, Typed, HostsTyped
  <1>6. Attempts'  BY <1>0 DEF IInv, Attempts
  <1>7. Holders'  BY <1>0 DEF IInv, Holders
  <1>8. NothingWaitsInVain'  BY <1>0 DEF IInv, NothingWaitsInVain, Running
  <1>9. Asked'  BY <1>0 DEF IInv, Asked
  <1>10. Carried'  BY <1>0 DEF IInv, Carried, Granting
  <1>11. Late'  BY <1>0 DEF IInv, Late, Granting
  <1>12. AllAgreed'  BY <1>0 DEF IInv, AllAgreed, Agreed, Granting
  <1> QED  BY <1>1, <1>2, <1>3, <1>4, <1>5, <1>6, <1>7, <1>8, <1>9, <1>10, <1>11, <1>12 DEF IInv, Typed

LEMMA JoinRefusedInv ==
  ASSUME JoinConstants, IInv, NEW q \in requests, q.kind = "join", UNCHANGED challenge,
         requests' = requests \ {q}, auth' = IF Waits(q) THEN To(q.job, "dial") ELSE auth,
         UNCHANGED <<flow, kind, about, lock, saved, app, accepted, ghosts>>
  PROVE  IInv'
  <1>a. q.job \in Jobs /\ about[q.job] \in RelayKeys /\ "dial" \in Pcs  BY RequestFacts DEF IInv, Pcs, Locked
  <1>b. AuthTyped'  BY <1>a, ToTyped DEF IInv, Typed, AuthTyped
  <1>0. /\ \A k \in Jobs : /\ auth'[k].hosts = auth[k].hosts /\ auth'[k].token = auth[k].token
                           /\ auth'[k].pc # auth[k].pc => auth[k].pc = "asked" /\ auth'[k].pc = "dial"
        /\ UNCHANGED <<flow, kind, about, lock, saved, attempt, pending, told, teller, accepted,
                       silenced, broken, pruned>>
        /\ challenge' = challenge /\ requests' \subseteq requests
    BY <1>a, ToFacts DEF IInv, Typed, Waits, app, ghosts
  <1>1. AuthTyped'  BY <1>b
  <1>2. AppTyped'  BY <1>0 DEF IInv, Typed, AppTyped
  <1>3. AttemptTyped'  BY <1>0 DEF IInv, Typed, AttemptTyped
  <1>4. TokensTyped'  BY <1>0 DEF IInv, Typed, TokensTyped
  <1>5. HostsTyped'  BY <1>0 DEF IInv, Typed, HostsTyped
  <1>6. Attempts'  BY <1>0 DEF IInv, Jobs, Attempts
  <1>7. Holders'  BY <1>0 DEF IInv, Holders, Locked
  <1>8. NothingWaitsInVain'  BY <1>0 DEF IInv, NothingWaitsInVain, Running, Locked
  <1>9. Asked'  BY <1>0 DEF IInv, Typed, HostsTyped, Asked, JoinRequest
  <1>10. Carried'  BY <1>0 DEF IInv, Carried, Granting
  <1>11. Late'  BY <1>0 DEF IInv, Late, Granting
  <1>12. AllAgreed'  BY <1>0 DEF IInv, AllAgreed, Agreed, Granting
  <1> QED  BY <1>1, <1>2, <1>3, <1>4, <1>5, <1>6, <1>7, <1>8, <1>9, <1>10, <1>11, <1>12 DEF IInv, Typed

LEMMA JoinGrantedInv ==
  ASSUME JoinConstants, IInv, NEW q \in requests, q.kind = "join", Waits(q),
         challenge' = [challenge EXCEPT ![q.host] = [job |-> q.job, tries |-> 0]],
         auth' = To(q.job, "proving"),
         requests' = (requests \ {q}) \cup {JoinRequest(q.job, q.host, "verify")},
         UNCHANGED <<flow, kind, about, lock, saved, app, accepted, ghosts>>
  PROVE  IInv'
  <1>a. /\ q.job \in Jobs /\ q.host \in Hosts /\ q = JoinRequest(q.job, q.host, "join")
        /\ about[q.job] \in RelayKeys /\ "proving" \in Pcs /\ q.host \notin auth[q.job].hosts
    BY RequestFacts DEF IInv, Pcs, Locked
  <1>b. AuthTyped'  BY <1>a, ToTyped DEF IInv, Typed, AuthTyped
  <1>0. /\ auth[q.job].pc = "asked" /\ auth'[q.job].pc = "proving" /\ auth'[q.job].hosts = auth[q.job].hosts
        /\ \A k \in Jobs : k # q.job => auth'[k] = auth[k]
        /\ UNCHANGED <<flow, kind, about, lock, saved, attempt, pending, told, teller, accepted,
                       silenced, broken, pruned>>
        /\ q.job # Nil
    BY <1>a, ToFacts DEF IInv, Typed, Waits, app, ghosts, JoinConstants
  <1>1. AuthTyped'  BY <1>b
  <1>2. AppTyped'  BY <1>0, <1>a DEF IInv, Typed, AppTyped
  <1>3. AttemptTyped'  BY <1>0, <1>a DEF IInv, Typed, AttemptTyped
  <1>4. TokensTyped'  BY <1>0, <1>a DEF IInv, Typed, TokensTyped
  <1>5. HostsTyped'  BY <1>0, <1>a DEF JoinConstants, IInv, Typed, HostsTyped
  <1>6. Attempts'  BY <1>0, <1>a DEF IInv, Jobs, Attempts
  <1>7. Holders'  BY <1>0, <1>a DEF IInv, Holders, Locked
  <1>8. NothingWaitsInVain'  BY <1>0, <1>a DEF IInv, NothingWaitsInVain, Running, Locked
  <1>9. Asked'  BY <1>0, <1>a DEF IInv, Typed, HostsTyped, Asked, JoinRequest
  <1>10. Carried'  BY <1>0, <1>a DEF IInv, Carried, Granting
  <1>11. Late'  BY <1>0, <1>a DEF JoinConstants, IInv, Locked, Holders, Late, Granting, JoinRequest
  <1>12. AllAgreed'  BY <1>0, <1>a DEF IInv, Nil, Locked, AllAgreed, Agreed, Granting
  <1> QED  BY <1>1, <1>2, <1>3, <1>4, <1>5, <1>6, <1>7, <1>8, <1>9, <1>10, <1>11, <1>12 DEF IInv, Typed

LEMMA JoinLostInv ==
  ASSUME JoinConstants, IInv, NEW q \in requests, q.kind = "join",
         challenge' = [challenge EXCEPT ![q.host] = [job |-> q.job, tries |-> 0]],
         requests' = requests \ {q}, UNCHANGED auth,
         UNCHANGED <<flow, kind, about, lock, saved, app, accepted, ghosts>>
  PROVE  IInv'
  <1>a. /\ q.job \in Jobs /\ q.host \in Hosts /\ q = JoinRequest(q.job, q.host, "join")
        /\ auth[q.job].pc # "off"
    BY RequestFacts DEF IInv
  <1>0. /\ auth' = auth
        /\ UNCHANGED <<flow, kind, about, lock, saved, attempt, pending, told, teller, accepted,
                       silenced, broken, pruned>> /\ q.job # Nil
    BY <1>a DEF app, ghosts, JoinConstants
  <1>1. AuthTyped'  BY <1>0, <1>a DEF IInv, Typed, AuthTyped
  <1>2. AppTyped'  BY <1>0, <1>a DEF IInv, Typed, AppTyped
  <1>3. AttemptTyped'  BY <1>0, <1>a DEF IInv, Typed, AttemptTyped
  <1>4. TokensTyped'  BY <1>0, <1>a DEF IInv, Typed, TokensTyped
  <1>5. HostsTyped'  BY <1>0, <1>a DEF JoinConstants, IInv, Typed, HostsTyped
  <1>6. Attempts'  BY <1>0, <1>a DEF IInv, Attempts
  <1>7. Holders'  BY <1>0, <1>a DEF IInv, Holders
  <1>8. NothingWaitsInVain'  BY <1>0, <1>a DEF IInv, NothingWaitsInVain, Running
  <1>9. Asked'  BY <1>0, <1>a DEF IInv, Asked
  <1>10. Carried'  BY <1>0, <1>a DEF IInv, Carried, Granting
  <1>11. Late'  BY <1>0, <1>a DEF IInv, Asked, Late, Granting
  <1>12. AllAgreed'  BY <1>0, <1>a DEF IInv, AllAgreed, Agreed, Granting
  <1> QED  BY <1>1, <1>2, <1>3, <1>4, <1>5, <1>6, <1>7, <1>8, <1>9, <1>10, <1>11, <1>12 DEF IInv, Typed

LEMMA NotVerifiedInv ==
  ASSUME JoinConstants, IInv, NEW q \in requests, q.kind = "verify", requests' = requests \ {q},
         challenge' = [challenge EXCEPT ![q.host] = Retrieved(q.host)],
         UNCHANGED <<accepted, auth, broken>>,
         UNCHANGED <<flow, kind, about, lock, saved, app, silenced, pruned>>
  PROVE  IInv'
  <1>a. /\ q.host \in Hosts /\ challenge[q.host] \in [job : Jobs \cup {Nil}, tries : 0..MaxAttempts]
        /\ MaxAttempts \in Nat
    BY RequestFacts DEF IInv, Typed, HostsTyped, JoinConstants
  <1>b. /\ Retrieved(q.host) \in [job : Jobs \cup {Nil}, tries : 0..MaxAttempts]
        /\ Retrieved(q.host).job \in {challenge[q.host].job, Nil}
    BY <1>a DEF Retrieved, NoChallenge
  <1>0. /\ auth' = auth /\ accepted' = accepted /\ broken' = broken
        /\ UNCHANGED <<flow, kind, about, lock, saved, attempt, pending, told, teller,
                       silenced, pruned>>
        /\ requests' \subseteq requests
    BY DEF app
  <1>1. AuthTyped'  BY <1>0, <1>a, <1>b DEF IInv, Typed, AuthTyped
  <1>2. AppTyped'  BY <1>0, <1>a, <1>b DEF IInv, Typed, AppTyped
  <1>3. AttemptTyped'  BY <1>0, <1>a, <1>b DEF IInv, Typed, AttemptTyped
  <1>4. TokensTyped'  BY <1>0, <1>a, <1>b DEF IInv, Typed, TokensTyped
  <1>5. HostsTyped'  BY <1>0, <1>a, <1>b DEF IInv, Typed, HostsTyped
  <1>6. Attempts'  BY <1>0, <1>a, <1>b DEF IInv, Attempts
  <1>7. Holders'  BY <1>0, <1>a, <1>b DEF IInv, Holders
  <1>8. NothingWaitsInVain'  BY <1>0, <1>a, <1>b DEF IInv, NothingWaitsInVain, Running
  <1>9. Asked'  BY <1>0, <1>a, <1>b DEF IInv, Asked
  <1>10. Carried'  BY <1>0, <1>a, <1>b DEF IInv, Carried, Granting
  <1>11. Late'  BY <1>0, <1>a, <1>b DEF JoinConstants, IInv, Late, Granting
  <1>12. AllAgreed'  BY <1>0, <1>a, <1>b DEF IInv, AllAgreed, Agreed, Granting
  <1> QED  BY <1>1, <1>2, <1>3, <1>4, <1>5, <1>6, <1>7, <1>8, <1>9, <1>10, <1>11, <1>12 DEF IInv, Typed

LEMMA VerifiedArrivesInv ==
  ASSUME JoinConstants, IInv, NEW q \in requests, NEW token,
         q.kind = "verify", requests' = requests \ {q},
         Retrieved(q.host).job = q.job, token = Token(q.job, q.host),
         challenge' = [challenge EXCEPT ![q.host] = NoChallenge],
         accepted' = [accepted EXCEPT ![q.host][about[q.job]] = token],
         Waits(q), auth' = [auth EXCEPT ![q.job] = Granted(q.job, token)], UNCHANGED broken,
         UNCHANGED <<flow, kind, about, lock, saved, app, silenced, pruned>>
  PROVE  IInv'
  <1>a. /\ q.job \in Jobs /\ q.host \in Hosts /\ about[q.job] \in RelayKeys
        /\ q = JoinRequest(q.job, q.host, "verify") /\ auth[q.job].pc # "off" /\ q.job # Nil
    BY RequestFacts DEF IInv, JoinConstants
  <1>b. challenge[q.host].job = q.job  BY <1>a DEF Retrieved, NoChallenge
  <1>c. /\ token \in Tokens /\ token.by = q.job /\ token.from = q.host  BY <1>a, TokenFacts
  <1>d. AuthTyped'  BY <1>a, <1>c, GrantedFacts, SetTyped DEF IInv, Typed
  <1>0. /\ auth[q.job].pc = "proving" /\ auth'[q.job].pc = "saving" /\ auth'[q.job].hosts = auth[q.job].hosts
        /\ auth'[q.job].token = token
        /\ \A k \in Jobs : k # q.job => auth'[k] = auth[k]
        /\ broken' = broken
        /\ UNCHANGED <<flow, kind, about, lock, saved, attempt, pending, told, teller,
                       silenced, pruned>>
    BY <1>a, <1>c, GrantedFacts, SetFacts DEF IInv, Typed, Waits, app
  <1>1. AuthTyped'  BY <1>d
  <1>2. AppTyped'  BY <1>0, <1>a, <1>b, <1>c DEF IInv, Typed, AppTyped
  <1>3. AttemptTyped'  BY <1>0, <1>a, <1>b, <1>c DEF IInv, Typed, AttemptTyped
  <1>4. TokensTyped'  BY <1>0, <1>a, <1>b, <1>c DEF IInv, Typed, TokensTyped, JoinRequest
  <1>5. HostsTyped'  BY <1>0, <1>a, <1>b, <1>c DEF JoinConstants, IInv, Typed, HostsTyped, NoChallenge
  <1>6. Attempts'  BY <1>0, <1>a, <1>b, <1>c DEF IInv, Attempts
  <1>7. Holders'  BY <1>0, <1>a, <1>b, <1>c DEF IInv, Locked, Holders
  <1>8. NothingWaitsInVain'  BY <1>0, <1>a, <1>b, <1>c DEF IInv, Locked, NothingWaitsInVain, Running
  <1>9. Asked'  BY <1>0, <1>a, <1>b, <1>c DEF IInv, Asked, JoinRequest, NoChallenge
  <1>10. Carried'  BY <1>0, <1>a, <1>b, <1>c DEF IInv, Typed, TokensTyped, Carried, Late, Granting
  <1>11. Late'  BY <1>0, <1>a, <1>b, <1>c DEF JoinConstants, IInv, Late, Granting, NoChallenge
  <1>12. AllAgreed'  BY <1>0, <1>a, <1>b, <1>c DEF IInv, Locked, Holders, AllAgreed, Agreed, Granting
  <1> QED  BY <1>1, <1>2, <1>3, <1>4, <1>5, <1>6, <1>7, <1>8, <1>9, <1>10, <1>11, <1>12 DEF IInv, Typed

LEMMA VerifiedLostInv ==
  ASSUME JoinConstants, IInv, NEW q \in requests, NEW token,
         q.kind = "verify", requests' = requests \ {q},
         Retrieved(q.host).job = q.job, token = Token(q.job, q.host),
         challenge' = [challenge EXCEPT ![q.host] = NoChallenge],
         accepted' = [accepted EXCEPT ![q.host][about[q.job]] = token],
         UNCHANGED auth, broken' = broken \cup {about[q.job]},
         UNCHANGED <<flow, kind, about, lock, saved, app, silenced, pruned>>
  PROVE  IInv'
  <1>a. /\ q.job \in Jobs /\ q.host \in Hosts /\ about[q.job] \in RelayKeys
        /\ q = JoinRequest(q.job, q.host, "verify") /\ auth[q.job].pc # "off" /\ q.job # Nil
    BY RequestFacts DEF IInv, JoinConstants
  <1>b. challenge[q.host].job = q.job  BY <1>a DEF Retrieved, NoChallenge
  <1>c. /\ token \in Tokens /\ token.by = q.job /\ token.from = q.host  BY <1>a, TokenFacts
  <1>0. /\ auth' = auth
        /\ UNCHANGED <<flow, kind, about, lock, saved, attempt, pending, told, teller,
                       silenced, pruned>>
    BY DEF app
  <1>1. AuthTyped'  BY <1>0, <1>a, <1>b, <1>c DEF IInv, Typed, AuthTyped
  <1>2. AppTyped'  BY <1>0, <1>a, <1>b, <1>c DEF IInv, Typed, AppTyped
  <1>3. AttemptTyped'  BY <1>0, <1>a, <1>b, <1>c DEF IInv, Typed, AttemptTyped
  <1>4. TokensTyped'  BY <1>0, <1>a, <1>b, <1>c DEF IInv, Typed, TokensTyped, JoinRequest
  <1>5. HostsTyped'  BY <1>0, <1>a, <1>b, <1>c DEF JoinConstants, IInv, Typed, HostsTyped, NoChallenge
  <1>6. Attempts'  BY <1>0, <1>a, <1>b, <1>c DEF IInv, Attempts
  <1>7. Holders'  BY <1>0, <1>a, <1>b, <1>c DEF IInv, Holders
  <1>8. NothingWaitsInVain'  BY <1>0, <1>a, <1>b, <1>c DEF IInv, NothingWaitsInVain, Running
  <1>9. Asked'  BY <1>0, <1>a, <1>b, <1>c DEF IInv, Asked, NoChallenge
  <1>10. Carried'  BY <1>0, <1>a, <1>b, <1>c DEF IInv, Carried, Late, Granting, Tokens, Token
  <1>11. Late'  BY <1>0, <1>a, <1>b, <1>c DEF JoinConstants, IInv, Late, Granting, NoChallenge
  <1>12. AllAgreed'  BY <1>0, <1>a, <1>b, <1>c DEF IInv, AllAgreed, Agreed, Granting
  <1> QED  BY <1>1, <1>2, <1>3, <1>4, <1>5, <1>6, <1>7, <1>8, <1>9, <1>10, <1>11, <1>12 DEF IInv, Typed

LEMMA ExpireInv ==
  ASSUME JoinConstants, IInv, NEW h \in Hosts, Expire(h)
  PROVE  IInv'
  <1>1. AuthTyped'  BY DEF IInv, Expire, Typed, AuthTyped
  <1>2. AppTyped'  BY DEF IInv, app, ghosts, Expire, Typed, AppTyped
  <1>3. AttemptTyped'  BY DEF IInv, app, Expire, Typed, AttemptTyped
  <1>4. TokensTyped'  BY DEF IInv, app, Expire, Typed, TokensTyped
  <1>5. HostsTyped'  BY DEF JoinConstants, IInv, Expire, Typed, HostsTyped, NoChallenge
  <1>6. Attempts'  BY DEF IInv, app, ghosts, Expire, Attempts
  <1>7. Holders'  BY DEF IInv, Expire, Holders
  <1>8. NothingWaitsInVain'  BY DEF IInv, app, ghosts, Expire, NothingWaitsInVain, Running
  <1>9. Asked'  BY DEF IInv, Expire, Asked, NoChallenge
  <1>10. Carried'  BY DEF IInv, Expire, Carried, Granting
  <1>11. Late'  BY DEF JoinConstants, IInv, Expire, Late, Granting, NoChallenge
  <1>12. AllAgreed'  BY DEF IInv, app, ghosts, Expire, AllAgreed, Agreed, Granting
  <1> QED  BY <1>1, <1>2, <1>3, <1>4, <1>5, <1>6, <1>7, <1>8, <1>9, <1>10, <1>11, <1>12 DEF IInv, Typed

LEMMA ForgetInv ==
  ASSUME JoinConstants, IInv, NEW r \in RelayKeys, Forget(r)
  PROVE  IInv'
  <1>1. AuthTyped'  BY DEF IInv, Forget, Typed, AuthTyped
  <1>2. AppTyped'  BY DEF IInv, Forget, Typed, AppTyped
  <1>3. AttemptTyped'  BY DEF IInv, Forget, Typed, AttemptTyped, NoAttempt
  <1>4. TokensTyped'  BY DEF IInv, host, Forget, Typed, TokensTyped
  <1>5. HostsTyped'  BY DEF IInv, host, Forget, Typed, HostsTyped
  <1>6. Attempts'  BY DEF IInv, Forget, Attempts, NoAttempt
  <1>7. Holders'  BY DEF IInv, Forget, Holders
  <1>8. NothingWaitsInVain'  BY DEF IInv, Forget, NothingWaitsInVain, Running
  <1>9. Asked'  BY DEF IInv, host, Forget, Asked
  <1>10. Carried'  BY DEF IInv, host, Forget, Carried, Granting
  <1>11. Late'  BY DEF IInv, host, Forget, Late, Granting
  <1>12. AllAgreed'  BY DEF IInv, host, Forget, AllAgreed, Agreed, Granting
  <1> QED  BY <1>1, <1>2, <1>3, <1>4, <1>5, <1>6, <1>7, <1>8, <1>9, <1>10, <1>11, <1>12 DEF IInv, Typed

LEMMA DialInv ==
  ASSUME JoinConstants, IInv, NEW j \in Jobs, NEW h \in Hosts, Dial(j, h)
  PROVE  IInv'
  BY AsksInv, UnreachedInv DEF Dial, Asks

LEMMA ResolveInv ==
  ASSUME JoinConstants, IInv, NEW f \in Flows, Resolve(f)
  PROVE  IInv'
  <1>1. flow[f] = "resolving" /\ UNCHANGED <<kind, about, lock, saved, requests, host, ghosts>>
    BY ResolveCases DEF IInv
  <1>2. CASE FlowFails(f) /\ UNCHANGED auth
    BY <1>1, <1>2, FlowEndsInv
  <1>3. ASSUME NEW hs \in SUBSET Hosts, flow' = [flow EXCEPT ![f] = "authenticating"],
               auth' = [auth EXCEPT ![f] = Begun(hs)], UNCHANGED app
        PROVE  IInv'
    BY <1>1, <1>3, ResolveBeginsInv
  <1> QED  BY <1>2, <1>3, ResolveCases DEF IInv

LEMMA DeadlineExceededInv ==
  ASSUME JoinConstants, IInv, NEW f \in Flows, DeadlineExceeded(f)
  PROVE  IInv'
  BY FlowEndsInv DEF DeadlineExceeded

LEMMA HandleJoinInv ==
  ASSUME JoinConstants, IInv, NEW q \in requests, HandleJoin(q)
  PROVE  IInv'
  BY JoinRefusedInv, JoinGrantedInv, JoinLostInv DEF HandleJoin

LEMMA HandleVerifyInv ==
  ASSUME JoinConstants, IInv, NEW q \in requests, HandleVerify(q)
  PROVE  IInv'
  <1>1. CASE ~Verified(q)
    BY <1>1, NotVerifiedInv DEF HandleVerify
  <1>2. CASE Verified(q)
    <2> DEFINE token == Token(q.job, q.host)
    <2>1. /\ q.kind = "verify" /\ requests' = requests \ {q} /\ Retrieved(q.host).job = q.job
          /\ challenge' = [challenge EXCEPT ![q.host] = NoChallenge]
          /\ accepted' = [accepted EXCEPT ![q.host][about[q.job]] = token]
          /\ UNCHANGED <<flow, kind, about, lock, saved, app, silenced, pruned>>
      BY <1>2 DEF HandleVerify, Verified
    <2>2. \/ /\ Waits(q) /\ UNCHANGED broken
             /\ auth' = [auth EXCEPT ![q.job] = Granted(q.job, token)]
          \/ UNCHANGED auth /\ broken' = broken \cup {about[q.job]}
      BY <1>2 DEF HandleVerify, Verified
    <2> QED  BY <2>1, <2>2, VerifiedArrivesInv, VerifiedLostInv
  <1> QED  BY <1>1, <1>2

LEMMA StutterInv ==
  ASSUME IInv, UNCHANGED joinVars
  PROVE  IInv'
  <1> USE DEF joinVars, app, host, ghosts
  <1>1. Typed'  BY DEF IInv, Typed, AuthTyped, AppTyped, AttemptTyped, TokensTyped, HostsTyped
  <1>2. Attempts' /\ Holders'  BY DEF IInv, Attempts, Holders
  <1>3. NothingWaitsInVain'  BY DEF IInv, NothingWaitsInVain, Running
  <1>4. Asked'  BY DEF IInv, Asked
  <1>5. Carried' /\ Late' /\ AllAgreed'  BY DEF IInv, Carried, Late, AllAgreed, Granting, Agreed
  <1> QED  BY <1>1, <1>2, <1>3, <1>4, <1>5 DEF IInv

LEMMA NextInv ==
  ASSUME JoinConstants, IInv, [JoinNext]_joinVars
  PROVE  IInv'
  <1>1. ASSUME NEW f \in Flows, NEW r \in RelayKeys, NEW k \in Kinds, Start(f, r, k)  PROVE IInv'
    BY <1>1, StartInv
  <1>2. ASSUME NEW f \in Flows, Resolve(f) \/ DeadlineExceeded(f)  PROVE IInv'
    BY <1>2, ResolveInv, DeadlineExceededInv
  <1>3. ASSUME NEW a \in Reauths, NEW r \in RelayKeys, NEW hs \in SUBSET Hosts \ {{}}, Reauth(a, r, hs)
        PROVE  IInv'
    BY <1>3, ReauthInv
  <1>4. ASSUME NEW j \in Jobs, JobStep(j)  PROVE IInv'
    <2>1. CASE Acquire(j)  BY <2>1, AcquireInv
    <2>2. CASE Refused(j)  BY <2>2, RefusedInv
    <2>3. CASE JoinTimeout(j)  BY <2>3, JoinTimeoutInv
    <2>4. CASE Fallback(j)  BY <2>4, FallbackInv
    <2>5. CASE Save(j)  BY <2>5, SaveInv
    <2>6. CASE Succeed(j)  BY <2>6, SucceedInv
    <2>7. CASE Fail(j, about[j])  BY <2>7, FailInv
    <2>8. CASE \E h \in Hosts : Dial(j, h)  BY <2>8, DialInv
    <2> QED  BY <1>4, <2>1, <2>2, <2>3, <2>4, <2>5, <2>6, <2>7, <2>8 DEF JobStep
  <1>5. ASSUME NEW q \in requests, HandleJoin(q) \/ HandleVerify(q)  PROVE IInv'
    BY <1>5, HandleJoinInv, HandleVerifyInv
  <1>6. ASSUME NEW h \in Hosts, Expire(h)  PROVE IInv'
    BY <1>6, ExpireInv
  <1>7. ASSUME NEW r \in RelayKeys, Forget(r)  PROVE IInv'
    BY <1>7, ForgetInv
  <1>8. CASE UNCHANGED joinVars  BY <1>8, StutterInv
  <1> QED  BY <1>1, <1>2, <1>3, <1>4, <1>5, <1>6, <1>7, <1>8 DEF JoinNext

LEMMA InitInv ==
  ASSUME JoinConstants, JoinInit
  PROVE  IInv
  <1>1. AuthTyped
    <2>1. NoAuth \in AuthRecord /\ NoAuth.pc = "off"
      <3>1. /\ "off" \in Pcs /\ {} \in SUBSET Hosts
            /\ Nil \in Hosts \cup {Nil} /\ NoToken \in Tokens \cup {NoToken}
        BY DEF Pcs
      <3> QED  BY <3>1, AuthIsTyped DEF NoAuth
    <2> QED  BY <2>1 DEF JoinInit, AuthTyped
  <1>2. AppTyped /\ AttemptTyped  BY DEF JoinInit, AppTyped, AttemptTyped, NoAttempt
  <1>3. TokensTyped  BY DEF JoinInit, TokensTyped
  <1>4. HostsTyped  BY DEF JoinInit, HostsTyped, NoChallenge, JoinConstants
  <1>5. \A j \in Jobs : auth[j].pc = "off"  BY DEF JoinInit, NoAuth, Auth
  <1>6. Attempts  BY <1>5 DEF JoinInit, Attempts, NoAttempt, Jobs
  <1>7. Holders  BY <1>5 DEF JoinInit, Holders, Locked, JoinConstants
  <1>8. NothingWaitsInVain  BY DEF JoinInit, NothingWaitsInVain, Nil
  <1>9. Asked  BY DEF JoinInit, Asked, NoChallenge, NoToken, Token, JoinConstants
  <1>10. Carried /\ Late  BY <1>5 DEF Carried, Late, Granting
  <1>11. AllAgreed  BY DEF JoinInit, AllAgreed, Agreed, NoToken, Token, JoinConstants
  <1> QED  BY <1>1, <1>2, <1>3, <1>4, <1>6, <1>7, <1>8, <1>9, <1>10, <1>11 DEF IInv, Typed

LEMMA Invariance ==
  ASSUME JoinConstants
  PROVE  JoinSpec => []IInv
  <1>1. JoinInit => IInv  BY InitInv
  <1>2. IInv /\ [JoinNext]_joinVars => IInv'  BY NextInv
  <1> QED  BY <1>1, <1>2, PTL DEF JoinSpec

-----------------------------------------------------------------------------
(* What the invariant says to a reader                                        *)

LEMMA HoldersAreExact ==
  ASSUME JoinConstants, Typed, Holders
  PROVE  JoinLockIsExact
  <1> SUFFICES ASSUME NEW r \in RelayKeys
               PROVE  {j \in Jobs : about[j] = r /\ auth[j].pc \in Locked} = {lock[r]} \ {Nil}
    BY DEF JoinLockIsExact
  <1>1. \A j \in Jobs : lock[r] = j <=> about[j] = r /\ auth[j].pc \in Locked  BY DEF Holders
  <1>2. lock[r] \in Jobs \cup {Nil} /\ Nil \notin Jobs  BY DEF Typed, AppTyped, JoinConstants
  <1> QED  BY <1>1, <1>2

LEMMA FreeAgrees ==
  ASSUME JoinConstants, IInv
  PROVE  TokensAgree
  BY DEF IInv, Asked, AllAgreed, Agreed, TokensAgree, JoinConstants

(* Every variable has its type, always.                                       *)
THEOREM TypeCorrect ==
  ASSUME JoinConstants
  PROVE  JoinSpec => []JoinTypeOK
  <1>1. IInv => JoinTypeOK  BY TypedType DEF IInv
  <1> QED  BY <1>1, Invariance, PTL

(* Whatever fails, times out, comes late or is superseded: the lock of        *)
(* acquireJoinAuthAttemptLock is held exactly while an authentication of the  *)
(* relay is at work, a command that authenticates has one that goes on, and   *)
(* an open join marked as in flight (pendingOpenJoinReauth) has one that will *)
(* tell of its end.                                                           *)
THEOREM NothingLeftBehind ==
  ASSUME JoinConstants
  PROVE  JoinSpec => []JoinsTracked
  <1>1. IInv => JoinsTracked  BY HoldersAreExact DEF IInv, JoinsTracked
  <1> QED  BY <1>1, Invariance, PTL

(* However requests, challenges and answers of several joins overtake one     *)
(* another: once no authentication of a relay runs, the token of its profile  *)
(* is the one the app was told of, and accepted by the host that granted it.  *)
THEOREM SameToken ==
  ASSUME JoinConstants
  PROVE  JoinSpec => []TokensAgree
  <1>1. IInv => TokensAgree  BY FreeAgrees
  <1> QED  BY <1>1, Invariance, PTL

(* A success that the app is told of (shouldSuppressJoinAuthSuccess) is not   *)
(* of a command that it was told has failed, or that another has replaced.    *)
THEOREM SuccessIsCurrent ==
  ASSUME JoinConstants
  PROVE  JoinSpec => NoStaleSuccess
  <1> DEFINE TellsFresh == \A r \in RelayKeys : told'[r] # told[r] /\ teller'[r] \in Flows \ pruned =>
                        attempt[r].id = teller'[r] /\ flow[teller'[r]] # "failed"
  <1>1. ASSUME IInv, NEW j \in Jobs, Succeed(j)  PROVE TellsFresh
    <2>1. about[j] \in RelayKeys /\ auth[j].pc = "joining"  BY <1>1 DEF IInv, Typed, AuthTyped, Succeed
    <2>2. \A r \in RelayKeys : r # about[j] => told'[r] = told[r]
      BY <1>1, <2>1 DEF Succeed, IInv, Typed, TokensTyped
    <2>3. CASE Suppressed(about[j], j)
      BY <1>1, <2>3 DEF Succeed
    <2>4. CASE ~Suppressed(about[j], j)
      <3>1. teller'[about[j]] = j  BY <1>1, <2>1, <2>4 DEF Succeed, IInv, Typed, AppTyped
      <3>2. j \in Flows \ pruned => attempt[about[j]].id = j /\ flow[j] # "failed"
        BY <1>1, <2>1, <2>4 DEF IInv, Attempts, Suppressed
      <3> QED  BY <2>2, <3>1, <3>2
    <2> QED  BY <2>3, <2>4
  <1>2. ASSUME JoinNext, \A j \in Jobs : ~Succeed(j)  PROVE told' = told
    <2>1. \A f : FlowFails(f) => told' = told  BY DEF FlowFails
    <2> QED
      BY <1>2, <2>1 DEF JoinNext, JobStep, Start, Resolve, DeadlineExceeded, Reauth, Acquire, Refused,
         JoinTimeout, Fallback,
         Save, Fail, Dial, HandleJoin, HandleVerify, Expire, Forget, app
  <1>3. IInv /\ [JoinNext]_joinVars => [TellsFresh]_joinVars  BY <1>1, <1>2
  <1> QED  BY <1>3, Invariance, PTL DEF JoinSpec, NoStaleSuccess

-----------------------------------------------------------------------------
(* What is held of a relay                                                    *)

\* The records of joins, fetches, held tokens and renewals.
JoinRecords ==
  [kind : {"claim", "open", "append"}, left : Seq(Gateways), at : {"idle", "challenge", "request"},
   answer : {Void} \cup Answers, token : {Void} \cup Serials]
FetchRecords ==
  [at : {"idle", "route", "access", "wait", "get", "apply", "note", "save", "sync"},
   gateway : {Void} \cup Gateways, token : {Void} \cup Serials, waits : {Void} \cup FetchTasks,
   answer : {Void} \cup Answers, copy : SUBSET Refs, saves : BOOLEAN]
HeldRecords == [token : Serials, due : BOOLEAN]
RenewalRecords ==
  [token : Serials, gateway : Gateways, answer : {Void} \cup Answers, next : {Void} \cup Serials]

\* The types of what the steps of tokens change.
HeldTyped ==
  /\ issued \in Seq(Gateways) /\ Len(issued) <= MaxTokens /\ withdrawn \in SUBSET DOMAIN issued
  /\ held = Void \/ (held \in HeldRecords /\ held.token \in DOMAIN issued)
  /\ freshest \in {Void} \cup DOMAIN issued
  /\ inflight \in [Gateways -> {Void} \cup FetchTasks]
  /\ renewal \in [FetchTasks -> {Void} \cup RenewalRecords]
  /\ joining \in [JoinTasks -> JoinRecords] /\ fetching \in [FetchTasks -> FetchRecords]
  /\ route \in {Void} \cup Gateways

\* A token of a join was issued to its request.
OfJoins ==
  \A j \in JoinTasks :
    /\ joining[j].at # "idle" => joining[j].left # <<>>
    /\ joining[j].token # Void =>
         /\ joining[j].at = "request" /\ joining[j].kind # "append" /\ joining[j].answer = "accepted"
         /\ joining[j].token \in DOMAIN issued

\* A token of a fetch is from its gateway, and a renewal it waits for is for
\* that gateway.
OfFetches ==
  \A f \in FetchTasks :
    /\ fetching[f].at \in {"access", "wait", "get"} => fetching[f].gateway \in Gateways
    /\ fetching[f].token # Void =>
         /\ fetching[f].at \in {"wait", "get"} /\ fetching[f].token \in DOMAIN issued
         /\ issued[fetching[f].token] = fetching[f].gateway
    /\ fetching[f].at = "wait" =>
         /\ fetching[f].token # Void /\ fetching[f].waits \in FetchTasks
         /\ renewal[fetching[f].waits] # Void
         /\ renewal[fetching[f].waits].gateway = fetching[f].gateway
    /\ fetching[f].answer # Void => fetching[f].at = "get"
    /\ fetching[f].answer = "revoked" => fetching[f].token \in withdrawn
    /\ fetching[f].answer \in {Void, "mirror", "revoked"}

\* A renewal is of the fetch that began it and is waiting, and is in flight for
\* its gateway, where its tokens are from.
OfRenewals ==
  /\ \A f \in FetchTasks : renewal[f] # Void =>
       /\ fetching[f].at = "wait" /\ fetching[f].waits = f /\ fetching[f].token = renewal[f].token
       /\ inflight[renewal[f].gateway] = f
       /\ renewal[f].token \in DOMAIN issued /\ issued[renewal[f].token] = renewal[f].gateway
       /\ renewal[f].answer \in {Void, "renewed", "revoked"}
       /\ renewal[f].answer # "renewed" => renewal[f].next = Void
       /\ renewal[f].answer = "renewed" =>
            /\ renewal[f].next \in DOMAIN issued /\ issued[renewal[f].next] = renewal[f].gateway
            /\ renewal[f].next >= renewal[f].token
       /\ renewal[f].answer = "revoked" => renewal[f].token \in withdrawn
  /\ \A g \in Gateways : inflight[g] # Void =>
       renewal[inflight[g]] # Void /\ renewal[inflight[g]].gateway = g

\* What holds of tokens whatever overlaps.
TokenCore == HeldTyped /\ OfJoins /\ OfFetches /\ OfRenewals

\* A join that requests is alone with its request.
JoinAlone == \A j \in Requesting : WithToken = {} /\ Requesting = {j}

\* The tokens that are the newest, or may become it when they arrive.
Newest ==
  {m \in DOMAIN issued :
     m = freshest \/ \E f \in FetchTasks : renewal[f] # Void /\ m \in {renewal[f].token, renewal[f].next}}

\* What holds while no request for a token has overlapped another.
InTurn ==
  /\ IF held = Void THEN freshest = Void \/ freshest \in withdrawn ELSE held.token = freshest
  /\ \A j \in Requesting : joining[j].token # Void => joining[j].token = Len(issued)
  /\ \A e, f \in FetchTasks : renewal[e] # Void /\ renewal[f] # Void => e = f
  /\ \A f \in FetchTasks : renewal[f] # Void =>
       /\ held = Void \/ held.token = renewal[f].token
       /\ freshest \in {Void, renewal[f].token}
  /\ \A f \in WithToken, m \in Newest :
       issued[m] = fetching[f].gateway /\ (fetching[f].token \in withdrawn => m \in withdrawn)

\* The types of the refs.
RefsTyped ==
  /\ own \in {Void} \cup SUBSET Refs /\ refs \in SUBSET Refs /\ noting \in {Void} \cup SUBSET Refs
  /\ overlaps \in SUBSET {"tokens", "refs"} /\ changes \in 0..MaxChanges

\* What holds while no two noted refs at once: who is noting has the refs of
\* the profile, and has noted them before it saves them there.
NotedInTurn ==
  /\ Noting = {} /\ noting = Void /\ own # Void => own \subseteq refs
  /\ noting # Void => noting # {} /\ (own # Void => own \subseteq noting)
  /\ \A f \in Noting :
       IF fetching[f].at = "note"
       THEN own # Void => own \subseteq fetching[f].copy
       ELSE /\ own # Void => own \subseteq refs
            /\ fetching[f].copy \subseteq refs
            /\ fetching[f].copy = {} \/ refs = fetching[f].copy

\* The inductive invariant.
AccessInv ==
  /\ TokenCore /\ RefsTyped /\ Overlaps \subseteq overlaps
  /\ "tokens" \notin overlaps => InTurn
  /\ "refs" \notin overlaps => NotedInTurn

-----------------------------------------------------------------------------
(* What overlaps *)

LEMMA AloneIs ==
  ASSUME NEW R, NEW W, IsFiniteSet(R), IsFiniteSet(W), ~(R # {} /\ Cardinality(R) + Cardinality(W) > 1)
  PROVE  \A j \in R : W = {} /\ R = {j}
  <1> SUFFICES ASSUME NEW j \in R  PROVE W = {} /\ R = {j}
    OBVIOUS
  <1>1. Cardinality(R) \in Nat /\ Cardinality(W) \in Nat  BY FS_CardinalityType
  <1>2. Cardinality(R) # 0  BY FS_EmptySet
  <1>3. Cardinality(R) = 1 /\ Cardinality(W) = 0  BY <1>1, <1>2
  <1>4. W = {}  BY <1>3, FS_EmptySet
  <1>5. PICK x : R = {x}  BY <1>3, FS_Singleton
  <1> QED  BY <1>4, <1>5

LEMMA AtMostOne ==
  ASSUME NEW N, IsFiniteSet(N), NEW n, ~(Cardinality(N) + (IF n = Void THEN 0 ELSE 1) > 1)
  PROVE  /\ n # Void => N = {}
         /\ \A e, f \in N : e = f
  <1>1. Cardinality(N) \in Nat  BY FS_CardinalityType
  <1>2. n # Void => Cardinality(N) = 0  BY <1>1
  <1>3. n # Void => N = {}  BY <1>2, FS_EmptySet
  <1>4. ASSUME NEW e \in N, NEW f \in N  PROVE e = f
    <2>1. Cardinality(N) <= 1  BY <1>1
    <2>2. Cardinality(N) # 0  BY FS_EmptySet
    <2>3. Cardinality(N) = 1  BY <1>1, <2>1, <2>2
    <2>4. PICK x : N = {x}  BY <2>3, FS_Singleton
    <2> QED  BY <2>4
  <1> QED  BY <1>3, <1>4

\* What does not overlap, now.
RefsAlone ==
  /\ noting # Void => Noting = {}
  /\ \A e, f \in Noting : e = f

LEMMA NotOverlapped ==
  ASSUME AccessConstants, Overlaps \subseteq overlaps
  PROVE  /\ "tokens" \notin overlaps => JoinAlone
         /\ "refs" \notin overlaps => RefsAlone
  <1>1. IsFiniteSet(Requesting) /\ IsFiniteSet(WithToken) /\ IsFiniteSet(Noting)
    BY FS_Subset DEF AccessConstants, Requesting, WithToken, Noting
  <1>2. ASSUME "tokens" \notin overlaps  PROVE JoinAlone
    <2>1. ~(Requesting # {} /\ Cardinality(Requesting) + Cardinality(WithToken) > 1)
      BY <1>2 DEF Overlaps
    <2> QED  BY <1>1, <2>1, AloneIs DEF JoinAlone
  <1>3. ASSUME "refs" \notin overlaps  PROVE RefsAlone
    <2>1. ~(Cardinality(Noting) + (IF noting = Void THEN 0 ELSE 1) > 1)
      BY <1>3 DEF Overlaps
    <2> QED  BY <1>1, <2>1, AtMostOne DEF RefsAlone
  <1> QED  BY <1>2, <1>3

LEMMA NotOverlappedNext ==
  ASSUME AccessConstants, Overlaps' \subseteq overlaps'
  PROVE  /\ "tokens" \notin overlaps' => JoinAlone'
         /\ "refs" \notin overlaps' => RefsAlone'
  <1>1. IsFiniteSet(Requesting') /\ IsFiniteSet(WithToken') /\ IsFiniteSet(Noting')
    BY FS_Subset DEF AccessConstants, Requesting, WithToken, Noting
  <1>2. ASSUME "tokens" \notin overlaps'  PROVE JoinAlone'
    <2>1. ~(Requesting' # {} /\ Cardinality(Requesting') + Cardinality(WithToken') > 1)
      BY <1>2 DEF Overlaps
    <2>2. \A j \in Requesting' : WithToken' = {} /\ Requesting' = {j}  BY <1>1, <2>1, AloneIs
    <2> QED  BY <2>2 DEF JoinAlone
  <1>3. ASSUME "refs" \notin overlaps'  PROVE RefsAlone'
    <2>1. ~(Cardinality(Noting') + (IF noting' = Void THEN 0 ELSE 1) > 1)
      BY <1>3 DEF Overlaps
    <2>2. (noting' # Void => Noting' = {}) /\ \A e, f \in Noting' : e = f
      BY <1>1, <2>1, AtMostOne
    <2> QED  BY <2>2 DEF RefsAlone
  <1> QED  BY <1>2, <1>3

-----------------------------------------------------------------------------
(* Steps of the tokens *)

LEMMA IssuedIs ==
  ASSUME TokenCore
  PROVE  /\ Len(issued) \in Nat /\ DOMAIN issued = 1..Len(issued) /\ Len(issued) <= MaxTokens
         /\ \A n \in DOMAIN issued : issued[n] \in Gateways
  BY DEF TokenCore, HeldTyped

\* A token that is issued is a serial, and none is Void.
LEMMA IssuedAreSerials ==
  ASSUME AccessConstants, TokenCore
  PROVE  \A n \in DOMAIN issued : n \in Serials /\ n \in Nat /\ n # Void
  BY IssuedIs DEF AccessConstants, Serials

LEMMA VoidIsNone ==
  ASSUME AccessConstants
  PROVE  /\ Void \notin Gateways /\ Void \notin Serials /\ Void \notin FetchTasks /\ Void \notin Answers
         /\ Void \notin HeldRecords /\ Void \notin RenewalRecords /\ Void \notin SUBSET Refs
  BY DEF AccessConstants, HeldRecords, RenewalRecords

\* A step of a join that leaves it without a token.
LEMMA JoinMoves ==
  ASSUME AccessConstants, TokenCore, NEW j \in JoinTasks, NEW r \in JoinRecords, r.token = Void,
         r.at # "idle" => r.left # <<>>, joining' = [joining EXCEPT ![j] = r],
         UNCHANGED <<tokenVars, fetching, route>>
  PROVE  TokenCore' /\ (InTurn => InTurn')
  <1>1. joining \in [JoinTasks -> JoinRecords]  BY DEF TokenCore, HeldTyped
  <1>2. joining' \in [JoinTasks -> JoinRecords]  BY <1>1
  <1>3. joining'[j] = r /\ \A k \in JoinTasks : k # j => joining'[k] = joining[k]  BY <1>1
  <1>4. UNCHANGED <<issued, withdrawn, held, freshest, inflight, renewal, fetching, route>>  BY DEF tokenVars
  <1>5. HeldTyped'  BY <1>2, <1>4 DEF TokenCore, HeldTyped, HeldRecords, RenewalRecords, FetchRecords, JoinRecords
  <1>6. OfJoins'  BY <1>3, <1>4 DEF TokenCore, OfJoins
  <1>7. OfFetches' /\ OfRenewals'  BY <1>4 DEF TokenCore, OfFetches, OfRenewals
  <1>8. ASSUME InTurn  PROVE InTurn'
    <2>1. \A k \in Requesting' : joining'[k].token # Void => k # j /\ k \in Requesting
      BY <1>3 DEF Requesting
    <2>2. WithToken' = WithToken /\ Newest' = Newest  BY <1>4 DEF WithToken, Newest
    <2>3. \A k \in Requesting' : joining'[k].token # Void => joining'[k].token = Len(issued)
      BY <1>3, <1>8, <2>1 DEF InTurn, Requesting
    <2> QED  BY <1>4, <1>8, <2>2, <2>3 DEF InTurn
  <1> QED  BY <1>5, <1>6, <1>7, <1>8 DEF TokenCore

\* While nothing overlaps, all that may become the newest is from the gateway
\* of the token that is held, and withdrawn if that is.
LEMMA HeldRelates ==
  ASSUME AccessConstants, TokenCore, InTurn, held # Void
  PROVE  \A m \in Newest : issued[m] = issued[held.token] /\ (held.token \in withdrawn => m \in withdrawn)
  <1> SUFFICES ASSUME NEW m \in Newest
               PROVE  issued[m] = issued[held.token] /\ (held.token \in withdrawn => m \in withdrawn)
    OBVIOUS
  <1>1. held.token = freshest  BY DEF InTurn
  <1>2. CASE m = freshest  BY <1>1, <1>2
  <1>3. CASE m # freshest
    <2>1. PICK f \in FetchTasks : renewal[f] # Void /\ m \in {renewal[f].token, renewal[f].next}
      BY <1>3 DEF Newest
    <2>2. held.token = renewal[f].token  BY <2>1 DEF InTurn
    <2>3. fetching[f].at = "wait" /\ fetching[f].token = renewal[f].token  BY <2>1 DEF TokenCore, OfRenewals
    <2>4. fetching[f].token # Void /\ issued[fetching[f].token] = fetching[f].gateway
      BY <2>3 DEF TokenCore, OfFetches
    <2>5. f \in WithToken  BY <2>3, <2>4 DEF WithToken
    <2>6. issued[m] = fetching[f].gateway /\ (fetching[f].token \in withdrawn => m \in withdrawn)
      BY <2>5 DEF InTurn
    <2> QED  BY <2>2, <2>3, <2>4, <2>6
  <1> QED  BY <1>2, <1>3

\* A step of a fetch that does not wait for a renewal.
LEMMA FetchMoves ==
  ASSUME AccessConstants, TokenCore, NEW f \in FetchTasks, NEW r \in FetchRecords,
         fetching[f].at # "wait", r.at # "wait",
         r.at \in {"access", "get"} => r.gateway \in Gateways,
         r.token # Void => /\ r.at = "get" /\ r.token \in DOMAIN issued /\ issued[r.token] = r.gateway
                           /\ r.token = fetching[f].token \/ (held # Void /\ r.token = held.token),
         r.answer # Void => r.at = "get", r.answer = "revoked" => r.token \in withdrawn,
         r.answer \in {Void, "mirror", "revoked"},
         fetching' = [fetching EXCEPT ![f] = r], UNCHANGED <<tokenVars, joining, route>>
  PROVE  TokenCore' /\ (InTurn => InTurn')
  <1>1. fetching \in [FetchTasks -> FetchRecords]  BY DEF TokenCore, HeldTyped
  <1>2. fetching' \in [FetchTasks -> FetchRecords]  BY <1>1
  <1>3. fetching'[f] = r /\ \A e \in FetchTasks : e # f => fetching'[e] = fetching[e]  BY <1>1
  <1>4. UNCHANGED <<issued, withdrawn, held, freshest, inflight, renewal, joining, route>>  BY DEF tokenVars
  <1>5. HeldTyped'  BY <1>2, <1>4 DEF TokenCore, HeldTyped, HeldRecords, RenewalRecords, FetchRecords, JoinRecords
  <1>6. OfJoins'  BY <1>4 DEF TokenCore, OfJoins
  <1>7. OfFetches'
    <2> SUFFICES ASSUME NEW e \in FetchTasks
                 PROVE  /\ fetching'[e].at \in {"access", "wait", "get"} => fetching'[e].gateway \in Gateways
                        /\ fetching'[e].token # Void =>
                             /\ fetching'[e].at \in {"wait", "get"} /\ fetching'[e].token \in DOMAIN issued
                             /\ issued[fetching'[e].token] = fetching'[e].gateway
                        /\ fetching'[e].at = "wait" =>
                             /\ fetching'[e].token # Void /\ fetching'[e].waits \in FetchTasks
                             /\ renewal[fetching'[e].waits] # Void
                             /\ renewal[fetching'[e].waits].gateway = fetching'[e].gateway
                        /\ fetching'[e].answer # Void => fetching'[e].at = "get"
                        /\ fetching'[e].answer = "revoked" => fetching'[e].token \in withdrawn
                        /\ fetching'[e].answer \in {Void, "mirror", "revoked"}
      BY <1>4 DEF OfFetches
    <2>1. CASE e = f  BY <1>3, <2>1
    <2>2. CASE e # f  BY <1>3, <2>2 DEF TokenCore, OfFetches
    <2> QED  BY <2>1, <2>2
  <1>8. OfRenewals'
    <2>1. renewal[f] = Void  BY DEF TokenCore, OfRenewals
    <2>2. \A e \in FetchTasks : renewal[e] # Void => fetching'[e] = fetching[e]  BY <1>3, <2>1
    <2> QED  BY <1>4, <2>2 DEF TokenCore, OfRenewals
  <1>9. ASSUME InTurn  PROVE InTurn'
    <2>1. Requesting' = Requesting /\ Newest' = Newest  BY <1>4 DEF Requesting, Newest
    <2>2. ASSUME NEW e \in WithToken', NEW m \in Newest
          PROVE  issued[m] = fetching'[e].gateway /\ (fetching'[e].token \in withdrawn => m \in withdrawn)
      <3>1. e \in FetchTasks /\ fetching'[e].token # Void  BY DEF WithToken
      <3>2. CASE e # f
        <4>1. fetching'[e] = fetching[e]  BY <1>3, <3>1, <3>2
        <4>2. e \in WithToken  BY <3>1, <4>1 DEF WithToken
        <4> QED  BY <1>9, <4>1, <4>2 DEF InTurn
      <3>3. CASE e = f /\ r.token = fetching[f].token
        <4>1. fetching'[e] = r  BY <1>3, <3>3
        <4>2. fetching[f].token # Void  BY <3>1, <3>3, <4>1
        <4>3. fetching[f].at \in {"wait", "get"} /\ issued[fetching[f].token] = fetching[f].gateway
          BY <4>2 DEF TokenCore, OfFetches
        <4>4. f \in WithToken  BY <4>2, <4>3 DEF WithToken
        <4>5. r.gateway = fetching[f].gateway  BY <3>1, <3>3, <4>1, <4>3
        <4> QED  BY <1>9, <3>3, <4>1, <4>4, <4>5 DEF InTurn
      <3>4. CASE e = f /\ held # Void /\ r.token = held.token
        <4>1. fetching'[e] = r  BY <1>3, <3>4
        <4>2. r.gateway = issued[held.token]  BY <3>1, <3>4, <4>1
        <4> QED  BY <1>9, <3>4, <4>1, <4>2, HeldRelates
      <3> QED  BY <1>3, <3>1, <3>2, <3>3, <3>4
    <2> QED  BY <1>4, <1>9, <2>1, <2>2 DEF InTurn
  <1> QED  BY <1>5, <1>6, <1>7, <1>8, <1>9 DEF TokenCore

LEMMA NoJoin ==
  /\ NotJoining.kind = "claim" /\ NotJoining.left = <<>> /\ NotJoining.at = "idle"
  /\ NotJoining.answer = Void /\ NotJoining.token = Void
  /\ NotJoining \in JoinRecords
  BY DEF NotJoining, JoinRecords

LEMMA OrderIs ==
  ASSUME AccessConstants
  PROVE  /\ Order \in Seq(Gateways) /\ Order # <<>> /\ Head(Order) \in Gateways
  BY DEF AccessConstants

LEMMA JoinTyped ==
  ASSUME TokenCore, NEW j \in JoinTasks
  PROVE  /\ joining[j] \in JoinRecords /\ joining[j].kind \in {"claim", "open", "append"}
         /\ joining[j].left \in Seq(Gateways) /\ joining[j].at \in {"idle", "challenge", "request"}
         /\ joining[j].answer \in {Void} \cup Answers /\ joining[j].token \in {Void} \cup Serials
  BY DEF TokenCore, HeldTyped, JoinRecords

LEMMA RoutingIs ==
  ASSUME AccessConstants, TokenCore, NEW wish \in {Void} \cup Gateways, NEW b \in BOOLEAN
  PROVE  Routing(wish, b) \in Seq(Gateways)
  <1>1. route \in {Void} \cup Gateways  BY DEF TokenCore, HeldTyped
  <1>2. Order \in Seq(Gateways)  BY OrderIs
  <1>3. CASE wish # Void
    <2>1. wish \in Gateways  BY <1>3
    <2> QED  BY <1>3, <2>1 DEF Routing
  <1>4. CASE wish = Void /\ route # Void
    <2>1. route \in Gateways  BY <1>1, <1>4
    <2> QED  BY <1>4, <2>1 DEF Routing
  <1>5. CASE wish = Void /\ route = Void
    BY <1>2, <1>5 DEF Routing
  <1> QED  BY <1>3, <1>4, <1>5

LEMMA BeginKeeps ==
  ASSUME AccessConstants, TokenCore, NEW j \in JoinTasks, NEW what \in {"claim", "open", "append"},
         NEW origins \in Seq(Gateways), Begin(j, what, origins)
  PROVE  TokenCore' /\ (InTurn => InTurn')
  <1> DEFINE r == [NotJoining EXCEPT !.kind = what, !.left = origins, !.at = "challenge"]
  <1>1. r \in JoinRecords /\ r.token = Void /\ r.left = origins  BY DEF NotJoining, JoinRecords
  <1>2. origins # <<>> /\ joining' = [joining EXCEPT ![j] = r] /\ UNCHANGED <<tokenVars, fetching, route>>
    BY DEF Begin, JoinGoes
  <1> HIDE DEF r
  <1> QED  BY <1>1, <1>2, JoinMoves

LEMMA GoesOnKeeps ==
  ASSUME AccessConstants, TokenCore, NEW j \in JoinTasks, joining[j].at # "idle", GoesOn(j),
         UNCHANGED <<tokenVars, fetching, route>>
  PROVE  TokenCore' /\ (InTurn => InTurn')
  <1> DEFINE left == Tail(joining[j].left)
             r == [NotJoining EXCEPT !.kind = joining[j].kind, !.left = left, !.at = "challenge"]
  <1>1. joining[j].left \in Seq(Gateways) /\ joining[j].left # <<>> /\ joining[j].kind \in {"claim", "open", "append"}
    BY JoinTyped DEF TokenCore, OfJoins
  <1>2. left \in Seq(Gateways)  BY <1>1
  <1>3. joining' = [joining EXCEPT ![j] = IF left = <<>> THEN NotJoining ELSE r]  BY DEF GoesOn, JoinGoes
  <1> HIDE DEF left
  <1>4. r \in JoinRecords /\ r.token = Void /\ r.left = left  BY <1>1, <1>2 DEF NotJoining, JoinRecords
  <1> HIDE DEF r
  <1>5. CASE left = <<>>
    <2>1. joining' = [joining EXCEPT ![j] = NotJoining]  BY <1>3, <1>5
    <2> QED  BY <2>1, NoJoin, JoinMoves
  <1>6. CASE left # <<>>
    <2>1. joining' = [joining EXCEPT ![j] = r]  BY <1>3, <1>6
    <2> QED  BY <1>4, <1>6, <2>1, JoinMoves
  <1> QED  BY <1>5, <1>6

LEMMA JoinsKeep ==
  ASSUME AccessConstants, TokenCore, NEW j \in JoinTasks,
         BeginClaim(j) \/ BeginOpenJoin(j) \/ BeginAppend(j) \/ Challenge(j) \/ NotBootstrapped(j) \/ Appended(j)
  PROVE  TokenCore' /\ (InTurn => InTurn')
  <1>1. CASE BeginClaim(j)
    <2>1. PICK g \in Gateways : Begin(j, "claim", <<g>>)  BY <1>1 DEF BeginClaim
    <2>2. <<g>> \in Seq(Gateways)  OBVIOUS
    <2> QED  BY <2>1, <2>2, BeginKeeps
  <1>2. CASE BeginOpenJoin(j)
    <2>1. PICK wish \in Gateways \cup {Void} : Begin(j, "open", Routing(wish, TRUE))  BY <1>2 DEF BeginOpenJoin
    <2>2. Routing(wish, TRUE) \in Seq(Gateways)  BY RoutingIs
    <2> QED  BY <2>1, <2>2, BeginKeeps
  <1>3. CASE BeginAppend(j)
    <2>1. Begin(j, "append", Routing(Void, FALSE))  BY <1>3 DEF BeginAppend
    <2>2. Routing(Void, FALSE) \in Seq(Gateways)  BY RoutingIs
    <2> QED  BY <2>1, <2>2, BeginKeeps
  <1>4. CASE Challenge(j)
    <2>1. joining[j].at = "challenge" /\ UNCHANGED <<tokenVars, fetching, route>>  BY <1>4 DEF Challenge
    <2>2. CASE GoesOn(j)  BY <2>1, <2>2, GoesOnKeeps
    <2>3. CASE JoinGoes(j, [joining[j] EXCEPT !.at = "request"])
      <3> DEFINE r == [joining[j] EXCEPT !.at = "request"]
      <3>1. joining[j].token = Void /\ joining[j].left # <<>>  BY <2>1 DEF TokenCore, OfJoins
      <3>2. r \in JoinRecords /\ r.token = Void /\ r.left # <<>>  BY <3>1, JoinTyped DEF JoinRecords
      <3>3. joining' = [joining EXCEPT ![j] = r]  BY <2>3 DEF JoinGoes
      <3> HIDE DEF r
      <3> QED  BY <2>1, <3>2, <3>3, JoinMoves
    <2> QED  BY <1>4, <2>2, <2>3 DEF Challenge
  <1>5. CASE NotBootstrapped(j)
    <2>1. joining[j].at = "request" /\ GoesOn(j) /\ UNCHANGED <<tokenVars, fetching, route>>
      BY <1>5 DEF NotBootstrapped, Received
    <2> QED  BY <2>1, GoesOnKeeps
  <1>6. CASE Appended(j)
    <2>1. joining[j].at = "request" /\ UNCHANGED <<tokenVars, fetching, route>>  BY <1>6 DEF Appended, Received
    <2>2. CASE GoesOn(j)  BY <2>1, <2>2, GoesOnKeeps
    <2>3. CASE JoinGoes(j, NotJoining)
      <3>1. joining' = [joining EXCEPT ![j] = NotJoining]  BY <2>3 DEF JoinGoes
      <3> QED  BY <2>1, <3>1, NoJoin, JoinMoves
    <2> QED  BY <1>6, <2>2, <2>3 DEF Appended
  <1> QED  BY <1>1, <1>2, <1>3, <1>4, <1>5, <1>6

\* Where a join requests alone nothing is renewed.
LEMMA NothingRenewed ==
  ASSUME TokenCore, JoinAlone, NEW j \in Requesting
  PROVE  WithToken = {} /\ Requesting = {j} /\ \A f \in FetchTasks : renewal[f] = Void
  <1>1. WithToken = {} /\ Requesting = {j}  BY DEF JoinAlone
  <1>2. ASSUME NEW f \in FetchTasks, renewal[f] # Void  PROVE FALSE
    <2>1. fetching[f].at = "wait"  BY <1>2 DEF TokenCore, OfRenewals
    <2>2. fetching[f].token # Void  BY <2>1 DEF TokenCore, OfFetches
    <2> QED  BY <1>1, <2>1, <2>2 DEF WithToken
  <1> QED  BY <1>1, <1>2

\* Another token is issued.
LEMMA IssueAdds ==
  ASSUME AccessConstants, TokenCore, NEW g \in Gateways, Issue(g)
  PROVE  /\ issued' \in Seq(Gateways) /\ Len(issued') = Len(issued) + 1 /\ Len(issued') <= MaxTokens
         /\ Len(issued') \in DOMAIN issued' /\ Len(issued') \notin DOMAIN issued
         /\ issued'[Len(issued')] = g
         /\ \A n \in DOMAIN issued : n \in DOMAIN issued' /\ issued'[n] = issued[n]
         /\ Len(issued') \in Serials /\ Len(issued') # Void
  <1>1. issued \in Seq(Gateways) /\ Len(issued) \in Nat  BY DEF TokenCore, HeldTyped
  <1>2. MaxTokens \in Nat /\ Void \notin Serials  BY DEF AccessConstants
  <1>3. issued' = Append(issued, g) /\ Len(issued) < MaxTokens  BY DEF Issue
  <1>4. issued' \in Seq(Gateways) /\ Len(issued') = Len(issued) + 1  BY <1>1, <1>3
  <1>5. DOMAIN issued = 1..Len(issued) /\ DOMAIN issued' = 1..Len(issued')  BY <1>1, <1>4
  <1>6. issued'[Len(issued')] = g /\ \A n \in 1..Len(issued) : issued'[n] = issued[n]  BY <1>1, <1>3, <1>4
  <1>7. Len(issued') \in 1..MaxTokens  BY <1>1, <1>2, <1>3, <1>4
  <1> QED  BY <1>1, <1>2, <1>4, <1>5, <1>6, <1>7 DEF Serials

\* Parts of HeldTyped while another token is issued.
LEMMA IssueTyped ==
  ASSUME AccessConstants, TokenCore, NEW g \in Gateways, Issue(g), UNCHANGED <<withdrawn, held, freshest, inflight, route>>,
         joining' \in [JoinTasks -> JoinRecords], fetching' \in [FetchTasks -> FetchRecords],
         renewal' \in [FetchTasks -> {Void} \cup RenewalRecords]
  PROVE  HeldTyped'
  <1>1. issued' \in Seq(Gateways) /\ Len(issued') <= MaxTokens /\ DOMAIN issued \subseteq DOMAIN issued'
    BY IssueAdds
  <1>2. withdrawn' \in SUBSET DOMAIN issued'  BY <1>1 DEF TokenCore, HeldTyped
  <1>3. held' = Void \/ (held' \in HeldRecords /\ held'.token \in DOMAIN issued')
    BY <1>1 DEF TokenCore, HeldTyped
  <1>4. freshest' \in {Void} \cup DOMAIN issued'  BY <1>1 DEF TokenCore, HeldTyped
  <1>5. inflight' \in [Gateways -> {Void} \cup FetchTasks] /\ route' \in {Void} \cup Gateways
    BY DEF TokenCore, HeldTyped
  <1> QED  BY <1>1, <1>2, <1>3, <1>4, <1>5 DEF HeldTyped, HeldRecords, RenewalRecords, JoinRecords, FetchRecords

\* What is said of fetches and renewals stays true of tokens that are issued.
LEMMA FetchesIssue ==
  ASSUME TokenCore, \A n \in DOMAIN issued : n \in DOMAIN issued' /\ issued'[n] = issued[n],
         UNCHANGED <<withdrawn, inflight, renewal, fetching>>
  PROVE  OfFetches' /\ OfRenewals'
  <1>1. OfFetches'
    <2> SUFFICES ASSUME NEW e \in FetchTasks
                 PROVE  /\ fetching[e].at \in {"access", "wait", "get"} => fetching[e].gateway \in Gateways
                        /\ fetching[e].token # Void =>
                             /\ fetching[e].at \in {"wait", "get"} /\ fetching[e].token \in DOMAIN issued'
                             /\ issued'[fetching[e].token] = fetching[e].gateway
                        /\ fetching[e].at = "wait" =>
                             /\ fetching[e].token # Void /\ fetching[e].waits \in FetchTasks
                             /\ renewal[fetching[e].waits] # Void
                             /\ renewal[fetching[e].waits].gateway = fetching[e].gateway
                        /\ fetching[e].answer # Void => fetching[e].at = "get"
                        /\ fetching[e].answer = "revoked" => fetching[e].token \in withdrawn
                        /\ fetching[e].answer \in {Void, "mirror", "revoked"}
      BY DEF OfFetches
    <2> QED  BY DEF TokenCore, OfFetches
  <1>2. OfRenewals'  BY DEF TokenCore, OfRenewals
  <1> QED  BY <1>1, <1>2

LEMMA GatewayAnswersKeeps ==
  ASSUME AccessConstants, TokenCore, NEW j \in JoinTasks, GatewayAnswers(j)
  PROVE  TokenCore' /\ (InTurn /\ JoinAlone => InTurn')
  <1> DEFINE g == Head(joining[j].left)
  <1>1. joining[j].at = "request" /\ joining[j].answer = Void
        /\ UNCHANGED <<withdrawn, held, freshest, inflight, renewal, fetching, route>>
    BY DEF GatewayAnswers
  <1>2. joining[j].left \in Seq(Gateways) /\ joining[j].left # <<>> /\ joining[j].token = Void
    BY <1>1, JoinTyped DEF TokenCore, OfJoins, Answers, AccessConstants
  <1>3. g \in Gateways  BY <1>2
  <1>4. CASE \E answer \in {"accepted", "refused"} : JoinGoes(j, [joining[j] EXCEPT !.answer = answer]) /\ UNCHANGED issued
    <2>1. PICK answer \in {"accepted", "refused"} : JoinGoes(j, [joining[j] EXCEPT !.answer = answer]) /\ UNCHANGED issued
      BY <1>4
    <2> DEFINE r == [joining[j] EXCEPT !.answer = answer]
    <2>2. r \in JoinRecords /\ r.token = Void /\ r.left # <<>>  BY <1>2, JoinTyped DEF JoinRecords, Answers
    <2>3. joining' = [joining EXCEPT ![j] = r] /\ UNCHANGED <<tokenVars, fetching, route>>
      BY <1>1, <2>1 DEF JoinGoes, tokenVars
    <2> HIDE DEF r
    <2> QED  BY <2>2, <2>3, JoinMoves
  <1>5. CASE /\ joining[j].kind # "append" /\ Issue(g)
             /\ JoinGoes(j, [joining[j] EXCEPT !.answer = "accepted", !.token = Len(issued')])
    <2> DEFINE n == Len(issued')
               r == [joining[j] EXCEPT !.answer = "accepted", !.token = n]
    <2>1. Issue(g) /\ joining[j].kind # "append" /\ joining' = [joining EXCEPT ![j] = r]  BY <1>5 DEF JoinGoes
    <2> HIDE DEF g
    <2>2. n \in DOMAIN issued' /\ n \in Serials /\ n # Void
          /\ \A m \in DOMAIN issued : m \in DOMAIN issued' /\ issued'[m] = issued[m]
      BY <1>3, <2>1, IssueAdds
    <2> HIDE DEF n
    <2>3. r \in JoinRecords /\ r.token = n /\ r.left = joining[j].left /\ r.at = joining[j].at
          /\ r.kind = joining[j].kind /\ r.answer = "accepted"
      BY <2>2, JoinTyped DEF JoinRecords, Answers
    <2> HIDE DEF r
    <2>4. joining \in [JoinTasks -> JoinRecords] /\ fetching \in [FetchTasks -> FetchRecords]
          /\ renewal \in [FetchTasks -> {Void} \cup RenewalRecords]
      BY DEF TokenCore, HeldTyped
    <2>5. joining' \in [JoinTasks -> JoinRecords]  BY <2>1, <2>3, <2>4
    <2>6. joining'[j] = r /\ \A k \in JoinTasks : k # j => joining'[k] = joining[k]  BY <2>1, <2>4
    <2>7. HeldTyped'
      <3>1. fetching' = fetching /\ renewal' = renewal
            /\ UNCHANGED <<withdrawn, held, freshest, inflight, route>>  BY <1>1
      <3> QED  BY <1>3, <2>1, <2>4, <2>5, <3>1, IssueTyped
    <2>8. OfJoins'
      <3> SUFFICES ASSUME NEW k \in JoinTasks
                   PROVE  /\ joining'[k].at # "idle" => joining'[k].left # <<>>
                          /\ joining'[k].token # Void =>
                               /\ joining'[k].at = "request" /\ joining'[k].kind # "append"
                               /\ joining'[k].answer = "accepted" /\ joining'[k].token \in DOMAIN issued'
        BY DEF OfJoins
      <3>1. CASE k = j  BY <1>1, <1>2, <2>1, <2>2, <2>3, <2>6, <3>1
      <3>2. CASE k # j  BY <2>2, <2>6, <3>2 DEF TokenCore, OfJoins
      <3> QED  BY <3>1, <3>2
    <2>9. OfFetches' /\ OfRenewals'  BY <1>1, <2>2, FetchesIssue
    <2>10. ASSUME InTurn, JoinAlone  PROVE InTurn'
      <3>1. j \in Requesting  BY <1>1, <2>1 DEF Requesting
      <3>2. WithToken = {} /\ Requesting = {j} /\ \A f \in FetchTasks : renewal[f] = Void
        BY <2>10, <3>1, NothingRenewed
      <3>3. WithToken' = WithToken  BY <1>1 DEF WithToken
      <3>4. \A k \in Requesting' : k = j  BY <2>6, <3>2 DEF Requesting
      <3>5. \A k \in Requesting' : joining'[k].token = Len(issued')  BY <2>3, <2>6, <3>4 DEF n
      <3> QED  BY <1>1, <2>10, <3>2, <3>3, <3>5 DEF InTurn
    <2> QED  BY <2>7, <2>8, <2>9, <2>10 DEF TokenCore
  <1> QED  BY <1>4, <1>5 DEF GatewayAnswers

LEMMA StoredIs ==
  ASSUME AccessConstants, TokenCore, NEW n \in DOMAIN issued, Store(n)
  PROVE  /\ held' \in HeldRecords /\ held'.token = n /\ held' # Void
         /\ freshest' \in DOMAIN issued /\ freshest' \in {n, freshest}
         /\ freshest = Void => freshest' = n
         /\ freshest # Void /\ n >= freshest => freshest' = n
  <1>1. n \in Serials /\ n \in Nat /\ n # Void  BY IssuedAreSerials
  <1>2. held' \in [token : {n}, due : BOOLEAN]
        /\ freshest' = IF freshest = Void \/ n > freshest THEN n ELSE freshest
    BY DEF Store
  <1>3. held' \in HeldRecords /\ held'.token = n  BY <1>1, <1>2 DEF HeldRecords
  <1>4. held' # Void  BY <1>3, VoidIsNone
  <1>5. freshest \in {Void} \cup DOMAIN issued  BY DEF TokenCore, HeldTyped
  <1>6. ASSUME freshest # Void, n >= freshest  PROVE freshest' = n
    <2>1. freshest \in Nat  BY <1>5, <1>6, IssuedAreSerials
    <2> QED  BY <1>1, <1>2, <1>6, <2>1
  <1> QED  BY <1>2, <1>3, <1>4, <1>5, <1>6

\* A join ends, with a token or without.
LEMMA TakesKeeps ==
  ASSUME AccessConstants, TokenCore, NEW j \in JoinTasks, joining[j].at = "request", joining[j].kind # "append",
         JoinGoes(j, NotJoining), Takes(j), UNCHANGED <<fetching, route>>
  PROVE  TokenCore' /\ (InTurn /\ JoinAlone => InTurn')
  <1>1. joining' = [joining EXCEPT ![j] = NotJoining] /\ UNCHANGED <<issued, withdrawn, inflight, renewal, fetching, route>>
    BY DEF JoinGoes, Takes
  <1>2. CASE joining[j].token = Void
    <2>1. UNCHANGED <<tokenVars, fetching, route>>  BY <1>1, <1>2 DEF Takes, tokenVars
    <2> QED  BY <1>1, <2>1, NoJoin, JoinMoves
  <1>3. CASE joining[j].token # Void
    <2> DEFINE n == joining[j].token
    <2>1. n \in DOMAIN issued /\ Store(n)  BY <1>3 DEF TokenCore, OfJoins, Takes
    <2> HIDE DEF n
    <2>2. held' \in HeldRecords /\ held'.token = n /\ held' # Void /\ freshest' \in DOMAIN issued
          /\ (freshest = Void => freshest' = n) /\ (freshest # Void /\ n >= freshest => freshest' = n)
      BY <2>1, StoredIs
    <2>3. joining \in [JoinTasks -> JoinRecords]  BY DEF TokenCore, HeldTyped
    <2>4. joining' \in [JoinTasks -> JoinRecords]  BY <1>1, <2>3, NoJoin
    <2>5. joining'[j] = NotJoining /\ \A k \in JoinTasks : k # j => joining'[k] = joining[k]  BY <1>1, <2>3
    <2>6. HeldTyped'
      BY <1>1, <2>1, <2>2, <2>4 DEF TokenCore, HeldTyped, HeldRecords, RenewalRecords, FetchRecords, JoinRecords
    <2>7. OfJoins'  BY <1>1, <2>5, NoJoin DEF TokenCore, OfJoins
    <2>8. OfFetches' /\ OfRenewals'  BY <1>1, FetchesIssue
    <2>9. ASSUME InTurn, JoinAlone  PROVE InTurn'
      <3>1. j \in Requesting  BY DEF Requesting
      <3>2. WithToken = {} /\ Requesting = {j} /\ \A f \in FetchTasks : renewal[f] = Void
        BY <2>9, <3>1, NothingRenewed
      <3>3. n = Len(issued)  BY <1>3, <2>9, <3>1 DEF InTurn, n
      <3>4. freshest' = n
        <4>1. CASE freshest = Void  BY <2>2, <4>1
        <4>2. CASE freshest # Void
          <5>1. freshest \in 1..Len(issued) /\ Len(issued) \in Nat  BY <4>2, IssuedIs DEF TokenCore, HeldTyped
          <5>2. n >= freshest  BY <3>3, <5>1
          <5> QED  BY <2>2, <4>2, <5>2
        <4> QED  BY <4>1, <4>2
      <3>5. WithToken' = WithToken  BY <1>1 DEF WithToken
      <3>6. Requesting' = {}  BY <2>5, <3>2, NoJoin DEF Requesting
      <3> QED  BY <1>1, <2>2, <3>2, <3>4, <3>5, <3>6 DEF InTurn
    <2> QED  BY <2>6, <2>7, <2>8, <2>9 DEF TokenCore
  <1> QED  BY <1>2, <1>3

LEMMA JoinEndsKeeps ==
  ASSUME AccessConstants, TokenCore, NEW j \in JoinTasks, ClaimEnds(j) \/ Bootstrapped(j)
  PROVE  TokenCore' /\ (InTurn /\ JoinAlone => InTurn')
  <1>1. /\ joining[j].at = "request" /\ joining[j].kind # "append" /\ JoinGoes(j, NotJoining)
        /\ UNCHANGED <<fetching, route>>
        /\ Takes(j) \/ UNCHANGED tokenVars
    BY DEF ClaimEnds, Bootstrapped, Received
  <1>2. CASE Takes(j)  BY <1>1, <1>2, TakesKeeps
  <1>3. CASE UNCHANGED tokenVars
    <2>1. joining' = [joining EXCEPT ![j] = NotJoining]  BY <1>1 DEF JoinGoes
    <2> QED  BY <1>1, <1>3, <2>1, NoJoin, JoinMoves
  <1> QED  BY <1>1, <1>2, <1>3

LEMMA NoFetch ==
  /\ NotFetching \in FetchRecords /\ NotFetching.at = "idle" /\ NotFetching.gateway = Void
  /\ NotFetching.token = Void /\ NotFetching.answer = Void
  BY DEF NotFetching, FetchRecords

LEMMA FetchTyped ==
  ASSUME TokenCore, NEW f \in FetchTasks
  PROVE  /\ fetching[f] \in FetchRecords
         /\ fetching[f].at \in {"idle", "route", "access", "wait", "get", "apply", "note", "save", "sync"}
         /\ fetching[f].gateway \in {Void} \cup Gateways /\ fetching[f].token \in {Void} \cup Serials
         /\ fetching[f].waits \in {Void} \cup FetchTasks /\ fetching[f].answer \in {Void} \cup Answers
         /\ fetching[f].copy \in SUBSET Refs /\ fetching[f].saves \in BOOLEAN
         /\ fetching \in [FetchTasks -> FetchRecords]
  BY DEF TokenCore, HeldTyped, FetchRecords

\* Records of a fetch that goes on.
LEMMA GoesToAccess ==
  ASSUME NEW x \in FetchRecords, NEW g \in Gateways
  PROVE  \E r \in FetchRecords : /\ r = [x EXCEPT !.at = "access", !.gateway = g]
                                 /\ r.at = "access" /\ r.gateway = g /\ r.token = x.token /\ r.answer = x.answer
  <1>1. [x EXCEPT !.at = "access", !.gateway = g] \in FetchRecords  BY DEF FetchRecords
  <1> QED  BY <1>1 DEF FetchRecords

LEMMA GoesToGet ==
  ASSUME NEW x \in FetchRecords, NEW n \in Serials
  PROVE  \E r \in FetchRecords : /\ r = [x EXCEPT !.at = "get", !.token = n]
                                 /\ r.at = "get" /\ r.gateway = x.gateway /\ r.token = n /\ r.answer = x.answer
  <1>1. [x EXCEPT !.at = "get", !.token = n] \in FetchRecords  BY DEF FetchRecords
  <1> QED  BY <1>1 DEF FetchRecords

\* A fetch that has no token yet, or no longer.
LEMMA FetchIsBare ==
  ASSUME AccessConstants, TokenCore, NEW f \in FetchTasks, fetching[f].at \notin {"wait", "get"}
  PROVE  fetching[f].token = Void /\ fetching[f].answer = Void
  BY DEF TokenCore, OfFetches

\* A step of a fetch without a token.
LEMMA BareMoves ==
  ASSUME AccessConstants, TokenCore, NEW f \in FetchTasks, NEW r \in FetchRecords,
         fetching[f].at # "wait", r.at # "wait", r.at \in {"access", "get"} => r.gateway \in Gateways,
         r.token = Void, r.answer = Void,
         fetching' = [fetching EXCEPT ![f] = r], UNCHANGED <<tokenVars, joining, route>>
  PROVE  TokenCore' /\ (InTurn => InTurn')
  <1>1. Void # "revoked"  BY DEF AccessConstants, Answers
  <1> QED  BY <1>1, FetchMoves

LEMMA FetchesKeep ==
  ASSUME AccessConstants, TokenCore, RefsTyped, NEW f \in FetchTasks,
         BeginFetch(f) \/ Routes(f) \/ NotFetched(f) \/ Apply(f) \/ NoteRefs(f) \/ SaveProfile(f) \/ SyncRefs(f)
  PROVE  TokenCore' /\ (InTurn => InTurn')
  <1>1. CASE BeginFetch(f)
    <2> DEFINE r == [NotFetching EXCEPT !.at = "route"]
    <2>1. r \in FetchRecords /\ r.at = "route" /\ r.token = Void /\ r.answer = Void
      BY DEF NotFetching, FetchRecords
    <2>2. fetching[f].at = "idle" /\ fetching' = [fetching EXCEPT ![f] = r] /\ UNCHANGED <<tokenVars, joining, route>>
      BY <1>1 DEF BeginFetch, At, Goes
    <2> HIDE DEF r
    <2> QED  BY <2>1, <2>2, BareMoves
  <1>2. CASE Routes(f)
    <2> DEFINE origins == Routing(Void, FALSE)
    <2>1. fetching[f].at = "route" /\ UNCHANGED <<tokenVars, joining, route>>
          /\ fetching' = [fetching EXCEPT ![f] = IF origins = <<>> THEN NotFetching
                           ELSE [fetching[f] EXCEPT !.at = "access", !.gateway = Head(origins)]]
      BY <1>2 DEF Routes, At, Goes
    <2>2. origins \in Seq(Gateways)  BY RoutingIs
    <2> HIDE DEF origins
    <2>3. CASE origins = <<>>
      <3>1. fetching' = [fetching EXCEPT ![f] = NotFetching]  BY <2>1, <2>3
      <3> QED  BY <2>1, <3>1, NoFetch, BareMoves
    <2>4. CASE origins # <<>>
      <3>1. Head(origins) \in Gateways  BY <2>2, <2>4
      <3>2. fetching[f].token = Void /\ fetching[f].answer = Void  BY <2>1, FetchIsBare
      <3>3. fetching' = [fetching EXCEPT ![f] = [fetching[f] EXCEPT !.at = "access", !.gateway = Head(origins)]]
        BY <2>1, <2>4
      <3> DEFINE h == Head(origins)
      <3> HIDE DEF h
      <3>4. PICK r \in FetchRecords :
              /\ r = [fetching[f] EXCEPT !.at = "access", !.gateway = h]
              /\ r.at = "access" /\ r.gateway = h /\ r.token = fetching[f].token /\ r.answer = fetching[f].answer
        BY <3>1, FetchTyped, GoesToAccess DEF h
      <3>5. fetching' = [fetching EXCEPT ![f] = r]  BY <3>3, <3>4 DEF h
      <3>6. r.at # "wait" /\ r.gateway \in Gateways /\ r.token = Void /\ r.answer = Void  BY <3>1, <3>2, <3>4 DEF h
      <3> QED  BY <2>1, <3>5, <3>6, BareMoves
    <2> QED  BY <2>3, <2>4
  <1>3. CASE NotFetched(f)
    <2>1. fetching[f].at = "get" /\ fetching' = [fetching EXCEPT ![f] = NotFetching]
          /\ UNCHANGED <<tokenVars, joining, route>>
      BY <1>3 DEF NotFetched, At, Goes
    <2> QED  BY <2>1, NoFetch, BareMoves
  <1>4. CASE Apply(f)
    <2>1. fetching[f].at = "apply" /\ UNCHANGED <<tokenVars, joining, route>>  BY <1>4 DEF Apply, At
    <2>2. CASE own = Void
      <3>1. fetching' = [fetching EXCEPT ![f] = NotFetching]  BY <1>4, <2>2 DEF Apply, Goes
      <3> QED  BY <2>1, <3>1, NoFetch, BareMoves
    <2>3. CASE own # Void
      <3>1. PICK listed \in SUBSET Refs, saves \in BOOLEAN :
              Goes(f, [fetching[f] EXCEPT !.at = "note", !.copy = Merged(listed), !.saves = saves])
        BY <1>4, <2>3 DEF Apply
      <3>2. fetching' = [fetching EXCEPT ![f] = [fetching[f] EXCEPT !.at = "note", !.copy = Merged(listed), !.saves = saves]]
        BY <3>1 DEF Goes
      <3>3. fetching[f].token = Void /\ fetching[f].answer = Void  BY <2>1, FetchIsBare
      <3> DEFINE c == Merged(listed)
      <3>4. c \in SUBSET Refs  BY <2>3 DEF Merged, RefsTyped
      <3> HIDE DEF c
      <3> DEFINE x == fetching[f]
                 r == [x EXCEPT !.at = "note", !.copy = c, !.saves = saves]
      <3>5. x \in FetchRecords /\ x.token = Void /\ x.answer = Void  BY <3>3, FetchTyped
      <3>6. fetching' = [fetching EXCEPT ![f] = r]  BY <3>2 DEF c
      <3> HIDE DEF x
      <3>7. r \in FetchRecords  BY <3>4, <3>5 DEF FetchRecords
      <3>8. r.at # "wait" /\ r.at \notin {"access", "get"} /\ r.token = Void /\ r.answer = Void
        BY <3>5 DEF FetchRecords
      <3> HIDE DEF r
      <3> QED  BY <2>1, <3>6, <3>7, <3>8, BareMoves
    <2> QED  BY <2>2, <2>3
  <1>5. CASE NoteRefs(f) \/ SaveProfile(f)
    <2>1. PICK at \in {"save", "sync"} : Goes(f, [fetching[f] EXCEPT !.at = at])
      BY <1>5 DEF NoteRefs, SaveProfile
    <2>2. fetching[f].at \in {"note", "save"} /\ UNCHANGED <<tokenVars, joining, route>>
      BY <1>5 DEF NoteRefs, SaveProfile, At
    <2> DEFINE r == [fetching[f] EXCEPT !.at = at]
    <2>3. fetching[f].token = Void /\ fetching[f].answer = Void  BY <2>2, FetchIsBare
    <2>4. r \in FetchRecords /\ r.at \in {"save", "sync"} /\ r.token = Void /\ r.answer = Void
      BY <2>3, FetchTyped DEF FetchRecords
    <2>5. fetching' = [fetching EXCEPT ![f] = r]  BY <2>1 DEF Goes
    <2> HIDE DEF r
    <2> QED  BY <2>2, <2>4, <2>5, BareMoves
  <1>6. CASE SyncRefs(f)
    <2>1. fetching[f].at = "sync" /\ fetching' = [fetching EXCEPT ![f] = NotFetching]
          /\ UNCHANGED <<tokenVars, joining, route>>
      BY <1>6 DEF SyncRefs, At, Goes
    <2> QED  BY <2>1, NoFetch, BareMoves
  <1> QED  BY <1>1, <1>2, <1>3, <1>4, <1>5, <1>6

LEMMA ResolvesKeep ==
  ASSUME AccessConstants, TokenCore, NEW f \in FetchTasks, ResolveAccess(f) \/ GatewayServes(f)
  PROVE  TokenCore' /\ (InTurn => InTurn')
  <1>0. Void \notin Answers /\ Void # "revoked"  BY DEF AccessConstants, Answers
  <1>1. CASE ResolveAccess(f)
    <2> DEFINE g == fetching[f].gateway
    <2>1. fetching[f].at = "access" /\ UNCHANGED <<tokenVars, joining, route>>  BY <1>1 DEF ResolveAccess, At
    <2>2. fetching[f].token = Void /\ fetching[f].answer = Void  BY <2>1, FetchIsBare
    <2>3. g \in Gateways  BY <2>1 DEF TokenCore, OfFetches
    <2>4. CASE Goes(f, [fetching[f] EXCEPT !.at = "get"])
      <3> DEFINE r == [fetching[f] EXCEPT !.at = "get"]
      <3>1. r \in FetchRecords /\ r.at = "get" /\ r.gateway \in Gateways /\ r.token = Void /\ r.answer = Void
        BY <2>2, <2>3, FetchTyped DEF FetchRecords
      <3>2. fetching' = [fetching EXCEPT ![f] = r]  BY <2>4 DEF Goes
      <3> HIDE DEF r
      <3> QED  BY <2>1, <3>1, <3>2, BareMoves
    <2>5. CASE Matches(g) /\ Goes(f, [fetching[f] EXCEPT !.at = "get", !.token = held.token])
      <3> DEFINE n == held.token
      <3>1. held # Void /\ issued[n] = g  BY <2>5 DEF Matches
      <3>2. n \in DOMAIN issued /\ n \in Serials
        BY <3>1, IssuedAreSerials DEF TokenCore, HeldTyped
      <3>3. n = held.token /\ fetching' = [fetching EXCEPT ![f] = [fetching[f] EXCEPT !.at = "get", !.token = n]]
        BY <2>5 DEF Goes
      <3> HIDE DEF n
      <3>4. PICK r \in FetchRecords :
              /\ r = [fetching[f] EXCEPT !.at = "get", !.token = n]
              /\ r.at = "get" /\ r.gateway = g /\ r.token = n /\ r.answer = fetching[f].answer
        BY <3>2, FetchTyped, GoesToGet
      <3>5. fetching' = [fetching EXCEPT ![f] = r]  BY <3>3, <3>4
      <3> HIDE DEF g
      <3>6. r.at # "wait" /\ r.gateway \in Gateways /\ r.token \in DOMAIN issued /\ issued[r.token] = r.gateway
            /\ (held # Void /\ r.token = held.token)
        BY <2>3, <3>1, <3>2, <3>3, <3>4
      <3>7. r.answer = Void /\ r.answer # "revoked"  BY <1>0, <2>2, <3>4
      <3> QED  BY <2>1, <3>4, <3>5, <3>6, <3>7, FetchMoves
    <2> QED  BY <1>1, <2>4, <2>5 DEF ResolveAccess
  <1>2. CASE GatewayServes(f)
    <2> DEFINE a == IF fetching[f].token \in withdrawn THEN "revoked" ELSE "mirror"
               r == [fetching[f] EXCEPT !.answer = a]
    <2>1. fetching[f].at = "get" /\ fetching' = [fetching EXCEPT ![f] = r] /\ UNCHANGED <<tokenVars, joining, route>>
      BY <1>2 DEF GatewayServes, At, Goes
    <2>2. a \in {"mirror", "revoked"} /\ (a = "revoked" => fetching[f].token \in withdrawn)  OBVIOUS
    <2> HIDE DEF a
    <2>3. r \in FetchRecords /\ r.at = "get" /\ r.gateway = fetching[f].gateway /\ r.token = fetching[f].token
          /\ r.answer = a
      BY <2>1, <2>2, FetchTyped DEF FetchRecords, Answers
    <2>4. fetching[f].gateway \in Gateways
          /\ (fetching[f].token # Void => fetching[f].token \in DOMAIN issued
                                         /\ issued[fetching[f].token] = fetching[f].gateway)
      BY <2>1 DEF TokenCore, OfFetches
    <2> HIDE DEF r
    <2> QED  BY <1>0, <2>1, <2>2, <2>3, <2>4, FetchMoves
  <1> QED  BY <1>1, <1>2

\* What is said of a fetch, and of the renewals.
FetchFits(x) ==
  /\ x.at \in {"access", "wait", "get"} => x.gateway \in Gateways
  /\ x.token # Void => x.at \in {"wait", "get"} /\ x.token \in DOMAIN issued /\ issued[x.token] = x.gateway
  /\ x.at = "wait" =>
       /\ x.token # Void /\ x.waits \in FetchTasks /\ renewal[x.waits] # Void
       /\ renewal[x.waits].gateway = x.gateway
  /\ x.answer # Void => x.at = "get"
  /\ x.answer = "revoked" => x.token \in withdrawn
  /\ x.answer \in {Void, "mirror", "revoked"}

LEMMA FetchHolds ==
  ASSUME TokenCore, NEW f \in FetchTasks
  PROVE  FetchFits(fetching[f])
  BY DEF TokenCore, OfFetches, FetchFits

LEMMA RenewalHolds ==
  ASSUME AccessConstants, TokenCore, NEW f \in FetchTasks, renewal[f] # Void
  PROVE  /\ renewal[f] \in RenewalRecords /\ renewal[f].token \in Serials /\ renewal[f].gateway \in Gateways
         /\ fetching[f].at = "wait" /\ fetching[f].waits = f /\ fetching[f].token = renewal[f].token
         /\ fetching[f].gateway = renewal[f].gateway /\ f \in WithToken
         /\ inflight[renewal[f].gateway] = f
         /\ renewal[f].token \in DOMAIN issued /\ issued[renewal[f].token] = renewal[f].gateway
         /\ renewal[f].answer \in {Void, "renewed", "revoked"}
         /\ renewal[f].answer # "renewed" => renewal[f].next = Void
         /\ renewal[f].answer = "renewed" =>
              /\ renewal[f].next \in DOMAIN issued /\ issued[renewal[f].next] = renewal[f].gateway
              /\ renewal[f].next >= renewal[f].token
         /\ renewal[f].answer = "revoked" => renewal[f].token \in withdrawn
         /\ renewal[f].token \in Newest
         /\ renewal[f].answer = "renewed" => renewal[f].next \in Newest
  <1>1. renewal[f] \in RenewalRecords  BY DEF TokenCore, HeldTyped
  <1>2. renewal[f].token \in Serials /\ renewal[f].gateway \in Gateways  BY <1>1 DEF RenewalRecords
  <1>3. /\ fetching[f].at = "wait" /\ fetching[f].waits = f /\ fetching[f].token = renewal[f].token
        /\ inflight[renewal[f].gateway] = f
        /\ renewal[f].token \in DOMAIN issued /\ issued[renewal[f].token] = renewal[f].gateway
        /\ renewal[f].answer \in {Void, "renewed", "revoked"}
        /\ renewal[f].answer # "renewed" => renewal[f].next = Void
        /\ renewal[f].answer = "renewed" =>
             /\ renewal[f].next \in DOMAIN issued /\ issued[renewal[f].next] = renewal[f].gateway
             /\ renewal[f].next >= renewal[f].token
        /\ renewal[f].answer = "revoked" => renewal[f].token \in withdrawn
    BY DEF TokenCore, OfRenewals
  <1>4. FetchFits(fetching[f])  BY FetchHolds
  <1>5. fetching[f].token # Void /\ fetching[f].gateway = renewal[f].gateway  BY <1>3, <1>4 DEF FetchFits
  <1>6. f \in WithToken  BY <1>3, <1>5 DEF WithToken
  <1>7. renewal[f].token \in Newest  BY <1>3 DEF Newest
  <1>8. renewal[f].answer = "renewed" => renewal[f].next \in Newest  BY <1>3 DEF Newest
  <1> QED  BY <1>1, <1>2, <1>3, <1>5, <1>6, <1>7, <1>8

LEMMA FetchedKeeps ==
  ASSUME AccessConstants, TokenCore, NEW f \in FetchTasks, Fetched(f)
  PROVE  TokenCore' /\ (InTurn => InTurn')
  <1>1. fetching[f].at = "get" /\ fetching[f].answer # Void /\ UNCHANGED <<issued, withdrawn, inflight, renewal, joining, route>>
    BY DEF Fetched, At
  <1>2. CASE fetching[f].answer = "mirror"
    <2> DEFINE r == [NotFetching EXCEPT !.at = "apply"]
    <2>1. fetching' = [fetching EXCEPT ![f] = r] /\ UNCHANGED <<tokenVars, joining, route>>
      BY <1>1, <1>2 DEF Fetched, Goes, tokenVars
    <2>2. r \in FetchRecords /\ r.at = "apply" /\ r.token = Void /\ r.answer = Void  BY DEF NotFetching, FetchRecords
    <2> HIDE DEF r
    <2> QED  BY <1>1, <2>1, <2>2, BareMoves
  <1>3. CASE fetching[f].answer # "mirror"
    <2>1. fetching' = [fetching EXCEPT ![f] = NotFetching] /\ held' = Void /\ freshest' = freshest
      BY <1>3 DEF Fetched, Goes, RemoveAccess
    <2>2. FetchFits(fetching[f]) /\ fetching[f].answer = "revoked"  BY <1>1, <1>3, FetchHolds DEF FetchFits
    <2>3. fetching[f].token \in withdrawn /\ fetching[f].token \in DOMAIN issued /\ fetching[f].token # Void
      BY <2>2, IssuedAreSerials DEF FetchFits, TokenCore, HeldTyped
    <2>4. fetching \in [FetchTasks -> FetchRecords]  BY FetchTyped
    <2>5. fetching' \in [FetchTasks -> FetchRecords] /\ fetching'[f] = NotFetching
          /\ \A e \in FetchTasks : e # f => fetching'[e] = fetching[e]
      BY <2>1, <2>4, NoFetch
    <2>6. HeldTyped'
      BY <1>1, <2>1, <2>5 DEF TokenCore, HeldTyped, HeldRecords, RenewalRecords, FetchRecords, JoinRecords
    <2>7. OfJoins'  BY <1>1 DEF TokenCore, OfJoins
    <2>8. OfFetches'
      <3>0. Void # "revoked"  BY DEF AccessConstants, Answers
      <3>1. \A e \in FetchTasks : FetchFits(fetching'[e])
        <4> SUFFICES ASSUME NEW e \in FetchTasks  PROVE FetchFits(fetching'[e])
          OBVIOUS
        <4>1. CASE e = f  BY <2>5, <3>0, <4>1, NoFetch DEF FetchFits
        <4>2. CASE e # f  BY <2>5, <4>2, FetchHolds
        <4> QED  BY <4>1, <4>2
      <3> QED  BY <1>1, <3>1 DEF OfFetches, FetchFits
    <2>9. OfRenewals'
      <3>1. renewal[f] = Void  BY <1>1 DEF TokenCore, OfRenewals
      <3>2. \A e \in FetchTasks : renewal[e] # Void => fetching'[e] = fetching[e]  BY <2>5, <3>1
      <3> QED  BY <1>1, <3>2 DEF TokenCore, OfRenewals
    <2>10. ASSUME InTurn  PROVE InTurn'
      <3>1. f \in WithToken  BY <1>1, <2>3 DEF WithToken
      <3>2. freshest = Void \/ freshest \in withdrawn
        <4> SUFFICES ASSUME freshest # Void  PROVE freshest \in withdrawn
          OBVIOUS
        <4>1. freshest \in Newest  BY DEF TokenCore, HeldTyped, Newest
        <4> QED  BY <2>3, <2>10, <3>1, <4>1 DEF InTurn
      <3>3. Newest' = Newest /\ Requesting' = Requesting  BY <1>1, <2>1 DEF Newest, Requesting
      <3>4. \A e \in WithToken' : e \in WithToken /\ fetching'[e] = fetching[e]  BY <2>5, NoFetch DEF WithToken
      <3> QED  BY <1>1, <2>1, <2>10, <3>2, <3>3, <3>4 DEF InTurn
    <2> QED  BY <2>6, <2>7, <2>8, <2>9, <2>10 DEF TokenCore
  <1> QED  BY <1>2, <1>3

LEMMA OthersKeep ==
  ASSUME AccessConstants, TokenCore, UNCHANGED <<tokenVars, joining, fetching>>, route' \in {Void} \cup Gateways
  PROVE  TokenCore' /\ (InTurn => InTurn')
  <1>1. UNCHANGED <<issued, withdrawn, held, freshest, inflight, renewal>>  BY DEF tokenVars
  <1>2. HeldTyped'  BY <1>1 DEF TokenCore, HeldTyped, HeldRecords, RenewalRecords, FetchRecords, JoinRecords
  <1>3. OfJoins' /\ OfFetches' /\ OfRenewals'  BY <1>1 DEF TokenCore, OfJoins, OfFetches, OfRenewals
  <1>4. InTurn => InTurn'  BY <1>1 DEF InTurn, Requesting, WithToken, Newest
  <1> QED  BY <1>2, <1>3, <1>4 DEF TokenCore

LEMMA AgesKeeps ==
  ASSUME AccessConstants, TokenCore, Ages
  PROVE  TokenCore' /\ (InTurn => InTurn')
  <1>1. held # Void /\ UNCHANGED <<issued, withdrawn, inflight, renewal, joining, fetching, route>>  BY DEF Ages
  <1>2. held \in HeldRecords /\ held.token \in DOMAIN issued  BY <1>1 DEF TokenCore, HeldTyped
  <1>3. \/ held' = Void /\ freshest' = Void
        \/ held' = [held EXCEPT !.due = TRUE] /\ freshest' = freshest
    BY DEF Ages
  <1>4. \/ held' = Void /\ freshest' = Void
        \/ held' \in HeldRecords /\ held'.token = held.token /\ held' # Void /\ freshest' = freshest
    <2>1. CASE held' = [held EXCEPT !.due = TRUE] /\ freshest' = freshest
      <3>1. held' \in HeldRecords /\ held'.token = held.token  BY <1>2, <2>1 DEF HeldRecords
      <3> QED  BY <2>1, <3>1, VoidIsNone
    <2> QED  BY <1>3, <2>1
  <1>5. HeldTyped'
    BY <1>1, <1>2, <1>4 DEF TokenCore, HeldTyped, HeldRecords, RenewalRecords, FetchRecords, JoinRecords
  <1>6. OfJoins' /\ OfFetches' /\ OfRenewals'  BY <1>1 DEF TokenCore, OfJoins, OfFetches, OfRenewals
  <1>7. ASSUME InTurn  PROVE InTurn'
    <2>1. Requesting' = Requesting /\ WithToken' = WithToken  BY <1>1 DEF Requesting, WithToken
    <2>2. \A m \in Newest' : m \in Newest  BY <1>1, <1>4, IssuedAreSerials DEF Newest
    <2> QED  BY <1>1, <1>4, <1>7, <2>1, <2>2 DEF InTurn
  <1> QED  BY <1>5, <1>6, <1>7 DEF TokenCore

LEMMA WithdrawsKeeps ==
  ASSUME AccessConstants, TokenCore, NEW g \in Gateways, Withdraws(g)
  PROVE  TokenCore' /\ (InTurn => InTurn')
  <1>1. withdrawn' = withdrawn \cup {n \in DOMAIN issued : issued[n] = g}
        /\ UNCHANGED <<issued, held, freshest, inflight, renewal, joining, fetching, route>>
    BY DEF Withdraws
  <1>2. withdrawn' \in SUBSET DOMAIN issued /\ withdrawn \subseteq withdrawn'
    BY <1>1 DEF TokenCore, HeldTyped
  <1>3. HeldTyped'
    BY <1>1, <1>2 DEF TokenCore, HeldTyped, HeldRecords, RenewalRecords, FetchRecords, JoinRecords
  <1>4. OfJoins'  BY <1>1 DEF TokenCore, OfJoins
  <1>5. OfFetches' /\ OfRenewals'  BY <1>1, <1>2 DEF TokenCore, OfFetches, OfRenewals
  <1>6. ASSUME InTurn  PROVE InTurn'
    <2>1. Requesting' = Requesting /\ WithToken' = WithToken /\ Newest' = Newest
      BY <1>1 DEF Requesting, WithToken, Newest
    <2>2. ASSUME NEW f \in WithToken, NEW m \in Newest
          PROVE  issued[m] = fetching[f].gateway /\ (fetching[f].token \in withdrawn' => m \in withdrawn')
      <3>1. issued[m] = fetching[f].gateway /\ (fetching[f].token \in withdrawn => m \in withdrawn)
        BY <1>6 DEF InTurn
      <3>2. m \in DOMAIN issued  BY DEF Newest
      <3>3. f \in FetchTasks /\ fetching[f].token # Void  BY DEF WithToken
      <3>4. issued[fetching[f].token] = fetching[f].gateway  BY <3>3, FetchHolds DEF FetchFits
      <3> QED  BY <1>1, <1>2, <3>1, <3>2, <3>4
    <2> QED  BY <1>1, <1>2, <1>6, <2>1, <2>2 DEF InTurn
  <1> QED  BY <1>3, <1>4, <1>5, <1>6 DEF TokenCore

LEMMA RenewKeeps ==
  ASSUME AccessConstants, TokenCore, NEW f \in FetchTasks, Renew(f)
  PROVE  TokenCore' /\ (InTurn => InTurn')
  <1> DEFINE g == fetching[f].gateway
             n == held.token
             w == IF inflight[g] = Void THEN f ELSE inflight[g]
             r == [fetching[f] EXCEPT !.at = "wait", !.token = n, !.waits = w]
             x == [token |-> n, gateway |-> g, answer |-> Void, next |-> Void]
  <1>1. /\ fetching[f].at = "access" /\ held # Void /\ issued[n] = g
        /\ fetching' = [fetching EXCEPT ![f] = r]
        /\ UNCHANGED <<issued, withdrawn, held, freshest, joining, route>>
        /\ IF inflight[g] = Void THEN renewal' = [renewal EXCEPT ![f] = x] /\ inflight' = [inflight EXCEPT ![g] = f]
           ELSE UNCHANGED <<renewal, inflight>>
    BY DEF Renew, At, Matches, Goes, Key
  <1>2. held \in HeldRecords /\ n \in DOMAIN issued /\ n \in Serials
    BY <1>1, IssuedAreSerials DEF TokenCore, HeldTyped
  <1>3. g \in Gateways  BY <1>1, FetchHolds DEF FetchFits
  <1>4. inflight \in [Gateways -> {Void} \cup FetchTasks] /\ renewal \in [FetchTasks -> {Void} \cup RenewalRecords]
        /\ fetching \in [FetchTasks -> FetchRecords]
    BY DEF TokenCore, HeldTyped
  <1>5. w \in FetchTasks /\ (inflight[g] # Void => w = inflight[g]) /\ (inflight[g] = Void => w = f)
    BY <1>3, <1>4
  <1>6. fetching[f].answer = Void /\ fetching[f].token = Void  BY <1>1, FetchIsBare
  <1>7. g = fetching[f].gateway /\ n = held.token  OBVIOUS
  <1> HIDE DEF w, g, n
  <1>8. r \in FetchRecords /\ r.at = "wait" /\ r.token = n /\ r.waits = w /\ r.gateway = g /\ r.answer = Void
    <2> DEFINE y == fetching[f]
    <2>1. y \in FetchRecords /\ y.gateway = g /\ y.answer = Void  BY <1>6, <1>7, FetchTyped
    <2>2. w \in {Void} \cup FetchTasks /\ n \in {Void} \cup Serials  BY <1>2, <1>5
    <2> HIDE DEF y
    <2>3. [y EXCEPT !.at = "wait", !.token = n, !.waits = w] \in FetchRecords  BY <2>1, <2>2 DEF FetchRecords
    <2>4. r = [y EXCEPT !.at = "wait", !.token = n, !.waits = w]  BY DEF y
    <2> HIDE DEF r
    <2> QED  BY <2>1, <2>3, <2>4 DEF FetchRecords
  <1>9. x \in RenewalRecords /\ x.token = n /\ x.gateway = g /\ x.answer = Void /\ x.next = Void
    BY <1>2, <1>3 DEF RenewalRecords
  <1> HIDE DEF r, x
  <1>10. x # Void  BY <1>9, VoidIsNone
  <1>11. fetching' \in [FetchTasks -> FetchRecords] /\ fetching'[f] = r
         /\ \A e \in FetchTasks : e # f => fetching'[e] = fetching[e]
    BY <1>1, <1>4, <1>8
  <1>12. renewal[f] = Void  BY <1>1, RenewalHolds
  <1>13. Void # "revoked" /\ Void # "renewed"  BY DEF AccessConstants, Answers
  <1>14. n # Void  BY <1>2, IssuedAreSerials
  <1>15. OfJoins'  BY <1>1 DEF TokenCore, OfJoins
  <1>16. CASE inflight[g] = Void
    <2>1. renewal' = [renewal EXCEPT ![f] = x] /\ inflight' = [inflight EXCEPT ![g] = f]  BY <1>1, <1>16
    <2>2. renewal' \in [FetchTasks -> {Void} \cup RenewalRecords] /\ renewal'[f] = x
          /\ \A e \in FetchTasks : e # f => renewal'[e] = renewal[e]
      BY <1>4, <1>9, <2>1
    <2>3. inflight' \in [Gateways -> {Void} \cup FetchTasks] /\ inflight'[g] = f
          /\ \A h \in Gateways : h # g => inflight'[h] = inflight[h]
      BY <1>3, <1>4, <2>1
    <2>4. HeldTyped'
      BY <1>1, <1>11, <2>2, <2>3 DEF TokenCore, HeldTyped, HeldRecords, RenewalRecords, FetchRecords, JoinRecords
    <2>5. OfFetches'
      <3> DEFINE Unmoved(y) ==
            /\ y.at \in {"access", "wait", "get"} => y.gateway \in Gateways
            /\ y.token # Void => y.at \in {"wait", "get"} /\ y.token \in DOMAIN issued /\ issued[y.token] = y.gateway
            /\ y.at = "wait" =>
                 /\ y.token # Void /\ y.waits \in FetchTasks /\ renewal'[y.waits] # Void
                 /\ renewal'[y.waits].gateway = y.gateway
            /\ y.answer # Void => y.at = "get"
            /\ y.answer = "revoked" => y.token \in withdrawn
            /\ y.answer \in {Void, "mirror", "revoked"}
      <3> SUFFICES ASSUME NEW e \in FetchTasks  PROVE Unmoved(fetching'[e])
        BY <1>1 DEF OfFetches
      <3>1. CASE e = f
        <4>1. w = f  BY <1>5, <1>16
        <4> QED  BY <1>1, <1>2, <1>3, <1>8, <1>9, <1>10, <1>11, <1>13, <1>14, <2>2, <3>1, <4>1
      <3>2. CASE e # f
        <4>1. FetchFits(fetching[e]) /\ fetching'[e] = fetching[e]  BY <1>11, <3>2, FetchHolds
        <4>2. fetching[e].at = "wait" => renewal'[fetching[e].waits] = renewal[fetching[e].waits]
          BY <1>12, <2>2, <4>1 DEF FetchFits
        <4> QED  BY <4>1, <4>2 DEF FetchFits
      <3> QED  BY <3>1, <3>2
    <2>6. OfRenewals'
      <3>1. ASSUME NEW e \in FetchTasks, renewal'[e] # Void
            PROVE  /\ fetching'[e].at = "wait" /\ fetching'[e].waits = e /\ fetching'[e].token = renewal'[e].token
                   /\ inflight'[renewal'[e].gateway] = e
                   /\ renewal'[e].token \in DOMAIN issued /\ issued[renewal'[e].token] = renewal'[e].gateway
                   /\ renewal'[e].answer \in {Void, "renewed", "revoked"}
                   /\ renewal'[e].answer # "renewed" => renewal'[e].next = Void
                   /\ renewal'[e].answer = "renewed" =>
                        /\ renewal'[e].next \in DOMAIN issued /\ issued[renewal'[e].next] = renewal'[e].gateway
                        /\ renewal'[e].next >= renewal'[e].token
                   /\ renewal'[e].answer = "revoked" => renewal'[e].token \in withdrawn
        <4>1. CASE e = f
          <5>1. w = f  BY <1>5, <1>16
          <5> QED  BY <1>1, <1>2, <1>8, <1>9, <1>11, <1>13, <2>2, <2>3, <4>1, <5>1
        <4>2. CASE e # f
          <5>1. renewal'[e] = renewal[e] /\ fetching'[e] = fetching[e] /\ renewal[e] # Void  BY <1>11, <2>2, <3>1, <4>2
          <5>2. inflight[renewal[e].gateway] = e /\ renewal[e].gateway \in Gateways  BY <5>1, RenewalHolds
          <5>3. renewal[e].gateway # g  BY <1>16, <5>2, VoidIsNone
          <5>4. inflight'[renewal'[e].gateway] = e  BY <2>3, <5>1, <5>2, <5>3
          <5> QED  BY <5>1, <5>4, RenewalHolds
        <4> QED  BY <4>1, <4>2
      <3>2. ASSUME NEW h \in Gateways, inflight'[h] # Void
            PROVE  renewal'[inflight'[h]] # Void /\ renewal'[inflight'[h]].gateway = h
        <4>1. CASE h = g  BY <1>9, <1>10, <2>2, <2>3, <4>1
        <4>2. CASE h # g
          <5>1. inflight'[h] = inflight[h] /\ inflight[h] \in FetchTasks  BY <1>4, <2>3, <3>2, <4>2
          <5>2. renewal[inflight[h]] # Void /\ renewal[inflight[h]].gateway = h
            BY <3>2, <5>1 DEF TokenCore, OfRenewals
          <5> QED  BY <1>12, <2>2, <5>1, <5>2
        <4> QED  BY <4>1, <4>2
      <3> QED  BY <1>1, <3>1, <3>2 DEF OfRenewals
    <2>7. ASSUME InTurn  PROVE InTurn'
      <3>1. \A e \in FetchTasks : renewal[e] = Void
        <4> SUFFICES ASSUME NEW e \in FetchTasks, renewal[e] # Void  PROVE FALSE
          OBVIOUS
        <4>1. held.token = renewal[e].token  BY <1>1, <2>7 DEF InTurn
        <4>2. issued[renewal[e].token] = renewal[e].gateway /\ inflight[renewal[e].gateway] = e  BY RenewalHolds
        <4>3. inflight[g] = e  BY <1>1, <1>7, <4>1, <4>2
        <4> QED  BY <1>16, <4>3, VoidIsNone
      <3>2. freshest = n  BY <1>1, <1>7, <2>7 DEF InTurn
      <3>3. Requesting' = Requesting  BY <1>1 DEF Requesting
      <3>4. \A m \in Newest' : m = n  BY <1>1, <1>9, <2>2, <3>1, <3>2, IssuedAreSerials DEF Newest
      <3>5. n \in Newest  BY <1>2, <3>2 DEF Newest
      <3>6. ASSUME NEW e \in WithToken', NEW m \in Newest'
            PROVE  issued[m] = fetching'[e].gateway /\ (fetching'[e].token \in withdrawn => m \in withdrawn)
        <4>1. CASE e = f  BY <1>1, <1>8, <1>11, <3>4, <4>1
        <4>2. CASE e # f
          <5>1. e \in WithToken /\ fetching'[e] = fetching[e]  BY <1>11, <4>2 DEF WithToken
          <5> QED  BY <2>7, <3>4, <3>5, <5>1 DEF InTurn
        <4> QED  BY <4>1, <4>2
      <3>7. \A e \in FetchTasks : renewal'[e] # Void => e = f  BY <2>2, <3>1
      <3>8. \A e \in FetchTasks : renewal'[e] # Void => renewal'[e].token = held.token /\ renewal'[e].token = freshest
        BY <1>7, <1>9, <2>2, <3>2, <3>7
      <3> QED  BY <1>1, <2>7, <3>3, <3>6, <3>7, <3>8 DEF InTurn
    <2> QED  BY <1>15, <2>4, <2>5, <2>6, <2>7 DEF TokenCore
  <1>17. CASE inflight[g] # Void
    <2>1. renewal' = renewal /\ inflight' = inflight  BY <1>1, <1>17
    <2>2. w = inflight[g] /\ renewal[w] # Void /\ renewal[w].gateway = g
      BY <1>3, <1>5, <1>17 DEF TokenCore, OfRenewals
    <2>3. HeldTyped'
      BY <1>1, <1>11, <2>1 DEF TokenCore, HeldTyped, HeldRecords, RenewalRecords, FetchRecords, JoinRecords
    <2>4. \A e \in FetchTasks : FetchFits(fetching'[e])
      <3> SUFFICES ASSUME NEW e \in FetchTasks  PROVE FetchFits(fetching'[e])
        OBVIOUS
      <3>1. CASE e = f  BY <1>1, <1>2, <1>3, <1>5, <1>8, <1>11, <1>13, <1>14, <2>2, <3>1 DEF FetchFits
      <3>2. CASE e # f  BY <1>11, <3>2, FetchHolds
      <3> QED  BY <3>1, <3>2
    <2>5. OfFetches'  BY <1>1, <2>1, <2>4 DEF OfFetches, FetchFits
    <2>6. OfRenewals'
      <3>1. \A e \in FetchTasks : renewal[e] # Void => fetching'[e] = fetching[e]  BY <1>11, <1>12
      <3> QED  BY <1>1, <2>1, <3>1 DEF TokenCore, OfRenewals
    <2>7. ASSUME InTurn  PROVE InTurn'
      <3>1. Requesting' = Requesting /\ Newest' = Newest  BY <1>1, <2>1 DEF Requesting, Newest
      <3>2. ASSUME NEW e \in WithToken', NEW m \in Newest
            PROVE  issued[m] = fetching'[e].gateway /\ (fetching'[e].token \in withdrawn => m \in withdrawn)
        <4>1. CASE e = f
          <5>1. issued[m] = issued[n] /\ (n \in withdrawn => m \in withdrawn)  BY <1>1, <1>7, <2>7, HeldRelates
          <5> QED  BY <1>1, <1>8, <1>11, <4>1, <5>1
        <4>2. CASE e # f
          <5>1. e \in WithToken /\ fetching'[e] = fetching[e]  BY <1>11, <4>2 DEF WithToken
          <5> QED  BY <2>7, <5>1 DEF InTurn
        <4> QED  BY <4>1, <4>2
      <3> QED  BY <1>1, <2>1, <2>7, <3>1, <3>2 DEF InTurn
    <2> QED  BY <1>15, <2>3, <2>5, <2>6, <2>7 DEF TokenCore
  <1> QED  BY <1>16, <1>17

\* What is said of a renewal of f.
RenewalFits(f, x) ==
  /\ fetching[f].token = x.token /\ inflight[x.gateway] = f
  /\ x.token \in DOMAIN issued /\ issued[x.token] = x.gateway
  /\ x.answer \in {Void, "renewed", "revoked"}
  /\ x.answer # "renewed" => x.next = Void
  /\ x.answer = "renewed" => /\ x.next \in DOMAIN issued /\ issued[x.next] = x.gateway
                             /\ x.next >= x.token
  /\ x.answer = "revoked" => x.token \in withdrawn

\* The gateway's answer to a renewal, without another token.
LEMMA AnswerKeeps ==
  ASSUME AccessConstants, TokenCore, NEW f \in FetchTasks, renewal[f] # Void, NEW x \in RenewalRecords,
         x.token = renewal[f].token, x.gateway = renewal[f].gateway, RenewalFits(f, x),
         x.next \in {Void, x.token}, renewal' = [renewal EXCEPT ![f] = x],
         UNCHANGED <<issued, withdrawn, held, freshest, inflight, joining, fetching, route>>
  PROVE  TokenCore' /\ (InTurn => InTurn')
  <1>1. renewal \in [FetchTasks -> {Void} \cup RenewalRecords]  BY DEF TokenCore, HeldTyped
  <1>2. x # Void  BY VoidIsNone
  <1>3. renewal' \in [FetchTasks -> {Void} \cup RenewalRecords] /\ renewal'[f] = x
        /\ \A e \in FetchTasks : e # f => renewal'[e] = renewal[e]
    BY <1>1
  <1>4. HeldTyped'
    BY <1>3 DEF TokenCore, HeldTyped, HeldRecords, RenewalRecords, FetchRecords, JoinRecords
  <1>5. OfJoins'  BY DEF TokenCore, OfJoins
  <1>6. \A e \in FetchTasks : /\ renewal'[e] # Void <=> renewal[e] # Void
                              /\ renewal[e] # Void => renewal'[e].gateway = renewal[e].gateway
                                                   /\ renewal'[e].token = renewal[e].token
    BY <1>2, <1>3
  <1>7. OfFetches'
    <2> SUFFICES ASSUME NEW e \in FetchTasks
                 PROVE  fetching[e].at = "wait" => renewal'[fetching[e].waits] # Void
                                                 /\ renewal'[fetching[e].waits].gateway = fetching[e].gateway
      BY DEF TokenCore, OfFetches
    <2> QED  BY <1>6, FetchHolds DEF FetchFits
  <1>8. OfRenewals'
    <2>1. \A e \in FetchTasks : e # f /\ renewal'[e] # Void => renewal'[e] = renewal[e]  BY <1>3
    <2>2. \A g \in Gateways : inflight[g] # Void => renewal'[inflight[g]] # Void /\ renewal'[inflight[g]].gateway = g
      <3>1. inflight \in [Gateways -> {Void} \cup FetchTasks]  BY DEF TokenCore, HeldTyped
      <3> QED  BY <1>6, <3>1 DEF TokenCore, OfRenewals
    <2>3. ASSUME NEW e \in FetchTasks, renewal'[e] # Void
          PROVE  fetching[e].at = "wait" /\ fetching[e].waits = e /\ RenewalFits(e, renewal'[e])
      <3>1. CASE e = f  BY <1>3, <3>1, RenewalHolds
      <3>2. CASE e # f  BY <2>1, <2>3, <3>2, RenewalHolds DEF RenewalFits
      <3> QED  BY <3>1, <3>2
    <2> QED  BY <2>2, <2>3 DEF OfRenewals, RenewalFits
  <1>9. ASSUME InTurn  PROVE InTurn'
    <2>1. Requesting' = Requesting /\ WithToken' = WithToken  BY DEF Requesting, WithToken
    <2>2. ASSUME NEW m \in Newest'  PROVE m \in Newest
      <3>1. m \in DOMAIN issued /\ m # Void  BY IssuedAreSerials DEF Newest
      <3>2. CASE m = freshest  BY <3>1, <3>2 DEF Newest
      <3>3. CASE m # freshest
        <4>1. PICK e \in FetchTasks : renewal'[e] # Void /\ m \in {renewal'[e].token, renewal'[e].next}
          BY <3>3 DEF Newest
        <4>2. CASE e = f  BY <1>3, <3>1, <4>1, <4>2 DEF Newest
        <4>3. CASE e # f  BY <1>3, <3>1, <4>1, <4>3 DEF Newest
        <4> QED  BY <4>2, <4>3
      <3> QED  BY <3>2, <3>3
    <2>3. \A e, d \in FetchTasks : renewal'[e] # Void /\ renewal'[d] # Void => e = d  BY <1>6, <1>9 DEF InTurn
    <2>4. \A e \in FetchTasks : renewal'[e] # Void =>
            (held = Void \/ held.token = renewal'[e].token) /\ freshest \in {Void, renewal'[e].token}
      BY <1>6, <1>9 DEF InTurn
    <2> QED  BY <1>9, <2>1, <2>2, <2>3, <2>4 DEF InTurn
  <1> QED  BY <1>4, <1>5, <1>7, <1>8, <1>9 DEF TokenCore

\* The gateway answers with another token.
LEMMA AnotherKeeps ==
  ASSUME AccessConstants, TokenCore, NEW f \in FetchTasks, renewal[f] # Void, NEW x \in RenewalRecords,
         renewal[f].answer = Void, renewal[f].token \notin withdrawn,
         x.token = renewal[f].token, x.gateway = renewal[f].gateway, Issue(x.gateway),
         x.answer = "renewed", x.next = Len(issued'), renewal' = [renewal EXCEPT ![f] = x],
         UNCHANGED <<withdrawn, held, freshest, inflight, joining, fetching, route>>
  PROVE  TokenCore' /\ (InTurn /\ JoinAlone => InTurn')
  <1> DEFINE n == Len(issued')
  <1>0. x.gateway \in Gateways /\ x.token \in DOMAIN issued /\ issued[x.token] = x.gateway /\ f \in WithToken
        /\ x.token \in Newest
    BY RenewalHolds
  <1>1. renewal \in [FetchTasks -> {Void} \cup RenewalRecords] /\ joining \in [JoinTasks -> JoinRecords]
        /\ fetching \in [FetchTasks -> FetchRecords]
    BY DEF TokenCore, HeldTyped
  <1>2. x # Void  BY VoidIsNone
  <1>3. renewal' \in [FetchTasks -> {Void} \cup RenewalRecords] /\ renewal'[f] = x
        /\ \A e \in FetchTasks : e # f => renewal'[e] = renewal[e]
    BY <1>1
  <1>4. HeldTyped'
    <2>1. joining' = joining /\ fetching' = fetching /\ UNCHANGED <<withdrawn, held, freshest, inflight, route>>
      OBVIOUS
    <2> QED  BY <1>0, <1>1, <1>3, <2>1, IssueTyped
  <1>5. n \in DOMAIN issued' /\ n \notin DOMAIN issued /\ issued'[n] = x.gateway
        /\ (\A m \in DOMAIN issued : m \in DOMAIN issued' /\ issued'[m] = issued[m])
    BY <1>0, IssueAdds
  <1>50. n >= x.token
    <2>1. x.token \in 1..Len(issued) /\ Len(issued) \in Nat  BY <1>0, IssuedIs
    <2>2. n = Len(issued) + 1  BY <1>0, IssueAdds
    <2> QED  BY <2>1, <2>2
  <1> HIDE DEF n
  <1>51. x.next = n  BY DEF n
  <1>6. OfJoins'  BY <1>5 DEF TokenCore, OfJoins
  <1>7. \A e \in FetchTasks : /\ renewal'[e] # Void <=> renewal[e] # Void
                              /\ renewal[e] # Void => renewal'[e].gateway = renewal[e].gateway
                                                   /\ renewal'[e].token = renewal[e].token
    BY <1>2, <1>3
  <1>8. OfFetches'
    <2> SUFFICES ASSUME NEW e \in FetchTasks
                 PROVE  /\ fetching[e].token # Void => /\ fetching[e].token \in DOMAIN issued'
                                                       /\ issued'[fetching[e].token] = fetching[e].gateway
                        /\ fetching[e].at = "wait" => /\ renewal'[fetching[e].waits] # Void
                                                      /\ renewal'[fetching[e].waits].gateway = fetching[e].gateway
      BY DEF TokenCore, OfFetches
    <2> QED  BY <1>5, <1>7, FetchHolds DEF FetchFits
  <1>9. OfRenewals'
    <2>1. \A g \in Gateways : inflight[g] # Void => renewal'[inflight[g]] # Void /\ renewal'[inflight[g]].gateway = g
      <3>1. inflight \in [Gateways -> {Void} \cup FetchTasks]  BY DEF TokenCore, HeldTyped
      <3> QED  BY <1>7, <3>1 DEF TokenCore, OfRenewals
    <2>2. ASSUME NEW e \in FetchTasks, renewal'[e] # Void
          PROVE  /\ fetching[e].at = "wait" /\ fetching[e].waits = e /\ fetching[e].token = renewal'[e].token
                 /\ inflight[renewal'[e].gateway] = e
                 /\ renewal'[e].token \in DOMAIN issued' /\ issued'[renewal'[e].token] = renewal'[e].gateway
                 /\ renewal'[e].answer \in {Void, "renewed", "revoked"}
                 /\ renewal'[e].answer # "renewed" => renewal'[e].next = Void
                 /\ renewal'[e].answer = "renewed" =>
                      /\ renewal'[e].next \in DOMAIN issued' /\ issued'[renewal'[e].next] = renewal'[e].gateway
                      /\ renewal'[e].next >= renewal'[e].token
                 /\ renewal'[e].answer = "revoked" => renewal'[e].token \in withdrawn
      <3>1. CASE e = f  BY <1>3, <1>5, <1>50, <1>51, <3>1, RenewalHolds
      <3>2. CASE e # f
        <4>1. renewal'[e] = renewal[e]  BY <1>3, <3>2
        <4> QED  BY <1>5, <2>2, <4>1, RenewalHolds
      <3> QED  BY <3>1, <3>2
    <2> QED  BY <2>1, <2>2 DEF OfRenewals
  <1>10. ASSUME InTurn, JoinAlone  PROVE InTurn'
    <2>1. Requesting = {}
      <3>1. \A j \in Requesting : WithToken = {}  BY <1>10 DEF JoinAlone
      <3> QED  BY <1>0, <3>1
    <2>2. Requesting' = Requesting /\ WithToken' = WithToken  BY DEF Requesting, WithToken
    <2>3. ASSUME NEW m \in Newest'  PROVE m = n \/ m \in Newest
      <3>1. m \in DOMAIN issued' /\ m # Void
        <4>1. m \in DOMAIN issued' /\ issued' \in Seq(Gateways) /\ Len(issued') <= MaxTokens
          BY <1>4 DEF Newest, HeldTyped
        <4>2. m \in 1..MaxTokens  BY <4>1 DEF AccessConstants
        <4> QED  BY <4>1, <4>2 DEF AccessConstants, Serials
      <3>2. CASE m = freshest  BY <3>1, <3>2 DEF Newest, TokenCore, HeldTyped
      <3>3. CASE m # freshest
        <4>1. PICK e \in FetchTasks : renewal'[e] # Void /\ m \in {renewal'[e].token, renewal'[e].next}
          BY <3>3 DEF Newest
        <4>2. CASE e = f  BY <1>0, <1>3, <1>51, <4>1, <4>2
        <4>3. CASE e # f
          <5>1. renewal'[e] = renewal[e]  BY <1>3, <4>3
          <5> QED  BY <3>1, <4>1, <5>1, RenewalHolds
        <4> QED  BY <4>2, <4>3
      <3> QED  BY <3>2, <3>3
    <2>4. ASSUME NEW e \in WithToken, NEW m \in Newest'
          PROVE  issued'[m] = fetching[e].gateway /\ (fetching[e].token \in withdrawn => m \in withdrawn)
      <3>1. CASE m = n
        <4>1. issued[x.token] = fetching[e].gateway /\ (fetching[e].token \in withdrawn => x.token \in withdrawn)
          BY <1>0, <1>10 DEF InTurn
        <4> QED  BY <1>0, <1>5, <3>1, <4>1
      <3>2. CASE m \in Newest
        <4>1. m \in DOMAIN issued  BY <3>2 DEF Newest
        <4>2. issued[m] = fetching[e].gateway /\ (fetching[e].token \in withdrawn => m \in withdrawn)
          BY <1>10, <3>2 DEF InTurn
        <4> QED  BY <1>5, <4>1, <4>2
      <3> QED  BY <2>3, <3>1, <3>2
    <2>5. \A e, d \in FetchTasks : renewal'[e] # Void /\ renewal'[d] # Void => e = d  BY <1>7, <1>10 DEF InTurn
    <2>6. \A e \in FetchTasks : renewal'[e] # Void =>
            (held = Void \/ held.token = renewal'[e].token) /\ freshest \in {Void, renewal'[e].token}
      BY <1>7, <1>10 DEF InTurn
    <2> QED  BY <1>10, <2>1, <2>2, <2>4, <2>5, <2>6 DEF InTurn
  <1> QED  BY <1>4, <1>6, <1>8, <1>9, <1>10 DEF TokenCore

LEMMA GatewayRenewsKeeps ==
  ASSUME AccessConstants, TokenCore, NEW f \in FetchTasks, GatewayRenews(f)
  PROVE  TokenCore' /\ (InTurn /\ JoinAlone => InTurn')
  <1> DEFINE y == renewal[f]
  <1>0. Void # "revoked" /\ Void # "renewed"  BY DEF AccessConstants, Answers
  <1>1. renewal[f] # Void /\ renewal[f].answer = Void
        /\ UNCHANGED <<withdrawn, held, freshest, inflight, joining, fetching, route>>
    BY DEF GatewayRenews
  <1>2. renewal \in [FetchTasks -> {Void} \cup RenewalRecords]  BY DEF TokenCore, HeldTyped
  <1>3. y \in RenewalRecords /\ y.token \in DOMAIN issued /\ y.token \in Serials /\ y.token \in Nat /\ y.gateway \in Gateways
        /\ issued[y.token] = y.gateway /\ fetching[f].token = y.token /\ inflight[y.gateway] = f /\ y.next = Void
    BY <1>0, <1>1, RenewalHolds, IssuedAreSerials
  <1>4. y = renewal[f]  OBVIOUS
  <1> HIDE DEF y
  <1>5. CASE y.token \in withdrawn
    <2> DEFINE x == [y EXCEPT !.answer = "revoked"]
    <2>1. x \in RenewalRecords /\ x.token = y.token /\ x.gateway = y.gateway /\ x.answer = "revoked" /\ x.next = Void
      BY <1>3 DEF RenewalRecords, Answers
    <2>2. renewal' = [renewal EXCEPT ![f].answer = "revoked"] /\ issued' = issued
      BY <1>4, <1>5 DEF GatewayRenews
    <2>3. renewal' = [renewal EXCEPT ![f] = x]  BY <1>2, <1>4, <2>2
    <2> HIDE DEF x
    <2>4. RenewalFits(f, x)  BY <1>3, <1>5, <2>1 DEF RenewalFits
    <2> QED  BY <1>1, <1>4, <2>1, <2>2, <2>3, <2>4, AnswerKeeps
  <1>6. CASE y.token \notin withdrawn /\ issued' = issued
             /\ renewal' = [renewal EXCEPT ![f].answer = "renewed", ![f].next = y.token]
    <2> DEFINE x == [y EXCEPT !.answer = "renewed", !.next = y.token]
    <2>1. x \in RenewalRecords /\ x.token = y.token /\ x.gateway = y.gateway /\ x.answer = "renewed" /\ x.next = y.token
      BY <1>3 DEF RenewalRecords, Answers
    <2>2. renewal' = [renewal EXCEPT ![f] = x]  BY <1>2, <1>4, <1>6
    <2> HIDE DEF x
    <2>3. RenewalFits(f, x)  BY <1>0, <1>3, <2>1 DEF RenewalFits
    <2> QED  BY <1>1, <1>4, <1>6, <2>1, <2>2, <2>3, AnswerKeeps
  <1>7. CASE y.token \notin withdrawn /\ Issue(y.gateway)
             /\ renewal' = [renewal EXCEPT ![f].answer = "renewed", ![f].next = Len(issued')]
    <2> DEFINE n == Len(issued')
               x == [y EXCEPT !.answer = "renewed", !.next = n]
    <2>1. n \in Serials  BY <1>3, <1>7, IssueAdds
    <2>2. renewal' = [renewal EXCEPT ![f] = x]  BY <1>2, <1>4, <1>7
    <2>3. n = Len(issued')  OBVIOUS
    <2> HIDE DEF n
    <2>4. x \in RenewalRecords /\ x.token = y.token /\ x.gateway = y.gateway /\ x.answer = "renewed" /\ x.next = n
      BY <1>3, <2>1 DEF RenewalRecords, Answers
    <2> HIDE DEF x
    <2>5. Issue(x.gateway) /\ x.next = Len(issued')  BY <1>7, <2>3, <2>4
    <2> QED  BY <1>1, <1>4, <1>7, <2>2, <2>4, <2>5, AnotherKeeps
  <1> QED  BY <1>4, <1>5, <1>6, <1>7 DEF GatewayRenews

\* The fetches that waited for the renewal of f go on.
GoOn(f, answer, next) ==
  fetching' = [e \in FetchTasks |->
    IF At(e, "wait") /\ fetching[e].waits = f
    THEN [fetching[e] EXCEPT !.at = "get", !.waits = Void,
            !.token = IF answer = "renewed" THEN next ELSE @]
    ELSE fetching[e]]

LEMMA GoOnIs ==
  ASSUME AccessConstants, TokenCore, NEW f \in FetchTasks, NEW answer, NEW next,
         answer = "renewed" => next \in Serials, GoOn(f, answer, next)
  PROVE  /\ fetching' \in [FetchTasks -> FetchRecords]
         /\ \A e \in FetchTasks :
              IF fetching[e].at = "wait" /\ fetching[e].waits = f
              THEN /\ fetching'[e].at = "get" /\ fetching'[e].gateway = fetching[e].gateway
                   /\ fetching'[e].answer = fetching[e].answer
                   /\ fetching'[e].token = IF answer = "renewed" THEN next ELSE fetching[e].token
              ELSE fetching'[e] = fetching[e]
  <1>1. ASSUME NEW e \in FetchTasks, fetching[e].at = "wait", fetching[e].waits = f
        PROVE  /\ fetching'[e] \in FetchRecords
               /\ fetching'[e].at = "get" /\ fetching'[e].gateway = fetching[e].gateway
               /\ fetching'[e].answer = fetching[e].answer
               /\ fetching'[e].token = IF answer = "renewed" THEN next ELSE fetching[e].token
    <2> DEFINE y == fetching[e]
               n == IF answer = "renewed" THEN next ELSE y.token
    <2>1. fetching'[e] = [y EXCEPT !.at = "get", !.waits = Void, !.token = n]  BY <1>1 DEF GoOn, At
    <2>2. y \in FetchRecords /\ y.token \in {Void} \cup Serials  BY FetchTyped
    <2>3. n \in {Void} \cup Serials  BY <2>2
    <2>4. y = fetching[e] /\ n = IF answer = "renewed" THEN next ELSE fetching[e].token  OBVIOUS
    <2> HIDE DEF y, n
    <2>5. [y EXCEPT !.at = "get", !.waits = Void, !.token = n] \in FetchRecords  BY <2>2, <2>3 DEF FetchRecords
    <2> QED  BY <2>1, <2>2, <2>4, <2>5 DEF FetchRecords
  <1>2. ASSUME NEW e \in FetchTasks, ~(fetching[e].at = "wait" /\ fetching[e].waits = f)
        PROVE  fetching'[e] \in FetchRecords /\ fetching'[e] = fetching[e]
    BY <1>2, FetchTyped DEF GoOn, At
  <1>3. fetching' = [e \in FetchTasks |-> fetching'[e]]  BY DEF GoOn
  <1>4. \A e \in FetchTasks : fetching'[e] \in FetchRecords  BY <1>1, <1>2
  <1>5. fetching' \in [FetchTasks -> FetchRecords]  BY <1>3, <1>4
  <1> QED  BY <1>1, <1>2, <1>5

LEMMA RenewEndsKeeps ==
  ASSUME AccessConstants, TokenCore, NEW f \in FetchTasks, RenewEnds(f)
  PROVE  TokenCore' /\ (InTurn => InTurn')
  <1> DEFINE x == renewal[f]
  <1>0. Void # "revoked" /\ Void # "renewed"  BY DEF AccessConstants, Answers
  <1>1. x # Void  BY DEF RenewEnds
  <1>2. PICK answer \in {Void, x.answer} :
          /\ CASE answer = "renewed" -> Store(x.next)
               [] answer = "revoked" -> RemoveAccess
               [] answer = Void -> UNCHANGED <<held, freshest>>
          /\ GoOn(f, answer, x.next)
    BY DEF RenewEnds, GoOn
  <1>3. /\ renewal' = [renewal EXCEPT ![f] = Void] /\ inflight' = [inflight EXCEPT ![x.gateway] = Void]
        /\ UNCHANGED <<issued, withdrawn, joining, route>>
    BY DEF RenewEnds, Key
  <1>4. x = renewal[f]  OBVIOUS
  <1> HIDE DEF x
  <1>5. /\ x \in RenewalRecords /\ x.token \in Serials /\ x.gateway \in Gateways
        /\ fetching[f].at = "wait" /\ fetching[f].waits = f /\ fetching[f].token = x.token
        /\ fetching[f].gateway = x.gateway /\ f \in WithToken /\ inflight[x.gateway] = f
        /\ x.token \in DOMAIN issued /\ issued[x.token] = x.gateway
        /\ x.answer \in {Void, "renewed", "revoked"}
        /\ x.answer = "renewed" => /\ x.next \in DOMAIN issued /\ issued[x.next] = x.gateway
                                   /\ x.next >= x.token
        /\ x.answer = "revoked" => x.token \in withdrawn
        /\ x.token \in Newest
        /\ x.answer = "renewed" => x.next \in Newest
    BY <1>1, <1>4, RenewalHolds
  <1>6. answer \in {Void, "renewed", "revoked"} /\ (answer # Void => answer = x.answer)  BY <1>2, <1>5
  <1>7. answer = "renewed" => x.next \in DOMAIN issued /\ x.next \in Serials /\ x.next # Void
    BY <1>0, <1>5, <1>6, IssuedAreSerials
  <1>8. /\ fetching' \in [FetchTasks -> FetchRecords]
        /\ \A e \in FetchTasks :
             IF fetching[e].at = "wait" /\ fetching[e].waits = f
             THEN /\ fetching'[e].at = "get" /\ fetching'[e].gateway = fetching[e].gateway
                  /\ fetching'[e].answer = fetching[e].answer
                  /\ fetching'[e].token = IF answer = "renewed" THEN x.next ELSE fetching[e].token
             ELSE fetching'[e] = fetching[e]
    BY <1>2, <1>7, GoOnIs
  <1>9. inflight \in [Gateways -> {Void} \cup FetchTasks] /\ renewal \in [FetchTasks -> {Void} \cup RenewalRecords]
    BY DEF TokenCore, HeldTyped
  <1>10. renewal' \in [FetchTasks -> {Void} \cup RenewalRecords] /\ renewal'[f] = Void
         /\ \A e \in FetchTasks : e # f => renewal'[e] = renewal[e]
    BY <1>3, <1>9
  <1>11. inflight' \in [Gateways -> {Void} \cup FetchTasks] /\ inflight'[x.gateway] = Void
         /\ \A g \in Gateways : g # x.gateway => inflight'[g] = inflight[g]
    BY <1>3, <1>5, <1>9
  <1>12. /\ answer = "renewed" =>
              /\ held' \in HeldRecords /\ held'.token = x.next /\ held' # Void
              /\ freshest' \in DOMAIN issued /\ freshest' \in {x.next, freshest}
              /\ freshest = Void => freshest' = x.next
              /\ freshest # Void /\ x.next >= freshest => freshest' = x.next
         /\ answer = "revoked" => held' = Void /\ freshest' = freshest
         /\ answer = Void => held' = held /\ freshest' = freshest
    <2>1. CASE answer = "renewed"
      <3>1. Store(x.next)  BY <1>0, <1>2, <2>1
      <3> QED  BY <1>0, <1>7, <2>1, <3>1, StoredIs
    <2>2. CASE answer = "revoked"
      <3>1. RemoveAccess  BY <1>0, <1>2, <2>2
      <3> QED  BY <1>0, <2>2, <3>1 DEF RemoveAccess
    <2>3. CASE answer = Void  BY <1>0, <1>2, <2>3
    <2> QED  BY <1>6, <2>1, <2>2, <2>3
  <1>13. HeldTyped'
    <2>1. held' = Void \/ (held' \in HeldRecords /\ held'.token \in DOMAIN issued')
      BY <1>3, <1>6, <1>7, <1>12 DEF TokenCore, HeldTyped
    <2>2. freshest' \in {Void} \cup DOMAIN issued'  BY <1>3, <1>6, <1>12 DEF TokenCore, HeldTyped
    <2> QED  BY <1>3, <1>8, <1>10, <1>11, <2>1, <2>2
         DEF TokenCore, HeldTyped, HeldRecords, RenewalRecords, FetchRecords, JoinRecords
  <1>14. OfJoins'  BY <1>3 DEF TokenCore, OfJoins
  <1>15. OfFetches'
    <2> DEFINE Unmoved(y) ==
          /\ y.at \in {"access", "wait", "get"} => y.gateway \in Gateways
          /\ y.token # Void => y.at \in {"wait", "get"} /\ y.token \in DOMAIN issued /\ issued[y.token] = y.gateway
          /\ y.at = "wait" =>
               /\ y.token # Void /\ y.waits \in FetchTasks /\ renewal'[y.waits] # Void
               /\ renewal'[y.waits].gateway = y.gateway
          /\ y.answer # Void => y.at = "get"
          /\ y.answer = "revoked" => y.token \in withdrawn
          /\ y.answer \in {Void, "mirror", "revoked"}
    <2> SUFFICES ASSUME NEW e \in FetchTasks  PROVE Unmoved(fetching'[e])
      BY <1>3 DEF OfFetches
    <2>1. FetchFits(fetching[e])  BY FetchHolds
    <2>2. CASE fetching[e].at = "wait" /\ fetching[e].waits = f
      <3>1. fetching[e].gateway = x.gateway /\ fetching[e].token \in DOMAIN issued
            /\ issued[fetching[e].token] = x.gateway /\ fetching[e].answer = Void
        BY <1>4, <2>1, <2>2 DEF FetchFits
      <3>2. fetching'[e].at = "get" /\ fetching'[e].gateway = x.gateway /\ fetching'[e].answer = Void
            /\ fetching'[e].token = IF answer = "renewed" THEN x.next ELSE fetching[e].token
        BY <1>8, <2>2, <3>1
      <3>3. fetching'[e].token \in DOMAIN issued /\ issued[fetching'[e].token] = x.gateway
        BY <1>5, <1>6, <1>7, <1>0, <3>1, <3>2
      <3> QED  BY <1>0, <1>5, <3>2, <3>3
    <2>3. CASE ~(fetching[e].at = "wait" /\ fetching[e].waits = f)
      <3>1. fetching'[e] = fetching[e]  BY <1>8, <2>3
      <3>2. fetching[e].at = "wait" => renewal'[fetching[e].waits] = renewal[fetching[e].waits]
        BY <1>10, <2>1, <2>3 DEF FetchFits
      <3> QED  BY <2>1, <3>1, <3>2 DEF FetchFits
    <2> QED  BY <2>2, <2>3
  <1>16. OfRenewals'
    <2>1. ASSUME NEW e \in FetchTasks, renewal'[e] # Void
          PROVE  /\ fetching'[e].at = "wait" /\ fetching'[e].waits = e /\ fetching'[e].token = renewal'[e].token
                 /\ inflight'[renewal'[e].gateway] = e /\ renewal'[e] = renewal[e] /\ renewal[e] # Void
      <3>1. e # f /\ renewal'[e] = renewal[e] /\ renewal[e] # Void  BY <1>10, <2>1
      <3>2. fetching[e].at = "wait" /\ fetching[e].waits = e /\ fetching[e].token = renewal[e].token
            /\ inflight[renewal[e].gateway] = e /\ renewal[e].gateway \in Gateways
        BY <3>1, RenewalHolds
      <3>3. fetching'[e] = fetching[e]  BY <1>8, <3>1, <3>2
      <3>4. renewal[e].gateway # x.gateway  BY <1>5, <3>1, <3>2
      <3> QED  BY <1>11, <3>1, <3>2, <3>3, <3>4
    <2>2. ASSUME NEW e \in FetchTasks, renewal'[e] # Void
          PROVE  /\ renewal'[e].token \in DOMAIN issued /\ issued[renewal'[e].token] = renewal'[e].gateway
                 /\ renewal'[e].answer \in {Void, "renewed", "revoked"}
                 /\ renewal'[e].answer # "renewed" => renewal'[e].next = Void
                 /\ renewal'[e].answer = "renewed" =>
                      /\ renewal'[e].next \in DOMAIN issued /\ issued[renewal'[e].next] = renewal'[e].gateway
                      /\ renewal'[e].next >= renewal'[e].token
                 /\ renewal'[e].answer = "revoked" => renewal'[e].token \in withdrawn
      BY <2>1, <2>2, RenewalHolds
    <2>3. ASSUME NEW g \in Gateways, inflight'[g] # Void
          PROVE  renewal'[inflight'[g]] # Void /\ renewal'[inflight'[g]].gateway = g
      <3>1. g # x.gateway /\ inflight'[g] = inflight[g]  BY <1>11, <2>3
      <3>2. inflight[g] \in FetchTasks  BY <1>9, <2>3, <3>1
      <3>3. renewal[inflight[g]] # Void /\ renewal[inflight[g]].gateway = g
        BY <2>3, <3>1 DEF TokenCore, OfRenewals
      <3>4. inflight[g] # f  BY <1>4, <3>1, <3>3
      <3> QED  BY <1>10, <3>1, <3>2, <3>3, <3>4
    <2> QED  BY <1>3, <2>1, <2>2, <2>3 DEF OfRenewals
  <1>17. ASSUME InTurn  PROVE InTurn'
    <2>1. Requesting' = Requesting  BY <1>3 DEF Requesting
    <2>2. \A e \in FetchTasks : renewal'[e] = Void
      <3>1. \A e \in FetchTasks : renewal[e] # Void => e = f  BY <1>1, <1>4, <1>17 DEF InTurn
      <3> QED  BY <1>10, <3>1
    <2>3. freshest \in {Void, x.token} /\ (held = Void \/ held.token = x.token)  BY <1>1, <1>4, <1>17 DEF InTurn
    <2>4. answer = "renewed" => freshest' = x.next
      <3> SUFFICES ASSUME answer = "renewed"  PROVE freshest' = x.next
        OBVIOUS
      <3>1. x.next >= x.token  BY <1>0, <1>5, <1>6
      <3> QED  BY <1>12, <2>3, <3>1
    <2>5. IF held' = Void THEN freshest' = Void \/ freshest' \in withdrawn ELSE held'.token = freshest'
      <3>1. CASE answer = "renewed"  BY <1>12, <2>4, <3>1
      <3>2. CASE answer = "revoked"
        <4>1. x.token \in withdrawn  BY <1>0, <1>5, <1>6, <3>2
        <4> QED  BY <1>12, <2>3, <3>2, <4>1
      <3>3. CASE answer = Void  BY <1>12, <1>17, <3>3 DEF InTurn
      <3> QED  BY <1>6, <3>1, <3>2, <3>3
    <2>6. \A m \in Newest' : m = freshest' /\ m \in DOMAIN issued  BY <1>3, <2>2 DEF Newest
    <2>7. \A m \in Newest' : m \in Newest
      <3>1. CASE answer = "renewed"  BY <1>0, <1>5, <1>6, <2>4, <2>6, <3>1
      <3>2. CASE answer # "renewed"
        <4>1. freshest' = freshest  BY <1>6, <1>12, <3>2
        <4> QED  BY <2>6, <4>1 DEF Newest
      <3> QED  BY <3>1, <3>2
    <2>8. ASSUME NEW e \in WithToken', NEW m \in Newest'
          PROVE  issued[m] = fetching'[e].gateway /\ (fetching'[e].token \in withdrawn => m \in withdrawn)
      <3>1. e \in FetchTasks /\ FetchFits(fetching[e])  BY FetchHolds DEF WithToken
      <3>2. CASE fetching[e].at = "wait" /\ fetching[e].waits = f
        <4>1. e \in WithToken  BY <3>1, <3>2 DEF WithToken, FetchFits
        <4>2. issued[m] = fetching[e].gateway /\ (fetching[e].token \in withdrawn => m \in withdrawn)
          BY <1>17, <2>7, <4>1 DEF InTurn
        <4>3. fetching'[e].gateway = fetching[e].gateway
              /\ fetching'[e].token = IF answer = "renewed" THEN x.next ELSE fetching[e].token
          BY <1>8, <3>1, <3>2
        <4> QED  BY <2>4, <2>6, <4>2, <4>3
      <3>3. CASE ~(fetching[e].at = "wait" /\ fetching[e].waits = f)
        <4>1. fetching'[e] = fetching[e]  BY <1>8, <3>1, <3>3
        <4>2. e \in WithToken  BY <3>1, <4>1 DEF WithToken
        <4> QED  BY <1>17, <2>7, <4>1, <4>2 DEF InTurn
      <3> QED  BY <3>2, <3>3
    <2> QED  BY <1>3, <1>17, <2>1, <2>2, <2>5, <2>8 DEF InTurn
  <1> QED  BY <1>13, <1>14, <1>15, <1>16, <1>17 DEF TokenCore

LEMMA TokensKeep ==
  ASSUME AccessConstants, TokenCore, RefsTyped, Step
  PROVE  TokenCore' /\ (InTurn /\ JoinAlone => InTurn')
  <1>1. ASSUME NEW j \in JoinTasks, BeginClaim(j) \/ BeginOpenJoin(j) \/ BeginAppend(j) \/ JoinStep(j)
        PROVE  TokenCore' /\ (InTurn /\ JoinAlone => InTurn')
    BY <1>1, JoinsKeep, GatewayAnswersKeeps, JoinEndsKeeps DEF JoinStep
  <1>2. ASSUME NEW f \in FetchTasks, BeginFetch(f) \/ FetchStep(f)
        PROVE  TokenCore' /\ (InTurn /\ JoinAlone => InTurn')
    <2>1. CASE BeginFetch(f) \/ Routes(f) \/ NotFetched(f) \/ Apply(f) \/ NoteRefs(f) \/ SaveProfile(f) \/ SyncRefs(f)
      BY <2>1, FetchesKeep
    <2>2. CASE ResolveAccess(f) \/ GatewayServes(f)  BY <2>2, ResolvesKeep
    <2>3. CASE Fetched(f)  BY <2>3, FetchedKeeps
    <2>4. CASE Renew(f)  BY <2>4, RenewKeeps
    <2>5. CASE GatewayRenews(f)  BY <2>5, GatewayRenewsKeeps
    <2>6. CASE RenewEnds(f)  BY <2>6, RenewEndsKeeps
    <2> QED  BY <1>2, <2>1, <2>2, <2>3, <2>4, <2>5, <2>6 DEF FetchStep
  <1>3. CASE ReadRefs \/ NoteWriter \/ ProfileChanges
    <2>1. UNCHANGED <<tokenVars, joining, fetching, route>>  BY <1>3 DEF ReadRefs, NoteWriter, ProfileChanges
    <2>2. route' \in {Void} \cup Gateways  BY <2>1 DEF TokenCore, HeldTyped
    <2> QED  BY <2>1, <2>2, OthersKeep
  <1>4. CASE Ages  BY <1>4, AgesKeeps
  <1>5. ASSUME NEW g \in Gateways, Withdraws(g) \/ Reroutes(g)
        PROVE  TokenCore' /\ (InTurn /\ JoinAlone => InTurn')
    <2>1. CASE Withdraws(g)  BY <2>1, WithdrawsKeeps
    <2>2. CASE Reroutes(g)
      <3>1. UNCHANGED <<tokenVars, joining, fetching>> /\ route' = g  BY <2>2 DEF Reroutes
      <3> QED  BY <3>1, OthersKeep
    <2> QED  BY <1>5, <2>1, <2>2
  <1> QED  BY <1>1, <1>2, <1>3, <1>4, <1>5 DEF Step

-----------------------------------------------------------------------------
(* Steps of the refs *)

\* Where the refs stand still, and who notes them too.
Still == UNCHANGED refVars /\ \A e \in FetchTasks :
  \/ fetching'[e] = fetching[e]
  \/ /\ fetching[e].at \notin {"note", "save", "sync"} /\ fetching'[e].at \notin {"note", "save", "sync"}

LEMMA StillKeeps ==
  ASSUME Still, NotedInTurn
  PROVE  NotedInTurn'
  <1>1. own' = own /\ refs' = refs /\ noting' = noting  BY DEF Still, refVars
  <1>2. \A e \in FetchTasks : e \in Noting' <=> e \in Noting  BY DEF Still, Noting
  <1>3. Noting' = Noting  BY <1>2 DEF Noting
  <1>4. \A e \in Noting : fetching'[e] = fetching[e]  BY DEF Still, Noting
  <1> QED  BY <1>1, <1>3, <1>4 DEF NotedInTurn

LEMMA OneGoes ==
  ASSUME TokenCore, NEW f \in FetchTasks, NEW r, Goes(f, r)
  PROVE  fetching'[f] = r /\ \A e \in FetchTasks : e # f => fetching'[e] = fetching[e]
  BY FetchTyped DEF Goes

LEMMA StillIs ==
  ASSUME AccessConstants, TokenCore, Step
  PROVE  Still \/ ProfileChanges \/ ReadRefs \/ NoteWriter
         \/ \E f \in FetchTasks : Apply(f) \/ NoteRefs(f) \/ SaveProfile(f) \/ SyncRefs(f)
  <1>1. ASSUME NEW j \in JoinTasks, BeginClaim(j) \/ BeginOpenJoin(j) \/ BeginAppend(j) \/ JoinStep(j)
        PROVE  Still
    BY <1>1 DEF BeginClaim, BeginOpenJoin, BeginAppend, JoinStep, Begin, Challenge, GatewayAnswers, ClaimEnds,
                Bootstrapped, NotBootstrapped, Appended, Still
  <1>2. ASSUME NEW f \in FetchTasks, BeginFetch(f) \/ Routes(f) \/ ResolveAccess(f) \/ Renew(f)
                                     \/ GatewayServes(f) \/ Fetched(f) \/ NotFetched(f)
        PROVE  Still
    <2>1. fetching[f].at \notin {"note", "save", "sync"} /\ UNCHANGED refVars
      BY <1>2 DEF BeginFetch, Routes, ResolveAccess, Renew, GatewayServes, Fetched, NotFetched, At
    <2>2. PICK r : Goes(f, r) /\ r.at \notin {"note", "save", "sync"}
      <3>0. NotFetching.at = "idle"  BY NoFetch
      <3>1. CASE BeginFetch(f)
        <4>1. [NotFetching EXCEPT !.at = "route"].at = "route"  BY DEF NotFetching
        <4> QED  BY <3>1, <4>1 DEF BeginFetch
      <3>2. CASE Routes(f)
        <4>1. PICK g : Goes(f, NotFetching) \/ Goes(f, [fetching[f] EXCEPT !.at = "access", !.gateway = g])
          BY <3>2 DEF Routes
        <4>2. [fetching[f] EXCEPT !.at = "access", !.gateway = g].at = "access"  BY FetchTyped DEF FetchRecords
        <4> QED  BY <3>0, <4>1, <4>2
      <3>3. CASE ResolveAccess(f)
        <4>1. PICK n : Goes(f, [fetching[f] EXCEPT !.at = "get"]) \/ Goes(f, [fetching[f] EXCEPT !.at = "get", !.token = n])
          BY <3>3 DEF ResolveAccess
        <4>2. [fetching[f] EXCEPT !.at = "get", !.token = n].at = "get" /\ [fetching[f] EXCEPT !.at = "get"].at = "get"
          BY FetchTyped DEF FetchRecords
        <4> QED  BY <4>1, <4>2
      <3>4. CASE Renew(f)
        <4>1. PICK n, w : Goes(f, [fetching[f] EXCEPT !.at = "wait", !.token = n, !.waits = w])  BY <3>4 DEF Renew
        <4>2. [fetching[f] EXCEPT !.at = "wait", !.token = n, !.waits = w].at = "wait"
          BY FetchTyped DEF FetchRecords
        <4> QED  BY <4>1, <4>2
      <3>5. CASE GatewayServes(f)
        <4>1. PICK a : Goes(f, [fetching[f] EXCEPT !.answer = a])  BY <3>5 DEF GatewayServes
        <4>2. [fetching[f] EXCEPT !.answer = a].at = fetching[f].at  BY FetchTyped DEF FetchRecords
        <4> QED  BY <2>1, <4>1, <4>2
      <3>6. CASE Fetched(f)
        <4>1. [NotFetching EXCEPT !.at = "apply"].at = "apply"  BY DEF NotFetching
        <4> QED  BY <3>0, <3>6, <4>1 DEF Fetched
      <3>7. CASE NotFetched(f)  BY <3>0, <3>7 DEF NotFetched
      <3> QED  BY <1>2, <3>1, <3>2, <3>3, <3>4, <3>5, <3>6, <3>7
    <2> QED  BY <2>1, <2>2, OneGoes DEF Still
  <1>3. ASSUME NEW f \in FetchTasks, GatewayRenews(f)  PROVE Still
    BY <1>3 DEF GatewayRenews, Still
  <1>4. ASSUME NEW f \in FetchTasks, RenewEnds(f)  PROVE Still
    <2>1. PICK answer : GoOn(f, answer, renewal[f].next)  BY <1>4 DEF RenewEnds, GoOn
    <2>2. ASSUME NEW e \in FetchTasks
          PROVE  \/ fetching'[e] = fetching[e]
                 \/ fetching[e].at = "wait" /\ fetching'[e].at = "get"
      <3>1. CASE fetching[e].at = "wait" /\ fetching[e].waits = f
        <4>1. PICK n : fetching'[e] = [fetching[e] EXCEPT !.at = "get", !.waits = Void, !.token = n]
          BY <2>1, <3>1 DEF GoOn, At
        <4> QED  BY <3>1, <4>1, FetchTyped DEF FetchRecords
      <3>2. CASE ~(fetching[e].at = "wait" /\ fetching[e].waits = f)  BY <2>1, <3>2 DEF GoOn, At
      <3> QED  BY <3>1, <3>2
    <2>3. UNCHANGED refVars  BY <1>4 DEF RenewEnds
    <2> QED  BY <2>2, <2>3 DEF Still
  <1>5. CASE Ages \/ \E g \in Gateways : Withdraws(g) \/ Reroutes(g)  BY <1>5 DEF Ages, Withdraws, Reroutes, Still
  <1> QED  BY <1>1, <1>2, <1>3, <1>4, <1>5 DEF Step, FetchStep

\* The refs that are noted.
LEMMA NoteIs ==
  ASSUME NEW copy \in SUBSET Refs, refs \in SUBSET Refs, Note(copy)
  PROVE  refs' \in SUBSET Refs /\ copy \subseteq refs' /\ (copy # {} => refs' = copy) /\ (copy = {} => refs' = refs)
  BY DEF Note

LEMMA RefsKeepTyped ==
  ASSUME AccessConstants, TokenCore, RefsTyped, AccessNext
  PROVE  RefsTyped'
  <1>0. Step /\ overlaps' = overlaps \cup Overlaps'  BY DEF AccessNext, Noted
  <1>1. overlaps' \in SUBSET {"tokens", "refs"}  BY <1>0 DEF RefsTyped, Overlaps
  <1>2. changes' \in 0..MaxChanges
    <2>1. changes' = changes \/ Changes
      BY <1>0 DEF Step, JoinStep, FetchStep, BeginClaim, BeginOpenJoin, BeginAppend, Begin, Challenge,
           GatewayAnswers, ClaimEnds, Bootstrapped, NotBootstrapped, Appended, BeginFetch, Routes, ResolveAccess,
           Renew, GatewayRenews, RenewEnds, GatewayServes, Fetched, NotFetched, Apply, NoteRefs, SaveProfile,
           SyncRefs, ReadRefs, NoteWriter, Ages, ProfileChanges, Withdraws, Reroutes
    <2> QED  BY <2>1 DEF Changes, RefsTyped, AccessConstants
  <1>3. own' \in {Void} \cup SUBSET Refs /\ refs' \in SUBSET Refs /\ noting' \in {Void} \cup SUBSET Refs
    <2>1. CASE Still  BY <2>1 DEF Still, refVars, RefsTyped
    <2>2. CASE ProfileChanges  BY <2>2 DEF ProfileChanges, RefsTyped
    <2>3. CASE ReadRefs
      <3>1. NewRef \in Refs  BY DEF AccessConstants
      <3> QED  BY <2>3, <3>1 DEF ReadRefs, RefsTyped
    <2>4. CASE NoteWriter
      <3>1. noting \in SUBSET Refs /\ Note(noting) /\ noting' \in {noting, Void} /\ own' = own
        BY <2>4 DEF NoteWriter, RefsTyped
      <3> QED  BY <3>1, NoteIs DEF RefsTyped
    <2>5. ASSUME NEW f \in FetchTasks, Apply(f) \/ NoteRefs(f) \/ SaveProfile(f) \/ SyncRefs(f)
          PROVE  own' \in {Void} \cup SUBSET Refs /\ refs' \in SUBSET Refs /\ noting' \in {Void} \cup SUBSET Refs
      <3>1. fetching[f].copy \in SUBSET Refs /\ refs \in SUBSET Refs  BY FetchTyped DEF RefsTyped
      <3>2. Note(fetching[f].copy) => refs' \in SUBSET Refs  BY <3>1, NoteIs
      <3> QED  BY <2>5, <3>1, <3>2 DEF Apply, NoteRefs, SaveProfile, SyncRefs, refVars, RefsTyped
    <2> QED  BY <1>0, <2>1, <2>2, <2>3, <2>4, <2>5, StillIs
  <1> QED  BY <1>1, <1>2, <1>3 DEF RefsTyped

LEMMA RefsKeep ==
  ASSUME AccessConstants, TokenCore, RefsTyped, Step, NotedInTurn, RefsAlone, RefsAlone'
  PROVE  NotedInTurn'
  <1>1. CASE Still  BY <1>1, StillKeeps
  <1>2. CASE ProfileChanges
    <2>1. fetching' = fetching /\ noting' = noting /\ refs' = refs /\ own' \in {{}, Void}  BY <1>2 DEF ProfileChanges
    <2>2. Noting' = Noting  BY <2>1 DEF Noting
    <2> QED  BY <2>1, <2>2 DEF NotedInTurn
  <1>3. CASE ReadRefs
    <2>1. /\ noting = Void /\ fetching' = fetching /\ own' = own /\ refs' = refs
          /\ noting' = {NewRef} \cup IF refs = {} /\ own # Void THEN own ELSE refs
      BY <1>3 DEF ReadRefs
    <2>2. noting' \in SUBSET Refs /\ noting' # {}  BY <2>1 DEF AccessConstants, RefsTyped
    <2>3. noting' # Void  BY <2>2, VoidIsNone
    <2>4. Noting' = {} /\ Noting = {}  BY <2>1, <2>3 DEF RefsAlone, Noting
    <2>5. own # Void => own \subseteq refs  BY <2>1, <2>4 DEF NotedInTurn
    <2> QED  BY <2>1, <2>2, <2>3, <2>4, <2>5 DEF NotedInTurn
  <1>4. CASE NoteWriter
    <2>1. noting # Void /\ Note(noting) /\ noting' \in {noting, Void} /\ fetching' = fetching /\ own' = own
      BY <1>4 DEF NoteWriter
    <2>2. Noting = {} /\ Noting' = {}  BY <2>1 DEF RefsAlone, Noting
    <2>3. noting # {} /\ (own # Void => own \subseteq noting)  BY <2>1 DEF NotedInTurn
    <2>4. refs' = noting  BY <2>1, <2>3 DEF Note
    <2> QED  BY <2>1, <2>2, <2>3, <2>4 DEF NotedInTurn
  <1>5. ASSUME NEW f \in FetchTasks, Apply(f) \/ NoteRefs(f) \/ SaveProfile(f) \/ SyncRefs(f)
        PROVE  NotedInTurn'
    <2>0. fetching[f].copy \in SUBSET Refs /\ refs \in SUBSET Refs  BY FetchTyped DEF RefsTyped
    <2>1. CASE Apply(f) /\ own = Void
      <3>1. Goes(f, NotFetching) /\ fetching[f].at = "apply" /\ UNCHANGED refVars  BY <2>1 DEF Apply, At
      <3>2. Still  BY <3>1, OneGoes, NoFetch DEF Still
      <3> QED  BY <3>2, StillKeeps
    <2>2. CASE Apply(f) /\ own # Void
      <3>1. PICK listed \in SUBSET Refs, saves \in BOOLEAN :
              Goes(f, [fetching[f] EXCEPT !.at = "note", !.copy = Merged(listed), !.saves = saves])
        BY <2>2 DEF Apply
      <3>2. UNCHANGED refVars  BY <2>2 DEF Apply
      <3> DEFINE c == Merged(listed)
      <3>3. own \subseteq c  BY DEF Merged
      <3>4. fetching'[f] = [fetching[f] EXCEPT !.at = "note", !.copy = c, !.saves = saves]  BY <3>1, OneGoes
      <3> HIDE DEF c
      <3>5. fetching'[f].at = "note" /\ fetching'[f].copy = c  BY <3>4, FetchTyped DEF FetchRecords
      <3>6. f \in Noting'  BY <3>5 DEF Noting
      <3>7. Noting' = {f} /\ noting' = Void  BY <3>6 DEF RefsAlone
      <3> QED  BY <3>2, <3>3, <3>5, <3>7 DEF NotedInTurn, refVars
    <2>3. CASE NoteRefs(f)
      <3>1. f \in Noting /\ fetching[f].at = "note"  BY <2>3 DEF NoteRefs, At, Noting
      <3>2. noting = Void /\ (own # Void => own \subseteq fetching[f].copy)  BY <3>1 DEF RefsAlone, NotedInTurn
      <3>3. PICK at \in {"save", "sync"} : Goes(f, [fetching[f] EXCEPT !.at = at])  BY <2>3 DEF NoteRefs
      <3>4. Note(fetching[f].copy) /\ own' = own /\ noting' = noting  BY <2>3 DEF NoteRefs
      <3>5. fetching'[f] = [fetching[f] EXCEPT !.at = at]  BY <3>3, OneGoes
      <3>6. fetching'[f].at \in {"save", "sync"} /\ fetching'[f].copy = fetching[f].copy
        BY <3>5, FetchTyped DEF FetchRecords
      <3>7. f \in Noting'  BY <3>6 DEF Noting
      <3>8. Noting' = {f}  BY <3>7 DEF RefsAlone
      <3>9. fetching[f].copy \subseteq refs' /\ (fetching[f].copy = {} \/ refs' = fetching[f].copy)
        BY <2>0, <3>4, NoteIs
      <3> QED  BY <3>2, <3>4, <3>6, <3>8, <3>9 DEF NotedInTurn
    <2>4. CASE SaveProfile(f)
      <3>1. f \in Noting /\ fetching[f].at = "save"  BY <2>4 DEF SaveProfile, At, Noting
      <3>2. /\ noting = Void /\ (own # Void => own \subseteq refs) /\ fetching[f].copy \subseteq refs
            /\ fetching[f].copy = {} \/ refs = fetching[f].copy
        BY <3>1 DEF RefsAlone, NotedInTurn
      <3>3. Goes(f, [fetching[f] EXCEPT !.at = "sync"]) /\ own' \in {own, fetching[f].copy} /\ refs' = refs /\ noting' = noting
        BY <2>4 DEF SaveProfile
      <3>4. fetching'[f] = [fetching[f] EXCEPT !.at = "sync"]  BY <3>3, OneGoes
      <3>5. fetching'[f].at = "sync" /\ fetching'[f].copy = fetching[f].copy
        BY <3>4, FetchTyped DEF FetchRecords
      <3>6. f \in Noting'  BY <3>5 DEF Noting
      <3>7. Noting' = {f}  BY <3>6 DEF RefsAlone
      <3> QED  BY <3>2, <3>3, <3>5, <3>7 DEF NotedInTurn
    <2>5. CASE SyncRefs(f)
      <3>1. f \in Noting /\ fetching[f].at = "sync"  BY <2>5 DEF SyncRefs, At, Noting
      <3>2. /\ noting = Void /\ (own # Void => own \subseteq refs) /\ Noting = {f}
            /\ fetching[f].copy = {} \/ refs = fetching[f].copy
        BY <3>1 DEF RefsAlone, NotedInTurn
      <3>3. Goes(f, NotFetching) /\ (Note(fetching[f].copy) \/ refs' = refs) /\ own' = own /\ noting' = noting
        BY <2>5 DEF SyncRefs
      <3>4. refs' = refs  BY <2>0, <3>2, <3>3, NoteIs
      <3>5. Noting' = {}  BY <3>2, <3>3, OneGoes, NoFetch DEF Noting
      <3> QED  BY <3>2, <3>3, <3>4, <3>5 DEF NotedInTurn
    <2> QED  BY <1>5, <2>1, <2>2, <2>3, <2>4, <2>5
  <1> QED  BY <1>1, <1>2, <1>3, <1>4, <1>5, StillIs

-----------------------------------------------------------------------------

LEMMA AccessStarts ==
  ASSUME AccessConstants, AccessInit
  PROVE  AccessInv
  <1>1. Void \notin Answers /\ Void # "revoked" /\ Void # "renewed"  BY DEF AccessConstants, Answers
  <1>2. HeldTyped
    <2>1. MaxTokens \in Nat /\ route \in {Void} \cup Gateways /\ Len(<<>>) = 0 /\ <<>> \in Seq(Gateways)
      BY DEF AccessConstants, AccessInit
    <2>2. joining \in [JoinTasks -> JoinRecords] /\ fetching \in [FetchTasks -> FetchRecords]
      BY NoJoin, NoFetch DEF AccessInit
    <2>3. inflight \in [Gateways -> {Void} \cup FetchTasks] /\ renewal \in [FetchTasks -> {Void} \cup RenewalRecords]
      BY DEF AccessInit
    <2>4. issued = <<>> /\ withdrawn = {} /\ held = Void /\ freshest = Void  BY DEF AccessInit
    <2>5. issued \in Seq(Gateways) /\ Len(issued) <= MaxTokens  BY <2>1, <2>4
    <2> QED  BY <2>1, <2>2, <2>3, <2>4, <2>5 DEF HeldTyped, HeldRecords, RenewalRecords, JoinRecords, FetchRecords
  <1>3. \A j \in JoinTasks : joining[j].at = "idle" /\ joining[j].token = Void  BY NoJoin DEF AccessInit
  <1>4. \A f \in FetchTasks : fetching[f].at = "idle" /\ fetching[f].token = Void /\ fetching[f].answer = Void
    BY NoFetch DEF AccessInit
  <1>5. (\A f \in FetchTasks : renewal[f] = Void) /\ (\A g \in Gateways : inflight[g] = Void)  BY DEF AccessInit
  <1>6. OfJoins  BY <1>3 DEF OfJoins
  <1>7. OfFetches  BY <1>1, <1>4 DEF OfFetches
  <1>8. OfRenewals  BY <1>5 DEF OfRenewals
  <1>9. Requesting = {} /\ WithToken = {} /\ Noting = {}  BY <1>3, <1>4 DEF Requesting, WithToken, Noting
  <1>10. RefsTyped  BY DEF RefsTyped, AccessInit, AccessConstants
  <1>11. Overlaps = {}
    <2>1. ~(Cardinality(Noting) + (IF noting = Void THEN 0 ELSE 1) > 1)
      BY <1>9, FS_EmptySet DEF AccessInit
    <2> QED  BY <1>9, <2>1 DEF Overlaps
  <1>12. InTurn  BY <1>5, <1>9 DEF InTurn, AccessInit
  <1>13. NotedInTurn  BY <1>9 DEF NotedInTurn, AccessInit
  <1> QED  BY <1>2, <1>6, <1>7, <1>8, <1>10, <1>11, <1>12, <1>13 DEF AccessInv, TokenCore

LEMMA AccessSteps ==
  ASSUME AccessConstants, AccessInv, AccessNext
  PROVE  AccessInv'
  <1>1. Step /\ overlaps' = overlaps \cup Overlaps'  BY DEF AccessNext, Noted
  <1>2. TokenCore /\ RefsTyped /\ Overlaps \subseteq overlaps  BY DEF AccessInv
  <1>3. TokenCore' /\ (InTurn /\ JoinAlone => InTurn')  BY <1>1, <1>2, TokensKeep
  <1>4. RefsTyped'  BY <1>2, RefsKeepTyped
  <1>5. Overlaps' \subseteq overlaps' /\ overlaps \subseteq overlaps'  BY <1>1
  <1>6. "tokens" \notin overlaps' => InTurn'  BY <1>2, <1>3, <1>5, NotOverlapped DEF AccessInv
  <1>7. "refs" \notin overlaps' => NotedInTurn'
    <2> SUFFICES ASSUME "refs" \notin overlaps'  PROVE NotedInTurn'
      OBVIOUS
    <2>1. NotedInTurn /\ RefsAlone  BY <1>2, <1>5, NotOverlapped DEF AccessInv
    <2>2. RefsAlone'  BY <1>5, NotOverlappedNext
    <2> QED  BY <1>1, <1>2, <2>1, <2>2, RefsKeep
  <1> QED  BY <1>3, <1>4, <1>5, <1>6, <1>7 DEF AccessInv

LEMMA AccessStutters ==
  ASSUME AccessInv, UNCHANGED accessVars
  PROVE  AccessInv'
  <1>1. UNCHANGED <<issued, withdrawn, held, freshest, inflight, renewal, joining, fetching, route, own,
                refs, noting, overlaps, changes>>  BY DEF accessVars
  <1>2. TokenCore'
    BY <1>1 DEF AccessInv, TokenCore, HeldTyped, OfJoins, OfFetches, OfRenewals, HeldRecords, RenewalRecords,
         JoinRecords, FetchRecords
  <1>3. Requesting' = Requesting /\ WithToken' = WithToken /\ Noting' = Noting /\ Newest' = Newest
    BY <1>1 DEF Requesting, WithToken, Noting, Newest
  <1>4. Overlaps' = Overlaps  BY <1>1, <1>3 DEF Overlaps
  <1>5. RefsTyped'  BY <1>1 DEF AccessInv, RefsTyped
  <1>6. InTurn => InTurn'  BY <1>1, <1>3 DEF InTurn
  <1>7. NotedInTurn => NotedInTurn'  BY <1>1, <1>3 DEF NotedInTurn
  <1> QED  BY <1>1, <1>2, <1>4, <1>5, <1>6, <1>7 DEF AccessInv

LEMMA AccessImplies ==
  ASSUME AccessConstants, AccessInv
  PROVE  AccessTypeOK /\ SentHome /\ NewestHeld /\ RefsNoted
  <1>1. SentHome  BY DEF AccessInv, TokenCore, OfFetches, OfRenewals, SentHome
  <1>2. NewestHeld  BY DEF AccessInv, InTurn, NewestHeld
  <1>3. RefsNoted  BY DEF AccessInv, NotedInTurn, RefsNoted
  <1>4. HeldTyped /\ RefsTyped  BY DEF AccessInv, TokenCore
  <1>5. held \in {Void} \cup [token : DOMAIN issued, due : BOOLEAN]
    BY <1>4 DEF HeldTyped, HeldRecords
  <1>6. \A f \in FetchTasks : renewal[f] # Void =>
          renewal[f].token \in DOMAIN issued /\ inflight[Key(renewal[f].gateway)] # Void
    <2> SUFFICES ASSUME NEW f \in FetchTasks, renewal[f] # Void
                 PROVE  renewal[f].token \in DOMAIN issued /\ inflight[renewal[f].gateway] # Void
      BY DEF Key
    <2>1. TokenCore /\ f # Void  BY VoidIsNone DEF AccessInv
    <2> QED  BY <2>1, RenewalHolds
  <1>7. AccessTypeOK  BY <1>4, <1>5, <1>6 DEF AccessTypeOK, HeldTyped, RefsTyped
  <1> QED  BY <1>1, <1>2, <1>3, <1>7

LEMMA AccessInvariance ==
  ASSUME AccessConstants
  PROVE  AccessSpec => []AccessInv
  <1>1. AccessInit => AccessInv  BY AccessStarts
  <1>2. AccessInv /\ [AccessNext]_accessVars => AccessInv'  BY AccessSteps, AccessStutters
  <1> QED  BY <1>1, <1>2, PTL DEF AccessSpec

(* Every variable has its type, always; a renewal is in flight for the        *)
(* gateway of its token (relayMemberAccessRefreshInflight).                   *)
THEOREM AccessTyped ==
  ASSUME AccessConstants
  PROVE  AccessSpec => []AccessTypeOK
  <1>1. AccessInv => AccessTypeOK  BY AccessImplies
  <1> QED  BY <1>1, AccessInvariance, PTL

(* However joins, fetches, renewals, revocations and the expiry of tokens     *)
(* overtake one another: a token goes to the gateway that issued it           *)
(* (accessMatchesGateway); the worker holds the newest that it was sent       *)
(* (storeRelayMemberAccessToken), unless that has expired, was revoked or the *)
(* requests overlapped; and the core refs of the profile are in the store of  *)
(* core refs (applyMirrorMetadataToProfile), unless two noted refs at once.   *)
THEOREM NewestIsHeld ==
  ASSUME AccessConstants
  PROVE  AccessSpec => [](SentHome /\ NewestHeld /\ RefsNoted)
  <1>1. AccessInv => SentHome /\ NewestHeld /\ RefsNoted  BY AccessImplies
  <1> QED  BY <1>1, AccessInvariance, PTL

(* Both together, of a worker with joins and with relays that have gateways:  *)
(* who holds a token or the refs of a relay holds the same as the others.     *)
THEOREM HoldersAgree ==
  ASSUME JoinsConstants
  PROVE  JoinsSpec => []AccessAgrees
  <1>1. JoinSpec => []TokensAgree  BY SameToken DEF JoinsConstants
  <1>2. AccessSpec => [](SentHome /\ NewestHeld /\ RefsNoted)  BY NewestIsHeld DEF JoinsConstants
  <1>3. TokensAgree /\ (SentHome /\ NewestHeld /\ RefsNoted) => AccessAgrees  BY DEF AccessAgrees
  <1> QED  BY <1>1, <1>2, <1>3, PTL DEF JoinsSpec

(* Media sessions, joins, access and stores share no variable: every variable *)
(* of a worker's services has its type.                                       *)
THEOREM WorkerTyped ==
  ASSUME WorkerConstants
  PROVE  WorkerSpec => []WorkerTypeOK
  <1>1. JoinsConstants /\ StoreConstants /\ JoinConstants /\ AccessConstants
    BY DEF WorkerConstants, JoinsConstants
  <1>2. JoinSpec => []JoinTypeOK  BY <1>1, TypeCorrect
  <1>3. AccessSpec => []AccessTypeOK  BY <1>1, AccessTyped
  <1>4. StoreSpec => []StoreTypeOK  BY <1>1, StoresTyped
  <1> QED
    BY <1>2, <1>3, <1>4, SessionTyped, PTL DEF WorkerSpec, JoinsSpec, WorkerTypeOK
=============================================================================
