----------------------------- MODULE ReplicaStores -----------------------------
(* The stores of what a worker knows about a relay: the route to its gateway, *)
(* the member's access token, discovery hints, replicas of leases and the     *)
(* references of its cores (src/relay-gateway-map-store.mjs,                  *)
(* relay-member-access-store.mjs, relay-discovery-store.mjs,                  *)
(* relay-lease-replica-store.mjs, relay-core-refs-store.mjs).  Each keeps an  *)
(* entry under each of the relay's names, merges what it is given into it,    *)
(* and writes a file some time later.  The life of the file is the same in    *)
(* the first four.                                                            *)
(*                                                                            *)
(* One relay and one of the stores.  Time is a small number, which stands for *)
(* milliseconds: two calls can come in the same one.  A read or write of the  *)
(* file ends before the flush timer fires again.                              *)
EXTENDS Naturals, FiniteSets, SequencesExt, Subsequences

CONSTANTS
  Absent,        \* null
  Values,        \* origins, ids, tokens, topics, peers and references
  Names,         \* relayKey and publicIdentifier, in the order asked for
  Given,         \* what callers can give to each store
  Ttl,           \* ENTRY_TTL_MS, PEER_HINT_TTL_MS, DISCOVERY_TOPIC_TTL_MS
  ProbeTtl,      \* CAPABILITY_TTL_MS
  MaxLeases,     \* MAX_LEASES_PER_RELAY
  MaxPeers,      \* MAX_PEER_HINTS, MAX_REPLICA_PEERS_PER_RELAY
  MaxCalls, MaxNow, MaxFailures   \* bounds on calls, time, failed writes and crashes

(* Entries.  A list of peers has none twice; an expiry or a time of 0 is none. *)
Maybe == Values \cup {Absent}
Leases == [id : Nat, issued : Nat, expires : Nat]
Lists == {s \in Seq(Values) : IsInjective(s) /\ Len(s) <= MaxPeers}
LeaseSets == {L \in SUBSET Leases : IsFiniteSet(L) /\ Cardinality(L) <= MaxLeases}
Entries == [
  routes |-> [origin : Maybe, id : Maybe, direct : BOOLEAN, at : Nat],
  access |-> [token : Values, expires : Nat, at : Nat],
  hints  |-> [topic : Maybe, topicAt : Nat, hosts : Lists, hintsAt : Nat, probe : Nat],
  leases |-> [leases : LeaseSets, peers : Lists],
  cores  |-> Seq(Values)]

(* A probe is given by itself, a lease with a peer, a peer also without one.  *)
StoreConstants ==
  /\ DOMAIN Names = {1, 2} /\ Names[1] # Names[2]
  /\ {Ttl, ProbeTtl, MaxCalls, MaxNow, MaxFailures} \subseteq Nat
  /\ {MaxLeases, MaxPeers} \subseteq Nat \ {0}
  /\ DOMAIN Given = DOMAIN Entries
  /\ Given.routes \subseteq [origin : Maybe, id : Maybe, direct : BOOLEAN]
  /\ Given.access \subseteq [token : Values, expires : Nat]
  /\ Given.hints \subseteq [topic : Maybe, hosts : Seq(Values), probe : BOOLEAN]
  /\ \A v \in Given.hints : v.probe => v.topic = Absent /\ v.hosts = <<>>
  /\ Given.leases \subseteq [lease : Leases \cup {Absent}, peer : Values]
  /\ Given.cores \subseteq Seq(Values)
  /\ Absent \notin Leases /\ \A s \in DOMAIN Entries : Absent \notin Entries[s]

VARIABLES
  store,
  loaded,     \* no, reading (set, but the file is not read yet), yes
  first,      \* the call that waits for the file
  entries,    \* the map of the store, by name
  cached,     \* relayMirrorCoreRefsCache
  dirty,
  flushTimer, \* is set
  inWrite,    \* the contents fs.writeFile is writing, at most one
  onDisk,     \* the contents of the file
  calls,
  now,
  given,      \* what was given under each name and not removed, with its time
  overlaid,   \* names changed while the file was read, which then replaced them
  missed,     \* core references that came while the file was written
  writeFailed, \* the last write of the file failed
  failures

storeVars == <<store, loaded, first, entries, cached, dirty, flushTimer, inWrite, onDisk, calls, now,
               given, overlaid, missed, writeFailed, failures>>

AllNames == Range(Names)
NoEntries == [n \in AllNames |-> Absent]
NoneGiven == [n \in AllNames |-> <<>>]
EmptyFile == [data |-> NoEntries, given |-> NoneGiven]
NoCall == [op |-> "none", names |-> {}, value |-> Absent, at |-> 0]

Or(a, b) == IF a # Absent THEN a ELSE b
Later(a, b) == IF a >= b THEN a ELSE b

(* normalizePeerList: each peer once, the first of them.                      *)
Listed(s) ==
  LET all == Distinct(s) IN SubSeq(all, 1, IF Len(all) < MaxPeers THEN Len(all) ELSE MaxPeers)

-----------------------------------------------------------------------------
(* Merging and pruning an entry, store by store.                              *)

(* Variant: the gateway that is known is kept.                                *)
KeepOriginVariant(a, b, t) ==
  LET newer == IF a.at >= b.at THEN a ELSE b
      older == IF a.at >= b.at THEN b ELSE a
  IN [origin |-> Or(older.origin, newer.origin), id |-> Or(newer.id, older.id),
      direct |-> newer.direct, at |-> Later(Later(a.at, b.at), t)]

(* Of two routes the newer wins, the first one if they are equally old; what  *)
(* it does not say is taken from the other.                                   *)
MergeRoute(a, b, t) ==
  LET newer == IF a.at >= b.at THEN a ELSE b
      older == IF a.at >= b.at THEN b ELSE a
  IN [origin |-> Or(newer.origin, older.origin), id |-> Or(newer.id, older.id),
      direct |-> newer.direct, at |-> Later(Later(a.at, b.at), t)]

PruneRoute(e, t) == IF t > e.at + Ttl THEN Absent ELSE e

(* A token may come without an expiry, and then has the older one's.          *)
MergeAccess(a, b, t) ==
  LET newer == IF a.at >= b.at THEN a ELSE b
      older == IF a.at >= b.at THEN b ELSE a
  IN [token |-> newer.token, expires |-> IF newer.expires # 0 THEN newer.expires ELSE older.expires,
      at |-> Later(Later(a.at, b.at), t)]

(* Variant: what has expired is kept.                                         *)
KeepExpiredVariant(e, t) == IF t > e.at + Ttl THEN Absent ELSE e

PruneAccess(e, t) ==
  IF (e.expires # 0 /\ e.expires <= t) \/ t > e.at + Ttl THEN Absent ELSE e

NoHints == [topic |-> Absent, topicAt |-> 0, hosts |-> <<>>, hintsAt |-> 0, probe |-> 0]

(* Peers that are listed stay first: a full list takes no new one.            *)
MergeHints(a, b, t) ==
  [topic |-> IF b.topicAt >= a.topicAt THEN b.topic ELSE a.topic,
   topicAt |-> Later(a.topicAt, b.topicAt),
   hosts |-> Listed(a.hosts \o b.hosts),
   hintsAt |-> Later(a.hintsAt, b.hintsAt),
   probe |-> IF b.probe # 0 THEN b.probe ELSE a.probe]

(* Variant: the hints expire with the topic.                                  *)
TopicTtlVariant(e, t) ==
  LET old == t > e.topicAt + Ttl IN
  LET f == [topic |-> IF old THEN Absent ELSE e.topic, topicAt |-> IF old THEN 0 ELSE e.topicAt,
            hosts |-> IF old THEN <<>> ELSE e.hosts, hintsAt |-> IF old THEN 0 ELSE e.hintsAt,
            probe |-> IF t > e.probe + ProbeTtl THEN 0 ELSE e.probe]
  IN IF f.topic = Absent /\ f.hosts = <<>> /\ f.probe = 0 THEN Absent ELSE f

PruneHints(e, t) ==
  LET topicOld == t > e.topicAt + Ttl
      hintsOld == t > e.hintsAt + Ttl
      f == [topic |-> IF topicOld THEN Absent ELSE e.topic, topicAt |-> IF topicOld THEN 0 ELSE e.topicAt,
            hosts |-> IF hintsOld THEN <<>> ELSE e.hosts, hintsAt |-> IF hintsOld THEN 0 ELSE e.hintsAt,
            probe |-> IF t > e.probe + ProbeTtl THEN 0 ELSE e.probe]
  IN IF f.topic = Absent /\ f.hosts = <<>> /\ f.probe = 0 THEN Absent ELSE f

(* Of the leases those that live longest are kept.                            *)
Outlives(l, m) ==
  \/ l.expires > m.expires
  \/ l.expires = m.expires /\ l.issued > m.issued
  \/ l.expires = m.expires /\ l.issued = m.issued /\ l.id < m.id

(* Variant: those that live shortest are kept.                                *)
ShortestVariant(S) == {l \in S : Cardinality({m \in S : Outlives(l, m)}) < MaxLeases}
Longest(S) == {l \in S : Cardinality({m \in S : Outlives(m, l)}) < MaxLeases}

NoLeases == [leases |-> {}, peers |-> <<>>]

PruneLeases(e, t) ==
  LET f == [leases |-> Longest({l \in e.leases : l.expires > t}), peers |-> e.peers] IN
  IF f = NoLeases THEN Absent ELSE f

MergeLeases(a, b, t) ==
  [leases |-> Longest({l \in a.leases \cup b.leases : l.expires > t}),
   peers |-> Listed(a.peers \o b.peers)]

Prune(s, e, t) ==
  IF e = Absent THEN Absent
  ELSE CASE s = "routes" -> PruneRoute(e, t)
         [] s = "access" -> PruneAccess(e, t)
         [] s = "hints"  -> PruneHints(e, t)
         [] s = "leases" -> PruneLeases(e, t)
         [] s = "cores"  -> e

Merge(s, a, b, t) ==
  IF a = Absent THEN b ELSE IF b = Absent THEN a
  ELSE CASE s = "routes" -> MergeRoute(a, b, t)
         [] s = "access" -> MergeAccess(a, b, t)
         [] s = "hints"  -> MergeHints(a, b, t)
         [] s = "leases" -> MergeLeases(a, b, t)
         [] s = "cores"  -> Distinct(a \o b)

-----------------------------------------------------------------------------
(* The calls.                                                                 *)

StoreInit ==
  /\ store \in DOMAIN Given
  /\ loaded = "no" /\ first = NoCall /\ entries = NoEntries /\ cached = NoEntries
  /\ dirty = FALSE /\ flushTimer = FALSE /\ inWrite = {} /\ onDisk = EmptyFile
  /\ calls = 0 /\ now = 1 /\ given = NoneGiven
  /\ overlaid = {} /\ missed = FALSE /\ writeFailed = FALSE /\ failures = 0

(* Variant: the timer is not set.                                             *)
NoTimerVariant == dirty' = TRUE /\ UNCHANGED flushTimer
Touch == dirty' = TRUE /\ flushTimer' = TRUE

(* The names asked for, merged in their order.                                *)
Read(m, names) ==
  LET one(n) == IF n \in names THEN Prune(store, m[n], now) ELSE Absent
  IN Merge(store, one(Names[1]), one(Names[2]), now)

(* What an upsert at t makes of the entry e of a name.  A token is timed when *)
(* it is merged, the rest when it was given.                                  *)
GiveRoute(e, c) ==
  LET f == [origin |-> c.value.origin, id |-> c.value.id, direct |-> c.value.direct, at |-> c.at]
  IN Merge("routes", e, f, c.at)

GiveAccess(e, c, t) ==
  Merge("access", e, [token |-> c.value.token, expires |-> c.value.expires, at |-> t], t)

(* Variant: hints without a topic clear it.                                   *)
ClearTopicVariant(e, c) ==
  LET v == c.value IN
  Merge("hints", e, [topic |-> v.topic, topicAt |-> c.at, hosts |-> Listed(v.hosts),
                     hintsAt |-> IF v.hosts # <<>> THEN c.at ELSE 0, probe |-> 0], c.at)

GiveHints(e, c) ==
  LET v == c.value IN
  Merge("hints", e, [topic |-> v.topic, topicAt |-> IF v.topic # Absent THEN c.at ELSE 0,
                     hosts |-> Listed(v.hosts), hintsAt |-> IF v.hosts # <<>> THEN c.at ELSE 0,
                     probe |-> 0], c.at)

GiveProbe(e, c) ==
  LET f == [Or(e, NoHints) EXCEPT !.probe = c.at] IN Or(PruneHints(f, c.at), f)

(* A lease that has expired is not taken; its peers are listed all the same.  *)
GiveLease(e, c) ==
  MergeLeases(Or(e, NoLeases), [leases |-> {c.value.lease}, peers |-> <<c.value.peer>>], c.at)

GivePeer(e, c) ==
  LET f == Or(e, NoLeases) IN
  [f EXCEPT !.peers = Listed(Append(@, c.value.peer))]

Give(s, e, c, t) ==
  CASE s = "routes" -> GiveRoute(e, c)
    [] s = "access" -> GiveAccess(e, c, t)
    [] s = "hints"  -> IF c.value.probe THEN GiveProbe(e, c) ELSE GiveHints(e, c)
    [] s = "leases" -> IF c.value.lease = Absent THEN GivePeer(e, c) ELSE GiveLease(e, c)

Put(c, m) ==
  LET p == [value |-> c.value, at |-> IF store = "access" THEN now ELSE c.at] IN
  /\ entries' = [n \in AllNames |-> IF n \in c.names THEN Give(store, m[n], c, now) ELSE m[n]]
  /\ given' = [n \in AllNames |-> IF n \in c.names THEN Append(given[n], p) ELSE given[n]]
  /\ Touch /\ UNCHANGED missed

(* removeRelayGatewayRoute, removeRelayMemberAccess: the names given.         *)
Drop(c, m) ==
  /\ entries' = [n \in AllNames |-> IF n \in c.names THEN Absent ELSE m[n]]
  /\ given' = [n \in AllNames |-> IF n \in c.names THEN <<>> ELSE given[n]]
  /\ IF \E n \in c.names : m[n] # Absent THEN Touch ELSE UNCHANGED <<dirty, flushTimer>>
  /\ UNCHANGED missed

(* A read prunes the entries it meets, and does not save that.  Expired hints *)
(* and leases stay where they are.                                            *)
Pruned(s, e, t) ==
  IF s \in {"hints", "leases"} THEN Or(Prune(s, e, t), e) ELSE Prune(s, e, t)

Get(c, m) ==
  /\ entries' = [n \in AllNames |-> IF n \in c.names THEN Pruned(store, m[n], now) ELSE m[n]]
  /\ UNCHANGED <<given, dirty, flushTimer, missed>>

PruneAll(m) ==
  /\ entries' = [n \in AllNames |-> Prune(store, m[n], now)]
  /\ IF entries' # m \/ (store = "access" /\ m # NoEntries)
       THEN Touch
       ELSE UNCHANGED <<dirty, flushTimer>>
  /\ UNCHANGED <<given, missed>>

(* updateRelayMirrorCoreRefs: the list replaces the one under each name.      *)
UpdateRefs(names, refs, m) ==
  /\ entries' = [n \in AllNames |-> IF n \in names THEN refs ELSE m[n]]
  /\ given' = [n \in AllNames |-> IF n \in names THEN <<[value |-> refs, at |-> now]>> ELSE given[n]]
  /\ IF entries' # m
       THEN Touch /\ missed' = (missed \/ inWrite # {})
       ELSE UNCHANGED <<dirty, flushTimer, missed>>

(* resolveRelayMirrorCoreRefs, by both names: what the file had, then what is *)
(* known under the relay's key.                                               *)
ResolveRefs(m, file) ==
  LET refs == Merge(store, Read(file, AllNames), m[Names[1]], now) IN
  IF refs = Absent
    THEN entries' = m /\ UNCHANGED <<given, dirty, flushTimer, missed>>
    ELSE UpdateRefs(AllNames, refs, m)

(* The part of a call after the file was read, on the map m.                  *)
Do(c, m, file) ==
  CASE c.op = "put" -> IF store = "cores" THEN UpdateRefs(c.names, c.value, m) ELSE Put(c, m)
    [] c.op = "drop" -> Drop(c, m)
    [] c.op = "get" -> IF store = "cores" THEN ResolveRefs(m, file) ELSE Get(c, m)
    [] c.op = "prune" -> PruneAll(m)
    [] c.op = "persist" -> entries' = m /\ UNCHANGED <<given, dirty, flushTimer, missed>>

(* A call; the first one reads the file, and others do not wait for that.     *)
(* updateRelayMirrorCoreRefs does not need the file.                          *)
Call(c) ==
  /\ calls < MaxCalls /\ calls' = calls + 1
  /\ IF loaded = "no" /\ ~(store = "cores" /\ c.op = "put")
       THEN /\ loaded' = "reading" /\ first' = c
            /\ UNCHANGED <<entries, given, dirty, flushTimer, missed>>
       ELSE Do(c, entries, cached) /\ UNCHANGED <<loaded, first>>
  /\ overlaid' = IF loaded = "reading" /\ c.op = "drop" THEN overlaid \cup c.names ELSE overlaid
  /\ UNCHANGED <<store, cached, inWrite, onDisk, now, writeFailed, failures>>

(* Variant: the file replaces the references of cores too.                    *)
ReplaceRefsVariant(n) ==
  LET e == Prune(store, onDisk.data[n], now) IN IF e = Absent THEN entries[n] ELSE e

(* The file's entries replace what came while it was read; the references of  *)
(* cores are merged with it.                                                  *)
FromFile(n) ==
  LET e == Prune(store, onDisk.data[n], now) IN
  IF e = Absent THEN entries[n]
  ELSE IF store = "cores" THEN Merge(store, entries[n], e, now)
  ELSE e

Load ==
  /\ loaded = "reading"
  /\ loaded' = "yes" /\ first' = NoCall
  /\ cached' = IF store = "cores" THEN onDisk.data ELSE cached
  /\ overlaid' = overlaid \cup
       {n \in AllNames : store # "cores" /\ entries[n] # Absent /\ Prune(store, onDisk.data[n], now) # Absent}
  /\ Do(first, [n \in AllNames |-> FromFile(n)], onDisk.data)
  /\ UNCHANGED <<store, inWrite, onDisk, calls, now, writeFailed, failures>>

-----------------------------------------------------------------------------
(* The file, time and crashes.                                                *)

(* The timer of the first four stores.                                        *)
Flush ==
  /\ store # "cores"
  /\ flushTimer /\ inWrite = {} /\ loaded # "reading"
  /\ flushTimer' = FALSE
  /\ dirty' = FALSE
  /\ IF dirty
       THEN /\ entries' = [n \in AllNames |-> Prune(store, entries[n], now)]
            /\ inWrite' = {[data |-> entries', given |-> given]}
       ELSE UNCHANGED <<entries, inWrite>>
  /\ UNCHANGED <<store, loaded, first, cached, onDisk, calls, now, given, overlaid, missed, writeFailed, failures>>

(* The references of cores read their file first, and stay dirty until it is  *)
(* written.                                                                   *)
Persist ==
  /\ store = "cores"
  /\ flushTimer /\ inWrite = {} /\ loaded # "reading"
  /\ IF loaded = "no"
       THEN loaded' = "reading" /\ first' = [NoCall EXCEPT !.op = "persist"] /\ UNCHANGED <<flushTimer, inWrite>>
       ELSE /\ flushTimer' = FALSE
            /\ inWrite' = IF dirty THEN {[data |-> entries, given |-> given]} ELSE {}
            /\ UNCHANGED <<loaded, first>>
  /\ UNCHANGED <<store, entries, cached, dirty, onDisk, calls, now, given, overlaid, missed, writeFailed, failures>>

Written ==
  /\ inWrite # {}
  /\ inWrite' = {} /\ onDisk' \in inWrite /\ writeFailed' = FALSE
  /\ IF store = "cores"
       THEN dirty' = FALSE /\ cached' = onDisk'.data
       ELSE UNCHANGED <<dirty, cached>>
  /\ UNCHANGED <<store, loaded, first, entries, flushTimer, calls, now, given, overlaid, missed, failures>>

(* The file is as it was, or cut and not readable as JSON.                    *)
WriteFails ==
  /\ inWrite # {}
  /\ failures < MaxFailures /\ failures' = failures + 1
  /\ inWrite' = {} /\ writeFailed' = TRUE
  /\ onDisk' \in {onDisk, EmptyFile}
  /\ UNCHANGED <<store, loaded, first, entries, cached, dirty, flushTimer, calls, now, given, overlaid, missed>>

Tick ==
  /\ now < MaxNow /\ store # "cores"
  /\ now' = now + 1
  /\ UNCHANGED <<store, loaded, first, entries, cached, dirty, flushTimer, inWrite, onDisk, calls, given,
                 overlaid, missed, writeFailed, failures>>

(* The worker stops and starts again; a write under way is done, not begun or *)
(* cut.                                                                       *)
Reopen ==
  /\ failures < MaxFailures /\ failures' = failures + 1
  /\ loaded' = "no" /\ first' = NoCall /\ entries' = NoEntries /\ cached' = NoEntries
  /\ dirty' = FALSE /\ flushTimer' = FALSE /\ inWrite' = {} /\ missed' = FALSE /\ writeFailed' = FALSE
  /\ onDisk' \in {onDisk} \cup (IF inWrite = {} THEN {} ELSE inWrite \cup {EmptyFile})
  /\ given' = onDisk'.given
  /\ UNCHANGED <<store, calls, now, overlaid>>

Calls ==
  LET all == {AllNames, {Names[1]}} IN
  [op : {"put"}, names : all, value : Given[store], at : {now}]
    \cup (IF store \in {"routes", "access"} THEN [op : {"drop"}, names : all, value : {Absent}, at : {now}] ELSE {})
    \cup [op : {"get"}, names : {AllNames}, value : {Absent}, at : {now}]
    \cup (IF store = "cores" THEN {} ELSE {[op |-> "prune", names |-> {}, value |-> Absent, at |-> now]})

StoreNext ==
  \/ \E c \in Calls : Call(c)
  \/ Load \/ Flush \/ Persist \/ Written \/ WriteFails \/ Tick \/ Reopen

StoreSpec == StoreInit /\ [][StoreNext]_storeVars

-----------------------------------------------------------------------------

Held == Entries[store] \cup {Absent}
Gifts == [value : IF store = "cores" THEN Entries.cores ELSE Given[store], at : Nat]
Files == [data : [AllNames -> Held], given : [AllNames -> Seq(Gifts)]]

(* Every variable has its type: an entry has as many leases and peers as it   *)
(* may, no call waits for a file that is not being read, and there is one     *)
(* write at a time.                                                           *)
StoreTypeOK ==
  /\ store \in DOMAIN Given /\ loaded \in {"no", "reading", "yes"}
  /\ first \in [op : {"none", "put", "drop", "get", "prune", "persist"}, names : SUBSET AllNames,
               value : Given[store] \cup {Absent}, at : 0..now]
  /\ (first.op # "none" <=> loaded = "reading") /\ (first.op = "put" => first.value \in Given[store])
  /\ entries \in [AllNames -> Held] /\ cached \in [AllNames -> Held]
  /\ given \in [AllNames -> Seq(Gifts)] /\ onDisk \in Files
  /\ inWrite \subseteq Files /\ IsFiniteSet(inWrite) /\ Cardinality(inWrite) <= 1
  /\ (inWrite # {} => loaded = "yes")
  /\ dirty \in BOOLEAN /\ flushTimer \in BOOLEAN /\ missed \in BOOLEAN /\ writeFailed \in BOOLEAN
  /\ overlaid \subseteq AllNames
  /\ calls \in 0..MaxCalls /\ now \in Nat \ {0} /\ failures \in 0..MaxFailures

Puts(names) == UNION {ToSet(given[n]) : n \in names}
Fresh(p) == p.at + Ttl >= now
LastProbe(g, k) == g[k].value.probe /\ \A j \in (k + 1)..Len(g) : ~g[j].value.probe
NewestOf(S) == {p \in S : \A q \in S : q # p => q.at < p.at}

(* A route, token or topic that is read under some names is the one given     *)
(* last under one of them, unless two were given in one millisecond or it has *)
(* expired; a token is never read after its expiry; a probe is the last one.  *)
NewestRead(names) ==
  LET e == Read(entries, names) IN
  CASE store = "routes" ->
         \A p \in NewestOf(Puts(names)) : Fresh(p) =>
           /\ e # Absent /\ e.direct = p.value.direct
           /\ p.value.origin # Absent => e.origin = p.value.origin
           /\ p.value.id # Absent => e.id = p.value.id
    [] store = "access" ->
         /\ \A p \in NewestOf(Puts(names)) :
              Fresh(p) /\ p.value.expires > now => e # Absent /\ e.token = p.value.token
         /\ e # Absent => \E p \in Puts(names) :
              p.value.token = e.token /\ (p.value.expires = 0 \/ p.value.expires > now)
    [] store = "hints" ->
         /\ \A p \in NewestOf({q \in Puts(names) : q.value.topic # Absent}) :
              Fresh(p) => e # Absent /\ e.topic = p.value.topic
         /\ \A n \in names : names = {n} => \A k \in DOMAIN given[n] :
              LET p == given[n][k] IN
              LastProbe(given[n], k) /\ p.at + ProbeTtl >= now => e # Absent /\ e.probe = p.at
    [] OTHER -> TRUE

(* A peer that was given while its kind is fresh is listed, unless the list   *)
(* is full; of the leases that live, those that live longest are kept; the    *)
(* references of a core stay until others are given.                          *)
NothingCrowdedOut(names) ==
  LET e == Read(entries, names) IN
  CASE store = "hints" ->
         \A p \in Puts(names) : Fresh(p) /\ p.value.hosts # <<>> =>
           e # Absent /\ (ToSet(p.value.hosts) \subseteq ToSet(e.hosts) \/ Len(e.hosts) = MaxPeers)
    [] store = "leases" ->
         \A p \in Puts(names) :
           /\ e # Absent /\ (p.value.peer \in ToSet(e.peers) \/ Len(e.peers) = MaxPeers)
           /\ p.value.lease # Absent => LET l == p.value.lease IN
                l.expires <= now \/ l \in e.leases
                \/ Cardinality({m \in e.leases : Outlives(m, l)}) >= MaxLeases
    [] store = "cores" ->
         \A p \in Puts(names) : e # Absent /\ ToSet(p.value) \subseteq ToSet(e)
    [] OTHER -> TRUE

(* What a store was given is what it answers, by whichever names, after       *)
(* merges, pruning, a flush and a restart, except under names that changed    *)
(* while the file was read, which then replaced them.                         *)
StoresAnswer ==
  loaded = "yes" => \A names \in SUBSET (AllNames \ overlaid) : NewestRead(names) /\ NothingCrowdedOut(names)

(* When no flush is pending or under way and the last one did not fail, the   *)
(* file holds what the store does.  The references of cores are taken for     *)
(* written when they came while an earlier state was: that is excepted.       *)
StoresDurable ==
  loaded = "yes" /\ ~flushTimer /\ inWrite = {} /\ ~writeFailed /\ ~missed =>
    \A n \in AllNames : Prune(store, onDisk.data[n], now) = Prune(store, entries[n], now)

(* The stores of a relay keep what they were given, and the file follows.     *)
StoresKeep == StoresAnswer /\ StoresDurable
=============================================================================
