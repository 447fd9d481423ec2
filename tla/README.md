# Verification of hyperpipe-core

TLA+ specifications of the Hyperpipe runtime engine, model-checked with TLC and, for the
modules named in section 5, proved with TLAPS. Paths and line numbers refer to the source tree `src/`.

1. [The system](#1-the-system)
2. [Modules](#2-modules)
3. [Runs, bounds, results](#3-runs-bounds-results)
4. [Fairness](#4-fairness)
5. [What is proved](#5-what-is-proved)
6. [Disagreements with comments and tests](#6-disagreements-with-comments-and-tests)
7. [What is not modelled](#7-what-is-not-modelled)
8. [Plan](#8-plan)

## 1. The system

hyperpipe-core is a worker process. It hosts *relays* (Nostr event stores over Autobase), connects
to *peers* and *gateways* over Hyperswarm, and serves a desktop application over a pipe. It is one
JavaScript event loop: every function runs without interruption up to its next `await`, and what
goes wrong goes wrong at awaits, in callbacks, between processes, and across crashes.

| Component | State it keeps | Operations | Talks to |
|---|---|---|---|
| Event processor (`hyperpipe-relay-event-processor.mjs`) | Autobase view: events and their index entries, subscription snapshots by connection and by client; two buffers for writes without a writer; promise queues by connection | publish event, REQ, CLOSE, poll, query, flush | relay server, adapter |
| Relay server (`relay-server.mjs`), challenges (`challenge-manager.mjs`) | locks of join attempts, one challenge per key, connected peers, gateway connections by key, origin and id, queues of pending registrations, the connection a client last used, queues by client, pending waits for peers | handlers of the relay protocol (REQ, CLOSE, poll, refresh, join, authorisation), registration, keepalive, waits, join flow | relay protocol, event processor, profiles, worker |
| Relay protocol (`relay-protocol.mjs`) | requests in flight by id, timers, handlers | request, health check, telemetry, WebSocket frames, close | Protomux channel (external) |
| Profile manager (`hyperpipe-relay-profile-manager.mjs`), token store (`relay-auth-store.mjs`) | `relay-profiles.json` under a mutex; tokens in memory | read, save, remove profile; token and member updates | relay server, adapter, worker |
| Worker (`index.js`) | writer pools and their cache file, queues of pending writers, mirrors, gateways, commands in progress | about 150 commands of the application | everything |
| Relay manager and adapter (`hyperpipe-relay-manager.mjs`, `...-adapter.mjs`) | a file lock, active relays, Autobase and Hyperswarm handles | create, join, connect, disconnect, leave | event processor, profiles |
| Gateway service and clients (`gateway/`) | peers and their health, registrations and tokens at public gateways, leases, sessions, discovered gateways | start, stop, register, refresh, claim, discover | relay server, worker |
| Media (`media/`) | sessions, participants, subscriptions to signalling relays, recordings | join, leave, signal, record | public relays |
| Marmot (`marmot-service.mjs`) | encrypted conversations, invitations, subscriptions | create, invite, accept, send | public relays, MLS library |
| Blind peering, drives, mirrors | mirrored cores, drives, watchers | mirror, refresh, sync | external libraries |
| Replica stores (`relay-*-store.mjs`) | versioned entries with a file each | upsert, merge, prune, flush | worker, relay server |
| Helpers, logging, plugins, fixtures | none or files | parsing, cryptography, download | |

What makes the system hard:

* **Read, await, write.** Most handlers read a snapshot, a profile or a pool, await something, and
  write back what they read, changed. Other handlers do the same to the same value.
* **Queues and locks made of promises.** Writes are ordered by chains of promises keyed by
  connection or client; the profile file has a mutex; a pool has a per-relay lock.
* **Waiters.** Requests, waits for a peer and buffered writes are settled by an event that may
  never come, may come twice, or races with a timeout.
* **Connections.** Peers and gateways come and go while operations that need them are in progress.
* **Crashes.** Caches are written to files some time after they change.

What each modelled component should guarantee is said with its module below; the hazards behind the
properties, each at its line, are in `PROJECT.json`.

## 2. Modules

Each part has a module. A *composition* module EXTENDS parts that share no variable: its
specification is the conjunction of theirs, its constants satisfy the assumptions of each, and it
states together what the parts promise alike. The `MC...` modules instantiate them for TLC:

| MC module | Composition | Parts |
|---|---|---|
| `MCRelaySubscriptions` | | RelaySubscriptions |
| `MCEventProcessor` | `EventServices` | RelayPendingWrites, RelayReplay, MarmotThreads, MarmotInvites, BlindPeering |
| `MCConnections` | `RelayConnections` | RelayProtocol, PeerConnections, GatewayRegistration, JoinPaths |
| `MCGateway` | `GatewayService` | WriterPool, GatewaySockets, GatewayTokens, GatewayDiscovery |
| `MCRelayProfiles` | `RelayTable` | RelayProfiles, ActiveRelays, WriterQueue |
| `MCWorker` | `WorkerServices` | MediaSessions, `JoinServices` (JoinFlow, RelayAccess), ReplicaStores |

In an MC module a variable (`part` or `scene`) is chosen at first and says which part, and which
corner of it, a behaviour is about; it never changes and the other parts stand still. As the parts
share nothing, one run checks them all. The joint properties:

| Property | Conjuncts |
|---|---|
| `BuffersKeep`, `AnswersAreExact` | RelayPendingWrites `BuffersKeep` (`Accounted`, `NeverStranded`); RelayReplay `PollIsComplete`, `SingleFilterOnce` |
| `ThreadsKeep`, `InvitesKeep`, `MirrorsKeep`, `MirrorsSettle` | what MarmotThreads, MarmotInvites and BlindPeering promise |
| `TablesAreExact` | RelayProtocol `OwnAnswer`, `MapIsExact`; PeerConnections `PendingIsExact`, `GatewayIsLive`, `TracksPeer` |
| `RelaysKept` | GatewayRegistration `HeldOnce`, `OnlyUnroutedLost`; JoinPaths `Followed`, `TokensAgree` |
| `NothingHangs` | RelayProtocol `OpenCallsSettle`; PeerConnections `WaitEnded`, `KeepAliveStopped`; GatewayRegistration `ProcessorEnded`; JoinPaths `Rests` |
| `PoolKept` | WriterPool `LockIsExact`, `SharedOnlyIfExposed`, `Accounted`, `Durable` |
| `GatewayKept` | GatewaySockets `RequestsKept`; GatewayTokens `TokensKept`; GatewayDiscovery `SecretsVerified` |
| `Comes` | WriterPool `Answered`; GatewaySockets `PendingEnds`; GatewayTokens `TokensEnd`; GatewayDiscovery `SecretComes` |
| `LatestKept` | RelayProfiles `MembersAreLatest`, `TokensAreLatest` |
| `RelaysTracked` | ActiveRelays `DirectoryLocked`, `NoManagerLost` |
| `RelaysAgree` | ActiveRelays `TableAgrees`; WriterQueue `SyncedIsWritten`, `QueuedIsKept`, `QueueIsServed` |
| `Ends` | RelayProfiles `JobsEnd`; WriterQueue `QueueServed` |
| `AccessAgrees` | JoinFlow `TokensAgree`; RelayAccess `SentHome`, `NewestHeld`, `RefsNoted` |
| `StoresKeep` | ReplicaStores `StoresAnswer`, `StoresDurable` |

A definition named `...Variant` is a
mutated form of the definition that follows it, as a plausible mistake in the code would leave it.
Variants are not part of any model: they document that the properties tell the code from the
mistake (substituting one makes the property named in `PROJECT.json` fail).

### RelaySubscriptions (core): stored subscriptions

A *snapshot* maps subscription ids to a filter and a cursor, the `created_at` of the newest event
returned. `conn` and `client` are the snapshots in the view under the connection key and under
`client:<id>`; `connOf` is `relayClientConnections`; `connQ` and `clientQ` are the two promise
queues; `job` is what each request in progress carries. Actions, one per stretch of code between
awaits: a REQ (`ReqStart`, `ReqTask`), a CLOSE, a poll with its rehydration from the client's
snapshot (`PollStart`, the merge, `QuerySub`, `PollStore`), the refresh of cursors, the client
snapshot update that REQ, CLOSE and poll share, failing appends, and the arrival of events.

Guarantees: a stored cursor never passes an event that matches the filter and was not put into a
response (`NoGap`); only a new REQ moves a stored cursor back (`CursorMonotone`); no handler with an older
copy removes a subscription another one committed (`NoLostSubscription`); the handlers, which wait
in one queue while they hold another, are never all waiting for each other (`NeverStuck`).

Two things the code does were met while modelling and are no property: a CLOSE, or a REQ with new
filters, that commits between a poll's read of the client's snapshot and its merge is undone by the
merge (in the hazards).

### RelayReplay: one poll of several filters

The query inside a poll, in detail: a filter becomes groups of index range queries, read one after
the other while events arrive; groups are intersected, limited, and the cursor moves to the last
event. Guarantees: whatever is published meanwhile, a poll returns each event that was there
when it began, is newer than the cursor and is asked for by a filter without a limit, and none that
no filter asks for (`PollIsComplete`); a subscription with a single filter is never sent an event
twice (`SingleFilterOnce`). With several filters events can be sent twice or skipped, as each filter
overwrites the cursor they share; and a `since` counts only until something was returned, for then
the cursor is read in its place, older events included, which a comment in the code calls for. RelaySubscriptions has a poll's query of a subscription as one step.

### RelayPendingWrites: buffers without a writer

REQs and events that find the relay not writable wait in two bounded buffers, flushed by a timer and
by the `writable` event. Every entry is in exactly one place (`Accounted`), a buffer that holds
entries has something that will flush it (`NeverStranded`), and both drain once the relay stays
writable (`Drains`).

### RelayProtocol and RequestOnce: requests over a channel

`RequestOnce` is what a caller may rely on: a call settles once, it succeeds only with the other
side's answer to this very call, and the other side answers once. `RelayProtocol` is the code: ids,
the map of pending requests, timers, handlers, messages in flight, and the end of the channel at
both ends. `ImplementsOnce` is the refinement, the identity on `call` and `answered`. Also: answers
go to their caller (`OwnAnswer`), the map holds exactly the waiting calls (`MapIsExact`), and calls
made on an open channel settle (`OpenCallsSettle`).

### GatewayRegistration: registrations with gateways that come and go

Queues of pending registrations by gateway origin, processors that take from them, connections that
open, are identified and close. A registration is in one place (`HeldOnce`); it is lost only where a
processor finds no connection for it (`OnlyUnroutedLost`); processors end (`ProcessorsEnd`).

### PeerConnections: the streams of one peer

`connectedPeers`, the keepalive interval of an entry, the gateway connection, and the waits of
`waitForPeerProtocol`. A wait is settled once, with a protocol that is not closed (`WaitGetsLive`),
the pending table holds exactly the waiting (`PendingIsExact`), the gateway connection is live
(`GatewayIsLive`), waits end (`WaitsEnd`); where streams do not overlap the table of peers is exact
(`TracksPeer`) and no keepalive outlives its connection (`KeepAliveStops`).

### GatewaySockets, GatewayTokens, GatewayDiscovery: the gateway of a worker

*Sockets.* A client's web socket, its frames and their queue, the subscriptions that are delegated
to a peer or pending, the poll, and the health of the peer with its circuit breaker. A subscription
is in one place or another (`RequestsKept`), and does not stay pending with a peer that answers
(`PendingEnds`).

*Tokens.* The registration of one relay at its public gateway by syncs and refreshes that overlap:
the route, the token with its timer, the pool of open joins, and changes of the settings. A token is
shown only if it is kept, and a kept one has a timer or a refresh that will renew it; the lock of the pool
is exact (`TokensKept`); with the gateway off no token stays (`TokensEnd`).

*Discovery.* Announcements of a hosting gateway from two sources, the secret that is fetched for
them and its hash. A secret in use was verified against the hash that was announced
(`SecretsVerified`), and one that is served comes (`SecretComes`).

Met while modelling: the virtual relay is turned off by a constant (`GatewayService.mjs` 39), so
local serving cannot be reached; the token timers are not cleared by `stop()`; a refresh that read
the state before its awaits clears the token that another sync has obtained (1260); a sync writes
back the metadata it read at its start (1933), and `metadataUpdatedAt` does not keep older metadata
out (3942); a refresh of the settings that discovery started before the user disabled the gateway
enables it again (2982); the lock of the pool makes a second sync skip it (2693); a poll in flight
delegates a closed subscription again, or overwrites a newer REQ (4980, 4905); EVENT and AUTH frames
add the event to the delegated subscriptions, so the gateway polls for ever (4410, 4905); a check
that fails before the third time leaves the last verdict "healthy"; the clean-up of a client sends
no CLOSE to the peer; the hosting probe of a gateway with a shared secret ends before it is noted as
in flight (964), and stays so; an announcement without a hash lets an unverified secret stay when a
hash comes (436); while a secret cannot be fetched, the "updated" event, the refresh of the settings
and the fetch call each other without a pause (543, 1043); fetches have no timeout.

### WriterPool: writers provisioned ahead

The pool of one closed relay, `ensureClosedJoinWriterPool` with its per-relay lock, claims by
invitations, expiry, the cache file and crashes. Writers are numbered in the order they are made;
the pool, the file, the writes in progress and what each call has read (`entries`) are sets of them,
and the first entry of a list is the least. The lock is held exactly while a call runs (`LockIsExact`),
every writer made is in the pool, given out, expired or known lost (`Accounted`), what is saved
survives (`Durable`), an expired writer is not handed out (`NeverExpired`), and every invitation is
answered (`Answered`). `PoolKept` is the first three with `SharedOnlyIfExposed`:

**Two invitees can be given the same writer.** `ensureClosedJoinWriterPool` reads the entries,
provisions more (awaiting), and saves what it read plus the new ones; a claim in between takes an
entry that the save puts back. A crash between a claim and the delayed flush has the same effect.
No comment or test rules this out, so it is stated as what does hold: `SharedOnlyIfExposed`, a
writer is given out twice only if it was claimed while an ensure was running or before a flush that
a crash prevented.

**The file is read after the store says it was.** `loadRelayWriterPoolCache` notes the store as
loaded and then awaits the file (`relay-writer-pool-store.mjs` 86); it is called without the lock by
every relay's commands and by joins (`OthersLoad`). A call of this relay that begins meanwhile reads
an empty pool, provisions, and saves over the entries that were read; the variable `lost` has them.

### RelayProfiles: profiles, tokens and members

The profile of one relay, the mutex around the file, and the operations that change it: issuing and
removing tokens, adding and removing members, verification of a member, saves of a profile read
before (connect, disconnect, mirrors), joining and leaving. Under the mutex no update is lost
(`LocalIsCurrent`; `LatestKept`, which is `MembersAreLatest` and `TokensAreLatest`, in whatever order
changes with timestamps arrive) and the token store agrees with the file; token updates that come
before the profile are applied with it, unless one was updated, the relay was left and a stale save
brought the profile back (`PendingApplied`); saved profiles are consistent (`SelfConsistent`) and
operations end (`JobsEnd`).

### ActiveRelays: the table of connected relays

`activeRelays` and `relayMembers` of the adapter, the managers that calls make, and the lock of a
relay's directory (`fileLocks` of the manager). Joins, automatic connections at the start,
disconnections, leaves and reads of the members run as calls that stop at every await. `crossed` and
`gaveUp` record what came together. Guarantees: the directory is opened by one manager at a time
(`DirectoryLocked`) and an open manager is in the table, or about to be (`NoManagerLost`); when
nothing runs, the table, the cached members and the profile agree (`TableAgrees`).

Met while modelling: two joins that both found the table empty (1451, entered at 1599) open the
directory one after the other, and the second replaces the first, which nobody closes; a manager
that gives up waiting for the lock releases the lock of the one that has it (manager 36, 323); a
disconnection removes whatever manager is in the table by then (1845); a manager whose `initialize`
fails stays half open; a save that fails after `activeRelays.set` reports a failure while the relay
stays connected (1810); an automatic connection saves the profile it read before, and one that fails
leaves cached members; a disconnection clears `relayMembers` but neither the adds nor the removes;
`join-relay` of a connected relay gets `success: false`, yet the app is told `relay-joined` and the
members are set to `[]` under `undefined` (`index.js` 9629-9639).

### WriterQueue: the writers a relay is told of

`syncActiveRelayCoreRefs` tells a relay of the writers that mirrors, invitations and joins know.
While the relay cannot be written they wait in `relayWriterQueue`, which a loop of 15 seconds, the
relay's events (with a debounce) and the late recovery of a join flush. `live`, `writable` and
`written` are the relay, which is closed and opened again; a job holds the instance it began with.
Guarantees: what is noted as in sync was added or refused (`SyncedIsWritten`); a writer that was put
in the queue stays until then (`QueuedIsKept`); a loop serves the queue (`QueueIsServed`) and does
not wait for a relay that can be written (`QueueServed`).

Met while modelling: the end of a flush deletes the whole queue, with the writers put there, or put
off by the flush itself, while it was at work (1842-1846); a relay that was left keeps its queue and
loop for ever; the watcher listens to the old instance until the next flush.

### JoinPaths: what becomes of a relay that is created or joined

The paths of `startJoinAuthentication` (an invitation without a host, an open join without a host, a
join a host verified) and `createRelay`, each a sequence of steps for one relay: making its profile,
saving the token in the profile and in the auth store, opening it, waiting until it is writable,
telling the app. A wait that ends too early leaves a late recovery behind. Meanwhile the app
disconnects, joins and leaves the relay. Guarantees: a join whose wait ended too early is followed
up on its instance (`Followed`); profile, store and app end with the same token (`TokensAgree`);
jobs, recoveries and leaves end (`Rests`).

Met while modelling: `startJoinAuthentication` ignores the result of `joinRelayManager`, so a success
is told though the relay could not be opened; a late recovery is not cancelled by leaving or
closing: it stands in the place of the one a later join needs, and tells the app the older token; a
direct join that expects no writer has no late recovery; `create-relay` answers `relay-created` when
`createRelay` failed; a route that cannot be assigned is told as an error though the relay exists; a
token that is stored between the two halves of leave-group stays in the auth store.

### RelayAccess: tokens and core refs of a relay's gateways

What a worker holds of one relay by its gateways: one member's bearer token (stored by claims of
invites and by open joins, renewed by fetches of the mirror, revoked by a gateway's answer), and the
core refs of the mirror, which a fetch puts in the store and then in the profile. `issued` are the
tokens the gateways gave, `withdrawn` those they no longer take. The table of requests in flight is
by gateway. Guarantees: a token is sent to the gateway that issued it (`SentHome`); the newest token
is held (`NewestHeld`); refs of the profile are in the store (`RefsNoted`). The last two except
requests that overlapped in a way the code does not order (`overlaps`). All three are in
`AccessAgrees`.

Met while modelling: the answer to a late renewal may put an older token over the one a join stored
meanwhile, and a revocation that answers an older request removes whatever token is there (5256,
831); a relay has one slot, so the token of another gateway replaces the first one's; renewals and
claims have no timeout: a renewal that hangs blocks the periodic refresh of the mirror for ever, and
a claim goes on after its caller's timeout; refs of a mirror replace those another has noted in the
store since (a writer provisioned meanwhile, `relay-server.mjs` 9248, is not in the profile and is
dropped until a mirror lists it); a profile read before is saved even after a leave.

### ReplicaStores: what a worker knows about a relay

The five stores beside the profiles (gateway routes, access tokens, discovery hints, leases, core
refs), one at a time, for one relay with its two names (key and public identifier): upserts,
removals, reads under one or both names, expiry, the load of the file, the delayed flush, crashes
and failing writes. Guarantees: a read gives the newest of what was stored under its names and
nothing that is newer is crowded out by the store's limits (`StoresAnswer`); when no flush is due and
the last did not fail, the file holds what the store does (`StoresDurable`); together `StoresKeep`.
Lists without doubles are taken from Subsequences, which counts places instead of recursing.

Met while modelling: a removal under one name leaves the entry of the other, which a read by both
returns; a route that is only direct keeps the older origin; a token without an expiry inherits the
older one's; a full list of peers keeps the old ones for ever; on reads by both names the probe of
the second wins; an upsert merges with hints that have expired; a write that failed is not tried
again; core refs that change while their file is written are not written until the next change.

### MediaSessions: a media session over nostr relays

One session shared by several workers. `participants`, `transport` and `subscription` are the
bridge's session, `sessionTransportState` and the transport's subscription at each worker; `seen` is
the bounded list of event ids; `waiting` counts the leaves that wait for the relays, on the record
that is still in the map (`current`) or on one that is gone (`gone`). A join runs from the command
to its publication without another message in between (every await before it is on a settled
promise): `Join` is one step. A leave waits for the relays' answers: `Leave`, then one of
`PeerRetained`, `LastLeft`, `LateLeft`. The relays are external: they take requests and events in
the order sent, forward to the subscriptions they know, keep events (`Storing`) for later ones.
`mishaps` records what went wrong so far (an event lost, overtaken, missed while a subscription was
replaced, refused by a full session; a transport record removed), and each property says which of
them it excludes. Guarantees: a worker stays subscribed, on the relays of its state, for its peers
in the session (`LocalsSubscribed`); an event is handled once and never by its publisher
(`HandledOnce`); of two peers at different workers one is known where the other is (`Rendezvous`).

Met while modelling, and no property: the second of two last leaves that both waited removes the
record of peers that joined meanwhile (`LateLeft`, the mishap `removed`); two joins with the same
relays count two users of the subscription, of which leaves give back only one, at the last one; a
signal that arrives after its target has left lists the target again; when the list of relays grows,
a leave can be overtaken; a peer that joins later is told of the earlier ones only by their signals.

### JoinFlow: joins of relays and the hosts that grant them

A *job* is a start-join-flow command of the app or the re-authentication of a provisional join;
each runs `startJoinAuthentication` at most once. `flow`, `kind`, `about` and `auth` are what the
jobs carry, `attempt` is `joinFlowAttemptState`, `pending` the entry in `pendingOpenJoinReauth`,
`lock` `joinAuthAttemptLocks`; `saved`, `told` and `accepted` are the tokens the local profile, the
app and each host have, `challenge` a host's `ChallengeStore`, which has one entry per key. A
command is begun (`Start`), finds its path (`Resolve`: gateway, probes, leases, one step, with every
outcome), and authenticates: `Acquire` or `Refused`, `Dial`, the host's `HandleJoin` and
`HandleVerify` or the `Fallback` without a host, `Save`, and `Succeed` or `Fail`. The deadline can
end the command at any time (`DeadlineExceeded`); its authentication goes on. A request can arrive
after its job gave it up, also one for another relay, and challenges expire (`Expire`). Ghosts:
`silenced`, `broken`, `pruned` and `teller` record what the properties except.

Guarantees: the lock and the in-flight mark follow what runs, and a command always has an
authentication that will end it (`JoinsTracked`, of `JoinLockIsExact` and `NothingWaitsInVain`);
while no authentication of a relay runs, the app, the profile and the host that granted it have the
same token (`TokensAgree`, in `AccessAgrees`); the app is told of no success by a command that failed or was replaced
(`NoStaleSuccess`).

Met while modelling, and no property: a success that is suppressed leaves the profile with a token
the app was never given, and leaves its provisional join marked in flight, so it is not
re-authenticated (`silenced`); a host's token that was granted to a join that then failed stays
accepted (`broken`); a second command for a relay that is being joined fails at once, and with it
the first one's success is suppressed, so the app hears of a failure although the relay is joined.

### MarmotThreads and MarmotInvites: encrypted conversations

*Threads.* One conversation: its messages, cursor, read state and file, under two syncs that fetch
what is newer than the cursor, live events, messages of the user, a crash and a clean stop. A
message that reaches the relays within the overlap of the cursor is not missed and not doubled, the
cursor does not pass it, and the file follows (`ThreadsKeep`).

*Invites.* One invitation between syncs that show it and accepts that join it: its status is the
one its accepts gave it, unless a sync had read it before (`InvitesKeep`).

Met while modelling: `marmot-list-conversations` starts a sync which empties the table of groups
before the list is built (1233); a persist timer that fires while the file is written writes nothing
and is not armed again (937); a sync that read an invite before an accept stores the old status over
"joined" or "joining" (1871, 1905); an accept sets the time of the last sync to now (2593), so events
of the group between the invitation and the accept are not fetched if they are older than the
overlap of 20 seconds, and neither are gift wraps that far behind the newest; a second accept of a
joined invite that fails shows "failed"; sending may move the time of the last read back.

### BlindPeering: mirrors at blind peers

The manager: start, stop and changes of the settings by handlers that overlap, the tables of mirrored
relays and drives with their file, the refresh with its backoff, the publication of a system core,
the search for the own key, and the hook that mirrors a relay when it changes. What runs has an
engine, what is mirrored is in the tables and in the file, timers belong to what waits for them
(`MirrorsKeep`); a changed relay is mirrored and publications end (`MirrorsSettle`).

Met while modelling: a start that overlaps a stop leaves the manager running without an engine, or
on a swarm that is destroyed, until it is disabled and enabled again; the settings may change while
the handler of the earlier change is at work, which then has the last word; the start of the worker
and that of the gateway both start the manager: a second engine is made and the first not closed,
and the file may be read twice, over what changed meanwhile; a picture drive is `drive:<id>` in the
table and `pfp-drive:<id>` in the metadata, so its metadata are never removed; a write that failed is
not tried again and two writes may overlap; a refresh in flight over a restart is shared though it
works on the old engine; two publications share the handle of their retry; repeated seeding begins
publications again at attempt 1; updates while stopped are lost until the next.

## 3. Runs, bounds, results

| Run | Module, configuration | Checks | Shows |
|---|---|---|---|
| `subscriptions` | MCRelaySubscriptions, `RelaySubscriptions.cfg` | `TypeOK`, `NoGap`, `NoLostSubscription`, `NeverStuck`, `CursorMonotone` | Two handlers at a time on two connections of a client with two events, on three kinds of subscription, and on a connection without a token: no interleaving of REQ, CLOSE, polls, rehydration and refresh lets a stored cursor pass an event the client was not given or moves it back except for a new REQ, none loses a committed subscription, and the nested waits in the two queues never close a circle. |
| `event_processor` | MCEventProcessor, `EventProcessor.cfg` | `ProcessorTypeOK`, `BuffersKeep`, `AnswersAreExact`, `ThreadsKeep`, `InvitesKeep`, `MirrorsKeep`, `Drains`, `MirrorsSettle` | Parts side by side. Buffers: two REQs, a valid and an invalid event and buffers of one entry: overflow, re-buffering by a flush, timers and 'writable' events in every order neither lose nor strand an entry, and both buffers empty once the relay stays writable. Replay: six subscriptions (kinds with authors, two tags, ids, a limit, a time range, two filters) over four events that arrive in any order between any two index reads: a poll answers exactly what its filters ask for, and one filter is sent nothing twice. Marmot: a conversation under two syncs, or with its file, a crash and a clean stop, misses no message that reaches the relays in time; an invite between two syncs or two accepts keeps the status its accepts gave it unless a sync had read it before. Blind peering: two overlapping handlers start, stop and change the settings; the tables and the file with a crash; two publications of a core; the refresh and the key; the hook of a relay. |
| `connections` | MCConnections, `Connections.cfg` | `ConnectionsTypeOK`, `TablesAreExact`, `RelaysKept`, `ImplementsOnce`, `WaitGetsLive`, `NothingHangs` | The connections of the relay server, one part per behaviour. Protocol: four calls of every kind, handlers that finish in any order, timeouts that race answers and ends that close at any time; peers: three streams of the gateway that overlap or not, two waits and two keepalives; registration: three relays, two gateways and two processors; paths: two commands or joins of one relay, which may be created, fail, wait for a writer, recover late and be left or closed meanwhile. Answers go to their calls, tables hold exactly what waits, a registration or a token of a join is not lost, and nothing waits for ever. |
| `gateway` | MCGateway, `Gateway.cfg` | `GatewayTypeOK`, `PoolKept`, `GatewayKept`, `NeverExpired`, `Comes` | Three invitations of a closed relay with a pool of two, expiry, failures, a flush and a crash at any point, or two, a writer more and a profile that may not allow a pool: the lock is exact, no writer is dropped silently but by a call that read the pool before its file was read, a writer reaches two invitees only through a call that was running or a flush that was missed, and every invitation is answered. Beside it, a client with three frames and a peer that goes twice, two calls and the timer of one relay with two logins and a change of the settings, and a gateway announced three times: the subscriptions of the client, the token of the relay and the secret of the gateway are kept right under every overlap and come in the end. |
| `profiles` | MCRelayProfiles, `RelayProfiles.cfg` | `ProfilesTypeOK`, `LocalIsCurrent`, `LatestKept`, `PendingApplied`, `SelfConsistent`, `RelaysTracked`, `RelaysAgree`, `Ends` | Four casts of operations at the same time: changes of membership, tokens, a join with tokens, and operations that hold the mutex in part, with a restart. Under the mutex no change is lost, in whatever order they arrive; an update that came before the profile is applied with it; what is saved is consistent in itself; every operation ends. Table: two joins, a disconnection, a leave and an automatic connection of one relay under the lock of its directory: no manager is lost but where two joins cross, and table, members and profile agree. Writers: a sync, pending writers, the flush with its loop, a late recovery and the closing of a relay: what is noted as in sync was added, and the queue is served. |
| `worker` | MCWorker, `Worker.cfg` | `WorkerTypeOK`, `LocalsSubscribed`, `HandledOnce`, `Rendezvous`, `JoinsTracked`, `AccessAgrees`, `StoresKeep`, `NoStaleSuccess` | Two workers in one session over two relays: other relay lists with each command, peers that leave and come back, relays that fail, keep events and send them twice. A worker stays subscribed for the peers it has in the session, handles an event once, and of two peers one is known where the other is. Two joins and a re-authentication over two relays and one host, or one relay and two hosts, with requests that come late, deadlines, expired challenges and failures: locks and in-flight marks follow what runs, the app, the profile and the host end with the same token, and a join that failed or was replaced is not reported as a success. The five stores of a relay, one after the other, under its two names, with overlapping calls, expiry, failing writes and a crash: reads give the newest, and the file follows. A relay with two gateways, a join and two fetches of its mirror: the newest token is held and goes to its own gateway only, and the core refs of its profile are in the store. |

Bounds and why they are enough:

* *Subscriptions.* Two concurrent handlers, because every lost update needs one handler that reads
  and one that writes in between, and a handler waits for at most two others at a time. Two
  connections of one client, because rehydration reads the client's snapshot from another
  connection. Two events, because a gap needs an older event that arrives after a newer one was
  returned. The scenes: one subscription with events on both connections; a plain, a one-shot and a
  timeline subscription on one connection without events; a connection of a client without a token.
  Proofs cover the rest: they hold for every instance at once.
* *Pending writes.* Buffers of one entry overflow with two; a flushed REQ that comes back finds a
  buffer that another one filled meanwhile.
* *Replay.* Four events and seven subscriptions of one or two filters: both orders of arrival between
  two reads, ties in `created_at`, a limit smaller than the result, one and several attributes, ids,
  and bounds of time, also in the second filter.
* *Protocol.* Four calls: one of each combination of timeout and handler, with ids that could collide.
* *Pool.* Three invitations and three writers: one whose call reads the pool, one that takes from it
  meanwhile, one that finds what was put back; the invitations are numbered in the order they come
  in, which loses nothing as they are alike. In the scene `refused` two invitations meet a profile
  that may not allow a pool, and there are four writers: with them a call that begins while the file
  is read meets one that reads it.
* *Profiles.* Casts of four operations: those that change the members (two users, both orders of an
  add and a remove, two verifications that carry member sets they read before), the tokens, a join
  with tokens of another user before and after it, and one of each that does not hold the mutex
  throughout. In the cast `all` `MembersAreLatest` and `TokensAreLatest` say nothing:
  they are about operations that do (`OnlyLocked`); what the others do to them is in section 6.
* *Media.* Two workers and three peers, two of them at one worker, so that a leave can be the last or
  not; two relays, so that two paths overtake each other, of which one keeps events; lists of at most
  two relays, two participants and two ids seen, so that every limit is met; five events of a worker,
  so that a join can come between the ends of two last leaves. The scenes: other relays with each
  command; peers that leave and come back; relays that fail, keep events and send twice, where i1
  joins and then signals. A worker drops its own events as soon as they come, except those of the
  keeping relay in the third scene.
* *Joins.* Two commands and one re-authentication: one that is late or has lost its command, one that
  meets it, and one that the app did not ask for. Two relays with one host, so that challenges of two
  relays replace each other; one relay with two hosts, so that one is asked after the other fails
  (there the first command has an invite, the second too or is open).
  One verification per challenge instead of five: what matters is that the last one can be used up.
* *Table of relays.* Three calls: two that open the relay or close it, and a third that meets what they
  left; they come in order, the third joins or disconnects, and calls come together in one way only,
  so that each exception of the properties is seen alone.
* *Writers.* One sync at a time beside the flush, two writers of which the relay may refuse one: each
  stretch of a sync meets each of a flush.
* *Paths of joins.* Two jobs, since a late recovery of the first can meet the second, and one closing
  of the relay between them.
* *Access.* A join and two fetches, two gateways, two tokens, one change from outside (a token
  withdrawn or due, a new route or profile): a renewal needs a fetch with an older token, and a token
  of the other gateway a second one. The scene `mirror` has no joins, `access` no profile.
* *Stores.* Three calls of at most two values each, a time of three steps, one failing write: one entry
  under each name and a read or an upsert by both. The first call stores something.
* *Gateway.* Three frames of a client and a peer that goes twice; two calls beside the timer, of which
  the second only registers or syncs, two logins, of which the second brings a token to be replaced,
  and one change of the settings; three announcements of a gateway.
* *Conversations.* Two syncs, or two accepts and a sync, or a sync with a timer and the file.
* *Blind peering.* Two handlers, two publications, one relay and one picture drive.
* *Registration and peers.* Two of everything that can overlap and a third that comes
  after; counters (`MaxConnects`, `MaxTimers`, `MaxWriters`, `MaxExpired`,
  `MaxRestarts`) bound how often the
  environment acts and never what the code does.

`CHECK_DEADLOCK FALSE` is set where the model is finite by its bounds (every request made, every
event published): the system then rests, it is not stuck. The liveness properties show it rests only
when its work is done.

Assumptions of the models: Protomux delivers in order and drops sends on a closed channel;
Hyperswarm announces one stream per peer at a time (`overlap` false; without it `TracksPeer` says nothing); every gateway has an
id; reads of the pool's file end before the flush timer of one second; a rename replaces the profile
file atomically; one join of a relay at a time, as the lock of JoinFlow keeps it (`JobsDescribed`).
Between two awaits for I/O, chains of resolved promises are one step. For the joins: one key; direct
discovery v2 on and the open fallback after a direct timeout off, as by default; a host handles a
verify request in one step (its file reads end before the request times out), and its answer arrives
in that step or is lost; an answer that is late is dropped (RelayProtocol). For the table of relays: one relay with a public
identifier, one manager for each call, `auto_connect` on. For its writers and paths: one relay, one
job at a time (the lock of JoinFlow), opening and creating one step; the blind peer's refs change
nothing. For access and stores: one relay; file I/O ends before the flush timer fires again. For the
gateway: one relay, one gateway, one peer, expiry times abstracted to "due". For conversations: the
relays that answer hold all events; the MLS library reads the events of others again when it is
handed them again. For blind peering: the network answers every call.

## 4. Fairness

Fairness is only on what the runtime does by itself: a started handler goes on after its awaits
(the event loop runs every ready callback), timers fire, messages on an open channel arrive, a
closed channel is noticed by both ends. Nothing is assumed of the environment: requests, events,
peers and gateways may stay away for ever, and a failure is never assumed to happen or not to happen
(the fair action is "succeed or fail"). Weak fairness is enough everywhere: a step the event loop
has ready stays ready until it runs. In the MC modules the fairness of actions of which a behaviour
enables at most one is stated together, as fairness of their disjunction, which costs TLC less.

`MCWorker` has no fairness: that syncs, fetches and joins of its parts end is not checked.

## 5. What is proved

Eight modules hold proofs, one of them (`Subsequences_proofs`) the lemmas about sequences that two others
use. They use the assumptions that their specifications make of the constants,
and nothing else; each instance is covered at once, with any number of processes, messages and steps.
A theorem about a part of a composition assumes that part's constants: `ASSUME <constants> PROVE
<specification> => ...`, where the table gives the specification.

| Module | Theorem | Statement | A run checks it as |
|---|---|---|---|
| `RelaySubscriptions_proofs` | `TypeCorrect` | `Spec => []TypeOK` | `TypeOK` |
| | `NothingSkipped` | `Spec => []NoGap` | `NoGap` |
| | `CursorsMonotone` | `Spec => CursorMonotone` | `CursorMonotone` |
| | `NothingLost` | `Spec => []NoLostSubscription` | `NoLostSubscription` |
| `EventProcessor_proofs` | `ServicesTyped` | `ServicesSpec => []ProcessorTypeOK` | `ProcessorTypeOK` |
| | `TypeCorrect` | `Spec => []TypeOK` (RelayPendingWrites) | part of `ProcessorTypeOK` |
| | `NothingStranded` | `Spec => []BuffersKeep` | `BuffersKeep` |
| | `AnswersExact` | `ReplaySpec => []AnswersAreExact` | `AnswersAreExact` |
| | `ThreadsKept` | `ThreadSpec => []ThreadsKeep` | `ThreadsKeep` |
| | `InvitesKept` | `InviteSpec => []InvitesKeep` | `InvitesKeep` |
| | `MirrorsKept` | `BlindSpec => []MirrorsKeep` | `MirrorsKeep` |
| `Connections_proofs` | `ConnectionsTyped` | `ConnectionsSpec => []ConnectionsTypeOK` | `ConnectionsTypeOK` |
| | `TablesExact` | `ConnectionsSpec => []TablesAreExact` | `TablesAreExact` |
| | `RelaysAreKept` | `ConnectionsSpec => []RelaysKept` | `RelaysKept` |
| | `WaitsGetLive` | `PeersSpec => WaitGetsLive` | `WaitGetsLive` |
| | `Implements` | `Spec => ImplementsOnce` (RelayProtocol) | `ImplementsOnce` |
| | `TypeCorrect`, `AnswersAreOwn`, `MapExact`, `PeersTracked` | the parts of the first two | |
| `Gateway_proofs` | `GatewayTyped` | `ServiceSpec => []GatewayTypeOK` | `GatewayTypeOK` |
| | `GatewayKeeps` | `ServiceSpec => []GatewayKept` | `GatewayKept` |
| | `RequestsHold`, `TokensLookedAfter`, `SecretsHold` | the parts of `GatewayKept` | |
| | `WritersKept` | `Spec => []PoolKept` (WriterPool) | `PoolKept` |
| | `AnswersAreFresh` | `Spec => NeverExpired` | `NeverExpired` |
| `RelayTable_proofs` | `TypeCorrect` | `Spec => []TypeOK` (RelayProfiles) | part of `ProfilesTypeOK` |
| | `MutexHolds` | `Spec => []LocalIsCurrent` | `LocalIsCurrent` |
| | `Consistency` | `Spec => []SelfConsistent` | `SelfConsistent` |
| | `NothingLost` | `Spec => []LatestKept` | `LatestKept` |
| | `PendingIsApplied` | `Spec => []PendingApplied` | `PendingApplied` |
| | `TableTyped` | `TableSpec => []ProfilesTypeOK` | `ProfilesTypeOK` |
| | `ManagersTracked` | `ActiveSpec => []RelaysTracked` | `RelaysTracked` |
| | `RelayIsKnown` | `TableSpec => []RelaysAgree` | `RelaysAgree` |
| | `ActiveTyped`, `TableIsRight`, `WritersWait` | the parts of these | |
| `Worker_proofs` | `EventsHandledOnce` | `Spec => []HandledOnce` | `HandledOnce` |
| | `MembersSubscribed` | `Spec => []LocalsSubscribed` | `LocalsSubscribed` |
| | `PeersMeet` | `Spec => []Rendezvous` | `Rendezvous` |
| | `NothingLeftBehind` | `JoinSpec => []JoinsTracked` | `JoinsTracked` |
| | `SuccessIsCurrent` | `JoinSpec => NoStaleSuccess` | `NoStaleSuccess` |
| | `HoldersAgree` | `JoinsSpec => []AccessAgrees` | `AccessAgrees` |
| | `WorkerTyped` | `WorkerSpec => []WorkerTypeOK` | `WorkerTypeOK` |
| | `SessionTyped`, `TypeCorrect`, `AccessTyped` | its parts for MediaSessions, JoinFlow and RelayAccess | |
| | `SameToken`, `NewestIsHeld` | the parts of `AccessAgrees` | |
| `ReplicaStores_proofs` | `StoresKeepWhatTheyGet` | `StoreSpec => []StoresKeep` | `StoresKeep` |
| | `StoresTyped` | `StoreSpec => []StoreTypeOK` | its part for the stores |

**RelaySubscriptions**, for any number of connections, clients, subscriptions, events and concurrent
handlers, from `ConstantsAssumption` and `NoneAssumption`.
`NoGap` is not inductive: handlers carry copies of snapshots, which they later merge into the stored
ones. The inductive invariant `IInv` says of every copy, stored, carried or queued, what `NoGap` says
of the stored ones (`SnapOK`: an entry's filter is one the client asked for, its cursor is not ahead
of the log, and every older matching event was returned). It is preserved because merging keeps the
larger of two cursors each of which satisfied it (`MergeOK`), resetting and pruning only weaken the
obligation (`ResetOK`, `PrunedOK`), and an event that arrives in order is newer than every cursor
(`ArrivalOK`). There is one lemma per action (`...Inv`), joined in `NextInv` and `Invariance`.
`CursorMonotone` and `NoLostSubscription` follow step by step from `IInv` and `MergeKeeps`.

**RelayPendingWrites**, for any REQs, events, connections and size of the buffers. `BuffersKeep`
(each entry in one place; what waits is going to be flushed) with the types is nearly inductive.
What it lacks is `Queued`: a REQ that is being written is the first in the queue of its connection.
Without it the end of its task could take another REQ out of that queue. The lemmas about buffers
(`TailElements`, `AppendElements`, ...) say which entries a list has after each change to it.

**RelayReplay**, for any events, filters and arrivals. While a poll reads group after group, the
groups read so far contain what was there before it began and is asked for (`Reading`); what a group
returns is intersected with the others and limited, which keeps that.

**MarmotThreads, MarmotInvites, BlindPeering**, for any messages, syncs, accepts, handlers and crashes.
A thread's memory, the write in progress and the file are each whole up to their cursor, in the same
sense (`Whole`), and a sync that overlaps them adds what it fetched since an older cursor (`Syncs`).
An invite's status is that of its accepts unless a sync read it before (`InviteInv`: `NotJoined`,
`KeepsStatus`). Blind peering keeps with each table who is going to make it agree with the engine,
the file and what is wanted (`BlindInv`: `OnEngine`, `Cleared`, `FileKept`, `TablesAgree`), and with
each publication and refresh the timer or attempt that goes on with it.

**RelayProtocol**, for any calls with any timeouts and handlers. Neither property is inductive. What
makes them so: ids come from a counter and a call is made once, so among all messages, on their way,
being handled or in the map, the same id means the same call (`Distinct`); an answer takes out of the
map the entry with its id, which therefore is its caller's. A request is on its way or being handled
at most once and not after it was answered (`Unserved`), so the other side answers once. The
refinement maps `call` and `answered` to themselves; `StepOnce` shows for every action of
RelayProtocol, under `IInv` before and after it, that it is a step of RequestOnce or leaves both
unchanged (one lemma per action, `...Once`).

**PeerConnections, GatewayRegistration, JoinPaths**, for any streams, waits, gateways, relays and jobs.
An entry of the peers is that of a stream that was opened, waits are numbered in the order they come
(`EntryBegun`, `Numbered`), and an entry has one timer (`OneTimer`). A registration is in one place
and somewhere (`Placed`), and who was sent one has a route to it (`SentHasRoute`). `PathInv` follows a
job along its path (`OnPath`): what it has made, stored and saved so far, and what a job that was
overtaken by a leave left undone (`Halfway`, `Raced`), so that in the end profile, store and app have
the token of the last one.

**WriterPool**, for any number of invitations and any target of the pool. Calls write back what they
have read and made, so the invariant says what such a copy is worth: a call that provisions has all
that the pool has (`HeldBack`), and what it has besides was given out, of which it is known that it
is exposed (`Copies`); the same of a file that was not read yet. `Stored` relates memory, timer and
disk, `Began` the calls and the commands they run for. Steps that end a call all go on in the
same way (the next invitation that waits, a top-up), so that part is proved once
(`Settled`, `Fits`, lemma `SettledKeeps`). `NeverExpired` is an action property: an answer is taken
from the pool after it was pruned.

**GatewayService**, for any subscriptions, calls, kinds and bounds. Of the tokens, `TokenInv` adds to
what is promised who looks after one: a token that is kept has a timer or a call that will renew it
or set the timer when it fails (`Armed`), and the calls that work on the pool are none or the one
that has the lock (`PoolHeld`). Of the sockets, `SocketInv` adds that frames were sent by the client
(`Queued`), that what is kept to be sent again has its number (`Numbered`), and that the subscription
a CLOSE is handled for is wanted by no later REQ (`ClosedIsUnwanted`): a poll may delegate it again,
but not the other way round. `SecretsVerified` is inductive. The parts share no variable, so the
conjunction of their specifications implies that of their invariants (`GatewayKeeps`, `GatewayTyped`).

**RelayProfiles**, for any users and operations, from `JobsDescribed`. The inductive invariant has
four parts. `Typed` also says that who waits for the mutex has a section left and that a join applies
an update that is queued. `Mutex`: an operation is in the queue once, exactly if it waits or holds,
and only the head of the queue has loaded the file. `Sound`: what `untoken`, `stale` and `join` hold
without the mutex is consistent, so that the file still is after they save it. `Latest` is the
argument why a verification, which reads before it saves, loses nothing although it merges old sets:
it read sets no newer than those saved since, but for its own add (`ReadBefore`), and merging keeps
the newer (`Merged`); a token in the store that differs from the profile's is that of a verification
on its way (`StoreFollows`). `PendingApplied` has an invariant of its own, `UpdatesInv`: who read the
profile to save it later finds one, unless a leave has begun since; a token update waits beside a
profile only while the join that made the profile is about to apply it.

**ActiveRelays**, for any set of calls, from `CallsAreNot`. A manager is where its call is (`Placed`).
A join that found the table empty finds it so until it enters its own manager, and a call that closes
a manager closes the one in the table, unless the two exceptions the property names have happened
(`Alone`); with `DirectoryLocked` and `NoManagerLost` this is inductive (`Safe`). That table, members
and profile agree in the end (`TableAgrees`) is carried through each call by `Agreed`: what a call
has begun (`Began`) and, unless calls came together, that a relay being opened is apart from the
table, one in it is known, and one being left is on its way out (`Apart`, `Known`, `Left`).

**WriterQueue**, for any writers and syncs. Neither `QueuedIsKept` nor `QueueIsServed` is inductive:
a call holds the writers it has read, and a flush those it took from the queue. `QueueInv` says where
each of them is: handled, put off, or still to be tried (`Handled`, `FlushHandles`).

**MediaSessions**, for any workers, peers, relays, lists and bounds. `HandledOnce` needs only that an id
that was handled is still in the list of ids seen, or was forgotten (`HandledKept`), and that events
are of a peer of the worker that sends them (`Own`, in `Traffic`). `LocalsSubscribed` needs how the records
of a session follow each other (`Records`: whose record waits for which leave, and which relays its
subscription has). `Rendezvous` rests on both, and on a relay c that is in every list a command may
resolve to (`SharedRelay`, which TLC evaluates for the instance of the run; without it two peers may
never have a relay in common). Its invariant `MeetInv` follows what is on its way to and from c: a
peer's last join has a number (`N`), the announcements of a worker come to c after the request that
subscribes it there (`Serving`), so of two joins the one that c takes later finds the other there, as
a subscriber or as an event it has seen (`Meeting`). The types (`SessionTyped`) need what a list that
is kept was made from: joining and resolving lead from lists of relays to lists of relays
(`RelaysClosed`), an own id that was seen was published (`SeenOnce`), so a new one is not in the list
twice, and what a relay is asked to serve is a subscription that was made (`RequestsMade`).

**JoinFlow**, for any commands, re-authentications, relays, hosts, deadlines and number of tries,
from `JoinConstants`. The lock and the marks need nothing but themselves (`Holders`,
`NothingWaitsInVain`); `NoStaleSuccess` needs that a command's attempt is there until it is pruned,
and failed if the command did (`Attempts`). `TokensAgree` is about three copies of a token made one
after another, at the host, in the profile and at the app: `Carried` says how far each job
has brought its own, `AllAgreed` that they agree unless the holder of the lock is at it. What could set them apart
is a verify request of another job for the same relay that arrives late and has its token
accepted instead. It is taken only with that job's challenge, which the host has replaced (`Late`):
a challenge is made for a join request, of which each job sends one to a host, and it is gone before
the verify request is made (`Asked`).

**RelayAccess**, for any joins, fetches, gateways and tokens. `SentHome` holds whatever overlaps
(`TokenCore`). `NewestHeld` and `RefsNoted` hold while the requests come in the order the code
expects (`InTurn`, `NotedInTurn`), and the ghosts that the properties name record every other case:
that a join or a fetch was alone follows from how many were in flight.

**ReplicaStores**, for any kinds of gifts, limits and times, from `StoreConstants`. A store merges what
it is given into one entry per name, so what a read promises has to be said of entries: `Keeps` says,
store by store, what an entry has of the history of gifts under its name (the newest route, token and
topic with their times, the last probe, every peer unless the list is full, every lease unless as many
outlive it, every ref). The lemmas are about `Keeps` and mention no state: an entry that is given
something keeps the longer history (`GiveKeeps`), pruning drops only what has expired (`PruneKeeps`),
what is kept now is kept later (`KeepsLater`), two histories joined are kept by two entries merged
(`HistoriesJoined`), and reading two names merges what they keep (`MergeAnswers`). `StoreInv` adds to
the entries in memory (`KeepInv`) the file and a write under way, each of which keeps the history it
was made from (`FileKeeps`); before the load, what was given since is an addition to the file's
history (`Added`), which the load overlays. `FlushInv` says when file and memory may differ: a timer
runs, a write is under way, the last one failed, or nothing but time passed since (`PruneLater`).
What a list has after `Distinct`, a cut or a join, and that a list without repetitions is no longer
than its set is large, is in `Subsequences_proofs`; it goes by counting the places kept, since
induction over sequences is out of the prover's reach.

What the proofs found in the models: CASE expressions whose guards overlap (two in MediaSessions, one
in ReplicaStores), which TLC evaluates in order and which have no defined value otherwise; and the
read of the pool's file that WriterPool had taken to be guarded by the lock (section 2). The CASEs
are now IF chains; the second is a behaviour of the code, and WriterPool has it. Two properties were
stated for the instances of the runs only and failed for others: the cursor that a poll of several
filters reads stands in the place of a filter's `since` once something was returned, and a token
update waits beside a profile that a stale save has brought back. Both are now stated with their
exception.

Model-checked only:

* all liveness properties (liveness under fairness is out of the prover's reach), and `NeverStuck`,
  which says that some step is enabled (ENABLED is, too).

Every other property that a passing run checks is a theorem.

## 6. Disagreements with comments and tests

Each is a run that TLC refutes; the quoted lines are in `PROJECT.json` under `findings`.

| Run | Refutes | Where | What the code does |
|---|---|---|---|
| `oneshot_kept` | `OneShotsRemoved` | `hyperpipe-relay-event-processor.mjs:1521` | Storing a replay merges over the stored snapshot, which still holds the one-shot subscription. |
| `refresh_noop` | `RefreshResetsCursor` | `relay-server.mjs:693` | The refresh writes null cursors and the merge keeps the stored ones. |
| `flush_drops` | `FlushedIsWritten` | `hyperpipe-relay-event-processor.mjs:318` | A flush whose append fails drops the event and reports it flushed. |
| `registration_lost` | `QueuedUntilConnected` | `relay-server.mjs:2465` | A processor that finds no connection for a registration drops it. |
| `tokens_lost` | `TokensKept` | `hyperpipe-relay-profile-manager.mjs:226` | The removal of one user's token saves a profile it read before, and undoes the update of another user's token. |
| `profile_returns` | `StaysLeft` | `hyperpipe-relay-profile-manager.mjs:424` | A save of a profile that was read before the relay was left brings the profile back. |

## 7. What is not modelled

* Cryptography, MLS, Hypercore replication, Autobase linearisation: external libraries; the models
  start from what they deliver (events in any order, a view read as of one moment).
* The wording of messages, HTTP paths, JSON, logging, telemetry.
* Relay subscriptions: the pubkey alias of an authenticated client, the cap of 128 entries.
* Writer pool: calls of `ensureClosedJoinWriterPool` without a count, the lookup by public
  identifier, the signed envelope.
* Profiles: member lists without timestamps (`updateRelayMembers`), import of legacy files, the copies
  of the member lists in the worker, failures of file operations.
* Relay manager and adapter: what a manager does with hypercore and autobase, the creation of a relay
  with a new key, virtual relays.
* Writers: role logging and timing. Blind peering during a sync is in BlindPeering.
* Creating and joining: files and archives of a relay that is left.
* Gateway service: the HTTP server and its proxies, drives served over HTTP, blind peer settings, the
  virtual relay of a gateway.
* Conversations: the other members' side (`inviteMembers`, `grantAdmin`), titles and attachments.
* Blind peering: waiting for cores to sync, transfer logs, join tracking, the vendored transport.
* Media: several sessions and their limit, one peer id at two workers, stream metadata, permissions,
  recordings, the stop of the service.
* Joins: the writer provisioned with a verified join, progress messages, a restart of the worker
  (provisional joins are kept in memory only), tokens that a host changes otherwise (RelayProfiles).
  What the worker does with the relay that was joined is in JoinPaths.
* Components listed as `not_modelled` in `PROJECT.json`, each with the reason or the module planned.

## 8. Plan

Done: the modules of section 2, each with its proofs.

Next modules, the most important first:

1. Writers of joins: `provisionWriterForInvitee` and `ensureOpenJoinWriterPool`, between JoinFlow,
   WriterPool and WriterQueue.
2. Relay subscriptions of a worker that are refreshed (`refresh-relay-subscriptions`) beside
   RelaySubscriptions, and start and stop of the worker and of its gateway service.
3. Drives and mirrors: `hyperdrive-manager.mjs`, and the recovery of drives.
4. Plugins: installation, permissions and the runner of one plugin.
5. `conversation-file-index.mjs`.

Next theorems: those of these modules; for the present ones what is left is liveness.
