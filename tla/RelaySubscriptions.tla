------------------------- MODULE RelaySubscriptions -------------------------
(***************************************************************************)
(* The subscription snapshots of one writable relay and the four request   *)
(* handlers that read and write them.                                      *)
(*                                                                         *)
(* NostrRelay (hyperpipe-relay-event-processor.mjs) keeps, in its view,    *)
(* one snapshot per gateway connection and one per client token.  A        *)
(* snapshot maps a subscription id to its filter and to its cursor, the    *)
(* created_at of the newest event already returned for it.  relay-server   *)
(* keeps the connection each client last used.  A handler reads a snapshot,*)
(* awaits, and writes it back through a promise queue keyed by connection  *)
(* ("_queueSubscriptionWrite"); a REQ or an update of a client snapshot    *)
(* goes through a second queue, keyed by client.  The writes merge with    *)
(* what is stored, so that no handler loses what another one wrote.        *)
(*                                                                         *)
(* Abstractions.  A filter is a value with the set of events it matches;   *)
(* a subscription has one filter (RelayReplay has several).  The cursor    *)
(* undefined or null is 0.  A missing snapshot and an empty one are the    *)
(* same: every handler treats them alike up to an idempotent rewrite.  The *)
(* 128 entries relay-server lets a snapshot have are not reached.          *)
(* Which timeline subscriptions pruning keeps depends on the clock and is  *)
(* a choice here.  The second alias of an authenticated client (its        *)
(* pubkey) is not modelled.  A query reads one state of the view; the      *)
(* reads it consists of are apart in RelayReplay.  A read that is followed *)
(* at once by an enqueue is one step: the queue is first in, first out, so *)
(* a write that could slip in between could as well have been queued       *)
(* before the read.                                                        *)
(***************************************************************************)
EXTENDS Integers, Sequences, FiniteSets

CONSTANTS
    Conn,          \* connection keys minted by the gateway
    Client,        \* client tokens
    ClientOf,      \* the client whose requests arrive on a connection
    Anonymous,     \* clients without a token: no client snapshot, no mapping
    Sub,           \* subscription ids
    Filter,        \* filters
    ReqFilters,    \* the filters a client ever asks for under an id
    Event,         \* events other writers or clients may publish
    Stamp,         \* the created_at of an event
    Matches,       \* the events that match a filter
    Ephemeral,     \* one-shot ids: f-fetch-events, f-more, f-temporary
    FetchEvents,   \* those relay-server recognises: f-fetch-events
    Timeline,      \* f-timeline ids
    MaxTimelines,  \* timeline subscriptions a snapshot may hold
    Handler,       \* requests in progress at the same time
    None           \* an absent entry, mapping or field

ASSUME ConstantsAssumption ==
    /\ ClientOf \in [Conn -> Client] /\ Anonymous \subseteq Client
    /\ ReqFilters \in [Sub -> SUBSET Filter]
    /\ Stamp \in [Event -> Nat \ {0}] /\ Matches \in [Filter -> SUBSET Event]
    /\ FetchEvents \subseteq Ephemeral /\ Ephemeral \subseteq Sub
    /\ Timeline \subseteq Sub /\ MaxTimelines \in Nat
    /\ None \notin Conn \cup Sub \cup Filter

VARIABLES
    conn,      \* [Conn -> Snapshot], the view under the connection key
    client,    \* [Client -> Snapshot], the view under "client:<id>"
    connOf,    \* relayClientConnections: the connection a client last used
    connQ,     \* the write queue of a connection: handlers, the head runs
    clientQ,   \* the write queue of a client
    log,       \* events in the view
    late,      \* those that arrived after an event at least as new
    job,       \* what each handler is doing
    want,      \* history: the filter the last committed REQ asked for
    returned   \* history: <<client, sub, event>> put into a replay response

vars == <<conn, client, connOf, connQ, clientQ, log, late, job, want, returned>>

-----------------------------------------------------------------------------
(* Snapshots *)

Cursor == {0} \cup {Stamp[e] : e \in Event}
Entry == [filter : Filter, cursor : Cursor]
ASSUME NoneAssumption == None \notin Entry

Snapshot == [Sub -> Entry \cup {None}]

Empty == [s \in Sub |-> None]
Present(x) == {s \in Sub : x[s] # None}

\* Variants of the definition below that a careless change would leave behind;
\* the properties tell each from the code.  So with every "...Variant".
NoCursorVariant(base, incoming) == [filter |-> incoming.filter]
OwnCursorVariant(base, incoming) == incoming

MergeEntry(base, incoming) ==
    [filter |-> incoming.filter,
     cursor |-> IF base.cursor > incoming.cursor THEN base.cursor ELSE incoming.cursor]

OverwriteVariant(base, incoming) == incoming

\* _mergeSubscriptionSnapshots: keep every stored id, take the filter of the
\* incoming entry and the larger cursor.
Merge(base, incoming) ==
    [s \in Sub |-> IF base[s] = None THEN incoming[s]
                   ELSE IF incoming[s] = None THEN base[s]
                   ELSE MergeEntry(base[s], incoming[s])]

\* relay-server's mergeSubscriptionSnapshots: the same, primary wins.
ServerMerge(primary, secondary) == Merge(secondary, primary)

Without(x, gone) == [s \in Sub |-> IF s \in gone THEN None ELSE x[s]]

\* _pruneTimelineSubscriptions: the preferred timeline stays, at most
\* MaxTimelines stay, and any other may be stale.
Pruned(x, preferred) ==
    {Without(x, Timeline \ kept) :
        kept \in {k \in SUBSET (Timeline \cap Present(x)) :
                    /\ Cardinality(k) <= MaxTimelines
                    /\ {preferred} \cap Timeline \cap Present(x) \subseteq k}}

FilterEphemeral(x) == Without(x, Ephemeral)
Compacted(x) == Pruned(Without(x, FetchEvents), None)
Reset(x) == [s \in Sub |-> IF x[s] = None THEN None ELSE [filter |-> x[s].filter, cursor |-> 0]]

-----------------------------------------------------------------------------
(* Handlers *)

\* "Task": waits in, then heads, the connection queue.  "Client": the same in
\* the client queue, until it reads the stored snapshot.  "Write": has read it
\* and appends.
UpdateTask == {"rehTask", "mergeTask", "storeTask", "refreshTask"}
ConnTask == UpdateTask \cup {"reqTask", "closeTask", "reqClient", "reqWrite",
                            "closeRead", "closeWrite"}
WriteOf == [reqClient |-> "reqWrite", rehClient |-> "rehWrite", mergeClient |-> "mergeWrite",
            storeClient |-> "storeWrite", refreshClient |-> "refreshWrite"]
ClientWrite == {WriteOf[p] : p \in DOMAIN WriteOf}
ClientTask == DOMAIN WriteOf \cup ClientWrite
Stage == {"idle", "mergeRead", "mergeRead2", "poll", "query", "refreshRead"}
         \cup ConnTask \cup ClientTask

Job == [pc : Stage, conn : Conn \cup {None}, sub : Sub \cup {None}, filter : Filter \cup {None},
        snap : Snapshot, read : Snapshot, todo : SUBSET Sub, seen : SUBSET Sub]

Idle == [pc |-> "idle", conn |-> None, sub |-> None, filter |-> None,
         snap |-> Empty, read |-> Empty, todo |-> {}, seen |-> {}]

Begin(stage, c, x) == [Idle EXCEPT !.pc = stage, !.conn = c, !.snap = x]

Named(c) == ClientOf[c] \notin Anonymous
ClientIn(h) == ClientOf[job[h].conn]

HoldsConn(h) == LET q == connQ[job[h].conn] IN q # <<>> /\ Head(q) = h
HoldsClient(h) == LET q == clientQ[ClientIn(h)] IN q # <<>> /\ Head(q) = h

Enqueue(q, k, h) == [q EXCEPT ![k] = Append(@, h)]
Release(q, k) == [q EXCEPT ![k] = Tail(@)]
Goto(h, stage) == [job EXCEPT ![h] = IF stage = "idle" THEN Idle ELSE [@ EXCEPT !.pc = stage]]

\* setRelayClientConnectionKey, which needs a client.
Touch(c) == connOf' = IF Named(c) THEN [connOf EXCEPT ![ClientOf[c]] = c] ELSE connOf

-----------------------------------------------------------------------------
(* POST: REQ and CLOSE *)

\* The handler notes the connection and reads the stored snapshot, which it
\* later merges into whatever is stored when its write runs.
ReqStart(h, c, s, f) ==
    /\ job[h].pc = "idle" /\ f \in ReqFilters[s]
    /\ Touch(c)
    /\ connQ' = Enqueue(connQ, c, h)
    /\ job' = [job EXCEPT ![h] = [Begin("reqTask", c, conn[c]) EXCEPT !.sub = s, !.filter = f]]
    /\ UNCHANGED <<conn, client, clientQ, log, late, want, returned>>

\* A REQ makes a new request of an id: a replay in progress answered the old one.
Requested(jobs, c, s) ==
    [g \in Handler |-> IF jobs[g].conn = c THEN [jobs[g] EXCEPT !.seen = @ \ {s}] ELSE jobs[g]]

\* publishSubscription's task: the connection snapshot, then the client
\* snapshot while the connection queue is still held.
ReqTask(h) ==
    LET c == job[h].conn
        s == job[h].sub
        merged == [Merge(conn[c], job[h].snap) EXCEPT
                     ![s] = [filter |-> job[h].filter, cursor |-> 0]]
    IN  /\ job[h].pc = "reqTask" /\ HoldsConn(h)
        /\ want' = [want EXCEPT ![c][s] = job[h].filter]
        /\ \E x \in Pruned(merged, s) :
             /\ conn' = [conn EXCEPT ![c] = x]
             /\ job' = Requested(IF Named(c)
                                 THEN [job EXCEPT ![h].pc = "reqClient",
                                                  ![h].snap = FilterEphemeral(x)]
                                 ELSE Goto(h, "idle"), c, s)
        /\ connQ' = IF Named(c) THEN connQ ELSE Release(connQ, c)
        /\ clientQ' = IF Named(c) THEN Enqueue(clientQ, ClientOf[c], h) ELSE clientQ
        /\ UNCHANGED <<client, connOf, log, late, returned>>

\* unsubscribe reads inside its task, so it queues at once.
CloseStart(h, c, s) ==
    /\ job[h].pc = "idle"
    /\ Touch(c)
    /\ connQ' = Enqueue(connQ, c, h)
    /\ job' = [job EXCEPT ![h] = [Begin("closeTask", c, Empty) EXCEPT !.sub = s]]
    /\ UNCHANGED <<conn, client, clientQ, log, late, want, returned>>

\* An id that is not stored ends the task, client snapshot untouched.
CloseTask(h) ==
    LET c == job[h].conn
        s == job[h].sub
        more == conn[c][s] # None /\ Named(c)
    IN  /\ job[h].pc = "closeTask" /\ HoldsConn(h)
        /\ want' = [want EXCEPT ![c][s] = None]
        /\ \E x \in IF conn[c][s] = None THEN {conn[c]}
                    ELSE Pruned(Without(conn[c], {s}), None) :
             conn' = [conn EXCEPT ![c] = x]
        /\ job' = Goto(h, IF more THEN "closeRead" ELSE "idle")
        /\ connQ' = IF more THEN connQ ELSE Release(connQ, c)
        /\ UNCHANGED <<client, connOf, clientQ, log, late, returned>>

\* The client snapshot is edited outside the queue of the client.
CloseReadClient(h) ==
    LET c == job[h].conn
        more == client[ClientOf[c]][job[h].sub] # None
    IN  /\ job[h].pc = "closeRead" /\ HoldsConn(h)
        /\ job' = IF more THEN [job EXCEPT ![h].pc = "closeWrite", ![h].read = client[ClientOf[c]]]
                  ELSE Goto(h, "idle")
        /\ connQ' = IF more THEN connQ ELSE Release(connQ, c)
        /\ UNCHANGED <<conn, client, connOf, clientQ, log, late, want, returned>>

CloseWriteClient(h) ==
    LET c == job[h].conn IN
    /\ job[h].pc = "closeWrite" /\ HoldsConn(h)
    /\ \E x \in Pruned(FilterEphemeral(Without(job[h].read, {job[h].sub})), None) :
         client' = [client EXCEPT ![ClientOf[c]] = x]
    /\ job' = Goto(h, "idle")
    /\ connQ' = Release(connQ, c)
    /\ UNCHANGED <<conn, connOf, clientQ, log, late, want, returned>>

-----------------------------------------------------------------------------
(* GET: the gateway's poll *)

\* A client seen last on another connection has that snapshot copied over.
PollStart(h, c) ==
    LET prev == connOf[ClientOf[c]]
        rehydrate == Named(c) /\ prev \notin {None, c} /\ Present(conn[prev]) # {}
    IN  /\ job[h].pc = "idle"
        /\ job' = [job EXCEPT ![h] = IF rehydrate THEN Begin("rehTask", c, conn[prev])
                                     ELSE Begin(IF Named(c) THEN "mergeRead" ELSE "poll", c, Empty)]
        /\ connQ' = IF rehydrate THEN Enqueue(connQ, c, h) ELSE connQ
        /\ UNCHANGED <<conn, client, connOf, clientQ, log, late, want, returned>>

\* Otherwise the client snapshot is merged into that of the connection.
MergeReadClient(h) ==
    /\ job[h].pc = "mergeRead"
    /\ \E x \in Compacted(client[ClientIn(h)]) :
         job' = [job EXCEPT ![h].pc = "mergeRead2", ![h].snap = x]
    /\ UNCHANGED <<conn, client, connOf, connQ, clientQ, log, late, want, returned>>

MergeReadConn(h) ==
    LET c == job[h].conn IN
    /\ job[h].pc = "mergeRead2"
    /\ \E current \in Compacted(conn[c]) :
       \E x \in Compacted(ServerMerge(current, job[h].snap)) :
         /\ job' = [job EXCEPT ![h].pc = IF Present(x) = {} THEN "poll" ELSE "mergeTask",
                               ![h].snap = x]
         /\ connQ' = IF Present(x) = {} THEN connQ ELSE Enqueue(connQ, c, h)
    /\ UNCHANGED <<conn, client, connOf, clientQ, log, late, want, returned>>

\* handleSubscription works on the snapshot it reads here.
PollRead(h) ==
    LET c == job[h].conn
        there == Present(conn[c])
    IN  /\ job[h].pc = "poll"
        /\ Touch(c)
        /\ job' = [job EXCEPT ![h] = IF there = {} THEN Idle
                                     ELSE [Begin("query", c, conn[c]) EXCEPT
                                             !.todo = there, !.seen = there \cap Ephemeral]]
        /\ UNCHANGED <<conn, client, connQ, clientQ, log, late, want, returned>>

SkipSecondVariant(entry) == {e \in log : e \in Matches[entry.filter] /\ Stamp[e] > entry.cursor + 1}
Found(entry) == {e \in log : e \in Matches[entry.filter] /\ Stamp[e] > entry.cursor}

\* The cursor moves to the newest event returned; a one-shot id leaves the
\* snapshot.
Replayed(s, entry, events) ==
    IF s \in Ephemeral THEN {None}
    ELSE IF events = {} THEN {entry}
    ELSE {[entry EXCEPT !.cursor = Stamp[e]] :
            e \in {d \in events : \A g \in events : Stamp[g] <= Stamp[d]}}

QuerySub(h, s) ==
    LET entry == job[h].snap[s] IN
    /\ job[h].pc = "query" /\ s \in job[h].todo
    /\ \E x \in Replayed(s, entry, Found(entry)) :
         job' = [job EXCEPT ![h].snap[s] = x, ![h].todo = @ \ {s}]
    /\ returned' = returned \cup {<<ClientIn(h), s, e>> : e \in Found(entry)}
    /\ UNCHANGED <<conn, client, connOf, connQ, clientQ, log, late, want>>

PollStore(h) ==
    /\ job[h].pc = "query" /\ job[h].todo = {}
    /\ \E x \in Compacted(job[h].snap) :
         job' = [job EXCEPT ![h].pc = "storeTask", ![h].snap = x]
    /\ connQ' = Enqueue(connQ, job[h].conn, h)
    /\ UNCHANGED <<conn, client, connOf, clientQ, log, late, want, returned>>

-----------------------------------------------------------------------------
(* requestRelaySubscriptionRefresh, for one client of its loop *)

RefreshStart(h, k) ==
    /\ job[h].pc = "idle" /\ connOf[k] # None
    /\ \E x \in Compacted(conn[connOf[k]]) :
         job' = [job EXCEPT ![h] = Begin("refreshTask", connOf[k], Reset(x))]
    /\ connQ' = Enqueue(connQ, connOf[k], h)
    /\ UNCHANGED <<conn, client, connOf, clientQ, log, late, want, returned>>

RefreshReadClient(h) ==
    /\ job[h].pc = "refreshRead"
    /\ \E x \in Compacted(client[ClientIn(h)]) :
         job' = [job EXCEPT ![h].pc = "refreshClient", ![h].snap = Reset(x)]
    /\ clientQ' = Enqueue(clientQ, ClientIn(h), h)
    /\ UNCHANGED <<conn, client, connOf, connQ, log, late, want, returned>>

-----------------------------------------------------------------------------
(* The queued writes *)

AfterConn(h) ==
    CASE job[h].pc = "rehTask" -> "rehClient"
      [] job[h].pc = "mergeTask" -> "mergeClient"
      [] job[h].pc = "storeTask" -> IF Named(job[h].conn) THEN "storeClient" ELSE "idle"
      [] job[h].pc = "refreshTask" -> "refreshRead"

\* updateSubscriptions: merge the handler's snapshot into the stored one.  The
\* handler goes on to its client write.
UpdateConn(h) ==
    LET c == job[h].conn IN
    /\ job[h].pc \in UpdateTask /\ HoldsConn(h)
    /\ \E x \in Pruned(Merge(conn[c], job[h].snap), None) : conn' = [conn EXCEPT ![c] = x]
    /\ want' = IF job[h].pc = "rehTask"
               THEN [want EXCEPT ![c] = [s \in Sub |-> IF job[h].snap[s] = None THEN @[s]
                                                      ELSE job[h].snap[s].filter]]
               ELSE IF job[h].pc = "storeTask"
               THEN [want EXCEPT ![c] = [s \in Sub |-> IF s \in job[h].seen THEN None ELSE @[s]]]
               ELSE want
    /\ connQ' = Release(connQ, c)
    /\ clientQ' = IF AfterConn(h) \in ClientTask THEN Enqueue(clientQ, ClientOf[c], h) ELSE clientQ
    /\ job' = Goto(h, AfterConn(h))
    /\ UNCHANGED <<client, connOf, log, late, returned>>

ReadClient(h) ==
    /\ job[h].pc \in DOMAIN WriteOf /\ HoldsClient(h)
    /\ job' = [job EXCEPT ![h].pc = WriteOf[@], ![h].read = client[ClientIn(h)]]
    /\ UNCHANGED <<conn, client, connOf, connQ, clientQ, log, late, want, returned>>

AfterClient(h) == IF job[h].pc \in {"rehWrite", "mergeWrite"} THEN "poll" ELSE "idle"

\* updateClientSubscriptions; a REQ then leaves the connection queue as well.
WriteClient(h) ==
    /\ job[h].pc \in ClientWrite /\ HoldsClient(h)
    /\ job[h].pc = "reqWrite" => HoldsConn(h)
    /\ \E x \in Pruned(FilterEphemeral(Merge(job[h].read, job[h].snap)), None) :
         client' = [client EXCEPT ![ClientIn(h)] = x]
    /\ clientQ' = Release(clientQ, ClientIn(h))
    /\ connQ' = IF job[h].pc = "reqWrite" THEN Release(connQ, job[h].conn) ELSE connQ
    /\ job' = Goto(h, AfterClient(h))
    /\ UNCHANGED <<conn, connOf, log, late, want, returned>>

-----------------------------------------------------------------------------
(* An append that fails (the relay lost its writer, or is closing) *)

ConnWriteFails(h) ==
    /\ job[h].pc \in UpdateTask \cup {"reqTask", "closeTask"} /\ HoldsConn(h)
    /\ connQ' = Release(connQ, job[h].conn)
    /\ job' = Goto(h, CASE job[h].pc = "rehTask" -> "mergeRead"
                         [] job[h].pc = "mergeTask" -> "poll"
                         [] job[h].pc = "refreshTask" -> "refreshRead"
                         [] OTHER -> "idle")
    /\ UNCHANGED <<conn, client, connOf, clientQ, log, late, want, returned>>

KeepConnVariant(h) ==
    /\ job[h].pc \in ClientWrite \cup {"closeWrite"}
    /\ job[h].pc = "closeWrite" \/ HoldsClient(h)
    /\ job[h].pc \in {"reqWrite", "closeWrite"} => HoldsConn(h)
    /\ clientQ' = IF job[h].pc = "closeWrite" THEN clientQ ELSE Release(clientQ, ClientIn(h))
    /\ job' = Goto(h, CASE job[h].pc = "rehWrite" -> "mergeRead"
                         [] job[h].pc = "mergeWrite" -> "poll"
                         [] OTHER -> "idle")
    /\ UNCHANGED <<conn, client, connOf, connQ, log, late, want, returned>>

ClientWriteFails(h) ==
    /\ job[h].pc \in ClientWrite \cup {"closeWrite"}
    /\ job[h].pc = "closeWrite" \/ HoldsClient(h)
    /\ job[h].pc \in {"reqWrite", "closeWrite"} => HoldsConn(h)
    /\ clientQ' = IF job[h].pc = "closeWrite" THEN clientQ ELSE Release(clientQ, ClientIn(h))
    /\ connQ' = IF job[h].pc \in {"reqWrite", "closeWrite"} THEN Release(connQ, job[h].conn)
                ELSE connQ
    /\ job' = Goto(h, CASE job[h].pc = "rehWrite" -> "mergeRead"
                         [] job[h].pc = "mergeWrite" -> "poll"
                         [] OTHER -> "idle")
    /\ UNCHANGED <<conn, client, connOf, log, late, want, returned>>

-----------------------------------------------------------------------------
\* NostrRelay.apply puts an event into the view, published here or replicated.
Arrive(e) ==
    /\ e \notin log
    /\ log' = log \cup {e}
    /\ late' = IF \E d \in log : Stamp[d] >= Stamp[e] THEN late \cup {e} ELSE late
    /\ UNCHANGED <<conn, client, connOf, connQ, clientQ, job, want, returned>>

Init ==
    /\ conn = [c \in Conn |-> Empty] /\ client = [k \in Client |-> Empty]
    /\ connOf = [k \in Client |-> None]
    /\ connQ = [c \in Conn |-> <<>>] /\ clientQ = [k \in Client |-> <<>>]
    /\ log = {} /\ late = {}
    /\ job = [h \in Handler |-> Idle]
    /\ want = [c \in Conn |-> [s \in Sub |-> None]]
    /\ returned = {}

Request(h) ==
    \/ \E c \in Conn, s \in Sub, f \in Filter : ReqStart(h, c, s, f)
    \/ \E c \in Conn, s \in Sub : CloseStart(h, c, s)
    \/ \E c \in Conn : PollStart(h, c)
    \/ \E k \in Client : RefreshStart(h, k)

Step(h) ==
    \/ ReqTask(h) \/ CloseTask(h) \/ CloseReadClient(h) \/ CloseWriteClient(h)
    \/ MergeReadClient(h) \/ MergeReadConn(h) \/ PollRead(h)
    \/ \E s \in Sub : QuerySub(h, s)
    \/ PollStore(h) \/ RefreshReadClient(h)
    \/ UpdateConn(h) \/ ReadClient(h) \/ WriteClient(h)

Next ==
    \/ \E h \in Handler : Request(h) \/ Step(h) \/ ConnWriteFails(h) \/ ClientWriteFails(h)
    \/ \E e \in Event : Arrive(e)

Spec == Init /\ [][Next]_vars

-----------------------------------------------------------------------------
(* Properties *)

TypeOK ==
    /\ conn \in [Conn -> Snapshot] /\ client \in [Client -> Snapshot]
    /\ connOf \in [Client -> Conn \cup {None}]
    /\ connQ \in [Conn -> Seq(Handler)] /\ clientQ \in [Client -> Seq(Handler)]
    /\ log \subseteq Event /\ late \subseteq log
    /\ job \in [Handler -> Job]
    /\ want \in [Conn -> [Sub -> Filter \cup {None}]]
    /\ returned \subseteq Client \X Sub \X Event

\* A subscription whose REQ was committed, and that no CLOSE and no completed
\* one-shot replay has taken back, is stored, whatever polls, refreshes and
\* other REQs were in flight with older snapshots.  Timelines may be pruned.
NoLostSubscription ==
    \A c \in Conn : \A s \in Sub \ Timeline : want[c][s] # None => conn[c][s] # None

\* Ids under which the client only ever asks for one filter.
Stable == {s \in Sub : \A f, g \in ReqFilters[s] : f = g}

\* A snapshot skips nothing: an event at or below its cursor that arrived in
\* order was put into a response to that client.
Covered(x, k) ==
    \A s \in Stable : x[s] # None =>
        \A e \in (log \ late) \cap Matches[x[s].filter] :
            Stamp[e] <= x[s].cursor => <<k, s, e>> \in returned

\* No stored cursor moves past an event the client was not given, however
\* polls of old and new connections, refreshes and reconnects interleave.
NoGap ==
    /\ \A c \in Conn : Covered(conn[c], ClientOf[c])
    /\ \A k \in Client : Covered(client[k], k)

\* An older poll that stores after a newer one does not move a cursor back;
\* only a REQ for the id does.
CursorNeverBack ==
    \A c \in Conn, s \in Sub :
        (conn[c][s] # None /\ conn'[c][s] # None /\ conn'[c][s].cursor < conn[c][s].cursor)
        => \E h \in Handler : /\ job[h].pc = "reqTask" /\ job[h].conn = c /\ job[h].sub = s
                              /\ HoldsConn(h)
CursorMonotone == [][CursorNeverBack]_vars

\* While a request is in progress some handler can go on: a handler waits in two
\* queues, in one of them while it holds the other, and they are never all
\* waiting for one another.
NeverStuck ==
    (\E h \in Handler : job[h].pc # "idle") => \E h \in Handler : ENABLED Step(h)

\* "One-shot fetch subscriptions must not accumulate in persisted snapshots"
\* (line 1317): gone once the replay that completed them is stored.
OneShotsRemoved ==
    \A c \in Conn : \A s \in Ephemeral : conn[c][s] # None => want[c][s] # None

\* "Failed to reset connection subscription cursor" (relay-server line 702) names
\* what the write is for: it leaves the cursors it resets at null.
RefreshResets ==
    \A h \in Handler : (job[h].pc = "refreshTask" /\ UpdateConn(h))
        => \A s \in Present(job[h].snap) :
             conn'[job[h].conn][s] # None => conn'[job[h].conn][s].cursor = 0
RefreshResetsCursor == [][RefreshResets]_vars
=============================================================================
