---------------------------- MODULE BlindPeering ----------------------------
\* The blind peering manager (blind-peering-manager.mjs) and the handlers of
\* index.js that start and stop it: the tables of mirrored relays and drives and
\* their file, the refresh with its backoff, the publication of a relay's system
\* core with its retries, the key of the own blind peer, and the hook that
\* mirrors a relay again when it changed.
\*
\* One relay and one profile picture drive.  A handler runs from one await to the
\* next; handlers are not serialised.  The network answers every call.
EXTENDS Naturals

CONSTANTS Handler,     \* worker messages that may be handled at the same time
          Chain,       \* publications of the system core that may be under way at once
          MaxAttempts, \* backoffConfig.maxAttempts, systemCorePublishConfig.maxAttempts
          MaxRestarts  \* bound on crashes of the worker

BlindAssumption == MaxAttempts \in Nat \ {0} /\ MaxRestarts \in Nat /\ "timer" \notin Handler

\* Keys of mirrorTargets and of metadata.targets.  The picture drive is put in
\* the table as "drive:<id>" and in the metadata as "pfp-drive:<id>".
Key == {"relay", "drive", "pfp-drive"}
TableKey(t) == IF t = "pfp-drive" THEN "drive" ELSE t
Unreadable == [read |-> FALSE, held |-> {}]

VARIABLES
    enabled,       \* what configure() was last told
    started, engine, \* "none", "live", or "dead": its swarm is destroyed
    handler,       \* where each handler waits
    clearing,      \* the entries a handler has still to remove
    loaded, mirrorTargets, targets,      \* metadataLoaded, and metadata.targets
    dirty, saveTimer, saves, metadata,   \* the writes under way, and the file
    backoff, chains, retryHandle, identity, hook,
    crashed,
    \* Histories.
    missed,        \* no handler has brought the manager to its settings all alone
    crossed,       \* a start and a stop were under way at the same time
    reread,        \* the file was read after the tables were in use
    outdated,      \* a change was made while the file was written, or no write was made
    kept,          \* the entries that may be there after a clearing
    owed           \* a system core is to be published

tables == <<loaded, mirrorTargets, targets, dirty, saveTimer, saves, metadata, reread, outdated>>
life == <<enabled, started, engine, handler, clearing, missed, crossed>>
publishing == <<chains, retryHandle, owed>>
blindVars == <<life, tables, kept, backoff, publishing, identity, hook, crashed>>

Free == "idle"
Attempt == 1..MaxAttempts
NoChain == [at |-> "idle", attempt |-> 1]

BlindTypeOK ==
    /\ {enabled, started, loaded, dirty, saveTimer, missed, crossed, reread, outdated, owed} \subseteq BOOLEAN
    /\ engine \in {"none", "live", "dead"}
    /\ handler \in [Handler -> {Free, "loading", "clearing", "closing", "destroying", "saving"}]
    /\ clearing \in [Handler -> SUBSET Key]
    /\ {mirrorTargets, targets, kept} \subseteq SUBSET Key
    /\ saves \in [Handler \cup {"timer"} -> [at : {"none", "mkdir"}] \cup [at : {"write"}, held : SUBSET Key]]
    /\ metadata \in [read : BOOLEAN, held : SUBSET Key]
    /\ backoff \in [attempt : 0..(MaxAttempts + 1), timer : BOOLEAN, inflight : BOOLEAN, idled : BOOLEAN]
    /\ chains \in [Chain -> [at : {"idle", "adding", "waiting"}, attempt : Attempt]]
    /\ retryHandle \in Chain \cup {"none"}
    /\ identity \in [known : BOOLEAN, announced : BOOLEAN, monitor : BOOLEAN]
    /\ hook \in [timer : BOOLEAN, run : {"idle", "reading", "ensuring", "refreshing"},
                 pending : BOOLEAN, news : BOOLEAN, dropped : BOOLEAN]
    /\ crashed \in 0..MaxRestarts

NoSave == [at |-> "none"]
NoBackoff == [attempt |-> 0, timer |-> FALSE, inflight |-> FALSE, idled |-> FALSE]
NoHook == [timer |-> FALSE, run |-> "idle", pending |-> FALSE, news |-> FALSE, dropped |-> FALSE]

NoIdentity == [known |-> FALSE, announced |-> FALSE, monitor |-> FALSE]
AllFree == [k \in Handler |-> Free]
NothingCleared == [k \in Handler |-> {}]
NoSaves == [s \in Handler \cup {"timer"} |-> NoSave]
NoChains == [p \in Chain |-> NoChain]

BlindInit ==
    /\ enabled \in BOOLEAN /\ metadata = Unreadable /\ crashed = 0
    /\ started = FALSE /\ engine = "none" /\ handler = AllFree /\ clearing = NothingCleared
    /\ loaded = FALSE /\ dirty = FALSE /\ saveTimer = FALSE /\ saves = NoSaves
    /\ mirrorTargets = {} /\ targets = {} /\ kept = {}
    /\ backoff = NoBackoff /\ hook = NoHook /\ identity = NoIdentity
    /\ chains = NoChains /\ retryHandle = "none"
    /\ missed = TRUE /\ crossed = FALSE /\ reread = FALSE /\ outdated = FALSE /\ owed = FALSE

-----------------------------------------------------------------------------
\* Tables and file.
Stopping(k) == handler[k] \in {"closing", "destroying"}

\* #recordMirrorMetadata and #removeMetadataEntry: the change, and a timer for
\* the file unless one runs.
Note(to) ==
    /\ targets' = to
    /\ IF to = targets THEN UNCHANGED <<dirty, saveTimer>> ELSE dirty' = TRUE /\ saveTimer' = TRUE

\* ensureRelayMirror and ensureHyperdriveMirror note the entry each time.
Mirrored(t) ==
    /\ started /\ engine # "none"
    /\ mirrorTargets' = mirrorTargets \cup {TableKey(t)}
    /\ targets' = targets \cup {t} /\ dirty' = TRUE /\ saveTimer' = TRUE
    /\ kept' = kept \cup {t, TableKey(t)}
    /\ UNCHANGED <<loaded, saves, metadata, reread, outdated>>

\* A removal that leaves the metadata.
TableOnlyVariant(t) ==
    /\ mirrorTargets' = mirrorTargets \ {TableKey(t)}
    /\ UNCHANGED <<targets, dirty, saveTimer, loaded, saves, metadata, reread, outdated, kept>>

\* removeRelayMirror and removeHyperdriveMirror: whatever its type, a drive is
\* looked up as "drive:<id>".
Removed(t) ==
    /\ mirrorTargets' = mirrorTargets \ {TableKey(t)}
    /\ Note(targets \ {TableKey(t)})
    /\ UNCHANGED <<loaded, saves, metadata, reread, outdated, kept>>

SaveFires ==
    /\ saveTimer /\ saves["timer"] = NoSave
    /\ saveTimer' = FALSE
    /\ saves' = [saves EXCEPT !["timer"] = IF dirty THEN [at |-> "mkdir"] ELSE NoSave]
    /\ UNCHANGED <<loaded, mirrorTargets, targets, dirty, metadata, reread, outdated>>
    /\ UNCHANGED <<life, kept, backoff, publishing, identity, hook, crashed>>

\* The payload is made once the directory is there.
SaveTakes(s) ==
    /\ saves[s] = [at |-> "mkdir"]
    /\ saves' = [saves EXCEPT ![s] = [at |-> "write", held |-> targets]]
    /\ UNCHANGED <<loaded, mirrorTargets, targets, dirty, saveTimer, metadata, reread, outdated>>
    /\ UNCHANGED <<life, kept, backoff, publishing, identity, hook, crashed>>

\* The handler whose stop() ends with this write is done.
SaveDone(s) ==
    /\ saves' = [saves EXCEPT ![s] = NoSave]
    /\ handler' = IF s \in Handler THEN [handler EXCEPT ![s] = Free] ELSE handler
    /\ UNCHANGED <<loaded, mirrorTargets, targets, saveTimer, reread>>
    /\ UNCHANGED <<enabled, started, engine, clearing, missed, crossed>>
    /\ UNCHANGED <<kept, backoff, publishing, identity, hook, crashed>>

\* The tables are clean after a write, whatever was changed meanwhile.
SaveEnds(s) ==
    /\ saves[s].at = "write" /\ SaveDone(s)
    /\ metadata' = [read |-> TRUE, held |-> saves[s].held] /\ dirty' = FALSE
    /\ outdated' = (saves[s].held # targets)

SaveFails(s) ==
    /\ saves[s].at = "write" /\ SaveDone(s)
    /\ outdated' = TRUE /\ UNCHANGED <<metadata, dirty>>

-----------------------------------------------------------------------------
\* start() and stop().

\* The end of start(): the key of the own blind peer is announced, or looked for
\* four times a second.
Up ==
    /\ started' = TRUE
    /\ identity' = [identity EXCEPT !.announced = identity.known, !.monitor = ~identity.known]

\* A start that finds the file read runs through.
BeginStart(k) ==
    /\ engine' = "live"
    /\ crossed' = (\E o \in Handler : Stopping(o))
    /\ IF loaded THEN Up /\ UNCHANGED handler
                 ELSE handler' = [handler EXCEPT ![k] = "loading"] /\ UNCHANGED <<started, identity>>
    /\ UNCHANGED clearing

Load(k) ==
    /\ handler[k] = "loading"
    /\ handler' = [handler EXCEPT ![k] = Free]
    /\ Up
    /\ loaded' = TRUE /\ reread' = (reread \/ loaded)
    /\ targets' = (IF metadata.read THEN metadata.held ELSE targets)
    /\ mirrorTargets' = mirrorTargets \cup metadata.held
    /\ kept' = kept \cup metadata.held
    /\ UNCHANGED <<dirty, saveTimer, saves, metadata, outdated>>
    /\ UNCHANGED <<enabled, engine, clearing, missed, crossed, backoff, publishing, hook, crashed>>

Idle(k) == handler[k] = Free
Alone(k) == \A o \in Handler \ {k} : Idle(o)

\* A message that starts the manager without asking whether it has started.
StartAgain(k) ==
    /\ Idle(k) /\ enabled /\ BeginStart(k)
    /\ missed' = ~Alone(k)
    /\ UNCHANGED <<enabled, tables, kept, backoff, publishing, hook, crashed>>

\* stop(), to its first await.
BeginStop(k) ==
    IF started
      THEN /\ started' = FALSE
           /\ handler' = [handler EXCEPT ![k] = "closing"]
           /\ identity' = [identity EXCEPT !.announced = FALSE, !.monitor = FALSE]
           /\ owed' = FALSE
           /\ crossed' = (crossed \/ \E o \in Handler : handler[o] = "loading")
      ELSE handler' = [handler EXCEPT ![k] = Free] /\ UNCHANGED <<started, identity, owed, crossed>>

Stop(k) ==
    /\ Idle(k) /\ started /\ BeginStop(k)
    /\ missed' = TRUE
    /\ UNCHANGED <<enabled, engine, clearing, tables, kept, backoff>>
    /\ UNCHANGED <<chains, retryHandle, hook, crashed>>

\* The settings are changed: configure(), then a start, or a clearing and a stop.
Configure(k) ==
    /\ Idle(k)
    /\ enabled' \in BOOLEAN
    /\ missed' = ~Alone(k)
    /\ \/ /\ enabled' /\ ~started
          /\ BeginStart(k) /\ UNCHANGED kept
       \/ /\ ~enabled' /\ started
          /\ handler' = [handler EXCEPT ![k] = "clearing"]
          /\ clearing' = [clearing EXCEPT ![k] = mirrorTargets]
          /\ kept' = {"pfp-drive"}
          /\ UNCHANGED <<started, engine, crossed, identity>>
       \/ /\ enabled' = started
          /\ UNCHANGED <<started, engine, handler, clearing, crossed, kept, identity>>
    /\ UNCHANGED <<tables, backoff, publishing, hook, crashed>>

\* clearAllMirrors removes the entries of its snapshot one after the other, and
\* waits for the network after each; then the manager stops.
Clear(k) ==
    /\ handler[k] = "clearing"
    /\ IF clearing[k] = {}
         THEN BeginStop(k) /\ UNCHANGED <<clearing, tables, kept>>
         ELSE /\ \E t \in clearing[k] :
                   clearing' = [clearing EXCEPT ![k] = @ \ {t}] /\ Removed(t)
              /\ UNCHANGED <<started, handler, identity, owed, crossed>>
    /\ UNCHANGED <<enabled, engine, missed, backoff, chains, retryHandle, hook, crashed>>

\* The engine is closed: whatever engine there is now is dropped.
Closed(k) ==
    /\ handler[k] = "closing"
    /\ engine' = "none"
    /\ handler' = [handler EXCEPT ![k] = "destroying"]
    /\ UNCHANGED <<enabled, started, clearing, missed, crossed, tables, kept, backoff>>
    /\ UNCHANGED <<publishing, identity, hook, crashed>>

Quiet(p) == [chains EXCEPT ![p] = NoChain]

\* The swarm is destroyed, the timers are cleared, the file is written.
Destroyed(k) ==
    /\ handler[k] = "destroying"
    /\ engine' = (IF engine = "live" THEN "dead" ELSE engine)
    /\ saveTimer' = FALSE
    /\ chains' = (IF retryHandle = "none" THEN chains ELSE Quiet(retryHandle))
    /\ retryHandle' = "none" /\ owed' = FALSE
    /\ handler' = [handler EXCEPT ![k] = "saving"]
    /\ saves' = [saves EXCEPT ![k] = [at |-> "mkdir"]]
    /\ UNCHANGED <<loaded, mirrorTargets, targets, dirty, metadata, reread, outdated>>
    /\ UNCHANGED <<enabled, started, clearing, missed, crossed, kept, backoff, identity, hook, crashed>>

\* The worker crashes and starts again; a crash can leave the file half written.
BlindCrash ==
    /\ crashed < MaxRestarts /\ crashed' = crashed + 1
    /\ metadata' \in {metadata} \cup
            (IF \E s \in DOMAIN saves : saves[s].at = "write" THEN {Unreadable} ELSE {})
    /\ started' = FALSE /\ engine' = "none" /\ handler' = AllFree /\ clearing' = NothingCleared
    /\ loaded' = FALSE /\ dirty' = FALSE /\ saveTimer' = FALSE /\ saves' = NoSaves
    /\ mirrorTargets' = {} /\ targets' = {} /\ kept' = {}
    /\ backoff' = NoBackoff /\ hook' = NoHook /\ identity' = NoIdentity
    /\ chains' = NoChains /\ retryHandle' = "none"
    /\ missed' = TRUE /\ crossed' = FALSE /\ reread' = FALSE /\ outdated' = FALSE /\ owed' = FALSE
    /\ UNCHANGED enabled

-----------------------------------------------------------------------------
\* refreshFromBlindPeers.

Refreshed(b) ==
    IF ~started THEN [b EXCEPT !.timer = FALSE, !.idled = TRUE]
    ELSE IF b.inflight THEN [b EXCEPT !.timer = FALSE]
    ELSE [b EXCEPT !.timer = FALSE, !.inflight = TRUE, !.idled = FALSE]

\* A caller, or the timer of the backoff, asks for a refresh.
Refresh ==
    /\ backoff' = Refreshed(backoff)
    /\ UNCHANGED <<life, tables, kept, publishing, identity, hook, crashed>>

BackoffFires == backoff.timer /\ Refresh

\* A failed refresh that nobody repeats.
NoRetryVariant(ok) ==
    /\ backoff.inflight
    /\ backoff' = IF ok THEN NoBackoff
                  ELSE [backoff EXCEPT !.inflight = FALSE, !.attempt = IF @ > MaxAttempts THEN @ ELSE @ + 1]
    /\ UNCHANGED <<life, tables, kept, publishing, identity, hook, crashed>>

\* The engine resumed, or could not; an attempt past the last is not repeated.
RefreshEnds(ok) ==
    /\ backoff.inflight
    /\ ~ok => engine # "none"
    /\ LET next == IF backoff.attempt > MaxAttempts THEN backoff.attempt ELSE backoff.attempt + 1
       IN backoff' = IF ok THEN [NoBackoff EXCEPT !.timer = backoff.timer]
                     ELSE [backoff EXCEPT !.inflight = FALSE, !.attempt = next,
                                          !.timer = @ \/ next \in Attempt]
    /\ UNCHANGED <<life, tables, kept, publishing, identity, hook, crashed>>

-----------------------------------------------------------------------------
\* #publishRelaySystemCore.

NoPublish == UNCHANGED publishing

\* A first attempt takes over from the retry that waits.
PublishCore(p) ==
    /\ chains[p] = NoChain
    /\ chains' = [c \in Chain |-> IF c = p THEN [at |-> "adding", attempt |-> 1]
                                  ELSE IF c = retryHandle THEN NoChain ELSE chains[c]]
    /\ retryHandle' = "none" /\ owed' = TRUE

\* A relay is mirrored; with mirrors of its own its system core is published,
\* else it is left to the engine.
MirrorRelay ==
    /\ Mirrored("relay")
    /\ (\E p \in Chain : PublishCore(p)) \/ NoPublish

Seed ==
    /\ MirrorRelay \/ (Mirrored("pfp-drive") /\ NoPublish)
    /\ UNCHANGED <<life, backoff, identity, hook, crashed>>

\* A relay that may not be mirrored any more, or is left.
RemoveRelay ==
    /\ loaded \/ started \/ enabled
    /\ Removed("relay")
    /\ UNCHANGED <<life, backoff, publishing, identity, hook, crashed>>

Acknowledged(p) ==
    /\ chains[p].at = "adding"
    /\ chains' = [c \in Chain |-> IF c \in {p, retryHandle} THEN NoChain ELSE chains[c]]
    /\ retryHandle' = "none" /\ owed' = FALSE
    /\ UNCHANGED <<life, tables, kept, backoff, identity, hook, crashed>>

\* The last attempt forgets the handle of a timer that another publication set.
GivesUp(p) ==
    /\ chains[p] = [at |-> "adding", attempt |-> MaxAttempts]
    /\ chains' = Quiet(p)
    /\ retryHandle' = "none" /\ owed' = FALSE
    /\ UNCHANGED <<life, tables, kept, backoff, identity, hook, crashed>>

\* Any other arms a timer in place of the one there is.
RetryLater(p) ==
    /\ chains[p].at = "adding" /\ chains[p].attempt < MaxAttempts
    /\ chains' = [c \in Chain |-> IF c = p THEN [chains[c] EXCEPT !.at = "waiting"]
                                  ELSE IF c = retryHandle THEN NoChain ELSE chains[c]]
    /\ retryHandle' = p
    /\ UNCHANGED <<life, tables, kept, owed, backoff, identity, hook, crashed>>

\* The timer of a publication: nothing is published by a manager that stopped.
RetryFires(p) ==
    /\ chains[p].at = "waiting"
    /\ retryHandle' = "none"
    /\ chains' = IF started /\ engine # "none"
                   THEN [chains EXCEPT ![p] = [at |-> "adding", attempt |-> @.attempt + 1]]
                   ELSE Quiet(p)
    /\ owed' = (owed /\ started /\ engine # "none")
    /\ UNCHANGED <<life, tables, kept, backoff, identity, hook, crashed>>

-----------------------------------------------------------------------------
\* The key of the own blind peer.

\* getLocalBlindPeerPublicKey: a key that has not been announced is, and nobody
\* has to look for it any more.
Announced(i) == IF i.known THEN [i EXCEPT !.announced = TRUE, !.monitor = FALSE] ELSE i

KeyAppears ==
    /\ started /\ engine = "live" /\ ~identity.known
    /\ identity' = [identity EXCEPT !.known = TRUE]
    /\ UNCHANGED <<life, tables, kept, backoff, publishing, hook, crashed>>

MonitorPolls ==
    /\ identity.monitor
    /\ identity' = Announced(identity)
    /\ UNCHANGED <<life, tables, kept, backoff, publishing, hook, crashed>>

\* The loop that registers the key with gateways asks for it too.
AskKey ==
    /\ engine # "none"
    /\ identity' = Announced(identity)
    /\ UNCHANGED <<life, tables, kept, backoff, publishing, hook, crashed>>

-----------------------------------------------------------------------------
\* attachRelayMirrorHooks: what a relay's updates set going.

HookOnly(h) ==
    /\ hook' = h
    /\ UNCHANGED <<life, tables, kept, backoff, publishing, identity, crashed>>

\* An update that comes during a sync is taken for part of it.
TakenForSeenVariant(h) ==
    IF ~started THEN [h EXCEPT !.dropped = h.news]
    ELSE IF h.run # "idle" THEN h
    ELSE [h EXCEPT !.pending = TRUE, !.timer = TRUE]

\* scheduleSync: an update the manager is not there for is lost.
Scheduled(h) ==
    IF ~started THEN [h EXCEPT !.dropped = h.news]
    ELSE [h EXCEPT !.pending = TRUE, !.timer = @ \/ h.run = "idle"]

\* The relay has a new writer.
Update == ~hook.news /\ loaded /\ HookOnly(Scheduled([hook EXCEPT !.news = TRUE]))

HookFires ==
    /\ hook.timer
    /\ HookOnly(IF ~hook.pending THEN [hook EXCEPT !.timer = FALSE]
                ELSE IF ~started
                  THEN [hook EXCEPT !.timer = FALSE, !.pending = FALSE, !.dropped = hook.news]
                  ELSE [hook EXCEPT !.timer = FALSE, !.pending = FALSE, !.run = "reading"])

\* The cores of the relay are read, then its mirrors; then it is mirrored.
HookReads == 
    /\ hook.run = "reading"
    /\ HookOnly([hook EXCEPT !.run = "ensuring", !.news = FALSE, !.dropped = FALSE])

HookEnsures ==
    /\ hook.run = "ensuring"
    /\ hook' = [hook EXCEPT !.run = "refreshing"]
    /\ IF started /\ engine # "none" THEN MirrorRelay ELSE UNCHANGED <<tables, kept, publishing>>
    /\ UNCHANGED <<life, backoff, identity, crashed>>

\* A sync ends, or fails before it read the cores; what came meanwhile starts
\* another.
HookEnds ==
    /\ hook.run \in {"reading", "refreshing"}
    /\ LET over == [hook EXCEPT !.run = "idle", !.pending = FALSE,
                                !.dropped = @ \/ hook.run = "reading"]
       IN HookOnly(IF hook.pending THEN Scheduled(over) ELSE over)

-----------------------------------------------------------------------------
BlindNext ==
    \/ \E k \in Handler : \/ StartAgain(k) \/ Stop(k) \/ Configure(k) \/ Load(k)
                          \/ Clear(k) \/ Closed(k) \/ Destroyed(k)
    \/ SaveFires
    \/ \E s \in DOMAIN saves : SaveTakes(s) \/ SaveEnds(s) \/ SaveFails(s)
    \/ BlindCrash \/ Seed \/ RemoveRelay
    \/ Refresh \/ BackoffFires \/ \E ok \in BOOLEAN : RefreshEnds(ok)
    \/ \E p \in Chain : Acknowledged(p) \/ GivesUp(p) \/ RetryLater(p) \/ RetryFires(p)
    \/ KeyAppears \/ MonitorPolls \/ AskKey
    \/ Update \/ HookFires \/ HookReads \/ HookEnsures \/ HookEnds

BlindSpec == BlindInit /\ [][BlindNext]_blindVars

\* Timers fire and the network answers.
ChainRuns(p) == Acknowledged(p) \/ GivesUp(p) \/ RetryLater(p) \/ RetryFires(p)
RefreshRuns == BackoffFires \/ \E ok \in BOOLEAN : RefreshEnds(ok)
SyncRuns == HookFires \/ HookReads \/ HookEnsures \/ HookEnds

Fairness ==
    /\ \A p \in Chain : WF_blindVars(ChainRuns(p))
    /\ WF_blindVars(RefreshRuns) /\ WF_blindVars(SyncRuns) /\ WF_blindVars(MonitorPolls)

BlindFairSpec == BlindSpec /\ Fairness

-----------------------------------------------------------------------------
NothingUnderWay == \A k \in Handler : Idle(k)

\* When no handler is at work the manager runs exactly if the settings say so,
\* unless the last handler met another at work or stopped it whatever the
\* settings (index.js 8721-8738).  The next change of the settings puts it right.
RunsAsWanted ==
    NothingUnderWay /\ ~missed => started = enabled

\* A manager that runs has an engine whose swarm lives, unless its start met a
\* stop: then the stop takes the new engine away, or its swarm.
RunsOnEngine == started /\ ~crossed => engine = "live"

\* After the manager was disabled its tables have nothing but what was put there
\* since, and the picture drive of an earlier run of the worker.
ClearingClears ==
    (\A k \in Handler : handler[k] # "clearing") => mirrorTargets \cup targets \subseteq kept

\* The metadata have every entry of the table, unless the file was read twice.
TablesAgree ==
    loaded /\ ~reread => \A t \in mirrorTargets : t \in targets \/ (t = "drive" /\ "pfp-drive" \in targets)

\* When no write is due the file is what the metadata are, unless a change came
\* while it was written, or a write failed.
FileIsTables ==
    loaded /\ ~saveTimer /\ (\A s \in DOMAIN saves : saves[s] = NoSave) /\ ~outdated =>
        targets = metadata.held

\* A refresh that failed is tried again, up to the last attempt, unless somebody
\* asked for one while the manager was stopped.
RefreshIsRetried ==
    backoff.attempt \in Attempt /\ ~backoff.idled => backoff.timer \/ backoff.inflight

\* A system core that is to be published is being published, or a timer runs,
\* whatever publications of it overlap.
CoreIsPublished == owed => \E p \in Chain : chains[p] # NoChain

\* A manager that runs has announced the key of its blind peer or looks for it.
KeyIsSought == started => identity.announced \/ identity.monitor

\* An update of a relay is followed by a sync that reads its cores after it,
\* unless a sync failed or the manager was stopped.
UpdateIsMirrored ==
    hook.news /\ ~hook.dropped =>
        hook.run = "reading" \/ (hook.pending /\ (hook.timer \/ hook.run # "idle"))

\* A refresh that failed is answered by one that works or by the last attempt; a
\* publication ends; a key that is there is announced; an update is mirrored.
MirrorsSettle ==
    /\ []<>(backoff.attempt \notin Attempt \/ backoff.idled)
    /\ \A p \in Chain : []<>(chains[p] = NoChain)
    /\ []<>(started /\ identity.known => identity.announced)
    /\ []<>(hook.news => hook.dropped)

\* What the blind peers are asked to mirror is what the worker wants mirrored.
MirrorsKeep ==
    /\ RunsAsWanted /\ RunsOnEngine /\ ClearingClears /\ TablesAgree /\ FileIsTables
    /\ RefreshIsRetried /\ CoreIsPublished /\ KeyIsSought /\ UpdateIsMirrored
=============================================================================
