---------------------------- MODULE MarmotThreads ----------------------------
(* One encrypted conversation of src/marmot-service.mjs: its messages, its    *)
(* cursor and its read state are brought up to date by syncs that ask the     *)
(* relays, run concurrently (polls, the initial sync, commands), and are      *)
(* written to marmot/state.json some time after they change.                  *)
(*                                                                            *)
(* A message is its index; Time is its created_at in units of a few seconds,  *)
(* Overlap stands for the 20 seconds a sync asks again.  A relay that answers *)
(* holds every event published so far.  The MLS library (external) reads an   *)
(* event of others again when it is handed in again, and not the own ones.    *)
EXTENDS Integers, FiniteSets, FiniteSetsExt

CONSTANTS
    Message,    \* events of the conversation
    Own,        \* those this worker sends
    Time,       \* [Message -> Nat \ {0}]
    Overlap,    \* how far before the cursor a sync asks
    Limit,      \* MAX_MESSAGES_PER_CONVERSATION
    MaxNow,     \* bound of the time
    MaxCrashes

ThreadAssumption ==
    /\ Message \subseteq Nat /\ IsFiniteSet(Message) /\ Own \subseteq Message
    /\ MaxNow \in Nat /\ Time \in [Message -> 1..MaxNow]
    /\ Overlap \in Nat /\ Limit \in Nat \ {0} /\ MaxCrashes \in Nat

\* "poll": syncAll.  "once": the initial sync, or the sync of one command.
Sync == {"poll", "once"}

VARIABLES
    onRelay,    \* events the relays hold
    member,     \* the client's own store has the group
    listed,     \* groupsById has it
    thread,     \* messagesByConversation
    syncedAt,   \* lastSyncAtByConversation
    lastRead,   \* readStateByConversation
    syncing,    \* [Sync -> record]
    inFlight,   \* syncInFlight
    armed,      \* persistTimer
    writing,    \* what persistInFlight writes, or Nothing
    disk,       \* state.json
    up,         \* the worker runs
    crashes,
    late,       \* history: events that came behind newer ones, or behind the join
    received,   \* history: events upserted; what a crash took back is left out
    skipped     \* history: a change that no write was started for

threadVars == <<onRelay, member, listed, thread, syncedAt, lastRead, syncing, inFlight,
                armed, writing, disk, up, crashes, late, received, skipped>>

Nothing == [thread |-> {}, cursor |-> 0, lastRead |-> 0, received |-> {}, any |-> FALSE]
Memory == [thread |-> thread, cursor |-> syncedAt, lastRead |-> lastRead, received |-> received, any |-> TRUE]

NoSync == [at |-> "idle", loops |-> FALSE, since |-> 0, left |-> {}, seen |-> 0, again |-> FALSE]

Newest(S) == Max({Time[e] : e \in S} \cup {0})

\* Events in the order of sortEventsChronological and of a thread.
Before(d, e) == Time[d] < Time[e] \/ (Time[d] = Time[e] /\ d < e)
First(S) == CHOOSE e \in S : \A d \in S \ {e} : Before(e, d)

-----------------------------------------------------------------------------
(* What is remembered, and its file *)

\* Wrong: a thread at its limit keeps its oldest messages.
FullVariant(S, e) == IF Cardinality(S) < Limit THEN S \cup {e} ELSE S

\* A message is inserted once; the oldest one leaves a full thread.
Upsert(S, e) ==
    LET T == S \cup {e} IN IF Cardinality(T) > Limit THEN T \ {First(T)} ELSE T

\* Wrong: nothing is scheduled when a message comes in by a sync.
UnscheduledVariant(changed) == UNCHANGED armed

Schedule(changed) == armed' = (armed \/ changed)

PersistTimer ==
    /\ up /\ armed /\ armed' = FALSE
    /\ skipped' = writing.any
    /\ writing' = IF writing.any THEN writing ELSE Memory
    /\ UNCHANGED <<onRelay, member, listed, thread, syncedAt, lastRead, syncing, inFlight,
                   disk, up, crashes, late, received>>

\* The file is written beside and renamed: all of it or nothing.
Written ==
    /\ up /\ writing.any /\ disk' = writing /\ writing' = Nothing
    /\ UNCHANGED <<onRelay, member, listed, thread, syncedAt, lastRead, syncing, inFlight,
                   armed, up, crashes, late, received, skipped>>

Forget ==
    /\ syncing' = [p \in Sync |-> NoSync] /\ inFlight' = FALSE
    /\ armed' = FALSE /\ writing' = Nothing /\ up' = FALSE /\ listed' = FALSE

ThreadCrash ==
    /\ up /\ crashes < MaxCrashes /\ crashes' = crashes + 1
    /\ Forget
    /\ UNCHANGED <<onRelay, member, thread, syncedAt, lastRead, disk, late, received, skipped>>

\* stop: no timer is left, the state is written once more - unless a write is
\* in flight, which is then waited for instead.
ThreadStop ==
    /\ up /\ crashes < MaxCrashes /\ crashes' = crashes + 1
    /\ Forget
    /\ disk' = IF writing.any THEN writing ELSE Memory
    /\ UNCHANGED <<onRelay, member, thread, syncedAt, lastRead, late, received, skipped>>

\* initialize: the state of the file, and the groups of the client's store.
Initialize ==
    /\ ~up /\ up' = TRUE
    /\ thread' = disk.thread /\ syncedAt' = disk.cursor /\ lastRead' = disk.lastRead
    /\ received' = disk.received /\ skipped' = FALSE
    /\ listed' = member
    /\ UNCHANGED <<onRelay, member, syncing, inFlight, armed, writing, disk, crashes, late>>

-----------------------------------------------------------------------------
(* A sync *)

Goto(p, next) == syncing' = [syncing EXCEPT ![p] = next]

Start(p, loops) ==
    /\ up /\ IF p = "poll" THEN ~inFlight ELSE syncing[p] = NoSync
    /\ inFlight' = (inFlight \/ p = "poll")
    /\ listed' = (listed /\ ~loops)
    /\ Goto(p, [NoSync EXCEPT !.at = IF loops THEN "list" ELSE "visit", !.loops = loops])
    /\ UNCHANGED <<onRelay, member, thread, syncedAt, lastRead, armed, writing, disk, up,
                   crashes, late, received, skipped>>

\* syncAll by the timer or a list command.
Poll == Start("poll", TRUE)
\* The initial sync refreshes all groups; load-thread, subscribe and grant-admin
\* sync the one conversation.
SyncOnce == \E loops \in BOOLEAN : Start("once", loops)

\* The groups of the store have been read; a loop over groupsById that is on
\* its way meets them once more.
GroupsRead(p) ==
    /\ up /\ syncing[p].at = "list"
    /\ listed' = (listed \/ member)
    /\ syncing' = [q \in Sync |->
           IF q = p THEN [syncing[p] EXCEPT !.at = "visit"]
           ELSE IF syncing[q].loops /\ syncing[q].at \in {"ask", "read"} /\ member
                THEN [syncing[q] EXCEPT !.again = TRUE] ELSE syncing[q]]
    /\ UNCHANGED <<onRelay, member, thread, syncedAt, lastRead, inFlight, armed, writing, disk,
                   up, crashes, late, received, skipped>>

\* Wrong: nothing before the cursor is asked for.
ExactVariant(c) == c
Since(c) == IF c > 0 THEN Max({0, c - Overlap}) ELSE 0

Finished(p) ==
    /\ Goto(p, NoSync) /\ inFlight' = (inFlight /\ p # "poll")

\* The loop meets the conversation, or a command looks it up.
Visit(p) ==
    /\ up /\ syncing[p].at = "visit"
    /\ LET found == listed \/ (member /\ ~syncing[p].loops) IN
       /\ listed' = found
       /\ IF found THEN Goto(p, [syncing[p] EXCEPT !.at = "ask", !.since = syncedAt]) /\ UNCHANGED inFlight
          ELSE Finished(p)
    /\ UNCHANGED <<onRelay, member, thread, syncedAt, lastRead, armed, writing, disk, up,
                   crashes, late, received, skipped>>

Ended(p) ==
    IF syncing[p].again /\ listed
    THEN Goto(p, [NoSync EXCEPT !.at = "visit", !.loops = TRUE]) /\ UNCHANGED inFlight
    ELSE Finished(p)

\* The relays answer with all they have, or none of them answers.
Answer(p) ==
    /\ up /\ syncing[p].at = "ask"
    /\ LET events == {e \in onRelay : Time[e] >= Since(syncing[p].since)} IN
       \/ /\ events # {}
          /\ Goto(p, [syncing[p] EXCEPT !.at = "read", !.left = events,
                          !.seen = Max({@, Newest(events), syncing[p].since})])
          /\ UNCHANGED inFlight
       \/ events = {} /\ Ended(p)
    /\ UNCHANGED <<onRelay, member, listed, thread, syncedAt, lastRead, armed, writing, disk,
                   up, crashes, late, received, skipped>>

NoAnswer(p) ==
    /\ up /\ syncing[p].at = "ask" /\ Ended(p)
    /\ UNCHANGED <<onRelay, member, listed, thread, syncedAt, lastRead, armed, writing, disk,
                   up, crashes, late, received, skipped>>

Ingest(p, e) ==
    /\ up /\ syncing[p].at = "read" /\ syncing[p].left # {} /\ e = First(syncing[p].left)
    /\ IF e \in Own THEN UNCHANGED <<thread, received, armed>>
       ELSE thread' = Upsert(thread, e) /\ received' = received \cup {e} /\ Schedule(e \notin thread)
    /\ Goto(p, [syncing[p] EXCEPT !.left = @ \ {e}])
    /\ UNCHANGED <<onRelay, member, listed, syncedAt, lastRead, inFlight, writing, disk, up,
                   crashes, late, skipped>>

\* Wrong: the cursor moves by one more.
PastVariant(p) == IF syncing[p].seen > syncing[p].since THEN syncing[p].seen + 2 ELSE syncedAt

\* The cursor is compared with what it was at the start, and set.
Moved(p) == IF syncing[p].seen > syncing[p].since THEN syncing[p].seen ELSE syncedAt

SyncEnds(p) ==
    /\ up /\ syncing[p].at = "read" /\ syncing[p].left = {}
    /\ syncedAt' = Moved(p) /\ Ended(p)
    /\ UNCHANGED <<onRelay, member, listed, thread, lastRead, armed, writing, disk, up,
                   crashes, late, received, skipped>>

\* Wrong: a sync that throws leaves syncInFlight set.
StuckVariant(p) == UNCHANGED inFlight /\ Goto(p, NoSync)

\* The library throws at an event: this conversation is left for now.
Thrown(p) == Ended(p)

IngestThrows(p) ==
    /\ up /\ syncing[p].at = "read" /\ syncing[p].left # {} /\ Thrown(p)
    /\ UNCHANGED <<onRelay, member, listed, thread, syncedAt, lastRead, armed, writing, disk,
                   up, crashes, late, received, skipped>>

-----------------------------------------------------------------------------
(* The conversation and its commands *)

\* runAcceptInviteOperation, or the creation of a conversation: the cursor is now.
Join(now) ==
    /\ up /\ now >= Newest(onRelay) /\ ~member /\ syncing["once"] = NoSync
    /\ member' = TRUE /\ listed' = TRUE
    /\ syncedAt' = now
    /\ late' = late \cup {e \in Message : Time[e] < Since(now)}
    /\ Schedule(TRUE)
    /\ Goto("once", [NoSync EXCEPT !.at = "visit"])
    /\ UNCHANGED <<onRelay, thread, lastRead, inFlight, writing, disk, up, crashes, received, skipped>>

\* sendMessage, after sendApplicationRumor; the own message is read.
Send(e) ==
    /\ up /\ member /\ e \in Own \ onRelay
    /\ onRelay' = onRelay \cup {e}
    /\ listed' = TRUE
    /\ thread' = Upsert(thread, e) /\ received' = received \cup {e}
    /\ lastRead' = Time[e]
    /\ Schedule(TRUE)
    /\ UNCHANGED <<member, syncedAt, syncing, inFlight, writing, disk, up, crashes, late, skipped>>

MarkRead ==
    /\ up /\ thread # {} /\ lastRead # Newest(thread)
    /\ lastRead' = Newest(thread) /\ Schedule(TRUE)
    /\ UNCHANGED <<onRelay, member, listed, thread, syncedAt, syncing, inFlight, writing, disk,
                   up, crashes, late, received, skipped>>

(* Other members *)

Arrive(e) ==
    /\ e \in Message \ (Own \cup onRelay)
    /\ onRelay' = onRelay \cup {e}
    /\ late' = IF \E d \in onRelay : Time[d] > Time[e] + Overlap THEN late \cup {e} ELSE late
    /\ UNCHANGED <<member, listed, thread, syncedAt, lastRead, syncing, inFlight, armed, writing,
                   disk, up, crashes, received, skipped>>

ThreadInit ==
    /\ onRelay = {} /\ member = FALSE /\ listed = FALSE
    /\ thread = {} /\ syncedAt = 0 /\ lastRead = 0
    /\ syncing = [p \in Sync |-> NoSync] /\ inFlight = FALSE
    /\ armed = FALSE /\ writing = Nothing /\ disk = Nothing
    /\ up = TRUE /\ crashes = 0 /\ late = {} /\ received = {} /\ skipped = FALSE

Step(p) ==
    \/ GroupsRead(p) \/ Visit(p) \/ Answer(p) \/ NoAnswer(p)
    \/ (\E e \in Message : Ingest(p, e)) \/ SyncEnds(p) \/ IngestThrows(p)

ThreadNext ==
    \/ PersistTimer \/ Written \/ ThreadCrash \/ ThreadStop \/ Initialize
    \/ Poll \/ SyncOnce \/ MarkRead
    \/ \E now \in 1..MaxNow : Join(now)
    \/ \E p \in Sync : Step(p)
    \/ \E e \in Message : Send(e) \/ Arrive(e)

ThreadSpec == ThreadInit /\ [][ThreadNext]_threadVars

-----------------------------------------------------------------------------
(* What it promises *)

ThreadTypeOK ==
    /\ crashes \in 0..MaxCrashes
    /\ \A S \in {onRelay, thread, late, received} : S \subseteq Message
    /\ syncedAt \in 0..MaxNow /\ lastRead \in 0..MaxNow
    /\ \A b \in {member, listed, inFlight, armed, up, skipped} : b \in BOOLEAN
    /\ \A p \in Sync : syncing[p].at \in {"idle", "list", "visit", "ask", "read"}

\* An event of another member that a relay has is in the thread's history, or
\* the next sync asks for it, before and after a restart - unless it reached
\* the relay that much after a newer one, or is older than the join.
NothingMissed ==
    member => \A e \in onRelay \ (Own \cup late) :
        /\ e \in received \/ Time[e] >= Since(syncedAt)
        /\ e \in disk.received \/ Time[e] >= Since(disk.cursor)

\* A thread is the newest messages of all that came in, in whatever order.
ThreadIsNewest ==
    up => /\ thread \subseteq received
          /\ Cardinality(thread) = Min({Limit, Cardinality(received)})
          /\ \A e \in thread, d \in received \ thread : Before(d, e)

\* At rest the file has what is remembered - unless the timer went off while
\* the file was written, and nothing changed since.
FileIsCurrent ==
    up /\ ~armed /\ ~writing.any /\ ~skipped => disk.thread = thread /\ disk.lastRead = lastRead

\* One syncAll at a time, and syncInFlight says so.
OneFlight == inFlight <=> syncing["poll"] # NoSync

\* No message of a conversation is missed by its syncs, together or after a
\* restart; its thread is the newest ones, and its file has it.
ThreadsKeep == NothingMissed /\ ThreadIsNewest /\ FileIsCurrent /\ OneFlight
=============================================================================
