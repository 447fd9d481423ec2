----------------------------- MODULE WriterQueue -----------------------------
(* The writers of a relay that a worker learns of from mirrors, invitations   *)
(* and joins (index.js): syncActiveRelayCoreRefs adds them to the relay with  *)
(* ensureRelayWritersFromCoreRefs, and while the relay cannot be written they *)
(* wait in a queue that is flushed by a loop, by the relay's events and by    *)
(* the late recovery of a join (relay-server.mjs).                            *)
(*                                                                            *)
(* One relay, which may be closed and opened again.  A call and the watcher   *)
(* keep the instance of the relay that was open when they began: it is stale  *)
(* once the relay is closed.                                                  *)
CONSTANTS Ref,          \* writers
          Sync,         \* calls of syncActiveRelayCoreRefs under way at once
          Batches,      \* the sets of writers they are called with
          Refusable     \* writers the relay may refuse

QueueAssumption ==
  /\ "flush" \notin Sync /\ Batches \subseteq SUBSET Ref \ {{}} /\ Refusable \subseteq Ref

VARIABLES
  live,       \* activeRelays has the relay
  writable,   \* and it says that it is writable
  written,    \* writers added to the relay
  queued,     \* relayWriterQueue
  watched,    \* the watcher listens to the live instance
  debounce,   \* the watcher's timer, even when it listens to a stale one
  looping,    \* relayWriterQueueRetryTimer
  work,        \* the flush and the syncs
  mirrored, synced,  \* relayMirrorSyncState, relayMirrorWriterSyncState
  waiting,    \* history: writers put in the queue, last while no flush was at work
  broken      \* history: writers the relay refused

queueVars == <<live, writable, written, queued, watched, debounce, looping, work,
               mirrored, synced, waiting, broken>>
relay == <<live, writable>>
served == <<queued, watched, debounce, looping, waiting>>

(* What a caller's reason says: some try a relay that is not writable, some   *)
(* take the fast path, which leaves the mirror for later.                     *)
Tries == {"join", "closed-join-pool"}
Fast == {"invite", "closed-join-pool"}
Reasons == Tries \cup Fast \cup {"mirror-update"}

Job == Sync \cup {"flush"}
Idle == [at |-> "idle"]

WorkStates ==
  [at : {"prepare", "add"}, tries : BOOLEAN, mirror : BOOLEAN, stale : BOOLEAN,
   refs : SUBSET Ref, rest : SUBSET Ref, deferred : SUBSET Ref]

QueueTypeOK ==
  /\ {live, writable, watched, debounce, looping} \subseteq BOOLEAN
  /\ {written, queued, mirrored, synced, waiting, broken} \subseteq SUBSET Ref
  /\ work \in [Job -> WorkStates \cup {Idle}]

QueueInit ==
  /\ live = TRUE /\ writable \in BOOLEAN /\ written = {}
  /\ queued = {} /\ watched = FALSE /\ debounce = FALSE /\ looping = FALSE
  /\ work = [j \in Job |-> Idle] /\ mirrored = {} /\ synced = {}
  /\ waiting = {} /\ broken = {}

-----------------------------------------------------------------------------
Flushing == work["flush"] # Idle

(* attachRelayWriterQueueWatcher: another instance's watcher and its timer    *)
(* go.  A timer of a stale watcher stays if the instance is the same.         *)
Attach(stale, timer) ==
  /\ watched' = ~stale
  /\ debounce' \in IF stale = watched THEN {FALSE} ELSE IF stale THEN {timer, FALSE} ELSE {timer}

(* queueRelayWriterRefs.                                                      *)
Queue(refs, stale) ==
  /\ queued' = queued \cup refs /\ looping' = TRUE /\ Attach(stale, debounce)
  /\ waiting' = IF Flushing THEN waiting \ refs ELSE waiting \cup refs

(* The queue is empty: the watcher goes, and the loop.                        *)
Serve ==
  queued' = {} /\ watched' = FALSE /\ debounce' = FALSE /\ looping' = FALSE /\ UNCHANGED waiting

(* triggerQueuedRelayWriterFlush, up to the first writer; "timer" says        *)
(* whether the watcher's timer is still set.                                  *)
Trigger(timer) ==
  /\ \/ /\ queued = {} \/ Flushing
        /\ debounce' = timer /\ UNCHANGED <<watched, work>>
     \/ /\ queued # {} /\ ~Flushing /\ ~live
        /\ watched' = FALSE /\ debounce' = FALSE /\ UNCHANGED work
     \/ /\ queued # {} /\ ~Flushing /\ live /\ Attach(FALSE, timer)
        /\ work' = IF ~writable THEN work
                  ELSE [work EXCEPT !["flush"] =
                          [at |-> "add", tries |-> FALSE, mirror |-> FALSE, stale |-> FALSE,
                           refs |-> {}, rest |-> queued, deferred |-> {}]]
  /\ UNCHANGED <<queued, looping, waiting>>

(* Variant: the loop waits for the relay's events.                            *)
LoopTickVariant ==
  /\ looping /\ (writable => watched)
  /\ IF queued = {} THEN looping' = FALSE /\ UNCHANGED <<queued, watched, debounce, waiting, work>>
     ELSE Trigger(debounce)
  /\ UNCHANGED <<relay, written, mirrored, synced, broken>>

(* The loop; it ends with the queue.                                          *)
LoopTick ==
  /\ looping
  /\ IF queued = {} THEN looping' = FALSE /\ UNCHANGED <<queued, watched, debounce, waiting, work>>
     ELSE Trigger(debounce)
  /\ UNCHANGED <<relay, written, mirrored, synced, broken>>

(* An update of the relay, a change of its peers, or 'writable'.              *)
RelayEvent ==
  /\ watched
  /\ IF queued = {} THEN Serve
     ELSE debounce' = TRUE /\ UNCHANGED <<queued, watched, looping, waiting>>
  /\ UNCHANGED <<relay, written, work, mirrored, synced, broken>>

DebounceFires ==
  /\ debounce /\ Trigger(FALSE)
  /\ UNCHANGED <<relay, written, mirrored, synced, broken>>

-----------------------------------------------------------------------------
Done(j) == work' = [work EXCEPT ![j] = Idle]

(* syncActiveRelayCoreRefs up to its waits for blind peering.  A call that    *)
(* finds nothing to do, no relay, or no blind peering when only the mirror is *)
(* missing changes nothing.                                                   *)
SyncStarts(j, kind, refs) ==
  /\ work[j] = Idle /\ ~(mirrored = refs /\ synced = refs) /\ live
  /\ work' = [work EXCEPT ![j] =
       [at |-> "prepare", tries |-> kind \in Tries, mirror |-> kind \notin Fast \/ mirrored = refs,
        stale |-> FALSE, refs |-> refs, rest |-> refs, deferred |-> {}]]
  /\ UNCHANGED <<relay, written, served, mirrored, synced, broken>>

(* What relay.writable says of a call's instance; a stale one may say         *)
(* anything.                                                                  *)
SaysWritable(stale) == IF stale THEN BOOLEAN ELSE {writable}

(* ensureRelayWritersFromCoreRefs up to its first writer; the updates of the  *)
(* relay it waits for, before and after the writers, change nothing here.     *)
SyncEnsures(j) ==
  /\ work[j] # Idle /\ work[j].at = "prepare"
  /\ \E w \in SaysWritable(work[j].stale) :
       \/ /\ ~w /\ ~work[j].tries /\ Queue(work[j].refs, work[j].stale) /\ Done(j)
       \/ /\ w \/ work[j].tries
          /\ work' = [work EXCEPT ![j].at = "add", ![j].tries = FALSE]
          /\ UNCHANGED served
  /\ UNCHANGED <<relay, written, mirrored, synced, broken>>

(* The next writer: known already, added, refused, or put off because the     *)
(* relay cannot be written or is closing.                                     *)
AddWriter(j, r) ==
  /\ work[j] # Idle /\ work[j].at = "add" /\ r \in work[j].rest
  /\ LET done == [work[j] EXCEPT !.rest = @ \ {r}]
         open == ~work[j].stale /\ writable
     IN \/ r \in written /\ work' = [work EXCEPT ![j] = done] /\ UNCHANGED <<written, broken>>
        \/ /\ r \notin written /\ open
           /\ written' = written \cup {r} /\ work' = [work EXCEPT ![j] = done]
           /\ UNCHANGED broken
        \/ /\ r \in Refusable \ written
           /\ broken' = broken \cup {r} /\ work' = [work EXCEPT ![j] = done] /\ UNCHANGED written
        \/ /\ r \notin written /\ ~open
           /\ work' = [work EXCEPT ![j] = [done EXCEPT !.deferred = @ \cup {r}]]
           /\ UNCHANGED <<written, broken>>
  /\ UNCHANGED <<relay, served, mirrored, synced>>

(* Variant: writers that were put off do not matter.                          *)
NotesVariant(j) == synced' = work[j].refs /\ UNCHANGED mirrored

(* The end of a sync: it notes what is in sync if every writer was handled,   *)
(* the mirror not after the fast path.                                        *)
Notes(j) ==
  /\ synced' = IF work[j].deferred = {} THEN work[j].refs ELSE synced
  /\ mirrored' = IF work[j].deferred = {} /\ work[j].mirror THEN work[j].refs ELSE mirrored

(* After the last writer those that were put off are queued.  The end of a    *)
(* flush drops the queue, these included.                                     *)
WritersTried(j) ==
  /\ work[j] # Idle /\ work[j].at = "add" /\ work[j].rest = {} /\ Done(j)
  /\ \/ /\ j = "flush"
        /\ queued' = {} /\ watched' = FALSE /\ debounce' = FALSE /\ looping' = FALSE
        /\ waiting' = waiting \ work[j].deferred /\ UNCHANGED <<mirrored, synced>>
     \/ /\ j # "flush" /\ Notes(j)
        /\ IF work[j].deferred = {} THEN UNCHANGED served ELSE Queue(work[j].deferred, work[j].stale)
  /\ UNCHANGED <<relay, written, broken>>

-----------------------------------------------------------------------------
(* A pool is assigned to the relay's route: what was in sync is forgotten.    *)
RouteAssigned ==
  /\ mirrored # {} \/ synced # {}
  /\ mirrored' = {} /\ synced' = {}
  /\ UNCHANGED <<relay, written, served, work, broken>>

(* What waitForRelayWriterActivation polls for and listens to.                *)
Activated == writable

(* A task of scheduleLateWriterRecovery finds the relay writable and tells    *)
(* the worker (onRelayWritable).  Such a task may be at work at any time.     *)
RecoveryTells ==
  /\ Activated /\ Trigger(debounce)
  /\ UNCHANGED <<relay, written, mirrored, synced, broken>>

(* The relay becomes writable or stops to be, is closed, or opened again.     *)
WritableChanges ==
  /\ live /\ writable' = ~writable
  /\ UNCHANGED <<live, written, served, work, mirrored, synced, broken>>

Closes ==
  /\ live /\ live' = FALSE /\ writable' = FALSE /\ watched' = FALSE
  /\ work' = [j \in Job |-> IF work[j] = Idle THEN Idle ELSE [work[j] EXCEPT !.stale = TRUE]]
  /\ UNCHANGED <<written, queued, debounce, looping, waiting, mirrored, synced, broken>>

Opens ==
  /\ ~live /\ live' = TRUE /\ writable' \in BOOLEAN
  /\ UNCHANGED <<written, served, work, mirrored, synced, broken>>

Works(j) ==
  \/ SyncEnsures(j) \/ (\E r \in Ref : AddWriter(j, r)) \/ WritersTried(j)

QueueNext ==
  \/ LoopTick \/ RelayEvent \/ DebounceFires
  \/ \E j \in Sync, kind \in Reasons, refs \in Batches : SyncStarts(j, kind, refs)
  \/ \E j \in Job : Works(j)
  \/ RouteAssigned \/ RecoveryTells
  \/ WritableChanges \/ Closes \/ Opens

QueueSpec == QueueInit /\ [][QueueNext]_queueVars

-----------------------------------------------------------------------------
(* Writers noted as in sync are writers of the relay, unless it refused them: *)
(* a later sync with the same writers would do nothing.                       *)
SyncedIsWritten == synced \subseteq written \cup broken

(* A writer that was put in the queue waits there until it is added or        *)
(* refused.  The end of a flush drops what was put there while it was at      *)
(* work, by a sync or by the flush itself.                                    *)
QueuedIsKept == waiting \subseteq queued \cup written \cup broken

(* While writers wait there is a loop to serve them, whatever becomes of the  *)
(* watcher.                                                                   *)
QueueIsServed == queued # {} => looping

(* Writers do not wait for a relay that can be written, and the loop ends     *)
(* with the queue: time and again this holds.                                 *)
QueueServed == looping => ~writable /\ queued # {}
=============================================================================
