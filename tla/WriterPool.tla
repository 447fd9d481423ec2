------------------------------ MODULE WriterPool ------------------------------
(* The pool of writers a host provisions ahead for the invitees of a closed   *)
(* relay (src/index.js: ensureClosedJoinWriterPool,                           *)
(* claimClosedJoinWriterPoolEntry and the provision-writer-for-invitee        *)
(* command) and the store that keeps it (src/relay-writer-pool-store.mjs).    *)
(*                                                                            *)
(* One relay, asked for by its key.  A writer (core, secret, lease) is a      *)
(* number, in the order provisioned.  Entries are pushed at the end and       *)
(* shifted from the front, so a list of them is in that order: it is the set  *)
(* of its writers, and its first entry the least.  What the code does between *)
(* two waits for I/O is one step: the store's functions are async, but wait   *)
(* for nothing once its file was read.  A command with useWriterPool false    *)
(* only provisions and is left out; the envelope built afterwards does not    *)
(* touch the pool.                                                            *)
EXTENDS Naturals, FiniteSets

CONSTANTS
  Claims,        \* provision-writer-for-invitee commands, one each
  Target,        \* CLOSED_JOIN_POOL_TARGET_SIZE
  Usable,        \* what the profile can say: known, closed and hosted, or not
  MaxWriters,    \* bound on the writers provisioned
  MaxExpired,    \* bound on the writers that expire
  MaxRestarts    \* bound on crashes of the worker

ASSUME PoolConstants ==
  /\ Target \in Nat \ {0}
  /\ Usable \subseteq BOOLEAN /\ MaxWriters \in Nat /\ MaxExpired \in Nat /\ MaxRestarts \in Nat

VARIABLES
  loaded,    \* relayWriterPoolLoaded: no, reading (set, file not read yet), yes
  pool,      \* relayWriterPoolCache of the relay
  dirty,     \* relayWriterPoolDirty
  timer,     \* relayWriterPoolFlushTimer is set
  writing,   \* the snapshots fs.writeFile is writing (none or one)
  file,      \* the relay's entries in relay-writer-pool-cache.json
  lock,      \* closedJoinWriterPoolLocks has the relay
  ensure,    \* the calls of ensureClosedJoinWriterPool
  claim,     \* the commands
  got,       \* the writer a command answered with, 0 for none
  made,      \* how many writers were added to the relay
  expired,   \* writers whose expiresAt has passed
  exposed,   \* handed out while a second copy was in a running call or on disk
  lost,      \* provisioned, and dropped by a call that failed, a crash or a read
  unsaved,   \* the last write of the file failed
  restarts

store == <<loaded, pool, dirty, timer>>
disk == <<writing, file, unsaved>>
work == <<lock, ensure, claim, got>>
ghosts == <<exposed, lost>>
vars == <<store, disk, work, made, expired, ghosts, restarts>>

Calls == {"claim", "topup"} \X Claims
Writers == 1..made
NoCall == [pc |-> "off", needed |-> 0, entries |-> {}]

(* Variant: nothing expires.                                                  *)
KeepExpiredVariant(entries) == entries

(* pruneWriterPoolEntries.                                                    *)
Prune(entries) == entries \ expired

(* entries.shift(): the first entry, and what is left.                        *)
First(entries) == {w \in entries : \A v \in entries : w <= v}
KeepHeadVariant(entries, head) == entries
Rest(entries, head) == entries \ {head}

(* setRelayWriterPool; getRelayWriterPool when it prunes.                     *)
NoScheduleVariant(p) == pool' = p /\ dirty' = TRUE /\ UNCHANGED timer
Set(p) == pool' = p /\ dirty' = TRUE /\ timer' = TRUE
SetIfChanged(p) == IF p = pool THEN UNCHANGED <<pool, dirty, timer>> ELSE Set(p)

Handed == {got[c] : c \in Claims} \ {0}
InCalls == UNION {ensure[e].entries : e \in Calls}

Init ==
  /\ loaded = "no" /\ pool = {} /\ dirty = FALSE /\ timer = FALSE
  /\ writing = {} /\ file = {} /\ unsaved = FALSE
  /\ lock = FALSE
  /\ ensure = [e \in Calls |-> NoCall]
  /\ claim = [c \in Claims |-> "idle"]
  /\ got = [c \in Claims |-> 0]
  /\ made = 0 /\ expired = {} /\ exposed = {} /\ lost = {} /\ restarts = 0

-----------------------------------------------------------------------------
(* claimClosedJoinWriterPoolEntry                                             *)

(* The command asks the pool to provision one writer first.                   *)
Request(c) ==
  /\ claim[c] = "idle"
  /\ claim' = [claim EXCEPT ![c] = "ensuring"]
  /\ ensure' = [ensure EXCEPT ![<<"claim", c>>] =
                 [pc |-> "profile", needed |-> 1, entries |-> {}]]
  /\ UNCHANGED <<store, disk, lock, got, made, expired, ghosts, restarts>>

(* The rest of the claim, on the pool p and the calls en the step has left:   *)
(* the first entry is taken and, if the pool is below its target, a call that *)
(* nobody waits for fills it up.  With an empty pool the command provisions a *)
(* writer itself.                                                             *)
Take(c, p, en) ==
  LET entries == Prune(p)
      others == UNION {en[e].entries : e \in Calls}
  IN \/ /\ entries = {}
        /\ claim' = [claim EXCEPT ![c] = "direct"]
        /\ SetIfChanged(entries)
        /\ ensure' = en
        /\ UNCHANGED <<got, exposed>>
     \/ \E head \in First(entries) :
          LET rest == Rest(entries, head) IN
          /\ claim' = [claim EXCEPT ![c] = "done"]
          /\ got' = [got EXCEPT ![c] = head]
          /\ Set(rest)
          /\ exposed' = exposed \cup ({head} \cap others)
          /\ ensure' = IF Cardinality(rest) < Target
                         THEN [en EXCEPT ![<<"topup", c>>] =
                                 [pc |-> "profile", needed |-> Target - Cardinality(rest),
                                  entries |-> {}]]
                         ELSE en

(* Variant: a command goes on only if the pool has an entry.                  *)
StopAtNullVariant(e, p) ==
  LET en == [ensure EXCEPT ![e] = NoCall] IN
  IF e[1] = "claim" /\ p # {}
    THEN Take(e[2], p, en)
    ELSE /\ ensure' = en /\ SetIfChanged(p)
         /\ UNCHANGED <<claim, got, exposed>>

(* The end of a call that left the pool p; a command goes on at once.         *)
Return(e, p) ==
  LET en == [ensure EXCEPT ![e] = NoCall] IN
  IF e[1] = "claim"
    THEN Take(e[2], p, en)
    ELSE /\ ensure' = en /\ SetIfChanged(p)
         /\ UNCHANGED <<claim, got, exposed>>

-----------------------------------------------------------------------------
(* ensureClosedJoinWriterPool                                                 *)

(* The call reads the pool; the first reader of the store waits for its file. *)
ReadPool(e) ==
  /\ SetIfChanged(Prune(pool))
  /\ ensure' = [ensure EXCEPT ![e] =
                 [pc |-> "provision", needed |-> @.needed, entries |-> Prune(pool)]]

(* The profile was read and the lock is free: the call takes it.              *)
Begin(e) ==
  /\ ensure[e].pc = "profile" /\ ~lock
  /\ TRUE \in Usable
  /\ lock' = TRUE
  /\ IF loaded = "no"
       THEN /\ loaded' = "reading"
            /\ ensure' = [ensure EXCEPT ![e].pc = "load"]
            /\ UNCHANGED <<pool, dirty, timer>>
       ELSE ReadPool(e) /\ UNCHANGED loaded
  /\ UNCHANGED <<disk, claim, got, made, expired, ghosts, restarts>>

(* Another call has the lock, or the profile does not allow a pool: the call  *)
(* returns null, and a command takes what the pool holds.                     *)
Refuse(e) ==
  /\ ensure[e].pc = "profile"
  /\ lock \/ FALSE \in Usable
  /\ IF e[1] = "claim" /\ loaded = "no"
       THEN /\ loaded' = "reading"
            /\ ensure' = [ensure EXCEPT ![e] = NoCall]
            /\ claim' = [claim EXCEPT ![e[2]] = "load"]
            /\ UNCHANGED <<pool, dirty, timer, got, exposed>>
       ELSE Return(e, pool) /\ UNCHANGED loaded
  /\ UNCHANGED <<disk, lock, made, expired, lost, restarts>>

(* A command for another relay, or the join of one, reads the store first:    *)
(* the file is read for every relay, and who asks meanwhile does not wait.    *)
OthersLoad ==
  /\ loaded = "no"
  /\ loaded' = "reading"
  /\ UNCHANGED <<pool, dirty, timer, disk, work, made, expired, ghosts, restarts>>

(* loadRelayWriterPoolCache has read the file.  Its entries replace what was  *)
(* saved meanwhile, and a call that read the pool before them will replace    *)
(* them: both are as good as lost.                                            *)
Loaded ==
  /\ loaded = "reading"
  /\ loaded' = "yes"
  /\ pool' = IF Prune(file) = {} THEN pool ELSE Prune(file)
  /\ lost' = lost \cup (pool \ pool')
                  \cup (IF \E e \in Calls : ensure[e].pc = "provision" THEN pool' ELSE {})
  /\ UNCHANGED <<dirty, timer, disk, work, made, expired, exposed, restarts>>

LoadedCall(e) ==
  /\ ensure[e].pc = "load" /\ loaded = "yes"
  /\ ReadPool(e)
  /\ UNCHANGED <<loaded, disk, lock, claim, got, made, expired, ghosts, restarts>>

LoadedClaim(c) ==
  /\ claim[c] = "load" /\ loaded = "yes"
  /\ Take(c, pool, ensure)
  /\ UNCHANGED <<loaded, disk, lock, made, expired, lost, restarts>>

(* One more writer was added to the relay.                                    *)
Provision(e) ==
  /\ ensure[e].pc = "provision" /\ ensure[e].needed > 1
  /\ made < MaxWriters
  /\ made' = made + 1
  /\ ensure' = [ensure EXCEPT ![e] =
                 [pc |-> "provision", needed |-> @.needed - 1, entries |-> @.entries \cup {made'}]]
  /\ UNCHANGED <<store, disk, lock, claim, got, expired, ghosts, restarts>>

(* Variant: the pool is set to what was added.                                *)
OnlyNewVariant(e) ==
  /\ ensure[e].pc = "provision" /\ ensure[e].needed = 1
  /\ made < MaxWriters
  /\ made' = made + 1
  /\ lock' = FALSE
  /\ Return(e, {made'})
  /\ UNCHANGED <<loaded, disk, expired, lost, restarts>>

(* The last one: the pool is set to what was read and what was added.         *)
Save(e) ==
  /\ ensure[e].pc = "provision" /\ ensure[e].needed = 1
  /\ made < MaxWriters
  /\ made' = made + 1
  /\ lock' = FALSE
  /\ Return(e, Prune(ensure[e].entries \cup {made'}))
  /\ UNCHANGED <<loaded, disk, expired, lost, restarts>>

(* Variant: the lock is not released when provisioning fails.                 *)
KeepLockVariant(e) ==
  /\ ensure[e].pc = "provision"
  /\ UNCHANGED lock
  /\ lost' = lost \cup (ensure[e].entries \ (pool \cup Handed))
  /\ Return(e, pool)
  /\ UNCHANGED <<loaded, disk, made, expired, restarts>>

(* provisionWriterForInvitee failed: what the call has added is not kept.     *)
Fail(e) ==
  /\ ensure[e].pc = "provision"
  /\ lock' = FALSE
  /\ lost' = lost \cup (ensure[e].entries \ (pool \cup Handed))
  /\ Return(e, pool)
  /\ UNCHANGED <<loaded, disk, made, expired, restarts>>

(* Variant: the writer is answered and not added to the relay.                *)
UncountedVariant(c) ==
  /\ claim[c] = "direct"
  /\ made < MaxWriters
  /\ UNCHANGED made
  /\ claim' = [claim EXCEPT ![c] = "done"]
  /\ got' = [got EXCEPT ![c] = made + 1]
  /\ UNCHANGED <<store, disk, lock, ensure, expired, ghosts, restarts>>

(* The command provisions its own writer (reason invite-fallback).            *)
Direct(c) ==
  /\ claim[c] = "direct"
  /\ made < MaxWriters
  /\ made' = made + 1
  /\ claim' = [claim EXCEPT ![c] = "done"]
  /\ got' = [got EXCEPT ![c] = made']
  /\ UNCHANGED <<store, disk, lock, ensure, expired, ghosts, restarts>>

DirectFail(c) ==
  /\ claim[c] = "direct"
  /\ claim' = [claim EXCEPT ![c] = "failed"]
  /\ UNCHANGED <<store, disk, lock, ensure, got, made, expired, ghosts, restarts>>

-----------------------------------------------------------------------------
(* The store's file, time and crashes                                         *)

(* flushRelayWriterPoolCache, when its timer fires.  A read or write of the   *)
(* file is assumed to end before the next timer, a second later, fires.       *)
Flush ==
  /\ timer /\ writing = {} /\ loaded # "reading"
  /\ timer' = FALSE
  /\ dirty' = FALSE
  /\ writing' = IF dirty THEN {pool} ELSE {}
  /\ UNCHANGED <<loaded, pool, file, unsaved, work, made, expired, ghosts, restarts>>

Written(s) ==
  /\ writing = {s}
  /\ writing' = {} /\ file' = s /\ unsaved' = FALSE
  /\ UNCHANGED <<store, work, made, expired, ghosts, restarts>>

(* The write fails; the file is as it was, or cut and not readable as JSON.   *)
WriteFails ==
  /\ writing # {}
  /\ writing' = {} /\ unsaved' = TRUE
  /\ file' \in {file, {}}
  /\ UNCHANGED <<store, work, made, expired, ghosts, restarts>>

Expire(w) ==
  /\ w \in Writers \ expired /\ Cardinality(expired) < MaxExpired
  /\ expired' = expired \cup {w}
  /\ UNCHANGED <<store, disk, work, made, ghosts, restarts>>

(* The worker stops between two steps and is started again.  A write under    *)
(* way may be done, not begun or cut.                                         *)
Crash ==
  /\ restarts < MaxRestarts
  /\ restarts' = restarts + 1
  /\ loaded' = "no" /\ pool' = {} /\ dirty' = FALSE /\ timer' = FALSE
  /\ writing' = {} /\ unsaved' = (unsaved \/ writing # {})
  /\ file' \in {file} \cup (IF writing = {} THEN {} ELSE writing \cup {{}})
  /\ lock' = FALSE
  /\ ensure' = [e \in Calls |-> NoCall]
  /\ claim' = [c \in Claims |-> IF claim[c] \in {"idle", "done"} THEN claim[c] ELSE "failed"]
  /\ exposed' = exposed \cup (Handed \cap file')
  /\ lost' = lost \cup (Writers \ (Handed \cup file'))
  /\ UNCHANGED <<got, made, expired>>

CallStep(e) == Begin(e) \/ Refuse(e) \/ LoadedCall(e) \/ Provision(e) \/ Save(e) \/ Fail(e)
ClaimStep(c) == LoadedClaim(c) \/ Direct(c) \/ DirectFail(c)

Next ==
  \/ \E c \in Claims : Request(c) \/ ClaimStep(c)
  \/ \E e \in Calls : CallStep(e)
  \/ OthersLoad \/ Loaded \/ Flush \/ WriteFails \/ Crash
  \/ \E s \in writing : Written(s)
  \/ \E w \in Writers : Expire(w)

Spec == Init /\ [][Next]_vars

-----------------------------------------------------------------------------

Call == [pc : {"off", "profile", "load", "provision"}, needed : 0..Target,
         entries : SUBSET Writers]

(* Every variable has its type.                                               *)
TypeOK ==
  /\ loaded \in {"no", "reading", "yes"}
  /\ made \in 0..MaxWriters
  /\ pool \subseteq Writers /\ file \subseteq Writers
  /\ \A s, t \in writing : s \subseteq Writers /\ s = t
  /\ dirty \in BOOLEAN /\ timer \in BOOLEAN /\ lock \in BOOLEAN /\ unsaved \in BOOLEAN
  /\ ensure \in [Calls -> Call]
  /\ claim \in [Claims -> {"idle", "ensuring", "load", "direct", "done", "failed"}]
  /\ got \in [Claims -> 0..made]
  /\ expired \subseteq Writers /\ exposed \subseteq Writers /\ lost \subseteq Writers
  /\ restarts \in 0..MaxRestarts

(* The lock is held exactly while one call reads, provisions and saves: it is *)
(* never left behind by a call that failed or was refused, which would stop   *)
(* the pool from ever being filled again.                                     *)
Holds(e) == ensure[e].pc \in {"load", "provision"}
LockIsExact ==
  /\ lock <=> \E e \in Calls : Holds(e)
  /\ \A e, f \in Calls : Holds(e) /\ Holds(f) => e = f

(* Two invitees get the same writer only if it was handed out while a call of *)
(* ensureClosedJoinWriterPool that had read it was still provisioning, or the *)
(* worker crashed before the pool without it was on disk; in no other way     *)
(* does a writer that was handed out come back into the pool.                 *)
SharedOnlyIfExposed ==
  /\ Handed \cap pool \subseteq exposed
  /\ \A c, d \in Claims : c # d /\ got[c] = got[d] /\ got[c] # 0 => got[c] \in exposed

(* A writer that was added to the relay is kept until an invitee has it: in   *)
(* the pool or the file it is read from, in the call that is adding to it;    *)
(* else it has expired, its call failed or was cut off by a crash, or a call  *)
(* read the pool while its file was being read (the code does this).          *)
Accounted ==
  Writers \subseteq Handed \cup pool \cup InCalls \cup expired \cup lost
                    \cup (IF loaded = "yes" THEN {} ELSE file)

(* When no flush is pending or under way and the last one did not fail, the   *)
(* file holds the pool: no change of the pool is left without a flush.        *)
Durable ==
  loaded = "yes" /\ ~timer /\ writing = {} /\ ~unsaved => Prune(file) = Prune(pool)

(* No writer is dropped silently, in memory or on disk, or given out twice,   *)
(* and the pool can always be filled.                                         *)
PoolKept == Accounted /\ Durable /\ LockIsExact /\ SharedOnlyIfExposed

(* A command does not answer with a writer that has expired, however long it  *)
(* was in the pool, in a call or on disk.                                     *)
NeverExpired == [][\A c \in Claims : got'[c] # got[c] => got'[c] \notin expired]_vars

(* Every command is answered, with a writer or an error, or the worker        *)
(* crashed: none goes on waiting for the calls before it or for its own.      *)
Answered == \A c \in Claims : []<>(claim[c] \in {"idle", "done", "failed"})
=============================================================================
