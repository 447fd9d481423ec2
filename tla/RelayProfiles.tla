----------------------------- MODULE RelayProfiles -----------------------------
(* The profile of a relay in relay-profiles.json                              *)
(* (src/hyperpipe-relay-profile-manager.mjs) and those who change it: joining *)
(* and leaving the relay, its members and their tokens.  All access to the    *)
(* file is serialised by a mutex, and the file is replaced by a rename.  Some *)
(* operations hold the mutex while they read, change and save the profile;    *)
(* others read it, let the mutex go, and save what they read later.           *)
(*                                                                            *)
(* A profile is abstracted to its member sets and tokens.  The administrator, *)
(* always a member, is not among the users.  A token is the job that issues   *)
(* it.  The adapter's copies of the member lists are left out.                *)
EXTENDS Naturals, Sequences

CONSTANTS
  Users,
  Jobs,         \* operations, one call each
  Kind,         \* what a job does, see Program
  User,         \* the user it is about
  Ts,           \* the timestamp of its change of the member sets
  InitExists,   \* whether the relay has a profile at first: yes, no, or either
  MaxRestarts,  \* bound on restarts of the worker
  None

Kinds == {"token", "untoken", "add", "remove", "verify", "stale", "join", "leave"}

(* One join at a time: the lock of JoinFlow.                                  *)
ASSUME JobsDescribed ==
  /\ Kind \in [Jobs -> Kinds] /\ User \in [Jobs -> Users] /\ Ts \in [Jobs -> Nat \ {0}]
  /\ InitExists \subseteq BOOLEAN /\ MaxRestarts \in Nat /\ None \notin Jobs
  /\ \A i, j \in Jobs : Kind[i] = "join" /\ Kind[j] = "join" => i = j

VARIABLES
  file,     \* the profile on disk
  queue,    \* who holds profileLock (the head) and who waits for it, in order
  job,      \* the running operations
  store,    \* RelayAuthStore: the tokens that requests are checked against
  pending,  \* pendingAuthUpdates of the relay
  restarts,
  tokens, addTs, removeTs, left
            \* what was saved: the last token of each user, the newest change
            \* of membership, and whether the relay was left last

history == <<tokens, addTs, removeTs, left>>
vars == <<file, queue, job, store, pending, restarts, history>>

NoTokens == [u \in Users |-> None]
NoTimes == [u \in Users |-> 0]

(* ensureProfileSchema of a profile without members and tokens.               *)
NewProfile == [exists |-> TRUE, adds |-> NoTimes, removes |-> NoTimes, members |-> {},
               auths |-> NoTokens, gone |-> {}]
NoProfile == [NewProfile EXCEPT !.exists = FALSE]

(* Variant: the join does not apply the updates that were queued.             *)
ForgetPendingVariant(j) ==
  CASE Kind[j] = "token" -> <<"auth">>                       \* updateRelayAuthToken
    [] Kind[j] = "untoken" -> <<"read", "save">>             \* removeRelayAuth
    [] Kind[j] \in {"add", "remove"} -> <<"sets">>           \* updateRelayMemberSets
    [] Kind[j] = "verify" -> <<"read", "auth", "sets">>      \* verify-ownership
    [] Kind[j] = "stale" -> <<"read", "save">>               \* connect, disconnect, mirrors
    [] Kind[j] = "join" -> <<"read", "save", "auth">>
    [] Kind[j] = "leave" -> <<"drop">>                       \* removeRelayProfile

(* What each operation does, one use of the mutex after the other.            *)
Program(j) ==
  CASE Kind[j] = "token" -> <<"auth">>                       \* updateRelayAuthToken
    [] Kind[j] = "untoken" -> <<"read", "save">>             \* removeRelayAuth
    [] Kind[j] \in {"add", "remove"} -> <<"sets">>           \* updateRelayMemberSets
    [] Kind[j] = "verify" -> <<"read", "auth", "sets">>      \* verify-ownership
    [] Kind[j] = "stale" -> <<"read", "save">>               \* connect, disconnect, mirrors
    [] Kind[j] = "join" -> <<"read", "save", "apply", "auth">>
    [] Kind[j] = "leave" -> <<"drop">>                       \* removeRelayProfile

Ready == [pc |-> 1, at |-> "free", held |-> NoProfile, local |-> NoProfile, next |-> 1]
Ended(j) == job[j].pc > Len(Program(j))
Section(j) == Program(j)[job[j].pc]
Quiet == \A j \in Jobs : Ended(j) \/ job[j] = Ready

Init ==
  /\ file \in {IF e THEN NewProfile ELSE NoProfile : e \in InitExists}
  /\ queue = <<>>
  /\ job = [j \in Jobs |-> Ready]
  /\ store = NoTokens /\ pending = <<>> /\ restarts = 0
  /\ tokens = NoTokens /\ addTs = NoTimes /\ removeTs = NoTimes /\ left = FALSE

-----------------------------------------------------------------------------

Later(t, s) == IF s > t THEN s ELSE t

(* calculateMembers: an add counts if it is newer than the remove.            *)
CalculateMembers(adds, removes) == {u \in Users : adds[u] > removes[u]}

(* Variant: the change that arrives last is kept, not the newest.             *)
LastArrivedVariant(p, adds, removes) ==
  LET a == [u \in Users |-> IF adds[u] # 0 THEN adds[u] ELSE p.adds[u]]
      r == [u \in Users |-> IF removes[u] # 0 THEN removes[u] ELSE p.removes[u]]
  IN [p EXCEPT !.adds = a, !.removes = r, !.members = CalculateMembers(a, r)]

(* updateRelayMemberSets: the newest add and remove of each user are kept.    *)
MergeSets(p, adds, removes) ==
  LET a == [u \in Users |-> Later(p.adds[u], adds[u])]
      r == [u \in Users |-> Later(p.removes[u], removes[u])]
  IN [p EXCEPT !.adds = a, !.removes = r, !.members = CalculateMembers(a, r)]

(* Variant: a user who has a token keeps it.                                  *)
KeepFirstVariant(p, u, t) == [p EXCEPT !.auths[u] = IF @ = None THEN t ELSE @, !.gone = @ \ {u}]

(* Variant: the removal of the user stays.                                    *)
KeepGoneVariant(p, u, t) == [p EXCEPT !.auths[u] = t]

(* updateRelayAuthToken and removeRelayAuth on a profile.                     *)
WithToken(p, u, t) == [p EXCEPT !.auths[u] = t, !.gone = @ \ {u}]
WithoutToken(p, u) == [p EXCEPT !.auths[u] = None, !.gone = @ \cup {u}]

(* What a job that read the profile p holds and will save or merge later.     *)
Held(j, p) ==
  CASE Kind[j] = "untoken" -> WithoutToken(p, User[j])
    [] Kind[j] = "verify" -> [p EXCEPT !.adds[User[j]] = Ts[j]]
    [] Kind[j] = "join" -> NewProfile
    [] OTHER -> p

(* The adds and removes a job hands to updateRelayMemberSets.                 *)
Adds(j) ==
  CASE Kind[j] = "add" -> [NoTimes EXCEPT ![User[j]] = Ts[j]]
    [] Kind[j] = "verify" -> job[j].held.adds
    [] OTHER -> NoTimes
Removes(j) ==
  CASE Kind[j] = "remove" -> [NoTimes EXCEPT ![User[j]] = Ts[j]]
    [] Kind[j] = "verify" -> job[j].held.removes
    [] OTHER -> NoTimes

-----------------------------------------------------------------------------

(* withProfileLock: the job waits for its turn.  verify-ownership puts the    *)
(* token into the store first; leave-group clears the relay's tokens first.   *)
Call(j) ==
  /\ ~Ended(j) /\ job[j].at = "free"
  /\ ~(Section(j) = "apply" /\ pending = <<>>)
  /\ job' = [job EXCEPT ![j].at = "waiting"]
  /\ queue' = Append(queue, j)
  /\ store' = IF job[j].pc > 1 THEN store
              ELSE IF Kind[j] = "verify" THEN [store EXCEPT ![User[j]] = j]
              ELSE IF Kind[j] = "leave" THEN NoTokens
              ELSE store
  /\ UNCHANGED <<file, pending, restarts, history>>

(* applyPendingAuthUpdates finds nothing queued.                              *)
NothingPending(j) ==
  /\ ~Ended(j) /\ job[j].at = "free"
  /\ Section(j) = "apply" /\ pending = <<>>
  /\ job' = [job EXCEPT ![j].pc = @ + 1]
  /\ UNCHANGED <<file, queue, store, pending, restarts, history>>

Turn(j) == queue # <<>> /\ Head(queue) = j

(* Variant: without a profile the mutex is not let go.                        *)
KeepMutexVariant(j) ==
  /\ Turn(j) /\ job[j].at = "waiting" /\ Section(j) = "read"
  /\ queue' = IF file.exists THEN Tail(queue) ELSE queue
  /\ job' = [job EXCEPT ![j] = [job[j] EXCEPT
       !.at = "free", !.held = Held(j, file),
       !.pc = IF Kind[j] = "join"
                THEN IF file.exists THEN 3 ELSE 2
                ELSE IF file.exists THEN 2 ELSE Len(Program(j)) + 1]]
  /\ UNCHANGED <<file, store, pending, restarts, history>>

(* getRelayProfileByKey: read and let the mutex go.  Without a profile the    *)
(* operation ends, but for a join, which ends its reading with one.           *)
Read(j) ==
  /\ Turn(j) /\ job[j].at = "waiting" /\ Section(j) = "read"
  /\ queue' = Tail(queue)
  /\ job' = [job EXCEPT ![j] = [job[j] EXCEPT
       !.at = "free", !.held = Held(j, file),
       !.pc = IF Kind[j] = "join"
                THEN IF file.exists THEN 3 ELSE 2
                ELSE IF file.exists THEN 2 ELSE Len(Program(j)) + 1]]
  /\ UNCHANGED <<file, store, pending, restarts, history>>

(* Variant: the job does not wait for its turn.                               *)
NoTurnVariant(j) ==
  /\  job[j].at = "waiting" /\ Section(j) # "read"
  /\ job' = [job EXCEPT ![j] = [job[j] EXCEPT !.at = "loaded", !.local = file]]
  /\ UNCHANGED <<file, queue, store, pending, restarts, history>>

(* The other operations read the file and keep the mutex until they saved.    *)
Load(j) ==
  /\ Turn(j) /\ job[j].at = "waiting" /\ Section(j) # "read"
  /\ job' = [job EXCEPT ![j] = [job[j] EXCEPT !.at = "loaded", !.local = file]]
  /\ UNCHANGED <<file, queue, store, pending, restarts, history>>

(* Variant: the job skips a section.                                          *)
SkipVariant(j) ==
  /\ queue' = Tail(queue)
  /\ job' = [job EXCEPT ![j] = [job[j] EXCEPT !.at = "free", !.pc = @ + 2]]

(* The mutex is released and the job goes on with its next section.           *)
Release(j) ==
  /\ queue' = Tail(queue)
  /\ job' = [job EXCEPT ![j] = [job[j] EXCEPT !.at = "free", !.pc = @ + 1]]

Holding(j, section) == Turn(j) /\ job[j].at = "loaded" /\ Section(j) = section

(* Variant: the store is not told of the new token.                           *)
ForgetStoreVariant(j) ==
  /\ Holding(j, "auth")
  /\ IF job[j].local.exists
       THEN /\ file' = WithToken(job[j].local, User[j], j)
            /\ UNCHANGED store
            /\ tokens' = [tokens EXCEPT ![User[j]] = j]
            /\ UNCHANGED pending
       ELSE /\ pending' = IF Kind[j] = "token" THEN Append(pending, j) ELSE pending
            /\ UNCHANGED <<file, store, tokens>>
  /\ Release(j)
  /\ UNCHANGED <<restarts, addTs, removeTs, left>>

(* updateRelayAuthToken.  Without a profile it returns null, and the handler  *)
(* of update-auth-data queues the update.                                     *)
SaveAuth(j) ==
  /\ Holding(j, "auth")
  /\ IF job[j].local.exists
       THEN /\ file' = WithToken(job[j].local, User[j], j)
            /\ store' = [store EXCEPT ![User[j]] = j]
            /\ tokens' = [tokens EXCEPT ![User[j]] = j]
            /\ UNCHANGED pending
       ELSE /\ pending' = IF Kind[j] = "token" THEN Append(pending, j) ELSE pending
            /\ UNCHANGED <<file, store, tokens>>
  /\ Release(j)
  /\ UNCHANGED <<restarts, addTs, removeTs, left>>

(* applyPendingAuthUpdates: one update after the other, those queued          *)
(* meanwhile included; after the last the queue is deleted.                   *)
SavePending(j) ==
  /\ Holding(j, "apply")
  /\ LET k == pending[job[j].next] IN
     IF job[j].local.exists
       THEN /\ file' = WithToken(job[j].local, User[k], k)
            /\ store' = [store EXCEPT ![User[k]] = k]
            /\ tokens' = [tokens EXCEPT ![User[k]] = k]
       ELSE UNCHANGED <<file, store, tokens>>
  /\ IF job[j].next < Len(pending)
       THEN /\ queue' = Tail(queue)
            /\ job' = [job EXCEPT ![j] = [job[j] EXCEPT !.at = "free", !.next = @ + 1]]
            /\ UNCHANGED pending
       ELSE /\ Release(j)
            /\ pending' = <<>>
  /\ UNCHANGED <<restarts, addTs, removeTs, left>>

(* updateRelayMemberSets.                                                     *)
SaveSets(j) ==
  /\ Holding(j, "sets")
  /\ IF job[j].local.exists
       THEN /\ file' = MergeSets(job[j].local, Adds(j), Removes(j))
            /\ addTs' = IF Kind[j] = "remove" THEN addTs
                        ELSE [addTs EXCEPT ![User[j]] = Later(@, Ts[j])]
            /\ removeTs' = IF Kind[j] # "remove" THEN removeTs
                           ELSE [removeTs EXCEPT ![User[j]] = Later(@, Ts[j])]
       ELSE UNCHANGED <<file, addTs, removeTs>>
  /\ Release(j)
  /\ UNCHANGED <<store, pending, restarts, tokens, left>>

(* saveRelayProfile with the profile the job holds, which replaces every      *)
(* field, or is added if there is no profile.                                 *)
SaveHeld(j) ==
  /\ Holding(j, "save")
  /\ file' = [job[j].held EXCEPT !.exists = TRUE]
  /\ IF Kind[j] = "untoken"
       THEN /\ store' = [store EXCEPT ![User[j]] = None]
            /\ tokens' = [tokens EXCEPT ![User[j]] = None]
       ELSE UNCHANGED <<store, tokens>>
  /\ left' = (left /\ Kind[j] # "join")
  /\ Release(j)
  /\ UNCHANGED <<pending, restarts, addTs, removeTs>>

(* removeRelayProfile.                                                        *)
Drop(j) ==
  /\ Holding(j, "drop")
  /\ file' = NoProfile
  /\ left' = TRUE
  /\ tokens' = NoTokens /\ addTs' = NoTimes /\ removeTs' = NoTimes
  /\ Release(j)
  /\ UNCHANGED <<store, pending, restarts>>

(* The worker is started again: calls, the queue of updates and the store are *)
(* lost, and connecting to the relay imports the tokens of the profile.       *)
Restart ==
  /\ restarts < MaxRestarts
  /\ restarts' = restarts + 1
  /\ queue' = <<>>
  /\ job' = [j \in Jobs |-> IF job[j] = Ready THEN Ready
                            ELSE [Ready EXCEPT !.pc = Len(Program(j)) + 1]]
  /\ store' = file.auths
  /\ pending' = <<>>
  /\ UNCHANGED <<file, history>>

Step(j) ==
  \/ Read(j) \/ Load(j) \/ SaveAuth(j) \/ SavePending(j)
  \/ SaveSets(j) \/ SaveHeld(j) \/ Drop(j)

(* What an operation that was begun does next.                                *)
Continue(j) == Step(j) \/ (job[j].pc > 1 /\ (Call(j) \/ NothingPending(j)))

Next == Restart \/ \E j \in Jobs : Call(j) \/ NothingPending(j) \/ Step(j)

Spec == Init /\ [][Next]_vars

-----------------------------------------------------------------------------

(* Every variable has its type.                                               *)
ProfileType ==
  [exists : BOOLEAN, adds : [Users -> Nat], removes : [Users -> Nat], members : SUBSET Users,
   auths : [Users -> Jobs \cup {None}], gone : SUBSET Users]
TypeOK ==
  /\ file \in ProfileType
  /\ queue \in Seq(Jobs) /\ pending \in Seq(Jobs)
  /\ \A j \in Jobs :
       /\ job[j].at \in {"free", "waiting", "loaded"}
       /\ job[j].pc \in 1..(Len(Program(j)) + 1) /\ job[j].next \in Nat
       /\ job[j].held \in ProfileType /\ job[j].local \in ProfileType
  /\ store \in [Users -> Jobs \cup {None}] /\ tokens \in [Users -> Jobs \cup {None}]
  /\ addTs \in [Users -> Nat] /\ removeTs \in [Users -> Nat] /\ left \in BOOLEAN
  /\ restarts \in 0..MaxRestarts

(* At most one operation is between its reading and its saving of the file,   *)
(* and what it read is still what the file holds.                             *)
LocalIsCurrent ==
  \A j \in Jobs : job[j].at = "loaded" => Turn(j) /\ job[j].local = file

(* Only operations ran that hold the mutex from reading to saving.            *)
OnlyLocked == \A j \in Jobs : Kind[j] \in {"token", "add", "remove", "verify"} \/ job[j] = Ready

(* A user is a member exactly if the newest change of their membership that   *)
(* was saved is an add, in whatever order the changes arrived, even if one of *)
(* them came with member sets read before the others (verify-ownership).      *)
MembersAreLatest ==
  OnlyLocked /\ file.exists => file.members = {u \in Users : addTs[u] > removeTs[u]}

(* A user's token is the last one that was saved, or none if it was removed   *)
(* since: an update of another user's never takes it away or brings it back.  *)
TokensKept == file.exists => file.auths = tokens

(* So it is as long as only operations ran that hold the mutex throughout;    *)
(* and with none running, the store that clients' requests are checked        *)
(* against has the tokens of the profile.                                     *)
TokensAreLatest ==
  OnlyLocked => TokensKept /\ (Quiet /\ file.exists => store = file.auths)

(* Operations that hold the mutex throughout keep the members and tokens.     *)
LatestKept == MembersAreLatest /\ TokensAreLatest

(* An update of a token that found no profile is not left in the queue once   *)
(* there is one and the join that made it has ended, unless one was updated,  *)
(* the relay was left, and a profile read before was saved after all.         *)
Ran(kinds) == \E j \in Jobs : Kind[j] \in kinds /\ job[j] # Ready
Relapsed == Ran({"token"}) /\ Ran({"leave"}) /\ Ran({"untoken", "stale"})
PendingApplied == Quiet /\ file.exists /\ ~Relapsed => pending = <<>>

(* Whatever runs, a saved profile lists as members those its sets say, and no *)
(* user has both a token and a removal of it.                                 *)
SelfConsistent ==
  /\ file.members = CalculateMembers(file.adds, file.removes)
  /\ \A u \in file.gone : file.auths[u] = None

(* A relay that was left has no profile until it is joined again.             *)
StaysLeft == left => ~file.exists

(* Every operation that was begun ends; none waits for a mutex it holds.  As  *)
(* each is called once, in the end none is running.                           *)
JobsEnd == <>[]Quiet
=============================================================================
