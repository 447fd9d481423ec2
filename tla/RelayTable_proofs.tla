-------------------------- MODULE RelayTable_proofs --------------------------
(* Proofs about RelayTable, for any number of calls, writers and syncs, and   *)
(* first about the profile, the tokens and the members that it extends.       *)
(*                                                                            *)
(* ActiveRelays: every variable has its type, the directory of a relay is     *)
(* opened by one manager at a time, no open manager is lost, and when no call *)
(* runs, what is known of the relay agrees.  None is inductive.  What profiles *)
(* a call carries (CallsTyped), and how far its manager is (Placed), follows from  *)
(* where the call is.  A join that found the table empty finds it so until it *)
(* enters its manager there, for only another such join could fill it; a call *)
(* that closes a manager closes the one in the table, for only another such   *)
(* call could take it out (Alone).  Joins and disconnects that did not come   *)
(* together see the table as they left it (Apart); in between, a join is yet  *)
(* to save the profile (Known), or a call is to mark or remove it (Left).     *)
(*                                                                            *)
(* WriterQueue: the writers of a call were handled, put off or are still to be *)
(* tried (Handled), and so are those that wait while a flush is at work.      *)
EXTENDS RelayTable, TLAPS

-----------------------------------------------------------------------------
(* RelayProfiles, for any users and operations: the mutex keeps the profile a *)
(* holder has read, what is saved is consistent, and operations that hold the *)
(* mutex throughout lose no change.                                           *)
(*                                                                            *)
(* None is inductive.  Who waits for the mutex is in its queue once, and      *)
(* only the head of it has read the file to change it (Mutex).  What an       *)
(* operation without the mutex holds and will save is consistent (Sound).     *)
(* The sets that verify-ownership has read before are not newer than those    *)
(* saved since, but for its own add, and a token of the store that differs    *)
(* from the profile's is that of a verification on its way (Latest).          *)

JobRecord ==
  [pc : Nat \ {0}, at : {"free", "waiting", "loaded"}, held : ProfileType, local : ProfileType,
   next : Nat \ {0}]

Elements(q) == {q[i] : i \in DOMAIN q}
Distinct(q) == \A i, k \in DOMAIN q : q[i] = q[k] => i = k

\* Who waits for the mutex has not ended; and a join has not applied more
\* updates than are queued.
Applies(j) ==
  /\ job[j].at # "free" => job[j].pc <= Len(Program(j))
  /\ Kind[j] = "join" =>
       /\ job[j].pc < 3 => job[j].next = 1
       /\ job[j].pc = 3 /\ (job[j].at # "free" \/ job[j].next > 1) => job[j].next <= Len(pending)

Typed ==
  /\ file \in ProfileType
  /\ queue \in Seq(Jobs) /\ pending \in Seq(Jobs)
  /\ job \in [Jobs -> JobRecord]
  /\ \A j \in Jobs : job[j].pc <= Len(Program(j)) + 1 /\ Applies(j)
  /\ store \in [Users -> Jobs \cup {None}] /\ tokens \in [Users -> Jobs \cup {None}]
  /\ addTs \in [Users -> Nat] /\ removeTs \in [Users -> Nat] /\ left \in BOOLEAN
  /\ restarts \in 0..MaxRestarts

Mutex ==
  /\ Distinct(queue)
  /\ \A j \in Jobs : job[j].at # "free" <=> j \in Elements(queue)
  /\ LocalIsCurrent

-----------------------------------------------------------------------------
(* The operations and the profiles *)

LEMMA Programs ==
  ASSUME NEW j \in Jobs
  PROVE  /\ Kind[j] \in Kinds /\ User[j] \in Users /\ Ts[j] \in Nat \ {0}
         /\ Len(Program(j)) \in 1..4
         /\ Kind[j] = "verify" => Len(Program(j)) = 3
         /\ Kind[j] = "join" => Len(Program(j)) = 4 /\ Program(j)[3] = "apply"
         /\ \A i \in 1..Len(Program(j)) :
              /\ Program(j)[i] = "read" => i = 1 /\ Kind[j] \in {"untoken", "verify", "stale", "join"}
              /\ Program(j)[i] = "auth" => Kind[j] \in {"token", "verify", "join"}
              /\ Program(j)[i] = "auth" /\ Kind[j] = "verify" => i = 2
              /\ Program(j)[i] = "save" => Kind[j] \in {"untoken", "stale", "join"}
              /\ Program(j)[i] = "apply" => i = 3 /\ Kind[j] = "join"
              /\ Program(j)[i] = "sets" => Kind[j] \in {"add", "remove", "verify"}
              /\ Program(j)[i] = "sets" /\ Kind[j] = "verify" => i = 3
              /\ Program(j)[i] = "drop" => Kind[j] = "leave"
  <1>1. Kind[j] \in Kinds /\ User[j] \in Users /\ Ts[j] \in Nat \ {0}
    BY JobsDescribed
  <1>2. CASE Kind[j] = "token"    BY <1>1, <1>2 DEF Program
  <1>3. CASE Kind[j] = "untoken"  BY <1>1, <1>3 DEF Program
  <1>4. CASE Kind[j] \in {"add", "remove"}  BY <1>1, <1>4 DEF Program
  <1>5. CASE Kind[j] = "verify"   BY <1>1, <1>5 DEF Program
  <1>6. CASE Kind[j] = "stale"    BY <1>1, <1>6 DEF Program
  <1>7. CASE Kind[j] = "join"     BY <1>1, <1>7 DEF Program
  <1>8. CASE Kind[j] = "leave"    BY <1>1, <1>8 DEF Program
  <1> QED  BY <1>1, <1>2, <1>3, <1>4, <1>5, <1>6, <1>7, <1>8 DEF Kinds

\* A profile that lists as members those its sets say, and no removed token.
Consistent(p) ==
  /\ p.members = CalculateMembers(p.adds, p.removes)
  /\ \A u \in p.gone : p.auths[u] = None

LEMMA NewProfiles ==
  /\ NewProfile \in ProfileType /\ NoProfile \in ProfileType
  /\ Consistent(NewProfile) /\ Consistent(NoProfile)
  /\ NoTokens \in [Users -> Jobs \cup {None}] /\ NoTimes \in [Users -> Nat]
  /\ NewProfile.exists /\ NewProfile.adds = NoTimes /\ NewProfile.removes = NoTimes
  /\ NewProfile.auths = NoTokens /\ ~NoProfile.exists
  <1>1. NoTokens \in [Users -> Jobs \cup {None}] /\ NoTimes \in [Users -> Nat]
    BY DEF NoTokens, NoTimes
  <1>2. CalculateMembers(NoTimes, NoTimes) = {}
    BY DEF CalculateMembers, NoTimes
  <1>3. NewProfile \in ProfileType /\ NoProfile \in ProfileType
    BY <1>1 DEF NewProfile, NoProfile, ProfileType
  <1> QED  BY <1>1, <1>2, <1>3 DEF NewProfile, NoProfile, Consistent

LEMMA TokenTyped ==
  ASSUME NEW p \in ProfileType, NEW u \in Users, NEW t \in Jobs
  PROVE  /\ WithToken(p, u, t) \in ProfileType /\ WithoutToken(p, u) \in ProfileType
         /\ WithToken(p, u, t).exists = p.exists
         /\ WithToken(p, u, t).adds = p.adds /\ WithToken(p, u, t).removes = p.removes
         /\ WithToken(p, u, t).auths = [p.auths EXCEPT ![u] = t]
         /\ Consistent(p) => Consistent(WithToken(p, u, t)) /\ Consistent(WithoutToken(p, u))
  <1>1. /\ WithToken(p, u, t) \in ProfileType /\ WithoutToken(p, u) \in ProfileType
        /\ WithToken(p, u, t).exists = p.exists
        /\ WithToken(p, u, t).adds = p.adds /\ WithToken(p, u, t).removes = p.removes
        /\ WithToken(p, u, t).members = p.members
        /\ WithToken(p, u, t).gone = p.gone \ {u}
        /\ WithToken(p, u, t).auths = [p.auths EXCEPT ![u] = t]
    BY DEF WithToken, WithoutToken, ProfileType
  <1>2. /\ WithoutToken(p, u).adds = p.adds /\ WithoutToken(p, u).removes = p.removes
        /\ WithoutToken(p, u).members = p.members
        /\ WithoutToken(p, u).gone = p.gone \cup {u}
        /\ WithoutToken(p, u).auths = [p.auths EXCEPT ![u] = None]
    BY DEF WithoutToken, ProfileType
  <1>3. p.auths \in [Users -> Jobs \cup {None}] /\ p.gone \subseteq Users
    BY DEF ProfileType
  <1> QED  BY <1>1, <1>2, <1>3 DEF Consistent

LEMMA MergeSaves ==
  ASSUME NEW p \in ProfileType, NEW a \in [Users -> Nat], NEW r \in [Users -> Nat]
  PROVE  LET m == MergeSets(p, a, r)
             x == [u \in Users |-> Later(p.adds[u], a[u])]
             y == [u \in Users |-> Later(p.removes[u], r[u])]
         IN  /\ m \in ProfileType
             /\ m.exists = p.exists /\ m.auths = p.auths /\ m.gone = p.gone
             /\ m.adds = x /\ m.removes = y /\ m.members = CalculateMembers(m.adds, m.removes)
  <1> DEFINE x == [u \in Users |-> Later(p.adds[u], a[u])]
             y == [u \in Users |-> Later(p.removes[u], r[u])]
  <1>1. x \in [Users -> Nat] /\ y \in [Users -> Nat]
    BY DEF Later, ProfileType
  <1>2. CalculateMembers(x, y) \in SUBSET Users
    BY DEF CalculateMembers
  <1>3. MergeSets(p, a, r) = [p EXCEPT !.adds = x, !.removes = y, !.members = CalculateMembers(x, y)]
    BY DEF MergeSets
  <1> HIDE DEF x, y
  <1>4. /\ MergeSets(p, a, r) \in ProfileType
        /\ MergeSets(p, a, r).exists = p.exists /\ MergeSets(p, a, r).auths = p.auths
        /\ MergeSets(p, a, r).gone = p.gone /\ MergeSets(p, a, r).members = CalculateMembers(x, y)
        /\ MergeSets(p, a, r).adds = x /\ MergeSets(p, a, r).removes = y
    BY <1>1, <1>2, <1>3 DEF ProfileType
  <1> DEFINE m == MergeSets(p, a, r)
  <1>5. m.members = CalculateMembers(m.adds, m.removes)
    BY <1>4
  <1> QED  BY <1>4, <1>5 DEF x, y

LEMMA MergeKeeps ==
  ASSUME NEW p \in ProfileType, NEW a \in [Users -> Nat], NEW r \in [Users -> Nat]
  PROVE  /\ MergeSets(p, a, r).exists = p.exists /\ MergeSets(p, a, r).auths = p.auths
         /\ \A u \in Users : MergeSets(p, a, r).adds[u] = Later(p.adds[u], a[u])
         /\ \A u \in Users : MergeSets(p, a, r).removes[u] = Later(p.removes[u], r[u])
  <1> DEFINE m == MergeSets(p, a, r)
  <1>1. m.exists = p.exists /\ m.auths = p.auths  BY MergeSaves
  <1>2. m.adds = [u \in Users |-> Later(p.adds[u], a[u])]  BY MergeSaves
  <1>3. m.removes = [u \in Users |-> Later(p.removes[u], r[u])]  BY MergeSaves
  <1> HIDE DEF m
  <1>4. \A u \in Users : m.adds[u] = Later(p.adds[u], a[u])  BY <1>2
  <1>5. \A u \in Users : m.removes[u] = Later(p.removes[u], r[u])  BY <1>3
  <1> QED  BY <1>1, <1>4, <1>5 DEF m

LEMMA MergeTyped ==
  ASSUME NEW p \in ProfileType, NEW a \in [Users -> Nat], NEW r \in [Users -> Nat]
  PROVE  MergeSets(p, a, r) \in ProfileType /\ (Consistent(p) => Consistent(MergeSets(p, a, r)))
  <1>1. MergeSets(p, a, r) \in ProfileType
    BY MergeSaves
  <1>2. Consistent(p) => Consistent(MergeSets(p, a, r))
    <2> DEFINE m == MergeSets(p, a, r)
    <2>1. /\ m.members = CalculateMembers(m.adds, m.removes)
          /\ m.gone = p.gone /\ m.auths = p.auths
      BY MergeSaves
    <2> QED  BY <2>1 DEF Consistent
  <1> QED  BY <1>1, <1>2

LEMMA HeldTyped ==
  ASSUME NEW j \in Jobs, NEW p \in ProfileType
  PROVE  /\ Held(j, p) \in ProfileType
         /\ Consistent(p) /\ Kind[j] \in {"untoken", "stale", "join"} => Consistent(Held(j, p))
         /\ Kind[j] = "verify" =>
              /\ Held(j, p).adds = [p.adds EXCEPT ![User[j]] = Ts[j]]
              /\ Held(j, p).removes = p.removes
  <1>1. Kind[j] \in Kinds /\ User[j] \in Users /\ Ts[j] \in Nat \ {0}
    BY JobsDescribed
  <1>2. CASE Kind[j] = "untoken"  BY <1>1, <1>2, TokenTyped DEF Held
  <1>3. CASE Kind[j] = "verify"
    <2>1. Held(j, p) = [p EXCEPT !.adds = [p.adds EXCEPT ![User[j]] = Ts[j]]]
      BY <1>3 DEF Held
    <2>2. [p.adds EXCEPT ![User[j]] = Ts[j]] \in [Users -> Nat]
      BY <1>1 DEF ProfileType
    <2> QED  BY <1>3, <2>1, <2>2 DEF ProfileType
  <1>4. CASE Kind[j] = "join"  BY <1>4, NewProfiles DEF Held
  <1>5. CASE Kind[j] \notin {"untoken", "verify", "join"}  BY <1>5 DEF Held
  <1> QED  BY <1>2, <1>3, <1>4, <1>5

\* The sets a change of membership merges.
LEMMA ChangesTyped ==
  ASSUME Typed, NEW j \in Jobs
  PROVE  Adds(j) \in [Users -> Nat] /\ Removes(j) \in [Users -> Nat]
  <1>1. /\ [NoTimes EXCEPT ![User[j]] = Ts[j]] \in [Users -> Nat]
        /\ job[j].held.adds \in [Users -> Nat] /\ job[j].held.removes \in [Users -> Nat]
    BY NewProfiles, JobsDescribed DEF Typed, JobRecord, ProfileType
  <1> QED  BY <1>1, NewProfiles DEF Adds, Removes

-----------------------------------------------------------------------------
(* What a step does to its operation and to the queue *)

\* j goes to section p and to at; no other moves.
Goes(j, at, p, held, local, next) ==
  /\ job' \in [Jobs -> JobRecord]
  /\ job'[j].at = at /\ job'[j].pc = p /\ job'[j].held = held /\ job'[j].local = local
  /\ job'[j].next = next
  /\ \A k \in Jobs \ {j} : job'[k] = job[k]

Becomes(j, x) == job' = [job EXCEPT ![j] = x]

LEMMA Fields ==
  ASSUME NEW r \in JobRecord, NEW a, NEW n, NEW p
  PROVE  /\ [r EXCEPT !.at = a, !.pc = n].at = a /\ [r EXCEPT !.at = a, !.pc = n].pc = n
         /\ [r EXCEPT !.at = a, !.pc = n].held = r.held
         /\ [r EXCEPT !.at = a, !.pc = n].local = r.local
         /\ [r EXCEPT !.at = a, !.pc = n].next = r.next
         /\ [r EXCEPT !.at = a, !.next = n].at = a /\ [r EXCEPT !.at = a, !.next = n].pc = r.pc
         /\ [r EXCEPT !.at = a, !.next = n].held = r.held
         /\ [r EXCEPT !.at = a, !.next = n].local = r.local
         /\ [r EXCEPT !.at = a, !.next = n].next = n
         /\ [r EXCEPT !.at = a, !.held = p, !.pc = n].at = a
         /\ [r EXCEPT !.at = a, !.held = p, !.pc = n].pc = n
         /\ [r EXCEPT !.at = a, !.held = p, !.pc = n].held = p
         /\ [r EXCEPT !.at = a, !.held = p, !.pc = n].next = r.next
         /\ [r EXCEPT !.at = a, !.local = p].at = a /\ [r EXCEPT !.at = a, !.local = p].pc = r.pc
         /\ [r EXCEPT !.at = a, !.local = p].held = r.held
         /\ [r EXCEPT !.at = a, !.local = p].local = p
         /\ [r EXCEPT !.at = a, !.local = p].next = r.next
         /\ [r EXCEPT !.at = a].at = a /\ [r EXCEPT !.at = a].pc = r.pc
         /\ [r EXCEPT !.at = a].held = r.held /\ [r EXCEPT !.at = a].local = r.local
         /\ [r EXCEPT !.at = a].next = r.next
         /\ [r EXCEPT !.pc = n].at = r.at /\ [r EXCEPT !.pc = n].pc = n
         /\ [r EXCEPT !.pc = n].held = r.held /\ [r EXCEPT !.pc = n].local = r.local
         /\ [r EXCEPT !.pc = n].next = r.next
         /\ [r EXCEPT !.at = a, !.held = p, !.pc = n].local = r.local
  BY DEF JobRecord

LEMMA Moving ==
  ASSUME Typed, NEW j \in Jobs, NEW x \in JobRecord, Becomes(j, x)
  PROVE  Goes(j, x.at, x.pc, x.held, x.local, x.next)
  BY DEF Typed, Becomes, Goes

LEMMA CallMoves ==
  ASSUME Typed, NEW j \in Jobs, Call(j)
  PROVE  Goes(j, "waiting", job[j].pc, job[j].held, job[j].local, job[j].next)
  <1> DEFINE x == [job[j] EXCEPT !.at = "waiting"]
  <1>1. job[j] \in JobRecord  BY DEF Typed
  <1>4. x \in JobRecord  BY <1>1 DEF JobRecord
  <1>5. Becomes(j, x)  BY DEF Call, Becomes
  <1>6. Goes(j, x.at, x.pc, x.held, x.local, x.next)  BY <1>4, <1>5, Moving
  <1>7. /\ x.at = "waiting" /\ x.pc = job[j].pc /\ x.held = job[j].held
        /\ x.local = job[j].local /\ x.next = job[j].next
    BY <1>1, Fields
  <1> QED  BY <1>6, <1>7

LEMMA NothingPendingMoves ==
  ASSUME Typed, NEW j \in Jobs, NothingPending(j)
  PROVE  Goes(j, job[j].at, job[j].pc + 1, job[j].held, job[j].local, job[j].next)
  <1> DEFINE x == [job[j] EXCEPT !.pc = job[j].pc + 1]
  <1>1. job[j] \in JobRecord  BY DEF Typed
  <1>2. job[j].pc + 1 \in Nat \ {0}  BY <1>1 DEF JobRecord
  <1>4. x \in JobRecord  BY <1>1, <1>2 DEF JobRecord
  <1>5. Becomes(j, x)  BY DEF NothingPending, Becomes
  <1>6. Goes(j, x.at, x.pc, x.held, x.local, x.next)  BY <1>4, <1>5, Moving
  <1>7. /\ x.at = job[j].at /\ x.pc = job[j].pc + 1 /\ x.held = job[j].held
        /\ x.local = job[j].local /\ x.next = job[j].next
    BY <1>1, Fields
  <1> QED  BY <1>6, <1>7

LEMMA LoadMoves ==
  ASSUME Typed, NEW j \in Jobs, Load(j)
  PROVE  Goes(j, "loaded", job[j].pc, job[j].held, file, job[j].next)
  <1> DEFINE x == [job[j] EXCEPT !.at = "loaded", !.local = file]
  <1>1. job[j] \in JobRecord  BY DEF Typed
  <1>2. file \in ProfileType  BY DEF Typed
  <1>4. x \in JobRecord  BY <1>1, <1>2 DEF JobRecord
  <1>5. Becomes(j, x)  BY DEF Load, Becomes
  <1>6. Goes(j, x.at, x.pc, x.held, x.local, x.next)  BY <1>4, <1>5, Moving
  <1>7. /\ x.at = "loaded" /\ x.pc = job[j].pc /\ x.held = job[j].held
        /\ x.local = file /\ x.next = job[j].next
    BY <1>1, Fields
  <1> QED  BY <1>6, <1>7

LEMMA ReleaseMoves ==
  ASSUME Typed, NEW j \in Jobs, Release(j)
  PROVE  Goes(j, "free", job[j].pc + 1, job[j].held, job[j].local, job[j].next)
  <1> DEFINE x == [job[j] EXCEPT !.at = "free", !.pc = job[j].pc + 1]
  <1>1. job[j] \in JobRecord  BY DEF Typed
  <1>2. job[j].pc + 1 \in Nat \ {0}  BY <1>1 DEF JobRecord
  <1>4. x \in JobRecord  BY <1>1, <1>2 DEF JobRecord
  <1>5. Becomes(j, x)  BY DEF Release, Becomes
  <1>6. Goes(j, x.at, x.pc, x.held, x.local, x.next)  BY <1>4, <1>5, Moving
  <1>7. /\ x.at = "free" /\ x.pc = job[j].pc + 1 /\ x.held = job[j].held
        /\ x.local = job[j].local /\ x.next = job[j].next
    BY <1>1, Fields
  <1> QED  BY <1>6, <1>7

\* Where a job goes that has read the profile.
AfterRead(j) ==
  IF Kind[j] = "join" THEN IF file.exists THEN 3 ELSE 2
                      ELSE IF file.exists THEN 2 ELSE Len(Program(j)) + 1

LEMMA ReadMoves ==
  ASSUME Typed, NEW j \in Jobs, Read(j)
  PROVE  Goes(j, "free", AfterRead(j), Held(j, file), job[j].local, job[j].next)
  <1> DEFINE x == [job[j] EXCEPT !.at = "free", !.held = Held(j, file), !.pc = AfterRead(j)]
  <1>1. job[j] \in JobRecord  BY DEF Typed
  <1>2. AfterRead(j) \in Nat \ {0}  BY Programs DEF AfterRead
  <1>3. Held(j, file) \in ProfileType  BY HeldTyped DEF Typed
  <1>4. x \in JobRecord  BY <1>1, <1>2, <1>3 DEF JobRecord
  <1>5. Becomes(j, x)  BY DEF Read, AfterRead, Becomes
  <1>6. Goes(j, x.at, x.pc, x.held, x.local, x.next)  BY <1>4, <1>5, Moving
  <1>7. /\ x.at = "free" /\ x.pc = AfterRead(j) /\ x.held = Held(j, file)
        /\ x.local = job[j].local /\ x.next = job[j].next
    BY <1>1, Fields
  <1> QED  BY <1>6, <1>7

LEMMA SavePendingMoves ==
  ASSUME Typed, NEW j \in Jobs, SavePending(j), job[j].next < Len(pending)
  PROVE  Goes(j, "free", job[j].pc, job[j].held, job[j].local, job[j].next + 1)
  <1> DEFINE x == [job[j] EXCEPT !.at = "free", !.next = job[j].next + 1]
  <1>1. job[j] \in JobRecord  BY DEF Typed
  <1>2. job[j].next + 1 \in Nat \ {0}  BY <1>1 DEF JobRecord
  <1>4. x \in JobRecord  BY <1>1, <1>2 DEF JobRecord
  <1>5. Becomes(j, x)  BY DEF SavePending, Becomes
  <1>6. Goes(j, x.at, x.pc, x.held, x.local, x.next)  BY <1>4, <1>5, Moving
  <1>7. /\ x.at = "free" /\ x.pc = job[j].pc /\ x.held = job[j].held
        /\ x.local = job[j].local /\ x.next = job[j].next + 1
    BY <1>1, Fields
  <1> QED  BY <1>6, <1>7

\* Every step of an operation that has the mutex, but Load, lets it go.
LetsGo(j) == queue' = Tail(queue) /\ Turn(j) /\ job'[j].at = "free" /\ job[j].at # "free"

LEMMA Leaving ==
  ASSUME Typed, NEW j \in Jobs,
         Read(j) \/ SaveAuth(j) \/ SavePending(j) \/ SaveSets(j) \/ SaveHeld(j) \/ Drop(j)
  PROVE  /\ LetsGo(j) /\ job' \in [Jobs -> JobRecord]
         /\ \A k \in Jobs \ {j} : job'[k] = job[k]
         /\ Section(j) = "read" => job'[j].held = Held(j, file)
         /\ Section(j) # "read" => job'[j].held = job[j].held
         /\ job'[j].pc # 1 \/ job'[j].next # 1
  <1>1. job[j].pc \in Nat \ {0} /\ job[j].next \in Nat \ {0} /\ Len(Program(j)) \in 1..4
    BY Programs DEF Typed, JobRecord
  <1>2. CASE Read(j)
    <2>1. Len(Program(j)) + 1 # 1
      BY Programs
    <2>2. AfterRead(j) # 1
      BY <2>1 DEF AfterRead
    <2>3. queue' = Tail(queue) /\ Turn(j) /\ job[j].at = "waiting" /\ Section(j) = "read"
      BY <1>2 DEF Read
    <2>4. Goes(j, "free", AfterRead(j), Held(j, file), job[j].local, job[j].next)
      BY <1>2, ReadMoves
    <2>5. /\ job' \in [Jobs -> JobRecord] /\ \A k \in Jobs \ {j} : job'[k] = job[k]
          /\ job'[j].held = Held(j, file) /\ job'[j].pc # 1 /\ job'[j].at = "free"
      BY <2>2, <2>4 DEF Goes
    <2>6. LetsGo(j)
      BY <2>3, <2>5 DEF LetsGo
    <2> QED  BY <2>3, <2>5, <2>6
  <1>3. CASE SaveAuth(j) \/ SaveSets(j) \/ SaveHeld(j) \/ Drop(j)
    <2>1. Release(j) /\ Turn(j) /\ job[j].at = "loaded" /\ Section(j) # "read"
      BY <1>3 DEF SaveAuth, SaveSets, SaveHeld, Drop, Holding
    <2>2. queue' = Tail(queue)
      BY <2>1 DEF Release
    <2>3. Goes(j, "free", job[j].pc + 1, job[j].held, job[j].local, job[j].next)
      BY <2>1, ReleaseMoves
    <2>4. job[j].pc + 1 # 1
      BY <1>1
    <2> QED  BY <2>1, <2>2, <2>3, <2>4 DEF LetsGo, Goes
  <1>4. CASE SavePending(j)
    <2>1. queue' = Tail(queue) /\ Turn(j) /\ job[j].at = "loaded" /\ Section(j) # "read"
      BY <1>4 DEF SavePending, Holding, Release
    <2>2. CASE job[j].next < Len(pending)
      BY <1>1, <1>4, <2>1, <2>2, SavePendingMoves DEF LetsGo, Goes
    <2>3. CASE ~(job[j].next < Len(pending))
      <3>1. Release(j)  BY <1>4, <2>3 DEF SavePending
      <3> QED  BY <1>1, <2>1, <3>1, ReleaseMoves DEF LetsGo, Goes
    <2> QED  BY <2>2, <2>3
  <1> QED  BY <1>2, <1>3, <1>4

LEMMA Begins ==
  ASSUME NEW j \in Jobs
  PROVE  /\ Ready \in JobRecord /\ [Ready EXCEPT !.pc = Len(Program(j)) + 1] \in JobRecord
         /\ [Ready EXCEPT !.pc = Len(Program(j)) + 1].at = "free"
         /\ [Ready EXCEPT !.pc = Len(Program(j)) + 1].held = NoProfile
         /\ [Ready EXCEPT !.pc = Len(Program(j)) + 1].pc = Len(Program(j)) + 1
         /\ [Ready EXCEPT !.pc = Len(Program(j)) + 1].next = 1
         /\ Ready.at = "free" /\ Ready.held = NoProfile /\ Ready.pc = 1 /\ Ready.next = 1
  <1>1. Ready \in JobRecord  BY NewProfiles DEF Ready, JobRecord
  <1>2. Len(Program(j)) + 1 \in Nat \ {0}  BY Programs
  <1>3. [Ready EXCEPT !.pc = Len(Program(j)) + 1] \in JobRecord  BY <1>1, <1>2 DEF JobRecord
  <1>4. Ready.at = "free" /\ Ready.held = NoProfile /\ Ready.pc = 1 /\ Ready.next = 1
    BY DEF Ready
  <1> QED  BY <1>1, <1>3, <1>4, Fields

\* After a restart nobody runs.
LEMMA Restarted ==
  ASSUME Typed, Restart
  PROVE  /\ job' \in [Jobs -> JobRecord] /\ queue' = <<>> /\ pending' = <<>>
         /\ \A j \in Jobs :
              /\ job'[j].at = "free" /\ job'[j].held = NoProfile /\ job'[j].next = 1
              /\ job'[j].pc = IF job[j] = Ready THEN 1 ELSE Len(Program(j)) + 1
              /\ job'[j] = Ready <=> job[j] = Ready
  <1>1. /\ queue' = <<>> /\ pending' = <<>>
        /\ job' = [j \in Jobs |-> IF job[j] = Ready THEN Ready
                                  ELSE [Ready EXCEPT !.pc = Len(Program(j)) + 1]]
    BY DEF Restart
  <1>2. \A j \in Jobs : Len(Program(j)) + 1 # 1
    BY Programs
  <1>3. job' \in [Jobs -> JobRecord]
    BY <1>1, Begins
  <1>4. ASSUME NEW j \in Jobs
        PROVE  /\ job'[j].at = "free" /\ job'[j].held = NoProfile /\ job'[j].next = 1
               /\ job'[j].pc = IF job[j] = Ready THEN 1 ELSE Len(Program(j)) + 1
               /\ job'[j] = Ready <=> job[j] = Ready
    BY <1>1, <1>2, Begins
  <1> QED  BY <1>1, <1>3, <1>4

-----------------------------------------------------------------------------
(* Types *)

LEMMA TypedInit ==
  Init => Typed
  <1> SUFFICES ASSUME Init  PROVE Typed
    OBVIOUS
  <1>1. file \in ProfileType /\ queue \in Seq(Jobs) /\ pending \in Seq(Jobs)
    BY NewProfiles DEF Init
  <1>2. job \in [Jobs -> JobRecord] /\ \A j \in Jobs : job[j] = Ready
    BY Begins DEF Init
  <1>3. \A j \in Jobs : job[j].pc <= Len(Program(j)) + 1 /\ Applies(j)
    <2>1. ASSUME NEW j \in Jobs  PROVE job[j].pc <= Len(Program(j)) + 1 /\ Applies(j)
      <3>1. job[j].pc = 1 /\ job[j].next = 1 /\ job[j].at = "free"  BY <1>2, Begins
      <3>2. Len(Program(j)) \in 1..4  BY Programs
      <3> QED  BY <3>1, <3>2 DEF Applies
    <2> QED  BY <2>1
  <1>4. /\ store \in [Users -> Jobs \cup {None}] /\ tokens \in [Users -> Jobs \cup {None}]
        /\ addTs \in [Users -> Nat] /\ removeTs \in [Users -> Nat]
    BY NewProfiles DEF Init
  <1>5. left \in BOOLEAN
    BY DEF Init
  <1>6. restarts \in 0..MaxRestarts
    BY JobsDescribed DEF Init
  <1> QED  BY <1>1, <1>2, <1>3, <1>4, <1>5, <1>6 DEF Typed

LEMMA PlacesKept ==
  ASSUME Typed, NEW j \in Jobs, Call(j) \/ NothingPending(j) \/ Step(j)
  PROVE  /\ job' \in [Jobs -> JobRecord]
         /\ \A k \in Jobs \ {j} : job'[k] = job[k]
         /\ job'[j].pc <= Len(Program(j)) + 1 /\ Applies(j)'
         /\ Kind[j] = "join" \/ pending' = pending \/ pending' = Append(pending, j)
  <1>1. /\ job[j].pc \in Nat \ {0} /\ job[j].next \in Nat \ {0}
        /\ job[j].pc <= Len(Program(j)) + 1 /\ Applies(j) /\ Len(Program(j)) \in 1..4
        /\ pending \in Seq(Jobs)
        /\ Kind[j] = "join" => Len(Program(j)) = 4 /\ Program(j)[3] = "apply"
        /\ \A i \in 1..Len(Program(j)) : /\ Program(j)[i] = "read" => i = 1
                                         /\ Program(j)[i] = "apply" => i = 3 /\ Kind[j] = "join"
    BY Programs DEF Typed, JobRecord
  <1>2. CASE Call(j)
    <2>1. /\ ~Ended(j) /\ job[j].at = "free" /\ ~(Section(j) = "apply" /\ pending = <<>>)
          /\ pending' = pending
      BY <1>2 DEF Call
    <2>2. Goes(j, "waiting", job[j].pc, job[j].held, job[j].local, job[j].next)
      BY <1>2, CallMoves
    <2>3. Kind[j] = "join" /\ job[j].pc = 3 => Len(pending) >= 1
      BY <1>1, <2>1 DEF Section
    <2>4. Applies(j)'
      BY <1>1, <2>1, <2>2, <2>3 DEF Applies, Goes, Ended
    <2> QED  BY <1>1, <2>1, <2>2, <2>4 DEF Goes
  <1>3. CASE NothingPending(j)
    <2>1. ~Ended(j) /\ Section(j) = "apply" /\ pending' = pending
      BY <1>3 DEF NothingPending
    <2>2. Goes(j, job[j].at, job[j].pc + 1, job[j].held, job[j].local, job[j].next)
      BY <1>3, NothingPendingMoves
    <2>3. job[j].pc <= Len(Program(j))
      BY <1>1, <2>1 DEF Ended
    <2>4. job[j].pc = 3
      BY <1>1, <2>1, <2>3 DEF Section
    <2>5. Applies(j)'
      BY <1>3, <2>2, <2>4 DEF Applies, Goes, NothingPending
    <2> QED  BY <1>1, <2>1, <2>2, <2>3, <2>5 DEF Goes
  <1>4. CASE Load(j)
    <2>1. job[j].at = "waiting" /\ pending' = pending
      BY <1>4 DEF Load
    <2>2. Goes(j, "loaded", job[j].pc, job[j].held, file, job[j].next)
      BY <1>4, LoadMoves
    <2>3. Applies(j)'
      BY <1>1, <2>1, <2>2 DEF Applies, Goes
    <2> QED  BY <1>1, <2>1, <2>2, <2>3 DEF Goes
  <1>5. CASE Read(j)
    <2>1. Section(j) = "read" /\ job[j].at = "waiting" /\ pending' = pending
      BY <1>5 DEF Read
    <2>2. Goes(j, "free", AfterRead(j), Held(j, file), job[j].local, job[j].next)
      BY <1>5, ReadMoves
    <2>3. /\ AfterRead(j) <= Len(Program(j)) + 1
          /\ job[j].pc = 1
      BY <1>1, <2>1, Programs DEF AfterRead, Section, Applies
    <2>4. Kind[j] = "join" => AfterRead(j) <= 3
      BY DEF AfterRead
    <2>5. Applies(j)'
      BY <1>1, <2>1, <2>2, <2>3, <2>4 DEF Applies, Goes
    <2> QED  BY <1>1, <2>1, <2>2, <2>3, <2>5 DEF Goes
  <1>6. ASSUME Release(j), job[j].at = "loaded", pending' = pending \/ pending' = Append(pending, j)
        PROVE  /\ job' \in [Jobs -> JobRecord] /\ \A k \in Jobs \ {j} : job'[k] = job[k]
               /\ job'[j].pc <= Len(Program(j)) + 1 /\ Applies(j)'
    <2>1. Goes(j, "free", job[j].pc + 1, job[j].held, job[j].local, job[j].next)
      BY <1>6, ReleaseMoves
    <2>2. job[j].pc <= Len(Program(j))
      BY <1>1, <1>6 DEF Applies
    <2>3. Applies(j)'
      BY <1>1, <2>1, <2>2 DEF Applies, Goes
    <2> QED  BY <1>1, <2>1, <2>2, <2>3 DEF Goes
  <1>7. CASE SaveAuth(j) \/ SaveSets(j) \/ SaveHeld(j) \/ Drop(j)
    <2>1. Release(j) /\ job[j].at = "loaded" /\ (pending' = pending \/ pending' = Append(pending, j))
      BY <1>7 DEF SaveAuth, SaveSets, SaveHeld, Drop, Holding
    <2> QED  BY <1>6, <2>1
  <1>8. CASE SavePending(j)
    <2>1. job[j].at = "loaded" /\ Section(j) = "apply"
      BY <1>8 DEF SavePending, Holding
    <2>2. job[j].pc = 3 /\ Kind[j] = "join" /\ Len(Program(j)) = 4
      BY <1>1, <2>1 DEF Section, Applies
    <2>3. CASE job[j].next < Len(pending)
      <3>1. Goes(j, "free", job[j].pc, job[j].held, job[j].local, job[j].next + 1)
        BY <1>8, <2>3, SavePendingMoves
      <3>2. pending' = pending
        BY <1>8, <2>3 DEF SavePending
      <3>3. Applies(j)'
        BY <1>1, <2>2, <2>3, <3>1, <3>2 DEF Applies, Goes
      <3> QED  BY <1>1, <2>2, <3>1, <3>3 DEF Goes
    <2>4. CASE ~(job[j].next < Len(pending))
      <3>1. Release(j)
        BY <1>8, <2>4 DEF SavePending
      <3>2. Goes(j, "free", job[j].pc + 1, job[j].held, job[j].local, job[j].next)
        BY <3>1, ReleaseMoves
      <3>3. Applies(j)'
        BY <2>2, <3>2 DEF Applies, Goes
      <3> QED  BY <2>2, <3>2, <3>3 DEF Goes
    <2> QED  BY <2>2, <2>3, <2>4
  <1> QED  BY <1>2, <1>3, <1>4, <1>5, <1>7, <1>8 DEF Step

\* The update a join applies is one that is queued.
LEMMA Applying ==
  ASSUME Typed, NEW j \in Jobs, SavePending(j)
  PROVE  /\ Kind[j] = "join" /\ job[j].pc = 3 /\ job[j].next \in 1..Len(pending)
         /\ pending[job[j].next] \in Jobs
  <1>1. job[j].at = "loaded" /\ Section(j) = "apply"
    BY DEF SavePending, Holding
  <1>2. job[j].pc \in Nat \ {0} /\ job[j].next \in Nat \ {0} /\ Applies(j) /\ pending \in Seq(Jobs)
    BY DEF Typed, JobRecord
  <1>3. job[j].pc \in 1..Len(Program(j))
    BY <1>1, <1>2, Programs DEF Applies
  <1>4. Kind[j] = "join" /\ job[j].pc = 3
    BY <1>1, <1>3, Programs DEF Section
  <1>5. job[j].next <= Len(pending)
    BY <1>1, <1>2, <1>4 DEF Applies
  <1> QED  BY <1>2, <1>4, <1>5

\* A map that is as it was or has been assigned to.
LEMMA Assigned ==
  ASSUME NEW S, NEW f \in [Users -> S], NEW u \in Users, NEW v \in S, NEW g,
         g = f \/ g = [f EXCEPT ![u] = v]
  PROVE  g \in [Users -> S]
  OBVIOUS

LEMMA SavedTyped ==
  /\ \A p \in ProfileType, u \in Users, t \in Jobs : WithToken(p, u, t) \in ProfileType
  /\ \A p \in ProfileType, a, r \in [Users -> Nat] : MergeSets(p, a, r) \in ProfileType
  <1>1. ASSUME NEW p \in ProfileType, NEW u \in Users, NEW t \in Jobs
        PROVE  WithToken(p, u, t) \in ProfileType
    BY TokenTyped
  <1>2. ASSUME NEW p \in ProfileType, NEW a \in [Users -> Nat], NEW r \in [Users -> Nat]
        PROVE  MergeSets(p, a, r) \in ProfileType
    BY MergeTyped
  <1> QED  BY <1>1, <1>2

\* What is read, saved, queued and recorded has its type.
LEMMA ValuesTyped ==
  ASSUME Typed, LocalIsCurrent, NEW j \in Jobs, Call(j) \/ NothingPending(j) \/ Step(j)
  PROVE  /\ file' \in ProfileType
         /\ queue' \in Seq(Jobs) /\ pending' \in Seq(Jobs)
         /\ store' \in [Users -> Jobs \cup {None}] /\ tokens' \in [Users -> Jobs \cup {None}]
         /\ addTs' \in [Users -> Nat] /\ removeTs' \in [Users -> Nat] /\ left' \in BOOLEAN
         /\ restarts' \in 0..MaxRestarts
  <1>1. /\ file \in ProfileType /\ queue \in Seq(Jobs) /\ pending \in Seq(Jobs)
        /\ store \in [Users -> Jobs \cup {None}] /\ tokens \in [Users -> Jobs \cup {None}]
        /\ addTs \in [Users -> Nat] /\ removeTs \in [Users -> Nat] /\ left \in BOOLEAN
        /\ restarts \in 0..MaxRestarts
        /\ job[j].held \in ProfileType /\ User[j] \in Users /\ Ts[j] \in Nat
    BY Programs DEF Typed, JobRecord
  <1>2. job[j].at = "loaded" => job[j].local = file
    BY DEF LocalIsCurrent
  <1>3. NoProfile \in ProfileType /\ NoTokens \in [Users -> Jobs \cup {None}]
        /\ NoTimes \in [Users -> Nat]
    BY NewProfiles
  <1> DEFINE T == [Users -> Jobs \cup {None}]
  <1>12. j \in Jobs \cup {None} /\ None \in Jobs \cup {None}
    OBVIOUS
  <1>13. (queue # <<>> => Tail(queue) \in Seq(Jobs)) /\ Append(pending, j) \in Seq(Jobs)
    BY <1>1
  <1>4. CASE Call(j)
    <2>1. /\ queue' = Append(queue, j)
          /\ UNCHANGED <<file, pending, restarts, tokens, addTs, removeTs, left>>
      BY <1>4 DEF Call, history
    <2>2. store' \in T
      <3>1. store' = store \/ store' = [store EXCEPT ![User[j]] = j] \/ store' = NoTokens
        BY <1>4 DEF Call
      <3> QED  BY <1>1, <1>3, <1>12, <3>1, Assigned
    <2>3. queue' \in Seq(Jobs)
      BY <1>1, <2>1
    <2>4. /\ file' \in ProfileType /\ pending' \in Seq(Jobs) /\ tokens' \in T
          /\ addTs' \in [Users -> Nat] /\ removeTs' \in [Users -> Nat] /\ left' \in BOOLEAN
          /\ restarts' \in 0..MaxRestarts
      BY <1>1, <2>1
    <2> QED  BY <2>2, <2>3, <2>4
  <1>5. CASE NothingPending(j)
    BY <1>1, <1>5 DEF NothingPending, history
  <1>6. CASE Read(j) \/ Load(j)
    <2>1. /\ queue' = queue \/ (queue' = Tail(queue) /\ queue # <<>>)
          /\ UNCHANGED <<file, store, pending, restarts, tokens, addTs, removeTs, left>>
      BY <1>6 DEF Read, Load, Turn, history
    <2>2. queue' \in Seq(Jobs)
      BY <1>1, <1>13, <2>1
    <2> QED  BY <1>1, <2>1, <2>2
  <1>7. CASE SaveAuth(j)
    <2>1. queue' = Tail(queue) /\ queue # <<>> /\ UNCHANGED <<restarts, addTs, removeTs, left>>
      BY <1>7 DEF SaveAuth, Release, Holding, Turn
    <2>2. file' = file \/ file' = WithToken(file, User[j], j)
      BY <1>2, <1>7 DEF SaveAuth, Holding
    <2>3. /\ store' = store \/ store' = [store EXCEPT ![User[j]] = j]
          /\ tokens' = tokens \/ tokens' = [tokens EXCEPT ![User[j]] = j]
          /\ pending' = pending \/ pending' = Append(pending, j)
      BY <1>7 DEF SaveAuth
    <2>4. file' \in ProfileType
      <3>1. file \in ProfileType /\ User[j] \in Users  BY <1>1
      <3> QED  BY <2>2, <3>1, SavedTyped
    <2>5. store' \in T
      BY <1>1, <1>12, <2>3, Assigned
    <2>6. tokens' \in T
      BY <1>1, <1>12, <2>3, Assigned
    <2>7. queue' \in Seq(Jobs) /\ pending' \in Seq(Jobs)
      BY <1>1, <1>13, <2>1, <2>3
    <2> QED  BY <1>1, <2>1, <2>4, <2>5, <2>6, <2>7
  <1>8. CASE SavePending(j)
    <2>1. queue' = Tail(queue) /\ queue # <<>> /\ UNCHANGED <<restarts, addTs, removeTs, left>>
      BY <1>8 DEF SavePending, Release, Holding, Turn
    <2>2. pending' = pending \/ pending' = <<>>
      BY <1>8 DEF SavePending
    <2>3. PICK k : k = pending[job[j].next]
      OBVIOUS
    <2>4. k \in Jobs /\ User[k] \in Users
      BY <1>1, <1>8, <2>3, Applying, Programs
    <2>5. file' = file \/ file' = WithToken(file, User[k], k)
      BY <1>2, <1>8, <2>3 DEF SavePending, Holding
    <2>6. /\ store' = store \/ store' = [store EXCEPT ![User[k]] = k]
          /\ tokens' = tokens \/ tokens' = [tokens EXCEPT ![User[k]] = k]
      BY <1>8, <2>3 DEF SavePending
    <2>7. file' \in ProfileType
      <3>1. file \in ProfileType  BY <1>1
      <3> QED  BY <2>4, <2>5, <3>1, SavedTyped
    <2>8. k \in Jobs \cup {None}
      BY <2>4
    <2>9. store' \in T
      BY <1>1, <2>4, <2>6, <2>8, Assigned
    <2>10. tokens' \in T
      BY <1>1, <2>4, <2>6, <2>8, Assigned
    <2>11. queue' \in Seq(Jobs) /\ pending' \in Seq(Jobs)
      <3>1. pending \in Seq(Jobs) /\ <<>> \in Seq(Jobs)  BY <1>1
      <3> QED  BY <1>13, <2>1, <2>2, <3>1
    <2> QED  BY <1>1, <2>1, <2>7, <2>9, <2>10, <2>11
  <1>9. CASE SaveSets(j)
    <2>1. queue' = Tail(queue) /\ queue # <<>> /\ UNCHANGED <<store, pending, restarts, tokens, left>>
      BY <1>9 DEF SaveSets, Release, Holding, Turn
    <2>2. file' = file \/ file' = MergeSets(file, Adds(j), Removes(j))
      BY <1>2, <1>9 DEF SaveSets, Holding
    <2>3. /\ addTs' = addTs \/ addTs' = [addTs EXCEPT ![User[j]] = Later(addTs[User[j]], Ts[j])]
          /\ \/ removeTs' = removeTs
             \/ removeTs' = [removeTs EXCEPT ![User[j]] = Later(removeTs[User[j]], Ts[j])]
      BY <1>9 DEF SaveSets
    <2>4. Later(addTs[User[j]], Ts[j]) \in Nat /\ Later(removeTs[User[j]], Ts[j]) \in Nat
      BY <1>1 DEF Later
    <2>5. file' \in ProfileType
      <3>1. file \in ProfileType  BY <1>1
      <3> QED  BY <2>2, <3>1, ChangesTyped, SavedTyped
    <2>6. addTs' \in [Users -> Nat]
      BY <1>1, <2>3, <2>4, Assigned
    <2>7. removeTs' \in [Users -> Nat]
      BY <1>1, <2>3, <2>4, Assigned
    <2> QED  BY <1>1, <1>13, <2>1, <2>5, <2>6, <2>7
  <1>10. CASE SaveHeld(j)
    <2>1. queue' = Tail(queue) /\ queue # <<>> /\ UNCHANGED <<pending, restarts, addTs, removeTs>>
      BY <1>10 DEF SaveHeld, Release, Holding, Turn
    <2>2. file' \in ProfileType
      BY <1>1, <1>10 DEF SaveHeld, ProfileType
    <2>3. /\ store' = store \/ store' = [store EXCEPT ![User[j]] = None]
          /\ tokens' = tokens \/ tokens' = [tokens EXCEPT ![User[j]] = None]
      BY <1>10 DEF SaveHeld
    <2>4. left' \in BOOLEAN
      BY <1>10 DEF SaveHeld
    <2>5. store' \in T
      BY <1>1, <1>12, <2>3, Assigned
    <2>6. tokens' \in T
      BY <1>1, <1>12, <2>3, Assigned
    <2> QED  BY <1>1, <1>13, <2>1, <2>2, <2>4, <2>5, <2>6
  <1>11. CASE Drop(j)
    <2>1. /\ queue' = Tail(queue) /\ queue # <<>> /\ UNCHANGED <<store, pending, restarts>>
          /\ file' = NoProfile /\ left' = TRUE
          /\ tokens' = NoTokens /\ addTs' = NoTimes /\ removeTs' = NoTimes
      BY <1>11 DEF Drop, Release, Holding, Turn
    <2> QED  BY <1>1, <1>3, <1>13, <2>1
  <1> QED  BY <1>4, <1>5, <1>6, <1>7, <1>8, <1>9, <1>10, <1>11 DEF Step

LEMMA TypedNext ==
  ASSUME Typed, LocalIsCurrent, [Next]_vars
  PROVE  Typed'
  <1>1. ASSUME NEW j \in Jobs, Call(j) \/ NothingPending(j) \/ Step(j)
        PROVE  Typed'
    <2>1. /\ job' \in [Jobs -> JobRecord]
          /\ \A k \in Jobs \ {j} : job'[k] = job[k]
          /\ job'[j].pc <= Len(Program(j)) + 1 /\ Applies(j)'
          /\ Kind[j] = "join" \/ pending' = pending \/ pending' = Append(pending, j)
      BY <1>1, PlacesKept
    <2>2. ASSUME NEW k \in Jobs \ {j}
          PROVE  job'[k].pc <= Len(Program(k)) + 1 /\ Applies(k)'
      <3>1. /\ job[k].pc <= Len(Program(k)) + 1 /\ Applies(k) /\ job'[k] = job[k]
            /\ job[k].next \in Nat /\ pending \in Seq(Jobs)
        BY <2>1 DEF Typed, JobRecord
      <3>2. Kind[k] = "join" => pending' = pending \/ pending' = Append(pending, j)
        BY <2>1, JobsDescribed
      <3> QED  BY <3>1, <3>2 DEF Applies
    <2>3. \A k \in Jobs : job'[k].pc <= Len(Program(k)) + 1 /\ Applies(k)'
      BY <2>1, <2>2
    <2> QED  BY <1>1, <2>1, <2>3, ValuesTyped DEF Typed
  <1>2. ASSUME Restart  PROVE Typed'
    <2>1. /\ job' \in [Jobs -> JobRecord] /\ queue' = <<>> /\ pending' = <<>>
          /\ \A j \in Jobs : /\ job'[j].at = "free" /\ job'[j].next = 1
                             /\ job'[j].pc = IF job[j] = Ready THEN 1 ELSE Len(Program(j)) + 1
      BY <1>2, Restarted
    <2>2. /\ file' = file /\ store' = file.auths /\ restarts' = restarts + 1 /\ restarts < MaxRestarts
          /\ UNCHANGED <<tokens, addTs, removeTs, left>>
      BY <1>2 DEF Restart, history
    <2>3. ASSUME NEW j \in Jobs
          PROVE  job'[j].pc <= Len(Program(j)) + 1 /\ Applies(j)'
      <3>1. Len(Program(j)) \in 1..4 /\ (Kind[j] = "join" => Len(Program(j)) = 4)
        BY Programs
      <3> QED  BY <2>1, <3>1 DEF Applies
    <2>4. file.auths \in [Users -> Jobs \cup {None}] /\ restarts + 1 \in 0..MaxRestarts
      BY <2>2, JobsDescribed DEF Typed, ProfileType
    <2> QED  BY <2>1, <2>2, <2>3, <2>4 DEF Typed
  <1>3. CASE UNCHANGED vars
    BY <1>3 DEF Typed, Applies, vars, history
  <1> QED  BY <1>1, <1>2, <1>3 DEF Next

-----------------------------------------------------------------------------
(* The mutex *)

LEMMA Appended ==
  ASSUME NEW q \in Seq(Jobs), NEW j \in Jobs
  PROVE  /\ Elements(Append(q, j)) = Elements(q) \cup {j}
         /\ Distinct(q) /\ j \notin Elements(q) => Distinct(Append(q, j))
         /\ q # <<>> => Append(q, j) # <<>> /\ Head(Append(q, j)) = Head(q)
  <1> DEFINE n == Len(q)  a == Append(q, j)
  <1>1. /\ n \in Nat /\ DOMAIN q = 1..n /\ DOMAIN a = 1..(n + 1) /\ a[n + 1] = j
        /\ \A i \in 1..n : a[i] = q[i]
    OBVIOUS
  <1>2. Elements(a) = Elements(q) \cup {j}
    BY <1>1 DEF Elements
  <1>3. Distinct(q) /\ j \notin Elements(q) => Distinct(a)
    BY <1>1 DEF Distinct, Elements
  <1>4. q # <<>> => a # <<>> /\ Head(a) = Head(q)
    OBVIOUS
  <1> QED  BY <1>2, <1>3, <1>4

LEMMA Tailed ==
  ASSUME NEW q \in Seq(Jobs), q # <<>>, Distinct(q)
  PROVE  /\ Elements(Tail(q)) = Elements(q) \ {Head(q)} /\ Distinct(Tail(q))
         /\ Head(q) \in Elements(q)
  <1> DEFINE n == Len(q)  t == Tail(q)
  <1>1. /\ n \in Nat \ {0} /\ DOMAIN q = 1..n /\ DOMAIN t = 1..(n - 1) /\ Head(q) = q[1]
        /\ \A i \in 1..(n - 1) : t[i] = q[i + 1]
    OBVIOUS
  <1> HIDE DEF n, t
  <1>2. Head(q) \in Elements(q)
    BY <1>1 DEF Elements
  <1>3. Distinct(t)
    BY <1>1 DEF Distinct
  <1>4. ASSUME NEW k \in Elements(t)  PROVE k \in Elements(q) /\ k # Head(q)
    <2>1. PICK i \in 1..(n - 1) : k = q[i + 1]
      BY <1>1 DEF Elements
    <2>2. i + 1 \in 1..n /\ i + 1 # 1
      BY <1>1
    <2> QED  BY <1>1, <2>1, <2>2 DEF Elements, Distinct
  <1>5. ASSUME NEW k \in Elements(q), k # Head(q)  PROVE k \in Elements(t)
    <2>1. PICK i \in 1..n : k = q[i]
      BY <1>1 DEF Elements
    <2>2. i - 1 \in 1..(n - 1) /\ (i - 1) + 1 = i
      BY <1>1, <1>5, <2>1
    <2>3. t[i - 1] = k
      BY <1>1, <2>1, <2>2
    <2> QED  BY <1>1, <2>2, <2>3 DEF Elements
  <1> QED  BY <1>2, <1>3, <1>4, <1>5 DEF t

LEMMA MutexNext ==
  ASSUME Typed, Mutex, [Next]_vars
  PROVE  Mutex'
  <1>1. /\ queue \in Seq(Jobs) /\ Distinct(queue)
        /\ \A k \in Jobs : job[k].at # "free" <=> k \in Elements(queue)
        /\ \A k \in Jobs : job[k].at = "loaded" => Turn(k) /\ job[k].local = file
    BY DEF Typed, Mutex, LocalIsCurrent
  <1>2. ASSUME NEW j \in Jobs, Call(j)  PROVE Mutex'
    <2>1. queue' = Append(queue, j) /\ file' = file /\ job[j].at = "free"
      BY <1>2 DEF Call
    <2>2. Goes(j, "waiting", job[j].pc, job[j].held, job[j].local, job[j].next)
      BY <1>2, CallMoves
    <2>3. Distinct(queue')
      BY <1>1, <2>1, Appended
    <2>4. \A k \in Jobs : job'[k].at # "free" <=> k \in Elements(queue')
      BY <1>1, <2>1, <2>2, Appended DEF Goes
    <2>5. ASSUME NEW k \in Jobs, job'[k].at = "loaded"  PROVE Turn(k)' /\ job'[k].local = file'
      <3>1. k # j /\ job'[k] = job[k] /\ Turn(k) /\ job[k].local = file
        BY <1>1, <2>2, <2>5 DEF Goes
      <3> QED  BY <1>1, <2>1, <3>1, Appended DEF Turn
    <2> QED  BY <2>3, <2>4, <2>5 DEF Mutex, LocalIsCurrent
  <1>3. ASSUME NEW j \in Jobs, NothingPending(j)  PROVE Mutex'
    <2>1. queue' = queue /\ file' = file /\ job[j].at = "free"
      BY <1>3 DEF NothingPending
    <2>2. Goes(j, job[j].at, job[j].pc + 1, job[j].held, job[j].local, job[j].next)
      BY <1>3, NothingPendingMoves
    <2> QED  BY <1>1, <2>1, <2>2 DEF Mutex, LocalIsCurrent, Goes, Turn
  <1>4. ASSUME NEW j \in Jobs, Load(j)  PROVE Mutex'
    <2>1. queue' = queue /\ file' = file /\ job[j].at = "waiting" /\ Turn(j)
      BY <1>4 DEF Load
    <2>2. Goes(j, "loaded", job[j].pc, job[j].held, file, job[j].next)
      BY <1>4, LoadMoves
    <2> QED  BY <1>1, <2>1, <2>2 DEF Mutex, LocalIsCurrent, Goes, Turn
  <1>5. ASSUME NEW j \in Jobs,
               Read(j) \/ SaveAuth(j) \/ SavePending(j) \/ SaveSets(j) \/ SaveHeld(j) \/ Drop(j)
        PROVE  Mutex'
    <2>1. /\ LetsGo(j) /\ \A k \in Jobs \ {j} : job'[k] = job[k]
      BY <1>5, Leaving
    <2>2. queue # <<>> /\ Head(queue) = j /\ queue' = Tail(queue) /\ job'[j].at = "free"
      BY <2>1 DEF LetsGo, Turn
    <2>3. Distinct(queue') /\ Elements(queue') = Elements(queue) \ {j}
      BY <1>1, <2>2, Tailed
    <2>4. \A k \in Jobs : job'[k].at # "free" <=> k \in Elements(queue')
      BY <1>1, <2>1, <2>2, <2>3
    <2>5. \A k \in Jobs : job'[k].at # "loaded"
      BY <1>1, <2>1, <2>2 DEF Turn
    <2> QED  BY <2>3, <2>4, <2>5 DEF Mutex, LocalIsCurrent
  <1>6. ASSUME Restart  PROVE Mutex'
    <2>1. queue' = <<>> /\ \A k \in Jobs : job'[k].at = "free"
      BY <1>6, Restarted
    <2> QED  BY <2>1 DEF Mutex, LocalIsCurrent, Distinct, Elements
  <1>7. CASE UNCHANGED vars
    BY <1>7 DEF Mutex, LocalIsCurrent, Turn, vars
  <1> QED  BY <1>2, <1>3, <1>4, <1>5, <1>6, <1>7 DEF Next, Step

-----------------------------------------------------------------------------
(* What is saved is consistent *)

Sound ==
  /\ Consistent(file)
  /\ \A j \in Jobs : Kind[j] \in {"untoken", "stale", "join"} => Consistent(job[j].held)

\* The section of who waits for the mutex or has it.
LEMMA Sections ==
  ASSUME Typed, NEW j \in Jobs, job[j].at # "free"
  PROVE  /\ job[j].pc \in Nat /\ job[j].pc <= Len(Program(j))
         /\ Section(j) = "read" => job[j].pc = 1 /\ Kind[j] \in {"untoken", "verify", "stale", "join"}
         /\ Section(j) = "auth" => /\ Kind[j] \in {"token", "verify", "join"}
                                   /\ Kind[j] = "verify" => job[j].pc = 2
         /\ Section(j) = "save" => Kind[j] \in {"untoken", "stale", "join"}
         /\ Section(j) = "sets" => /\ Kind[j] \in {"add", "remove", "verify"}
                                   /\ Kind[j] = "verify" => job[j].pc = 3
         /\ Section(j) = "drop" => Kind[j] = "leave"
  <1>1. job[j].pc \in Nat \ {0} /\ job[j].pc <= Len(Program(j)) /\ Len(Program(j)) \in 1..4
    BY Programs DEF Typed, JobRecord, Applies
  <1>2. job[j].pc \in 1..Len(Program(j))
    BY <1>1
  <1> QED  BY <1>1, <1>2, Programs DEF Section

LEMMA SoundNext ==
  ASSUME Typed, LocalIsCurrent, Sound, [Next]_vars
  PROVE  Sound'
  <1>1. /\ file \in ProfileType /\ Consistent(file)
        /\ \A k \in Jobs : job[k].held \in ProfileType
        /\ \A k \in Jobs : job[k].at = "loaded" => job[k].local = file
    BY DEF Typed, JobRecord, Sound, LocalIsCurrent
  <1>2. ASSUME NEW j \in Jobs, file' = file, job'[j].held = job[j].held,
               \A k \in Jobs \ {j} : job'[k] = job[k]
        PROVE  Sound'
    BY <1>2 DEF Sound
  <1>3. ASSUME NEW j \in Jobs, Call(j)  PROVE Sound'
    BY <1>2, <1>3, CallMoves DEF Call, Goes
  <1>4. ASSUME NEW j \in Jobs, NothingPending(j)  PROVE Sound'
    BY <1>2, <1>4, NothingPendingMoves DEF NothingPending, Goes
  <1>5. ASSUME NEW j \in Jobs, Load(j)  PROVE Sound'
    BY <1>2, <1>5, LoadMoves DEF Load, Goes
  <1>6. ASSUME NEW j \in Jobs, Read(j)  PROVE Sound'
    <2>1. file' = file  BY <1>6 DEF Read
    <2>2. Goes(j, "free", AfterRead(j), Held(j, file), job[j].local, job[j].next)
      BY <1>6, ReadMoves
    <2>3. Kind[j] \in {"untoken", "stale", "join"} => Consistent(job'[j].held)
      BY <1>1, <2>2, HeldTyped DEF Goes
    <2> QED  BY <2>1, <2>2, <2>3 DEF Sound, Goes
  <1>7. ASSUME NEW j \in Jobs,
               SaveAuth(j) \/ SavePending(j) \/ SaveSets(j) \/ SaveHeld(j) \/ Drop(j)
        PROVE  Sound'
    <2>1. job[j].at = "loaded" /\ Section(j) # "read"
      BY <1>7 DEF SaveAuth, SavePending, SaveSets, SaveHeld, Drop, Holding
    <2>2. job'[j].held = job[j].held /\ \A k \in Jobs \ {j} : job'[k] = job[k]
      BY <1>7, <2>1, Leaving
    <2>3. Consistent(file')
      <3>1. CASE SaveAuth(j)
        <4>1. file' = file \/ file' = WithToken(file, User[j], j)
          BY <1>1, <2>1, <3>1 DEF SaveAuth
        <4>2. file \in ProfileType /\ Consistent(file) /\ User[j] \in Users  BY <1>1, Programs
        <4>3. Consistent(WithToken(file, User[j], j))  BY <4>2, TokenTyped
        <4> QED  BY <4>1, <4>2, <4>3
      <3>2. CASE SavePending(j)
        <4>1. PICK k : k = pending[job[j].next]  OBVIOUS
        <4>2. k \in Jobs /\ User[k] \in Users  BY <3>2, <4>1, Applying, Programs
        <4>3. file' = file \/ file' = WithToken(file, User[k], k)
          BY <1>1, <2>1, <3>2, <4>1 DEF SavePending
        <4>4. file \in ProfileType /\ Consistent(file)  BY <1>1
        <4>5. Consistent(WithToken(file, User[k], k))  BY <4>2, <4>4, TokenTyped
        <4> QED  BY <4>3, <4>4, <4>5
      <3>3. CASE SaveSets(j)
        <4>1. file' = file \/ file' = MergeSets(file, Adds(j), Removes(j))
          BY <1>1, <2>1, <3>3 DEF SaveSets
        <4>2. file \in ProfileType /\ Consistent(file)  BY <1>1
        <4>3. Adds(j) \in [Users -> Nat] /\ Removes(j) \in [Users -> Nat]  BY ChangesTyped
        <4>4. Consistent(MergeSets(file, Adds(j), Removes(j)))  BY <4>2, <4>3, MergeTyped
        <4> QED  BY <4>1, <4>2, <4>4
      <3>4. CASE SaveHeld(j)
        <4>1. file' = [job[j].held EXCEPT !.exists = TRUE] /\ Section(j) = "save"
          BY <3>4 DEF SaveHeld, Holding
        <4>2. Consistent(job[j].held)
          BY <2>1, <4>1, Sections DEF Sound
        <4>3. /\ file'.members = job[j].held.members /\ file'.adds = job[j].held.adds
              /\ file'.removes = job[j].held.removes /\ file'.gone = job[j].held.gone
              /\ file'.auths = job[j].held.auths
          BY <1>1, <4>1 DEF ProfileType
        <4> QED  BY <4>2, <4>3 DEF Consistent
      <3>5. CASE Drop(j)
        BY <3>5, NewProfiles DEF Drop
      <3> QED  BY <1>7, <3>1, <3>2, <3>3, <3>4, <3>5
    <2> QED  BY <2>2, <2>3 DEF Sound
  <1>8. ASSUME Restart  PROVE Sound'
    <2>1. file' = file  BY <1>8 DEF Restart
    <2>2. \A k \in Jobs : job'[k].held = NoProfile  BY <1>8, Restarted
    <2> QED  BY <1>1, <2>1, <2>2, NewProfiles DEF Sound
  <1>9. CASE UNCHANGED vars
    BY <1>9 DEF Sound, vars
  <1> QED  BY <1>3, <1>4, <1>5, <1>6, <1>7, <1>8, <1>9 DEF Next, Step

-----------------------------------------------------------------------------
(* Operations that hold the mutex throughout lose nothing *)

Locked(j) == Kind[j] \in {"token", "add", "remove", "verify"}

\* The newest changes that were saved, and the last tokens, are in the profile.
Recorded == file.exists => file.adds = addTs /\ file.removes = removeTs /\ file.auths = tokens

\* A verification read sets no newer than those saved, but for its own add.
ReadBefore(j) ==
  Kind[j] = "verify" /\ job[j].pc \in {2, 3} =>
    /\ \A u \in Users \ {User[j]} : job[j].held.adds[u] <= addTs[u]
    /\ \A u \in Users : job[j].held.removes[u] <= removeTs[u]
    /\ job[j].held.adds[User[j]] = Ts[j]

\* The verification put its token into the store and has not saved it yet.
Verifies(j, u) ==
  /\ Kind[j] = "verify" /\ User[j] = u /\ store[u] = j
  /\ job[j] # Ready /\ job[j].pc \in {1, 2}

StoreFollows ==
  file.exists => \A u \in Users : store[u] = file.auths[u] \/ \E j \in Jobs : Verifies(j, u)

Latest == OnlyLocked => Recorded /\ StoreFollows /\ \A j \in Jobs : ReadBefore(j)

LEMMA StaysLocked ==
  ASSUME Typed, NEW j \in Jobs, Call(j) \/ NothingPending(j) \/ Step(j), OnlyLocked'
  PROVE  /\ OnlyLocked /\ Locked(j) /\ job'[j] # Ready
         /\ Call(j) \/ Load(j) \/ (Read(j) /\ Kind[j] = "verify") \/ SaveAuth(j) \/ SaveSets(j)
  <1>1. Ready.at = "free" /\ Ready.pc = 1 /\ Ready.next = 1
    BY DEF Ready
  <1>2. job'[j] # Ready
    <2>1. CASE Call(j)  BY <1>1, <2>1, CallMoves DEF Goes
    <2>2. CASE Load(j)  BY <1>1, <2>2, LoadMoves DEF Goes
    <2>3. CASE NothingPending(j)
      <3>1. job'[j].pc = job[j].pc + 1  BY <2>3, NothingPendingMoves DEF Goes
      <3>2. job[j].pc \in Nat \ {0}  BY DEF Typed, JobRecord
      <3> QED  BY <1>1, <3>1, <3>2
    <2>4. CASE Read(j) \/ SaveAuth(j) \/ SavePending(j) \/ SaveSets(j) \/ SaveHeld(j) \/ Drop(j)
      BY <1>1, <2>4, Leaving
    <2> QED  BY <2>1, <2>2, <2>3, <2>4 DEF Step
  <1>3. \A k \in Jobs \ {j} : job'[k] = job[k]
    BY PlacesKept
  <1>4. Locked(j) /\ OnlyLocked
    BY <1>2, <1>3 DEF OnlyLocked, Locked
  <1>5. ~NothingPending(j)
    <2> SUFFICES ASSUME NothingPending(j)  PROVE FALSE
      OBVIOUS
    <2>1. ~Ended(j) /\ Section(j) = "apply"
      BY DEF NothingPending
    <2>2. job[j].pc \in 1..Len(Program(j))
      BY <2>1, Programs DEF Ended, Typed, JobRecord
    <2> QED  BY <1>4, <2>1, <2>2, Programs DEF Section, Locked
  <1>6. /\ Read(j) => Kind[j] = "verify"
        /\ ~SaveHeld(j) /\ ~Drop(j) /\ ~SavePending(j)
    BY <1>4, Sections, Applying DEF Read, SaveHeld, Drop, Holding, Locked
  <1> QED  BY <1>2, <1>4, <1>5, <1>6 DEF Step

\* What a merge then gives, the sets a verification holds included.
LEMMA Merged ==
  ASSUME Typed, NEW j \in Jobs, Kind[j] \in {"add", "remove", "verify"}, Recorded, file.exists,
         ReadBefore(j), Kind[j] = "verify" => job[j].pc = 3, NEW u \in Users
  PROVE  /\ Later(file.adds[u], Adds(j)[u]) =
              IF Kind[j] # "remove" /\ u = User[j] THEN Later(addTs[u], Ts[j]) ELSE addTs[u]
         /\ Later(file.removes[u], Removes(j)[u]) =
              IF Kind[j] = "remove" /\ u = User[j] THEN Later(removeTs[u], Ts[j]) ELSE removeTs[u]
  <1> DEFINE held == job[j].held
  <1>1. addTs[u] \in Nat /\ removeTs[u] \in Nat /\ Ts[j] \in Nat /\ User[j] \in Users
    BY Programs DEF Typed
  <1>2. held.adds \in [Users -> Nat] /\ held.removes \in [Users -> Nat]
    BY DEF Typed, JobRecord, ProfileType
  <1>3. file.adds = addTs /\ file.removes = removeTs
    BY DEF Recorded
  <1>4. Later(addTs[u], 0) = addTs[u] /\ Later(removeTs[u], 0) = removeTs[u]
    BY <1>1 DEF Later
  <1>5. CASE Kind[j] = "add"
    <2>1. Removes(j)[u] = 0 /\ Adds(j)[u] = IF u = User[j] THEN Ts[j] ELSE 0
      BY <1>5 DEF Adds, Removes, NoTimes
    <2> QED  BY <1>3, <1>4, <1>5, <2>1
  <1>6. CASE Kind[j] = "remove"
    <2>1. Adds(j)[u] = 0 /\ Removes(j)[u] = IF u = User[j] THEN Ts[j] ELSE 0
      BY <1>6 DEF Adds, Removes, NoTimes
    <2> QED  BY <1>3, <1>4, <1>6, <2>1
  <1>7. CASE Kind[j] = "verify"
    <2>1. Adds(j) = held.adds /\ Removes(j) = held.removes
      BY <1>7 DEF Adds, Removes
    <2>2. held.removes[u] <= removeTs[u] /\ held.removes[u] \in Nat
      BY <1>2, <1>7 DEF ReadBefore
    <2>3. Later(removeTs[u], Removes(j)[u]) = removeTs[u]
      BY <1>1, <2>1, <2>2 DEF Later
    <2>4. CASE u = User[j]
      <3>1. Adds(j)[u] = Ts[j]
        BY <1>7, <2>1, <2>4 DEF ReadBefore
      <3> QED  BY <1>3, <1>7, <2>3, <2>4, <3>1
    <2>5. CASE u # User[j]
      <3>1. held.adds[u] <= addTs[u] /\ held.adds[u] \in Nat
        BY <1>2, <1>7, <2>5 DEF ReadBefore
      <3>2. Later(addTs[u], Adds(j)[u]) = addTs[u]
        BY <1>1, <2>1, <3>1 DEF Later
      <3> QED  BY <1>3, <1>7, <2>3, <2>5, <3>2
    <2> QED  BY <2>4, <2>5
  <1> QED  BY <1>5, <1>6, <1>7

LEMMA SetsSaved ==
  ASSUME Typed, LocalIsCurrent, NEW j \in Jobs, SaveSets(j), Recorded, ReadBefore(j), file.exists
  PROVE  /\ file'.exists /\ file'.auths = file.auths /\ tokens' = tokens /\ store' = store
         /\ file'.adds = addTs' /\ file'.removes = removeTs'
         /\ \A u \in Users : addTs[u] <= addTs'[u] /\ removeTs[u] <= removeTs'[u]
         /\ Kind[j] = "verify" => job[j].pc = 3
  <1>1. /\ job[j].at = "loaded" /\ Section(j) = "sets" /\ job[j].local = file
        /\ tokens' = tokens /\ store' = store
    BY DEF SaveSets, Holding, LocalIsCurrent
  <1>2. Kind[j] \in {"add", "remove", "verify"} /\ (Kind[j] = "verify" => job[j].pc = 3)
    <2>1. job[j].at # "free"  BY <1>1
    <2> QED  BY <1>1, <2>1, Sections
  <1>3. /\ file' = MergeSets(file, Adds(j), Removes(j))
        /\ Kind[j] = "remove" => addTs' = addTs
        /\ Kind[j] # "remove" => addTs' = [addTs EXCEPT ![User[j]] = Later(addTs[User[j]], Ts[j])]
        /\ Kind[j] # "remove" => removeTs' = removeTs
        /\ Kind[j] = "remove" =>
              removeTs' = [removeTs EXCEPT ![User[j]] = Later(removeTs[User[j]], Ts[j])]
    BY <1>1 DEF SaveSets
  <1>4. /\ file \in ProfileType /\ addTs \in [Users -> Nat] /\ removeTs \in [Users -> Nat]
        /\ User[j] \in Users /\ Ts[j] \in Nat
    BY Programs DEF Typed
  <1>5. /\ file'.exists = file.exists /\ file'.auths = file.auths
        /\ \A u \in Users : file'.adds[u] = Later(file.adds[u], Adds(j)[u])
        /\ \A u \in Users : file'.removes[u] = Later(file.removes[u], Removes(j)[u])
    <2>1. Adds(j) \in [Users -> Nat] /\ Removes(j) \in [Users -> Nat]  BY ChangesTyped
    <2> DEFINE m == MergeSets(file, Adds(j), Removes(j))
    <2>2. /\ m.exists = file.exists /\ m.auths = file.auths
          /\ \A u \in Users : m.adds[u] = Later(file.adds[u], Adds(j)[u])
          /\ \A u \in Users : m.removes[u] = Later(file.removes[u], Removes(j)[u])
      BY <1>4, <2>1, MergeKeeps
    <2>3. file' = m  BY <1>3
    <2> QED  BY <2>2, <2>3
  <1>6. ASSUME NEW u \in Users
        PROVE  file'.adds[u] = addTs'[u] /\ addTs[u] <= addTs'[u]
    <2>1. file'.adds[u] = IF Kind[j] # "remove" /\ u = User[j] THEN Later(addTs[u], Ts[j]) ELSE addTs[u]
      BY <1>2, <1>5, Merged
    <2>2. addTs[u] \in Nat /\ addTs[u] <= Later(addTs[u], Ts[j])
      BY <1>4 DEF Later
    <2> QED  BY <1>3, <1>4, <2>1, <2>2
  <1>7. ASSUME NEW u \in Users
        PROVE  file'.removes[u] = removeTs'[u] /\ removeTs[u] <= removeTs'[u]
    <2>1. file'.removes[u] =
            IF Kind[j] = "remove" /\ u = User[j] THEN Later(removeTs[u], Ts[j]) ELSE removeTs[u]
      BY <1>2, <1>5, Merged
    <2>2. removeTs[u] \in Nat /\ removeTs[u] <= Later(removeTs[u], Ts[j])
      BY <1>4 DEF Later
    <2> QED  BY <1>3, <1>4, <2>1, <2>2
  <1>8. /\ file'.adds \in [Users -> Nat] /\ addTs' \in [Users -> Nat]
        /\ file'.removes \in [Users -> Nat] /\ removeTs' \in [Users -> Nat]
    <2>1. Call(j) \/ NothingPending(j) \/ Step(j)
      BY DEF Step
    <2> QED  BY <2>1, ValuesTyped DEF ProfileType
  <1> QED  BY <1>1, <1>2, <1>5, <1>6, <1>7, <1>8

\* A verification on its way is still on its way if its user's token stands.
LEMMA StillVerifies ==
  ASSUME NEW j \in Jobs, NEW k \in Jobs, NEW u \in Users, Verifies(k, u),
         store'[u] = store[u], \A i \in Jobs \ {j} : job'[i] = job[i],
         job'[j] # Ready, job'[j].pc = job[j].pc \/ k # j
  PROVE  Verifies(k, u)'
  BY DEF Verifies

LEMMA LatestNext ==
  ASSUME Typed, LocalIsCurrent, Latest, [Next]_vars
  PROVE  Latest'
  <1>1. ASSUME NEW j \in Jobs, Call(j) \/ NothingPending(j) \/ Step(j), OnlyLocked'
        PROVE  Recorded' /\ StoreFollows' /\ \A k \in Jobs : ReadBefore(k)'
    <2>1. /\ OnlyLocked /\ Locked(j) /\ job'[j] # Ready
          /\ Call(j) \/ Load(j) \/ (Read(j) /\ Kind[j] = "verify") \/ SaveAuth(j) \/ SaveSets(j)
      BY <1>1, StaysLocked
    <2>2. Recorded /\ StoreFollows /\ \A k \in Jobs : ReadBefore(k)
      BY <2>1 DEF Latest
    <2>3. \A k \in Jobs \ {j} : job'[k] = job[k]
      BY <1>1, PlacesKept
    <2>4. /\ User[j] \in Users /\ Ts[j] \in Nat \ {0} /\ job[j].pc \in Nat \ {0}
          /\ file \in ProfileType /\ addTs \in [Users -> Nat] /\ removeTs \in [Users -> Nat]
          /\ store \in [Users -> Jobs \cup {None}]
      BY Programs DEF Typed, JobRecord
    <2>5. CASE Call(j)
      <3>1. /\ job'[j].pc = job[j].pc /\ job'[j].held = job[j].held
            /\ UNCHANGED <<file, tokens, addTs, removeTs>>
        BY <2>5, CallMoves DEF Call, Goes, history
      <3>2. Recorded' /\ \A k \in Jobs : ReadBefore(k)'
        BY <2>2, <2>3, <3>1 DEF Recorded, ReadBefore
      <3>3. \/ store' = store
            \/ Kind[j] = "verify" /\ job[j].pc = 1 /\ store' = [store EXCEPT ![User[j]] = j]
        <4>1. job[j].pc > 1 \/ job[j].pc = 1  BY <2>4
        <4>2. Kind[j] # "leave"  BY <2>1 DEF Locked
        <4>3. job[j].pc > 1 => store' = store  BY <2>5 DEF Call
        <4>4. job[j].pc = 1 /\ Kind[j] = "verify" => store' = [store EXCEPT ![User[j]] = j]
          BY <2>5 DEF Call
        <4>5. job[j].pc = 1 /\ Kind[j] # "verify" => store' = store
          BY <2>5, <4>2 DEF Call
        <4> QED  BY <4>1, <4>3, <4>4, <4>5
      <3>4. ASSUME NEW u \in Users, file'.exists
            PROVE  store'[u] = file'.auths[u] \/ \E k \in Jobs : Verifies(k, u)'
        <4>1. CASE store'[u] = store[u]
          BY <2>1, <2>2, <2>3, <3>1, <3>4, <4>1, StillVerifies DEF StoreFollows
        <4>2. CASE store'[u] # store[u]
          <5>1. u = User[j] /\ Kind[j] = "verify" /\ job[j].pc = 1 /\ store'[u] = j
            BY <2>4, <3>3, <4>2
          <5>2. Verifies(j, u)'
            BY <2>1, <3>1, <5>1 DEF Verifies
          <5> QED  BY <5>2
        <4> QED  BY <4>1, <4>2
      <3> QED  BY <3>2, <3>4 DEF StoreFollows
    <2>6. CASE Load(j)
      <3>1. /\ job'[j].pc = job[j].pc /\ job'[j].held = job[j].held
            /\ UNCHANGED <<file, store, tokens, addTs, removeTs>>
        BY <2>6, LoadMoves DEF Load, Goes, history
      <3>2. Recorded' /\ \A k \in Jobs : ReadBefore(k)'
        BY <2>2, <2>3, <3>1 DEF Recorded, ReadBefore
      <3>3. StoreFollows'
        BY <2>1, <2>2, <2>3, <3>1, StillVerifies DEF StoreFollows
      <3> QED  BY <3>2, <3>3
    <2>7. CASE Read(j) /\ Kind[j] = "verify"
      <3>1. /\ UNCHANGED <<file, store, tokens, addTs, removeTs>>
            /\ job[j].at = "waiting" /\ Section(j) = "read"
        BY <2>7 DEF Read, history
      <3>2. Goes(j, "free", AfterRead(j), Held(j, file), job[j].local, job[j].next)
        BY <2>7, ReadMoves
      <3>3. AfterRead(j) = IF file.exists THEN 2 ELSE 4
        <4>1. Len(Program(j)) = 3  BY <2>7, Programs
        <4> QED  BY <2>7, <4>1 DEF AfterRead
      <3>4. job[j].pc = 1
        <4>1. job[j].at # "free"  BY <3>1
        <4> QED  BY <3>1, <4>1, Sections
      <3>5. ReadBefore(j)'
        <4>1. CASE file.exists
          <5>1. /\ job'[j].held.adds = [file.adds EXCEPT ![User[j]] = Ts[j]]
                /\ job'[j].held.removes = file.removes
            BY <2>4, <2>7, <3>2, HeldTyped DEF Goes
          <5>2. file.adds = addTs /\ file.removes = removeTs
            BY <2>2, <4>1 DEF Recorded
          <5> QED  BY <2>4, <3>1, <5>1, <5>2 DEF ReadBefore
        <4>2. CASE ~file.exists
          BY <3>2, <3>3, <4>2 DEF ReadBefore, Goes
        <4> QED  BY <4>1, <4>2
      <3>6. Recorded' /\ \A k \in Jobs : ReadBefore(k)'
        BY <2>2, <2>3, <3>1, <3>5 DEF Recorded, ReadBefore
      <3>7. ASSUME NEW u \in Users, NEW k \in Jobs, Verifies(k, u), file.exists
            PROVE  Verifies(k, u)'
        <4>1. job'[j].pc = 2
          BY <3>2, <3>3, <3>7 DEF Goes
        <4> QED  BY <2>1, <2>3, <3>1, <3>7, <4>1 DEF Verifies
      <3> QED  BY <2>2, <3>1, <3>6, <3>7 DEF StoreFollows
    <2>8. CASE SaveAuth(j)
      <3>1. /\ UNCHANGED <<addTs, removeTs>> /\ Release(j) /\ job[j].at = "loaded"
            /\ job[j].local = file /\ Section(j) = "auth"
        BY <2>8 DEF SaveAuth, Holding, LocalIsCurrent
      <3>2. Goes(j, "free", job[j].pc + 1, job[j].held, job[j].local, job[j].next)
        BY <3>1, ReleaseMoves
      <3>3. Kind[j] = "verify" => job[j].pc = 2
        <4>1. job[j].at # "free"  BY <3>1
        <4> QED  BY <3>1, <4>1, Sections
      <3>4. \A k \in Jobs : ReadBefore(k)'
        BY <2>2, <2>3, <3>1, <3>2, <3>3 DEF ReadBefore, Goes
      <3>5. CASE ~file.exists
        <4>1. ~file'.exists
          BY <2>8, <3>1, <3>5 DEF SaveAuth
        <4> QED  BY <3>4, <4>1 DEF Recorded, StoreFollows
      <3>6. CASE file.exists
        <4>1. /\ file' = WithToken(file, User[j], j)
              /\ store' = [store EXCEPT ![User[j]] = j] /\ tokens' = [tokens EXCEPT ![User[j]] = j]
          BY <2>8, <3>1, <3>6 DEF SaveAuth
        <4>2. /\ file'.exists = file.exists /\ file'.adds = file.adds
              /\ file'.removes = file.removes /\ file'.auths = [file.auths EXCEPT ![User[j]] = j]
          BY <2>4, <4>1, TokenTyped
        <4>3. Recorded'
          BY <2>2, <3>1, <3>6, <4>1, <4>2 DEF Recorded
        <4>4. file.auths \in [Users -> Jobs \cup {None}]
          BY <2>4 DEF ProfileType
        <4>5. ASSUME NEW u \in Users
              PROVE  store'[u] = file'.auths[u] \/ \E k \in Jobs : Verifies(k, u)'
          <5>1. CASE u = User[j]
            BY <2>4, <4>1, <4>2, <4>4, <5>1
          <5>2. CASE u # User[j]
            <6>1. store'[u] = store[u] /\ file'.auths[u] = file.auths[u]
              BY <2>4, <4>1, <4>2, <4>4, <5>2
            <6>2. ASSUME NEW k \in Jobs, Verifies(k, u)  PROVE Verifies(k, u)'
              <7>1. k # j  BY <5>2, <6>2 DEF Verifies
              <7> QED  BY <2>3, <6>1, <6>2, <7>1 DEF Verifies
            <6> QED  BY <2>2, <3>6, <6>1, <6>2 DEF StoreFollows
          <5> QED  BY <5>1, <5>2
        <4> QED  BY <3>4, <4>3, <4>5 DEF StoreFollows
      <3> QED  BY <3>5, <3>6
    <2>9. CASE SaveSets(j)
      <3>1. Release(j) /\ job[j].at = "loaded" /\ job[j].local = file
        BY <2>9 DEF SaveSets, Holding, LocalIsCurrent
      <3>2. Goes(j, "free", job[j].pc + 1, job[j].held, job[j].local, job[j].next)
        BY <3>1, ReleaseMoves
      <3>3. CASE ~file.exists
        <4>1. UNCHANGED <<file, addTs, removeTs>>
          BY <2>9, <3>1, <3>3 DEF SaveSets
        <4>2. Kind[j] = "verify" => job[j].pc = 3
          <5>1. job[j].at # "free" /\ Section(j) = "sets"  BY <2>9, <3>1 DEF SaveSets, Holding
          <5> QED  BY <5>1, Sections
        <4>3. \A k \in Jobs : ReadBefore(k)'
          BY <2>2, <2>3, <3>2, <4>1, <4>2 DEF ReadBefore, Goes
        <4> QED  BY <3>3, <4>1, <4>3 DEF Recorded, StoreFollows
      <3>4. CASE file.exists
        <4>1. /\ file'.exists /\ file'.auths = file.auths /\ tokens' = tokens /\ store' = store
              /\ file'.adds = addTs' /\ file'.removes = removeTs'
              /\ \A u \in Users : addTs[u] <= addTs'[u] /\ removeTs[u] <= removeTs'[u]
              /\ Kind[j] = "verify" => job[j].pc = 3
          BY <2>2, <2>9, <3>4, SetsSaved
        <4>2. Recorded'
          BY <2>2, <3>4, <4>1 DEF Recorded
        <4>3. addTs' \in [Users -> Nat] /\ removeTs' \in [Users -> Nat]
          BY <1>1, ValuesTyped
        <4>4. ASSUME NEW k \in Jobs  PROVE ReadBefore(k)'
          <5>1. CASE k = j
            BY <3>2, <4>1, <5>1 DEF ReadBefore, Goes
          <5>2. CASE k # j
            <6>1. job'[k] = job[k] /\ ReadBefore(k) /\ job[k].held \in ProfileType
              BY <2>2, <2>3, <5>2 DEF Typed, JobRecord
            <6>2. /\ \A u \in Users : job[k].held.adds[u] \in Nat /\ job[k].held.removes[u] \in Nat
                  /\ \A u \in Users : addTs[u] \in Nat /\ removeTs[u] \in Nat
                  /\ \A u \in Users : addTs'[u] \in Nat /\ removeTs'[u] \in Nat
              BY <2>4, <4>3, <6>1 DEF ProfileType
            <6> QED  BY <4>1, <6>1, <6>2 DEF ReadBefore
          <5> QED  BY <5>1, <5>2
        <4>5. ASSUME NEW u \in Users, NEW k \in Jobs, Verifies(k, u)  PROVE Verifies(k, u)'
          <5>1. k # j  BY <4>1, <4>5 DEF Verifies
          <5> QED  BY <2>3, <4>1, <4>5, <5>1 DEF Verifies
        <4> QED  BY <2>2, <3>4, <4>1, <4>2, <4>4, <4>5 DEF StoreFollows
      <3> QED  BY <3>3, <3>4
    <2> QED  BY <2>1, <2>5, <2>6, <2>7, <2>8, <2>9
  <1>2. ASSUME Restart, OnlyLocked'
        PROVE  Recorded' /\ StoreFollows' /\ \A k \in Jobs : ReadBefore(k)'
    <2>1. \A k \in Jobs :
            /\ job'[k].pc = IF job[k] = Ready THEN 1 ELSE Len(Program(k)) + 1
            /\ job'[k] = Ready <=> job[k] = Ready
      BY <1>2, Restarted
    <2>2. UNCHANGED <<file, tokens, addTs, removeTs>> /\ store' = file.auths
      BY <1>2 DEF Restart, history
    <2>3. OnlyLocked
      BY <1>2, <2>1 DEF OnlyLocked
    <2>4. Recorded' /\ StoreFollows'
      BY <2>2, <2>3 DEF Latest, Recorded, StoreFollows
    <2>5. ASSUME NEW k \in Jobs, Kind[k] = "verify"  PROVE job'[k].pc \notin {2, 3}
      <3>1. Len(Program(k)) = 3  BY <2>5, Programs
      <3>2. Len(Program(k)) + 1 \notin {2, 3}  BY <3>1
      <3>3. job'[k].pc = 1 \/ job'[k].pc = Len(Program(k)) + 1  BY <2>1
      <3> QED  BY <3>2, <3>3
    <2>6. \A k \in Jobs : ReadBefore(k)'
      BY <2>5 DEF ReadBefore
    <2> QED  BY <2>4, <2>6
  <1>3. CASE UNCHANGED vars
    BY <1>3 DEF Latest, OnlyLocked, Recorded, StoreFollows, ReadBefore, Verifies, vars, history
  <1> QED  BY <1>1, <1>2, <1>3 DEF Next, Latest

-----------------------------------------------------------------------------

IInv == Typed /\ Mutex /\ Sound /\ Latest

LEMMA Initially ==
  Init => IInv
  <1> SUFFICES ASSUME Init  PROVE IInv
    OBVIOUS
  <1>1. queue = <<>> /\ \A j \in Jobs : job[j] = Ready
    BY DEF Init
  <1>2. Mutex
    <2>1. \A j \in Jobs : job[j].at = "free"
      BY <1>1 DEF Ready
    <2>2. Distinct(queue) /\ Elements(queue) = {}
      BY <1>1 DEF Distinct, Elements
    <2> QED  BY <2>1, <2>2 DEF Mutex, LocalIsCurrent
  <1>3. Sound
    <2>1. file = NewProfile \/ file = NoProfile
      BY DEF Init
    <2>2. \A j \in Jobs : job[j].held = NoProfile
      BY <1>1 DEF Ready
    <2> QED  BY <2>1, <2>2, NewProfiles DEF Sound
  <1>4. Latest
    <2>1. file = NewProfile \/ file = NoProfile
      BY DEF Init
    <2>2. file.exists => file.adds = NoTimes /\ file.removes = NoTimes /\ file.auths = NoTokens
      BY <2>1, NewProfiles
    <2>3. Recorded /\ StoreFollows
      BY <2>2 DEF Init, Recorded, StoreFollows
    <2>4. \A j \in Jobs : job[j].pc = 1
      BY <1>1 DEF Ready
    <2> QED  BY <2>3, <2>4 DEF Latest, ReadBefore
  <1> QED  BY <1>2, <1>3, <1>4, TypedInit DEF IInv

LEMMA Invariance ==
  Spec => []IInv
  <1>1. IInv /\ [Next]_vars => IInv'
    <2> SUFFICES ASSUME IInv, [Next]_vars  PROVE IInv'
      OBVIOUS
    <2>1. Typed /\ Mutex /\ Sound /\ Latest /\ LocalIsCurrent
      BY DEF IInv, Mutex
    <2> QED  BY <2>1, TypedNext, MutexNext, SoundNext, LatestNext DEF IInv
  <1> QED  BY <1>1, Initially, PTL DEF Spec

(* Every variable keeps its type.                                             *)
THEOREM TypeCorrect == Spec => []TypeOK
  <1>1. IInv => TypeOK
    <2> SUFFICES ASSUME Typed  PROVE TypeOK
      BY DEF IInv
    <2>1. ASSUME NEW j \in Jobs
          PROVE  /\ job[j].at \in {"free", "waiting", "loaded"}
                 /\ job[j].pc \in 1..(Len(Program(j)) + 1) /\ job[j].next \in Nat
                 /\ job[j].held \in ProfileType /\ job[j].local \in ProfileType
      <3>1. job[j] \in JobRecord /\ job[j].pc <= Len(Program(j)) + 1 /\ Len(Program(j)) \in 1..4
        BY Programs DEF Typed
      <3> QED  BY <3>1 DEF JobRecord
    <2> QED  BY <2>1 DEF Typed, TypeOK
  <1> QED  BY <1>1, Invariance, PTL

(* However many operations wait for profileLock, only one of them is between  *)
(* its reading and its saving of the file, and the file is still what it read.*)
THEOREM MutexHolds == Spec => []LocalIsCurrent
  <1>1. IInv => LocalIsCurrent
    BY DEF IInv, Mutex
  <1> QED  BY <1>1, Invariance, PTL

(* Whatever operations run, and wherever the worker is started again, the     *)
(* profile on disk lists as members those its sets say, and no removed token. *)
THEOREM Consistency == Spec => []SelfConsistent
  <1>1. IInv => SelfConsistent
    BY DEF IInv, Sound, Consistent, SelfConsistent
  <1> QED  BY <1>1, Invariance, PTL

(* As long as only operations ran that hold the mutex from reading to saving, *)
(* and verifications, the newest change of each membership and the last token *)
(* of each user are in the profile, whatever the order they arrived in; and   *)
(* when none runs the tokens that requests are checked against are those.     *)
THEOREM NothingLost == Spec => []LatestKept
  <1>1. IInv => LatestKept
    <2> SUFFICES ASSUME Typed, Sound, Latest  PROVE LatestKept
      BY DEF IInv
    <2>1. MembersAreLatest
      BY DEF MembersAreLatest, Latest, Recorded, Sound, Consistent, CalculateMembers
    <2>2. OnlyLocked => TokensKept
      BY DEF TokensKept, Latest, Recorded
    <2>3. ASSUME OnlyLocked, Quiet, file.exists  PROVE store = file.auths
      <3>1. ASSUME NEW j \in Jobs, NEW u \in Users  PROVE ~Verifies(j, u)
        <4> SUFFICES ASSUME Verifies(j, u)  PROVE FALSE
          OBVIOUS
        <4>1. Kind[j] = "verify" /\ job[j] # Ready /\ job[j].pc \in {1, 2}
          BY DEF Verifies
        <4>2. Len(Program(j)) = 3
          BY <4>1, Programs
        <4>3. job[j].pc > Len(Program(j))
          BY <2>3, <4>1 DEF Quiet, Ended
        <4> QED  BY <4>1, <4>2, <4>3
      <3>2. \A u \in Users : store[u] = file.auths[u]
        BY <2>3, <3>1 DEF Latest, StoreFollows
      <3> QED  BY <3>2 DEF Typed, ProfileType
    <2> QED  BY <2>1, <2>2, <2>3 DEF LatestKept, TokensAreLatest
  <1> QED  BY <1>1, Invariance, PTL

-----------------------------------------------------------------------------
(* Updates that found no profile *)

\* As long as the relay was not left, who read its profile to save it finds one.
ReadIsThere ==
  ~Ran({"leave"}) =>
    \A j \in Jobs : Kind[j] \in {"untoken", "stale"} /\ job[j].pc = 2 => file.exists

\* Updates wait beside a profile only while the join that made it is to apply them.
Applied ==
  file.exists /\ pending # <<>> /\ ~Relapsed =>
    \E j \in Jobs : Kind[j] = "join" /\ job[j].pc = 3

QueuedByTokens == pending # <<>> => Ran({"token"})

UpdatesInv == ReadIsThere /\ Applied /\ QueuedByTokens

\* What was begun stays so.
LEMMA StaysBegun ==
  ASSUME Typed, [Next]_vars
  PROVE  /\ \A k \in Jobs : job[k] # Ready => job'[k] # Ready
         /\ \A kinds : Ran(kinds) => Ran(kinds)'
         /\ Relapsed => Relapsed'
  <1>1. Ready.at = "free" /\ Ready.pc = 1 /\ Ready.next = 1
    BY DEF Ready
  <1>2. ASSUME NEW j \in Jobs, Call(j) \/ NothingPending(j) \/ Step(j)
        PROVE  job'[j] # Ready /\ \A k \in Jobs \ {j} : job'[k] = job[k]
    <2>1. job'[j] # Ready
      <3>1. CASE Call(j)  BY <1>1, <3>1, CallMoves DEF Goes
      <3>2. CASE Load(j)  BY <1>1, <3>2, LoadMoves DEF Goes
      <3>3. CASE NothingPending(j)
        <4>1. job'[j].pc = job[j].pc + 1  BY <3>3, NothingPendingMoves DEF Goes
        <4>2. job[j].pc \in Nat \ {0}  BY DEF Typed, JobRecord
        <4> QED  BY <1>1, <4>1, <4>2
      <3>4. CASE Read(j) \/ SaveAuth(j) \/ SavePending(j) \/ SaveSets(j) \/ SaveHeld(j) \/ Drop(j)
        BY <1>1, <3>4, Leaving
      <3> QED  BY <1>2, <3>1, <3>2, <3>3, <3>4 DEF Step
    <2>2. \A k \in Jobs \ {j} : job'[k] = job[k]
      BY <1>2, PlacesKept
    <2> QED  BY <2>1, <2>2
  <1>3. \A k \in Jobs : job[k] # Ready => job'[k] # Ready
    <2>1. CASE Restart  BY <2>1, Restarted
    <2>2. CASE UNCHANGED vars  BY <2>2 DEF vars
    <2>3. ASSUME NEW j \in Jobs, Call(j) \/ NothingPending(j) \/ Step(j),
                 NEW k \in Jobs, job[k] # Ready
          PROVE  job'[k] # Ready
      BY <1>2, <2>3
    <2> QED  BY <2>1, <2>2, <2>3 DEF Next
  <1>4. \A kinds : Ran(kinds) => Ran(kinds)'
    BY <1>3 DEF Ran
  <1> QED  BY <1>3, <1>4 DEF Relapsed

\* Where in its program an operation saves and a join applies a token.
LEMMA Saves ==
  ASSUME NEW j \in Jobs, NEW i \in 1..Len(Program(j))
  PROVE  /\ Program(j)[i] = "save" => i = 2
         /\ Program(j)[i] = "auth" /\ Kind[j] = "join" => i = 4
         /\ Kind[j] \in {"untoken", "stale"} => Len(Program(j)) = 2
  <1>1. Kind[j] \in Kinds  BY JobsDescribed
  <1>2. CASE Kind[j] \in {"untoken", "stale"}  BY <1>2 DEF Program
  <1>3. CASE Kind[j] = "join"
    <2>1. Program(j) = <<"read", "save", "apply", "auth">>  BY <1>3 DEF Program
    <2> QED  BY <1>3, <2>1
  <1>4. CASE Kind[j] \notin {"untoken", "stale", "join"}
    BY <1>4, Programs
  <1> QED  BY <1>2, <1>3, <1>4

\* So for the section that an operation is at.
LEMMA AtSections ==
  ASSUME NEW j \in Jobs, job[j].pc \in 1..Len(Program(j))
  PROVE  /\ Section(j) = "auth" => /\ Kind[j] \in {"token", "verify", "join"}
                                   /\ Kind[j] = "join" => job[j].pc = 4
         /\ Section(j) = "apply" => Kind[j] = "join" /\ job[j].pc = 3
         /\ Section(j) = "sets" => Kind[j] \in {"add", "remove", "verify"}
         /\ Section(j) = "save" => Kind[j] \in {"untoken", "stale", "join"} /\ job[j].pc = 2
         /\ Section(j) = "drop" => Kind[j] = "leave"
  <1> DEFINE i == job[j].pc
  <1>1. Section(j) = Program(j)[i]  BY DEF Section
  <1> HIDE DEF i
  <1>2. i \in 1..Len(Program(j))  BY DEF i
  <1>3. /\ Program(j)[i] = "auth" => Kind[j] \in {"token", "verify", "join"}
        /\ Program(j)[i] = "apply" => Kind[j] = "join" /\ i = 3
        /\ Program(j)[i] = "sets" => Kind[j] \in {"add", "remove", "verify"}
        /\ Program(j)[i] = "save" => Kind[j] \in {"untoken", "stale", "join"}
        /\ Program(j)[i] = "drop" => Kind[j] = "leave"
    BY <1>2, Programs
  <1>4. /\ Program(j)[i] = "auth" /\ Kind[j] = "join" => i = 4
        /\ Program(j)[i] = "save" => i = 2
    BY <1>2, Saves
  <1> QED  BY <1>1, <1>3, <1>4 DEF i

\* Steps that leave the profile and the updates alone.
LEMMA NothingChanges ==
  ASSUME Typed, [Next]_vars, UpdatesInv, UNCHANGED <<file, pending>>,
         \A k \in Jobs : Kind[k] \in {"untoken", "stale"} /\ job'[k].pc = 2 =>
            job[k].pc = 2 \/ file.exists,
         \A k \in Jobs : Kind[k] = "join" /\ job[k].pc = 3 => job'[k].pc = 3 \/ pending = <<>>
  PROVE  UpdatesInv'
  <1>1. ReadIsThere'  BY StaysBegun DEF UpdatesInv, ReadIsThere
  <1>2. Applied'  BY StaysBegun DEF UpdatesInv, Applied
  <1>3. QueuedByTokens'  BY StaysBegun DEF UpdatesInv, QueuedByTokens
  <1> QED  BY <1>1, <1>2, <1>3 DEF UpdatesInv

LEMMA UpdatesNext ==
  ASSUME Typed, LocalIsCurrent, UpdatesInv, [Next]_vars
  PROVE  UpdatesInv'
  <1>1. /\ \A k \in Jobs : job[k].pc \in Nat \ {0} /\ job[k].held \in ProfileType
        /\ \A k \in Jobs : job[k].at = "loaded" => job[k].local = file
        /\ pending \in Seq(Jobs) /\ file \in ProfileType
    BY DEF Typed, JobRecord, LocalIsCurrent
  <1>2. ASSUME NEW j \in Jobs, Call(j)  PROVE UpdatesInv'
    <2>1. \A k \in Jobs : job'[k].pc = job[k].pc  BY <1>2, CallMoves DEF Goes
    <2> QED  BY <1>2, <2>1, NothingChanges DEF Call
  <1>3. ASSUME NEW j \in Jobs, Load(j)  PROVE UpdatesInv'
    <2>1. \A k \in Jobs : job'[k].pc = job[k].pc  BY <1>3, LoadMoves DEF Goes
    <2> QED  BY <1>3, <2>1, NothingChanges DEF Load
  <1>4. ASSUME NEW j \in Jobs, NothingPending(j)  PROVE UpdatesInv'
    <2>1. pending = <<>> /\ UNCHANGED <<file, pending>> /\ ~Ended(j) /\ Section(j) = "apply"
      BY <1>4 DEF NothingPending
    <2>2. Kind[j] = "join"
      BY <1>1, <2>1, Programs DEF Ended, Section
    <2>3. \A k \in Jobs \ {j} : job'[k] = job[k]  BY <1>4, NothingPendingMoves DEF Goes
    <2> QED  BY <2>1, <2>2, <2>3, NothingChanges
  <1>5. ASSUME NEW j \in Jobs, Read(j)  PROVE UpdatesInv'
    <2>1. UNCHANGED <<file, pending>> /\ job[j].at # "free" /\ Section(j) = "read"
      BY <1>5 DEF Read
    <2>2. /\ \A k \in Jobs \ {j} : job'[k] = job[k]
          /\ job'[j].pc = AfterRead(j) /\ job[j].pc = 1
      BY <1>5, <2>1, ReadMoves, Sections DEF Goes
    <2>3. Kind[j] # "join" /\ ~file.exists => AfterRead(j) = Len(Program(j)) + 1
      BY DEF AfterRead
    <2>4. Kind[j] \in {"untoken", "stale"} => Len(Program(j)) = 2
      BY DEF Program
    <2> QED  BY <2>1, <2>2, <2>3, <2>4, NothingChanges
  <1>6. ASSUME NEW j \in Jobs,
               SaveAuth(j) \/ SavePending(j) \/ SaveSets(j) \/ SaveHeld(j) \/ Drop(j)
        PROVE  UpdatesInv'
    <2>1. /\ job[j].at = "loaded" /\ job[j].local = file
          /\ job[j].pc \in 1..Len(Program(j))
      <3>1. job[j].at = "loaded"
        BY <1>6 DEF SaveAuth, SavePending, SaveSets, SaveHeld, Drop, Holding
      <3> QED  BY <1>1, <3>1, Sections, Programs DEF Section
    <2>2. \A k \in Jobs \ {j} : job'[k] = job[k]
      BY <1>6, Leaving
    <2>3. ~SavePending(j) => job'[j].pc = job[j].pc + 1
      BY <1>6, ReleaseMoves DEF SaveAuth, SaveSets, SaveHeld, Drop, Goes
    <2>4. CASE SaveAuth(j)
      <3>1. Section(j) = "auth"  BY <2>4 DEF SaveAuth, Holding
      <3>2. Kind[j] \in {"token", "verify", "join"} /\ (Kind[j] = "join" => job[j].pc = 4)
        BY <2>1, <3>1, AtSections
      <3>3. CASE file.exists
        <4>1. pending' = pending /\ file' = WithToken(file, User[j], j)
          BY <2>1, <2>4, <3>3 DEF SaveAuth
        <4>2. file'.exists  BY <1>1, <3>3, <4>1, Programs, TokenTyped
        <4>3. ReadIsThere'  BY <4>2 DEF ReadIsThere
        <4>4. Applied'
          BY <2>2, <3>2, <3>3, <4>1, StaysBegun DEF Applied, UpdatesInv
        <4> QED  BY <4>1, <4>3, <4>4, StaysBegun DEF UpdatesInv, QueuedByTokens
      <3>4. CASE ~file.exists
        <4>1. file' = file /\ (Kind[j] # "token" => pending' = pending)
          BY <2>1, <2>4, <3>4 DEF SaveAuth
        <4>2. QueuedByTokens'
          <5>1. CASE Kind[j] = "token"
            <6>1. job'[j] # Ready  BY <1>1, <2>3, <2>4, <3>1 DEF SaveAuth, SavePending, Holding, Ready
            <6> QED  BY <5>1, <6>1 DEF QueuedByTokens, Ran
          <5>2. CASE Kind[j] # "token"
            BY <4>1, <5>2, StaysBegun DEF UpdatesInv, QueuedByTokens
          <5> QED  BY <5>1, <5>2
        <4>3. ReadIsThere'
          BY <2>2, <3>2, <4>1, StaysBegun DEF UpdatesInv, ReadIsThere
        <4>4. Applied'  BY <3>4, <4>1 DEF Applied
        <4> QED  BY <4>2, <4>3, <4>4 DEF UpdatesInv
      <3> QED  BY <3>3, <3>4
    <2>5. CASE SavePending(j)
      <3>1. Section(j) = "apply" /\ Kind[j] = "join" /\ job[j].pc = 3
        <4>1. Section(j) = "apply"  BY <2>5 DEF SavePending, Holding
        <4> QED  BY <2>1, <4>1, AtSections
      <3>2. file'.exists = file.exists
        <4>1. PICK k : k = pending[job[j].next]  OBVIOUS
        <4>2. k \in Jobs /\ User[k] \in Users  BY <2>5, <4>1, Applying, Programs
        <4>3. file' = IF file.exists THEN WithToken(file, User[k], k) ELSE file
          BY <2>1, <2>5, <4>1 DEF SavePending
        <4> QED  BY <1>1, <4>2, <4>3, TokenTyped
      <3>3. pending' = <<>> \/ (pending' = pending /\ job'[j].pc = 3)
        <4>1. CASE job[j].next < Len(pending)
          BY <2>5, <3>1, <4>1, SavePendingMoves DEF SavePending, Goes
        <4>2. CASE ~(job[j].next < Len(pending))
          BY <2>5, <4>2 DEF SavePending
        <4> QED  BY <4>1, <4>2
      <3>4. ReadIsThere'
        BY <2>2, <3>1, <3>2, StaysBegun DEF UpdatesInv, ReadIsThere
      <3>5. Applied'  BY <3>1, <3>3 DEF Applied
      <3>6. QueuedByTokens'  BY <3>3, StaysBegun DEF UpdatesInv, QueuedByTokens
      <3> QED  BY <3>4, <3>5, <3>6 DEF UpdatesInv
    <2>6. CASE SaveSets(j)
      <3>1. Section(j) = "sets" /\ Kind[j] \in {"add", "remove", "verify"}
        <4>1. Section(j) = "sets"  BY <2>6 DEF SaveSets, Holding
        <4> QED  BY <2>1, <4>1, AtSections
      <3>2. pending' = pending  BY <2>6 DEF SaveSets
      <3>3. file'.exists = file.exists
        <4>1. file' = IF file.exists THEN MergeSets(file, Adds(j), Removes(j)) ELSE file
          BY <2>1, <2>6 DEF SaveSets
        <4> QED  BY <1>1, <4>1 DEF MergeSets, ProfileType
      <3>4. ReadIsThere'
        BY <2>2, <3>1, <3>3, StaysBegun DEF UpdatesInv, ReadIsThere
      <3>5. Applied'
        BY <2>2, <3>1, <3>2, <3>3, StaysBegun DEF UpdatesInv, Applied
      <3>6. QueuedByTokens'  BY <3>2, StaysBegun DEF UpdatesInv, QueuedByTokens
      <3> QED  BY <3>4, <3>5, <3>6 DEF UpdatesInv
    <2>7. CASE SaveHeld(j)
      <3>1. Section(j) = "save" /\ Kind[j] \in {"untoken", "stale", "join"} /\ job[j].pc = 2
        <4>1. Section(j) = "save"  BY <2>7 DEF SaveHeld, Holding
        <4> QED  BY <2>1, <4>1, AtSections
      <3>2. pending' = pending /\ file' = [job[j].held EXCEPT !.exists = TRUE]
        BY <2>7 DEF SaveHeld
      <3>3. file'.exists  BY <1>1, <3>2 DEF ProfileType
      <3>4. job'[j].pc = 3 /\ job'[j] # Ready
        BY <2>1, <2>3, <2>7, <3>1 DEF Ready, SavePending, Holding
      <3>5. ReadIsThere'  BY <3>3 DEF ReadIsThere
      <3>6. QueuedByTokens'  BY <3>2, StaysBegun DEF UpdatesInv, QueuedByTokens
      <3>7. Applied'
        <4>1. CASE Kind[j] = "join"  BY <3>4, <4>1 DEF Applied
        <4>2. CASE Kind[j] # "join" /\ file.exists
          BY <2>2, <3>2, <4>2, StaysBegun DEF UpdatesInv, Applied
        <4>3. CASE Kind[j] # "join" /\ ~file.exists
          <5>1. Ran({"leave"})  BY <3>1, <4>3 DEF UpdatesInv, ReadIsThere
          <5>2. Ran({"untoken", "stale"})'  BY <3>1, <3>4, <4>3 DEF Ran
          <5> QED  BY <3>6, <5>1, <5>2, StaysBegun DEF Applied, QueuedByTokens, Relapsed
        <4> QED  BY <4>1, <4>2, <4>3
      <3> QED  BY <3>5, <3>6, <3>7 DEF UpdatesInv
    <2>8. CASE Drop(j)
      <3>1. Section(j) = "drop" /\ Kind[j] = "leave"
        <4>1. Section(j) = "drop"  BY <2>8 DEF Drop, Holding
        <4> QED  BY <2>1, <4>1, AtSections
      <3>2. pending' = pending /\ ~file'.exists  BY <2>8, NewProfiles DEF Drop
      <3>3. job'[j] # Ready
        BY <1>1, <2>3, <2>8, <3>1 DEF SavePending, Holding, Ready
      <3>4. Ran({"leave"})'  BY <3>1, <3>3 DEF Ran
      <3> QED
        BY <3>2, <3>4, StaysBegun DEF UpdatesInv, ReadIsThere, Applied, QueuedByTokens
    <2> QED  BY <1>6, <2>4, <2>5, <2>6, <2>7, <2>8
  <1>7. CASE Restart
    <2>1. pending' = <<>> /\ file' = file  BY <1>7, Restarted DEF Restart
    <2>2. \A k \in Jobs : Kind[k] \in {"untoken", "stale"} => job'[k].pc \in {1, 3}
      <3> SUFFICES ASSUME NEW k \in Jobs, Kind[k] \in {"untoken", "stale"}  PROVE job'[k].pc \in {1, 3}
        OBVIOUS
      <3>1. Len(Program(k)) = 2  BY DEF Program
      <3>2. job'[k].pc = IF job[k] = Ready THEN 1 ELSE Len(Program(k)) + 1
        BY <1>7, Restarted
      <3> QED  BY <3>1, <3>2
    <2> QED  BY <2>1, <2>2 DEF UpdatesInv, ReadIsThere, Applied, QueuedByTokens
  <1>8. CASE UNCHANGED vars
    BY <1>8, NothingChanges DEF vars
  <1> QED  BY <1>2, <1>3, <1>4, <1>5, <1>6, <1>7, <1>8 DEF Next, Step

(* A token update that found no profile is applied by the join that makes one *)
(* (applyPendingAuthUpdates), however both and a restart or a leave           *)
(* interleave, unless a stale save brought back the profile of a relay that   *)
(* was left.                                                                  *)
THEOREM PendingIsApplied == Spec => []PendingApplied
  <1>1. Init => UpdatesInv
    <2> SUFFICES ASSUME Init  PROVE UpdatesInv
      OBVIOUS
    <2>1. pending = <<>> /\ \A j \in Jobs : job[j].pc = 1  BY DEF Init, Ready
    <2> QED  BY <2>1 DEF UpdatesInv, ReadIsThere, Applied, QueuedByTokens
  <1>2. IInv /\ UpdatesInv /\ [Next]_vars => UpdatesInv'
    BY UpdatesNext DEF IInv, Mutex
  <1>3. IInv /\ UpdatesInv => PendingApplied
    <2> SUFFICES ASSUME IInv, UpdatesInv, Quiet, file.exists, ~Relapsed, pending # <<>>  PROVE FALSE
      BY DEF PendingApplied
    <2>1. PICK j \in Jobs : Kind[j] = "join" /\ job[j].pc = 3  BY DEF UpdatesInv, Applied
    <2>2. ~Ended(j)  BY <2>1, Programs DEF Ended
    <2>3. job[j] # Ready  BY <2>1 DEF Ready
    <2> QED  BY <2>1, <2>2, <2>3 DEF Quiet
  <1> QED  BY <1>1, <1>2, <1>3, Invariance, PTL DEF Spec

-----------------------------------------------------------------------------
(* ActiveRelays.                                                              *)

States == {"none", "waiting", "opening", "open", "broken", "closed"}
CallRecord == [kind: CallKinds \cup {"none"}, at: Places, using: Managers \cup {Absent},
               profile: Profiles \cup {Absent}, stored: Profiles \cup {Absent}]

\* A call that connects stored relays has a profile, and so has one that saves it.
Carries(c) ==
  /\ c.at \in {"connect", "writer", "mirror", "stored"} => c.stored \in Profiles /\ c.kind = "auto"
  /\ c.kind = "auto" /\ c.at # "end" => c.stored \in Profiles
  /\ c.at \in {"save", "mark"} => c.profile \in Profiles

CallsTyped ==
  /\ connected \in Managers \cup {Absent}
  /\ manager \in [Managers -> States]
  /\ dirLock \in BOOLEAN /\ gaveUp \in BOOLEAN
  /\ cachedFor \subseteq BothNames
  /\ record \in Profiles \cup {Absent}
  /\ crossed \subseteq {"joins", "closes", "both", "failure"}
  /\ call \in [Calls -> CallRecord]
  /\ \A p \in Calls : Carries(call[p])

LEMMA TypedType == CallsTyped => ActiveTypeOK
  BY DEF CallsTyped, ActiveTypeOK, CallRecord, States, Carries

\* What Go does to a call.
LEMMA GoTyped ==
  ASSUME CallsTyped, NEW p \in Calls, NEW place \in Places, Go(p, place)
  PROVE  /\ call' \in [Calls -> CallRecord]
         /\ \A q \in Calls \ {p} : call'[q] = call[q]
         /\ call'[p].at = place
         /\ call'[p].kind = call[p].kind
         /\ place # "end" => /\ call'[p].using = call[p].using
                             /\ call'[p].profile = call[p].profile
                             /\ call'[p].stored = call[p].stored
  <1>1. call[p] \in CallRecord  BY DEF CallsTyped
  <1>2. CASE place = "end"
    <2> DEFINE c == NewCall(call[p].kind, "end")
    <2>1. c \in CallRecord /\ c.at = "end" /\ c.kind = call[p].kind
      BY <1>1 DEF NewCall, CallRecord, Places
    <2>2. call' = [call EXCEPT ![p] = c]  BY <1>2 DEF Go
    <2> QED  BY <2>1, <2>2, <1>2 DEF CallsTyped
  <1>3. CASE place # "end"
    <2> DEFINE c == [call[p] EXCEPT !.at = place]
    <2>1. /\ c \in CallRecord /\ c.at = place /\ c.kind = call[p].kind /\ c.using = call[p].using
          /\ c.profile = call[p].profile /\ c.stored = call[p].stored
      BY <1>1 DEF CallRecord
    <2>2. call' = [call EXCEPT ![p] = c]  BY <1>3 DEF Go
    <2> QED  BY <2>1, <2>2, <1>3 DEF CallsTyped
  <1> QED  BY <1>2, <1>3

LEMMA InitTyped == ActiveInit => CallsTyped
  <1> SUFFICES ASSUME ActiveInit PROVE CallsTyped
    OBVIOUS
  <1>1. NewCall("none", "idle") \in CallRecord
    BY DEF NewCall, CallRecord, Places
  <1>2. call \in [Calls -> CallRecord] /\ \A p \in Calls : call[p] = NewCall("none", "idle")
    <2>1. call = [p \in Calls |-> NewCall("none", "idle")]  BY DEF ActiveInit
    <2>2. \A p \in Calls : call[p] = NewCall("none", "idle")  BY <2>1
    <2>3. call \in [Calls -> CallRecord]  BY <2>1, <1>1
    <2> QED  BY <2>2, <2>3
  <1>3. \A p \in Calls : Carries(call[p])
    <2>1. Carries(NewCall("none", "idle"))  BY DEF NewCall, Carries
    <2> QED  BY <1>2, <2>1
  <1>4. manager \in [Managers -> States] /\ connected \in Managers \cup {Absent}
    BY DEF ActiveInit, Managers, States
  <1> QED  BY <1>2, <1>3, <1>4 DEF ActiveInit, CallsTyped, BothNames

LEMMA StepTyped == CallsTyped /\ [ActiveNext]_activeVars => CallsTyped'
  <1> SUFFICES ASSUME CallsTyped, [ActiveNext]_activeVars PROVE CallsTyped'
    OBVIOUS
  <1>s. CASE UNCHANGED activeVars
    BY <1>s DEF activeVars, CallsTyped, Carries
  <1> SUFFICES ASSUME NEW p \in Calls, 
    \/ AutoConnect(p) \/ ConnectStored(p) \/ RecoverWriter(p) \/ FetchMirror(p) \/ ConnectThrows(p)
    \/ Join(p) \/ CheckActive(p) \/ NewManager(p) \/ TakeLock(p) \/ OpenFails(p) \/ Opened(p)
    \/ Register(p) \/ ReadProfile(p) \/ SaveJoined(p) \/ SaveStored(p) \/ SaveFails(p)
    \/ Disconnect(p) \/ LeaveClosed(p) \/ Closed(p) \/ CloseFails(p)
    \/ ReadClosed(p) \/ MarkInactive(p) \/ RemoveProfile(p)
    \/ AskMembers(p) \/ MembersRead(p)
                PROVE CallsTyped'
    BY <1>s DEF ActiveNext
  <1>0. /\ call[p] \in CallRecord /\ Carries(call[p])
        /\ call \in [Calls -> CallRecord] /\ \A q \in Calls : Carries(call[q])
        /\ manager \in [Managers -> States] /\ p \in Managers
    BY DEF CallsTyped, Managers
  <1>1. CASE AutoConnect(p)
    BY <1>0, <1>1 DEF AutoConnect, CallsTyped, Carries, At, CallRecord, Places, CallKinds
  <1>2. CASE ConnectStored(p)
    <2>1. CASE Go(p, "end") /\ UNCHANGED cachedFor
      BY <1>0, <1>2, <2>1, GoTyped DEF ConnectStored, CallsTyped, Carries, At, Places
    <2>2. CASE Go(p, "writer") /\ cachedFor' = BothNames
      BY <1>0, <1>2, <2>2, GoTyped DEF ConnectStored, CallsTyped, Carries, At, Places
    <2> QED  BY <1>2, <2>1, <2>2 DEF ConnectStored
  <1>3. CASE RecoverWriter(p)
    <2>1. call[p].stored \in Profiles  BY <1>0, <1>3 DEF RecoverWriter, Carries, At
    <2>2. PICK found \in BOOLEAN :
            /\ record' = IF found THEN [call[p].stored EXCEPT !.writer = @ \/ found] ELSE record
            /\ call' = [call EXCEPT ![p].at = "mirror",
                                    ![p].stored = [call[p].stored EXCEPT !.writer = @ \/ found]]
      BY <1>3, <2>1 DEF RecoverWriter, Profiles
    <2>3. [call[p].stored EXCEPT !.writer = @ \/ found] \in Profiles  BY <2>1 DEF Profiles
    <2>4. UNCHANGED <<connected, manager, dirLock, cachedFor, gaveUp, crossed>> /\ call[p].at = "writer"
      BY <1>3 DEF RecoverWriter, At
    <2> HIDE DEF Profiles
    <2> QED  BY <1>0, <2>2, <2>3, <2>4, ZenonT(40) DEF CallsTyped, Carries, CallRecord, Places
  <1>4. CASE FetchMirror(p)
    <2>1. call[p].stored \in Profiles /\ call[p].kind = "auto"  BY <1>0, <1>4 DEF FetchMirror, Carries, At
    <2>2. PICK stored \in Profiles : call' = [call EXCEPT ![p].at = "check", ![p].stored = stored]
      BY <1>4, <2>1 DEF FetchMirror, CallsTyped
    <2>3. UNCHANGED <<connected, manager, dirLock, cachedFor, record, gaveUp, crossed>>
      BY <1>4 DEF FetchMirror
    <2> QED  BY <1>0, <2>1, <2>2, <2>3, ZenonT(40) DEF CallsTyped, Carries, CallRecord, Places
  <1>5. CASE ConnectThrows(p)
    BY <1>0, <1>5, GoTyped DEF ConnectThrows, CallsTyped, Carries, At, Places
  <1>6. CASE Join(p)
    BY <1>0, <1>6 DEF Join, Begin, CallsTyped, Carries, At, CallRecord, Places, CallKinds
  <1>7. CASE CheckActive(p)
    <2>1. crossed' \subseteq {"joins", "closes", "both", "failure"}
      <3>1. {"joins" : q \in {q \in Calls \ {p} : call[q].at \in Joining}} \subseteq {"joins"}  OBVIOUS
      <3>2. {"both" : q \in {q \in Calls \ {p} : call[q].at \in Disconnecting}} \subseteq {"both"}  OBVIOUS
      <3> QED  BY <1>7, <3>1, <3>2 DEF CheckActive, CallsTyped
    <2>2. UNCHANGED <<connected, manager, dirLock, cachedFor, record, gaveUp>>
      BY <1>7 DEF CheckActive
    <2>3. CASE Go(p, "end")
      BY <1>0, <2>1, <2>2, <2>3, GoTyped DEF CallsTyped, Carries, Places
    <2>4. CASE Go(p, "create") /\ At(p, "check")
      BY <1>0, <2>1, <2>2, <2>4, GoTyped DEF CallsTyped, Carries, Places, At
    <2> QED  BY <1>7, <2>3, <2>4 DEF CheckActive
  <1>8. CASE NewManager(p)
    BY <1>0, <1>8, GoTyped, SMTT(30) DEF NewManager, CallsTyped, Carries, At, Places, States
  <1>9. CASE TakeLock(p)
    BY <1>0, <1>9, GoTyped, SMTT(30) DEF TakeLock, CallsTyped, Carries, At, Places, States
  <1>10. CASE OpenFails(p)
    <2>1. /\ call' \in [Calls -> CallRecord] /\ \A q \in Calls \ {p} : call'[q] = call[q]
          /\ call'[p].at = "end" /\ call'[p].kind = call[p].kind
      BY <1>10, GoTyped DEF OpenFails, Places
    <2>2. manager' \in [Managers -> States]  BY <1>0, <1>10 DEF OpenFails, States
    <2>3. Carries(call'[p])  BY <1>0, <1>10, <2>1 DEF Carries, OpenFails, At
    <2>4. crossed' \subseteq {"joins", "closes", "both", "failure"}
      BY <1>10 DEF OpenFails, CallsTyped
    <2>5. gaveUp' \in BOOLEAN /\ dirLock' \in BOOLEAN /\ UNCHANGED <<connected, cachedFor, record>>
      BY <1>10 DEF OpenFails, CallsTyped, At
    <2> QED  BY <1>0, <2>1, <2>2, <2>3, <2>4, <2>5 DEF CallsTyped
  <1>11. CASE Opened(p)
    <2>1. /\ call' \in [Calls -> CallRecord] /\ \A q \in Calls \ {p} : call'[q] = call[q]
          /\ call'[p].at = "opened" /\ call'[p].kind = call[p].kind /\ call'[p].stored = call[p].stored
      BY <1>11, GoTyped DEF Opened, Places
    <2>2. manager' \in [Managers -> States]  BY <1>0, <1>11 DEF Opened, States
    <2>3. Carries(call'[p])  BY <1>0, <1>11, <2>1 DEF Carries, Opened, At
    <2> QED  BY <1>0, <1>11, <2>1, <2>2, <2>3 DEF Opened, CallsTyped
  <1>12. CASE Register(p)
    BY <1>0, <1>12, GoTyped DEF Register, CallsTyped, Carries, At, Places
  <1>13. CASE ReadProfile(p)
    <2>1. PICK writer \in BOOLEAN :
            call' = [call EXCEPT ![p].at = "save", ![p].profile = [active |-> TRUE, writer |-> writer]]
      BY <1>0, <1>13 DEF ReadProfile, CallsTyped, Profiles, Carries, At
    <2>2. [active |-> TRUE, writer |-> writer] \in Profiles  BY DEF Profiles
    <2>3. UNCHANGED <<connected, manager, dirLock, cachedFor, record, gaveUp, crossed>> /\ call[p].at = "profile"
      BY <1>13 DEF ReadProfile, At
    <2> QED  BY <1>0, <2>1, <2>2, <2>3, ZenonT(40) DEF CallsTyped, Carries, CallRecord, Places
  <1>14. CASE SaveJoined(p)
    BY <1>0, <1>14, GoTyped DEF SaveJoined, CallsTyped, Carries, At, Places, BothNames
  <1>15. CASE SaveStored(p)
    BY <1>0, <1>15, GoTyped DEF SaveStored, CallsTyped, Carries, At, Places
  <1>16. CASE SaveFails(p)
    BY <1>0, <1>16, GoTyped DEF SaveFails, CallsTyped, Carries, At, Places
  <1>17. CASE Disconnect(p)
    <2>1. PICK kind \in {"disconnect", "leave"} :
            call' = [call EXCEPT ![p].kind = kind, ![p].at = "close", ![p].using = connected]
      BY <1>17 DEF Disconnect
    <2>2. UNCHANGED <<connected, manager, dirLock, cachedFor, record, gaveUp>>
      BY <1>17 DEF Disconnect
    <2>3. crossed' \subseteq {"joins", "closes", "both", "failure"}
      BY <1>17 DEF Disconnect, CallsTyped
    <2>4. call' \in [Calls -> CallRecord]
      BY <1>0, <2>1 DEF CallsTyped, CallRecord, Places, CallKinds
    <2>5. Carries(call'[p]) /\ \A q \in Calls \ {p} : call'[q] = call[q]
      BY <1>0, <2>1 DEF Carries, CallRecord, CallsTyped
    <2> QED  BY <1>0, <2>2, <2>3, <2>4, <2>5 DEF CallsTyped
  <1>18. CASE LeaveClosed(p)
    <2>1. crossed' \subseteq {"joins", "closes", "both", "failure"}
      BY <1>18 DEF LeaveClosed, CallsTyped
    <2> QED  BY <1>0, <1>18, <2>1 DEF LeaveClosed, Begin, CallsTyped, Carries, At, CallRecord, Places, CallKinds
  <1>19. CASE Closed(p)
    <2>1. [manager EXCEPT ![call[p].using] = "closed"] \in [Managers -> States]
      BY <1>0 DEF States
    <2> QED  BY <1>0, <1>19, <2>1, GoTyped DEF Closed, CallsTyped, Carries, At, Places
  <1>20. CASE CloseFails(p)
    <2>1. [manager EXCEPT ![call[p].using] = "broken"] \in [Managers -> States]
      BY <1>0 DEF States
    <2>2. Last(p) \in {"remove", "end"}  BY DEF Last
    <2> QED  BY <1>0, <1>20, <2>1, <2>2, GoTyped DEF CloseFails, CallsTyped, Carries, At, Places
  <1>21. CASE ReadClosed(p)
    <2>1. Last(p) \in {"remove", "end"}  BY DEF Last
    <2>2. CASE record = Absent
      BY <1>0, <1>21, <2>1, <2>2, GoTyped DEF ReadClosed, CallsTyped, Carries, At, Places
    <2>3. CASE record # Absent
      BY <1>0, <1>21, <2>3 DEF ReadClosed, CallsTyped, Carries, At, CallRecord, Places, BothNames
    <2> QED  BY <2>2, <2>3
  <1>22. CASE MarkInactive(p)
    <2>1. Last(p) \in {"remove", "end"}  BY DEF Last
    <2>2. [call[p].profile EXCEPT !.active = FALSE] \in Profiles
      BY <1>0, <1>22 DEF MarkInactive, Carries, At, Profiles
    <2> QED  BY <1>0, <1>22, <2>1, <2>2, GoTyped DEF MarkInactive, CallsTyped, Carries, At, Places
  <1>23. CASE RemoveProfile(p)
    BY <1>0, <1>23, GoTyped, ZenonT(40) DEF RemoveProfile, CallsTyped, Carries, At, Places
  <1>24. CASE AskMembers(p)
    BY <1>0, <1>24 DEF AskMembers, CallsTyped, Carries, At, CallRecord, Places, CallKinds
  <1>25. CASE MembersRead(p)
    BY <1>0, <1>25, GoTyped DEF MembersRead, CallsTyped, Carries, At, Places, BothNames
  <1> QED
    BY <1>1, <1>2, <1>3, <1>4, <1>5, <1>6, <1>7, <1>8, <1>9, <1>10, <1>11, <1>12, <1>13, <1>14, <1>15,
       <1>16, <1>17, <1>18, <1>19, <1>20, <1>21, <1>22, <1>23, <1>24, <1>25

(* Every variable has its type (activeRelays, relayMembers, fileLocks and the *)
(* profiles the calls carry).                                                 *)
THEOREM ActiveTyped == ActiveSpec => []ActiveTypeOK
  <1>1. ActiveSpec => []CallsTyped  BY InitTyped, StepTyped, PTL DEF ActiveSpec
  <1> QED  BY <1>1, TypedType, PTL

-----------------------------------------------------------------------------
Unopened == {"idle", "connect", "writer", "mirror", "check", "create"}

\* A manager that has been in the table.
Registered(x) ==
  x \in Managers /\ manager[x] \in {"open", "closed", "broken"} /\ (x \in Calls => ~At(x, "opened"))

Placed ==
  /\ \A p \in Calls :
       /\ At(p, "opening") <=> manager[p] = "opening"
       /\ At(p, "opened") => manager[p] = "open"
       /\ call[p].at \in Unopened => manager[p] = "none"
       /\ At(p, "lock") => manager[p] = "waiting"
       /\ At(p, "close") => Registered(call[p].using)
  /\ manager[Old] # "opening"
  /\ connected # Absent => Registered(connected)

Together == crossed \cap {"joins", "closes"} # {}

Alone ==
  \/ Together
  \/ /\ \A p, q \in Calls : call[p].at \in Joining /\ call[q].at \in Joining => p = q
     /\ \A p \in Calls : call[p].at \in Joining => connected = Absent
     /\ \A p, q \in Calls : At(p, "close") /\ At(q, "close") => p = q
     /\ \A p \in Calls : At(p, "close") => call[p].using = connected

Safe == Placed /\ DirectoryLocked /\ Alone /\ NoManagerLost

\* A step of p that neither makes, opens, enters nor closes a manager.
Aside(p) ==
  /\ UNCHANGED <<connected, manager, dirLock, gaveUp>>
  /\ crossed \subseteq crossed'
  /\ \A q \in Calls \ {p} : call'[q] = call[q]
  /\ call[p].at \notin Joining \cup {"close"}
  /\ call'[p].at \notin Joining \cup {"close"}
  /\ call'[p].at \in Unopened => call[p].at \in Unopened

LEMMA InitSafe == CallsAreNot /\ ActiveInit => Safe
  <1> SUFFICES ASSUME CallsAreNot, ActiveInit PROVE Safe
    OBVIOUS
  <1>1. \A p \in Calls : call[p].at = "idle" /\ manager[p] = "none"
    BY DEF ActiveInit, CallsAreNot, Managers, NewCall
  <1>2. connected \in {Absent, Old} /\ Old \in Managers /\ Old \notin Calls /\ Absent \notin Managers
        /\ manager[Old] \in {"none", "open"} /\ (connected = Old <=> manager[Old] = "open")
        /\ crossed = {} /\ dirLock = FALSE
    BY DEF ActiveInit, CallsAreNot, Managers
  <1>3. \A x \in Managers : x = Old \/ x \in Calls  BY DEF Managers
  <1>4. Placed  BY <1>1, <1>2 DEF Placed, At, Registered, Unopened
  <1>5. DirectoryLocked  BY <1>1, <1>2, <1>3 DEF DirectoryLocked
  <1>6. Alone  BY <1>1 DEF Alone, At, Joining
  <1>7. NoManagerLost  BY <1>1, <1>2, <1>3 DEF NoManagerLost
  <1> QED  BY <1>4, <1>5, <1>6, <1>7 DEF Safe

LEMMA AsideSafe ==
  ASSUME CallsTyped, Safe, NEW p \in Calls, Aside(p)
  PROVE  Safe'
  <1>1. \A q \in Calls : \A place \in Joining \cup {"close"} :
          (call'[q].at = place <=> call[q].at = place) /\ (call[q].at = place => call'[q] = call[q])
    BY DEF Aside
  <1>2. \A q \in Calls : /\ At(q, "opening")' <=> At(q, "opening")
                         /\ At(q, "opened")' <=> At(q, "opened")
                         /\ At(q, "lock")' <=> At(q, "lock")
                         /\ At(q, "close")' <=> At(q, "close")
    BY <1>1 DEF At, Joining
  <1>3. \A q \in Calls : At(q, "close") => call'[q] = call[q]  BY <1>1 DEF At
  <1>4. \A q \in Calls : call'[q].at \in Unopened => call[q].at \in Unopened  BY DEF Aside
  <1>5. \A x : Registered(x)' <=> Registered(x)  BY <1>2 DEF Registered, Aside
  <1>6. Placed'
    BY <1>2, <1>3, <1>4, <1>5 DEF Safe, Placed, Aside
  <1>7. DirectoryLocked'  BY DEF Safe, DirectoryLocked, Aside
  <1>8. Together => Together'  BY DEF Together, Aside
  <1>9. \A q \in Calls : call'[q].at \in Joining <=> call[q].at \in Joining  BY <1>1
  <1>10. Alone'
    BY <1>2, <1>3, <1>8, <1>9 DEF Safe, Alone, Aside
  <1>11. NoManagerLost'  BY <1>2, <1>8 DEF Safe, NoManagerLost, Aside, Together
  <1> QED  BY <1>6, <1>7, <1>10, <1>11 DEF Safe

\* A step of p that moves it from one place to another, the rest as it was.
Moves(p, from, to) ==
  /\ call[p].at = from /\ call'[p].at = to
  /\ \A q \in Calls \ {p} : call'[q] = call[q]

LEMMA GoMoves ==
  ASSUME CallsTyped, NEW p \in Calls, NEW from \in Places, NEW to \in Places, At(p, from), Go(p, to)
  PROVE  Moves(p, from, to)
  BY GoTyped DEF Moves, At

LEMMA CheckActiveSafe ==
  ASSUME CallsTyped, Safe, NEW p \in Calls, CheckActive(p)
  PROVE  Safe'
  <1>1. CASE connected # Absent
    <2>1. Moves(p, "check", "end")  BY <1>1, GoMoves DEF CheckActive, Places
    <2> QED  BY <1>1, <2>1, AsideSafe DEF Aside, Moves, CheckActive, Joining, Unopened
  <1>2. CASE connected = Absent
    <2>1. Moves(p, "check", "create")  BY <1>2, GoMoves DEF CheckActive, Places
    <2>2. UNCHANGED <<connected, manager, dirLock, gaveUp>> /\ crossed \subseteq crossed'
      BY <1>2 DEF CheckActive
    <2>3. Together'
          \/ \A q \in Calls \ {p} : call[q].at \notin Joining
      <3> SUFFICES ASSUME NEW q \in Calls \ {p}, call[q].at \in Joining PROVE Together'
        OBVIOUS
      <3>1. "joins" \in {"joins" : r \in {r \in Calls \ {p} : call[r].at \in Joining}}  OBVIOUS
      <3> QED  BY <1>2, <3>1 DEF CheckActive, Together
    <2>4. \A q \in Calls : /\ At(q, "opening")' <=> At(q, "opening")
                           /\ At(q, "opened")' <=> At(q, "opened")
                           /\ At(q, "lock")' <=> At(q, "lock")
                           /\ At(q, "close")' <=> At(q, "close")
      BY <2>1 DEF At, Moves
    <2>5. \A x : Registered(x)' <=> Registered(x)  BY <2>2, <2>4 DEF Registered
    <2>6. Placed'  BY <2>1, <2>2, <2>4, <2>5 DEF Safe, Placed, Moves, Unopened, At
    <2>7. DirectoryLocked'  BY <2>2 DEF Safe, DirectoryLocked
    <2>8. Together => Together'  BY <2>2 DEF Together
    <2>9. Alone'
      BY <1>2, <2>1, <2>2, <2>3, <2>4, <2>8 DEF Safe, Alone, Moves, At
    <2>10. NoManagerLost'  BY <2>2, <2>4, <2>8 DEF Safe, NoManagerLost, Together
    <2> QED  BY <2>6, <2>7, <2>9, <2>10 DEF Safe
  <1> QED  BY <1>1, <1>2

\* The steps of a join between its look at the table and its entry there.
LEMMA JoiningSafe ==
  ASSUME CallsAreNot, CallsTyped, Safe, NEW p \in Calls,
         NewManager(p) \/ TakeLock(p) \/ OpenFails(p) \/ Opened(p)
  PROVE  Safe'
  <1>1. p \in Managers /\ p # Old /\ manager \in [Managers -> States]
    BY DEF Managers, CallsAreNot, CallsTyped
  <1>2. connected # p
    BY DEF Safe, Placed, NewManager, TakeLock, OpenFails, Opened, At, Registered, CallsAreNot, Managers, Unopened
  <1>3. PICK from \in {"create", "lock", "opening"}, to \in {"lock", "opening", "opened", "end"} :
          /\ Moves(p, from, to)
          /\ from = "create" => to = "lock" /\ manager' = [manager EXCEPT ![p] = "waiting"] /\ UNCHANGED dirLock
          /\ to = "lock" => from = "create"
          /\ to = "opening" => from = "lock" /\ manager' = [manager EXCEPT ![p] = "opening"] /\ ~dirLock /\ dirLock'
          /\ to = "opened" => from = "opening" /\ manager' = [manager EXCEPT ![p] = "open"] /\ dirLock' = FALSE
          /\ to = "end" => /\ manager' = [manager EXCEPT ![p] = "broken"] /\ dirLock' = FALSE
                           /\ gaveUp' = (gaveUp \/ from = "lock")
          /\ to # "end" => gaveUp' = gaveUp
    BY GoMoves DEF NewManager, TakeLock, OpenFails, Opened, Places, At
  <1>4. connected' = connected /\ crossed \subseteq crossed'
    BY DEF NewManager, TakeLock, OpenFails, Opened
  <1>5. \A x \in Managers \ {p} : manager'[x] = manager[x]
    BY <1>1, <1>3
  <1>6. \A q \in Calls : call'[q].at \in Joining => call[q].at \in Joining
    BY <1>3 DEF Joining, Moves
  <1>7. \A q \in Calls : /\ At(q, "close")' <=> At(q, "close")
                         /\ At(q, "close") => call'[q] = call[q] /\ q # p
    BY <1>3 DEF At, Moves
  <1>8. manager[p] \in {"none", "waiting", "opening"}
    BY <1>3 DEF Safe, Placed, Moves, At, Unopened
  <1>9. \A x : Registered(x) => Registered(x)'
    BY <1>3, <1>5, <1>8 DEF Registered, Moves, At
  <1>10. Placed'
    <2>1. \A q \in Calls \ {p} :
            /\ At(q, "opening")' <=> manager'[q] = "opening"
            /\ At(q, "opened")' => manager'[q] = "open"
            /\ call'[q].at \in Unopened => manager'[q] = "none"
            /\ At(q, "lock")' => manager'[q] = "waiting"
      BY <1>3, <1>5 DEF Safe, Placed, Moves, At, Managers
    <2>2. /\ At(p, "opening")' <=> manager'[p] = "opening"
          /\ At(p, "opened")' => manager'[p] = "open"
          /\ call'[p].at \in Unopened => manager'[p] = "none"
          /\ At(p, "lock")' => manager'[p] = "waiting"
      BY <1>1, <1>3 DEF Moves, At, Unopened
    <2>3. \A q \in Calls : At(q, "close")' => Registered(call[q].using)'
      BY <1>7, <1>9 DEF Safe, Placed
    <2>4. manager'[Old] # "opening"  BY <1>1, <1>5 DEF Safe, Placed, Managers
    <2> QED  BY <1>4, <1>9, <2>1, <2>2, <2>3, <2>4 DEF Safe, Placed
  <1>11. DirectoryLocked'
    <2>1. CASE gaveUp'
      BY <2>1 DEF DirectoryLocked
    <2>2. CASE ~gaveUp'
      <3>1. ~gaveUp  BY <1>3, <2>2
      <3>2. /\ \A x, y \in Managers : manager[x] = "opening" /\ manager[y] = "opening" => x = y
            /\ dirLock = (\E x \in Managers : manager[x] = "opening")
        BY <3>1 DEF Safe, DirectoryLocked
      <3>3. from = "opening" => manager[p] = "opening"
        BY <1>3 DEF Safe, Placed, Moves, At
      <3>4. from \in {"create", "lock"} => manager[p] # "opening"
        BY <1>3 DEF Safe, Placed, Moves, At
      <3>5. CASE to = "lock"  BY <1>1, <1>3, <1>5, <3>2, <3>4, <3>5 DEF DirectoryLocked
      <3>6. CASE to = "opening"  BY <1>1, <1>3, <1>5, <3>2, <3>6 DEF DirectoryLocked
      <3>7. CASE to = "opened"  BY <1>1, <1>3, <1>5, <3>2, <3>3, <3>7 DEF DirectoryLocked
      <3>8. CASE to = "end"  BY <1>1, <1>3, <1>5, <2>2, <3>2, <3>3, <3>8 DEF DirectoryLocked
      <3> QED  BY <3>5, <3>6, <3>7, <3>8
    <2> QED  BY <2>1, <2>2
  <1>12. Together => Together'  BY <1>4 DEF Together
  <1>13. Alone'  BY <1>4, <1>6, <1>7, <1>12 DEF Safe, Alone
  <1>14. NoManagerLost'
    <2> SUFFICES ASSUME ~Together', NEW x \in Managers, manager'[x] = "open"
                 PROVE  connected' = x \/ (x \in Calls /\ At(x, "opened")')
      BY DEF NoManagerLost, Together
    <2>1. ~Together  BY <1>12
    <2>2. CASE x = p
      <3>1. to = "opened"  BY <1>1, <1>3, <2>2
      <3> QED  BY <1>3, <2>2, <3>1 DEF Moves, At
    <2>3. CASE x # p
      <3>1. connected = x \/ (x \in Calls /\ At(x, "opened"))
        BY <1>5, <2>1, <2>3 DEF Safe, NoManagerLost, Together
      <3> QED  BY <1>3, <1>4, <2>3, <3>1 DEF Moves, At
    <2> QED  BY <2>2, <2>3
  <1> QED  BY <1>10, <1>11, <1>13, <1>14 DEF Safe

LEMMA RegisterSafe ==
  ASSUME CallsAreNot, CallsTyped, Safe, NEW p \in Calls, Register(p)
  PROVE  Safe'
  <1>1. Moves(p, "opened", "profile")  BY GoMoves DEF Register, Places
  <1>2. connected' = p /\ UNCHANGED <<manager, dirLock, gaveUp, crossed>>  BY DEF Register
  <1>3. p \in Managers /\ manager[p] = "open"  BY <1>1 DEF Managers, Safe, Placed, Moves, At
  <1>4. \A q \in Calls : /\ At(q, "close")' <=> At(q, "close")
                         /\ At(q, "close") => call'[q] = call[q]
    BY <1>1 DEF At, Moves
  <1>5. \A x : Registered(x) => Registered(x)'  BY <1>1, <1>2 DEF Registered, Moves, At
  <1>6. Registered(p)'  BY <1>1, <1>2, <1>3 DEF Registered, Moves, At
  <1>7. Placed'
    <2>1. \A q \in Calls :
            /\ At(q, "opening")' <=> manager'[q] = "opening"
            /\ At(q, "opened")' => manager'[q] = "open"
            /\ call'[q].at \in Unopened => manager'[q] = "none"
            /\ At(q, "lock")' => manager'[q] = "waiting"
      BY <1>1, <1>2 DEF Safe, Placed, Moves, At, Unopened
    <2>2. \A q \in Calls : At(q, "close")' => Registered(call[q].using)'
      BY <1>4, <1>5 DEF Safe, Placed
    <2> QED  BY <1>2, <1>6, <2>1, <2>2 DEF Safe, Placed
  <1>8. DirectoryLocked'  BY <1>2 DEF Safe, DirectoryLocked
  <1>9. CASE Together
    BY <1>2, <1>7, <1>8, <1>9 DEF Safe, Alone, NoManagerLost, Together
  <1>10. CASE ~Together
    <2>1. /\ connected = Absent
          /\ \A q \in Calls \ {p} : call[q].at \notin Joining
      BY <1>1, <1>10 DEF Safe, Alone, Moves, Joining
    <2>2. \A q \in Calls : ~At(q, "close")
      <3> SUFFICES ASSUME NEW q \in Calls, At(q, "close") PROVE FALSE
        OBVIOUS
      <3>1. call[q].using = Absent  BY <1>10, <2>1 DEF Safe, Alone
      <3>2. Absent \in Managers  BY <3>1 DEF Safe, Placed, Registered
      <3> QED  BY <3>2 DEF CallsAreNot, Managers
    <2>3. Alone'
      BY <1>1, <1>4, <2>1, <2>2 DEF Alone, Moves, Joining
    <2>4. \A x \in Managers : manager[x] = "open" => x = p
      BY <1>10, <2>1 DEF Safe, NoManagerLost, Together, At, Joining, CallsAreNot, Managers
    <2>5. NoManagerLost'  BY <1>2, <2>4 DEF NoManagerLost
    <2> QED  BY <1>7, <1>8, <2>3, <2>5 DEF Safe
  <1> QED  BY <1>9, <1>10

LEMMA DisconnectSafe ==
  ASSUME CallsAreNot, CallsTyped, Safe, NEW p \in Calls, Disconnect(p)
  PROVE  Safe'
  <1>1. /\ Moves(p, "idle", "close") /\ call'[p].using = connected
    <2>1. PICK kind : call' = [call EXCEPT ![p].kind = kind, ![p].at = "close", ![p].using = connected]
      BY DEF Disconnect
    <2>2. call \in [Calls -> CallRecord]  BY DEF CallsTyped
    <2> QED  BY <2>1, <2>2 DEF Moves, Disconnect, At, CallRecord
  <1>2. UNCHANGED <<connected, manager, dirLock, gaveUp>> /\ crossed \subseteq crossed' /\ connected # Absent
    BY DEF Disconnect
  <1>3. Together' \/ \A q \in Calls \ {p} : ~At(q, "close")
    <2> SUFFICES ASSUME NEW q \in Calls \ {p}, At(q, "close") PROVE Together'
      OBVIOUS
    <2>1. "closes" \in {"closes" : r \in {r \in Calls \ {p} : At(r, "close")}}  OBVIOUS
    <2> QED  BY <2>1 DEF Disconnect, Together
  <1>4. \A x : Registered(x) <=> Registered(x)'  BY <1>1, <1>2 DEF Registered, Moves, At
  <1>5. \A q \in Calls : call'[q].at \in Joining <=> call[q].at \in Joining
    BY <1>1 DEF Moves, Joining
  <1>6. Placed'
    <2>1. \A q \in Calls :
            /\ At(q, "opening")' <=> manager'[q] = "opening"
            /\ At(q, "opened")' => manager'[q] = "open"
            /\ call'[q].at \in Unopened => manager'[q] = "none"
            /\ At(q, "lock")' => manager'[q] = "waiting"
      BY <1>1, <1>2 DEF Safe, Placed, Moves, At, Unopened
    <2>2. \A q \in Calls : At(q, "close")' => Registered(call[q].using)'
      BY <1>1, <1>2, <1>4 DEF Safe, Placed, Moves, At
    <2> QED  BY <1>2, <1>4, <2>1, <2>2 DEF Safe, Placed
  <1>7. DirectoryLocked'  BY <1>2 DEF Safe, DirectoryLocked
  <1>8. Together => Together'  BY <1>2 DEF Together
  <1>9. Alone'
    BY <1>1, <1>2, <1>3, <1>5, <1>8 DEF Safe, Alone, Moves, At
  <1>10. NoManagerLost'  BY <1>1, <1>2, <1>8 DEF Safe, NoManagerLost, Together, Moves, At
  <1> QED  BY <1>6, <1>7, <1>9, <1>10 DEF Safe

LEMMA ClosingSafe ==
  ASSUME CallsAreNot, CallsTyped, Safe, NEW p \in Calls, Closed(p) \/ CloseFails(p)
  PROVE  Safe'
  <1> DEFINE m == call[p].using
  <1>1. At(p, "close") /\ Registered(m) /\ m \in Managers
    BY DEF Closed, CloseFails, Safe, Placed, Registered
  <1>2. PICK to \in {"read", "remove", "end"} : Moves(p, "close", to)
    BY <1>1, GoMoves DEF Closed, CloseFails, Last, Places
  <1>3. PICK state \in {"closed", "broken"} : manager' = [manager EXCEPT ![m] = state]
    BY DEF Closed, CloseFails
  <1>4. /\ UNCHANGED <<dirLock, gaveUp>> /\ crossed \subseteq crossed'
        /\ connected' \in {Absent, connected}
    BY DEF Closed, CloseFails
  <1>5. manager'[m] = state /\ \A x \in Managers \ {m} : manager'[x] = manager[x]
    BY <1>1, <1>3 DEF CallsTyped
  <1>6. \A q \in Calls : q # p => call'[q] = call[q]  BY <1>2 DEF Moves
  <1>7. \A x : Registered(x) => Registered(x)'
    BY <1>2, <1>5, <1>6 DEF Registered, Moves, At
  <1>8. m \in Calls => call[m].at \notin Unopened \cup {"lock", "opening", "opened"}
    BY <1>1 DEF Registered, Safe, Placed, At
  <1>9. \A q \in Calls : /\ call'[q].at \in Joining <=> call[q].at \in Joining
                         /\ call'[q].at \in Unopened <=> call[q].at \in Unopened
                         /\ \A place \in {"lock", "opening", "opened"} : At(q, place)' <=> At(q, place)
                         /\ At(q, "close")' => At(q, "close") /\ q # p /\ call'[q] = call[q]
    BY <1>2, <1>6 DEF Moves, Joining, Unopened, At
  <1>10. Placed'
    <2>1. \A q \in Calls :
            /\ At(q, "opening")' <=> manager'[q] = "opening"
            /\ At(q, "opened")' => manager'[q] = "open"
            /\ call'[q].at \in Unopened => manager'[q] = "none"
            /\ At(q, "lock")' => manager'[q] = "waiting"
      <3> SUFFICES ASSUME NEW q \in Calls
                   PROVE  /\ At(q, "opening")' <=> manager'[q] = "opening"
                          /\ At(q, "opened")' => manager'[q] = "open"
                          /\ call'[q].at \in Unopened => manager'[q] = "none"
                          /\ At(q, "lock")' => manager'[q] = "waiting"
        OBVIOUS
      <3>1. CASE q = m  BY <1>5, <1>8, <1>9, <3>1 DEF At
      <3>2. CASE q # m  BY <1>5, <1>9, <3>2 DEF Safe, Placed, Managers
      <3> QED  BY <3>1, <3>2
    <2>2. \A q \in Calls : At(q, "close")' => Registered(call[q].using)'
      BY <1>7, <1>9 DEF Safe, Placed
    <2>3. manager'[Old] # "opening"  BY <1>5 DEF Safe, Placed, Managers
    <2> QED  BY <1>4, <1>7, <2>1, <2>2, <2>3 DEF Safe, Placed
  <1>11. \A x \in Managers : manager'[x] = "opening" <=> manager[x] = "opening"
    BY <1>1, <1>5 DEF Registered
  <1>12. DirectoryLocked'  BY <1>4, <1>11 DEF Safe, DirectoryLocked
  <1>13. Together => Together'  BY <1>4 DEF Together
  <1>14. CASE Together'
    BY <1>10, <1>12, <1>14 DEF Safe, Alone, NoManagerLost, Together
  <1>15. CASE ~Together'
    <2>1. ~Together  BY <1>13, <1>15
    <2>2. m = connected /\ \A q \in Calls : At(q, "close") => q = p
      BY <1>1, <2>1 DEF Safe, Alone
    <2>3. Alone'
      BY <1>4, <1>9, <2>1, <2>2 DEF Safe, Alone
    <2>4. NoManagerLost'
      <3> SUFFICES ASSUME NEW x \in Managers, manager'[x] = "open"
                   PROVE  x \in Calls /\ At(x, "opened")'
        BY DEF NoManagerLost
      <3>1. x # m /\ manager[x] = "open"  BY <1>5
      <3>2. x \in Calls /\ At(x, "opened")  BY <2>1, <2>2, <3>1 DEF Safe, NoManagerLost, Together
      <3> QED  BY <1>9, <3>2
    <2> QED  BY <1>10, <1>12, <2>3, <2>4 DEF Safe
  <1> QED  BY <1>14, <1>15

LEMMA IdleMoves ==
  ASSUME CallsTyped, NEW p \in Calls, NEW kind, NEW to \in Places, At(p, "idle"),
         \/ call' = [call EXCEPT ![p].kind = kind, ![p].at = to]
         \/ \E stored : call' = [call EXCEPT ![p].kind = kind, ![p].at = to, ![p].stored = stored]
  PROVE  Moves(p, "idle", to)
  <1>1. call \in [Calls -> CallRecord] /\ call[p] \in CallRecord  BY DEF CallsTyped
  <1> QED  BY <1>1 DEF Moves, At, CallRecord

LEMMA CarryMoves ==
  ASSUME CallsTyped, NEW p \in Calls, NEW from \in Places, NEW to \in Places, At(p, from),
         \/ \E stored : call' = [call EXCEPT ![p].at = to, ![p].stored = stored]
         \/ \E profile : call' = [call EXCEPT ![p].at = to, ![p].profile = profile]
  PROVE  Moves(p, from, to)
  <1>1. call \in [Calls -> CallRecord] /\ call[p] \in CallRecord  BY DEF CallsTyped
  <1> QED  BY <1>1 DEF Moves, At, CallRecord

LEMMA MovesAside ==
  ASSUME NEW p \in Calls, NEW from, NEW to, Moves(p, from, to),
         from \notin Joining \cup {"close"}, to \notin Joining \cup {"close"},
         to \in Unopened => from \in Unopened,
         UNCHANGED <<connected, manager, dirLock, gaveUp>>, crossed \subseteq crossed'
  PROVE  Aside(p)
  BY DEF Aside, Moves

LEMMA StepSafe == CallsAreNot /\ CallsTyped /\ Safe /\ [ActiveNext]_activeVars => Safe'
  <1> SUFFICES ASSUME CallsAreNot, CallsTyped, Safe, [ActiveNext]_activeVars PROVE Safe'
    OBVIOUS
  <1>1. CASE UNCHANGED activeVars
    <2>1. \A p \in Calls : \A place : At(p, place)' <=> At(p, place)  BY <1>1 DEF activeVars, At
    <2>2. \A x : Registered(x)' <=> Registered(x)  BY <1>1, <2>1 DEF activeVars, Registered
    <2>3. Placed'  BY <1>1, <2>1, <2>2 DEF activeVars, Safe, Placed
    <2>4. DirectoryLocked'  BY <1>1 DEF activeVars, Safe, DirectoryLocked
    <2>5. Alone'  BY <1>1, <2>1 DEF activeVars, Safe, Alone, Together
    <2>6. NoManagerLost'  BY <1>1, <2>1 DEF activeVars, Safe, NoManagerLost
    <2> QED  BY <2>3, <2>4, <2>5, <2>6 DEF Safe
  <1>2. CASE ActiveNext
    <2>1. PICK p \in Calls :
            \/ AutoConnect(p) \/ ConnectStored(p) \/ RecoverWriter(p) \/ FetchMirror(p) \/ ConnectThrows(p)
            \/ Join(p) \/ CheckActive(p) \/ NewManager(p) \/ TakeLock(p) \/ OpenFails(p) \/ Opened(p)
            \/ Register(p) \/ ReadProfile(p) \/ SaveJoined(p) \/ SaveStored(p) \/ SaveFails(p)
            \/ Disconnect(p) \/ LeaveClosed(p) \/ Closed(p) \/ CloseFails(p)
            \/ ReadClosed(p) \/ MarkInactive(p) \/ RemoveProfile(p)
            \/ AskMembers(p) \/ MembersRead(p)
      BY <1>2 DEF ActiveNext
    <2>2. CASE AutoConnect(p)
      <3>1. Moves(p, "idle", "connect")  BY <2>2, IdleMoves DEF AutoConnect, Places
      <3> QED  BY <2>2, <3>1, MovesAside, AsideSafe DEF AutoConnect, Joining, Unopened
    <2>3. CASE ConnectStored(p)
      <3>1. Moves(p, "connect", "end") \/ Moves(p, "connect", "writer")
        BY <2>3, GoMoves DEF ConnectStored, Places
      <3> QED  BY <2>3, <3>1, MovesAside, AsideSafe DEF ConnectStored, Joining, Unopened
    <2>4. CASE RecoverWriter(p)
      <3>1. Moves(p, "writer", "mirror")  BY <2>4, CarryMoves DEF RecoverWriter, Places
      <3> QED  BY <2>4, <3>1, MovesAside, AsideSafe DEF RecoverWriter, Joining, Unopened
    <2>5. CASE FetchMirror(p)
      <3>1. Moves(p, "mirror", "check")  BY <2>5, CarryMoves DEF FetchMirror, Places
      <3> QED  BY <2>5, <3>1, MovesAside, AsideSafe DEF FetchMirror, Joining, Unopened
    <2>6. CASE ConnectThrows(p)
      <3>1. Moves(p, "writer", "end") \/ Moves(p, "mirror", "end")
        BY <2>6, GoMoves DEF ConnectThrows, Places, At
      <3> QED  BY <2>6, <3>1, MovesAside, AsideSafe DEF ConnectThrows, Joining, Unopened
    <2>7. CASE Join(p)
      <3>1. Moves(p, "idle", "check")  BY <2>7, IdleMoves DEF Join, Begin, Places
      <3> QED  BY <2>7, <3>1, MovesAside, AsideSafe DEF Join, Joining, Unopened
    <2>8. CASE ReadProfile(p)
      <3>1. Moves(p, "profile", "save")  BY <2>8, CarryMoves DEF ReadProfile, Places
      <3> QED  BY <2>8, <3>1, MovesAside, AsideSafe DEF ReadProfile, Joining, Unopened
    <2>9. CASE SaveJoined(p)
      <3>1. Moves(p, "save", "stored") \/ Moves(p, "save", "end")
        BY <2>9, GoMoves DEF SaveJoined, Places
      <3> QED  BY <2>9, <3>1, MovesAside, AsideSafe DEF SaveJoined, Joining, Unopened
    <2>10. CASE SaveStored(p)
      <3>1. Moves(p, "stored", "end")  BY <2>10, GoMoves DEF SaveStored, Places
      <3> QED  BY <2>10, <3>1, MovesAside, AsideSafe DEF SaveStored, Joining, Unopened
    <2>11. CASE SaveFails(p)
      <3>1. Moves(p, "save", "end") \/ Moves(p, "stored", "end")
        BY <2>11, GoMoves DEF SaveFails, Places, At
      <3> QED  BY <2>11, <3>1, MovesAside, AsideSafe DEF SaveFails, Joining, Unopened
    <2>12. CASE LeaveClosed(p)
      <3>1. Moves(p, "idle", "remove")  BY <2>12, IdleMoves DEF LeaveClosed, Begin, Places
      <3> QED  BY <2>12, <3>1, MovesAside, AsideSafe DEF LeaveClosed, Joining, Unopened
    <2>13. CASE ReadClosed(p)
      <3>1. \E to \in {"mark", "remove", "end"} : Moves(p, "read", to)
        BY <2>13, GoMoves, CarryMoves DEF ReadClosed, Last, Places
      <3> QED  BY <2>13, <3>1, MovesAside, AsideSafe DEF ReadClosed, Joining, Unopened
    <2>14. CASE MarkInactive(p)
      <3>1. \E to \in {"remove", "end"} : Moves(p, "mark", to)
        BY <2>14, GoMoves DEF MarkInactive, Last, Places
      <3> QED  BY <2>14, <3>1, MovesAside, AsideSafe DEF MarkInactive, Joining, Unopened
    <2>15. CASE RemoveProfile(p)
      <3>1. Moves(p, "remove", "end")  BY <2>15, GoMoves DEF RemoveProfile, Places
      <3> QED  BY <2>15, <3>1, MovesAside, AsideSafe DEF RemoveProfile, Joining, Unopened
    <2>16. CASE AskMembers(p)
      <3>1. Moves(p, "idle", "reading")  BY <2>16, IdleMoves DEF AskMembers, Places
      <3> QED  BY <2>16, <3>1, MovesAside, AsideSafe DEF AskMembers, Joining, Unopened
    <2>17. CASE MembersRead(p)
      <3>1. Moves(p, "reading", "end")  BY <2>17, GoMoves DEF MembersRead, Places
      <3> QED  BY <2>17, <3>1, MovesAside, AsideSafe DEF MembersRead, Joining, Unopened
    <2> QED
      BY <2>1, <2>2, <2>3, <2>4, <2>5, <2>6, <2>7, <2>8, <2>9, <2>10, <2>11, <2>12, <2>13, <2>14, <2>15,
         <2>16, <2>17, CheckActiveSafe, JoiningSafe, RegisterSafe, DisconnectSafe, ClosingSafe
  <1> QED  BY <1>1, <1>2

(* However many calls there are: no two managers open a relay's directory at  *)
(* the same time, unless one has given up waiting for it, and no open manager *)
(* is missing from the table (activeRelays), unless two joins or two          *)
(* disconnects came together.                                                 *)
THEOREM ManagersTracked ==
  ASSUME CallsAreNot
  PROVE  ActiveSpec => []RelaysTracked
  <1>1. ActiveInit => CallsTyped /\ Safe  BY InitTyped, InitSafe
  <1>2. CallsTyped /\ Safe /\ [ActiveNext]_activeVars => (CallsTyped /\ Safe)'  BY StepTyped, StepSafe
  <1>3. Safe => RelaysTracked  BY DEF Safe, RelaysTracked
  <1> QED  BY <1>1, <1>2, <1>3, PTL DEF ActiveSpec

-----------------------------------------------------------------------------
(* What is known of a relay when no call runs                                 *)

\* A call that will connect the relay, or mark or remove its profile.
Pending(place) == place \in Joining \cup {"mirror", "check", "read", "mark", "remove"}
Entered == {"profile", "save", "stored"}
Closing == Disconnecting \ {"close"}

\* As long as no joins, closes or a join and a disconnect came together.
Apart ==
  /\ \A p, q \in Calls : InJoin(p) /\ InJoin(q) => p = q
  /\ \A p, q \in Calls : InJoin(p) => call[q].at \notin Disconnecting
  /\ \A p, q \in Calls : At(p, "close") /\ At(q, "close") => p = q
  /\ \A p \in Calls :
       /\ call[p].at \in Joining => connected = Absent
       /\ call[p].at \in Entered => connected = p
       /\ At(p, "close") => connected # Absent
       /\ call[p].at \in Closing => connected = Absent

\* A connected relay is known, unless the join that connects it is yet to save.
Known ==
  connected # Absent /\ (\A p \in Calls : call[p].at \notin {"profile", "save"}) =>
    /\ cachedFor = BothNames /\ record # Absent
    /\ ~record.active => \E p \in Calls : call[p].kind = "auto"

\* A relay that was closed is inactive, unless a call is to see to it.
Left ==
  connected = Absent /\ record # Absent /\ record.active /\ (\E x \in Managers : manager[x] = "closed")
    => \E p \in Calls : Pending(call[p].at)

Began ==
  \A p \in Calls :
    /\ At(p, "idle") => call[p].kind = "none"
    /\ At(p, "save") => call[p].profile.active

Agreed == Began /\ (crossed = {} => Apart /\ Known /\ Left)

LEMMA InitAgreed ==
  ASSUME CallsAreNot, ActiveInit
  PROVE  Agreed
  <1>1. \A p \in Calls : call[p].at = "idle" /\ call[p].kind = "none"  BY DEF ActiveInit, NewCall
  <1>2. Began  BY <1>1 DEF Began, At
  <1>3. Apart  BY <1>1 DEF Apart, InJoin, At, Joining, Disconnecting, Entered, Closing
  <1>4. Known  BY DEF ActiveInit, Known
  <1>5. \A x \in Managers : manager[x] # "closed"  BY DEF ActiveInit
  <1>6. Left  BY <1>5 DEF Left
  <1> QED  BY <1>2, <1>3, <1>4, <1>6 DEF Agreed

\* A call keeps its kind once it has begun.
Steps(p, from, to) ==
  /\ Moves(p, from, to)
  /\ from # "idle" => call'[p].kind = call[p].kind
  /\ to # "idle" /\ crossed \subseteq crossed'

LEMMA BeganKept ==
  ASSUME Began, NEW p \in Calls, NEW from, NEW to, Steps(p, from, to),
         to = "save" => call'[p].profile.active
  PROVE  Began'
  BY DEF Began, Steps, Moves, At

\* A step inside of a join or a disconnect, or outside of them.
LEMMA ApartKept ==
  ASSUME Apart, NEW p \in Calls, NEW from, NEW to, Steps(p, from, to), UNCHANGED connected,
         \A places \in {Joining, Entered, {"close"}, Closing} : to \in places => from \in places
  PROVE  Apart'
  <1>1. \A q \in Calls : \A places \in {Joining, Entered, {"close"}, Closing} :
          call'[q].at \in places => call[q].at \in places
    BY DEF Steps, Moves
  <1>2. \A q \in Calls : /\ InJoin(q)' => InJoin(q)
                         /\ At(q, "close")' => At(q, "close")
                         /\ call'[q].at \in Disconnecting => call[q].at \in Disconnecting
                         /\ call'[q].at \in Closing => call[q].at \in Closing
                         /\ call'[q].at \in Joining => call[q].at \in Joining
                         /\ call'[q].at \in Entered => call[q].at \in Entered
    BY <1>1 DEF InJoin, At, Disconnecting, Closing, Entered
  <1> QED  BY <1>2 DEF Apart

LEMMA KnownKept ==
  ASSUME Known, NEW p \in Calls, NEW from, NEW to, Steps(p, from, to), UNCHANGED connected,
         Began, from \in {"profile", "save"} => to \in {"profile", "save"},
         connected # Absent =>
           /\ cachedFor \subseteq cachedFor' /\ cachedFor' \subseteq BothNames
           /\ \/ record' = record
              \/ record' # Absent /\ (record'.active \/ call'[p].kind = "auto")
  PROVE  Known'
  <1>1. \A q \in Calls : call[q].at \in {"profile", "save"} => call'[q].at \in {"profile", "save"}
    BY DEF Steps, Moves
  <1>2. \A q \in Calls : call[q].kind = "auto" => call'[q].kind = "auto"
    BY DEF Steps, Moves, Began, At
  <1> QED  BY <1>1, <1>2 DEF Known

LEMMA LeftKept ==
  ASSUME Left, NEW p \in Calls, NEW from, NEW to, Steps(p, from, to),
         \/ connected' # Absent
         \/ record' = Absent
         \/ ~record'.active
         \/ Pending(to)
         \/ UNCHANGED <<connected, record, manager>> /\ ~Pending(from)
  PROVE  Left'
  <1>1. CASE Pending(to)
    <2>1. Pending(call'[p].at)  BY <1>1 DEF Steps, Moves
    <2> QED  BY <2>1 DEF Left
  <1>2. CASE UNCHANGED <<connected, record, manager>> /\ ~Pending(from)
    <2>1. \A q \in Calls : Pending(call[q].at) => Pending(call'[q].at)  BY <1>2 DEF Steps, Moves
    <2> QED  BY <1>2, <2>1 DEF Left
  <1>3. CASE connected' # Absent \/ record' = Absent \/ ~record'.active  BY <1>3 DEF Left
  <1> QED  BY <1>1, <1>2, <1>3

\* How the kinds of step move a call.
LEMMA GoSteps ==
  ASSUME CallsTyped, NEW p \in Calls, NEW from \in Places, NEW to \in Places, At(p, from), Go(p, to),
         to # "idle", crossed \subseteq crossed'
  PROVE  Steps(p, from, to)
  BY GoMoves, GoTyped DEF Steps

LEMMA IdleSteps ==
  ASSUME CallsTyped, NEW p \in Calls, NEW kind, NEW to \in Places, At(p, "idle"), to # "idle",
         crossed \subseteq crossed',
         \/ call' = [call EXCEPT ![p].kind = kind, ![p].at = to]
         \/ \E stored : call' = [call EXCEPT ![p].kind = kind, ![p].at = to, ![p].stored = stored]
         \/ \E using : call' = [call EXCEPT ![p].kind = kind, ![p].at = to, ![p].using = using]
  PROVE  Steps(p, "idle", to)
  <1>1. call \in [Calls -> CallRecord] /\ call[p] \in CallRecord  BY DEF CallsTyped
  <1> QED  BY <1>1 DEF Steps, Moves, At, CallRecord

LEMMA CarrySteps ==
  ASSUME CallsTyped, NEW p \in Calls, NEW from \in Places, NEW to \in Places, At(p, from), to # "idle",
         crossed \subseteq crossed',
         \/ \E stored : call' = [call EXCEPT ![p].at = to, ![p].stored = stored]
         \/ \E profile : call' = [call EXCEPT ![p].at = to, ![p].profile = profile]
  PROVE  Steps(p, from, to)
  <1>1. call \in [Calls -> CallRecord] /\ call[p] \in CallRecord  BY DEF CallsTyped
  <1> QED  BY <1>1 DEF Steps, Moves, At, CallRecord

\* A step that leaves the table, the profile and the managers alone.
LEMMA QuietAgreed ==
  ASSUME Agreed, NEW p \in Calls, NEW from, NEW to, Steps(p, from, to),
         UNCHANGED <<connected, record>>,
         from \notin Joining \cup Entered \cup Disconnecting,
         to \notin Joining \cup Entered \cup Disconnecting,
         Pending(from) => connected # Absent \/ Pending(to),
         UNCHANGED manager \/ Pending(to),
         connected # Absent => cachedFor \subseteq cachedFor' /\ cachedFor' \subseteq BothNames
  PROVE  Agreed'
  <1>1. Began'  BY BeganKept DEF Agreed, Entered
  <1>2. ASSUME crossed' = {} PROVE Apart' /\ Known' /\ Left'
    <2>1. Apart /\ Known /\ Left /\ Began  BY <1>2 DEF Steps, Agreed
    <2>2. Apart'  BY <2>1, ApartKept DEF Closing, Disconnecting
    <2>3. Known'  BY <2>1, KnownKept DEF Entered
    <2>4. Left'  BY <2>1, LeftKept
    <2> QED  BY <2>2, <2>3, <2>4
  <1> QED  BY <1>1, <1>2 DEF Agreed

LEMMA OutsideAgreed ==
  ASSUME CallsTyped, Agreed, NEW p \in Calls,
         \/ AutoConnect(p) \/ ConnectStored(p) \/ FetchMirror(p) \/ Join(p)
         \/ AskMembers(p) \/ MembersRead(p)
  PROVE  Agreed'
  <1> USE DEF Joining, Entered, Disconnecting, Pending
  <1>1. CASE AutoConnect(p)
    <2>1. Steps(p, "idle", "connect")  BY <1>1, IdleSteps DEF AutoConnect, Places
    <2> QED  BY <1>1, <2>1, QuietAgreed DEF AutoConnect, CallsTyped
  <1>2. CASE ConnectStored(p)
    <2>1. Steps(p, "connect", "end") \/ Steps(p, "connect", "writer")
      BY <1>2, GoSteps DEF ConnectStored, Places
    <2> QED  BY <1>2, <2>1, QuietAgreed DEF ConnectStored, CallsTyped
  <1>3. CASE FetchMirror(p)
    <2>1. Steps(p, "mirror", "check")  BY <1>3, CarrySteps DEF FetchMirror, Places
    <2> QED  BY <1>3, <2>1, QuietAgreed DEF FetchMirror, CallsTyped
  <1>4. CASE Join(p)
    <2>1. Steps(p, "idle", "check")  BY <1>4, IdleSteps DEF Join, Begin, Places
    <2> QED  BY <1>4, <2>1, QuietAgreed DEF Join, CallsTyped
  <1>5. CASE AskMembers(p)
    <2>1. Steps(p, "idle", "reading")  BY <1>5, IdleSteps DEF AskMembers, Places
    <2> QED  BY <1>5, <2>1, QuietAgreed DEF AskMembers, CallsTyped
  <1>6. CASE MembersRead(p)
    <2>1. Steps(p, "reading", "end")  BY <1>6, GoSteps DEF MembersRead, Places
    <2> QED  BY <1>6, <2>1, QuietAgreed DEF MembersRead, CallsTyped
  <1> QED  BY <1>1, <1>2, <1>3, <1>4, <1>5, <1>6

\* A profile saved as it was read before is that of a call that goes on to join.
LEMMA RecoverWriterAgreed ==
  ASSUME CallsTyped, CallsAreNot, Agreed, NEW p \in Calls, RecoverWriter(p)
  PROVE  Agreed'
  <1>1. Steps(p, "writer", "mirror")  BY CarrySteps DEF RecoverWriter, Places
  <1>2. call[p].kind = "auto" /\ call[p].stored \in Profiles
    BY DEF CallsTyped, Carries, RecoverWriter, At
  <1>3. call'[p].kind = "auto"  BY <1>1, <1>2 DEF Steps
  <1>4. record' = record \/ record' # Absent
    <2>1. PICK found \in BOOLEAN :
            record' = IF found THEN [call[p].stored EXCEPT !.writer = @ \/ found] ELSE record
      BY DEF RecoverWriter
    <2>2. [call[p].stored EXCEPT !.writer = @ \/ found] \in Profiles  BY <1>2 DEF Profiles
    <2> QED  BY <2>1, <2>2 DEF CallsAreNot
  <1>5. UNCHANGED <<connected, manager, cachedFor>>  BY DEF RecoverWriter
  <1>6. Began'  BY <1>1, BeganKept DEF Agreed
  <1>7. ASSUME crossed' = {} PROVE Apart' /\ Known' /\ Left'
    <2>1. Apart /\ Known /\ Left /\ Began  BY <1>1, <1>7 DEF Steps, Agreed
    <2>2. Apart'
      BY <1>1, <1>5, <2>1, ApartKept DEF Closing, Disconnecting, Joining, Entered
    <2>3. Known'  BY <1>1, <1>3, <1>4, <1>5, <2>1, KnownKept DEF CallsTyped
    <2>4. Left'  BY <1>1, <2>1, LeftKept DEF Pending
    <2> QED  BY <2>2, <2>3, <2>4
  <1> QED  BY <1>6, <1>7 DEF Agreed

LEMMA JoiningAgreed ==
  ASSUME CallsTyped, CallsAreNot, Agreed, NEW p \in Calls,
         NewManager(p) \/ TakeLock(p) \/ Opened(p)
  PROVE  Agreed'
  <1>1. PICK from \in Joining, to \in Joining : Steps(p, from, to)
    BY GoSteps DEF NewManager, TakeLock, Opened, Places, Joining
  <1>2. UNCHANGED <<connected, cachedFor, record>>  BY DEF NewManager, TakeLock, Opened
  <1>3. from \notin Entered \cup Disconnecting /\ to \notin Entered \cup Disconnecting
    BY DEF Joining, Entered, Disconnecting
  <1>4. Began'  BY <1>1, <1>3, BeganKept DEF Agreed, Entered
  <1>5. ASSUME crossed' = {} PROVE Apart' /\ Known' /\ Left'
    <2>1. Apart /\ Known /\ Left /\ Began  BY <1>1, <1>5 DEF Steps, Agreed
    <2>2. Apart'  BY <1>1, <1>2, <1>3, <2>1, ApartKept DEF Closing, Disconnecting
    <2>3. Known'  BY <1>1, <1>2, <1>3, <2>1, KnownKept DEF Entered, CallsTyped
    <2>4. Left'  BY <1>1, <2>1, LeftKept DEF Pending
    <2> QED  BY <2>2, <2>3, <2>4
  <1> QED  BY <1>4, <1>5 DEF Agreed

\* What comes together is noted.
LEMMA NotedSome ==
  ASSUME NEW mark, NEW S, crossed' = {}, {mark : q \in S} \subseteq crossed'
  PROVE  S = {}
  <1> SUFFICES ASSUME NEW q \in S PROVE FALSE
    OBVIOUS
  <1>1. mark \in {mark : r \in S}  OBVIOUS
  <1> QED  BY <1>1

\* A join that finds the table empty is the only one, and no call disconnects.
LEMMA CheckActiveAgreed ==
  ASSUME CallsTyped, CallsAreNot, Agreed, NEW p \in Calls, CheckActive(p)
  PROVE  Agreed'
  <1>1. UNCHANGED <<connected, manager, cachedFor, record>>  BY DEF CheckActive
  <1>2. CASE connected # Absent
    <2>1. Steps(p, "check", "end")  BY <1>2, GoSteps DEF CheckActive, Places
    <2> QED
      BY <1>1, <1>2, <2>1, QuietAgreed DEF Pending, Joining, Entered, Disconnecting, CallsTyped
  <1>3. CASE connected = Absent
    <2>1. Steps(p, "check", "create")  BY <1>3, GoSteps DEF CheckActive, Places
    <2>2. Began'  BY <2>1, BeganKept DEF Agreed
    <2>3. ASSUME crossed' = {} PROVE Apart' /\ Known' /\ Left'
      <3>1. Apart /\ Known /\ Left /\ Began  BY <2>1, <2>3 DEF Steps, Agreed
      <3>2. {q \in Calls \ {p} : call[q].at \in Joining} = {}
        BY <1>3, <2>3, NotedSome DEF CheckActive
      <3>3. {q \in Calls \ {p} : call[q].at \in Disconnecting} = {}
        BY <1>3, <2>3, NotedSome DEF CheckActive
      <3>4. \A q \in Calls \ {p} : call[q].at \notin Joining \cup Entered \cup Disconnecting
        BY <1>3, <3>1, <3>2, <3>3 DEF Apart, CallsAreNot
      <3>5. \A q \in Calls \ {p} : call'[q] = call[q]  BY <2>1 DEF Steps, Moves
      <3>6. call'[p].at = "create"  BY <2>1 DEF Steps, Moves
      <3>7. Apart'
        BY <1>1, <1>3, <3>4, <3>5, <3>6
        DEF Apart, InJoin, At, Joining, Entered, Disconnecting, Closing
      <3>8. Known'  BY <1>1, <1>3 DEF Known
      <3>9. Left'  BY <2>1, <3>1, LeftKept DEF Pending, Joining
      <3> QED  BY <3>7, <3>8, <3>9
    <2> QED  BY <2>2, <2>3 DEF Agreed
  <1> QED  BY <1>2, <1>3

\* The join enters its manager, which no call had done.
LEMMA RegisterAgreed ==
  ASSUME CallsTyped, CallsAreNot, Agreed, NEW p \in Calls, Register(p)
  PROVE  Agreed'
  <1>1. Steps(p, "opened", "profile")  BY GoSteps DEF Register, Places
  <1>2. connected' = p /\ p # Absent /\ UNCHANGED <<manager, cachedFor, record>>
    BY DEF Register, CallsAreNot
  <1>3. Began'  BY <1>1, BeganKept DEF Agreed
  <1>4. ASSUME crossed' = {} PROVE Apart' /\ Known' /\ Left'
    <2>1. Apart  BY <1>1, <1>4 DEF Steps, Agreed
    <2>2. InJoin(p)  BY <1>1 DEF Steps, Moves, InJoin, Joining
    <2>3. \A q \in Calls \ {p} : ~InJoin(q) /\ call[q].at \notin Disconnecting
      BY <2>1, <2>2 DEF Apart
    <2>4. \A q \in Calls \ {p} : call'[q] = call[q]  BY <1>1 DEF Steps, Moves
    <2>5. call'[p].at = "profile"  BY <1>1 DEF Steps, Moves
    <2>6. Apart'
      BY <1>2, <2>3, <2>4, <2>5 DEF Apart, InJoin, At, Joining, Entered, Disconnecting, Closing
    <2>7. Known'  BY <2>5 DEF Known
    <2>8. Left'  BY <1>2 DEF Left
    <2> QED  BY <2>6, <2>7, <2>8
  <1> QED  BY <1>3, <1>4 DEF Agreed

\* The join's profile is active, and the one that a stored relay saves is that
\* of a call of autoConnectStoredRelays.
LEMMA EnteredAgreed ==
  ASSUME CallsTyped, CallsAreNot, Agreed, NEW p \in Calls,
         ReadProfile(p) \/ SaveJoined(p) \/ SaveStored(p)
  PROVE  Agreed'
  <1>1. UNCHANGED <<connected, manager>>  BY DEF ReadProfile, SaveJoined, SaveStored
  <1>2. PICK from \in Entered, to \in {"save", "stored", "end"} :
          /\ Steps(p, from, to)
          /\ to = "save" => call'[p].profile.active
          /\ from = "profile" => to = "save"
    <2>1. CASE ReadProfile(p)
      <3>1. Steps(p, "profile", "save")  BY <2>1, CarrySteps DEF ReadProfile, Places
      <3>2. PICK given : call' = [call EXCEPT ![p].at = "save", ![p].profile = [active |-> TRUE, writer |-> given]]
        BY <2>1 DEF ReadProfile
      <3>3. call[p] \in CallRecord  BY DEF CallsTyped
      <3>4. call'[p].profile.active  BY <3>2, <3>3 DEF CallsTyped, CallRecord
      <3> QED  BY <3>1, <3>4 DEF Entered
    <2>2. CASE SaveJoined(p)
      <3>1. Steps(p, "save", "stored") \/ Steps(p, "save", "end")
        BY <2>2, GoSteps DEF SaveJoined, Places
      <3> QED  BY <3>1 DEF Entered
    <2>3. CASE SaveStored(p)
      <3>1. Steps(p, "stored", "end")  BY <2>3, GoSteps DEF SaveStored, Places
      <3> QED  BY <3>1 DEF Entered
    <2> QED  BY <2>1, <2>2, <2>3
  <1>3. Began'  BY <1>2, BeganKept DEF Agreed
  <1>4. ASSUME crossed' = {} PROVE Apart' /\ Known' /\ Left'
    <2>1. Apart /\ Known /\ Left /\ Began  BY <1>2, <1>4 DEF Steps, Agreed
    <2>2. connected = p /\ p # Absent  BY <1>2, <2>1 DEF Steps, Moves, Apart, CallsAreNot
    <2>3. Apart'
      BY <1>1, <1>2, <2>1, ApartKept DEF Closing, Disconnecting, Joining, Entered
    <2>4. Left'  BY <1>1, <2>2 DEF Left
    <2>5. Known'
      <3>1. CASE ReadProfile(p)
        <4>1. from = "profile" /\ to = "save" /\ UNCHANGED <<cachedFor, record>>
          BY <1>2, <3>1 DEF ReadProfile, Steps, Moves, At
        <4> QED  BY <1>1, <1>2, <2>1, <4>1, KnownKept DEF CallsTyped
      <3>2. CASE SaveJoined(p)
        <4>1. At(p, "save") /\ record' = call[p].profile /\ cachedFor' = BothNames
          BY <3>2 DEF SaveJoined
        <4>2. record' \in Profiles /\ record'.active
          BY <2>1, <4>1 DEF CallsTyped, Carries, Began, At
        <4> QED  BY <4>1, <4>2 DEF Known, CallsAreNot
      <3>3. CASE SaveStored(p)
        <4>1. from = "stored" /\ UNCHANGED cachedFor /\ record' = call[p].stored
          BY <1>2, <3>3 DEF SaveStored, Steps, Moves, At
        <4>2. record' \in Profiles /\ call[p].kind = "auto"
          BY <3>3, <4>1 DEF CallsTyped, Carries, SaveStored, At
        <4>3. call'[p].kind = "auto"  BY <1>2, <4>1, <4>2 DEF Steps
        <4> QED  BY <1>1, <1>2, <2>1, <4>1, <4>2, <4>3, KnownKept DEF CallsTyped, CallsAreNot
      <3> QED  BY <3>1, <3>2, <3>3
    <2> QED  BY <2>3, <2>4, <2>5
  <1> QED  BY <1>3, <1>4 DEF Agreed

\* A call that disconnects is the only one, and no call joins.
LEMMA DisconnectAgreed ==
  ASSUME CallsTyped, CallsAreNot, Agreed, NEW p \in Calls, Disconnect(p)
  PROVE  Agreed'
  <1>1. connected # Absent /\ UNCHANGED <<connected, manager, cachedFor, record>>
    BY DEF Disconnect
  <1>2. crossed \subseteq crossed'  BY DEF Disconnect
  <1>3. Steps(p, "idle", "close")  BY <1>2, IdleSteps DEF Disconnect, Places
  <1>4. Began'  BY <1>3, BeganKept DEF Agreed
  <1>5. ASSUME crossed' = {} PROVE Apart' /\ Known' /\ Left'
    <2>1. Apart /\ Known /\ Left /\ Began  BY <1>3, <1>5 DEF Steps, Agreed
    <2>2. {q \in Calls \ {p} : InJoin(q) \/ call[q].at \in Disconnecting} = {}
      BY <1>5, NotedSome DEF Disconnect
    <2>3. \A q \in Calls \ {p} : ~InJoin(q) /\ call[q].at \notin Disconnecting  BY <2>2
    <2>4. \A q \in Calls \ {p} : call'[q] = call[q]  BY <1>3 DEF Steps, Moves
    <2>5. call'[p].at = "close"  BY <1>3 DEF Steps, Moves
    <2>6. Apart'
      BY <1>1, <2>3, <2>4, <2>5 DEF Apart, InJoin, At, Joining, Entered, Disconnecting, Closing
    <2>7. Known'  BY <1>1, <1>3, <2>1, KnownKept DEF CallsTyped
    <2>8. Left'  BY <1>1 DEF Left
    <2> QED  BY <2>6, <2>7, <2>8
  <1> QED  BY <1>4, <1>5 DEF Agreed

LEMMA LeaveClosedAgreed ==
  ASSUME CallsTyped, Agreed, NEW p \in Calls, LeaveClosed(p)
  PROVE  Agreed'
  <1>1. connected = Absent /\ UNCHANGED <<connected, manager, cachedFor, record>>
    BY DEF LeaveClosed
  <1>2. Steps(p, "idle", "remove")  BY IdleSteps DEF LeaveClosed, Begin, Places
  <1>3. Began'  BY <1>2, BeganKept DEF Agreed
  <1>4. ASSUME crossed' = {} PROVE Apart' /\ Known' /\ Left'
    <2>1. Apart /\ Left  BY <1>2, <1>4 DEF Steps, Agreed
    <2>2. {q \in Calls \ {p} : InJoin(q)} = {}  BY <1>4, NotedSome DEF LeaveClosed
    <2>3. \A q \in Calls \ {p} : ~InJoin(q)  BY <2>2
    <2>4. \A q \in Calls \ {p} : call'[q] = call[q]  BY <1>2 DEF Steps, Moves
    <2>5. call'[p].at = "remove"  BY <1>2 DEF Steps, Moves
    <2>6. Apart'
      BY <1>1, <2>1, <2>3, <2>4, <2>5 DEF Apart, InJoin, At, Joining, Entered, Disconnecting, Closing
    <2>7. Known'  BY <1>1 DEF Known
    <2>8. Left'  BY <1>2, <2>1, LeftKept DEF Pending
    <2> QED  BY <2>6, <2>7, <2>8
  <1> QED  BY <1>3, <1>4 DEF Agreed

\* The steps of a disconnect: the relay is out of the table, and its profile is
\* marked or removed.
LEMMA ClosingAgreed ==
  ASSUME CallsTyped, CallsAreNot, Agreed, NEW p \in Calls,
         Closed(p) \/ ReadClosed(p) \/ MarkInactive(p) \/ RemoveProfile(p)
  PROVE  Agreed'
  <1>1. PICK from \in Disconnecting, to \in Closing \cup {"end"} : Steps(p, from, to) /\ to # from
    <2>1. CASE Closed(p)
      <3>1. Steps(p, "close", "read")  BY <2>1, GoSteps DEF Closed, Places
      <3> QED  BY <3>1 DEF Disconnecting, Closing
    <2>2. CASE ReadClosed(p)
      <3>1. \E to \in {"mark", "remove", "end"} : Steps(p, "read", to)
        BY <2>2, GoSteps, CarrySteps DEF ReadClosed, Last, Places
      <3> QED  BY <3>1 DEF Disconnecting, Closing
    <2>3. CASE MarkInactive(p)
      <3>1. \E to \in {"remove", "end"} : Steps(p, "mark", to)
        BY <2>3, GoSteps DEF MarkInactive, Last, Places
      <3> QED  BY <3>1 DEF Disconnecting, Closing
    <2>4. CASE RemoveProfile(p)
      <3>1. Steps(p, "remove", "end")  BY <2>4, GoSteps DEF RemoveProfile, Places
      <3> QED  BY <3>1 DEF Disconnecting, Closing
    <2> QED  BY <2>1, <2>2, <2>3, <2>4
  <1>2. Began'  BY <1>1, BeganKept DEF Agreed, Closing, Disconnecting
  <1>3. ASSUME crossed' = {} PROVE Apart' /\ Known' /\ Left'
    <2>1. Apart /\ Known /\ Left /\ Began  BY <1>1, <1>3 DEF Steps, Agreed
    <2>2. \A q \in Calls : ~InJoin(q)
      <3>1. call[p].at \in Disconnecting  BY <1>1 DEF Steps, Moves
      <3> QED  BY <2>1, <3>1 DEF Apart
    <2>3. connected' = Absent
      <3>1. CASE Closed(p)  BY <3>1 DEF Closed
      <3>2. CASE ReadClosed(p) \/ MarkInactive(p) \/ RemoveProfile(p)
        <4>1. call[p].at \in Closing /\ UNCHANGED connected
          BY <3>2 DEF ReadClosed, MarkInactive, RemoveProfile, At, Closing, Disconnecting
        <4> QED  BY <2>1, <4>1 DEF Apart
      <3> QED  BY <3>1, <3>2
    <2>4. \A q \in Calls \ {p} : call'[q] = call[q] /\ call'[p].at = to /\ call[p].at = from
      BY <1>1 DEF Steps, Moves
    <2>5. \A q \in Calls : call'[q].at # "close"
      <3>1. CASE Closed(p)
        <4>1. \A q \in Calls \ {p} : call[q].at # "close"
          BY <2>1, <3>1 DEF Apart, Closed, At
        <4> QED  BY <1>1, <2>4, <4>1 DEF Closing, Disconnecting, Steps, Moves
      <3>2. CASE ReadClosed(p) \/ MarkInactive(p) \/ RemoveProfile(p)
        <4>1. connected = Absent
          BY <2>3, <3>2 DEF ReadClosed, MarkInactive, RemoveProfile
        <4>2. \A q \in Calls : call[q].at # "close"  BY <2>1, <4>1 DEF Apart, At
        <4> QED  BY <1>1, <2>4, <4>2 DEF Closing, Disconnecting, Steps, Moves
      <3> QED  BY <3>1, <3>2
    <2>6. \A q \in Calls : ~InJoin(q)'
      BY <1>1, <2>2, <2>4 DEF InJoin, Closing, Disconnecting, Joining, Steps, Moves
    <2>7. \A q \in Calls : call'[q].at \notin Joining \cup Entered
      BY <2>6 DEF InJoin, Entered
    <2>8. Apart'  BY <2>3, <2>5, <2>6, <2>7 DEF Apart, At
    <2>9. Known'  BY <2>3 DEF Known
    <2>10. Left'
      <3>1. CASE Closed(p)
        <4>1. Steps(p, "close", "read")  BY <3>1, GoSteps DEF Closed, Places
        <4> QED  BY <2>1, <4>1, LeftKept DEF Pending
      <3>2. CASE ReadClosed(p)
        <4>1. CASE record = Absent  BY <3>2, <4>1 DEF ReadClosed, Left
        <4>2. CASE record # Absent
          <5>1. Steps(p, "read", "mark")  BY <3>2, <4>2, CarrySteps DEF ReadClosed, Places
          <5> QED  BY <2>1, <5>1, LeftKept DEF Pending
        <4> QED  BY <4>1, <4>2
      <3>3. CASE MarkInactive(p)
        <4>1. call[p].profile \in Profiles  BY <3>3 DEF CallsTyped, Carries, MarkInactive, At
        <4>2. ~record'.active  BY <3>3, <4>1 DEF MarkInactive, Profiles
        <4> QED  BY <4>2 DEF Left
      <3>4. CASE RemoveProfile(p)  BY <3>4 DEF RemoveProfile, Left
      <3> QED  BY <3>1, <3>2, <3>3, <3>4
    <2> QED  BY <2>8, <2>9, <2>10
  <1> QED  BY <1>2, <1>3 DEF Agreed

\* A failure is noted, after which nothing is said.
LEMMA FailureAgreed ==
  ASSUME CallsTyped, Agreed, NEW p \in Calls,
         ConnectThrows(p) \/ OpenFails(p) \/ SaveFails(p) \/ CloseFails(p)
  PROVE  Agreed'
  <1>1. crossed' # {}  BY DEF ConnectThrows, OpenFails, SaveFails, CloseFails
  <1>2. crossed \subseteq crossed'  BY DEF ConnectThrows, OpenFails, SaveFails, CloseFails
  <1>3. \E from \in Places : At(p, from) /\ (Go(p, "end") \/ Go(p, "remove"))
    BY DEF ConnectThrows, OpenFails, SaveFails, CloseFails, Last, At, Places
  <1>4. \E from \in Places, to \in {"end", "remove"} : Steps(p, from, to)
    BY <1>2, <1>3, GoSteps DEF Places
  <1>5. Began'  BY <1>4, BeganKept DEF Agreed
  <1> QED  BY <1>1, <1>5 DEF Agreed

LEMMA StepAgreed ==
  ASSUME CallsAreNot, CallsTyped, Agreed, [ActiveNext]_activeVars
  PROVE  Agreed'
  <1>1. CASE UNCHANGED activeVars
    BY <1>1
    DEF activeVars, Agreed, Began, Apart, Known, Left, InJoin, At
  <1>2. CASE ActiveNext
    BY <1>2, OutsideAgreed, RecoverWriterAgreed, JoiningAgreed, CheckActiveAgreed, RegisterAgreed,
       EnteredAgreed, DisconnectAgreed, LeaveClosedAgreed, ClosingAgreed, FailureAgreed
    DEF ActiveNext
  <1> QED  BY <1>1, <1>2

(* However many calls there are, when none runs: a connected relay has its    *)
(* members under both names and a profile, active unless autoConnectStoredRelays *)
(* connected it, and a relay that was disconnected is not active in its profile *)
(* (activeRelays, relayMembers and the profiles of the adapter), but for calls *)
(* that failed or came together.                                              *)
THEOREM TableIsRight ==
  ASSUME CallsAreNot
  PROVE  ActiveSpec => []TableAgrees
  <1>1. ActiveInit => CallsTyped /\ Agreed  BY InitTyped, InitAgreed
  <1>2. CallsTyped /\ Agreed /\ [ActiveNext]_activeVars => (CallsTyped /\ Agreed)'  BY StepTyped, StepAgreed
  <1>3. Agreed => TableAgrees
    <2> SUFFICES ASSUME Agreed, crossed = {}, \A p \in Calls : call[p].at \in {"idle", "end"}
                 PROVE  /\ connected # Absent =>
                             /\ cachedFor = BothNames /\ record # Absent
                             /\ ~record.active => \E p \in Calls : call[p].kind = "auto"
                        /\ connected = Absent /\ record # Absent /\ record.active =>
                             \A x \in Managers : manager[x] # "closed"
      BY DEF TableAgrees
    <2>1. Known /\ Left  BY DEF Agreed
    <2>2. \A p \in Calls : call[p].at \notin {"profile", "save"} /\ ~Pending(call[p].at)
      BY DEF Pending, Joining
    <2> QED  BY <2>1, <2>2 DEF Known, Left
  <1> QED  BY <1>1, <1>2, <1>3, PTL DEF ActiveSpec

-----------------------------------------------------------------------------
(* The queue of writers                                                       *)

\* The writers of a call were handled, put off, or are still to be tried.
Settled == written \cup broken
Handles(c, refs, known) == refs \subseteq c.rest \cup c.deferred \cup known
Handled == \A j \in Sync : work[j] # Idle => Handles(work[j], work[j].refs, Settled)

\* So are those that wait while a flush is at work.
FlushHandles == Flushing => Handles(work["flush"], waiting, Settled)

QueueInv ==
  /\ work \in [Job -> WorkStates \cup {Idle}] /\ queued \subseteq Ref
  /\ SyncedIsWritten /\ QueuedIsKept /\ QueueIsServed /\ Handled /\ FlushHandles

LEMMA QueueStart ==
  ASSUME QueueInit
  PROVE  QueueInv
  BY DEF QueueInit, QueueInv, SyncedIsWritten, QueuedIsKept, QueueIsServed, Handled, FlushHandles,
         Flushing, Job

\* No state of a call is that of one that does not run.
LEMMA IdleIsNone ==
  /\ Idle \notin WorkStates
  /\ "flush" \in Job
  /\ \A c \in WorkStates \cup {Idle} : c # Idle => c \in WorkStates
  BY DEF Idle, WorkStates, Job

\* What a call's step may do to the writers: none is lost, and its own are
\* still handled.
LEMMA CallKeeps ==
  ASSUME QueueInv, NEW j \in Job, NEW c \in WorkStates \cup {Idle},
         work' = [work EXCEPT ![j] = c],
         written \subseteq written', broken \subseteq broken', UNCHANGED <<queued, looping, waiting>>,
         synced' \subseteq synced \cup written' \cup broken',
         j \in Sync /\ c # Idle => Handles(c, c.refs, Settled'),
         j = "flush" /\ c # Idle => Handles(c, waiting', Settled')
  PROVE  QueueInv'
  <1> USE DEF QueueInv
  <1>1. /\ work' \in [Job -> WorkStates \cup {Idle}] /\ work'[j] = c
        /\ \A i \in Job : i # j => work'[i] = work[i]
    OBVIOUS
  <1>2. Handled'
    <2> SUFFICES ASSUME NEW i \in Sync, work'[i] # Idle PROVE Handles(work'[i], work'[i].refs, Settled')
      BY DEF Handled
    <2>1. CASE i = j  BY <1>1, <2>1
    <2>2. CASE i # j
      <3>1. work'[i] = work[i]  BY <1>1, <2>2 DEF Job
      <3>2. Handles(work[i], work[i].refs, Settled)  BY <3>1 DEF Handled
      <3> QED  BY <3>1, <3>2 DEF Handles, Settled
    <2> QED  BY <2>1, <2>2
  <1>3. FlushHandles'
    <2> SUFFICES ASSUME work'["flush"] # Idle PROVE Handles(work'["flush"], waiting', Settled')
      BY DEF FlushHandles, Flushing
    <2>1. CASE "flush" = j  BY <1>1, <2>1
    <2>2. CASE "flush" # j
      <3>1. work'["flush"] = work["flush"]  BY <1>1, <2>2, IdleIsNone
      <3>2. Handles(work["flush"], waiting, Settled)  BY <3>1 DEF FlushHandles, Flushing
      <3> QED  BY <3>1, <3>2 DEF Handles, Settled
    <2> QED  BY <2>1, <2>2
  <1> QED  BY <1>1, <1>2, <1>3 DEF SyncedIsWritten, QueuedIsKept, QueueIsServed

\* A step that leaves the calls alone and takes no writer from the queue that
\* waits there, unless it is handled.
LEMMA OthersKeep ==
  ASSUME QueueInv, UNCHANGED work, written \subseteq written', broken \subseteq broken',
         queued' \subseteq Ref, waiting' \subseteq waiting, waiting' \subseteq queued' \cup written \cup broken,
         synced' \subseteq synced, queued' # {} => looping'
  PROVE  QueueInv'
  BY DEF QueueInv, Handles, Settled, Handled, FlushHandles, Flushing, SyncedIsWritten, QueuedIsKept, QueueIsServed

\* A flush begins with all that waits.
LEMMA TriggerKeeps ==
  ASSUME QueueInv, NEW timer, Trigger(timer), UNCHANGED <<written, broken, synced>>
  PROVE  QueueInv'
  <1> USE DEF QueueInv
  <1> DEFINE c == [at |-> "add", tries |-> FALSE, mirror |-> FALSE, stale |-> FALSE,
                   refs |-> {}, rest |-> queued, deferred |-> {}]
  <1>1. UNCHANGED <<queued, looping, waiting>>  BY DEF Trigger
  <1>2. UNCHANGED work \/ work' = [work EXCEPT !["flush"] = c]  BY DEF Trigger
  <1>3. CASE UNCHANGED work
    BY <1>1, <1>3, OthersKeep DEF QueuedIsKept, QueueIsServed
  <1>4. CASE work' = [work EXCEPT !["flush"] = c]
    <2>1. c \in WorkStates /\ c.rest = queued  BY DEF WorkStates
    <2>2. Handles(c, waiting', Settled')  BY <1>1, <2>1 DEF Handles, Settled, QueuedIsKept
    <2>3. Handles(c, c.refs, Settled')  BY DEF Handles, Settled
    <2> HIDE DEF c
    <2> QED  BY <1>1, <1>4, <2>1, <2>2, <2>3, IdleIsNone, CallKeeps
  <1> QED  BY <1>2, <1>3, <1>4

LEMMA SyncStartsKeeps ==
  ASSUME QueueInv, QueueAssumption, NEW j \in Sync, NEW kind \in Reasons, NEW refs \in Batches,
         SyncStarts(j, kind, refs)
  PROVE  QueueInv'
  <1> DEFINE c == [at |-> "prepare", tries |-> kind \in Tries, mirror |-> kind \notin Fast \/ mirrored = refs,
                   stale |-> FALSE, refs |-> refs, rest |-> refs, deferred |-> {}]
  <1>1. c \in WorkStates /\ c.refs = refs /\ c.rest = refs  BY DEF WorkStates, QueueAssumption
  <1>2. /\ work' = [work EXCEPT ![j] = c]
        /\ UNCHANGED <<written, queued, looping, waiting, synced, broken>>
    BY DEF SyncStarts, served
  <1>3. Handles(c, c.refs, Settled')  BY <1>1 DEF Handles, Settled
  <1>4. j \in Job /\ j # "flush"  BY DEF Job, QueueAssumption
  <1> HIDE DEF c
  <1> QED  BY <1>1, <1>2, <1>3, <1>4, CallKeeps

\* A sync ends: writers that are put in the queue wait there, unless a flush
\* is at work.
LEMMA SyncQueues ==
  ASSUME QueueInv, QueueAssumption, NEW j \in Sync, NEW refs \in SUBSET Ref, NEW stale,
         Queue(refs, stale), Done(j), UNCHANGED <<written, broken>>,
         synced' \subseteq synced \cup written' \cup broken'
  PROVE  QueueInv'
  <1> USE DEF QueueInv
  <1>1. j \in Job /\ j # "flush" /\ "flush" \in Job  BY DEF Job, QueueAssumption
  <1>2. /\ work' \in [Job -> WorkStates \cup {Idle}] /\ work'[j] = Idle
        /\ \A i \in Job : i # j => work'[i] = work[i]
    BY <1>1 DEF Done
  <1>3. queued' = queued \cup refs /\ looping'
        /\ waiting' = IF Flushing THEN waiting \ refs ELSE waiting \cup refs
    BY DEF Queue
  <1>4. Handled'  BY <1>2 DEF Handled, Handles, Settled, Job
  <1>5. FlushHandles'  BY <1>1, <1>2, <1>3 DEF FlushHandles, Flushing, Handles, Settled
  <1>6. QueuedIsKept'  BY <1>3 DEF QueuedIsKept
  <1> QED  BY <1>2, <1>3, <1>4, <1>5, <1>6 DEF SyncedIsWritten, QueueIsServed

LEMMA SyncEnsuresKeeps ==
  ASSUME QueueInv, QueueAssumption, NEW j \in Job, SyncEnsures(j)
  PROVE  QueueInv'
  <1>1. work[j] \in WorkStates /\ work[j].at = "prepare"  BY IdleIsNone DEF QueueInv, SyncEnsures
  <1>2. UNCHANGED <<written, synced, broken>>  BY DEF SyncEnsures
  <1>3. CASE Queue(work[j].refs, work[j].stale) /\ Done(j)
    <2>1. work[j].refs \in SUBSET Ref  BY <1>1 DEF WorkStates
    <2>2. CASE j \in Sync  BY <1>2, <1>3, <2>1, <2>2, SyncQueues
    <2>3. CASE j = "flush"
      <3> USE DEF QueueInv
      <3>1. /\ work' \in [Job -> WorkStates \cup {Idle}] /\ work'[j] = Idle
            /\ \A i \in Job : i # j => work'[i] = work[i]
        BY <1>3 DEF Done
      <3>2. queued' = queued \cup work[j].refs /\ looping' /\ waiting' \subseteq waiting \cup work[j].refs
        BY <1>3 DEF Queue
      <3>3. Handled'  BY <1>2, <2>3, <3>1 DEF Handled, Handles, Settled, Job
      <3>4. FlushHandles'  BY <2>3, <3>1 DEF FlushHandles, Flushing
      <3>5. QueuedIsKept'  BY <1>2, <3>2 DEF QueuedIsKept
      <3> QED  BY <1>2, <2>1, <3>1, <3>2, <3>3, <3>4, <3>5 DEF SyncedIsWritten, QueueIsServed
    <2> QED  BY <2>2, <2>3 DEF Job
  <1>4. CASE work' = [work EXCEPT ![j].at = "add", ![j].tries = FALSE] /\ UNCHANGED served
    <2> DEFINE c == [work[j] EXCEPT !.at = "add", !.tries = FALSE]
    <2>1. /\ c \in WorkStates /\ c.refs = work[j].refs /\ c.rest = work[j].rest
          /\ c.deferred = work[j].deferred
      BY <1>1 DEF WorkStates
    <2>2. work' = [work EXCEPT ![j] = c]  BY <1>1, <1>4 DEF QueueInv, WorkStates
    <2>3. UNCHANGED <<queued, looping, waiting>>  BY <1>4 DEF served
    <2>4. j \in Sync => Handles(c, c.refs, Settled')
      BY <1>1, <1>2, <2>1, IdleIsNone DEF QueueInv, Handled, Handles, Settled
    <2>5. j = "flush" => Handles(c, waiting', Settled')
      BY <1>1, <1>2, <2>1, <2>3, IdleIsNone DEF QueueInv, FlushHandles, Flushing, Handles, Settled
    <2> HIDE DEF c
    <2> QED  BY <1>2, <2>1, <2>2, <2>3, <2>4, <2>5, CallKeeps
  <1> QED  BY <1>3, <1>4 DEF SyncEnsures

\* A writer that was tried is written, refused or put off.
LEMMA AddWriterKeeps ==
  ASSUME QueueInv, NEW j \in Job, NEW r \in Ref, AddWriter(j, r)
  PROVE  QueueInv'
  <1> DEFINE done == [work[j] EXCEPT !.rest = @ \ {r}]
             late == [done EXCEPT !.deferred = @ \cup {r}]
  <1>1. work[j] \in WorkStates /\ r \in work[j].rest  BY IdleIsNone DEF QueueInv, AddWriter
  <1>2. /\ done \in WorkStates /\ done.refs = work[j].refs /\ done.rest = work[j].rest \ {r}
        /\ done.deferred = work[j].deferred
    BY <1>1 DEF WorkStates
  <1>3. /\ late \in WorkStates /\ late.refs = work[j].refs /\ late.rest = work[j].rest \ {r}
        /\ late.deferred = work[j].deferred \cup {r}
    BY <1>1, <1>2 DEF WorkStates
  <1>4. UNCHANGED <<queued, looping, waiting, synced>>  BY DEF AddWriter, served
  <1>5. \/ work' = [work EXCEPT ![j] = done] /\ r \in written' \cup broken'
        \/ work' = [work EXCEPT ![j] = late]
    BY DEF AddWriter
  <1>6. written \subseteq written' /\ broken \subseteq broken'  BY DEF AddWriter
  <1>7. j \in Sync => Handles(work[j], work[j].refs, Settled)
    BY <1>1, IdleIsNone DEF QueueInv, Handled
  <1>8. j = "flush" => Handles(work[j], waiting, Settled)
    BY <1>1, IdleIsNone DEF QueueInv, FlushHandles, Flushing
  <1> HIDE DEF done, late
  <1>9. PICK c \in {done, late} :
          /\ work' = [work EXCEPT ![j] = c] /\ c \in WorkStates /\ c.refs = work[j].refs
          /\ c.rest = work[j].rest \ {r}
          /\ work[j].deferred \subseteq c.deferred /\ r \in c.deferred \cup written' \cup broken'
    BY <1>2, <1>3, <1>5
  <1>10. j \in Sync => Handles(c, c.refs, Settled')  BY <1>6, <1>7, <1>9 DEF Handles, Settled
  <1>11. j = "flush" => Handles(c, waiting', Settled')  BY <1>4, <1>6, <1>8, <1>9 DEF Handles, Settled
  <1> QED  BY <1>4, <1>6, <1>9, <1>10, <1>11, CallKeeps

LEMMA WritersTriedKeeps ==
  ASSUME QueueInv, QueueAssumption, NEW j \in Job, WritersTried(j)
  PROVE  QueueInv'
  <1>1. work[j] \in WorkStates /\ work[j].rest = {} /\ Done(j) /\ UNCHANGED <<written, broken>>
    BY IdleIsNone DEF QueueInv, WritersTried
  <1>2. CASE j = "flush"
    <2> USE DEF QueueInv
    <2>1. queued' = {} /\ waiting' = waiting \ work[j].deferred /\ UNCHANGED synced
      BY <1>2 DEF WritersTried
    <2>2. /\ work' \in [Job -> WorkStates \cup {Idle}] /\ work'[j] = Idle
          /\ \A i \in Job : i # j => work'[i] = work[i]
      BY <1>1 DEF Done
    <2>3. Handles(work[j], waiting, Settled)
      BY <1>1, <1>2, IdleIsNone DEF FlushHandles, Flushing
    <2>4. QueuedIsKept'  BY <1>1, <2>1, <2>3 DEF QueuedIsKept, Handles, Settled
    <2>5. Handled'  BY <1>1, <1>2, <2>2 DEF Handled, Handles, Settled, Job
    <2>6. FlushHandles'  BY <1>2, <2>2 DEF FlushHandles, Flushing
    <2> QED  BY <1>1, <2>1, <2>2, <2>4, <2>5, <2>6 DEF SyncedIsWritten, QueueIsServed
  <1>3. CASE j # "flush"
    <2>1. j \in Sync /\ Notes(j)  BY <1>3 DEF Job, WritersTried
    <2>2. synced' \subseteq synced \cup written' \cup broken'
      <3>1. Handles(work[j], work[j].refs, Settled)  BY <1>1, <2>1, IdleIsNone DEF QueueInv, Handled
      <3> QED  BY <1>1, <2>1, <3>1 DEF Notes, Handles, Settled
    <2>3. CASE work[j].deferred = {}
      <3>1. UNCHANGED <<queued, looping, waiting>>  BY <1>3, <2>3 DEF WritersTried, served
      <3>2. work' = [work EXCEPT ![j] = Idle] /\ Idle \in WorkStates \cup {Idle}  BY <1>1 DEF Done
      <3> QED  BY <1>1, <1>3, <2>1, <2>2, <3>1, <3>2, CallKeeps
    <2>4. CASE work[j].deferred # {}
      <3>1. Queue(work[j].deferred, work[j].stale)  BY <1>3, <2>4 DEF WritersTried
      <3>2. work[j].deferred \in SUBSET Ref  BY <1>1 DEF WorkStates
      <3> QED  BY <1>1, <2>1, <2>2, <3>1, <3>2, SyncQueues
    <2> QED  BY <2>3, <2>4
  <1> QED  BY <1>2, <1>3

\* Calls whose relay was closed have the same writers.
LEMMA ClosesKeeps ==
  ASSUME QueueInv, Closes
  PROVE  QueueInv'
  <1> USE DEF QueueInv
  <1>1. UNCHANGED <<written, queued, looping, waiting, synced, broken>>  BY DEF Closes
  <1>2. work' = [j \in Job |-> IF work[j] = Idle THEN Idle ELSE [work[j] EXCEPT !.stale = TRUE]]
    BY DEF Closes
  <1>3. ASSUME NEW j \in Job, work[j] # Idle
        PROVE  /\ work'[j] \in WorkStates /\ work'[j].refs = work[j].refs
               /\ work'[j].rest = work[j].rest /\ work'[j].deferred = work[j].deferred
    <2>1. work[j] \in WorkStates  BY <1>3
    <2>2. work'[j] = [work[j] EXCEPT !.stale = TRUE]  BY <1>2, <1>3
    <2> QED  BY <2>1, <2>2 DEF WorkStates
  <1>4. \A j \in Job : work[j] = Idle => work'[j] = Idle  BY <1>2
  <1>5. work' \in [Job -> WorkStates \cup {Idle}]
    <2>1. \A j \in Job : work'[j] \in WorkStates \cup {Idle}  BY <1>3, <1>4
    <2> QED  BY <1>2, <2>1
  <1>6. Handled'
    <2> SUFFICES ASSUME NEW j \in Sync, work'[j] # Idle PROVE Handles(work'[j], work'[j].refs, Settled')
      BY DEF Handled
    <2>1. j \in Job /\ work[j] # Idle  BY <1>4 DEF Job
    <2>2. Handles(work[j], work[j].refs, Settled)  BY <2>1 DEF Handled
    <2> QED  BY <1>1, <1>3, <2>1, <2>2 DEF Handles, Settled
  <1>7. FlushHandles'
    <2> SUFFICES ASSUME work'["flush"] # Idle PROVE Handles(work'["flush"], waiting', Settled')
      BY DEF FlushHandles, Flushing
    <2>1. "flush" \in Job /\ work["flush"] # Idle  BY <1>4, IdleIsNone
    <2>2. Handles(work["flush"], waiting, Settled)  BY <2>1 DEF FlushHandles, Flushing
    <2> QED  BY <1>1, <1>3, <2>1, <2>2 DEF Handles, Settled
  <1> QED  BY <1>1, <1>5, <1>6, <1>7 DEF SyncedIsWritten, QueuedIsKept, QueueIsServed

LEMMA QueueSteps ==
  ASSUME QueueAssumption, QueueInv, [QueueNext]_queueVars
  PROVE  QueueInv'
  <1>1. CASE LoopTick
    <2>1. UNCHANGED <<written, broken, synced>>  BY <1>1 DEF LoopTick
    <2>2. CASE queued = {}
      <3>1. UNCHANGED <<queued, waiting, work>>  BY <1>1, <2>2 DEF LoopTick
      <3> QED  BY <2>1, <2>2, <3>1, OthersKeep DEF QueueInv, QueuedIsKept
    <2>3. CASE queued # {}  BY <1>1, <2>1, <2>3, TriggerKeeps DEF LoopTick
    <2> QED  BY <2>2, <2>3
  <1>2. CASE RelayEvent
    <2>1. UNCHANGED <<written, work, synced, broken>>  BY <1>2 DEF RelayEvent
    <2>2. UNCHANGED waiting /\ UNCHANGED queued /\ (queued # {} => UNCHANGED looping)
      BY <1>2 DEF RelayEvent, Serve
    <2> QED  BY <2>1, <2>2, OthersKeep DEF QueueInv, QueuedIsKept, QueueIsServed
  <1>3. CASE DebounceFires  BY <1>3, TriggerKeeps DEF DebounceFires
  <1>4. CASE RecoveryTells  BY <1>4, TriggerKeeps DEF RecoveryTells
  <1>5. CASE RouteAssigned
    BY <1>5, OthersKeep DEF RouteAssigned, served, QueueInv, QueuedIsKept, QueueIsServed
  <1>6. CASE WritableChanges \/ Opens \/ UNCHANGED queueVars
    <2>1. UNCHANGED <<written, queued, looping, work, waiting, synced, broken>>
      BY <1>6 DEF WritableChanges, Opens, queueVars, served
    <2> QED  BY <2>1, OthersKeep DEF QueueInv, QueuedIsKept, QueueIsServed
  <1>7. ASSUME NEW j \in Job, Works(j) PROVE QueueInv'
    BY <1>7, SyncEnsuresKeeps, AddWriterKeeps, WritersTriedKeeps DEF Works
  <1> QED
    BY <1>1, <1>2, <1>3, <1>4, <1>5, <1>6, <1>7, SyncStartsKeeps, ClosesKeeps DEF QueueNext

(* For any writers and any number of syncs: writers that count as in sync were *)
(* added or refused, those that were put in the queue wait there until then,  *)
(* unless a flush was at work, and a loop serves them whatever becomes of the *)
(* watcher (relayWriterQueue and relayMirrorWriterSyncState of the worker).   *)
THEOREM WritersWait ==
  ASSUME QueueAssumption
  PROVE  QueueSpec => [](SyncedIsWritten /\ QueuedIsKept /\ QueueIsServed)
  <1>1. QueueInit => QueueInv  BY QueueStart
  <1>2. QueueInv /\ [QueueNext]_queueVars => QueueInv'  BY QueueSteps
  <1>3. QueueInv => SyncedIsWritten /\ QueuedIsKept /\ QueueIsServed  BY DEF QueueInv
  <1> QED  BY <1>1, <1>2, <1>3, PTL DEF QueueSpec

-----------------------------------------------------------------------------
(* The table and the queue share no variable: whatever calls of the adapter and *)
(* of the worker interleave, what is known of a relay agrees.                 *)
THEOREM RelayIsKnown ==
  ASSUME TableConstants
  PROVE  TableSpec => []RelaysAgree
  <1>1. ActiveSpec => []TableAgrees  BY TableIsRight DEF TableConstants
  <1>2. QueueSpec => [](SyncedIsWritten /\ QueuedIsKept /\ QueueIsServed)
    BY WritersWait DEF TableConstants
  <1> QED  BY <1>1, <1>2, PTL DEF TableSpec, RelaysAgree

\* Writers that are put in the queue are writers, and its watcher, timer and loop
\* are there or not.
LEMMA QueueTyped ==
  ASSUME QueueAssumption, QueueTypeOK, NEW refs \in SUBSET Ref, NEW stale \in BOOLEAN,
         Queue(refs, stale)
  PROVE  /\ {watched', debounce', looping'} \subseteq BOOLEAN
         /\ {queued', waiting'} \subseteq SUBSET Ref
  BY DEF QueueTypeOK, Queue, Attach

LEMMA TriggerTyped ==
  ASSUME QueueTypeOK, NEW timer \in BOOLEAN, Trigger(timer),
         UNCHANGED <<relay, written, mirrored, synced, broken>>
  PROVE  QueueTypeOK'
  <1> DEFINE c == [at |-> "add", tries |-> FALSE, mirror |-> FALSE, stale |-> FALSE,
                   refs |-> {}, rest |-> queued, deferred |-> {}]
  <1>1. c \in WorkStates  BY DEF QueueTypeOK, WorkStates
  <1>2. UNCHANGED work \/ work' = [work EXCEPT !["flush"] = c]  BY DEF Trigger
  <1> HIDE DEF c
  <1>3. work' \in [Job -> WorkStates \cup {Idle}]  BY <1>1, <1>2 DEF QueueTypeOK
  <1>4. {watched', debounce'} \subseteq BOOLEAN  BY DEF Trigger, Attach, QueueTypeOK
  <1> QED  BY <1>3, <1>4 DEF Trigger, QueueTypeOK, relay

LEMMA WorksTyped ==
  ASSUME QueueAssumption, QueueTypeOK, NEW j \in Job, Works(j)
  PROVE  QueueTypeOK'
  <1>1. work[j] \in WorkStates  BY IdleIsNone DEF QueueTypeOK, Works, SyncEnsures, AddWriter, WritersTried
  <1>2. /\ work[j].refs \in SUBSET Ref /\ work[j].rest \in SUBSET Ref
        /\ work[j].deferred \in SUBSET Ref /\ work[j].stale \in BOOLEAN
    BY <1>1 DEF WorkStates
  <1>3. Done(j) => work' \in [Job -> WorkStates \cup {Idle}]  BY DEF Done, QueueTypeOK
  <1>4. CASE SyncEnsures(j)
    <2>1. CASE Queue(work[j].refs, work[j].stale) /\ Done(j)
      BY <1>2, <1>3, <1>4, <2>1, QueueTyped DEF SyncEnsures, QueueTypeOK, relay
    <2>2. CASE work' = [work EXCEPT ![j].at = "add", ![j].tries = FALSE] /\ UNCHANGED served
      <3>1. [work[j] EXCEPT !.at = "add", !.tries = FALSE] \in WorkStates  BY <1>1 DEF WorkStates
      <3>2. work' \in [Job -> WorkStates \cup {Idle}]  BY <2>2, <3>1 DEF QueueTypeOK
      <3> QED  BY <1>4, <2>2, <3>2 DEF SyncEnsures, QueueTypeOK, relay, served
    <2> QED  BY <1>4, <2>1, <2>2 DEF SyncEnsures
  <1>5. ASSUME NEW r \in Ref, AddWriter(j, r)  PROVE QueueTypeOK'
    <2> DEFINE done == [work[j] EXCEPT !.rest = @ \ {r}]
               late == [done EXCEPT !.deferred = @ \cup {r}]
    <2>1. done \in WorkStates /\ late \in WorkStates  BY <1>1 DEF WorkStates
    <2>2. work' = [work EXCEPT ![j] = done] \/ work' = [work EXCEPT ![j] = late]
      BY <1>5 DEF AddWriter
    <2> HIDE DEF done, late
    <2>3. work' \in [Job -> WorkStates \cup {Idle}]  BY <2>1, <2>2 DEF QueueTypeOK
    <2>4. written' \in SUBSET Ref /\ broken' \in SUBSET Ref  BY <1>5 DEF AddWriter, QueueTypeOK
    <2> QED  BY <1>5, <2>3, <2>4 DEF AddWriter, QueueTypeOK, relay, served
  <1>6. CASE WritersTried(j)
    <2>1. work' \in [Job -> WorkStates \cup {Idle}] /\ UNCHANGED <<live, writable, written, broken>>
      BY <1>3, <1>6 DEF WritersTried, relay
    <2>2. CASE j = "flush"  BY <1>6, <2>1, <2>2 DEF WritersTried, QueueTypeOK
    <2>3. CASE j # "flush"
      <3>1. synced' \in SUBSET Ref /\ mirrored' \in SUBSET Ref
        BY <1>2, <1>6, <2>3 DEF WritersTried, Notes, QueueTypeOK
      <3>2. CASE UNCHANGED served  BY <2>1, <3>1, <3>2 DEF QueueTypeOK, served
      <3>3. CASE Queue(work[j].deferred, work[j].stale)
        BY <1>2, <2>1, <3>1, <3>3, QueueTyped DEF QueueTypeOK
      <3> QED  BY <1>6, <2>3, <3>2, <3>3 DEF WritersTried
    <2> QED  BY <2>2, <2>3
  <1> QED  BY <1>4, <1>5, <1>6 DEF Works

LEMMA QueueTypeSteps ==
  ASSUME QueueAssumption, QueueTypeOK, [QueueNext]_queueVars
  PROVE  QueueTypeOK'
  <1>1. CASE LoopTick
    <2>1. CASE queued = {}  BY <1>1, <2>1 DEF LoopTick, QueueTypeOK, relay
    <2>2. CASE queued # {}  BY <1>1, <2>2, TriggerTyped DEF LoopTick, QueueTypeOK
    <2> QED  BY <2>1, <2>2
  <1>2. CASE RelayEvent  BY <1>2 DEF RelayEvent, Serve, QueueTypeOK, relay
  <1>3. CASE DebounceFires  BY <1>3, TriggerTyped DEF DebounceFires
  <1>4. CASE RecoveryTells  BY <1>4, TriggerTyped DEF RecoveryTells, QueueTypeOK
  <1>5. CASE RouteAssigned  BY <1>5 DEF RouteAssigned, QueueTypeOK, relay, served
  <1>6. CASE WritableChanges \/ Opens
    BY <1>6 DEF WritableChanges, Opens, QueueTypeOK, served
  <1>7. CASE UNCHANGED queueVars  BY <1>7 DEF queueVars, QueueTypeOK
  <1>8. CASE Closes
    <2>1. ASSUME NEW j \in Job, work[j] # Idle  PROVE [work[j] EXCEPT !.stale = TRUE] \in WorkStates
      <3>1. work[j] \in WorkStates  BY <2>1 DEF QueueTypeOK
      <3> QED  BY <3>1 DEF WorkStates
    <2>2. work' \in [Job -> WorkStates \cup {Idle}]  BY <1>8, <2>1 DEF Closes
    <2> QED  BY <1>8, <2>2 DEF Closes, QueueTypeOK
  <1>9. ASSUME NEW j \in Sync, NEW kind \in Reasons, NEW refs \in Batches, SyncStarts(j, kind, refs)
        PROVE  QueueTypeOK'
    <2> DEFINE c == [at |-> "prepare", tries |-> kind \in Tries, mirror |-> kind \notin Fast \/ mirrored = refs,
                     stale |-> FALSE, refs |-> refs, rest |-> refs, deferred |-> {}]
    <2>1. c \in WorkStates  BY DEF WorkStates, QueueAssumption
    <2>2. work' = [work EXCEPT ![j] = c]  BY <1>9 DEF SyncStarts
    <2> HIDE DEF c
    <2>3. work' \in [Job -> WorkStates \cup {Idle}]  BY <2>1, <2>2 DEF QueueTypeOK
    <2> QED  BY <1>9, <2>3 DEF SyncStarts, QueueTypeOK, relay, served
  <1> QED
    BY <1>1, <1>2, <1>3, <1>4, <1>5, <1>6, <1>7, <1>8, <1>9, WorksTyped DEF QueueNext

(* Every variable of the profile, the table and the queue keeps its type.     *)
THEOREM TableTyped ==
  ASSUME TableConstants
  PROVE  TableSpec => []ProfilesTypeOK
  <1>1. QueueInit => QueueTypeOK
    BY DEF QueueInit, QueueTypeOK, Job
  <1>2. QueueTypeOK /\ [QueueNext]_queueVars => QueueTypeOK'
    BY QueueTypeSteps DEF TableConstants
  <1> QED
    BY <1>1, <1>2, TypeCorrect, ActiveTyped, PTL DEF TableSpec, QueueSpec, ProfilesTypeOK
=============================================================================
