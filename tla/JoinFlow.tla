------------------------------- MODULE JoinFlow -------------------------------
(* Joining relays with one key (src/index.js: the start-join-flow command,    *)
(* the attempts, the re-authentication of open joins, and what is told to the *)
(* app; src/relay-server.mjs: startJoinAuthentication) and the hosts that     *)
(* answer (its /post/join and /verify-ownership handlers, with the store of   *)
(* src/challenge-manager.mjs).                                                *)
(*                                                                            *)
(* A job is a start-join-flow command (a flow) or a re-authentication; each   *)
(* runs startJoinAuthentication at most once.  A challenge and a token carry  *)
(* the job they are for.  A host's answer reaches the job in the step that    *)
(* makes it, or is lost; a request may arrive after its job gave it up.       *)
(* Direct discovery v2 is on, the open fallback after a direct timeout off,   *)
(* as by default; a host handles a verify request in one step.                *)
EXTENDS Naturals, FiniteSets

CONSTANTS
  Flows,         \* start-join-flow commands
  Reauths,       \* re-authentications of provisional joins
  RelayKeys,     \* the relays they are about
  Hosts,         \* peers that may host them
  Kinds,         \* "open": openJoin; "invite": with a token; "plain": neither
  Deadline,      \* JOIN_TOTAL_DEADLINE_MS is set
  MaxAttempts    \* verifications tried with one challenge (5 in the code)

Jobs == Flows \cup Reauths
Nil == "none"

(* The app's commands are not the worker's own; names stand for one thing.    *)
JoinConstants ==
  /\ Flows \cap Reauths = {}
  /\ Nil \notin Jobs
  /\ Hosts \cap {Nil, "self", "invite"} = {}
  /\ Kinds \subseteq {"open", "invite", "plain"}
  /\ Deadline \in BOOLEAN /\ MaxAttempts \in Nat \ {0}

VARIABLES
  flow,       \* where each start-join-flow command is
  kind,       \* what it asks for
  about,      \* the relay of a job
  auth,       \* startJoinAuthentication of a job
  attempt,    \* joinFlowAttemptState
  pending,    \* pendingOpenJoinReauth: no entry, or its inFlight
  lock,       \* joinAuthAttemptLocks (of the one key): the job that holds it
  saved,      \* the token of the local profile
  told,       \* the token of the last join-auth-success the app got
  teller,     \* the job that sent it
  requests,   \* requests on their way to a host
  challenge,  \* a host's ChallengeStore: its entry for the key
  accepted,   \* the token a host accepts from the key, per relay
  silenced,   \* relays whose last success was not told to the app
  broken,     \* relays with a token that its job did not bring to the end
  pruned      \* flows whose attempt was pruned, five minutes after its last change

app == <<attempt, pending, told, teller>>
host == <<challenge, accepted>>
ghosts == <<silenced, broken, pruned>>
joinVars == <<flow, kind, about, auth, lock, saved, requests, app, host, ghosts>>

Token(j, from) == [by |-> j, from |-> from]
NoToken == Token(Nil, Nil)
Tokens == {Token(j, from) : j \in Jobs, from \in Hosts \cup {"self", "invite"}}
Auth(pc, hs, h, token) == [pc |-> pc, hosts |-> hs, host |-> h, token |-> token]
NoAuth == Auth("off", {}, Nil, NoToken)
NoChallenge == [job |-> Nil, tries |-> 0]
NoAttempt == [id |-> Nil, status |-> Nil]

(* From the lock to the end of startJoinAuthentication.                       *)
Locked == {"dial", "asked", "proving", "saving", "joining"}
Running(r) == {j \in Jobs : about[j] = r /\ auth[j].pc \in Locked \cup {"starting"}}

JoinInit ==
  /\ flow = [f \in Flows |-> "idle"]
  /\ kind = [f \in Flows |-> Nil]
  /\ about = [j \in Jobs |-> Nil]
  /\ auth = [j \in Jobs |-> NoAuth]
  /\ attempt = [r \in RelayKeys |-> NoAttempt]
  /\ pending = [r \in RelayKeys |-> Nil]
  /\ lock = [r \in RelayKeys |-> Nil]
  /\ saved = [r \in RelayKeys |-> NoToken]
  /\ told = [r \in RelayKeys |-> NoToken] /\ teller = [r \in RelayKeys |-> Nil]
  /\ requests = {}
  /\ challenge = [h \in Hosts |-> NoChallenge]
  /\ accepted = [h \in Hosts |-> [r \in RelayKeys |-> NoToken]]
  /\ silenced = {} /\ broken = {} /\ pruned = {}

-----------------------------------------------------------------------------
(* The attempts and what the app is told                                      *)

(* markJoinFlowAttemptState: the current attempt only.                        *)
Mark(r, f, status) ==
  IF attempt[r].id = f THEN [attempt EXCEPT ![r].status = status] ELSE attempt

(* Variant: a success after the attempt failed is told.                       *)
SupersededOnlyVariant(r, j) ==
  attempt[r].id # Nil /\ j \in Flows /\ attempt[r].id # j

(* shouldSuppressJoinAuthSuccess: of another attempt, or after a failure.     *)
Suppressed(r, j) ==
  /\ attempt[r].id # Nil
  /\ \/ j \in Flows /\ attempt[r].id # j
     \/ attempt[r].status = "failed"

(* Variant: an error leaves the entry in flight.                              *)
KeepInFlightVariant(r) == pending

(* trackOpenJoinReauthState of a join-auth-error.                             *)
AfterError(r) ==
  IF pending[r] = "inFlight" THEN [pending EXCEPT ![r] = "waiting"] ELSE pending

(* trackOpenJoinReauthState of a join-auth-success.                           *)
AfterSuccess(r, token) ==
  [pending EXCEPT ![r] = IF token.from = "self" THEN "waiting" ELSE Nil]

-----------------------------------------------------------------------------
(* start-join-flow                                                            *)

(* beginJoinFlowAttempt: the newest attempt replaces the one before.          *)
Start(f, r, k) ==
  /\ flow[f] = "idle"
  /\ flow' = [flow EXCEPT ![f] = "resolving"]
  /\ kind' = [kind EXCEPT ![f] = k]
  /\ about' = [about EXCEPT ![f] = r]
  /\ attempt' = [attempt EXCEPT ![r] = [id |-> f, status |-> "in-progress"]]
  /\ UNCHANGED <<auth, lock, saved, requests, pending, told, teller, host, ghosts>>

(* The command's catch: the attempt failed and the app gets an error.         *)
FlowFails(f) ==
  /\ flow' = [flow EXCEPT ![f] = "failed"]
  /\ attempt' = Mark(about[f], f, "failed")
  /\ pending' = AfterError(about[f])
  /\ UNCHANGED <<told, teller>>

(* What the probes of the hosts can select: a host that can challenge the     *)
(* key, for an invite also one that has a lease for it.                       *)
Candidates(k) ==
  {<<Nil, Nil>>} \cup ({"direct-challenge"} \X Hosts)
    \cup (IF k = "invite" THEN {"lease-claim"} \X Hosts ELSE {})

(* The envelope of a claimed lease is verified and matched against the token, *)
(* the key and the relay; else there is no candidate.                         *)
Claimed(candidate, valid) ==
  IF candidate[1] = "lease-claim" /\ ~valid THEN <<Nil, Nil>> ELSE candidate

(* The open join's path: the host selected, else the writer of the gateway.   *)
OpenPath(candidate, gateway, material) ==
  IF candidate[1] # Nil THEN "direct-join"
  ELSE IF gateway /\ material THEN "open-gateway-bootstrap"
  ELSE "no-writer-path"

(* The invite's path: a lease or the writer of the invite makes a host        *)
(* needless; both need a checkpoint of the writer.                            *)
InvitePath(candidate, material, checkpoint) ==
  IF (material \/ candidate[1] = "lease-claim") /\ ~checkpoint THEN "no-writer-path"
  ELSE IF candidate[1] = "direct-challenge" THEN "direct-join"
  ELSE IF material \/ candidate[1] = "lease-claim" THEN "closed-lease-direct"
  ELSE "no-writer-path"

(* Neither: without a host the authentication runs, but dials nobody          *)
(* (blockUnverifiedDirectLoop).                                               *)
PlainPath(candidate, gateway) ==
  IF candidate[1] # Nil THEN "direct-join"
  ELSE IF gateway THEN "blocked"
  ELSE "no-writer-path"

Paths(k, candidate) ==
  {CASE k = "open" -> OpenPath(candidate, gateway, material)
     [] k = "invite" -> InvitePath(candidate, material, checkpoint)
     [] k = "plain" -> PlainPath(candidate, gateway)
     : gateway \in BOOLEAN, material \in BOOLEAN, checkpoint \in BOOLEAN}

(* startJoinAuthentication is called, with the hosts to ask.                   *)
Begun(hs) == Auth("starting", hs, Nil, NoToken)

(* Gateway, probes, mirrors and leases have given a path, or none.            *)
Resolve(f) ==
  /\ flow[f] = "resolving"
  /\ \E found \in Candidates(kind[f]), valid \in BOOLEAN :
       LET candidate == Claimed(found, valid) IN
       \E path \in Paths(kind[f], candidate) :
         IF path = "no-writer-path"
           THEN FlowFails(f) /\ UNCHANGED auth
           ELSE /\ flow' = [flow EXCEPT ![f] = "authenticating"]
                /\ auth' = [auth EXCEPT ![f] =
                     Begun(IF path = "direct-join" THEN {candidate[2]} ELSE {})]
                /\ UNCHANGED app
  /\ UNCHANGED <<kind, about, lock, saved, requests, host, ghosts>>

(* withTimeout ends the command; its authentication goes on.                  *)
DeadlineExceeded(f) ==
  /\ Deadline /\ flow[f] = "authenticating"
  /\ FlowFails(f)
  /\ UNCHANGED <<kind, about, auth, lock, saved, requests, host, ghosts>>

(* pruneJoinFlowAttemptState.                                                 *)
Forget(r) ==
  /\ attempt[r].id # Nil
  /\ attempt' = [attempt EXCEPT ![r] = NoAttempt]
  /\ pruned' = pruned \cup {f \in Flows : about[f] = r}
  /\ UNCHANGED <<flow, kind, about, auth, lock, saved, requests, pending, told, teller, host, silenced, broken>>

(* maybeReauthOpenJoins, when the gateway's status names hosts hs.            *)
Reauth(a, r, hs) ==
  /\ auth[a].pc = "off" /\ pending[r] = "waiting"
  /\ pending' = [pending EXCEPT ![r] = "inFlight"]
  /\ about' = [about EXCEPT ![a] = r]
  /\ auth' = [auth EXCEPT ![a] = Begun(hs)]
  /\ UNCHANGED <<flow, kind, lock, saved, requests, attempt, told, teller, host, ghosts>>

-----------------------------------------------------------------------------
(* startJoinAuthentication                                                    *)

(* Variant: an attempt that is in flight does not stop another.               *)
NeverBusyVariant(r) == FALSE

(* acquireJoinAuthAttemptLock finds an attempt.                               *)
InFlight(r) == lock[r] # Nil

To(j, pc) == [auth EXCEPT ![j].pc = pc]

(* Variant: the lock is kept when an authentication ends.                     *)
KeepLockVariant(j) == lock

(* releaseJoinAuthAttemptLock, by its holder.                                 *)
Released(j) == IF lock[about[j]] = j THEN [lock EXCEPT ![about[j]] = Nil] ELSE lock

Acquire(j) ==
  /\ auth[j].pc = "starting" /\ ~InFlight(about[j])
  /\ lock' = [lock EXCEPT ![about[j]] = j]
  /\ auth' = To(j, "dial")
  /\ UNCHANGED <<flow, kind, about, saved, requests, app, host, ghosts>>

(* Variant: a command that is refused never ends.                             *)
NoAnswerVariant(j) ==
  /\ auth[j].pc = "starting" /\ InFlight(about[j])
  /\ auth' = To(j, "ended")
  /\ UNCHANGED <<flow, app>>
  /\ UNCHANGED <<kind, about, lock, saved, requests, host, ghosts>>

(* The authentication returns join-auth-in-flight: a command fails, for a     *)
(* re-authentication nothing is sent.                                         *)
Refused(j) ==
  /\ auth[j].pc = "starting" /\ InFlight(about[j])
  /\ auth' = To(j, "ended")
  /\ IF j \in Flows /\ flow[j] = "authenticating" THEN FlowFails(j) ELSE UNCHANGED <<flow, app>>
  /\ UNCHANGED <<kind, about, lock, saved, requests, host, ghosts>>

JoinRequest(j, h, k) == [job |-> j, host |-> h, kind |-> k]

(* The next host is connected to and asked, or is not reached.                *)
Dial(j, h) ==
  /\ auth[j].pc = "dial" /\ h \in auth[j].hosts
  /\ \/ /\ auth' = [auth EXCEPT ![j] = Auth("asked", auth[j].hosts \ {h}, h, NoToken)]
        /\ requests' = requests \cup {JoinRequest(j, h, "join")}
     \/ /\ auth' = [auth EXCEPT ![j].hosts = auth[j].hosts \ {h}]
        /\ UNCHANGED requests
  /\ UNCHANGED <<flow, kind, about, lock, saved, app, host, ghosts>>

(* No answer from the host.                                                   *)
JoinTimeout(j) ==
  /\ auth[j].pc = "asked"
  /\ auth' = To(j, "dial")
  /\ UNCHANGED <<flow, kind, about, lock, saved, requests, app, host, ghosts>>

(* The authentication of a job has a token.                                   *)
Granted(j, token) == Auth("saving", auth[j].hosts, auth[j].host, token)

(* No host gave a challenge: the invite's token is used, for an open join one *)
(* of the key's own making; else the authentication fails.                    *)
Fallback(j) ==
  /\ auth[j].pc = "dial" /\ auth[j].hosts = {}
  /\ j \in Flows
  /\ \E from \in (CASE kind[j] = "invite" -> {"invite"} [] kind[j] = "open" -> {"self"} [] OTHER -> {}) :
       auth' = [auth EXCEPT ![j] = Granted(j, Token(j, from))]
  /\ UNCHANGED <<flow, kind, about, lock, saved, requests, app, host, ghosts>>

(* preseedJoinMetadata.                                                       *)
Save(j) ==
  /\ auth[j].pc = "saving"
  /\ saved' = [saved EXCEPT ![about[j]] = auth[j].token]
  /\ auth' = To(j, "joining")
  /\ UNCHANGED <<flow, kind, about, lock, requests, app, host, ghosts>>

(* The relay is joined and the app gets a success, unless it is suppressed;   *)
(* the lock is released and the command ends.                                 *)
Succeed(j) ==
  LET r == about[j] IN
  /\ auth[j].pc = "joining"
  /\ IF Suppressed(r, j)
       THEN silenced' = silenced \cup {r} /\ UNCHANGED <<told, teller, pending, broken>>
       ELSE /\ told' = [told EXCEPT ![r] = auth[j].token]
            /\ teller' = [teller EXCEPT ![r] = j]
            /\ pending' = AfterSuccess(r, auth[j].token)
            /\ silenced' = silenced \ {r} /\ broken' = broken \ {r}
  /\ attempt' = IF Suppressed(r, j) THEN attempt ELSE Mark(r, j, "succeeded")
  /\ lock' = Released(j)
  /\ auth' = To(j, "ended")
  /\ flow' = IF j \in Flows /\ flow[j] = "authenticating" THEN [flow EXCEPT ![j] = "done"] ELSE flow
  /\ UNCHANGED <<kind, about, saved, requests, host, pruned>>

(* The catch: the app gets an error, the lock is released, the command fails. *)
Fail(j, r) ==
  /\ auth[j].pc \in Locked \ {"asked"}
  /\ auth[j].pc = "dial" => auth[j].hosts = {}
  /\ lock' = Released(j)
  /\ auth' = To(j, "ended")
  /\ IF j \in Flows /\ flow[j] = "authenticating"
       THEN FlowFails(j)
       ELSE pending' = AfterError(r) /\ UNCHANGED <<flow, attempt, told, teller>>
  /\ broken' = IF auth[j].pc \in {"saving", "joining"} THEN broken \cup {r} ELSE broken
  /\ UNCHANGED <<kind, about, saved, requests, host, silenced, pruned>>

-----------------------------------------------------------------------------
(* The hosts                                                                  *)

Waits(q) == auth[q.job].pc = (IF q.kind = "join" THEN "asked" ELSE "proving") /\ auth[q.job].host = q.host

(* The handler of /post/join: a challenge replaces the one before; or the     *)
(* host does not know the relay, or it is closed.                             *)
HandleJoin(q) ==
  /\ q.kind = "join"
  /\ \/ /\ UNCHANGED challenge
        /\ requests' = requests \ {q}
        /\ auth' = IF Waits(q) THEN To(q.job, "dial") ELSE auth
     \/ /\ challenge' = [challenge EXCEPT ![q.host] = [job |-> q.job, tries |-> 0]]
        /\ \/ /\ Waits(q)
              /\ auth' = To(q.job, "proving")
              /\ requests' = (requests \ {q}) \cup {JoinRequest(q.job, q.host, "verify")}
           \/ requests' = requests \ {q} /\ UNCHANGED auth
  /\ UNCHANGED <<flow, kind, about, lock, saved, app, accepted, ghosts>>

(* ChallengeStore.retrieve.                                                   *)
Retrieved(h) ==
  LET entry == [job |-> challenge[h].job, tries |-> challenge[h].tries + 1] IN
  IF challenge[h] = NoChallenge \/ entry.tries > MaxAttempts THEN NoChallenge ELSE entry

(* Variant: the challenge that comes back is not compared with the stored.    *)
AnyAnswerVariant(q) == Retrieved(q.host) # NoChallenge

(* verifyChallenge: the answer holds the challenge stored last.               *)
Verified(q) == Retrieved(q.host).job = q.job

(* The handler of /verify-ownership: a challenge that is met is removed and   *)
(* its token accepted; the answer arrives or is lost.                         *)
HandleVerify(q) ==
  LET by == Retrieved(q.host).job
      token == Token(by, q.host)
  IN /\ q.kind = "verify"
     /\ requests' = requests \ {q}
     /\ IF Verified(q)
          THEN /\ challenge' = [challenge EXCEPT ![q.host] = NoChallenge]
               /\ accepted' = [accepted EXCEPT ![q.host][about[by]] = token]
               /\ \/ /\ Waits(q)
                     /\ auth' = [auth EXCEPT ![q.job] = Granted(q.job, token)]
                     /\ UNCHANGED broken
                  \/ UNCHANGED auth /\ broken' = broken \cup {about[by]}
          ELSE /\ challenge' = [challenge EXCEPT ![q.host] = Retrieved(q.host)]
               /\ UNCHANGED <<accepted, auth, broken>>
     /\ UNCHANGED <<flow, kind, about, lock, saved, app, silenced, pruned>>

(* A challenge is too old, or the host has started again.                     *)
Expire(h) ==
  /\ challenge[h] # NoChallenge
  /\ challenge' = [challenge EXCEPT ![h] = NoChallenge]
  /\ UNCHANGED <<flow, kind, about, auth, lock, saved, requests, app, accepted, ghosts>>

-----------------------------------------------------------------------------

JobStep(j) ==
  \/ Acquire(j) \/ Refused(j) \/ JoinTimeout(j) \/ Fallback(j) \/ Save(j) \/ Succeed(j)
  \/ Fail(j, about[j])
  \/ \E h \in Hosts : Dial(j, h)

JoinNext ==
  \/ \E f \in Flows, r \in RelayKeys, k \in Kinds : Start(f, r, k)
  \/ \E f \in Flows : Resolve(f) \/ DeadlineExceeded(f)
  \/ \E a \in Reauths, r \in RelayKeys, hs \in SUBSET Hosts \ {{}} : Reauth(a, r, hs)
  \/ \E j \in Jobs : JobStep(j)
  \/ \E q \in requests : HandleJoin(q) \/ HandleVerify(q)
  \/ \E h \in Hosts : Expire(h)
  \/ \E r \in RelayKeys : Forget(r)

JoinSpec == JoinInit /\ [][JoinNext]_joinVars

-----------------------------------------------------------------------------

(* Every variable has its type, and a job has a relay once it has begun.      *)
JoinTypeOK ==
  /\ flow \in [Flows -> {"idle", "resolving", "authenticating", "done", "failed"}]
  /\ kind \in [Flows -> Kinds \cup {Nil}]
  /\ about \in [Jobs -> RelayKeys \cup {Nil}]
  /\ auth \in [Jobs -> [pc : Locked \cup {"off", "starting", "ended"}, hosts : SUBSET Hosts,
                        host : Hosts \cup {Nil}, token : Tokens \cup {NoToken}]]
  /\ attempt \in [RelayKeys -> [id : Flows \cup {Nil}, status : {Nil, "in-progress", "succeeded", "failed"}]]
  /\ pending \in [RelayKeys -> {Nil, "waiting", "inFlight"}]
  /\ lock \in [RelayKeys -> Jobs \cup {Nil}]
  /\ saved \in [RelayKeys -> Tokens \cup {NoToken}]
  /\ told \in [RelayKeys -> Tokens \cup {NoToken}]
  /\ teller \in [RelayKeys -> Jobs \cup {Nil}]
  /\ requests \subseteq {JoinRequest(j, h, k) : j \in Jobs, h \in Hosts, k \in {"join", "verify"}}
  /\ challenge \in [Hosts -> [job : Jobs \cup {Nil}, tries : 0..MaxAttempts]]
  /\ accepted \in [Hosts -> [RelayKeys -> Tokens \cup {NoToken}]]
  /\ silenced \subseteq RelayKeys /\ broken \subseteq RelayKeys /\ pruned \subseteq Flows
  /\ \A j \in Jobs : auth[j].pc # "off" => about[j] \in RelayKeys

(* A relay's lock is held by the one authentication that is between its       *)
(* acquisition and its end, and free when there is none: an error, a timeout  *)
(* or an answer that comes late never leaves it behind.                       *)
JoinLockIsExact ==
  \A r \in RelayKeys :
    {j \in Jobs : about[j] = r /\ auth[j].pc \in Locked} = {lock[r]} \ {Nil}

(* While no authentication of a relay runs, the app, the profile and the host *)
(* that granted it have the same token, and it is for that relay; except when *)
(* a token was granted or saved and its job failed, or its success was not    *)
(* told.  Requests that come late and challenges that replace one another     *)
(* never set them apart.                                                      *)
TokensAgree ==
  \A r \in RelayKeys :
    /\ \A h \in Hosts : accepted[h][r].by \in Jobs => about[accepted[h][r].by] = r
    /\ lock[r] = Nil /\ r \notin silenced \cup broken =>
         /\ told[r] = saved[r]
         /\ told[r].from \in Hosts => accepted[told[r].from][r] = told[r]

(* Nothing waits for what does not run: a command that authenticates has an   *)
(* authentication that goes on, and an open join marked as in flight has one  *)
(* for its relay, its own or another that will tell of its end; unless a      *)
(* success was suppressed, which leaves it waiting.                           *)
NothingWaitsInVain ==
  /\ \A f \in Flows : flow[f] = "authenticating" => f \in Running(about[f])
  /\ \A r \in RelayKeys \ silenced : pending[r] = "inFlight" => Running(r) # {}

(* A relay's lock and its entry of a provisional join follow the             *)
(* authentications that really run: neither is left behind by one that ended, *)
(* so a later join or re-authentication is never turned away for nothing.     *)
JoinsTracked == JoinLockIsExact /\ NothingWaitsInVain

(* The app is not told of a success by a command that it was told has failed  *)
(* or that a later command for the relay has replaced, within five minutes.   *)
NoStaleSuccess ==
  [][\A r \in RelayKeys : told'[r] # told[r] /\ teller'[r] \in Flows \ pruned =>
       attempt[r].id = teller'[r] /\ flow[teller'[r]] # "failed"]_joinVars
=============================================================================
