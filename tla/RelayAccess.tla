------------------------------ MODULE RelayAccess ------------------------------
(* What a worker holds of one relay by its gateways: the bearer token of the  *)
(* member, which invites and open joins obtain, the fetches of the mirror use *)
(* and renew and a revocation removes; and the core refs that the mirror      *)
(* lists, in the profile and in the store of core refs.                       *)
(*                                                                            *)
(* Tokens are numbered as they are issued.  A request is answered by the      *)
(* gateway in one step and the answer arrives in another, or never.           *)
EXTENDS Naturals, Sequences, FiniteSets

CONSTANTS
  Order,       \* the gateways of the settings, the preferred one first
  JoinTasks,   \* claims of an invite, open joins and appends
  FetchTasks,  \* fetches of the mirror: a refresh, a join, an auto-connect
  Refs, NewRef,
  MaxTokens, MaxChanges,
  Void

Gateways == {Order[i] : i \in DOMAIN Order}
Serials == 1..MaxTokens
Answers == {"accepted", "refused", "renewed", "revoked", "mirror"}

(* Void is nothing of what it stands for the absence of.                     *)
AccessConstants ==
  /\ Order \in Seq(Gateways) /\ Order # <<>> /\ MaxTokens \in Nat /\ MaxChanges \in Nat
  /\ NewRef \in Refs /\ IsFiniteSet(JoinTasks) /\ IsFiniteSet(FetchTasks)
  /\ Void \notin Gateways /\ Void \notin Serials /\ Void \notin FetchTasks /\ Void \notin Answers
  /\ \A copy \in SUBSET Refs : Void # copy
  /\ Void \notin [token : Serials, due : BOOLEAN]
  /\ Void \notin [token : Serials, gateway : Gateways, answer : {Void} \cup Answers,
                  next : {Void} \cup Serials]

VARIABLES
  issued,     \* the gateway of each token
  withdrawn,  \* tokens whose gateway has revoked them
  held,       \* the relay's entry in the store of member access
  freshest,   \* history: the newest token that arrived, until it expires
  inflight,   \* relayMemberAccessRefreshInflight
  renewal,    \* its tasks, by the fetch that began them
  joining, fetching,
  route,      \* the relay's gateway
  own,        \* core_refs of its profile
  refs,       \* its refs in the store of core refs
  noting,     \* refs that the provisioning of a writer is about to note
  overlaps,   \* history: what overlapped, see Overlaps
  changes

accessVars == <<issued, withdrawn, held, freshest, inflight, renewal, joining, fetching, route, own,
                refs, noting, overlaps, changes>>
tokenVars == <<issued, withdrawn, held, freshest, inflight, renewal>>
refVars == <<own, refs, noting>>

NotJoining == [kind |-> "claim", left |-> <<>>, at |-> "idle", answer |-> Void, token |-> Void]
NotFetching ==
  [at |-> "idle", gateway |-> Void, token |-> Void, waits |-> Void, answer |-> Void, copy |-> {},
   saves |-> FALSE]

AccessInit ==
  /\ issued = <<>> /\ withdrawn = {} /\ held = Void /\ freshest = Void
  /\ inflight = [g \in Gateways |-> Void] /\ renewal = [f \in FetchTasks |-> Void]
  /\ joining = [j \in JoinTasks |-> NotJoining] /\ fetching = [f \in FetchTasks |-> NotFetching]
  /\ route \in Gateways \cup {Void}
  /\ own \in {Void, {}} /\ refs = {} /\ noting = Void
  /\ overlaps = {} /\ changes = 0

-----------------------------------------------------------------------------
(* Tokens.                                                                    *)

(* storeRelayMemberAccessToken, of a token: it takes the older one's place,   *)
(* and may be due for renewal at once.                                        *)
Store(n) ==
  /\ held' \in [token : {n}, due : BOOLEAN]
  /\ freshest' = IF freshest = Void \/ n > freshest THEN n ELSE freshest

(* removeRelayMemberAccess, of whatever token is there now.                   *)
RemoveAccess == held' = Void /\ UNCHANGED freshest

Issue(g) == Len(issued) < MaxTokens /\ issued' = Append(issued, g)

(* accessMatchesGateway                                                       *)
Matches(g) == held # Void /\ issued[held.token] = g

(* resolveRelayGatewayRouting: the origins that are given, or the relay's     *)
(* gateway, or all that are known if the caller allows it.                    *)
Routing(given, allowFallback) ==
  CASE given # Void -> <<given>>
    [] given = Void /\ route # Void -> <<route>>
    [] OTHER -> IF allowFallback THEN Order ELSE <<>>

-----------------------------------------------------------------------------
(* Joins: a challenge is fetched and signed, and an answer to it posted.      *)

JoinGoes(j, r) == joining' = [joining EXCEPT ![j] = r]

Begin(j, kind, origins) ==
  /\ joining[j].at = "idle" /\ origins # <<>>
  /\ JoinGoes(j, [NotJoining EXCEPT !.kind = kind, !.left = origins, !.at = "challenge"])
  /\ UNCHANGED <<tokenVars, refVars, fetching, route, changes>>

(* claimRelayMemberGatewayAccess, of the gateway that the join was assigned.  *)
(* Its caller may stop waiting, and it goes on.                               *)
BeginClaim(j) == \E g \in Gateways : Begin(j, "claim", <<g>>)

(* fetchOpenJoinBootstrap, of the gateways that are known if the relay has    *)
(* none.                                                                      *)
BeginOpenJoin(j) == \E given \in Gateways \cup {Void} : Begin(j, "open", Routing(given, TRUE))

(* appendOpenJoinMirrorCores, after a join of an open relay.                  *)
BeginAppend(j) == Begin(j, "append", Routing(Void, FALSE))

(* The next gateway, if there is one.                                         *)
GoesOn(j) ==
  LET left == Tail(joining[j].left) IN
  JoinGoes(j, IF left = <<>> THEN NotJoining
              ELSE [NotJoining EXCEPT !.kind = joining[j].kind, !.left = left, !.at = "challenge"])

(* fetchOpenJoinChallenge: a challenge, or an error or a timeout.             *)
Challenge(j) ==
  /\ joining[j].at = "challenge"
  /\ \/ JoinGoes(j, [joining[j] EXCEPT !.at = "request"])
     \/ GoesOn(j)
  /\ UNCHANGED <<tokenVars, refVars, fetching, route, changes>>

(* The gateway accepts the signed answer, with a token or without, or not.    *)
GatewayAnswers(j) ==
  LET g == Head(joining[j].left) IN
  /\ joining[j].at = "request" /\ joining[j].answer = Void
  /\ \/ /\ joining[j].kind # "append" /\ Issue(g)
        /\ JoinGoes(j, [joining[j] EXCEPT !.answer = "accepted", !.token = Len(issued')])
     \/ \E answer \in {"accepted", "refused"} :
          JoinGoes(j, [joining[j] EXCEPT !.answer = answer]) /\ UNCHANGED issued
  /\ UNCHANGED <<withdrawn, held, freshest, inflight, renewal, refVars, fetching, route, changes>>

Received(j, kind) == joining[j].at = "request" /\ joining[j].kind = kind

(* An answer with a token arrives, which is stored.                           *)
Takes(j) ==
  /\ joining[j].answer = "accepted"
  /\ IF joining[j].token # Void THEN Store(joining[j].token) ELSE UNCHANGED <<held, freshest>>
  /\ UNCHANGED <<issued, withdrawn, inflight, renewal>>

(* The end of a claim: an error is not tried elsewhere.                       *)
ClaimEnds(j) ==
  /\ Received(j, "claim") /\ JoinGoes(j, NotJoining)
  /\ Takes(j) \/ UNCHANGED tokenVars
  /\ UNCHANGED <<refVars, fetching, route, changes>>

(* The first gateway that accepts an open join is the last that is asked.     *)
Bootstrapped(j) ==
  /\ Received(j, "open")
  /\ Takes(j) /\ JoinGoes(j, NotJoining)
  /\ UNCHANGED <<refVars, fetching, route, changes>>

(* An error, an answer without a payload, or a timeout.                       *)
NotBootstrapped(j) ==
  /\ Received(j, "open") /\ GoesOn(j)
  /\ UNCHANGED <<tokenVars, refVars, fetching, route, changes>>

(* submitOpenJoinAppendCores ends, which stores nothing.                      *)
Appended(j) ==
  /\ Received(j, "append")
  /\ IF joining[j].answer = "accepted" THEN JoinGoes(j, NotJoining) ELSE GoesOn(j)
  /\ UNCHANGED <<tokenVars, refVars, fetching, route, changes>>

-----------------------------------------------------------------------------
(* Fetches of the mirror.                                                     *)

Goes(f, r) == fetching' = [fetching EXCEPT ![f] = r]
At(f, at) == fetching[f].at = at

(* refreshRelayMirrorMetadata, of which one is in flight for all callers, or  *)
(* fetchAndApplyRelayMirrorMetadata; the settings and the registry are read.  *)
BeginFetch(f) ==
  /\ At(f, "idle") /\ Goes(f, [NotFetching EXCEPT !.at = "route"])
  /\ UNCHANGED <<tokenVars, refVars, joining, route, changes>>

(* The relay's gateway is looked up; without one there is no fetch.           *)
Routes(f) ==
  LET origins == Routing(Void, FALSE) IN
  /\ At(f, "route")
  /\ Goes(f, IF origins = <<>> THEN NotFetching
             ELSE [fetching[f] EXCEPT !.at = "access", !.gateway = Head(origins)])
  /\ UNCHANGED <<tokenVars, refVars, joining, route, changes>>

(* Variant: one renewal in flight for all gateways of the relay.              *)
KeyVariant(g) == Order[1]

(* The key of relayMemberAccessRefreshInflight.                               *)
Key(g) == g

(* The token for the gateway, if the one that is held is from there and not   *)
(* due for renewal.                                                           *)
ResolveAccess(f) ==
  /\ At(f, "access")
  /\ LET g == fetching[f].gateway IN
     \/ /\ ~Matches(g) /\ Goes(f, [fetching[f] EXCEPT !.at = "get"])
     \/ /\ Matches(g) /\ ~held.due
        /\ Goes(f, [fetching[f] EXCEPT !.at = "get", !.token = held.token])
  /\ UNCHANGED <<tokenVars, refVars, joining, route, changes>>

(* Variant: a renewal that is in flight is not waited for.                    *)
RenewVariant(f) ==
  LET g == fetching[f].gateway IN
  /\ At(f, "access") /\ Matches(g) /\ held.due
  /\ Goes(f, [fetching[f] EXCEPT !.at = "wait", !.token = held.token, !.waits = f])
  /\ renewal' = [renewal EXCEPT ![f] = [token |-> held.token, gateway |-> g, answer |-> Void, next |-> Void]]
  /\ inflight' = [inflight EXCEPT ![Key(g)] = f]
  /\ UNCHANGED <<issued, withdrawn, held, freshest, refVars, joining, route, changes>>

(* refreshRelayMemberAccessToken: a token that is due is renewed; who finds a *)
(* renewal in flight waits for it.                                            *)
Renew(f) ==
  LET g == fetching[f].gateway
      mine == inflight[Key(g)] = Void IN
  /\ At(f, "access") /\ Matches(g) /\ held.due
  /\ Goes(f, [fetching[f] EXCEPT !.at = "wait", !.token = held.token,
                !.waits = IF mine THEN f ELSE inflight[Key(g)]])
  /\ IF mine
     THEN /\ renewal' = [renewal EXCEPT ![f] = [token |-> held.token, gateway |-> g, answer |-> Void, next |-> Void]]
          /\ inflight' = [inflight EXCEPT ![Key(g)] = f]
     ELSE UNCHANGED <<renewal, inflight>>
  /\ UNCHANGED <<issued, withdrawn, held, freshest, refVars, joining, route, changes>>

(* The gateway prolongs the token or issues another, unless it has revoked it.*)
GatewayRenews(f) ==
  LET r == renewal[f] IN
  /\ r # Void /\ r.answer = Void
  /\ IF r.token \in withdrawn
     THEN renewal' = [renewal EXCEPT ![f].answer = "revoked"] /\ UNCHANGED issued
     ELSE \/ renewal' = [renewal EXCEPT ![f].answer = "renewed", ![f].next = r.token] /\ UNCHANGED issued
          \/ /\ Issue(r.gateway)
             /\ renewal' = [renewal EXCEPT ![f].answer = "renewed", ![f].next = Len(issued')]
  /\ UNCHANGED <<withdrawn, held, freshest, inflight, refVars, joining, fetching, route, changes>>

(* The renewal ends.  Those who wait for it take the token it returns or, if  *)
(* it failed, the one they have read.                                         *)
RenewEnds(f) ==
  LET r == renewal[f] IN
  /\ r # Void
  /\ \E answer \in {Void, r.answer} :
       /\ CASE answer = "renewed" -> Store(r.next)
            [] answer = "revoked" -> RemoveAccess
            [] answer = Void -> UNCHANGED <<held, freshest>>
       /\ fetching' = [e \in FetchTasks |->
            IF At(e, "wait") /\ fetching[e].waits = f
            THEN [fetching[e] EXCEPT !.at = "get", !.waits = Void,
                    !.token = IF answer = "renewed" THEN r.next ELSE @]
            ELSE fetching[e]]
  /\ renewal' = [renewal EXCEPT ![f] = Void]
  /\ inflight' = [inflight EXCEPT ![Key(r.gateway)] = Void]
  /\ UNCHANGED <<issued, withdrawn, refVars, joining, route, changes>>

(* The gateway has an answer: the mirror, unless the token is revoked.        *)
GatewayServes(f) ==
  /\ At(f, "get") /\ fetching[f].answer = Void
  /\ Goes(f, [fetching[f] EXCEPT !.answer = IF fetching[f].token \in withdrawn THEN "revoked" ELSE "mirror"])
  /\ UNCHANGED <<tokenVars, refVars, joining, route, changes>>

(* fetchRelayMirrorMetadata has an answer; on a revocation the relay's token  *)
(* is removed, whichever it is.                                               *)
Fetched(f) ==
  /\ At(f, "get") /\ fetching[f].answer # Void
  /\ IF fetching[f].answer = "mirror"
     THEN Goes(f, [NotFetching EXCEPT !.at = "apply"]) /\ UNCHANGED <<held, freshest>>
     ELSE Goes(f, NotFetching) /\ RemoveAccess
  /\ UNCHANGED <<issued, withdrawn, inflight, renewal, refVars, joining, route, changes>>

(* An error of the gateway, or of the network, or a timeout.                  *)
NotFetched(f) ==
  /\ At(f, "get") /\ Goes(f, NotFetching)
  /\ UNCHANGED <<tokenVars, refVars, joining, route, changes>>

(* Variant: the refs of the mirror alone.                                     *)
MergedVariant(listed) == listed

(* The refs of the profile that was read, and those that the mirror lists.    *)
Merged(listed) == own \cup listed

(* applyMirrorMetadataToProfile reads the profile.  It is saved if there are  *)
(* new refs or another blind peer.                                            *)
Apply(f) ==
  /\ At(f, "apply")
  /\ IF own = Void THEN Goes(f, NotFetching)
     ELSE \E listed \in SUBSET Refs, saves \in BOOLEAN :
            /\ Merged(listed) # own => saves
            /\ Goes(f, [fetching[f] EXCEPT !.at = "note", !.copy = Merged(listed), !.saves = saves])
  /\ UNCHANGED <<tokenVars, refVars, joining, route, changes>>

(* updateRelayMirrorCoreRefs, which takes the place of the refs before.       *)
Note(copy) == refs' = IF copy = {} THEN refs ELSE copy

NoteRefs(f) ==
  /\ At(f, "note") /\ Note(fetching[f].copy)
  /\ Goes(f, [fetching[f] EXCEPT !.at = IF fetching[f].saves THEN "save" ELSE "sync"])
  /\ UNCHANGED <<tokenVars, own, noting, joining, route, changes>>

(* The profile that was read is saved, even if there is none by now.          *)
SaveProfile(f) ==
  /\ At(f, "save") /\ Goes(f, [fetching[f] EXCEPT !.at = "sync"])
  /\ own' \in {own, fetching[f].copy}
  /\ UNCHANGED <<tokenVars, refs, noting, joining, route, changes>>

(* syncActiveRelayCoreRefs, unless these refs were synced: they are noted     *)
(* once more.                                                                 *)
SyncRefs(f) ==
  /\ At(f, "sync") /\ Goes(f, NotFetching)
  /\ Note(fetching[f].copy) \/ UNCHANGED refs
  /\ UNCHANGED <<tokenVars, own, noting, joining, route, changes>>

-----------------------------------------------------------------------------
(* The provisioning of a writer adds it to the refs that it has read: of the  *)
(* store, or of the profile if the store has none.                            *)
ReadRefs ==
  /\ noting = Void
  /\ noting' = {NewRef} \cup IF refs = {} /\ own # Void THEN own ELSE refs
  /\ UNCHANGED <<tokenVars, own, refs, joining, fetching, route, changes>>

(* It notes them, and its sync notes them again.                              *)
NoteWriter ==
  /\ noting # Void /\ Note(noting) /\ noting' \in {noting, Void}
  /\ UNCHANGED <<tokenVars, own, joining, fetching, route, changes>>

-----------------------------------------------------------------------------
(* What others do: the clock, the gateway, the relay's announcements, joins   *)
(* that make a profile and leaves that remove it.                             *)
Changes == changes < MaxChanges /\ changes' = changes + 1

Ages ==
  /\ Changes /\ held # Void
  /\ IF held.due THEN held' = Void /\ freshest' = Void
     ELSE held' = [held EXCEPT !.due = TRUE] /\ UNCHANGED freshest
  /\ UNCHANGED <<issued, withdrawn, inflight, renewal, refVars, joining, fetching, route>>

Withdraws(g) ==
  /\ Changes /\ withdrawn' = withdrawn \cup {n \in DOMAIN issued : issued[n] = g}
  /\ UNCHANGED <<issued, held, freshest, inflight, renewal, refVars, joining, fetching, route>>

Reroutes(g) ==
  /\ Changes /\ route' = g
  /\ UNCHANGED <<tokenVars, refVars, joining, fetching>>

ProfileChanges ==
  /\ Changes /\ own' = IF own = Void THEN {} ELSE Void
  /\ UNCHANGED <<tokenVars, refs, noting, joining, fetching, route>>

-----------------------------------------------------------------------------
(* Requests at work that may store a token: "tokens", a join's request came   *)
(* together with another or with a fetch that has a token.  "refs", refs were *)
(* noted by two at once.                                                      *)
Requesting == {j \in JoinTasks : joining[j].at = "request" /\ joining[j].kind # "append"}
WithToken == {f \in FetchTasks : fetching[f].at \in {"wait", "get"} /\ fetching[f].token # Void}
Noting == {f \in FetchTasks : fetching[f].at \in {"note", "save", "sync"}}

Overlaps ==
  {o \in {"tokens", "refs"} :
     \/ o = "tokens" /\ Requesting # {} /\ Cardinality(Requesting) + Cardinality(WithToken) > 1
     \/ o = "refs" /\ Cardinality(Noting) + (IF noting = Void THEN 0 ELSE 1) > 1}

JoinStep(j) ==
  \/ Challenge(j) \/ GatewayAnswers(j)
  \/ ClaimEnds(j) \/ Bootstrapped(j) \/ NotBootstrapped(j) \/ Appended(j)
FetchStep(f) ==
  \/ Routes(f) \/ ResolveAccess(f) \/ Renew(f) \/ GatewayRenews(f) \/ RenewEnds(f)
  \/ GatewayServes(f) \/ Fetched(f) \/ NotFetched(f)
  \/ Apply(f) \/ NoteRefs(f) \/ SaveProfile(f) \/ SyncRefs(f)

Step ==
  \/ \E j \in JoinTasks : BeginClaim(j) \/ BeginOpenJoin(j) \/ BeginAppend(j) \/ JoinStep(j)
  \/ \E f \in FetchTasks : BeginFetch(f) \/ FetchStep(f)
  \/ ReadRefs \/ NoteWriter
  \/ Ages \/ ProfileChanges \/ \E g \in Gateways : Withdraws(g) \/ Reroutes(g)

Noted(A) == A /\ overlaps' = overlaps \cup (Overlaps)'
AccessNext == Noted(Step)

AccessSpec == AccessInit /\ [][AccessNext]_accessVars

-----------------------------------------------------------------------------
(* Every variable has its type.                                               *)
AccessTypeOK ==
  /\ issued \in Seq(Gateways) /\ withdrawn \subseteq DOMAIN issued
  /\ held \in {Void} \cup [token : DOMAIN issued, due : BOOLEAN]
  /\ freshest \in {Void} \cup DOMAIN issued
  /\ inflight \in [Gateways -> {Void} \cup FetchTasks]
  /\ \A f \in FetchTasks : renewal[f] # Void =>
       renewal[f].token \in DOMAIN issued /\ inflight[Key(renewal[f].gateway)] # Void
  /\ route \in Gateways \cup {Void}
  /\ own \in {Void} \cup SUBSET Refs /\ refs \subseteq Refs /\ noting \in {Void} \cup SUBSET Refs
  /\ overlaps \subseteq {"tokens", "refs"} /\ changes \in 0..MaxChanges

(* A token is sent to the gateway that issued it, and to no other.            *)
SentHome ==
  \A f \in FetchTasks :
    /\ fetching[f].token # Void => issued[fetching[f].token] = fetching[f].gateway
    /\ renewal[f] # Void => issued[renewal[f].token] = renewal[f].gateway

(* The worker holds the newest token that it was sent, until the token        *)
(* expires or is revoked, and however many fetches renew it.  A join whose    *)
(* request overlaps another request with a token may lose its own to a late   *)
(* answer.                                                                    *)
NewestHeld ==
  "tokens" \notin overlaps =>
    IF held = Void THEN freshest = Void \/ freshest \in withdrawn ELSE held.token = freshest

(* Refs that are in the profile are in the store of core refs, unless two     *)
(* noted refs at once.                                                        *)
RefsNoted ==
  "refs" \notin overlaps /\ Noting = {} /\ noting = Void /\ own # Void => own \subseteq refs
=============================================================================
