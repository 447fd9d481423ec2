---------------------------- MODULE GatewayTokens ----------------------------
(* The tokens a peer holds of a public gateway for one relay, as              *)
(* GatewayService keeps them: the entry of the relay, the state shown to the  *)
(* user, the token and the one timer of the relay, and the asynchronous calls *)
(* that read and write them (registrations, refreshes, tokens issued on       *)
(* demand, the pool of writers for open joins, changes of the settings).      *)
(* A call is a task: "pc" is what it awaits, the other fields are what it     *)
(* read before it waited.                                                     *)
EXTENDS Naturals

CONSTANTS
  Callers,       \* slots of the calls that run at a time
  TimerTask,     \* the slot of the refresh that the timer starts
  Kinds,         \* the kinds of entry that a registration leaves
  MaxTokens, MaxAuth, MaxChanges  \* bounds: tokens issued, logins, changes of settings

Tasks == Callers \union {TimerTask}

TokenConstants ==
  /\ TimerTask \notin Callers
  /\ Kinds \subseteq {"open", "closed", "direct"}
  /\ MaxTokens \in Nat /\ MaxAuth \in Nat /\ MaxChanges \in Nat

VARIABLES
  enabled,       \* publicGatewaySettings.enabled, with an address
  entry,         \* what activeRelays holds of the relay
  shown,         \* publicGatewayRelayState of the relay
  token,         \* publicGatewayRelayTokens of the relay
  tokenTimer,    \* whether publicGatewayRelayTokenTimers has a timer of it
  poolLock,      \* whether openJoinPoolSyncLocks has the relay
  auth,          \* the relay's own token of the user, 0 without one
  task, issued, changes

tokenVars == <<enabled, entry, shown, token, tokenTimer, poolLock, auth, task, issued, changes>>

NoToken == [id |-> 0, auth |-> 0]
NoState == [status |-> "none", id |-> 0]

(* A call that begins.                                                        *)
NewTask(pc, why, kind, flag) ==
  [pc |-> pc, why |-> why, kind |-> kind, flag |-> flag, auth |-> 0, tries |-> 0]

Idle == NewTask("idle", "none", "none", FALSE)

PoolSteps == {"preflight", "provision", "update"}
RefreshSteps == {"refresh", "renew", "issueroute", "issue"}
Steps == {"idle", "route", "register", "config", "resync"} \union PoolSteps \union RefreshSteps

TaskStates ==
  [pc : Steps, why : {"none", "sync", "timer", "api", "warm"}, kind : Kinds \union {"none"},
   flag : BOOLEAN, auth : 0..MaxAuth, tries : 0..1]

ShownStates == [status : {"none", "error", "registered"}, id : 0..MaxTokens]
TokenStates == [id : 0..MaxTokens, auth : 0..MaxAuth]

TokenTypeOK ==
  /\ enabled \in BOOLEAN /\ tokenTimer \in BOOLEAN /\ poolLock \in BOOLEAN
  /\ entry \in Kinds \union {"none"}
  /\ shown \in ShownStates /\ token \in TokenStates
  /\ auth \in 0..MaxAuth /\ issued \in 0..MaxTokens /\ changes \in 0..MaxChanges
  /\ task \in [Tasks -> TaskStates]

TokenInit ==
  /\ enabled = TRUE /\ entry = "none" /\ shown = NoState /\ token = NoToken
  /\ tokenTimer = FALSE /\ poolLock = FALSE /\ auth = 0
  /\ task = [t \in Tasks |-> Idle] /\ issued = 0 /\ changes = 0

-----------------------------------------------------------------------------
(* Variant: the timer is cleared and the token forgotten.                     *)
ClearVariant == token' = token /\ tokenTimer' = FALSE /\ shown' = [shown EXCEPT !.id = 0]

(* The token, its timer and what is shown of it.                              *)
Clear == token' = NoToken /\ tokenTimer' = FALSE /\ shown' = [shown EXCEPT !.id = 0]

Forget == token' = NoToken /\ tokenTimer' = FALSE /\ shown' = NoState

Record(a) ==
  /\ issued' = issued + 1
  /\ token' = [id |-> issued + 1, auth |-> a]
  /\ tokenTimer' = TRUE
  /\ shown' = IF shown.status = "none" THEN shown ELSE [shown EXCEPT !.id = issued + 1]

Shows(status, id) == shown' = [status |-> status, id |-> id]

Does(t, step) == task' = [task EXCEPT ![t] = step]
Goes(t, pc) == Does(t, [task[t] EXCEPT !.pc = pc])
Ends(t) == Does(t, Idle)

-----------------------------------------------------------------------------
(* A sync registers the relay with the gateway, unless the gateway is off or  *)
(* the relay is not for it.                                                   *)
SyncStarts(t, kind) ==
  IF enabled /\ kind \notin {"none", "direct"}
  THEN /\ Does(t, NewTask("route", "sync", kind, FALSE))
       /\ UNCHANGED <<shown, token, tokenTimer>>
  ELSE Forget /\ Ends(t)

(* A peer registers the relay: its entry takes what the peer says of it.      *)
RegisterPeer(t) == \E kind \in Kinds :
  /\ t \in Callers /\ task[t] = Idle
  /\ entry' = kind
  /\ SyncStarts(t, kind)
  /\ UNCHANGED <<enabled, poolLock, auth, issued, changes>>

Sync(t) ==
  /\ t \in Callers /\ task[t] = Idle
  /\ SyncStarts(t, entry)
  /\ UNCHANGED <<enabled, entry, poolLock, auth, issued, changes>>

SyncRoute(t) ==
  /\ task[t].pc = "route"
  /\ \/ Goes(t, "register") /\ UNCHANGED <<shown, token, tokenTimer>>
     \/ Shows("error", 0) /\ token' = NoToken /\ tokenTimer' = FALSE /\ Ends(t)
  /\ UNCHANGED <<enabled, entry, poolLock, auth, issued, changes>>

(* The end of a sync whose relay is registered: the token kept is shown, and  *)
(* a refresh starts.                                                          *)
Registered(t) ==
  /\ Shows("registered", token.id)
  /\ Does(t, NewTask("refresh", "sync", "none", TRUE))

(* The gateway answers the registration: with the address of its store, the   *)
(* metadata read when the sync began is written back.                         *)
RegisterAnswer(t) ==
  /\ task[t].pc = "register"
  /\ \/ /\ entry' \in {entry, task[t].kind}
        /\ UNCHANGED <<token, tokenTimer>>
        /\ IF poolLock THEN Registered(t) /\ UNCHANGED poolLock
           ELSE Goes(t, "preflight") /\ poolLock' = TRUE /\ UNCHANGED shown
     \/ /\ Shows("error", 0) /\ tokenTimer' = TRUE /\ Ends(t)
        /\ UNCHANGED <<entry, token, poolLock>>
  /\ UNCHANGED <<enabled, auth, issued, changes>>

-----------------------------------------------------------------------------
(* The pool of writers for open joins, which a sync and an interval fill.     *)
KeepWarm(t) ==
  /\ t \in Callers /\ task[t] = Idle /\ enabled /\ entry # "none" /\ ~poolLock
  /\ Does(t, NewTask("preflight", "warm", entry, FALSE))
  /\ poolLock' = TRUE
  /\ UNCHANGED <<enabled, entry, shown, token, tokenTimer, auth, issued, changes>>

(* Variant: the interval's call does not release the lock.                    *)
PoolEndsVariant(t) ==
  IF task[t].why = "warm" THEN Ends(t) /\ UNCHANGED <<shown, poolLock>>
  ELSE poolLock' = FALSE /\ Registered(t)

PoolEnds(t) ==
  /\ poolLock' = FALSE
  /\ IF task[t].why = "warm" THEN Ends(t) /\ UNCHANGED shown ELSE Registered(t)

(* The gateway says how many writers it needs; each of at most two rounds     *)
(* provisions them and sends them.                                            *)
PoolStep(t) ==
  /\ \/ task[t].pc \in PoolSteps /\ PoolEnds(t)
     \/ /\ task[t].pc = "preflight" /\ task[t].kind = "open" /\ Goes(t, "provision")
        /\ UNCHANGED <<poolLock, shown>>
     \/ task[t].pc = "provision" /\ Goes(t, "update") /\ UNCHANGED <<poolLock, shown>>
     \/ /\ task[t].pc = "update" /\ task[t].tries = 0
        /\ Does(t, [task[t] EXCEPT !.pc = "provision", !.tries = 1])
        /\ UNCHANGED <<poolLock, shown>>
  /\ UNCHANGED <<enabled, entry, token, tokenTimer, auth, issued, changes>>

-----------------------------------------------------------------------------
(* The refresh of the token.                                                  *)
TimerFires ==
  /\ tokenTimer /\ task[TimerTask] = Idle
  /\ tokenTimer' = FALSE
  /\ Does(TimerTask, NewTask("refresh", "timer", "none", shown.status = "registered"))
  /\ UNCHANGED <<enabled, entry, shown, token, poolLock, auth, issued, changes>>

(* With the route to the gateway, or without one: a token is dropped unless   *)
(* the relay was registered; without the user's own token the refresh is      *)
(* tried again; a token of another login is replaced, else it is renewed.     *)
Refresh(t) ==
  /\ task[t].pc = "refresh"
  /\ \/ Clear /\ Ends(t)
     \/ /\ enabled /\ task[t].flag /\ auth = 0
        /\ token' = NoToken /\ tokenTimer' = TRUE /\ shown' = [shown EXCEPT !.id = 0]
        /\ Ends(t)
     \/ /\ enabled /\ task[t].flag /\ auth # 0
        /\ token' = IF token.id = 0 THEN token ELSE [token EXCEPT !.auth = auth]
        /\ IF token.id # 0 /\ token.auth = auth
           THEN Does(t, [task[t] EXCEPT !.pc = "renew", !.auth = auth])
           ELSE Goes(t, "issueroute")
        /\ UNCHANGED <<tokenTimer, shown>>
  /\ UNCHANGED <<enabled, entry, poolLock, auth, issued, changes>>

(* Variant: a failure is not tried again.                                     *)
FailsVariant(t) == Ends(t) /\ UNCHANGED <<shown, token, tokenTimer, issued>>

(* A failure of a refresh is tried again, that of a call is the caller's.     *)
Fails(t) ==
  /\ tokenTimer' = (tokenTimer \/ task[t].why # "api")
  /\ Ends(t)
  /\ UNCHANGED <<shown, token, issued>>

Issue(t) ==
  /\ t \in Callers /\ task[t] = Idle /\ entry # "none"
  /\ Does(t, NewTask("issueroute", "api", "none", FALSE))
  /\ UNCHANGED <<enabled, entry, shown, token, tokenTimer, poolLock, auth, issued, changes>>

IssueRoute(t) ==
  /\ task[t].pc = "issueroute"
  /\ \/ Fails(t)
     \/ /\ enabled /\ auth # 0
        /\ Does(t, [task[t] EXCEPT !.pc = "issue", !.auth = auth])
        /\ UNCHANGED <<shown, token, tokenTimer, issued>>
  /\ UNCHANGED <<enabled, entry, poolLock, auth, changes>>

(* The gateway answers with a token, or fails.                                *)
Renewed(t) ==
  /\ task[t].pc = "renew"
  /\ \/ Fails(t)
     \/ issued < MaxTokens /\ Record(task[t].auth) /\ Ends(t)
  /\ UNCHANGED <<enabled, entry, poolLock, auth, changes>>

Issued(t) ==
  /\ task[t].pc = "issue"
  /\ \/ Fails(t)
     \/ issued < MaxTokens /\ Record(task[t].auth) /\ Ends(t)
  /\ UNCHANGED <<enabled, entry, poolLock, auth, changes>>

-----------------------------------------------------------------------------
(* The settings change, by the user or after a discovery: what is wanted is   *)
(* read before the gateway is resolved, and written after.                    *)
Configure(t) == \E on \in BOOLEAN :
  /\ t \in Callers /\ task[t] = Idle /\ changes < MaxChanges
  /\ changes' = changes + 1
  /\ Does(t, NewTask("config", "none", "none", on))
  /\ UNCHANGED <<enabled, entry, shown, token, tokenTimer, poolLock, auth, issued>>

Configured(t) ==
  /\ task[t].pc = "config"
  /\ enabled' = task[t].flag
  /\ IF enabled' THEN Goes(t, "resync") /\ UNCHANGED <<shown, token, tokenTimer>>
     ELSE Forget /\ Ends(t)
  /\ UNCHANGED <<entry, poolLock, auth, issued, changes>>

Resync(t) ==
  /\ task[t].pc = "resync"
  /\ IF entry = "none" /\ enabled THEN Ends(t) /\ UNCHANGED <<shown, token, tokenTimer>>
     ELSE SyncStarts(t, entry)
  /\ UNCHANGED <<enabled, entry, poolLock, auth, issued, changes>>

(* The user logs in again, or joins: the relay gives the user a new token.    *)
NewAuth ==
  /\ auth < MaxAuth /\ auth' = auth + 1
  /\ UNCHANGED <<enabled, entry, shown, token, tokenTimer, poolLock, task, issued, changes>>

-----------------------------------------------------------------------------
TaskStep(t) ==
  \/ SyncRoute(t) \/ RegisterAnswer(t) \/ PoolStep(t) \/ Refresh(t)
  \/ IssueRoute(t) \/ Renewed(t) \/ Issued(t) \/ Configured(t) \/ Resync(t)

TokenNext ==
  \/ \E t \in Callers :
       RegisterPeer(t) \/ Sync(t) \/ KeepWarm(t) \/ Issue(t) \/ Configure(t)
  \/ \E t \in Tasks : TaskStep(t)
  \/ TimerFires \/ NewAuth

-----------------------------------------------------------------------------
(* A token that is kept is looked after, whatever calls overlap: its timer is *)
(* armed or a refresh is under way (1130-1174, 1258-1364).  What is shown is  *)
(* the token that is kept, for a relay that is registered always (1232, 1968).*)
(* The lock of the pool is held by exactly one call (2693-2903).              *)
TokensKept ==
  /\ token.id # 0 => \/ tokenTimer
                     \/ \E t \in Tasks : task[t].pc \in RefreshSteps /\ task[t].why # "api"
  /\ shown.id # 0 => shown.id = token.id
  /\ shown.status = "registered" => shown.id = token.id
  /\ LET inPool == {t \in Tasks : task[t].pc \in PoolSteps}
     IN IF poolLock THEN \E t \in inPool : inPool = {t} ELSE inPool = {}

(* While the gateway stays off no token stays, also none that a call in       *)
(* flight records after the change (2994, 1265).                              *)
TokensEnd == []<>(enabled \/ token = NoToken)

TokenSpec ==
  /\ TokenInit /\ [][TokenNext]_tokenVars
  /\ \A t \in Tasks : WF_tokenVars(TaskStep(t))
  /\ WF_tokenVars(TimerFires)
==============================================================================
