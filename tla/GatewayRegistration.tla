------------------------- MODULE GatewayRegistration -------------------------
(* Registration of relays with their gateways (src/relay-server.mjs:          *)
(* registerWithGateway, processPendingRegistrations, setGatewayConnection).   *)
(* A registration that finds no connection to its gateway, or fails, waits in *)
(* a queue; when a gateway connects or identifies itself its queue is         *)
(* processed.  Every call is asynchronous: several processors can work on the *)
(* same queue, and a gateway can leave while a registration is under way.     *)
(*                                                                            *)
(* A queue belongs to a gateway origin; registrations for gateways known only *)
(* by their id, and general ones for no relay (null), wait in the queue with  *)
(* no origin.  What is registered is abstracted to the relay it is about, and *)
(* the many reads before a request is sent to one step.                       *)
EXTENDS Naturals, Sequences, FiniteSets, SequencesExt

CONSTANTS
  Relays,        \* relays whose profile is registered once each
  Gateways,      \* gateways, all with an id
  HasOrigin,     \* those with an origin
  GatewayOf,     \* the gateway a relay is routed to
  Processors,    \* bound on the calls of processPendingRegistrations at a time
  MaxConnects,   \* bound on connections, identifications and startups
  MaxGeneral,    \* bound on failures of periodic registrations
  NoOrigin, General

RegistrationConstants ==
  /\ HasOrigin \subseteq Gateways
  /\ GatewayOf \in [Relays -> Gateways]
  /\ NoOrigin \notin Gateways /\ General \notin Relays
  /\ MaxConnects \in Nat /\ MaxGeneral \in Nat

VARIABLES
  gateway,     \* down, open (handshake seen) or identified (a route to it exists)
  queue,       \* pendingRegistrations and pendingRegistrationsByOrigin
  ask,         \* the relay's own registerWithGateway call
  proc,        \* calls of processPendingRegistrations
  registered,  \* relays whose registration was acknowledged
  unrouted,    \* relays a processor took from a queue and found no connection for
  connects, generals   \* counters of the bounds

registrationVars == <<gateway, queue, ask, proc, registered, unrouted, connects, generals>>
counters == <<connects, generals>>

QueueKeys == HasOrigin \cup {NoOrigin}
Items == Relays \cup {General}
Phases == {"none", "reading", "sent", "failed", "over"}
Idle == [phase |-> "idle", key |-> NoOrigin, item |-> General, last |-> FALSE]

(* getPendingRegistrationQueue.                                               *)
KeyOf(g) == IF g \in HasOrigin THEN g ELSE NoOrigin
KeyOfRelay(r) == KeyOf(GatewayOf[r])

(* getGatewayConnectionForRoute.                                              *)
Routed(r) == gateway[GatewayOf[r]] = "identified"

Enqueue(key, x) == [queue EXCEPT ![key] = Append(@, x)]
Unshift(key, x) == [queue EXCEPT ![key] = <<x>> \o @]

RegistrationInit ==
  /\ gateway = [g \in Gateways |-> "down"]
  /\ queue = [k \in QueueKeys |-> <<>>]
  /\ ask = [r \in Relays |-> "none"]
  /\ proc = [p \in Processors |-> Idle]
  /\ registered = {}
  /\ unrouted = {}
  /\ connects = 0 /\ generals = 0

-----------------------------------------------------------------------------
(* registerWithGateway(profile) of a relay that was created or joined.        *)

Ask(r) ==
  /\ ask[r] = "none"
  /\ ask' = [ask EXCEPT ![r] = "reading"]
  /\ UNCHANGED <<gateway, queue, proc, registered, unrouted, counters>>

(* The route of the relay is known and a connection is looked up for it.      *)
AskRoute(r) ==
  /\ ask[r] = "reading"
  /\ \/ /\ Routed(r)
        /\ ask' = [ask EXCEPT ![r] = "sent"]
        /\ UNCHANGED queue
     \/ /\ ~Routed(r)
        /\ ask' = [ask EXCEPT ![r] = "over"]
        /\ queue' = Enqueue(KeyOfRelay(r), r)
  /\ UNCHANGED <<gateway, proc, registered, unrouted, counters>>

AskAcknowledged(r) ==
  /\ ask[r] = "sent"
  /\ ask' = [ask EXCEPT ![r] = "over"]
  /\ registered' = registered \cup {r}
  /\ UNCHANGED <<gateway, queue, proc, unrouted, counters>>

(* The request timed out, was refused, lost its connection, or a step after   *)
(* the acknowledgement failed: catch, queue again, throw.                     *)
AskFails(r) ==
  /\ ask[r] \in {"sent", "failed"}
  /\ ask' = [ask EXCEPT ![r] = "over"]
  /\ queue' = Enqueue(KeyOfRelay(r), r)
  /\ UNCHANGED <<gateway, proc, registered, unrouted, counters>>

(* A read fails before the route is known: the queue is the one with no       *)
(* origin, whatever the relay's gateway is.                                   *)
AskReadFails(r) ==
  /\ ask[r] = "reading"
  /\ ask' = [ask EXCEPT ![r] = "over"]
  /\ queue' = Enqueue(NoOrigin, r)
  /\ UNCHANGED <<gateway, proc, registered, unrouted, counters>>

(* registerWithGateway() of the interval, as far as the queues see it: a      *)
(* failure leaves a general registration.                                     *)
PeriodicFails(key) ==
  /\ generals < MaxGeneral
  /\ generals' = generals + 1
  /\ queue' = Enqueue(key, General)
  /\ UNCHANGED <<gateway, ask, proc, registered, unrouted, connects>>

-----------------------------------------------------------------------------
(* processPendingRegistrations                                                *)

(* The call runs up to the reads of its first registration.                   *)
Process(key) ==
  \/ queue[key] = <<>> /\ UNCHANGED <<queue, proc>>
  \/ /\ queue[key] # <<>>
     /\ \E p \in Processors :
          /\ proc[p] = Idle
          /\ proc' = [proc EXCEPT ![p] = [phase |-> "reading", key |-> key,
                                          item |-> Head(queue[key]), last |-> FALSE]]
          /\ queue' = [queue EXCEPT ![key] = Tail(@)]

(* The end of an iteration: the next registration, or, when there is none,    *)
(* the fresh registration with the current state.                             *)
Loop(p) ==
  LET key == proc[p].key IN
  IF queue[key] # <<>>
  THEN /\ proc' = [proc EXCEPT ![p] = [@ EXCEPT !.phase = "reading", !.item = Head(queue[key])]]
       /\ queue' = [queue EXCEPT ![key] = Tail(@)]
  ELSE /\ proc' = [proc EXCEPT ![p] =
                    [@ EXCEPT !.phase = "reading", !.item = General, !.last = TRUE]]
       /\ UNCHANGED queue

(* The route of the registration: without a connection registerWithGateway    *)
(* returns {queued: true}, and, called with skipQueue, queues nothing; the    *)
(* processor goes on as if it had been sent.                                  *)
ProcRoute(p) ==
  LET x == proc[p].item IN
  /\ proc[p].phase = "reading" /\ x \in Relays
  /\ \/ /\ Routed(x)
        /\ proc' = [proc EXCEPT ![p].phase = "sent"]
        /\ UNCHANGED <<queue, unrouted>>
     \/ /\ ~Routed(x)
        /\ unrouted' = unrouted \cup {x}
        /\ Loop(p)
  /\ UNCHANGED <<gateway, ask, registered, counters>>

ProcAcknowledged(p) ==
  /\ proc[p].phase = "sent"
  /\ registered' = registered \cup {proc[p].item}
  /\ Loop(p)
  /\ UNCHANGED <<gateway, ask, unrouted, counters>>

(* A general registration succeeds, or there is nothing to send it to.        *)
ProcGeneral(p) ==
  /\ proc[p].phase = "reading" /\ proc[p].item = General
  /\ \/ ~proc[p].last /\ Loop(p)
     \/ proc[p].last /\ proc' = [proc EXCEPT ![p] = Idle] /\ UNCHANGED queue
  /\ UNCHANGED <<gateway, ask, registered, unrouted, counters>>

ForgetFailedVariant(p) ==
  /\ proc[p].phase \in {"reading", "sent", "failed"}
  /\ proc' = [proc EXCEPT ![p] = Idle]
  /\ UNCHANGED <<gateway, queue, ask, registered, unrouted, counters>>

QueueTwiceVariant(p) ==
  /\ proc[p].phase \in {"reading", "sent", "failed"}
  /\ queue' = [queue EXCEPT ![proc[p].key] = <<proc[p].item>> \o Append(@, proc[p].item)]
  /\ proc' = [proc EXCEPT ![p] = Idle]
  /\ UNCHANGED <<gateway, ask, registered, unrouted, counters>>

RetryAtOnceVariant(p) ==
  /\ proc[p].phase \in {"reading", "sent", "failed"}
  /\ proc' = [proc EXCEPT ![p].phase = "reading"]
  /\ UNCHANGED <<gateway, queue, ask, registered, unrouted, counters>>

(* A failure puts the registration back in front and ends the call.           *)
ProcFails(p) ==
  /\ proc[p].phase \in {"reading", "sent", "failed"}
  /\ queue' = Unshift(proc[p].key, proc[p].item)
  /\ proc' = [proc EXCEPT ![p] = Idle]
  /\ UNCHANGED <<gateway, ask, registered, unrouted, counters>>

-----------------------------------------------------------------------------
(* Connections (setGatewayConnection and the 'close' event)                   *)

(* The handshake names no origin and no id.                                   *)
GatewayOpens(g) ==
  /\ gateway[g] = "down" /\ connects < MaxConnects
  /\ connects' = connects + 1
  /\ gateway' = [gateway EXCEPT ![g] = "open"]
  /\ Process(NoOrigin)
  /\ UNCHANGED <<ask, registered, unrouted, generals>>

(* /identify-gateway, which a gateway may send again.                         *)
GatewayIdentifies(g) ==
  /\ gateway[g] # "down" /\ connects < MaxConnects
  /\ connects' = connects + 1
  /\ gateway' = [gateway EXCEPT ![g] = "identified"]
  /\ Process(KeyOf(g))
  /\ UNCHANGED <<ask, registered, unrouted, generals>>

KeepRequestsVariant(g) ==
  /\ gateway[g] # "down"
  /\ gateway' = [gateway EXCEPT ![g] = "down"]
  /\ UNCHANGED <<queue, ask, proc, registered, unrouted, counters>>

(* connectStoredRelays, at the end: every queue is tried.                     *)
Startup(key) ==
  /\ connects < MaxConnects
  /\ connects' = connects + 1
  /\ IF key = NoOrigin THEN \E g \in Gateways : gateway[g] # "down"
                       ELSE gateway[key] = "identified"
  /\ Process(key)
  /\ UNCHANGED <<gateway, ask, registered, unrouted, generals>>

(* The requests on the connection are rejected (RelayProtocol._onclose).      *)
GatewayCloses(g) ==
  /\ gateway[g] # "down"
  /\ gateway' = [gateway EXCEPT ![g] = "down"]
  /\ ask' = [r \in Relays |->
              IF ask[r] = "sent" /\ GatewayOf[r] = g THEN "failed" ELSE ask[r]]
  /\ proc' = [p \in Processors |->
               IF proc[p].phase = "sent" /\ GatewayOf[proc[p].item] = g
               THEN [proc[p] EXCEPT !.phase = "failed"] ELSE proc[p]]
  /\ UNCHANGED <<queue, registered, unrouted, counters>>

-----------------------------------------------------------------------------
RegistrationNext ==
  \/ \E r \in Relays :
       Ask(r) \/ AskRoute(r) \/ AskAcknowledged(r) \/ AskFails(r) \/ AskReadFails(r)
  \/ \E k \in QueueKeys : PeriodicFails(k) \/ Startup(k)
  \/ \E p \in Processors :
       ProcRoute(p) \/ ProcAcknowledged(p) \/ ProcGeneral(p) \/ ProcFails(p)
  \/ \E g \in Gateways : GatewayOpens(g) \/ GatewayIdentifies(g) \/ GatewayCloses(g)

RegistrationSpec == RegistrationInit /\ [][RegistrationNext]_registrationVars

(* Reads end and requests are answered, refused or time out; nothing has to   *)
(* connect, fail or leave.                                                    *)
RegistrationFairness ==
  /\ \A r \in Relays :
       WF_registrationVars(AskRoute(r)) /\ WF_registrationVars(AskAcknowledged(r) \/ AskFails(r))
  /\ \A p \in Processors :
       WF_registrationVars(ProcRoute(p) \/ ProcAcknowledged(p) \/ ProcGeneral(p) \/ ProcFails(p))

RegistrationFairSpec == RegistrationSpec /\ RegistrationFairness

-----------------------------------------------------------------------------
(* The variables hold what the code can put into them; a request that is out  *)
(* is about a relay and has a connection.                                     *)
RegistrationTypeOK ==
  /\ gateway \in [Gateways -> {"down", "open", "identified"}]
  /\ DOMAIN queue = QueueKeys /\ \A k \in QueueKeys : ToSet(queue[k]) \subseteq Items
  /\ ask \in [Relays -> Phases]
  /\ \A p \in Processors :
       /\ proc[p] \in [phase : Phases \cup {"idle"}, key : QueueKeys, item : Items,
                       last : BOOLEAN]
       /\ proc[p].phase = "sent" =>
            proc[p].item \in Relays /\ gateway[GatewayOf[proc[p].item]] = "identified"
  /\ registered \subseteq Relays /\ unrouted \subseteq Relays
  /\ connects \in 0..MaxConnects /\ generals \in 0..MaxGeneral

(* Where a relay's registration is: in queues, in processors, in its own call.*)
InQueue(r) ==
  UNION {{<<k, i>> : i \in {j \in DOMAIN queue[k] : queue[k][j] = r}} : k \in QueueKeys}
InProcessor(r) == {p \in Processors : proc[p].phase # "idle" /\ proc[p].item = r}
InCall(r) == IF ask[r] \in {"reading", "sent", "failed"} THEN {r} ELSE {}
Held(r) == InQueue(r) \cup InProcessor(r) \cup InCall(r)

(* However many processors, failures and reconnections there are, a           *)
(* registration is in one place at a time, and in none once it is             *)
(* acknowledged: it is never sent again.                                      *)
HeldOnce ==
  \A r \in Relays : Cardinality(InQueue(r)) + Cardinality(InProcessor(r)) + Cardinality(InCall(r))
                      <= IF r \in registered THEN 0 ELSE 1

(* A registration that was asked for is acknowledged or still held, unless a  *)
(* processor found no connection for it: no failure and no reconnection       *)
(* loses one (the catch of registerWithGateway and of the processor).         *)
OnlyUnroutedLost ==
  \A r \in Relays : ask[r] # "none" => r \in registered \cup unrouted \/ Held(r) # {}

(* A processor comes to an end, even when the gateway never answers: time and *)
(* again it is idle.                                                          *)
ProcessorEnded(p) == proc[p] = Idle

(* What the queue is for: "Queue registrations until gateway connects".  A    *)
(* registration that was not acknowledged waits for its gateway.              *)
QueuedUntilConnected ==
  \A r \in Relays : ask[r] # "none" => r \in registered \/ Held(r) # {}
=============================================================================
