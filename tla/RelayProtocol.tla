---------------------------- MODULE RelayProtocol ----------------------------
(* RelayProtocol (src/relay-protocol.mjs): HTTP-like requests and health      *)
(* checks between two peers over one Protomux channel.  The client keeps the  *)
(* promise of every request it sent in the map `requests` under an id from a  *)
(* counter; an answer, a timeout or the end of the channel settles it.  Each  *)
(* peer can play both parts, with maps and ids of its own, so one direction   *)
(* is modelled.  The channel delivers in order until it is closed.            *)
EXTENDS Integers, Sequences, FiniteSets

CONSTANTS
  Calls,     \* calls of sendRequest and sendHealthCheck, each made at most once
  Health,    \* those that are health checks
  Handled,   \* requests whose path matches a handler of the server
  Timed,     \* requests with a timeout (RELAY_PROTOCOL_REQUEST_TIMEOUT_MS or timeoutMs)
  None       \* no call

ASSUME CallKinds ==
  /\ Health \subseteq Calls /\ Handled \subseteq Calls /\ Timed \subseteq Calls
  /\ None \notin Calls

VARIABLES
  call,        \* the caller's promise: new, waiting, resolved or rejected
  answer,      \* for a resolved call, the call whose answer it was given
  nextId,      \* this.requestId
  requests,    \* this.requests: set of [id, call], at most one per id
  clientOpen, serverOpen,      \* the channel, seen from each end
  toServer, toClient,          \* messages in flight, [id, call]
  handling,    \* handlers that run in the server, [id, call]
  answered     \* calls the server has answered

vars == <<call, answer, nextId, requests, clientOpen, serverOpen, toServer,
          toClient, handling, answered>>
client == <<call, answer, nextId, requests, clientOpen>>
server == <<serverOpen, handling, answered>>

Message == [id : Nat, call : Calls]
Status == {"new", "waiting", "resolved", "rejected"}

(* Health checks always time out, after 5 s.                                  *)
HasTimer(c) == c \in Health \cup Timed

Init ==
  /\ call = [c \in Calls |-> "new"]
  /\ answer = [c \in Calls |-> None]
  /\ nextId = 0
  /\ requests = {}
  /\ clientOpen = TRUE /\ serverOpen = TRUE
  /\ toServer = <<>> /\ toClient = <<>>
  /\ handling = {}
  /\ answered = {}

-----------------------------------------------------------------------------
(* Client                                                                     *)

PreDecrementVariant == nextId - 1

SizeAsIdVariant == Cardinality(requests)

NewId == nextId

(* Map.set: a second entry under an id replaces the first.                    *)
Put(m) == {r \in requests : r.id # m.id} \cup {m}

(* Protomux drops what is sent on a channel that is closed.                   *)
Sent(open, queue, m) == IF open THEN Append(queue, m) ELSE queue

(* sendRequest and sendHealthCheck.                                           *)
Send(c) ==
  LET m == [id |-> NewId, call |-> c] IN
  /\ call[c] = "new"
  /\ nextId' = nextId + 1
  /\ call' = [call EXCEPT ![c] = "waiting"]
  /\ requests' = Put(m)
  /\ toServer' = Sent(clientOpen, toServer, m)
  /\ UNCHANGED <<answer, clientOpen, toClient, server>>

InOrderVariant(id) == {r \in requests : \A q \in requests : r.id <= q.id}

(* this.requests.get(id): an id that is not in the map any more is that of an  *)
(* answer that comes too late.                                                *)
Found(id) == {r \in requests : r.id = id}

(* _onresponse and _onhealthresponse.                                         *)
ReceiveAnswer ==
  /\ clientOpen /\ toClient # <<>>
  /\ toClient' = Tail(toClient)
  /\ LET found == Found(Head(toClient).id) IN
     /\ requests' = requests \ found
     /\ call' = [c \in Calls |->
                  IF \E r \in found : r.call = c THEN "resolved" ELSE call[c]]
     /\ answer' = [c \in Calls |->
                  IF \E r \in found : r.call = c THEN Head(toClient).call ELSE answer[c]]
  /\ UNCHANGED <<nextId, clientOpen, toServer, server>>

KeepExpiredVariant(r) ==
  /\ r \in requests /\ HasTimer(r.call)
  /\ call[r.call] = "waiting"
  /\ call' = [call EXCEPT ![r.call] = "rejected"]
  /\ UNCHANGED <<answer, nextId, clientOpen, requests, toServer, toClient, server>>

(* The timer of a request.                                                    *)
Expire(r) ==
  /\ r \in requests /\ HasTimer(r.call)
  /\ requests' = requests \ {r}
  /\ call' = [call EXCEPT ![r.call] = "rejected"]
  /\ UNCHANGED <<answer, nextId, clientOpen, toServer, toClient, server>>

ForgetCallsVariant ==
  /\ clientOpen' = FALSE
  /\ requests' = {}
  /\ toClient' = <<>>
  /\ UNCHANGED <<call, answer, nextId, toServer, server>>

(* _onclose: everything that waits is rejected, and what is on its way to the *)
(* channel is not delivered.                                                  *)
OnCloseClient ==
  /\ clientOpen' = FALSE
  /\ requests' = {}
  /\ call' = [c \in Calls |->
               IF \E r \in requests : r.call = c THEN "rejected" ELSE call[c]]
  /\ toClient' = <<>>
  /\ UNCHANGED <<answer, nextId, toServer, server>>

(* destroy() or the failure of the stream.                                    *)
CloseClient == clientOpen /\ OnCloseClient

(* The close of the server arrives, after what the server sent before it.     *)
ClientSeesClose == clientOpen /\ ~serverOpen /\ toClient = <<>> /\ OnCloseClient

-----------------------------------------------------------------------------
(* Server                                                                     *)

(* sendResponse and sendHealthResponse.                                       *)
Respond(m) ==
  /\ toClient' = Sent(serverOpen /\ clientOpen, toClient, m)
  /\ answered' = answered \cup {m.call}

(* _onrequest and _onhealthcheck: a health check is answered at once, a path  *)
(* that matches starts its handler, any other path is only emitted.           *)
ReceiveRequest ==
  LET m == Head(toServer) IN
  /\ serverOpen /\ toServer # <<>>
  /\ toServer' = Tail(toServer)
  /\ \/ m.call \in Health /\ Respond(m) /\ UNCHANGED handling
     \/ /\ m.call \in Handled \ Health
        /\ handling' = handling \cup {m}
        /\ UNCHANGED <<toClient, answered>>
     \/ m.call \notin Handled \cup Health /\ UNCHANGED <<toClient, handling, answered>>
  /\ UNCHANGED <<client, serverOpen>>

(* _handleRequest after the handler: it returned, or it failed and is         *)
(* answered with status 500.  Handlers finish in any order.                   *)
FinishHandler(m) ==
  /\ m \in handling
  /\ handling' = handling \ {m}
  /\ Respond(m)
  /\ UNCHANGED <<client, serverOpen, toServer>>

OnCloseServer ==
  /\ serverOpen' = FALSE
  /\ toServer' = <<>>
  /\ UNCHANGED <<client, toClient, handling, answered>>

CloseServer == serverOpen /\ OnCloseServer

ServerSeesClose == serverOpen /\ ~clientOpen /\ toServer = <<>> /\ OnCloseServer

-----------------------------------------------------------------------------
Next ==
  \/ \E c \in Calls : Send(c)
  \/ ReceiveAnswer
  \/ \E r \in requests : Expire(r)
  \/ CloseClient
  \/ ClientSeesClose
  \/ ReceiveRequest
  \/ \E m \in handling : FinishHandler(m)
  \/ CloseServer
  \/ ServerSeesClose

Spec == Init /\ [][Next]_vars

(* Messages and closes that are on their way arrive, timers fire and handlers *)
(* finish; nothing has to be sent and nothing has to fail.                    *)
Fairness ==
  /\ WF_vars(ReceiveAnswer)
  /\ WF_vars(ClientSeesClose)
  /\ WF_vars(ReceiveRequest)
  /\ WF_vars(ServerSeesClose)
  /\ \A c \in Calls :
       /\ WF_vars(\E m \in handling : m.call = c /\ FinishHandler(m))
       /\ WF_vars(\E r \in requests : r.call = c /\ Expire(r))

FairSpec == Spec /\ Fairness

-----------------------------------------------------------------------------
(* The variables hold what the code can put into them.                        *)
TypeOK ==
  /\ call \in [Calls -> Status]
  /\ answer \in [Calls -> Calls \cup {None}]
  /\ nextId \in Nat
  /\ requests \subseteq Message
  /\ clientOpen \in BOOLEAN /\ serverOpen \in BOOLEAN
  /\ toServer \in Seq(Message) /\ toClient \in Seq(Message)
  /\ handling \subseteq Message
  /\ answered \subseteq Calls

(* A call is resolved with the answer to itself and not to another call, in   *)
(* whatever order handlers finish and calls time out: an id is never used     *)
(* again while an answer to it can still come (_onresponse).                  *)
OwnAnswer == \A c \in Calls : call[c] = "resolved" => answer[c] = c

(* The map holds exactly the calls whose promise is open: no promise is out   *)
(* of reach of an answer or a close, and no entry outlives its promise.       *)
MapIsExact ==
  \A c \in Calls : call[c] = "waiting" <=> \E r \in requests : r.call = c

(* A call made while the channel is open settles, if it has a timeout, or if  *)
(* its path has a handler: it is answered, or the end of the channel rejects  *)
(* it.                                                                        *)
OpenCallsSettle ==
  \A c \in Health \cup Timed \cup Handled :
    call[c] = "waiting" /\ clientOpen ~> call[c] \in {"resolved", "rejected"}

Once == INSTANCE RequestOnce

(* The protocol implements the promise of RequestOnce to its callers.         *)
ImplementsOnce == Once!Spec
=============================================================================
