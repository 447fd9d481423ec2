---------------------------- MODULE MCConnections ----------------------------
(* The connections of the relay server for TLC, in parts side by side: a      *)
(* behaviour is one of RelayProtocol, of PeerConnections with streams that    *)
(* may overlap or not, of GatewayRegistration, or of JoinPaths.               *)
EXTENDS RelayConnections

CONSTANT Parts

(* A health check, requests with a handler without and with a timeout, and a  *)
(* request with a timeout that has no handler.                                *)
MCCalls == {"health", "plain", "timed", "unrouted"}
MCHealth == {"health"}
MCHandled == {"plain", "timed"}
MCTimed == {"timed", "unrouted"}

(* Three relays, of a gateway with an origin and one of a gateway known by    *)
(* its id only.                                                               *)
MCGatewayOf == [r \in Relays |-> IF r = "r3" THEN "h" ELSE "g"]

ASSUME ConnectionsConstants

(* Two jobs of a relay that is closed once.  The first is not an open join    *)
(* without a host, nor the second an invite, which is much the same.          *)
PathAllowed == begun' # begun => job'.path # IF begun = 0 THEN "open" ELSE "invite"

-----------------------------------------------------------------------------
VARIABLE part

MCvars == <<vars, peerVars, registrationVars, pathVars, part>>

InProtocol(A) ==
  part = "protocol" /\ A /\ UNCHANGED <<peerVars, registrationVars, pathVars, part>>
InPeers(A) ==
  part = "peers" /\ A /\ UNCHANGED <<vars, registrationVars, pathVars, part>>
InRegistration(A) ==
  part = "registration" /\ A /\ UNCHANGED <<vars, peerVars, pathVars, part>>
InPaths(A) ==
  part = "paths" /\ A /\ UNCHANGED <<vars, peerVars, registrationVars, part>>

(* The relay of the paths is new or known, in their part.                     *)
MCInit ==
  /\ Init /\ PeersInit /\ RegistrationInit /\ PathInit
  /\ part \in Parts /\ (part # "paths" => ~profile) /\ (part # "peers" => ~overlap)

MCNext ==
  \/ InProtocol(Next)
  \/ InPeers(PeersNext)
  \/ InRegistration(RegistrationNext)
  \/ InPaths(PathNext /\ PathAllowed)

Processor(p) ==
  \/ ProcRoute(p) \/ ProcAcknowledged(p)
  \/ ProcGeneral(p) \/ ProcFails(p)

(* The fairness of the parts.  As a behaviour is of one part, fairness of one *)
(* action of each is fairness of their disjunction, which costs TLC less.     *)
MCSpec ==
  /\ MCInit /\ [][MCNext]_MCvars
  /\ WF_MCvars(InProtocol(ReceiveAnswer) \/ InPeers(Timeout("v")) \/ InPaths(JobStep))
  /\ WF_MCvars(InProtocol(ReceiveRequest) \/ InPeers(Timeout("w")) \/ InPaths(LateStep))
  /\ WF_MCvars(InProtocol(ClientSeesClose) \/ InRegistration(Processor("p")) \/ InPaths(LeaveStep))
  /\ WF_MCvars(InProtocol(ServerSeesClose) \/ InRegistration(Processor("q")))
  /\ \A c \in Calls :
       /\ WF_MCvars(InProtocol(\E m \in handling : m.call = c /\ FinishHandler(m)))
       /\ WF_MCvars(InProtocol(\E r \in requests : r.call = c /\ Expire(r)))
  /\ \A i \in 1..MaxTimers : WF_MCvars(InPeers(\E t \in timers : t.id = i /\ KeepAlive(t)))

Still(w, i, p) ==
  /\ WaitEnded(w)
  /\ ~overlap => KeepAliveStopped(i)
  /\ ProcessorEnded(p)

(* Nothing waits for ever, whatever the other sides do: calls of an open      *)
(* channel, waits for a peer, processors of a queue, joins and their late     *)
(* recoveries end, and no keepalive goes on after its connection.             *)
NothingHangs ==
  /\ OpenCallsSettle
  /\ []<>(Still("v", 1, "p") /\ Rests) /\ []<>Still("w", 2, "q")
=============================================================================
