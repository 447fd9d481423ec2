-------------------------- MODULE RelayConnections ---------------------------
(* The connections of the relay server: the protocol over one channel, the    *)
(* streams of a peer, the registration of relays with their gateways, and the *)
(* joins and creations of one relay.  The parts share no state; each runs by  *)
(* itself.                                                                    *)
EXTENDS RelayProtocol, PeerConnections, GatewayRegistration, JoinPaths

ConnectionsConstants == ConnectionConstants /\ RegistrationConstants /\ PathConstants

ConnectionsSpec == Spec /\ PeersSpec /\ RegistrationSpec /\ PathSpec

(* Every variable has its type, in every part.                                *)
ConnectionsTypeOK == TypeOK /\ PeersTypeOK /\ RegistrationTypeOK /\ PathTypeOK

(* A call gets its own answer, and the tables of the connections hold exactly *)
(* what they should: the pending requests those that wait for an answer, the  *)
(* pending peers the operations that wait for one, the gateway connection one *)
(* that is live and, with one stream at a time, the connected peers those     *)
(* with an open stream.                                                       *)
TablesAreExact == OwnAnswer /\ MapIsExact /\ PendingIsExact /\ GatewayIsLive /\ TracksPeer

(* What was begun for a relay is not dropped.  A registration is held once,   *)
(* and lost only if nothing could route it; a job whose relay was not         *)
(* writable in time is followed up, and the token that it told of is kept.    *)
RelaysKept == HeldOnce /\ OnlyUnroutedLost /\ Followed /\ TokensAgree
=============================================================================
