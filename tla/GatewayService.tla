--------------------------- MODULE GatewayService ---------------------------
(* What a peer keeps for those who come to its relays: the pool of writers    *)
(* that the invitees of a closed relay take from (index.js), and its gateway  *)
(* service (GatewayService.mjs) with the sockets of the local gateway, the    *)
(* tokens of the public gateway of a relay and what it knows of that gateway. *)
(* The parts share no state; each runs by itself.                             *)
EXTENDS WriterPool, GatewaySockets, GatewayTokens, GatewayDiscovery

ServiceConstants == SocketConstants /\ TokenConstants /\ DiscoveryConstants

ServiceSpec == Spec /\ SocketSpec /\ TokenSpec /\ DiscoverySpec

(* Every variable of the pool and of the service has its type.                *)
GatewayTypeOK == TypeOK /\ SocketTypeOK /\ TokenTypeOK /\ DiscoveryTypeOK

(* What the service keeps holds whatever overlaps: the subscriptions of a     *)
(* client, the token of a relay, the secret of a gateway.                     *)
GatewayKept == RequestsKept /\ TokensKept /\ SecretsVerified
=============================================================================
