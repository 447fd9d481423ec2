---------------------------- MODULE WorkerServices ----------------------------
(* What a worker runs beside its relays: media sessions with other workers,   *)
(* joins of relays and its access to their gateways, and the stores of what   *)
(* is known about a relay.  They share no state; each runs by itself.         *)
EXTENDS MediaSessions, JoinServices, ReplicaStores

WorkerConstants == JoinsConstants /\ StoreConstants

WorkerSpec == Spec /\ JoinsSpec /\ StoreSpec

(* Every variable has its type, in every part.                                *)
WorkerTypeOK == MediaTypeOK /\ JoinTypeOK /\ StoreTypeOK /\ AccessTypeOK
=============================================================================
