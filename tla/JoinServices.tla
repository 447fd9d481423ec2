----------------------------- MODULE JoinServices -----------------------------
(* Services of a worker for the relays that it joins: the joins with a host   *)
(* (JoinFlow), and what is held of a relay by its gateways (RelayAccess).     *)
(* They share no state; each runs by itself.                                  *)
EXTENDS JoinFlow, RelayAccess

JoinsConstants == JoinConstants /\ AccessConstants

JoinsSpec == JoinSpec /\ AccessSpec

(* Whatever overlaps, those who hold something of a relay hold the same: the  *)
(* app, the profile and the host the token of a join; the worker the newest   *)
(* token of a gateway, which goes to that gateway alone; the profile and the  *)
(* store of core refs the refs that the mirror lists.                         *)
AccessAgrees == TokensAgree /\ SentHome /\ NewestHeld /\ RefsNoted
=============================================================================
