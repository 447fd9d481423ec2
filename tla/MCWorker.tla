------------------------------- MODULE MCWorker -------------------------------
(* Services of the worker for TLC, in scenes side by side: a media session of *)
(* two workers (MediaSessions), joins of relays and what is held of a relay   *)
(* by its gateways (JoinServices), tokens in the scene "access" and core refs *)
(* in "mirror", and the stores of what is known about a relay                 *)
(* (ReplicaStores).                                                         *)
EXTENDS WorkerServices, TLC

CONSTANTS f1, f2, a1, h1, h2, r1, r2, i1, i2, p1, p2, q1, none

VARIABLE scene

-----------------------------------------------------------------------------
(* Media: other relays with each command; peers that leave and come back; and *)
(* relays that fail, keep events and send signals twice.                      *)

MediaScenes == {"lists", "leaves", "signals"}
McHome == (p1 :> i1) @@ (p2 :> i1) @@ (q1 :> i2)
McHints == {<<>>, <<r2>>}
McDefaults == <<r1>>

(* r1 is in every list: what Rendezvous needs.                                *)
ASSUME SharedRelay(r1, {<<>>, <<r2>>})

(* The scenes differ in what the commands are: in "signals" i1 joins and      *)
(* signals.  A worker drops its own event as soon as it is the next to come,  *)
(* from r1 alone in "signals".                                                *)
Fails == "lost" \in mishaps' /\ "lost" \notin mishaps
Signals == \E i \in Instances : sent'[i] > sent[i] /\ UNCHANGED <<transport, subscription, waiting>>
Bare == sessions' # sessions /\ UNCHANGED <<transport, seen>>

Echoes(r, i) == fromRelay[r][i] # <<>> /\ Head(fromRelay[r][i]).event.by = i
Early == IF scene = "signals" THEN {r1} ELSE Relays
Echo == {ri \in Early \X Instances : Echoes(ri[1], ri[2])}
EchoFirst == LET ri == CHOOSE x \in Echo : TRUE IN IgnoreEvent(ri[1], ri[2])

MediaAllowed ==
    CASE scene = "lists" ->
            /\ p2 \notin joined' /\ ~Fails /\ ~Signals /\ ~Bare
            /\ sent'[i1] <= 2 /\ sent'[i2] <= 1
      [] scene = "leaves" ->
            /\ \A i \in Instances : subscription'[i] # None => subscription'[i].relays = <<r1>>
            /\ ~Fails /\ ~Signals /\ ~Bare
            /\ sent' # sent => joined' # joined
            /\ sent'[i2] <= 1
            /\ \A i \in Instances : Len(toRelay'[i][r1]) <= 2
      [] scene = "signals" ->
            /\ \A i \in Instances : subscription'[i] # None => subscription'[i].relays # <<r1>>
            /\ p2 \notin joined' /\ joined \subseteq joined' /\ (Bare => sent[i1] + sent[i2] = 0)
            /\ sent'[i1] <= 2 /\ sent'[i2] <= 1 /\ (sent'[i2] > 0 => ~Fails)
            /\ (sent'[i1] = 2 /\ sent[i1] = 1 => Signals)

-----------------------------------------------------------------------------
(* Joins: two commands and a re-authentication, for two relays with one host, *)
(* or one relay with two hosts.                                               *)
JoinScenes == {"relays", "hosts"}

ASSUME JoinConstants

(* The commands and the relays are alike: f1 comes first and is about r1.  In *)
(* "relays" f1 is open and f2 open or plain.  In "hosts" f1 has an invite, f2 *)
(* has one or is open, the re-authentication asks both hosts, and attempts    *)
(* are neither forgotten nor ended by the deadline.                           *)
JoinAllowed ==
  /\ flow[f1] = "idle" => flow'[f2] = "idle"
  /\ about'[f1] # r2
  /\ scene = "relays" =>
       /\ \A j \in Flows \cup {a1} : h2 \notin auth'[j].hosts
       /\ kind'[f1] \notin {"invite", "plain"} /\ kind'[f2] # "invite"
  /\ scene = "hosts" =>
       /\ kind'[f1] # "open"
       /\ \A j \in Flows \cup {a1} : about'[j] # r2
       /\ \A f \in Flows : kind'[f] # "plain"
       /\ auth[a1].pc = "off" /\ auth'[a1].pc = "starting" => auth'[a1].hosts = Hosts
       /\ pruned' = {}
       /\ \A f \in Flows : flow'[f] = "failed" => auth'[f].pc \in {"off", "ended"}

-----------------------------------------------------------------------------
(* Stores: three calls each, of one or both names, of which the first gives.  *)
Lease(i, at) == [id |-> i, issued |-> 1, expires |-> at]

StoreGiven == [
  routes |-> {[origin |-> r1, id |-> r1, direct |-> FALSE], [origin |-> r2, id |-> none, direct |-> FALSE],
              [origin |-> none, id |-> none, direct |-> TRUE]},
  access |-> {[token |-> p1, expires |-> 3], [token |-> p2, expires |-> 2], [token |-> q1, expires |-> 0]},
  hints |-> {[topic |-> r1, hosts |-> <<p2, q1>>, probe |-> FALSE],
             [topic |-> none, hosts |-> <<p1>>, probe |-> FALSE],
             [topic |-> none, hosts |-> <<>>, probe |-> TRUE]},
  leases |-> {[lease |-> Lease(1, 2), peer |-> p1], [lease |-> Lease(2, 3), peer |-> p2],
              [lease |-> none, peer |-> q1]},
  cores |-> {<<p1>>, <<p2>>, <<p2, q1>>}]

StoreNames == <<"key", "identifier">>

ASSUME StoreConstants

GivesFirst == calls = 0 => now' = now /\ failures' = 0 /\ (first').op \in {"none", "put"}

-----------------------------------------------------------------------------
(* Access: two gateways, a join and two fetches.                              *)
GatewayOrder == <<"g", "h">>

ASSUME AccessConstants

Begins(process, p) == (process)[p].at = "idle" /\ (process')[p].at # "idle"

(* Tokens, of a relay without a profile: the fetches are alike, "f" begins    *)
(* while "e" has a token; a claim is of the first gateway, joins begin while  *)
(* tokens are left, and appends come first.                                   *)
TokensOnly ==
  /\ own' = Void /\ noting' = Void
  /\ Begins(fetching, "e") => fetching["f"].at = "idle"
  /\ Begins(fetching, "f") => fetching["e"].at \in {"wait", "get"}
  /\ Begins(joining, "j") =>
       LET join == (joining')["j"] IN
       /\ Len(issued) < 2
       /\ join.kind = "claim" => Head(join.left) = "g"
       /\ join.kind = "append" => changes = 0 /\ issued = <<>>

(* Core refs: no joins, and no token.                                         *)
RefsOnly == joining' = joining /\ route' = route /\ withdrawn' = withdrawn

-----------------------------------------------------------------------------

(* The stores are all begun in their own scene, else at one of them; and so   *)
(* are the gateways of a relay and its profile.                               *)
MCInit ==
  /\ Init /\ JoinInit /\ StoreInit /\ AccessInit
  /\ scene \in MediaScenes \cup JoinScenes \cup {"stores", "access", "mirror"}
  /\ scene # "mirror" => own = Void
  /\ scene # "access" => route = "g"
  /\ scene # "stores" => store = "cores"

MCNext ==
  /\ UNCHANGED scene
  /\ CASE scene \in MediaScenes ->
            UNCHANGED <<joinVars, storeVars, accessVars>> /\ IF Echo # {} THEN EchoFirst ELSE Next /\ MediaAllowed
       [] scene \in JoinScenes -> UNCHANGED <<vars, storeVars, accessVars>> /\ JoinNext /\ JoinAllowed
       [] scene = "stores" -> UNCHANGED <<vars, joinVars, accessVars>> /\ StoreNext /\ GivesFirst
       [] scene \in {"access", "mirror"} ->
            /\ UNCHANGED <<vars, joinVars, storeVars>> /\ AccessNext
            /\ Cardinality(overlaps') <= 1
            /\ IF scene = "access" THEN TokensOnly ELSE RefsOnly

MCSpec == MCInit /\ [][MCNext]_<<vars, joinVars, storeVars, accessVars, scene>>
=============================================================================
