--------------------------- MODULE PeerConnections ---------------------------
(* The connections of one remote peer (src/relay-server.mjs:                  *)
(* handlePeerConnection, startKeepAlive, setGatewayConnection,                *)
(* waitForPeerProtocol).  connectedPeers has one entry per peer key, made for *)
(* the latest stream; operations that need the peer wait for a protocol in    *)
(* pendingPeerProtocols.  Hyperswarm announces a new stream of a peer only    *)
(* after the one before it closed; `overlap`, which never changes, asks what  *)
(* would hold without that.                                                   *)
EXTENDS Integers, Sequences, FiniteSets

CONSTANTS
  Streams,      \* bound on the streams of the peer; each is used once
  Waits,        \* calls of waitForPeerProtocol
  IsGateway,    \* the peer's key is config.gatewayPublicKey
  MaxTimers,    \* bound on keepalive intervals started
  NoStream

ConnectionConstants ==
  /\ IsGateway \in BOOLEAN /\ MaxTimers \in Nat
  /\ Streams \cap {NoStream, "new", "waiting", "failed"} = {}

VARIABLES
  channel,     \* of each stream's protocol: new, opening, open or closed
  peer,        \* the stream of the entry in connectedPeers, NoStream if none
  interval,    \* keepAliveInterval of each stream's entry, 0 if none
  timers,      \* running intervals: [id, entry]
  nextTimer,
  gatewayConnection,
  pending,     \* pendingPeerProtocols of the peer
  wait,        \* what each wait came to: new, waiting, failed or the stream it got
  joined,      \* the peer has a join handle
  overlap      \* a stream may start before the one before it ended

peerVars ==
  <<channel, peer, interval, timers, nextTimer, gatewayConnection, pending, wait, joined, overlap>>

Live == {s \in Streams : channel[s] \in {"opening", "open"}}
Outcomes == {"new", "waiting", "failed"} \cup Streams

PeersInit ==
  /\ channel = [s \in Streams |-> "new"]
  /\ peer = NoStream
  /\ interval = [s \in Streams |-> 0]
  /\ timers = {}
  /\ nextTimer = 1
  /\ gatewayConnection = NoStream
  /\ pending = {}
  /\ wait = [w \in Waits |-> "new"]
  /\ joined = FALSE
  /\ overlap \in BOOLEAN

-----------------------------------------------------------------------------
(* handlePeerConnection                                                       *)

(* The entry of the peer is made anew for the stream.                         *)
Connect(s) ==
  /\ channel[s] = "new"
  /\ overlap \/ Live = {}
  /\ channel' = [channel EXCEPT ![s] = "opening"]
  /\ peer' = s
  /\ UNCHANGED <<interval, timers, nextTimer, gatewayConnection, pending, wait, joined, overlap>>

SameTimerVariant ==
  \/ (peer = NoStream \/ ~IsGateway) /\ UNCHANGED <<interval, timers, nextTimer>>
  \/ /\ peer # NoStream /\ IsGateway
     /\ timers' = timers \cup {[id |-> nextTimer, entry |-> peer]}
     /\ interval' = [interval EXCEPT ![peer] = nextTimer]
     /\ UNCHANGED nextTimer

(* startKeepAlive looks the entry up by the key of the peer: it is that of    *)
(* the latest stream.                                                         *)
StartKeepAlive ==
  \/ (peer = NoStream \/ ~IsGateway) /\ UNCHANGED <<interval, timers, nextTimer>>
  \/ /\ peer # NoStream /\ IsGateway
     /\ nextTimer <= MaxTimers
     /\ timers' = timers \cup {[id |-> nextTimer, entry |-> peer]}
     /\ interval' = [interval EXCEPT ![peer] = nextTimer]
     /\ nextTimer' = nextTimer + 1

(* Everything that waits gets the protocol.                                   *)
ResolvePending(s) ==
  /\ wait' = [w \in Waits |-> IF w \in pending THEN s ELSE wait[w]]
  /\ pending' = {}

(* The 'open' event.                                                          *)
StreamOpens(s) ==
  /\ channel[s] = "opening"
  /\ channel' = [channel EXCEPT ![s] = "open"]
  /\ gatewayConnection' = IF IsGateway THEN s ELSE gatewayConnection
  /\ StartKeepAlive
  /\ ResolvePending(s)
  /\ UNCHANGED <<peer, joined, overlap>>

(* /identify-gateway over an open channel makes any peer the gateway.         *)
Identify(s) ==
  /\ channel[s] = "open"
  /\ gatewayConnection' = s
  /\ UNCHANGED <<channel, peer, interval, timers, nextTimer, pending, wait, joined, overlap>>

NoClearVariant(entry) == timers

(* clearInterval of what the entry holds.                                     *)
Cleared(entry) == {t \in timers : t.id # interval[entry]}

KeepGatewayVariant(s) == gatewayConnection

GatewayAfterClose(s) == IF gatewayConnection = s THEN NoStream ELSE gatewayConnection

ResolveClosedVariant(s) ==
  /\ wait' = [w \in Waits |-> IF w \in pending THEN s ELSE wait[w]]
  /\ pending' = {}

RejectPending(s) ==
  /\ wait' = [w \in Waits |-> IF w \in pending THEN "failed" ELSE wait[w]]
  /\ pending' = {}

KeepEntryVariant(s) ==
  /\ channel[s] \in {"opening", "open"}
  /\ channel' = [channel EXCEPT ![s] = "closed"]
  /\ timers' = IF peer = NoStream THEN timers ELSE Cleared(peer)
  /\ RejectPending(s)
  /\ gatewayConnection' = GatewayAfterClose(s)
  /\ UNCHANGED <<peer, interval, nextTimer, joined, overlap>>

(* The 'close' event of a stream: the keepalive and the entry it removes are  *)
(* those of the key, whichever stream they belong to.                         *)
StreamCloses(s) ==
  /\ channel[s] \in {"opening", "open"}
  /\ channel' = [channel EXCEPT ![s] = "closed"]
  /\ timers' = IF peer = NoStream THEN timers ELSE Cleared(peer)
  /\ peer' = NoStream
  /\ RejectPending(s)
  /\ gatewayConnection' = GatewayAfterClose(s)
  /\ UNCHANGED <<interval, nextTimer, joined, overlap>>

(* The keepalive interval: when the protocol of its entry is gone, it clears  *)
(* the interval its entry holds and removes the entry of the key.             *)
KeepAlive(t) ==
  /\ t \in timers
  /\ channel[t.entry] = "closed"
  /\ timers' = Cleared(t.entry)
  /\ peer' = NoStream
  /\ UNCHANGED <<channel, interval, nextTimer, gatewayConnection, pending, wait, joined, overlap>>

-----------------------------------------------------------------------------
(* waitForPeerProtocol                                                        *)

HasProtocol(w) == peer # NoStream /\ channel[peer] # "closed"

(* An entry whose protocol is not closed is used, even one that is not open   *)
(* yet.                                                                       *)
UseExisting(w) ==
  /\ wait[w] = "new" /\ HasProtocol(w)
  /\ wait' = [wait EXCEPT ![w] = peer]
  /\ UNCHANGED <<channel, peer, interval, timers, nextTimer, gatewayConnection, pending, joined,
                 overlap>>

StartWait(w) ==
  /\ wait[w] = "new" /\ ~HasProtocol(w)
  /\ wait' = [wait EXCEPT ![w] = "waiting"]
  /\ pending' = pending \cup {w}
  /\ joined' = TRUE
  /\ UNCHANGED <<channel, peer, interval, timers, nextTimer, gatewayConnection, overlap>>

OnlyUnlistVariant(w) ==
  /\ wait[w] = "waiting" /\ w \in pending
  /\ pending' = pending \ {w}
  /\ UNCHANGED <<channel, peer, interval, timers, nextTimer, gatewayConnection, wait, joined,
                 overlap>>

ForgetOthersVariant(w) ==
  /\ wait[w] = "waiting"
  /\ wait' = [wait EXCEPT ![w] = "failed"]
  /\ pending' = {}
  /\ UNCHANGED <<channel, peer, interval, timers, nextTimer, gatewayConnection, joined, overlap>>

(* The timer of a wait leaves the other awaiters in the list.                 *)
Timeout(w) ==
  /\ wait[w] = "waiting"
  /\ wait' = [wait EXCEPT ![w] = "failed"]
  /\ pending' = pending \ {w}
  /\ UNCHANGED <<channel, peer, interval, timers, nextTimer, gatewayConnection, joined, overlap>>

-----------------------------------------------------------------------------
PeersNext ==
  \/ \E s \in Streams : Connect(s) \/ StreamOpens(s) \/ Identify(s) \/ StreamCloses(s)
  \/ \E t \in timers : KeepAlive(t)
  \/ \E w \in Waits : UseExisting(w) \/ StartWait(w) \/ Timeout(w)

PeersSpec == PeersInit /\ [][PeersNext]_peerVars

(* Timers fire.  Nobody has to connect, and a stream need not end.            *)
PeersFairness ==
  /\ \A w \in Waits : WF_peerVars(Timeout(w))
  /\ \A i \in 1..MaxTimers :
       WF_peerVars(\E t \in timers : t.id = i /\ KeepAlive(t))

PeersFairSpec == PeersSpec /\ PeersFairness

-----------------------------------------------------------------------------
(* The variables hold what the code can put into them.                        *)
PeersTypeOK ==
  /\ channel \in [Streams -> {"new", "opening", "open", "closed"}]
  /\ peer \in Streams \cup {NoStream}
  /\ interval \in [Streams -> 0..MaxTimers]
  /\ timers \subseteq [id : 1..MaxTimers, entry : Streams]
  /\ \A t, u \in timers : t.id = u.id => t = u
  /\ nextTimer \in 1..(MaxTimers + 1)
  /\ gatewayConnection \in Streams \cup {NoStream}
  /\ wait \in [Waits -> Outcomes]
  /\ joined \in BOOLEAN /\ overlap \in BOOLEAN

(* The awaiters of the peer are exactly the calls that wait, whatever the     *)
(* order of opens, closes and timeouts: none is settled twice and none is     *)
(* forgotten (pendingPeerProtocols).                                          *)
PendingIsExact == pending = {w \in Waits : wait[w] = "waiting"}

(* The gateway connection is one that can be used, although several streams   *)
(* of the gateway open and close in any order.                                *)
GatewayIsLive == gatewayConnection # NoStream => channel[gatewayConnection] = "open"

(* A wait is not answered with a protocol that is closed at that moment.      *)
WaitGetsLive ==
  [][\A w \in Waits : wait'[w] \in Streams /\ wait[w] \notin Streams
        => channel'[wait'[w]] \in {"opening", "open"}]_peerVars

(* A wait comes to an end, whatever the peer does: time and again w waits no  *)
(* longer.                                                                    *)
WaitEnded(w) == wait[w] # "waiting"

(* "Track all connected peers": a peer with a stream has an entry, and it is  *)
(* that of the stream, over any number of reconnections, closes and keepalive *)
(* intervals of earlier entries, as long as one stream follows the other.     *)
TracksPeer == ~overlap => IF Live = {} THEN peer = NoStream ELSE Live = {peer}

(* "Connection lost, stopping keepalive": no interval runs on for an entry    *)
(* whose connection is lost, where it would remove the entries of later ones. *)
KeepAliveStopped(i) == \A t \in timers : t.id = i => channel[t.entry] # "closed"
=============================================================================
