--------------------------- MODULE GatewaySockets ---------------------------
(* One client's web socket to the local gateway, of a relay that peers serve  *)
(* (GatewayService 4352-5127).  The frames of the client wait in a queue and  *)
(* are handled one at a time; a REQ is kept as pending until a peer has it    *)
(* and is delegated from then on; a loop of timers polls the peer for the     *)
(* delegated subscriptions and sends it the pending ones again.  The handler  *)
(* and the poll both wait for the peer, and so overlap.                       *)
EXTENDS Naturals, Sequences

CONSTANTS
  Subs,          \* the subscription ids of the client
  Closable,      \* those that the client may close
  Publishes,     \* whether the client publishes an event too
  MaxFrames, MaxFlips   \* bounds: frames of the client, changes of the peer

CONSTANT AnEvent \* the event of an EVENT frame, which stands where a REQ has its id

Keys == Subs \union {AnEvent}

SocketConstants ==
  /\ AnEvent \notin Subs /\ Closable \subseteq Subs
  /\ MaxFrames \in Nat /\ MaxFlips \in Nat

VARIABLES
  conn,          \* the socket: open, closed, or gone with all that is kept of it
  inbox,         \* MessageQueue.queue
  handler,       \* the frame being handled and what its handler awaits
  delegated,     \* delegatedSubscriptions
  resend,        \* pendingDelegations: the number of the frame kept of each id, 0 if none
  should,        \* shouldPollPeers
  poll,          \* activePeerPolls: the poll under way and what it awaits
  loop,          \* the event check loop: its timer armed, at a poll, or ended
  retry,         \* whether a retry is due in 250 ms
  health, failures, checking,  \* PeerHealthManager: healthChecks, failureCount, checkLocks
  up,            \* whether the peer answers
  wanted,        \* the last REQ taken of each id, 0 if a CLOSE was taken since
  frames, flips

socketVars == <<conn, inbox, handler, delegated, resend, should, poll, loop, retry,
                health, failures, checking, up, wanted, frames, flips>>

FrameTypes == {"REQ", "CLOSE", "EVENT"}
Frames == [type : FrameTypes, key : Keys, n : 1..MaxFrames]
NoFrame == [type |-> "none", key |-> AnEvent, n |-> 0]
Free == [pc |-> "idle", frame |-> NoFrame, wants |-> FALSE, was |-> FALSE]
NoPoll == [pc |-> "idle", had |-> FALSE, todo |-> {}]

HandlerStates ==
  [pc : {"idle", "find", "check", "forward", "polling"}, frame : Frames \union {NoFrame},
   wants : BOOLEAN, was : BOOLEAN]
PollStates ==
  [pc : {"idle", "find", "check", "resend", "events"}, had : BOOLEAN,
   todo : SUBSET (Subs \X (1..MaxFrames))]

SocketTypeOK ==
  /\ conn \in {"open", "closed", "gone"} /\ up \in BOOLEAN /\ should \in BOOLEAN
  /\ inbox \in Seq(Frames) /\ delegated \subseteq Keys
  /\ handler \in HandlerStates /\ poll \in PollStates
  /\ resend \in [Subs -> 0..MaxFrames] /\ wanted \in [Subs -> 0..MaxFrames]
  /\ loop \in {"armed", "polling", "ended"} /\ retry \in BOOLEAN
  /\ health \in {"none", "healthy", "unhealthy", "broken"} /\ failures \in 0..3
  /\ checking \in {"none", "handler", "poll"}
  /\ frames \in 0..MaxFrames /\ flips \in 0..MaxFlips

SocketInit ==
  /\ conn = "open" /\ inbox = <<>> /\ handler = Free /\ delegated = {}
  /\ resend = [s \in Subs |-> 0] /\ should = FALSE /\ poll = NoPoll
  /\ loop = "armed" /\ retry = FALSE
  /\ health = "none" /\ failures = 0 /\ checking = "none" /\ up = FALSE
  /\ wanted = [s \in Subs |-> 0] /\ frames = 0 /\ flips = 0

peerVars == <<health, failures, checking>>
clientVars == <<up, frames, flips>>

-----------------------------------------------------------------------------
(* The peer that serves the relay.                                            *)

(* isPeerHealthy: a check that is not too old was good, or the circuit has    *)
(* been broken for long enough, which is forgiven once.                       *)
SaysHealthy ==
  \/ health = "healthy" /\ UNCHANGED health
  \/ health = "broken" /\ health' = "unhealthy"
SaysUnhealthy == UNCHANGED health   \* also the old check of a healthy peer

(* checkPeerHealth ends: the third failure breaks the circuit, a failure      *)
(* before it leaves the last good check or says that the peer is unhealthy.   *)
CheckEnds ==
  /\ checking' = "none"
  /\ IF up THEN health' = "healthy" /\ failures' = 0
     ELSE /\ failures' = IF failures = 3 THEN 3 ELSE failures + 1
          /\ IF failures' = 3 THEN health' = "broken" ELSE health' \in {health, "unhealthy"}

-----------------------------------------------------------------------------
(* The client.                                                                *)
Send == \E frame \in Frames :
  /\ conn = "open" /\ frames < MaxFrames /\ frame.n = frames + 1
  /\ \/ frame.type = "REQ" /\ frame.key \in Subs
     \/ frame.type = "CLOSE" /\ frame.key \in Closable
     \/ frame.type = "EVENT" /\ frame.key = AnEvent /\ Publishes
  /\ frames' = frames + 1
  /\ inbox' = Append(inbox, frame)
  /\ UNCHANGED <<conn, handler, delegated, resend, should, poll, loop, retry, peerVars,
                 up, wanted, flips>>

Disconnect ==
  /\ conn = "open" /\ conn' = "closed"
  /\ UNCHANGED <<inbox, handler, delegated, resend, should, poll, loop, retry, peerVars,
                 clientVars, wanted>>

(* cleanupConnection drops what is kept of the connection and its timer; a    *)
(* handler, a poll or a loop that waits goes on with what it holds.           *)
CleanUp ==
  /\ conn' = "gone"
  /\ resend' = [s \in Subs |-> 0]
  /\ loop' = IF loop = "armed" THEN "ended" ELSE loop

CloseEvent ==
  /\ conn = "closed" /\ CleanUp
  /\ UNCHANGED <<inbox, handler, delegated, should, poll, retry, peerVars, clientVars, wanted>>

Flip ==
  /\ flips < MaxFlips /\ flips' = flips + 1 /\ up' = ~up
  /\ UNCHANGED <<conn, inbox, handler, delegated, resend, should, poll, loop, retry, peerVars,
                 frames, wanted>>

-----------------------------------------------------------------------------
(* The handler.                                                               *)
Polls(d, r) == d # {} \/ \E s \in Subs : r[s] # 0

Without(s) ==
  /\ delegated' = delegated \ {s}
  /\ resend' = [resend EXCEPT ![s] = 0]

(* forwardMessageToPeer, once the peer has the frame.                         *)
Delegate(s) ==
  /\ delegated' = delegated \union {s}
  /\ resend' = IF s \in Subs THEN [resend EXCEPT ![s] = 0] ELSE resend

TakeFrame ==
  /\ handler.pc = "idle" /\ inbox # <<>>
  /\ LET frame == Head(inbox)
         wants == frame.type = "REQ" /\ conn = "open"
     IN /\ inbox' = Tail(inbox)
        /\ IF conn = "gone" THEN UNCHANGED <<handler, resend, should, wanted>>
           ELSE /\ handler' = [pc |-> "find", frame |-> frame, wants |-> wants, was |-> should]
                /\ IF wants
                   THEN /\ resend' = [resend EXCEPT ![frame.key] = frame.n]
                        /\ should' = TRUE
                   ELSE UNCHANGED <<resend, should>>
                /\ wanted' = IF frame.type = "EVENT" THEN wanted
                             ELSE [wanted EXCEPT ![frame.key] =
                                     IF frame.type = "REQ" THEN frame.n ELSE 0]
  /\ UNCHANGED <<conn, delegated, poll, loop, retry, peerVars, clientVars>>

(* The end of a CLOSE, sent to the peer or not.                               *)
Closes ==
  /\ Without(handler.frame.key)
  /\ should' = Polls(delegated', resend')
  /\ handler' = Free

NoPeer ==
  IF handler.frame.type = "CLOSE" THEN Closes
  ELSE /\ should' = Polls(delegated, resend) /\ handler' = Free
       /\ UNCHANGED <<delegated, resend>>

(* findHealthyPeerForRelay: the last check, or for a REQ of an open socket or *)
(* a CLOSE a new one, which the check of another caller excludes.             *)
Find ==
  /\ handler.pc = "find"
  /\ \/ /\ SaysHealthy /\ handler' = [handler EXCEPT !.pc = "forward"]
        /\ UNCHANGED <<delegated, resend, should, checking>>
     \/ /\ SaysUnhealthy
        /\ IF (handler.wants \/ handler.frame.type = "CLOSE") /\ checking = "none"
           THEN /\ handler' = [handler EXCEPT !.pc = "check"] /\ checking' = "handler"
                /\ UNCHANGED <<delegated, resend, should>>
           ELSE NoPeer /\ UNCHANGED checking
  /\ UNCHANGED <<conn, inbox, poll, loop, retry, failures, clientVars, wanted>>

Check ==
  /\ handler.pc = "check" /\ CheckEnds
  /\ IF up THEN /\ handler' = [handler EXCEPT !.pc = "forward"]
                /\ UNCHANGED <<delegated, resend, should>>
     ELSE NoPeer
  /\ UNCHANGED <<conn, inbox, poll, loop, retry, clientVars, wanted>>

HasPending == \E s \in Subs : resend[s] # 0

(* The peer answers the frame, or the request fails.  An answer that refuses  *)
(* the user closes the socket; the first subscription of a connection is      *)
(* polled for at once, which the handler awaits; a REQ that fails is retried. *)
Forwarded ==
  /\ handler.pc = "forward" /\ up
  /\ \/ handler.frame.type = "CLOSE" /\ Closes /\ UNCHANGED <<conn, poll>>
     \/ /\ handler.frame.type # "CLOSE"
        /\ Delegate(handler.frame.key)
        /\ \/ /\ handler.frame.type = "EVENT" /\ handler' = Free
              /\ conn' = IF conn = "open" THEN "closed" ELSE conn
              /\ UNCHANGED <<should, poll>>
           \/ /\ should' = TRUE
              /\ handler' = IF handler.was THEN Free ELSE [handler EXCEPT !.pc = "polling"]
              /\ poll' = IF handler.was \/ poll.pc # "idle" \/ conn # "open" THEN poll
                         ELSE [NoPoll EXCEPT !.pc = "find", !.had = HasPending']
              /\ UNCHANGED conn
  /\ UNCHANGED <<inbox, loop, retry, peerVars, clientVars, wanted>>

ForwardFails ==
  /\ handler.pc = "forward" /\ ~up
  /\ IF handler.frame.type = "CLOSE" THEN Closes /\ UNCHANGED retry
     ELSE /\ should' = Polls(delegated, resend) /\ handler' = Free
          /\ retry' = (retry \/ handler.wants)
          /\ UNCHANGED <<delegated, resend>>
  /\ UNCHANGED <<conn, inbox, poll, loop, peerVars, clientVars, wanted>>

Polled ==
  /\ handler.pc = "polling" /\ poll.pc = "idle"
  /\ handler' = Free
  /\ UNCHANGED <<conn, inbox, delegated, resend, should, poll, loop, retry, peerVars,
                 clientVars, wanted>>

-----------------------------------------------------------------------------
(* The poll, of which a connection has one at a time: who asks for another    *)
(* waits for it.                                                              *)
PollStarts ==
  IF conn = "open" /\ Polls(delegated, resend)
  THEN poll' = [pc |-> "find", had |-> HasPending, todo |-> {}] /\ UNCHANGED should
  ELSE UNCHANGED poll /\ should' = (should /\ conn # "open")

LoopFires ==
  /\ loop = "armed"
  /\ IF conn = "closed" THEN CleanUp /\ UNCHANGED <<poll, should>>
     ELSE /\ UNCHANGED <<conn, resend>>
          /\ IF should \/ HasPending
             THEN /\ loop' = "polling"
                  /\ IF poll.pc = "idle" THEN PollStarts ELSE UNCHANGED <<poll, should>>
             ELSE UNCHANGED <<loop, poll, should>>
  /\ UNCHANGED <<inbox, handler, delegated, retry, peerVars, clientVars, wanted>>

(* Variant: the loop ends with a poll that the client's data outlived.        *)
LoopAgainVariant ==
  /\ loop = "polling" /\ poll.pc = "idle"
  /\ loop' = IF conn = "gone" \/ ~should THEN "ended" ELSE "armed"
  /\ UNCHANGED <<conn, inbox, handler, delegated, resend, should, poll, retry, peerVars,
                 clientVars, wanted>>

(* The loop arms its timer after the poll, also when the socket has gone; it  *)
(* then finds no connection and ends.                                         *)
LoopAgain ==
  /\ loop = "polling" /\ poll.pc = "idle"
  /\ loop' = IF conn = "gone" THEN "ended" ELSE "armed"
  /\ UNCHANGED <<conn, inbox, handler, delegated, resend, should, poll, retry, peerVars,
                 clientVars, wanted>>

Retry ==
  /\ retry /\ retry' = FALSE
  /\ IF conn = "closed" THEN CleanUp /\ UNCHANGED <<poll, should>>
     ELSE /\ UNCHANGED <<conn, resend, loop>>
          /\ IF poll.pc = "idle" THEN PollStarts ELSE UNCHANGED <<poll, should>>
  /\ UNCHANGED <<inbox, handler, delegated, peerVars, clientVars, wanted>>

(* With a peer: the pending frames are sent again one after the other; if     *)
(* none is left, the events of the delegated ones are fetched.                *)
Resent(p) ==
  IF p.todo # {} THEN poll' = p /\ UNCHANGED should
  ELSE IF \E s \in Subs : resend'[s] # 0 THEN poll' = NoPoll /\ should' = TRUE
  ELSE IF delegated' = {} THEN poll' = NoPoll /\ should' = FALSE
  ELSE poll' = [p EXCEPT !.pc = "events"] /\ UNCHANGED should

PeerFound ==
  /\ UNCHANGED <<delegated, resend>>
  /\ Resent([poll EXCEPT !.pc = "resend",
               !.todo = IF poll.had THEN {<<s, resend[s]>> : s \in {q \in Subs : resend[q] # 0}}
                        ELSE {}])

PollFind ==
  /\ poll.pc = "find"
  /\ \/ SaysHealthy /\ PeerFound /\ UNCHANGED checking
     \/ /\ SaysUnhealthy
        /\ UNCHANGED <<delegated, resend, should>>
        /\ IF checking = "none" THEN poll' = [poll EXCEPT !.pc = "check"] /\ checking' = "poll"
           ELSE poll' = NoPoll /\ UNCHANGED checking
  /\ UNCHANGED <<conn, inbox, handler, loop, retry, failures, clientVars, wanted>>

PollCheck ==
  /\ poll.pc = "check" /\ CheckEnds
  /\ IF up THEN PeerFound ELSE poll' = NoPoll /\ UNCHANGED <<delegated, resend, should>>
  /\ UNCHANGED <<conn, inbox, handler, loop, retry, clientVars, wanted>>

(* Variant: a frame that could not be sent again is forgotten.                *)
PollResendVariant == \E e \in poll.todo :
  /\ poll.pc = "resend"
  /\ IF up THEN Delegate(e[1])
     ELSE resend' = [resend EXCEPT ![e[1]] = 0] /\ UNCHANGED delegated
  /\ Resent([poll EXCEPT !.todo = @ \ {e}])
  /\ UNCHANGED <<conn, inbox, handler, loop, retry, peerVars, clientVars, wanted>>

(* A frame that could not be sent again is kept as it was when the poll read  *)
(* it, whatever the client sent since.                                        *)
PollResend == \E e \in poll.todo :
  /\ poll.pc = "resend"
  /\ IF up THEN Delegate(e[1])
     ELSE resend' = [resend EXCEPT ![e[1]] = e[2]] /\ UNCHANGED delegated
  /\ Resent([poll EXCEPT !.todo = @ \ {e}])
  /\ UNCHANGED <<conn, inbox, handler, loop, retry, peerVars, clientVars, wanted>>

PollEvents ==
  /\ poll.pc = "events" /\ poll' = NoPoll
  /\ UNCHANGED <<conn, inbox, handler, delegated, resend, should, loop, retry, peerVars,
                 clientVars, wanted>>

-----------------------------------------------------------------------------
HandlerStep == TakeFrame \/ Find \/ Check \/ Forwarded \/ ForwardFails \/ Polled
PollStep == PollFind \/ PollCheck \/ PollResend \/ PollEvents

SocketNext ==
  \/ Send \/ Disconnect \/ CloseEvent \/ Flip
  \/ HandlerStep \/ PollStep \/ LoopFires \/ LoopAgain \/ Retry

-----------------------------------------------------------------------------
(* While the socket is open, no subscription that the client wants is         *)
(* forgotten between the handler and the poll that overlaps it: it is pending *)
(* or delegated (4468, 4905, 4970, 4980), and the loop polls for it (4481,    *)
(* 4545, 4945, 4996, 5007).                                                   *)
RequestsKept == \A s \in Subs : wanted[s] # 0 /\ conn = "open" =>
  /\ s \in delegated \/ resend[s] # 0
  /\ loop # "ended" /\ should

(* Unless the peer stops answering again and again, no subscription of an     *)
(* open socket stays pending for ever: the loop sends it again (4958, 5071).  *)
PendingEnds == []<>(conn = "open" /\ up => ~HasPending)

SocketSpec ==
  /\ SocketInit /\ [][SocketNext]_socketVars
  /\ WF_socketVars(HandlerStep) /\ WF_socketVars(PollStep)
  /\ WF_socketVars(LoopFires \/ LoopAgain)
==============================================================================
