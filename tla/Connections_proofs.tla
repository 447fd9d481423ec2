-------------------------- MODULE Connections_proofs --------------------------
(***************************************************************************)
(* Proofs about RelayConnections, for any calls, streams, relays and jobs: *)
(* the tables of the connections are exact, and what was begun for a relay *)
(* is not dropped.                                                         *)
(*                                                                         *)
(* Of the protocol, messages are told apart by their ids as they are by    *)
(* their calls (Distinct), because ids come from a counter and a call is   *)
(* made once; so an entry of the map that has the id of an answer is the   *)
(* entry of its call.  A request is on its way or being handled at most    *)
(* once, and not after it was answered (Unserved).                         *)
(*                                                                         *)
(* Of a peer, the entry is of a stream that has begun, and while streams   *)
(* do not overlap every interval is that of the entry (OneTimer).          *)
(*                                                                         *)
(* Of registrations, each relay is in one place at most: once in one       *)
(* queue, with one processor, or in its own call (Placed).  Taking the     *)
(* first of a queue, putting one back in front and queueing one move it    *)
(* from place to place.                                                    *)
(*                                                                         *)
(* Of joins, a job is at a step of its path, and after its second saving   *)
(* of the token the profile has it (SavedOwn); the profile and the auth    *)
(* store agree between jobs because only the steps between a saving and    *)
(* its storing part them (Halfway), in a creation the other way round.     *)
(***************************************************************************)
EXTENDS RelayConnections, FiniteSetTheorems, TLAPS

-----------------------------------------------------------------------------
(* The protocol                                                               *)

\* The messages of a channel, and all that have an id.
Carried(msgs) == {msgs[i] : i \in DOMAIN msgs}
Messages == requests \cup Carried(toServer) \cup Carried(toClient) \cup handling

Distinct ==
  /\ \A m \in Messages : m.id < nextId /\ call[m.call] # "new"
  /\ \A m, n \in Messages : m.id = n.id <=> m.call = n.call

Unserved ==
  /\ \A m \in Carried(toServer) \cup handling : m.call \notin answered
  /\ \A i, j \in DOMAIN toServer : toServer[i].call = toServer[j].call => i = j
  /\ \A m \in Carried(toServer), n \in handling : m.call # n.call

Answers ==
  /\ \A m \in Carried(toClient) : m.call \in answered
  /\ \A c \in answered : call[c] # "new"

IInv == TypeOK /\ MapIsExact /\ Distinct /\ Unserved /\ Answers /\ OwnAnswer

-----------------------------------------------------------------------------
(* Queues *)

LEMMA AppendQueue ==
  ASSUME NEW s \in Seq(Message), NEW m \in Message
  PROVE  /\ Append(s, m) \in Seq(Message)
         /\ Carried(Append(s, m)) = Carried(s) \cup {m}
         /\ DOMAIN Append(s, m) = DOMAIN s \cup {Len(s) + 1}
         /\ Append(s, m)[Len(s) + 1] = m
         /\ \A i \in DOMAIN s : Append(s, m)[i] = s[i]
  <1>1. /\ DOMAIN s = 1..Len(s) /\ Len(s) \in Nat
        /\ DOMAIN Append(s, m) = 1..(Len(s) + 1)
        /\ Append(s, m) \in Seq(Message)
        /\ Append(s, m)[Len(s) + 1] = m
        /\ \A i \in 1..Len(s) : Append(s, m)[i] = s[i]
    OBVIOUS
  <1>2. DOMAIN Append(s, m) = DOMAIN s \cup {Len(s) + 1}
    BY <1>1
  <1>3. Carried(Append(s, m)) = Carried(s) \cup {m}
    BY <1>1, <1>2 DEF Carried
  <1> QED  BY <1>1, <1>2, <1>3

LEMMA TailQueue ==
  ASSUME NEW s \in Seq(Message), s # <<>>
  PROVE  /\ Tail(s) \in Seq(Message)
         /\ Head(s) \in Message
         /\ Head(s) = s[1] /\ 1 \in DOMAIN s
         /\ \A i \in DOMAIN Tail(s) : i + 1 \in DOMAIN s /\ Tail(s)[i] = s[i + 1] /\ i \in Nat \ {0}
         /\ Carried(Tail(s)) \subseteq Carried(s)
         /\ Head(s) \in Carried(s)
  <1>1. /\ DOMAIN s = 1..Len(s) /\ Len(s) \in Nat /\ Len(s) > 0
        /\ Tail(s) \in Seq(Message) /\ Head(s) = s[1] /\ s[1] \in Message
        /\ DOMAIN Tail(s) = 1..(Len(s) - 1)
        /\ \A i \in 1..(Len(s) - 1) : Tail(s)[i] = s[i + 1]
    OBVIOUS
  <1>2. \A i \in DOMAIN Tail(s) : i + 1 \in DOMAIN s /\ Tail(s)[i] = s[i + 1] /\ i \in Nat \ {0}
    BY <1>1
  <1>3. 1 \in DOMAIN s
    BY <1>1
  <1> QED  BY <1>1, <1>2, <1>3 DEF Carried

LEMMA QueueMessages ==
  ASSUME NEW s \in Seq(Message)
  PROVE  Carried(s) \subseteq Message
  <1>1. \A i \in DOMAIN s : s[i] \in Message
    OBVIOUS
  <1> QED  BY <1>1 DEF Carried

LEMMA EmptyQueue == Carried(<<>>) = {} /\ <<>> \in Seq(Message)
  BY DEF Carried

LEMMA MessagesTyped ==
  ASSUME TypeOK
  PROVE  Messages \subseteq Message /\ \A m \in Messages : m.id \in Nat /\ m.call \in Calls
  <1>1. Messages \subseteq Message
    BY QueueMessages DEF TypeOK, Messages
  <1> QED  BY <1>1 DEF Message

-----------------------------------------------------------------------------
(* What the steps have in common. *)

\* No message is new, and no call is taken back.
LEMMA FewerMessages ==
  ASSUME TypeOK, Distinct, Messages' \subseteq Messages, nextId' = nextId,
         \A c \in Calls : call[c] # "new" => call'[c] # "new"
  PROVE  Distinct'
  <1>1. \A m \in Messages' : m \in Messages /\ m.call \in Calls
    BY MessagesTyped
  <1>2. \A m \in Messages' : m.id < nextId' /\ (call')[m.call] # "new"
    BY <1>1 DEF Distinct
  <1>3. \A m, n \in Messages' : m.id = n.id <=> m.call = n.call
    BY <1>1 DEF Distinct
  <1> QED  BY <1>2, <1>3 DEF Distinct

\* A call's entry is the only one with its id.
LEMMA OneEntry ==
  ASSUME TypeOK, Distinct
  PROVE  /\ \A r \in requests, m \in Messages : r.id = m.id => r = m
         /\ \A r, q \in requests : r.call = q.call => r = q
  <1>1. \A m, n \in Messages : m.id = n.id => m = n
    <2> SUFFICES ASSUME NEW m \in Messages, NEW n \in Messages, m.id = n.id  PROVE m = n
      OBVIOUS
    <2>1. m.call = n.call  BY DEF Distinct
    <2>2. m \in Message /\ n \in Message  BY MessagesTyped
    <2> QED  BY <2>1, <2>2 DEF Message
  <1>2. requests \subseteq Messages  BY DEF Messages
  <1>3. \A r, q \in requests : r.call = q.call => r.id = q.id
    BY <1>2 DEF Distinct
  <1> QED  BY <1>1, <1>2, <1>3

\* The client keeps its promises when the calls of the entries it removes
\* settle, and no others.
LEMMA SettledMap ==
  ASSUME IInv, NEW S \in SUBSET requests, requests' = requests \ S,
         call' \in [Calls -> Status],
         \A c \in Calls : IF \E r \in S : r.call = c THEN call'[c] \in {"resolved", "rejected"}
                                                     ELSE call'[c] = call[c]
  PROVE  MapIsExact' /\ \A c \in Calls : call[c] # "new" => call'[c] # "new"
  <1>1. \A r, q \in requests : r.call = q.call => r = q
    BY OneEntry DEF IInv
  <1>2. ASSUME NEW c \in Calls
        PROVE  call'[c] = "waiting" <=> \E r \in requests' : r.call = c
    <2>1. CASE \E r \in S : r.call = c
      <3>1. call'[c] # "waiting"  BY <2>1
      <3>2. ~ \E r \in requests' : r.call = c  BY <1>1, <2>1
      <3> QED  BY <3>1, <3>2
    <2>2. CASE ~ \E r \in S : r.call = c
      BY <2>2 DEF IInv, MapIsExact
    <2> QED  BY <2>1, <2>2
  <1>3. MapIsExact'  BY <1>2 DEF MapIsExact
  <1>4. \A c \in Calls : call[c] # "new" => call'[c] # "new"
    OBVIOUS
  <1> QED  BY <1>3, <1>4

-----------------------------------------------------------------------------
(* The steps of the client *)

LEMMA SendInv ==
  ASSUME IInv, NEW c \in Calls, Send(c)
  PROVE  IInv'
  <1> DEFINE m == [id |-> nextId, call |-> c]
  <1> USE DEF IInv
  <1>0. /\ call[c] = "new" /\ call' = [call EXCEPT ![c] = "waiting"]
        /\ nextId' = nextId + 1 /\ requests' = {r \in requests : r.id # nextId} \cup {m}
        /\ toServer' = IF clientOpen THEN Append(toServer, m) ELSE toServer
        /\ UNCHANGED <<answer, clientOpen, toClient, serverOpen, handling, answered>>
    BY DEF Send, NewId, Put, Sent, server
  <1>1. m \in Message /\ m.id = nextId /\ m.call = c
    BY DEF TypeOK, Message
  <1>2. \A n \in Messages : n \in Message /\ n.id < nextId /\ n.id \in Nat /\ n.call \in Calls /\ n.call # c
    BY <1>0, MessagesTyped DEF Distinct
  <1>3. requests' = requests \cup {m}
    BY <1>0, <1>2 DEF Messages, TypeOK
  <1>4. /\ toServer' \in Seq(Message) /\ Carried(toServer') \subseteq Carried(toServer) \cup {m}
        /\ \A i \in DOMAIN toServer' : (i \in DOMAIN toServer /\ (toServer')[i] = toServer[i])
                                      \/ (i = Len(toServer) + 1 /\ (toServer')[i] = m)
    BY <1>0, <1>1, AppendQueue DEF TypeOK
  <1>5. Messages' \subseteq Messages \cup {m}
    BY <1>0, <1>3, <1>4 DEF Messages, Carried
  <1>6. TypeOK'
    BY <1>0, <1>1, <1>3, <1>4 DEF TypeOK, Status
  <1>7. MapIsExact'
    <2> SUFFICES ASSUME NEW d \in Calls
                 PROVE  call'[d] = "waiting" <=> \E r \in requests' : r.call = d
      BY DEF MapIsExact
    <2>1. CASE d = c
      BY <2>1, <1>0, <1>1, <1>3 DEF TypeOK
    <2>2. CASE d # c
      <3>1. call'[d] = call[d]  BY <2>2, <1>0 DEF TypeOK
      <3> QED  BY <3>1, <2>2, <1>1, <1>3 DEF MapIsExact
    <2> QED  BY <2>1, <2>2
  <1>8. Distinct'
    <2>1. ASSUME NEW n \in Messages'
          PROVE  n.id < nextId' /\ (call')[n.call] # "new"
      <3>1. CASE n = m  BY <3>1, <1>0, <1>1 DEF TypeOK
      <3>2. CASE n \in Messages
        BY <3>2, <1>0, <1>2 DEF TypeOK, Distinct
      <3> QED  BY <3>1, <3>2, <1>5
    <2>2. \A n, k \in Messages' : n.id = k.id <=> n.call = k.call
      <3> SUFFICES ASSUME NEW n \in Messages', NEW k \in Messages'
                   PROVE  n.id = k.id <=> n.call = k.call
        OBVIOUS
      <3>1. CASE n \in Messages /\ k \in Messages  BY <3>1 DEF Distinct
      <3>2. CASE n = m /\ k = m  BY <3>2
      <3>3. CASE n = m /\ k \in Messages  BY <3>3, <1>1, <1>2 DEF TypeOK
      <3>4. CASE k = m /\ n \in Messages  BY <3>4, <1>1, <1>2 DEF TypeOK
      <3> QED  BY <3>1, <3>2, <3>3, <3>4, <1>5
    <2> QED  BY <2>1, <2>2 DEF Distinct
  <1>9. c \notin answered
    BY <1>0 DEF Answers
  <1>10. Unserved'
    <2>1. \A n \in Carried(toServer') \cup handling' : n.call \notin answered'
      BY <1>0, <1>1, <1>4, <1>9 DEF Unserved
    <2>2. \A i, j \in DOMAIN toServer' : (toServer')[i].call = (toServer')[j].call => i = j
      <3>1. \A i \in DOMAIN toServer : toServer[i].call # c
        BY <1>2 DEF Carried, Messages
      <3> QED  BY <1>1, <1>4, <3>1 DEF Unserved
    <2>3. \A n \in Carried(toServer'), k \in handling' : n.call # k.call
      <3>1. \A k \in handling : k.call # c  BY <1>2 DEF Messages
      <3> QED  BY <1>0, <1>1, <1>4, <3>1 DEF Unserved
    <2> QED  BY <2>1, <2>2, <2>3, <1>0 DEF Unserved, Carried
  <1>11. Answers' /\ OwnAnswer'
    BY <1>0 DEF Answers, OwnAnswer, TypeOK, Carried
  <1> QED  BY <1>6, <1>7, <1>8, <1>10, <1>11

\* An answer is found by the entry of its own call, or by none.
LEMMA ReceiveAnswerInv ==
  ASSUME IInv, ReceiveAnswer
  PROVE  IInv'
  <1> DEFINE h == Head(toClient)
             S == {r \in requests : r.id = h.id}
  <1> USE DEF IInv
  <1>0. /\ toClient # <<>> /\ toClient' = Tail(toClient) /\ requests' = requests \ S
        /\ call' = [c \in Calls |-> IF \E r \in S : r.call = c THEN "resolved" ELSE call[c]]
        /\ answer' = [c \in Calls |-> IF \E r \in S : r.call = c THEN h.call ELSE answer[c]]
        /\ UNCHANGED <<nextId, clientOpen, toServer, serverOpen, handling, answered>>
    BY DEF ReceiveAnswer, Found, server
  <1>1. h \in Carried(toClient) /\ h \in Message /\ toClient' \in Seq(Message)
        /\ Carried(toClient') \subseteq Carried(toClient)
    BY <1>0, TailQueue DEF TypeOK
  <1>2. \A r \in S : r = h
    BY <1>1, OneEntry DEF Messages
  <1>3. h.call \in Calls
    BY <1>1 DEF Message
  <1>4. TypeOK'
    BY <1>0, <1>1, <1>3 DEF TypeOK, Status
  <1>5. MapIsExact' /\ \A c \in Calls : call[c] # "new" => call'[c] # "new"
    BY <1>0, SettledMap DEF TypeOK, Status
  <1>6. Distinct'
    <2>1. Messages' \subseteq Messages  BY <1>0, <1>1 DEF Messages
    <2> QED  BY <2>1, <1>0, <1>5, FewerMessages
  <1>7. Unserved'
    BY <1>0 DEF Unserved, Carried
  <1>8. Answers'
    BY <1>0, <1>1, <1>5 DEF Answers, TypeOK
  <1>9. OwnAnswer'
    BY <1>0, <1>2 DEF OwnAnswer
  <1> QED  BY <1>4, <1>5, <1>6, <1>7, <1>8, <1>9

LEMMA ExpireInv ==
  ASSUME IInv, NEW r \in requests, Expire(r)
  PROVE  IInv'
  <1> USE DEF IInv
  <1>0. /\ requests' = requests \ {r} /\ call' = [call EXCEPT ![r.call] = "rejected"]
        /\ UNCHANGED <<answer, nextId, clientOpen, toServer, toClient, serverOpen, handling, answered>>
    BY DEF Expire, server
  <1>1. r.call \in Calls
    BY DEF TypeOK, Message
  <1>2. TypeOK'
    BY <1>0, <1>1 DEF TypeOK, Status
  <1>3. MapIsExact' /\ \A c \in Calls : call[c] # "new" => call'[c] # "new"
    <2>1. \A c \in Calls : IF \E q \in {r} : q.call = c THEN call'[c] \in {"resolved", "rejected"}
                                                        ELSE call'[c] = call[c]
      BY <1>0 DEF TypeOK
    <2>2. call' \in [Calls -> Status]  BY <1>2 DEF TypeOK
    <2> QED  BY <1>0, <2>1, <2>2, SettledMap
  <1>4. Distinct'
    <2>1. Messages' \subseteq Messages  BY <1>0 DEF Messages, Carried
    <2> QED  BY <2>1, <1>0, <1>3, FewerMessages
  <1>5. Unserved' /\ Answers'
    BY <1>0, <1>3 DEF Unserved, Answers, Carried, TypeOK
  <1>6. OwnAnswer'
    BY <1>0 DEF OwnAnswer, TypeOK
  <1> QED  BY <1>2, <1>3, <1>4, <1>5, <1>6

\* The end of the channel, as the client sees it.
LEMMA OnCloseClientInv ==
  ASSUME IInv, OnCloseClient
  PROVE  IInv'
  <1> USE DEF IInv
  <1>0. /\ requests' = requests \ requests /\ requests' = {} /\ toClient' = <<>> /\ clientOpen' = FALSE
        /\ call' = [c \in Calls |-> IF \E r \in requests : r.call = c THEN "rejected" ELSE call[c]]
        /\ UNCHANGED <<answer, nextId, toServer, serverOpen, handling, answered>>
    BY DEF OnCloseClient, server
  <1>1. Carried(toClient') = {} /\ toClient' \in Seq(Message)
    BY <1>0, EmptyQueue
  <1>2. TypeOK'
    BY <1>0, <1>1 DEF TypeOK, Status
  <1>3. MapIsExact' /\ \A c \in Calls : call[c] # "new" => call'[c] # "new"
    BY <1>0, SettledMap DEF TypeOK, Status
  <1>4. Distinct'
    <2>1. Messages' \subseteq Messages  BY <1>0, <1>1 DEF Messages, Carried
    <2> QED  BY <2>1, <1>0, <1>3, FewerMessages
  <1>5. Unserved'
    BY <1>0 DEF Unserved, Carried
  <1>6. Answers'
    BY <1>0, <1>1, <1>3 DEF Answers, TypeOK
  <1>7. OwnAnswer'
    BY <1>0 DEF OwnAnswer
  <1> QED  BY <1>2, <1>3, <1>4, <1>5, <1>6, <1>7

-----------------------------------------------------------------------------
(* The steps of the server *)

\* Answering a message that was not answered before: it is gone from where it
\* was, and may be on its way back.
LEMMA RespondInv ==
  ASSUME IInv, NEW m \in Message, m \in Messages, m.call \notin answered, Respond(m),
         toServer' \in Seq(Message), Carried(toServer') \subseteq Carried(toServer),
         \A i, j \in DOMAIN toServer' : (toServer')[i].call = (toServer')[j].call => i = j,
         handling' \subseteq handling,
         \A n \in Carried(toServer') \cup handling' : n.call # m.call,
         UNCHANGED <<call, answer, nextId, requests, clientOpen, serverOpen>>
  PROVE  IInv'
  <1> USE DEF IInv
  <1>0. answered' = answered \cup {m.call} /\ m.call \in Calls
    BY DEF Respond, Message
  <1>1. toClient' \in Seq(Message) /\ Carried(toClient') \subseteq Carried(toClient) \cup {m}
    BY AppendQueue DEF Respond, Sent, TypeOK
  <1>2. TypeOK'
    BY <1>0, <1>1 DEF TypeOK
  <1>3. MapIsExact' /\ OwnAnswer'
    BY DEF MapIsExact, OwnAnswer
  <1>4. Distinct'
    <2>1. Messages' \subseteq Messages  BY <1>1 DEF Messages
    <2> QED  BY <2>1, FewerMessages
  <1>5. Unserved'
    <2>1. \A n \in Carried(toServer') \cup handling' : n.call \notin answered'
      BY <1>0 DEF Unserved
    <2>2. \A n \in Carried(toServer'), k \in handling' : n.call # k.call
      BY DEF Unserved
    <2> QED  BY <2>1, <2>2 DEF Unserved, Carried
  <1>6. Answers'
    BY <1>0, <1>1 DEF Answers, Distinct
  <1> QED  BY <1>2, <1>3, <1>4, <1>5, <1>6

\* Where the message that is taken from the queue was, and nothing else of it.
LEMMA Taken ==
  ASSUME IInv, toServer # <<>>
  PROVE  LET m == Head(toServer) IN
         /\ m \in Message /\ m \in Carried(toServer) /\ m \in Messages /\ m.call \notin answered
         /\ Tail(toServer) \in Seq(Message) /\ Carried(Tail(toServer)) \subseteq Carried(toServer)
         /\ \A i, j \in DOMAIN Tail(toServer) : Tail(toServer)[i].call = Tail(toServer)[j].call => i = j
         /\ \A n \in Carried(Tail(toServer)) \cup handling : n.call # m.call
  <1> DEFINE m == Head(toServer)
             t == Tail(toServer)
  <1> USE DEF IInv
  <1>1. toServer \in Seq(Message)
    BY DEF TypeOK
  <1>2. /\ t \in Seq(Message) /\ m \in Message /\ m = toServer[1] /\ 1 \in DOMAIN toServer
        /\ \A i \in DOMAIN t : i + 1 \in DOMAIN toServer /\ t[i] = toServer[i + 1] /\ i \in Nat \ {0}
        /\ Carried(t) \subseteq Carried(toServer) /\ m \in Carried(toServer)
    BY <1>1, TailQueue
  <1>3. \A i, j \in DOMAIN t : t[i].call = t[j].call => i = j
    <2> SUFFICES ASSUME NEW i \in DOMAIN t, NEW j \in DOMAIN t, t[i].call = t[j].call  PROVE i = j
      OBVIOUS
    <2>1. i + 1 = j + 1  BY <1>2 DEF Unserved
    <2> QED  BY <2>1, <1>2
  <1>4. \A n \in Carried(t) : n.call # m.call
    <2> SUFFICES ASSUME NEW i \in DOMAIN t  PROVE t[i].call # m.call
      BY DEF Carried
    <2>1. i + 1 # 1  BY <1>2
    <2> QED  BY <2>1, <1>2 DEF Unserved
  <1>5. m.call \notin answered /\ \A n \in handling : n.call # m.call
    BY <1>2 DEF Unserved
  <1> QED  BY <1>2, <1>3, <1>4, <1>5 DEF Messages

LEMMA ReceiveRequestInv ==
  ASSUME IInv, ReceiveRequest
  PROVE  IInv'
  <1> DEFINE m == Head(toServer)
  <1> USE DEF IInv
  <1>0. /\ toServer # <<>> /\ toServer' = Tail(toServer)
        /\ UNCHANGED <<call, answer, nextId, requests, clientOpen, serverOpen>>
    BY DEF ReceiveRequest, client
  <1>1. /\ m \in Message /\ m \in Carried(toServer) /\ m \in Messages /\ m.call \notin answered
        /\ toServer' \in Seq(Message) /\ Carried(toServer') \subseteq Carried(toServer)
        /\ \A i, j \in DOMAIN toServer' : (toServer')[i].call = (toServer')[j].call => i = j
        /\ \A n \in Carried(toServer') \cup handling : n.call # m.call
    BY <1>0, Taken
  <1>2. CASE Respond(m) /\ UNCHANGED handling
    BY <1>0, <1>1, <1>2, RespondInv
  <1>3. CASE handling' \subseteq handling \cup {m} /\ UNCHANGED <<toClient, answered>>
    <2>1. TypeOK'  BY <1>0, <1>1, <1>3 DEF TypeOK
    <2>2. MapIsExact' /\ OwnAnswer' /\ Answers'
      BY <1>0, <1>3 DEF MapIsExact, OwnAnswer, Answers, Carried
    <2>3. Distinct'
      <3>1. Messages' \subseteq Messages  BY <1>0, <1>1, <1>3 DEF Messages, Carried
      <3> QED  BY <3>1, <1>0, FewerMessages
    <2>4. Unserved'
      <3>1. \A n \in Carried(toServer') \cup handling' : n.call \notin answered'
        BY <1>1, <1>3 DEF Unserved
      <3>2. \A n \in Carried(toServer'), k \in handling' : n.call # k.call
        BY <1>1, <1>3 DEF Unserved
      <3> QED  BY <3>1, <3>2, <1>1 DEF Unserved, Carried
    <2> QED  BY <2>1, <2>2, <2>3, <2>4
  <1> QED  BY <1>2, <1>3 DEF ReceiveRequest

LEMMA FinishHandlerInv ==
  ASSUME IInv, NEW m \in handling, FinishHandler(m)
  PROVE  IInv'
  <1> USE DEF IInv
  <1>0. /\ handling' = handling \ {m} /\ Respond(m)
        /\ UNCHANGED <<call, answer, nextId, requests, clientOpen, serverOpen, toServer>>
    BY DEF FinishHandler, client
  <1>1. m \in Message /\ m \in Messages /\ m.call \notin answered
    BY DEF TypeOK, Messages, Unserved
  <1>2. \A n \in handling' : n.call # m.call
    <2> SUFFICES ASSUME NEW n \in handling, n.call = m.call  PROVE n = m
      BY <1>0
    <2>1. n \in Messages /\ n \in Message  BY DEF Messages, TypeOK
    <2>2. n.id = m.id  BY <2>1, <1>1 DEF Distinct
    <2> QED  BY <2>1, <2>2, <1>1 DEF Message
  <1>3. \A n \in Carried(toServer') : n.call # m.call
    BY <1>0 DEF Unserved, Carried
  <1>4. /\ toServer' \in Seq(Message) /\ Carried(toServer') \subseteq Carried(toServer)
        /\ \A i, j \in DOMAIN toServer' : (toServer')[i].call = (toServer')[j].call => i = j
    BY <1>0 DEF TypeOK, Unserved, Carried
  <1> QED  BY <1>0, <1>1, <1>2, <1>3, <1>4, RespondInv

LEMMA OnCloseServerInv ==
  ASSUME IInv, OnCloseServer
  PROVE  IInv'
  <1> USE DEF IInv
  <1>0. /\ toServer' = <<>> /\ serverOpen' = FALSE
        /\ UNCHANGED <<call, answer, nextId, requests, clientOpen, toClient, handling, answered>>
    BY DEF OnCloseServer, client
  <1>1. Carried(toServer') = {} /\ toServer' \in Seq(Message)
    BY <1>0, EmptyQueue
  <1>2. TypeOK' /\ MapIsExact' /\ OwnAnswer' /\ Answers'
    BY <1>0, <1>1, ZenonT(40) DEF TypeOK, MapIsExact, OwnAnswer, Answers, Carried
  <1>3. Distinct'
    <2>1. Messages' \subseteq Messages  BY <1>0, <1>1 DEF Messages, Carried
    <2> QED  BY <2>1, <1>0, FewerMessages
  <1>4. Unserved'
    BY <1>0, <1>1 DEF Unserved, Carried
  <1> QED  BY <1>2, <1>3, <1>4

-----------------------------------------------------------------------------
(* Every reachable state *)

LEMMA InitInv == Init => IInv
  <1> SUFFICES ASSUME Init  PROVE IInv
    OBVIOUS
  <1>1. /\ Messages = {} /\ Carried(toServer) = {} /\ Carried(toClient) = {}
        /\ toServer \in Seq(Message) /\ toClient \in Seq(Message)
    BY EmptyQueue DEF Init, Messages
  <1>2. TypeOK
    BY <1>1 DEF Init, TypeOK, Status
  <1>3. MapIsExact /\ OwnAnswer
    BY DEF Init, MapIsExact, OwnAnswer
  <1>4. Distinct /\ Answers
    BY <1>1 DEF Init, Distinct, Answers
  <1>5. Unserved
    BY <1>1 DEF Init, Unserved
  <1> QED  BY <1>2, <1>3, <1>4, <1>5 DEF IInv

LEMMA NextInv == IInv /\ [Next]_vars => IInv'
  <1> SUFFICES ASSUME IInv, [Next]_vars  PROVE IInv'
    OBVIOUS
  <1>1. CASE \E c \in Calls : Send(c)
    BY <1>1, SendInv
  <1>2. CASE ReceiveAnswer
    BY <1>2, ReceiveAnswerInv
  <1>3. CASE \E r \in requests : Expire(r)
    BY <1>3, ExpireInv
  <1>4. CASE CloseClient \/ ClientSeesClose
    BY <1>4, OnCloseClientInv DEF CloseClient, ClientSeesClose
  <1>5. CASE ReceiveRequest
    BY <1>5, ReceiveRequestInv
  <1>6. CASE \E m \in handling : FinishHandler(m)
    BY <1>6, FinishHandlerInv
  <1>7. CASE CloseServer \/ ServerSeesClose
    BY <1>7, OnCloseServerInv DEF CloseServer, ServerSeesClose
  <1>8. CASE UNCHANGED vars
    BY <1>8 DEF vars, IInv, TypeOK, MapIsExact, Distinct, Unserved, Answers, OwnAnswer,
                Messages, Carried
  <1> QED  BY <1>1, <1>2, <1>3, <1>4, <1>5, <1>6, <1>7, <1>8 DEF Next

LEMMA Invariance == Spec => []IInv
  BY InitInv, NextInv, PTL DEF Spec

(* Every variable has its type (the map, the counter and the two directions   *)
(* of a channel of relay-protocol.mjs).                                       *)
THEOREM TypeCorrect == Spec => []TypeOK
  <1>1. IInv => TypeOK  BY DEF IInv
  <1> QED  BY <1>1, Invariance, PTL

(* A call is resolved with the answer to itself (_onresponse), for any number *)
(* of calls, in whatever order handlers finish and timers fire.               *)
THEOREM AnswersAreOwn == Spec => []OwnAnswer
  <1>1. IInv => OwnAnswer  BY DEF IInv
  <1> QED  BY <1>1, Invariance, PTL

(* The map holds exactly the calls whose promise is open (sendRequest,        *)
(* _onresponse, the timers and _onclose).                                     *)
THEOREM MapExact == Spec => []MapIsExact
  <1>1. IInv => MapIsExact  BY DEF IInv
  <1> QED  BY <1>1, Invariance, PTL

-----------------------------------------------------------------------------
(* The protocol implements RequestOnce: each step is one of its steps, or     *)
(* changes neither the promises nor the calls that were answered.             *)

LEMMA ReceiveAnswerOnce ==
  ASSUME IInv, ReceiveAnswer
  PROVE  Once!Next \/ UNCHANGED Once!vars
  <1> DEFINE h == Head(toClient)
             S == {r \in requests : r.id = h.id}
  <1>0. /\ toClient # <<>> /\ answered' = answered
        /\ call' = [c \in Calls |-> IF \E r \in S : r.call = c THEN "resolved" ELSE call[c]]
    BY DEF ReceiveAnswer, Found, server
  <1>1. h \in Carried(toClient) /\ h.call \in Calls /\ h.call \in answered
    BY <1>0, TailQueue DEF IInv, TypeOK, Answers, Message
  <1>2. \A r \in S : r = h
    BY <1>1, OneEntry DEF IInv, Messages
  <1>3. call \in [Calls -> Status]
    BY DEF IInv, TypeOK
  <1>4. CASE S = {}
    <2>1. call' = call  BY <1>0, <1>3, <1>4
    <2> QED  BY <2>1, <1>0 DEF Once!vars
  <1>5. CASE S # {}
    <2>1. h \in requests /\ \A c \in Calls : (\E r \in S : r.call = c) <=> c = h.call
      BY <1>2, <1>5
    <2>2. call[h.call] = "waiting"
      BY <2>1, <1>1 DEF IInv, MapIsExact
    <2>3. call' = [call EXCEPT ![h.call] = "resolved"]
      BY <2>1, <1>0, <1>3
    <2>4. Once!Resolve(h.call)
      BY <2>2, <2>3, <1>0, <1>1 DEF Once!Resolve
    <2> QED  BY <2>4, <1>1 DEF Once!Next
  <1> QED  BY <1>4, <1>5

LEMMA ExpireOnce ==
  ASSUME IInv, NEW r \in requests, Expire(r)
  PROVE  Once!Next
  <1>1. r.call \in Calls /\ call \in [Calls -> Status]
    BY DEF IInv, TypeOK, Message
  <1>2. call[r.call] = "waiting"
    BY <1>1 DEF IInv, MapIsExact
  <1>3. call' = [c \in Calls |-> IF c \in {r.call} THEN "rejected" ELSE call[c]] /\ answered' = answered
    BY <1>1 DEF Expire, server
  <1>4. Once!Reject({r.call})
    BY <1>2, <1>3 DEF Once!Reject
  <1> QED  BY <1>1, <1>4 DEF Once!Next

LEMMA OnCloseClientOnce ==
  ASSUME IInv, OnCloseClient
  PROVE  Once!Next \/ UNCHANGED Once!vars
  <1> DEFINE S == {c \in Calls : \E r \in requests : r.call = c}
  <1>1. call' = [c \in Calls |-> IF c \in S THEN "rejected" ELSE call[c]] /\ answered' = answered
    BY DEF OnCloseClient, server
  <1>2. \A c \in S : call[c] = "waiting"
    BY DEF IInv, MapIsExact
  <1>3. CASE S = {}
    <2>1. call' = call  BY <1>1, <1>3 DEF IInv, TypeOK
    <2> QED  BY <2>1, <1>1 DEF Once!vars
  <1>4. CASE S # {}
    <2>1. Once!Reject(S)  BY <1>1, <1>2, <1>4 DEF Once!Reject
    <2> QED  BY <2>1 DEF Once!Next
  <1> QED  BY <1>3, <1>4

\* Each call is answered once.
LEMMA RespondOnce ==
  ASSUME IInv, NEW m \in Messages, m.call \notin answered, Respond(m), call' = call
  PROVE  Once!Next
  <1>1. m.call \in Calls  BY MessagesTyped DEF IInv
  <1>2. call[m.call] # "new"  BY DEF IInv, Distinct
  <1>3. Once!Serve(m.call)  BY <1>2 DEF Respond, Once!Serve
  <1> QED  BY <1>1, <1>3 DEF Once!Next

LEMMA StepOnce == IInv /\ [Next]_vars => [Once!Next]_(Once!vars)
  <1> SUFFICES ASSUME IInv, [Next]_vars  PROVE Once!Next \/ UNCHANGED Once!vars
    OBVIOUS
  <1>1. ASSUME NEW c \in Calls, Send(c)  PROVE Once!Next
    <2>1. Once!Start(c)  BY <1>1 DEF Send, server, Once!Start
    <2> QED  BY <2>1 DEF Once!Next
  <1>2. CASE ReceiveAnswer
    BY <1>2, ReceiveAnswerOnce
  <1>3. CASE \E r \in requests : Expire(r)
    BY <1>3, ExpireOnce
  <1>4. CASE CloseClient \/ ClientSeesClose
    BY <1>4, OnCloseClientOnce DEF CloseClient, ClientSeesClose
  <1>5. CASE ReceiveRequest
    <2> DEFINE m == Head(toServer)
    <2>1. toServer # <<>> /\ call' = call  BY <1>5 DEF ReceiveRequest, client
    <2>2. m \in Messages /\ m.call \notin answered  BY <2>1, Taken
    <2>3. CASE Respond(m)  BY <2>1, <2>2, <2>3, RespondOnce
    <2>4. CASE answered' = answered  BY <2>1, <2>4 DEF Once!vars
    <2> QED  BY <1>5, <2>3, <2>4 DEF ReceiveRequest
  <1>6. ASSUME NEW m \in handling, FinishHandler(m)  PROVE Once!Next
    <2>1. m \in Messages /\ m.call \notin answered  BY DEF IInv, Messages, Unserved
    <2>2. Respond(m) /\ call' = call  BY <1>6 DEF FinishHandler, client
    <2> QED  BY <2>1, <2>2, RespondOnce
  <1>7. CASE CloseServer \/ ServerSeesClose
    BY <1>7 DEF CloseServer, ServerSeesClose, OnCloseServer, client, Once!vars
  <1>8. CASE UNCHANGED vars
    BY <1>8 DEF vars, Once!vars
  <1> QED  BY <1>1, <1>2, <1>3, <1>4, <1>5, <1>6, <1>7, <1>8 DEF Next

(* RelayProtocol keeps the promise of RequestOnce to its callers: a call      *)
(* settles once, with the answer the other side gave it, which answers once.  *)
THEOREM Implements == Spec => ImplementsOnce
  <1>1. Init => Once!Init  BY DEF Init, Once!Init
  <1> QED  BY <1>1, StepOnce, Invariance, PTL DEF Spec, ImplementsOnce, Once!Spec

-----------------------------------------------------------------------------
(* Peers                                                                      *)

(* The peer's entry is of a stream that has begun, and an interval has an     *)
(* older number than the next.  When streams do not overlap an interval is    *)
(* that of the entry, whose stream is open.                                   *)
EntryBegun == peer # NoStream => channel[peer] # "new"
Numbered == \A t \in timers : t.id < nextTimer
OneTimer ==
  ~overlap => \A t \in timers : t.entry = peer /\ t.id = interval[peer] /\ channel[peer] = "open"

PeerInv ==
  /\ PeersTypeOK /\ PendingIsExact /\ GatewayIsLive /\ TracksPeer
  /\ EntryBegun /\ Numbered /\ OneTimer

LEMMA PeersInitInv ==
  ASSUME ConnectionConstants, PeersInit
  PROVE  PeerInv
  <1>1. channel \in [Streams -> {"new", "opening", "open", "closed"}] /\ Live = {}
    BY DEF PeersInit, Live
  <1>2. wait \in [Waits -> Outcomes]  BY DEF PeersInit, Outcomes
  <1>3. PeersTypeOK
    <2>1. 0 \in 0..MaxTimers /\ 1 \in 1..(MaxTimers + 1)  BY DEF ConnectionConstants
    <2>2. interval \in [Streams -> 0..MaxTimers]  BY <2>1 DEF PeersInit
    <2> QED  BY <1>1, <1>2, <2>1, <2>2 DEF PeersInit, PeersTypeOK
  <1>4. PendingIsExact /\ GatewayIsLive  BY DEF PeersInit, PendingIsExact, GatewayIsLive
  <1>5. TracksPeer  BY <1>1 DEF PeersInit, TracksPeer
  <1>6. EntryBegun /\ Numbered /\ OneTimer  BY DEF PeersInit, EntryBegun, Numbered, OneTimer
  <1> QED  BY <1>3, <1>4, <1>5, <1>6 DEF PeerInv

LEMMA ConnectInv ==
  ASSUME ConnectionConstants, PeerInv, NEW s \in Streams, Connect(s)
  PROVE  PeerInv'
  <1>1. PeersTypeOK'
    BY DEF ConnectionConstants, PeerInv, PeersTypeOK, Connect, Outcomes
  <1>2. PendingIsExact' /\ GatewayIsLive'
    BY DEF PeerInv, PendingIsExact, GatewayIsLive, Connect, PeersTypeOK
  <1>3. ~overlap => peer = NoStream /\ timers = {}
    <2>1. SUFFICES ASSUME ~overlap  PROVE peer = NoStream /\ timers = {}  OBVIOUS
    <2>2. Live = {}  BY <2>1 DEF Connect
    <2>3. peer = NoStream  BY <2>1, <2>2 DEF PeerInv, TracksPeer
    <2>4. \A t \in timers : t.entry \in Streams  BY DEF PeerInv, PeersTypeOK
    <2> QED  BY <2>1, <2>3, <2>4 DEF PeerInv, OneTimer, ConnectionConstants
  <1>4. TracksPeer'
    <2>1. SUFFICES ASSUME ~overlap'  PROVE Live' = {s}
      BY DEF TracksPeer, Connect, PeerInv, PeersTypeOK
    <2>2. Live = {}  BY <2>1 DEF Connect
    <2> QED  BY <2>2 DEF Live, Connect, PeerInv, PeersTypeOK
  <1>5. EntryBegun' /\ Numbered' /\ OneTimer'
    BY <1>3 DEF EntryBegun, Numbered, OneTimer, Connect, PeerInv, PeersTypeOK
  <1> QED  BY <1>1, <1>2, <1>4, <1>5 DEF PeerInv

LEMMA StartKeepAliveInv ==
  ASSUME ConnectionConstants, PeerInv, StartKeepAlive
  PROVE  /\ interval' \in [Streams -> 0..MaxTimers]
         /\ timers' \subseteq [id : 1..MaxTimers, entry : Streams]
         /\ \A t, u \in timers' : t.id = u.id => t = u
         /\ nextTimer' \in 1..(MaxTimers + 1)
         /\ \A t \in timers' : t.id < nextTimer'
         /\ \A t \in timers' \ timers : t.entry = peer /\ t.id = interval'[peer]
  <1>1. CASE UNCHANGED <<interval, timers, nextTimer>>
    BY <1>1 DEF PeerInv, PeersTypeOK, Numbered
  <1>2. CASE peer # NoStream /\ nextTimer <= MaxTimers
             /\ timers' = timers \cup {[id |-> nextTimer, entry |-> peer]}
             /\ interval' = [interval EXCEPT ![peer] = nextTimer]
             /\ nextTimer' = nextTimer + 1
    <2>1. peer \in Streams /\ nextTimer \in 1..MaxTimers /\ MaxTimers \in Nat
      BY <1>2 DEF PeerInv, PeersTypeOK, ConnectionConstants
    <2>2. \A t \in timers : t.id \in Int /\ t.id < nextTimer
      BY DEF PeerInv, PeersTypeOK, Numbered
    <2>3. interval' \in [Streams -> 0..MaxTimers] /\ interval'[peer] = nextTimer
      BY <1>2, <2>1 DEF PeerInv, PeersTypeOK
    <2>4. timers' \subseteq [id : 1..MaxTimers, entry : Streams]
      BY <1>2, <2>1 DEF PeerInv, PeersTypeOK
    <2>5. \A t, u \in timers' : t.id = u.id => t = u
      BY <1>2, <2>1, <2>2 DEF PeerInv, PeersTypeOK
    <2> QED  BY <1>2, <2>1, <2>2, <2>3, <2>4, <2>5
  <1> QED  BY <1>1, <1>2 DEF StartKeepAlive

LEMMA StreamOpensInv ==
  ASSUME ConnectionConstants, PeerInv, NEW s \in Streams, StreamOpens(s)
  PROVE  PeerInv'
  <1>1. channel' \in [Streams -> {"new", "opening", "open", "closed"}] /\ channel'[s] = "open"
        /\ \A u \in Streams : u # s => channel'[u] = channel[u]
    BY DEF StreamOpens, PeerInv, PeersTypeOK
  <1>2. wait' \in [Waits -> Outcomes]
    BY DEF StreamOpens, ResolvePending, PeerInv, PeersTypeOK, Outcomes
  <1>3. PeersTypeOK'
    BY <1>1, <1>2, StartKeepAliveInv DEF StreamOpens, PeerInv, PeersTypeOK
  <1>4. PendingIsExact'
    BY DEF StreamOpens, ResolvePending, PeerInv, PendingIsExact, ConnectionConstants, PeersTypeOK, Outcomes
  <1>5. GatewayIsLive'
    BY <1>1 DEF StreamOpens, PeerInv, GatewayIsLive, PeersTypeOK
  <1>6. Live' = Live  BY <1>1 DEF StreamOpens, Live
  <1>7. TracksPeer'  BY <1>6 DEF StreamOpens, PeerInv, TracksPeer
  <1>8. EntryBegun'  BY <1>1 DEF StreamOpens, PeerInv, EntryBegun, PeersTypeOK
  <1>9. Numbered'  BY StartKeepAliveInv DEF StreamOpens, Numbered
  <1>10. OneTimer'
    <2>1. SUFFICES ASSUME ~overlap
                   PROVE  \A t \in timers' : t.entry = peer /\ t.id = interval'[peer] /\ channel'[peer] = "open"
      BY DEF OneTimer, StreamOpens
    <2>2. s \in Live  BY DEF StreamOpens, Live
    <2>3. peer = s  BY <2>1, <2>2 DEF PeerInv, TracksPeer
    <2>4. timers = {}  BY <2>1, <2>3 DEF PeerInv, OneTimer, StreamOpens
    <2> QED  BY <2>3, <2>4, <1>1, StartKeepAliveInv DEF StreamOpens
  <1> QED  BY <1>3, <1>4, <1>5, <1>7, <1>8, <1>9, <1>10 DEF PeerInv

LEMMA StreamClosesInv ==
  ASSUME ConnectionConstants, PeerInv, NEW s \in Streams, StreamCloses(s)
  PROVE  PeerInv'
  <1>1. channel' \in [Streams -> {"new", "opening", "open", "closed"}] /\ channel'[s] = "closed"
        /\ \A u \in Streams : u # s => channel'[u] = channel[u]
    BY DEF StreamCloses, PeerInv, PeersTypeOK
  <1>2. wait' \in [Waits -> Outcomes]
    BY DEF StreamCloses, RejectPending, PeerInv, PeersTypeOK, Outcomes
  <1>3. timers' \subseteq timers  BY DEF StreamCloses, Cleared
  <1>4. PeersTypeOK'
    BY <1>1, <1>2, <1>3 DEF StreamCloses, PeerInv, PeersTypeOK, GatewayAfterClose
  <1>5. PendingIsExact'
    BY DEF StreamCloses, RejectPending, PeerInv, PendingIsExact, PeersTypeOK
  <1>6. GatewayIsLive'
    BY <1>1 DEF StreamCloses, GatewayAfterClose, PeerInv, GatewayIsLive, PeersTypeOK
  <1>7. Live' = Live \ {s}  BY <1>1 DEF Live
  <1>8. s \in Live  BY DEF StreamCloses, Live
  <1>9. TracksPeer'
    BY <1>7, <1>8 DEF StreamCloses, PeerInv, TracksPeer
  <1>10. EntryBegun' /\ Numbered'  BY <1>3 DEF StreamCloses, EntryBegun, PeerInv, Numbered
  <1>11. OneTimer'
    <2>1. ASSUME ~overlap  PROVE timers' = {}
      <3>1. peer = s  BY <1>8, <2>1 DEF PeerInv, TracksPeer
      <3> QED  BY <2>1, <3>1 DEF StreamCloses, Cleared, PeerInv, OneTimer, ConnectionConstants
    <2> QED  BY <2>1 DEF OneTimer, StreamCloses
  <1> QED  BY <1>4, <1>5, <1>6, <1>9, <1>10, <1>11 DEF PeerInv

LEMMA KeepAliveInv ==
  ASSUME ConnectionConstants, PeerInv, NEW t \in timers, KeepAlive(t)
  PROVE  PeerInv'
  <1>1. overlap  BY DEF PeerInv, OneTimer, KeepAlive
  <1>2. timers' \subseteq timers  BY DEF KeepAlive, Cleared
  <1>3. PeersTypeOK'  BY <1>2 DEF KeepAlive, PeerInv, PeersTypeOK
  <1> QED
    BY <1>1, <1>2, <1>3 DEF KeepAlive, PeerInv, PendingIsExact, GatewayIsLive, TracksPeer, EntryBegun,
       Numbered, OneTimer

LEMMA WaitsInv ==
  ASSUME ConnectionConstants, PeerInv, NEW w \in Waits, UseExisting(w) \/ StartWait(w) \/ Timeout(w)
  PROVE  PeerInv'
  <1>1. /\ UNCHANGED <<channel, peer, interval, timers, nextTimer, gatewayConnection, overlap>>
        /\ joined' \in BOOLEAN
    BY DEF UseExisting, StartWait, Timeout, PeerInv, PeersTypeOK
  <1>2. wait' \in [Waits -> Outcomes] /\ PendingIsExact'
    <2>1. CASE UseExisting(w)
      BY <2>1 DEF UseExisting, HasProtocol, PeerInv, PeersTypeOK, PendingIsExact, Outcomes, ConnectionConstants
    <2>2. CASE StartWait(w)
      BY <2>2 DEF StartWait, PeerInv, PeersTypeOK, PendingIsExact, Outcomes
    <2>3. CASE Timeout(w)
      BY <2>3 DEF Timeout, PeerInv, PeersTypeOK, PendingIsExact, Outcomes
    <2> QED  BY <2>1, <2>2, <2>3
  <1>3. PeersTypeOK'  BY <1>1, <1>2 DEF PeerInv, PeersTypeOK
  <1> QED
    BY <1>1, <1>2, <1>3 DEF PeerInv, GatewayIsLive, TracksPeer, Live, EntryBegun, Numbered, OneTimer

LEMMA PeersNextInv == ConnectionConstants /\ PeerInv /\ [PeersNext]_peerVars => PeerInv'
  <1> SUFFICES ASSUME ConnectionConstants, PeerInv, [PeersNext]_peerVars  PROVE PeerInv'
    OBVIOUS
  <1>1. ASSUME NEW s \in Streams, Identify(s)  PROVE PeerInv'
    <2>1. PeersTypeOK' /\ GatewayIsLive'
      BY <1>1 DEF Identify, PeerInv, PeersTypeOK, GatewayIsLive
    <2> QED
      BY <1>1, <2>1 DEF Identify, PeerInv, PendingIsExact, TracksPeer, Live, EntryBegun, Numbered, OneTimer
  <1>2. CASE UNCHANGED peerVars
    BY <1>2 DEF peerVars, PeerInv, PeersTypeOK, PendingIsExact, GatewayIsLive, TracksPeer, Live, EntryBegun,
       Numbered, OneTimer
  <1> QED
    BY <1>1, <1>2, ConnectInv, StreamOpensInv, StreamClosesInv, KeepAliveInv, WaitsInv DEF PeersNext

LEMMA PeersAlways == ASSUME ConnectionConstants PROVE PeersSpec => []PeerInv
  <1>1. PeersInit => PeerInv  BY PeersInitInv
  <1>2. PeerInv /\ [PeersNext]_peerVars => PeerInv'  BY PeersNextInv
  <1> QED  BY <1>1, <1>2, PTL DEF PeersSpec

(* Any number of streams, waits and intervals, in any order: the awaiters of  *)
(* the peer are the calls that wait (pendingPeerProtocols), the gateway       *)
(* connection is open, and while streams do not overlap the entry of          *)
(* connectedPeers is that of the one stream there is.                         *)
THEOREM PeersTracked ==
  ASSUME ConnectionConstants
  PROVE  PeersSpec => [](PendingIsExact /\ GatewayIsLive /\ TracksPeer)
  <1>1. PeerInv => PendingIsExact /\ GatewayIsLive /\ TracksPeer  BY DEF PeerInv
  <1> QED  BY <1>1, PeersAlways, PTL

(* A wait for a peer (waitForPeerProtocol) is never answered with a protocol  *)
(* that is closed at that moment.                                             *)
THEOREM WaitsGetLive ==
  ASSUME ConnectionConstants
  PROVE  PeersSpec => WaitGetsLive
  <1> DEFINE Fresh == \A w \in Waits : wait'[w] \in Streams /\ wait[w] \notin Streams
                        => channel'[wait'[w]] \in {"opening", "open"}
  <1>1. ASSUME PeerInv, NEW s \in Streams, StreamOpens(s)  PROVE Fresh
    BY <1>1 DEF StreamOpens, ResolvePending, PeerInv, PeersTypeOK
  <1>2. ASSUME PeerInv, NEW v \in Waits, UseExisting(v)  PROVE Fresh
    BY <1>2 DEF UseExisting, HasProtocol, PeerInv, PeersTypeOK, EntryBegun
  <1>3. ASSUME PeerInv, NEW s \in Streams, StreamCloses(s)  PROVE Fresh
    BY <1>3 DEF StreamCloses, RejectPending, PeerInv, PeersTypeOK, ConnectionConstants
  <1>4. ASSUME PeerInv, NEW v \in Waits, StartWait(v) \/ Timeout(v)  PROVE Fresh
    BY <1>4 DEF StartWait, Timeout, PeerInv, PeersTypeOK, ConnectionConstants
  <1>5. ASSUME NEW s, Connect(s) \/ Identify(s)  PROVE wait' = wait
    BY <1>5 DEF Connect, Identify
  <1>6. ASSUME NEW t, KeepAlive(t)  PROVE wait' = wait  BY <1>6 DEF KeepAlive
  <1>7. PeerInv /\ [PeersNext]_peerVars => [Fresh]_peerVars
    BY <1>1, <1>2, <1>3, <1>4, <1>5, <1>6 DEF PeersNext
  <1> QED  BY <1>7, PeersAlways, PTL DEF PeersSpec, WaitGetsLive

-----------------------------------------------------------------------------
(* Registrations                                                              *)

\* Where a relay r is: in the queues q, with the processors of w, in its own
\* call of a.
Occurs(s, r) == \E i \in DOMAIN s : s[i] = r
OccursOnce(s, r) == \A i, j \in DOMAIN s : s[i] = r /\ s[j] = r => i = j
Queued(q, r) == \E k \in QueueKeys : Occurs(q[k], r)
QueuedOnce(q, r) ==
  /\ \A k \in QueueKeys : OccursOnce(q[k], r)
  /\ \A k, l \in QueueKeys : Occurs(q[k], r) /\ Occurs(q[l], r) => k = l
Works(w, p, r) == w[p].phase # "idle" /\ w[p].item = r
Worked(w, r) == \E p \in Processors : Works(w, p, r)
WorkedOnce(w, r) == \A p, p2 \in Processors : Works(w, p, r) /\ Works(w, p2, r) => p = p2
Calling(a, r) == a[r] \in {"reading", "sent", "failed"}

Somewhere(q, w, r) == Queued(q, r) \/ Worked(w, r)
OnePlace(q, w, r) == QueuedOnce(q, r) /\ WorkedOnce(w, r) /\ ~(Queued(q, r) /\ Worked(w, r))

\* A relay is in one place at most; in none before it asks or once it is
\* registered, and in one from when it asks until then, unless it was unrouted.
Placed(q, w, a, done, lost, r) ==
  /\ OnePlace(q, w, r) /\ ~(Somewhere(q, w, r) /\ Calling(a, r))
  /\ r \in done => ~Somewhere(q, w, r) /\ ~Calling(a, r)
  /\ a[r] = "none" => ~Somewhere(q, w, r) /\ r \notin done
  /\ a[r] # "none" => r \in done \/ r \in lost \/ Somewhere(q, w, r) \/ Calling(a, r)

Processings == [phase : Phases \cup {"idle"}, key : QueueKeys, item : Items, last : BOOLEAN]

RegistrationTyped ==
  /\ gateway \in [Gateways -> {"down", "open", "identified"}]
  /\ queue \in [QueueKeys -> Seq(Items)] /\ ask \in [Relays -> Phases] /\ proc \in [Processors -> Processings]
  /\ registered \subseteq Relays /\ unrouted \subseteq Relays
  /\ connects \in 0..MaxConnects /\ generals \in 0..MaxGeneral

SentHasRoute ==
  \A p \in Processors :
    proc[p].phase = "sent" => proc[p].item \in Relays /\ gateway[GatewayOf[proc[p].item]] = "identified"

RegistrationInv ==
  /\ RegistrationTyped /\ SentHasRoute
  /\ \A r \in Relays : Placed(queue, proc, ask, registered, unrouted, r)

-----------------------------------------------------------------------------
(* Queues of registrations *)

LEMMA AppendOccurs ==
  ASSUME NEW s \in Seq(Items), NEW x \in Items, NEW r, NEW t, t = Append(s, x)
  PROVE  /\ t \in Seq(Items)
         /\ Occurs(t, r) <=> Occurs(s, r) \/ x = r
         /\ OccursOnce(s, r) /\ ~(Occurs(s, r) /\ x = r) => OccursOnce(t, r)
  <1>1. /\ t \in Seq(Items) /\ Len(s) \in Nat
        /\ DOMAIN s = 1..Len(s) /\ DOMAIN t = 1..(Len(s) + 1)
        /\ t[Len(s) + 1] = x /\ \A i \in 1..Len(s) : t[i] = s[i]
    OBVIOUS
  <1>2. \A i \in 1..(Len(s) + 1) : i \in 1..Len(s) \/ i = Len(s) + 1  BY <1>1
  <1>3. Len(s) + 1 \in 1..(Len(s) + 1) /\ \A i \in 1..Len(s) : i \in 1..(Len(s) + 1)  BY <1>1
  <1>4. Occurs(t, r) <=> Occurs(s, r) \/ x = r  BY <1>1, <1>2, <1>3 DEF Occurs
  <1>5. ASSUME OccursOnce(s, r), ~(Occurs(s, r) /\ x = r)  PROVE OccursOnce(t, r)
    BY <1>1, <1>2, <1>5 DEF Occurs, OccursOnce
  <1> QED  BY <1>1, <1>4, <1>5

LEMMA FrontOccurs ==
  ASSUME NEW s \in Seq(Items), NEW x \in Items, NEW r, NEW t, t = <<x>> \o s
  PROVE  /\ t \in Seq(Items)
         /\ Occurs(t, r) <=> Occurs(s, r) \/ x = r
         /\ OccursOnce(s, r) /\ ~(Occurs(s, r) /\ x = r) => OccursOnce(t, r)
  <1>1. /\ t \in Seq(Items) /\ Len(s) \in Nat /\ Len(t) = Len(s) + 1
        /\ DOMAIN s = 1..Len(s) /\ DOMAIN t = 1..(Len(s) + 1)
        /\ t[1] = x /\ \A i \in 1..Len(s) : t[i + 1] = s[i]
    OBVIOUS
  <1>2. \A i \in 1..(Len(s) + 1) : i = 1 \/ \E j \in 1..Len(s) : i = j + 1
    <2>1. \A i \in 1..(Len(s) + 1) : i = 1 \/ (i - 1 \in 1..Len(s) /\ i = (i - 1) + 1)  BY <1>1
    <2> QED  BY <2>1
  <1>3. 1 \in 1..(Len(s) + 1) /\ \A i \in 1..Len(s) : i + 1 \in 1..(Len(s) + 1)  BY <1>1
  <1>5. Occurs(t, r) <=> Occurs(s, r) \/ x = r
    <2>1. Occurs(t, r) => Occurs(s, r) \/ x = r  BY <1>1, <1>2 DEF Occurs
    <2>2. Occurs(s, r) \/ x = r => Occurs(t, r)  BY <1>1, <1>3 DEF Occurs
    <2> QED  BY <2>1, <2>2
  <1>6. ASSUME OccursOnce(s, r), ~(Occurs(s, r) /\ x = r)  PROVE OccursOnce(t, r)
    BY <1>1, <1>2, <1>6 DEF Occurs, OccursOnce
  <1> QED  BY <1>1, <1>5, <1>6

LEMMA TailOccurs ==
  ASSUME NEW s \in Seq(Items), s # <<>>, NEW r
  PROVE  /\ Tail(s) \in Seq(Items) /\ Head(s) \in Items
         /\ Occurs(s, r) <=> Occurs(Tail(s), r) \/ Head(s) = r
         /\ OccursOnce(s, r) => OccursOnce(Tail(s), r) /\ ~(Head(s) = r /\ Occurs(Tail(s), r))
  <1>1. /\ Tail(s) \in Seq(Items) /\ Head(s) \in Items /\ Len(s) \in Nat /\ Len(s) > 0
        /\ DOMAIN s = 1..Len(s) /\ DOMAIN Tail(s) = 1..(Len(s) - 1)
        /\ Head(s) = s[1] /\ \A i \in 1..(Len(s) - 1) : Tail(s)[i] = s[i + 1]
    OBVIOUS
  <1>2. \A i \in 1..(Len(s) - 1) : i + 1 \in 1..Len(s) /\ i + 1 # 1 /\ i \in Nat  BY <1>1
  <1>3. 1 \in 1..Len(s)  BY <1>1
  <1>4. \A i \in 1..Len(s) : i = 1 \/ \E j \in 1..(Len(s) - 1) : i = j + 1
    <2>1. \A i \in 1..Len(s) : i = 1 \/ (i - 1 \in 1..(Len(s) - 1) /\ i = (i - 1) + 1)  BY <1>1
    <2> QED  BY <2>1
  <1>6. Occurs(s, r) <=> Occurs(Tail(s), r) \/ Head(s) = r
    <2>1. ASSUME NEW i \in DOMAIN s, s[i] = r, i # 1  PROVE Occurs(Tail(s), r)
      <3>1. PICK j \in 1..(Len(s) - 1) : i = j + 1  BY <1>1, <1>4, <2>1
      <3>2. Tail(s)[j] = r /\ j \in DOMAIN Tail(s)  BY <1>1, <2>1, <3>1
      <3> QED  BY <3>2 DEF Occurs
    <2>2. Occurs(Tail(s), r) \/ Head(s) = r => Occurs(s, r)  BY <1>1, <1>2, <1>3 DEF Occurs
    <2> QED  BY <1>1, <2>1, <2>2 DEF Occurs
  <1>7. ASSUME OccursOnce(s, r)  PROVE OccursOnce(Tail(s), r) /\ ~(Head(s) = r /\ Occurs(Tail(s), r))
    <2>1. \A i, j \in 1..(Len(s) - 1) : i + 1 = j + 1 => i = j  BY <1>2
    <2>2. OccursOnce(Tail(s), r)  BY <1>1, <1>2, <1>7, <2>1 DEF OccursOnce
    <2>3. ~(Head(s) = r /\ Occurs(Tail(s), r))  BY <1>1, <1>2, <1>3, <1>7 DEF Occurs, OccursOnce
    <2> QED  BY <2>2, <2>3
  <1> QED  BY <1>1, <1>6, <1>7

\* What it means for relay r that x is put in a queue, or the first of queue
\* `key` taken, so that queues q become q2.
PutIn(q, x, r, q2) ==
  /\ q2 \in [QueueKeys -> Seq(Items)]
  /\ Queued(q2, r) <=> Queued(q, r) \/ x = r
  /\ QueuedOnce(q, r) /\ ~(Queued(q, r) /\ x = r) => QueuedOnce(q2, r)
TakenFrom(q, key, r, q2) ==
  /\ q2 \in [QueueKeys -> Seq(Items)] /\ Head(q[key]) \in Items
  /\ Head(q[key]) = r => Queued(q, r) /\ (QueuedOnce(q, r) => ~Queued(q2, r))
  /\ Head(q[key]) # r => (Queued(q2, r) <=> Queued(q, r))
  /\ QueuedOnce(q, r) => QueuedOnce(q2, r)

\* A registration is put at an end of a queue.
LEMMA Puts ==
  ASSUME NEW q \in [QueueKeys -> Seq(Items)], NEW key \in QueueKeys, NEW x \in Items, NEW r, NEW t,
         t = Append(q[key], x) \/ t = <<x>> \o q[key],
         NEW q2, q2 = [q EXCEPT ![key] = t]
  PROVE  PutIn(q, x, r, q2)
  <1>1. /\ t \in Seq(Items)
        /\ Occurs(t, r) <=> Occurs(q[key], r) \/ x = r
        /\ OccursOnce(q[key], r) /\ ~(Occurs(q[key], r) /\ x = r) => OccursOnce(t, r)
    BY AppendOccurs, FrontOccurs
  <1>2. /\ q2 \in [QueueKeys -> Seq(Items)] /\ q2[key] = t
        /\ \A k \in QueueKeys : k # key => q2[k] = q[k]
    BY <1>1
  <1>3. Queued(q2, r) <=> Queued(q, r) \/ x = r  BY <1>1, <1>2 DEF Queued
  <1>4. QueuedOnce(q, r) /\ ~(Queued(q, r) /\ x = r) => QueuedOnce(q2, r)
    BY <1>1, <1>2 DEF Queued, QueuedOnce
  <1> QED  BY <1>2, <1>3, <1>4 DEF PutIn

\* The first registration of a queue is taken.
LEMMA Takes ==
  ASSUME NEW q \in [QueueKeys -> Seq(Items)], NEW key \in QueueKeys, q[key] # <<>>, NEW r,
         NEW q2, q2 = [q EXCEPT ![key] = Tail(q[key])]
  PROVE  TakenFrom(q, key, r, q2)
  <1> DEFINE s == q[key]
             t == Tail(s)
             x == Head(s)
  <1>1. s \in Seq(Items) /\ s # <<>>  OBVIOUS
  <1>2. /\ t \in Seq(Items) /\ x \in Items
        /\ Occurs(s, r) <=> Occurs(t, r) \/ x = r
        /\ OccursOnce(s, r) => OccursOnce(t, r) /\ ~(x = r /\ Occurs(t, r))
    BY <1>1, TailOccurs
  <1>3. /\ q2 \in [QueueKeys -> Seq(Items)] /\ q2[key] = t /\ q[key] = s
        /\ \A k \in QueueKeys : k # key => q2[k] = q[k]
    BY <1>2
  <1> HIDE DEF s, t, x
  <1>4. x = r => Queued(q, r) /\ (QueuedOnce(q, r) => ~Queued(q2, r))
    BY <1>2, <1>3 DEF Queued, QueuedOnce
  <1>5. x # r => (Queued(q2, r) <=> Queued(q, r))  BY <1>2, <1>3 DEF Queued
  <1>6. QueuedOnce(q, r) => QueuedOnce(q2, r)  BY <1>2, <1>3 DEF QueuedOnce
  <1> QED  BY <1>2, <1>3, <1>4, <1>5, <1>6 DEF x, s, TakenFrom

-----------------------------------------------------------------------------
(* Processors *)

\* What it means for relay r that processor p is given the call c, so that
\* processors w become w2.
Given(w, p, c, r, w2) ==
  /\ w2 \in [Processors -> Processings] /\ w2[p] = c
  /\ \A p2 \in Processors : p2 # p => w2[p2] = w[p2]
  /\ c.phase # "idle" /\ c.item = r =>
       Worked(w2, r) /\ (~Worked(w, r) \/ (Works(w, p, r) /\ WorkedOnce(w, r)) => WorkedOnce(w2, r))
  /\ ~(c.phase # "idle" /\ c.item = r) =>
       /\ WorkedOnce(w, r) => WorkedOnce(w2, r) /\ (Works(w, p, r) => ~Worked(w2, r))
       /\ ~Works(w, p, r) => (Worked(w2, r) <=> Worked(w, r))

\* A processor p is given the call c.
LEMMA GivesCall ==
  ASSUME NEW w \in [Processors -> Processings], NEW p \in Processors, NEW c \in Processings, NEW r,
         NEW w2, w2 = [w EXCEPT ![p] = c]
  PROVE  Given(w, p, c, r, w2)
  <1>1. /\ w2 \in [Processors -> Processings] /\ w2[p] = c
        /\ \A p2 \in Processors : p2 # p => w2[p2] = w[p2]
    OBVIOUS
  <1>2. Works(w2, p, r) <=> c.phase # "idle" /\ c.item = r  BY <1>1 DEF Works
  <1>3. \A p2 \in Processors : p2 # p => (Works(w2, p2, r) <=> Works(w, p2, r))  BY <1>1 DEF Works
  <1>4. CASE c.phase # "idle" /\ c.item = r
    <2>1. Worked(w2, r)  BY <1>2, <1>4 DEF Worked
    <2>2. ~Worked(w, r) \/ (Works(w, p, r) /\ WorkedOnce(w, r)) => WorkedOnce(w2, r)
      BY <1>3 DEF Worked, WorkedOnce
    <2> QED  BY <1>1, <1>4, <2>1, <2>2 DEF Given
  <1>5. CASE ~(c.phase # "idle" /\ c.item = r)
    <2>1. ~Works(w2, p, r)  BY <1>2, <1>5
    <2>2. WorkedOnce(w, r) => WorkedOnce(w2, r) /\ (Works(w, p, r) => ~Worked(w2, r))
      BY <1>3, <2>1 DEF Worked, WorkedOnce
    <2>3. ~Works(w, p, r) => (Worked(w2, r) <=> Worked(w, r))  BY <1>3, <2>1 DEF Worked
    <2> QED  BY <1>1, <1>5, <2>2, <2>3 DEF Given
  <1> QED  BY <1>4, <1>5

\* The end of an iteration of processor p, which is done with what it had.
LEMMA LoopTyped ==
  ASSUME RegistrationTyped, NEW p \in Processors, Loop(p)
  PROVE  /\ queue' \in [QueueKeys -> Seq(Items)] /\ proc' \in [Processors -> Processings]
         /\ (proc'[p]).phase = "reading"
         /\ \A p2 \in Processors : p2 # p => proc'[p2] = proc[p2]
  <1> DEFINE key == proc[p].key
  <1>1. /\ queue \in [QueueKeys -> Seq(Items)] /\ proc \in [Processors -> Processings] /\ proc[p] \in Processings
        /\ key \in QueueKeys /\ General \in Items /\ "reading" \in Phases \cup {"idle"}
    BY DEF RegistrationTyped, Processings, Items, Phases
  <1>2. CASE queue[key] # <<>>
    <2> DEFINE c == [proc[p] EXCEPT !.phase = "reading", !.item = Head(queue[key])]
    <2>1. queue' = [queue EXCEPT ![key] = Tail(queue[key])] /\ proc' = [proc EXCEPT ![p] = c]
      BY <1>2 DEF Loop
    <2>2. TakenFrom(queue, key, General, queue')  BY <1>1, <1>2, <2>1, Takes
    <2>3. queue' \in [QueueKeys -> Seq(Items)] /\ Head(queue[key]) \in Items  BY <2>2 DEF TakenFrom
    <2>4. c \in Processings /\ c.phase = "reading"  BY <1>1, <2>3 DEF Processings
    <2> HIDE DEF c
    <2> QED  BY <1>1, <2>1, <2>3, <2>4
  <1>3. CASE queue[key] = <<>>
    <2> DEFINE c == [proc[p] EXCEPT !.phase = "reading", !.item = General, !.last = TRUE]
    <2>1. queue' = queue /\ proc' = [proc EXCEPT ![p] = c]  BY <1>3 DEF Loop
    <2>2. c \in Processings /\ c.phase = "reading"  BY <1>1 DEF Processings
    <2> HIDE DEF c
    <2> QED  BY <1>1, <2>1, <2>2
  <1> QED  BY <1>2, <1>3

LEMMA LoopPlaces ==
  ASSUME RegistrationConstants, RegistrationTyped, NEW p \in Processors, Loop(p), proc[p].phase # "idle",
         NEW r \in Relays, OnePlace(queue, proc, r)
  PROVE  /\ OnePlace(queue', proc', r)
         /\ proc[p].item = r => ~Somewhere(queue', proc', r)
         /\ proc[p].item # r => (Somewhere(queue', proc', r) <=> Somewhere(queue, proc, r))
  <1> DEFINE key == proc[p].key
  <1>1. /\ queue \in [QueueKeys -> Seq(Items)] /\ proc \in [Processors -> Processings] /\ proc[p] \in Processings
        /\ General # r /\ key \in QueueKeys /\ General \in Items /\ "reading" \in Phases \cup {"idle"}
    BY DEF RegistrationTyped, RegistrationConstants, Processings, Items, Phases
  <1>2. Works(proc, p, r) <=> proc[p].item = r  BY DEF Works
  <1>3. CASE queue[key] # <<>>
    <2> DEFINE x == Head(queue[key])
               c == [proc[p] EXCEPT !.phase = "reading", !.item = x]
    <2>1. queue' = [queue EXCEPT ![key] = Tail(queue[key])] /\ proc' = [proc EXCEPT ![p] = c]
      BY <1>3 DEF Loop
    <2>2. /\ queue' \in [QueueKeys -> Seq(Items)] /\ x \in Items
          /\ x = r => Queued(queue, r) /\ (QueuedOnce(queue, r) => ~Queued(queue', r))
          /\ x # r => (Queued(queue', r) <=> Queued(queue, r))
          /\ QueuedOnce(queue, r) => QueuedOnce(queue', r)
      <3>1. TakenFrom(queue, key, r, queue')  BY <1>1, <1>3, <2>1, Takes
      <3> QED  BY <3>1 DEF TakenFrom
    <2>3. c \in Processings /\ c.phase = "reading" /\ c.item = x  BY <1>1, <2>2 DEF Processings
    <2> HIDE DEF c, x
    <2>4. /\ proc' \in [Processors -> Processings] /\ proc'[p] = c
          /\ \A p2 \in Processors : p2 # p => proc'[p2] = proc[p2]
          /\ c.phase # "idle" /\ c.item = r =>
              Worked(proc', r) /\ (~Worked(proc, r) \/ (Works(proc, p, r) /\ WorkedOnce(proc, r)) => WorkedOnce(proc', r))
          /\ ~(c.phase # "idle" /\ c.item = r) =>
              /\ WorkedOnce(proc, r) => WorkedOnce(proc', r) /\ (Works(proc, p, r) => ~Worked(proc', r))
              /\ ~Works(proc, p, r) => (Worked(proc', r) <=> Worked(proc, r))
      <3>1. Given(proc, p, c, r, proc')  BY <1>1, <2>1, <2>3, GivesCall
      <3> QED  BY <3>1 DEF Given
    <2>5. Works(proc, p, r) => Worked(proc, r)  BY DEF Worked
    <2>6. CASE x = r
      <3>1. Queued(queue, r) /\ QueuedOnce(queue, r) /\ ~Worked(proc, r)  BY <2>2, <2>6 DEF OnePlace
      <3>2. proc[p].item # r  BY <1>2, <2>5, <3>1
      <3> QED  BY <2>2, <2>3, <2>4, <2>6, <3>1, <3>2 DEF OnePlace, Somewhere
    <2>7. CASE x # r
      <3>1. QueuedOnce(queue, r) /\ WorkedOnce(proc, r) /\ ~(Queued(queue, r) /\ Worked(proc, r))
        BY DEF OnePlace
      <3>2. WorkedOnce(proc', r) /\ (Works(proc, p, r) => ~Worked(proc', r))
            /\ (~Works(proc, p, r) => (Worked(proc', r) <=> Worked(proc, r)))
        BY <2>3, <2>4, <2>7, <3>1
      <3>3. QueuedOnce(queue', r) /\ (Queued(queue', r) <=> Queued(queue, r))  BY <2>2, <2>7, <3>1
      <3> QED  BY <1>2, <2>2, <2>3, <2>4, <2>5, <3>1, <3>2, <3>3 DEF OnePlace, Somewhere
    <2> QED  BY <2>6, <2>7
  <1>4. CASE queue[key] = <<>>
    <2> DEFINE c == [proc[p] EXCEPT !.phase = "reading", !.item = General, !.last = TRUE]
    <2>1. queue' = queue /\ proc' = [proc EXCEPT ![p] = c]  BY <1>4 DEF Loop
    <2>2. c \in Processings /\ c.phase = "reading" /\ c.item = General  BY <1>1 DEF Processings
    <2> HIDE DEF c
    <2>3. /\ proc' \in [Processors -> Processings] /\ proc'[p] = c
          /\ \A p2 \in Processors : p2 # p => proc'[p2] = proc[p2]
          /\ ~(c.phase # "idle" /\ c.item = r) =>
              /\ WorkedOnce(proc, r) => WorkedOnce(proc', r) /\ (Works(proc, p, r) => ~Worked(proc', r))
              /\ ~Works(proc, p, r) => (Worked(proc', r) <=> Worked(proc, r))
      <3>1. Given(proc, p, c, r, proc')  BY <1>1, <2>1, <2>2, GivesCall
      <3> QED  BY <3>1 DEF Given
    <2>4. QueuedOnce(queue, r) /\ WorkedOnce(proc, r) /\ ~(Queued(queue, r) /\ Worked(proc, r))
      BY DEF OnePlace
    <2>5. Works(proc, p, r) => Worked(proc, r)  BY DEF Worked
    <2>6. WorkedOnce(proc', r) /\ (Works(proc, p, r) => ~Worked(proc', r))
          /\ (~Works(proc, p, r) => (Worked(proc', r) <=> Worked(proc, r)))
      BY <1>1, <2>2, <2>3, <2>4
    <2> QED  BY <1>1, <1>2, <2>1, <2>2, <2>3, <2>4, <2>5, <2>6 DEF OnePlace, Somewhere
  <1> QED  BY <1>3, <1>4

\* A call of processPendingRegistrations takes the first of its queue.
LEMMA ProcessPlaces ==
  ASSUME RegistrationConstants, RegistrationTyped, NEW key \in QueueKeys, Process(key),
         NEW r \in Relays, OnePlace(queue, proc, r)
  PROVE  OnePlace(queue', proc', r) /\ (Somewhere(queue', proc', r) <=> Somewhere(queue, proc, r))
  <1>1. CASE queue' = queue /\ proc' = proc
    BY <1>1
  <1>2. CASE ~(queue' = queue /\ proc' = proc)
    <2>1. queue[key] # <<>>  BY <1>2 DEF Process
    <2> DEFINE x == Head(queue[key])
               c == [phase |-> "reading", key |-> key, item |-> x, last |-> FALSE]
    <2>2. PICK p \in Processors :
            /\ proc[p] = Idle /\ proc' = [proc EXCEPT ![p] = c]
            /\ queue' = [queue EXCEPT ![key] = Tail(queue[key])]
      BY <1>2 DEF Process
    <2>3. queue \in [QueueKeys -> Seq(Items)] /\ proc \in [Processors -> Processings]  BY DEF RegistrationTyped
    <2>4. TakenFrom(queue, key, r, queue')  BY <2>1, <2>2, <2>3, Takes
    <2>5. x \in Items  BY <2>4 DEF TakenFrom
    <2>6. c \in Processings /\ c.phase = "reading" /\ c.item = x  BY <2>5 DEF Processings, Phases
    <2> HIDE DEF c
    <2>7. Given(proc, p, c, r, proc')  BY <2>2, <2>3, <2>6, GivesCall
    <2>8. ~Works(proc, p, r)  BY <2>2 DEF Works, Idle
    <2>9. QueuedOnce(queue, r) /\ WorkedOnce(proc, r) /\ ~(Queued(queue, r) /\ Worked(proc, r))
      BY DEF OnePlace
    <2>10. CASE x = r
      <3>1. Queued(queue, r) /\ ~Queued(queue', r) /\ QueuedOnce(queue', r)
        BY <2>4, <2>9, <2>10 DEF TakenFrom
      <3>2. Worked(proc', r) /\ WorkedOnce(proc', r)  BY <2>6, <2>7, <2>9, <2>10, <3>1 DEF Given
      <3> QED  BY <3>1, <3>2 DEF OnePlace, Somewhere
    <2>11. CASE x # r
      <3>1. (Queued(queue', r) <=> Queued(queue, r)) /\ QueuedOnce(queue', r)
        BY <2>4, <2>9, <2>11 DEF TakenFrom
      <3>2. (Worked(proc', r) <=> Worked(proc, r)) /\ WorkedOnce(proc', r)
        BY <2>6, <2>7, <2>8, <2>9, <2>11 DEF Given
      <3> QED  BY <2>9, <3>1, <3>2 DEF OnePlace, Somewhere
    <2> QED  BY <2>10, <2>11
  <1> QED  BY <1>1, <1>2

\* A registration that failed goes back in front of its queue.
LEMMA FailsPlaces ==
  ASSUME RegistrationConstants, RegistrationTyped, NEW p \in Processors, ProcFails(p),
         NEW r \in Relays, OnePlace(queue, proc, r)
  PROVE  OnePlace(queue', proc', r) /\ (Somewhere(queue', proc', r) <=> Somewhere(queue, proc, r))
  <1> DEFINE key == proc[p].key
             x == proc[p].item
             t == <<x>> \o queue[key]
  <1>1. /\ queue' = [queue EXCEPT ![key] = t] /\ proc' = [proc EXCEPT ![p] = Idle]
        /\ proc[p].phase # "idle"
    BY DEF ProcFails, Unshift
  <1>2. /\ queue \in [QueueKeys -> Seq(Items)] /\ proc \in [Processors -> Processings] /\ proc[p] \in Processings
        /\ key \in QueueKeys /\ x \in Items
    BY DEF RegistrationTyped, Processings
  <1>3. PutIn(queue, x, r, queue')  BY <1>1, <1>2, Puts
  <1>4. Idle \in Processings /\ Idle.phase = "idle"  BY DEF Processings, Idle, QueueKeys, Items
  <1>5. Given(proc, p, Idle, r, proc')  BY <1>1, <1>2, <1>4, GivesCall
  <1>6. Works(proc, p, r) <=> x = r  BY <1>1 DEF Works
  <1>7. QueuedOnce(queue, r) /\ WorkedOnce(proc, r) /\ ~(Queued(queue, r) /\ Worked(proc, r))
    BY DEF OnePlace
  <1> HIDE DEF x
  <1>8. CASE x = r
    <2>1. Worked(proc, r) /\ ~Queued(queue, r)  BY <1>6, <1>7, <1>8 DEF Worked
    <2>2. Queued(queue', r) /\ QueuedOnce(queue', r)  BY <1>3, <1>7, <1>8, <2>1 DEF PutIn
    <2>3. ~Worked(proc', r) /\ WorkedOnce(proc', r)  BY <1>4, <1>5, <1>6, <1>7, <1>8 DEF Given
    <2> QED  BY <2>1, <2>2, <2>3 DEF OnePlace, Somewhere
  <1>9. CASE x # r
    <2>1. (Queued(queue', r) <=> Queued(queue, r)) /\ QueuedOnce(queue', r)
      BY <1>3, <1>7, <1>9 DEF PutIn
    <2>2. (Worked(proc', r) <=> Worked(proc, r)) /\ WorkedOnce(proc', r)
      BY <1>4, <1>5, <1>6, <1>7, <1>9 DEF Given
    <2> QED  BY <1>7, <2>1, <2>2 DEF OnePlace, Somewhere
  <1> QED  BY <1>8, <1>9

\* A registration x is queued.
LEMMA EnqueuePlaces ==
  ASSUME RegistrationTyped, NEW key \in QueueKeys, NEW x \in Items, queue' = Enqueue(key, x), proc' = proc,
         NEW r, OnePlace(queue, proc, r), x = r => ~Somewhere(queue, proc, r)
  PROVE  OnePlace(queue', proc', r) /\ (Somewhere(queue', proc', r) <=> Somewhere(queue, proc, r) \/ x = r)
  <1>1. queue \in [QueueKeys -> Seq(Items)]  BY DEF RegistrationTyped
  <1>2. queue' = [queue EXCEPT ![key] = Append(queue[key], x)]  BY DEF Enqueue
  <1>3. PutIn(queue, x, r, queue')  BY <1>1, <1>2, Puts
  <1> QED  BY <1>3 DEF PutIn, OnePlace, Somewhere

\* What stays as long as calls and processors only change their phases.
LEMMA SamePlaces ==
  ASSUME NEW q, NEW w, NEW w2, NEW r,
         \A p \in Processors : (w2[p].phase = "idle" <=> w[p].phase = "idle") /\ w2[p].item = w[p].item
  PROVE  /\ OnePlace(q, w2, r) <=> OnePlace(q, w, r)
         /\ Somewhere(q, w2, r) <=> Somewhere(q, w, r)
  <1>1. \A p \in Processors : Works(w2, p, r) <=> Works(w, p, r)  BY DEF Works
  <1> QED  BY <1>1 DEF OnePlace, Somewhere, Worked, WorkedOnce

\* A step of relay x's own call: the other relays stay where they are.
LEMMA CallPlaces ==
  ASSUME RegistrationTyped, NEW x \in Relays, NEW v \in Phases, ask' = [ask EXCEPT ![x] = v], NEW r \in Relays
  PROVE  /\ ask' \in [Relays -> Phases]
         /\ r = x => ask'[r] = v
         /\ r # x => ask'[r] = ask[r]
  BY DEF RegistrationTyped

-----------------------------------------------------------------------------
(* Steps of registrations *)

LEMMA RegistrationStarts ==
  ASSUME RegistrationConstants, RegistrationInit
  PROVE  RegistrationInv
  <1>1. Idle \in Processings /\ Idle.phase = "idle"  BY DEF Processings, Idle, QueueKeys, Items
  <1>2. RegistrationTyped
    <2>1. <<>> \in Seq(Items) /\ 0 \in 0..MaxConnects /\ 0 \in 0..MaxGeneral
      BY DEF RegistrationConstants
    <2> QED  BY <1>1, <2>1 DEF RegistrationInit, RegistrationTyped, Phases
  <1>3. SentHasRoute  BY <1>1 DEF RegistrationInit, SentHasRoute
  <1>4. ASSUME NEW r \in Relays  PROVE Placed(queue, proc, ask, registered, unrouted, r)
    <2>1. \A k \in QueueKeys : ~Occurs(queue[k], r)
      <3>1. DOMAIN <<>> = {}  OBVIOUS
      <3> QED  BY <3>1 DEF RegistrationInit, Occurs
    <2>2. ~Queued(queue, r) /\ QueuedOnce(queue, r)
      BY <2>1 DEF Queued, QueuedOnce, OccursOnce, Occurs
    <2>3. \A p \in Processors : ~Works(proc, p, r)  BY <1>1 DEF RegistrationInit, Works
    <2>4. ~Worked(proc, r) /\ WorkedOnce(proc, r)  BY <2>3 DEF Worked, WorkedOnce
    <2>5. ask[r] = "none" /\ registered = {}  BY DEF RegistrationInit
    <2> QED  BY <2>2, <2>4, <2>5 DEF Placed, OnePlace, Somewhere, Calling
  <1> QED  BY <1>2, <1>3, <1>4 DEF RegistrationInv

\* The steps of a relay's own call that queue nothing.
LEMMA AskKeeps ==
  ASSUME RegistrationConstants, RegistrationInv, NEW x \in Relays,
         Ask(x) \/ (AskRoute(x) /\ queue' = queue /\ Routed(x)) \/ AskAcknowledged(x)
  PROVE  RegistrationInv'
  <1> DEFINE v == IF ask[x] = "none" THEN "reading" ELSE IF ask[x] = "reading" THEN "sent" ELSE "over"
  <1>1. /\ ask[x] \in {"none", "reading", "sent"}
        /\ ask' = [ask EXCEPT ![x] = v]
        /\ registered' = IF ask[x] = "sent" THEN registered \cup {x} ELSE registered
        /\ UNCHANGED <<gateway, queue, proc, unrouted, connects, generals>>
    BY DEF Ask, AskRoute, AskAcknowledged, counters
  <1>2. v \in Phases  BY DEF Phases
  <1>3. RegistrationTyped /\ SentHasRoute  BY DEF RegistrationInv
  <1>4. RegistrationTyped'
    BY <1>1, <1>2, <1>3 DEF RegistrationTyped
  <1>5. SentHasRoute'  BY <1>1, <1>3 DEF SentHasRoute
  <1>6. ASSUME NEW r \in Relays  PROVE Placed(queue', proc', ask', registered', unrouted', r)
    <2>1. Placed(queue, proc, ask, registered, unrouted, r)  BY DEF RegistrationInv
    <2>2. (r = x => ask'[r] = v) /\ (r # x => ask'[r] = ask[r])  BY <1>1, <1>2, <1>3, CallPlaces
    <2>3. CASE r # x
      BY <1>1, <2>1, <2>2, <2>3 DEF Placed, Calling
    <2>4. CASE r = x
      BY <1>1, <2>1, <2>2, <2>4 DEF Placed, Calling
    <2> QED  BY <2>3, <2>4
  <1> QED  BY <1>4, <1>5, <1>6 DEF RegistrationInv

\* The steps of a relay's own call that queue it.
LEMMA AskQueuesKeeps ==
  ASSUME RegistrationConstants, RegistrationInv, NEW x \in Relays,
         (AskRoute(x) /\ ~Routed(x)) \/ AskFails(x) \/ AskReadFails(x)
  PROVE  RegistrationInv'
  <1>1. KeyOfRelay(x) \in QueueKeys /\ NoOrigin \in QueueKeys /\ x \in Items
    BY DEF KeyOfRelay, KeyOf, QueueKeys, Items
  <1>2. PICK key \in QueueKeys :
          /\ ask[x] \in {"reading", "sent", "failed"}
          /\ ask' = [ask EXCEPT ![x] = "over"] /\ queue' = Enqueue(key, x)
          /\ UNCHANGED <<gateway, proc, registered, unrouted, connects, generals>>
    BY <1>1 DEF AskRoute, AskFails, AskReadFails, counters
  <1>3. RegistrationTyped /\ SentHasRoute /\ "over" \in Phases  BY DEF RegistrationInv, Phases
  <1>4. queue' \in [QueueKeys -> Seq(Items)]
    <2>1. queue' = [queue EXCEPT ![key] = Append(queue[key], x)]  BY <1>2 DEF Enqueue
    <2>2. PutIn(queue, x, x, queue')  BY <1>1, <1>3, <2>1, Puts DEF RegistrationTyped
    <2> QED  BY <2>2 DEF PutIn
  <1>5. RegistrationTyped'  BY <1>2, <1>3, <1>4 DEF RegistrationTyped
  <1>6. SentHasRoute'  BY <1>2, <1>3 DEF SentHasRoute
  <1>7. ASSUME NEW r \in Relays  PROVE Placed(queue', proc', ask', registered', unrouted', r)
    <2>1. Placed(queue, proc, ask, registered, unrouted, r)  BY DEF RegistrationInv
    <2>2. (r = x => ask'[r] = "over") /\ (r # x => ask'[r] = ask[r])  BY <1>2, <1>3, CallPlaces
    <2>3. x = r => ~Somewhere(queue, proc, r)  BY <1>2, <2>1 DEF Placed, Calling
    <2>4. OnePlace(queue, proc, r)  BY <2>1 DEF Placed
    <2>5. /\ OnePlace(queue', proc', r)
          /\ Somewhere(queue', proc', r) <=> Somewhere(queue, proc, r) \/ x = r
      BY <1>1, <1>2, <1>3, <2>3, <2>4, EnqueuePlaces
    <2>6. CASE r # x
      BY <1>2, <2>1, <2>2, <2>5, <2>6 DEF Placed, Calling
    <2>7. CASE r = x
      BY <1>2, <2>1, <2>2, <2>5, <2>7 DEF Placed, Calling
    <2> QED  BY <2>6, <2>7
  <1> QED  BY <1>5, <1>6, <1>7 DEF RegistrationInv

LEMMA PeriodicKeeps ==
  ASSUME RegistrationConstants, RegistrationInv, NEW key \in QueueKeys, PeriodicFails(key)
  PROVE  RegistrationInv'
  <1>1. /\ generals < MaxGeneral /\ generals' = generals + 1 /\ queue' = Enqueue(key, General)
        /\ UNCHANGED <<gateway, ask, proc, registered, unrouted, connects>>
    BY DEF PeriodicFails
  <1>2. RegistrationTyped /\ SentHasRoute /\ General \in Items  BY DEF RegistrationInv, Items
  <1>3. queue' \in [QueueKeys -> Seq(Items)]
    <2>1. queue' = [queue EXCEPT ![key] = Append(queue[key], General)]  BY <1>1 DEF Enqueue
    <2>2. PutIn(queue, General, General, queue')  BY <1>2, <2>1, Puts DEF RegistrationTyped
    <2> QED  BY <2>2 DEF PutIn
  <1>4. RegistrationTyped'
    <2>1. generals' \in 0..MaxGeneral  BY <1>1, <1>2 DEF RegistrationTyped, RegistrationConstants
    <2> QED  BY <1>1, <1>2, <1>3, <2>1 DEF RegistrationTyped
  <1>5. SentHasRoute'  BY <1>1, <1>2 DEF SentHasRoute
  <1>6. ASSUME NEW r \in Relays  PROVE Placed(queue', proc', ask', registered', unrouted', r)
    <2>1. Placed(queue, proc, ask, registered, unrouted, r) /\ General # r
      BY DEF RegistrationInv, RegistrationConstants
    <2>2. OnePlace(queue, proc, r)  BY <2>1 DEF Placed
    <2>3. /\ OnePlace(queue', proc', r)
          /\ Somewhere(queue', proc', r) <=> Somewhere(queue, proc, r)
      BY <1>1, <1>2, <2>1, <2>2, EnqueuePlaces
    <2> QED  BY <1>1, <2>1, <2>3 DEF Placed, Calling
  <1> QED  BY <1>4, <1>5, <1>6 DEF RegistrationInv

\* A processor goes on to the next registration: what it had was sent, or has
\* no connection, or was a general one.
LEMMA LoopsKeeps ==
  ASSUME RegistrationConstants, RegistrationInv, NEW p \in Processors,
         (ProcRoute(p) /\ ~Routed(proc[p].item)) \/ ProcAcknowledged(p) \/ (ProcGeneral(p) /\ ~proc[p].last)
  PROVE  RegistrationInv'
  <1> DEFINE x == proc[p].item
  <1>1. RegistrationTyped /\ SentHasRoute  BY DEF RegistrationInv
  <1>2. /\ Loop(p) /\ proc[p].phase \in {"reading", "sent"}
        /\ x \in Relays => (registered' = registered \cup {x} /\ unrouted' = unrouted)
                          \/ (registered' = registered /\ unrouted' = unrouted \cup {x})
        /\ x \notin Relays => registered' = registered /\ unrouted' = unrouted
        /\ UNCHANGED <<gateway, ask, connects, generals>>
    <2>1. CASE ProcRoute(p) /\ ~Routed(x)  BY <2>1 DEF ProcRoute, counters
    <2>2. CASE ProcAcknowledged(p)
      <3>1. x \in Relays  BY <1>1, <2>2 DEF ProcAcknowledged, SentHasRoute
      <3> QED  BY <2>2, <3>1 DEF ProcAcknowledged, counters
    <2>3. CASE ProcGeneral(p) /\ ~proc[p].last
      <3>1. x \notin Relays  BY <2>3 DEF ProcGeneral, RegistrationConstants
      <3> QED  BY <2>3, <3>1 DEF ProcGeneral, counters
    <2> QED  BY <2>1, <2>2, <2>3
  <1>3. proc[p].phase # "idle"  BY <1>2
  <1>4. ASSUME NEW r \in Relays
        PROVE  Placed(queue', proc', ask', registered', unrouted', r)
    <2>1. Placed(queue, proc, ask, registered, unrouted, r)  BY DEF RegistrationInv
    <2>2. OnePlace(queue, proc, r)  BY <2>1 DEF Placed
    <2>3. /\ OnePlace(queue', proc', r)
          /\ x = r => ~Somewhere(queue', proc', r)
          /\ x # r => (Somewhere(queue', proc', r) <=> Somewhere(queue, proc, r))
      BY <1>1, <1>2, <1>3, <2>2, LoopPlaces
    <2>4. x = r => Somewhere(queue, proc, r)  BY <1>3 DEF Somewhere, Worked, Works
    <2> HIDE DEF x
    <2>5. CASE x # r
      BY <1>2, <2>1, <2>3, <2>5 DEF Placed, Calling
    <2>6. CASE x = r
      BY <1>2, <2>1, <2>3, <2>4, <2>6 DEF Placed, Calling
    <2> QED  BY <2>3, <2>5, <2>6
  <1>5. /\ queue' \in [QueueKeys -> Seq(Items)] /\ proc' \in [Processors -> Processings]
        /\ (proc'[p]).phase = "reading"
        /\ \A p2 \in Processors : p2 # p => proc'[p2] = proc[p2]
    BY <1>1, <1>2, LoopTyped
  <1>6. RegistrationTyped'  BY <1>1, <1>2, <1>5 DEF RegistrationTyped
  <1>7. SentHasRoute'  BY <1>1, <1>2, <1>5 DEF SentHasRoute
  <1> QED  BY <1>4, <1>6, <1>7 DEF RegistrationInv

\* A processor's call changes its phase only, or ends with nothing left.
LEMMA ProcKeeps ==
  ASSUME RegistrationConstants, RegistrationInv, NEW p \in Processors,
         (ProcRoute(p) /\ Routed(proc[p].item) /\ proc' = [proc EXCEPT ![p].phase = "sent"] /\ queue' = queue
            /\ unrouted' = unrouted)
         \/ (ProcGeneral(p) /\ proc' = [proc EXCEPT ![p] = Idle] /\ queue' = queue)
  PROVE  RegistrationInv'
  <1> DEFINE c == [proc[p] EXCEPT !.phase = "sent"]
  <1>1. RegistrationTyped /\ SentHasRoute  BY DEF RegistrationInv
  <1>2. /\ proc \in [Processors -> Processings] /\ proc[p] \in Processings /\ proc[p].phase = "reading"
        /\ UNCHANGED <<gateway, queue, ask, registered, unrouted, connects, generals>>
    BY <1>1 DEF RegistrationTyped, ProcRoute, ProcGeneral, counters
  <1>3. \/ proc[p].item \in Relays /\ Routed(proc[p].item) /\ proc' = [proc EXCEPT ![p] = c]
        \/ proc[p].item = General /\ proc' = [proc EXCEPT ![p] = Idle]
    BY DEF ProcRoute, ProcGeneral
  <1>4. /\ c \in Processings /\ c.phase = "sent" /\ c.item = proc[p].item
        /\ Idle \in Processings /\ Idle.phase = "idle"
    BY <1>2 DEF Processings, Idle, QueueKeys, Items, Phases
  <1> HIDE DEF c
  <1>5. proc' \in [Processors -> Processings]  BY <1>2, <1>3, <1>4
  <1>6. RegistrationTyped'  BY <1>1, <1>2, <1>5 DEF RegistrationTyped
  <1>7. SentHasRoute'  BY <1>1, <1>2, <1>3, <1>4 DEF SentHasRoute, Routed
  <1>8. ASSUME NEW r \in Relays  PROVE Placed(queue', proc', ask', registered', unrouted', r)
    <2>1. Placed(queue, proc, ask, registered, unrouted, r)  BY DEF RegistrationInv
    <2>2. \A p2 \in Processors : Works(proc', p2, r) <=> Works(proc, p2, r)
      <3>1. General # r  BY DEF RegistrationConstants
      <3> QED  BY <1>2, <1>3, <1>4, <3>1 DEF Works
    <2>3. (Worked(proc', r) <=> Worked(proc, r)) /\ (WorkedOnce(proc', r) <=> WorkedOnce(proc, r))
      BY <2>2 DEF Worked, WorkedOnce
    <2> QED  BY <1>2, <2>1, <2>3 DEF Placed, OnePlace, Somewhere, Calling
  <1> QED  BY <1>6, <1>7, <1>8 DEF RegistrationInv

LEMMA ProcFailsKeeps ==
  ASSUME RegistrationConstants, RegistrationInv, NEW p \in Processors, ProcFails(p)
  PROVE  RegistrationInv'
  <1>1. RegistrationTyped /\ SentHasRoute  BY DEF RegistrationInv
  <1>2. /\ queue' = Unshift(proc[p].key, proc[p].item) /\ proc' = [proc EXCEPT ![p] = Idle]
        /\ UNCHANGED <<gateway, ask, registered, unrouted, connects, generals>>
    BY DEF ProcFails, counters
  <1>3. /\ queue \in [QueueKeys -> Seq(Items)] /\ proc \in [Processors -> Processings] /\ proc[p] \in Processings
        /\ proc[p].key \in QueueKeys /\ proc[p].item \in Items
        /\ Idle \in Processings /\ Idle.phase = "idle"
    BY <1>1 DEF RegistrationTyped, Processings, Idle, QueueKeys, Items
  <1>4. queue' \in [QueueKeys -> Seq(Items)]
    <2>1. queue' = [queue EXCEPT ![proc[p].key] = <<proc[p].item>> \o queue[proc[p].key]]
      BY <1>2 DEF Unshift
    <2>2. PutIn(queue, proc[p].item, General, queue')  BY <1>3, <2>1, Puts
    <2> QED  BY <2>2 DEF PutIn
  <1>5. proc' \in [Processors -> Processings] /\ proc'[p] = Idle
        /\ \A p2 \in Processors : p2 # p => proc'[p2] = proc[p2]
    BY <1>2, <1>3
  <1>6. RegistrationTyped'  BY <1>1, <1>2, <1>4, <1>5 DEF RegistrationTyped
  <1>7. SentHasRoute'  BY <1>1, <1>2, <1>3, <1>5 DEF SentHasRoute
  <1>8. ASSUME NEW r \in Relays  PROVE Placed(queue', proc', ask', registered', unrouted', r)
    <2>1. Placed(queue, proc, ask, registered, unrouted, r) /\ OnePlace(queue, proc, r)
      BY DEF RegistrationInv, Placed
    <2>2. /\ OnePlace(queue', proc', r)
          /\ Somewhere(queue', proc', r) <=> Somewhere(queue, proc, r)
      BY <1>1, <2>1, FailsPlaces
    <2> QED  BY <1>2, <2>1, <2>2 DEF Placed, Calling
  <1> QED  BY <1>6, <1>7, <1>8 DEF RegistrationInv

\* A gateway connects, or identifies itself, or the relays are connected at
\* startup: a queue is processed.
LEMMA ProcessKeeps ==
  ASSUME RegistrationConstants, RegistrationInv, NEW key \in QueueKeys, Process(key),
         connects < MaxConnects, connects' = connects + 1,
         gateway' \in [Gateways -> {"down", "open", "identified"}],
         \A g \in Gateways : gateway[g] = "identified" => gateway'[g] = "identified",
         UNCHANGED <<ask, registered, unrouted, generals>>
  PROVE  RegistrationInv'
  <1>1. RegistrationTyped /\ SentHasRoute  BY DEF RegistrationInv
  <1>2. queue \in [QueueKeys -> Seq(Items)] /\ proc \in [Processors -> Processings]  BY <1>1 DEF RegistrationTyped
  <1>3. /\ queue' \in [QueueKeys -> Seq(Items)] /\ proc' \in [Processors -> Processings]
        /\ \A p \in Processors : proc'[p] = proc[p] \/ (proc'[p]).phase = "reading"
    <2>1. CASE queue' = queue /\ proc' = proc  BY <1>2, <2>1
    <2>2. CASE ~(queue' = queue /\ proc' = proc)
      <3> DEFINE c == [phase |-> "reading", key |-> key, item |-> Head(queue[key]), last |-> FALSE]
      <3>1. queue[key] # <<>>  BY <2>2 DEF Process
      <3>2. PICK p \in Processors :
              proc' = [proc EXCEPT ![p] = c] /\ queue' = [queue EXCEPT ![key] = Tail(queue[key])]
        BY <2>2 DEF Process
      <3>3. TakenFrom(queue, key, General, queue')  BY <1>2, <3>1, <3>2, Takes
      <3>4. queue' \in [QueueKeys -> Seq(Items)] /\ Head(queue[key]) \in Items  BY <3>3 DEF TakenFrom
      <3>5. c \in Processings /\ c.phase = "reading"  BY <3>4 DEF Processings, Phases
      <3> HIDE DEF c
      <3> QED  BY <1>2, <3>2, <3>4, <3>5
    <2> QED  BY <2>1, <2>2
  <1>4. connects' \in 0..MaxConnects  BY <1>1 DEF RegistrationTyped, RegistrationConstants
  <1>5. RegistrationTyped'  BY <1>1, <1>3, <1>4 DEF RegistrationTyped
  <1>6. SentHasRoute'
    <2>1. ASSUME NEW p \in Processors, (proc'[p]).phase = "sent"
          PROVE  (proc'[p]).item \in Relays /\ gateway'[GatewayOf[(proc'[p]).item]] = "identified"
      <3>1. proc'[p] = proc[p]  BY <1>3, <2>1
      <3>2. proc[p].item \in Relays /\ gateway[GatewayOf[proc[p].item]] = "identified"
        BY <1>1, <2>1, <3>1 DEF SentHasRoute
      <3>3. GatewayOf[proc[p].item] \in Gateways  BY <3>2 DEF RegistrationConstants
      <3> QED  BY <3>1, <3>2, <3>3
    <2> QED  BY <2>1 DEF SentHasRoute
  <1>7. ASSUME NEW r \in Relays  PROVE Placed(queue', proc', ask', registered', unrouted', r)
    <2>1. Placed(queue, proc, ask, registered, unrouted, r) /\ OnePlace(queue, proc, r)
      BY DEF RegistrationInv, Placed
    <2>2. /\ OnePlace(queue', proc', r)
          /\ Somewhere(queue', proc', r) <=> Somewhere(queue, proc, r)
      BY <1>1, <2>1, ProcessPlaces
    <2> QED  BY <2>1, <2>2 DEF Placed, Calling
  <1> QED  BY <1>5, <1>6, <1>7 DEF RegistrationInv

\* The requests on a connection that closes are rejected.
LEMMA ClosesKeeps ==
  ASSUME RegistrationConstants, RegistrationInv, NEW g \in Gateways, GatewayCloses(g)
  PROVE  RegistrationInv'
  <1>1. RegistrationTyped /\ SentHasRoute  BY DEF RegistrationInv
  <1>2. /\ gateway' = [gateway EXCEPT ![g] = "down"]
        /\ ask' = [r \in Relays |-> IF ask[r] = "sent" /\ GatewayOf[r] = g THEN "failed" ELSE ask[r]]
        /\ proc' = [p \in Processors |-> IF proc[p].phase = "sent" /\ GatewayOf[proc[p].item] = g
                                         THEN [proc[p] EXCEPT !.phase = "failed"] ELSE proc[p]]
        /\ UNCHANGED <<queue, registered, unrouted, connects, generals>>
    BY DEF GatewayCloses, counters
  <1>3. ASSUME NEW p \in Processors
        PROVE  /\ proc'[p] \in Processings /\ (proc'[p]).item = proc[p].item
               /\ (proc'[p]).phase = "idle" <=> proc[p].phase = "idle"
               /\ (proc'[p]).phase = "sent" => proc[p].phase = "sent" /\ GatewayOf[proc[p].item] # g
    <2>1. proc[p] \in Processings  BY <1>1 DEF RegistrationTyped
    <2>2. CASE proc[p].phase = "sent" /\ GatewayOf[proc[p].item] = g
      <3>1. proc'[p] = [proc[p] EXCEPT !.phase = "failed"]  BY <1>2, <2>2
      <3> QED  BY <2>1, <2>2, <3>1 DEF Processings, Phases
    <2>3. CASE ~(proc[p].phase = "sent" /\ GatewayOf[proc[p].item] = g)
      <3>1. proc'[p] = proc[p]  BY <1>2, <2>3
      <3> QED  BY <2>1, <2>3, <3>1
    <2> QED  BY <2>2, <2>3
  <1>4. ask' \in [Relays -> Phases]  BY <1>1, <1>2 DEF RegistrationTyped, Phases
  <1>5. proc' \in [Processors -> Processings]  BY <1>2, <1>3
  <1>6. RegistrationTyped'  BY <1>1, <1>2, <1>4, <1>5 DEF RegistrationTyped
  <1>7. SentHasRoute'
    <2>1. ASSUME NEW p \in Processors, (proc'[p]).phase = "sent"
          PROVE  (proc'[p]).item \in Relays /\ gateway'[GatewayOf[(proc'[p]).item]] = "identified"
      <3>1. proc[p].phase = "sent" /\ GatewayOf[proc[p].item] # g /\ (proc'[p]).item = proc[p].item
        BY <1>3, <2>1
      <3>2. proc[p].item \in Relays /\ gateway[GatewayOf[proc[p].item]] = "identified"
        BY <1>1, <3>1 DEF SentHasRoute
      <3>3. GatewayOf[proc[p].item] \in Gateways  BY <3>2 DEF RegistrationConstants
      <3> QED  BY <1>1, <1>2, <3>1, <3>2, <3>3 DEF RegistrationTyped
    <2> QED  BY <2>1 DEF SentHasRoute
  <1>8. ASSUME NEW r \in Relays  PROVE Placed(queue', proc', ask', registered', unrouted', r)
    <2>1. Placed(queue, proc, ask, registered, unrouted, r)  BY DEF RegistrationInv
    <2>2. /\ OnePlace(queue', proc', r) <=> OnePlace(queue, proc, r)
          /\ Somewhere(queue', proc', r) <=> Somewhere(queue, proc, r)
      <3>1. \A p \in Processors : Works(proc', p, r) <=> Works(proc, p, r)  BY <1>3 DEF Works
      <3> QED  BY <1>2, <3>1 DEF OnePlace, Somewhere, Worked, WorkedOnce
    <2>3. Calling(ask', r) <=> Calling(ask, r)  BY <1>2 DEF Calling
    <2>4. ask'[r] = "none" <=> ask[r] = "none"  BY <1>2
    <2> QED  BY <1>2, <2>1, <2>2, <2>3, <2>4 DEF Placed
  <1> QED  BY <1>6, <1>7, <1>8 DEF RegistrationInv

LEMMA RegistrationSteps ==
  ASSUME RegistrationConstants, RegistrationInv,
         [RegistrationNext]_registrationVars
  PROVE  RegistrationInv'
  <1>1. CASE RegistrationNext
    <2>1. CASE \E r \in Relays : Ask(r) \/ AskRoute(r) \/ AskAcknowledged(r) \/ AskFails(r) \/ AskReadFails(r)
      <3>1. PICK r \in Relays : Ask(r) \/ AskRoute(r) \/ AskAcknowledged(r) \/ AskFails(r) \/ AskReadFails(r)
        BY <2>1
      <3>2. AskRoute(r) => (AskRoute(r) /\ queue' = queue /\ Routed(r)) \/ (AskRoute(r) /\ ~Routed(r))
        BY DEF AskRoute
      <3> QED  BY <3>1, <3>2, AskKeeps, AskQueuesKeeps
    <2>2. CASE \E k \in QueueKeys : PeriodicFails(k)  BY <2>2, PeriodicKeeps
    <2>3. ASSUME NEW k \in QueueKeys, Startup(k)  PROVE RegistrationInv'
      <3>1. /\ Process(k) /\ connects < MaxConnects /\ connects' = connects + 1 /\ gateway' = gateway
            /\ UNCHANGED <<ask, registered, unrouted, generals>>
        BY <2>3 DEF Startup
      <3>2. gateway \in [Gateways -> {"down", "open", "identified"}]
        BY DEF RegistrationInv, RegistrationTyped
      <3> QED  BY <3>1, <3>2, ProcessKeeps
    <2>4. ASSUME NEW p \in Processors, ProcRoute(p) \/ ProcAcknowledged(p) \/ ProcGeneral(p) \/ ProcFails(p)
          PROVE  RegistrationInv'
      <3>1. CASE ProcRoute(p)
        <4>1. \/ ProcRoute(p) /\ ~Routed(proc[p].item)
              \/ /\ ProcRoute(p) /\ Routed(proc[p].item) /\ proc' = [proc EXCEPT ![p].phase = "sent"]
                 /\ queue' = queue /\ unrouted' = unrouted
          BY <3>1 DEF ProcRoute
        <4> QED  BY <4>1, LoopsKeeps, ProcKeeps
      <3>2. CASE ProcGeneral(p)
        <4>1. \/ ProcGeneral(p) /\ ~proc[p].last
              \/ ProcGeneral(p) /\ proc' = [proc EXCEPT ![p] = Idle] /\ queue' = queue
          BY <3>2 DEF ProcGeneral
        <4> QED  BY <4>1, LoopsKeeps, ProcKeeps
      <3>3. CASE ProcAcknowledged(p)  BY <3>3, LoopsKeeps
      <3>4. CASE ProcFails(p)  BY <3>4, ProcFailsKeeps
      <3> QED  BY <2>4, <3>1, <3>2, <3>3, <3>4
    <2>5. ASSUME NEW g \in Gateways, GatewayOpens(g) \/ GatewayIdentifies(g)  PROVE RegistrationInv'
      <3>1. gateway \in [Gateways -> {"down", "open", "identified"}]
        BY DEF RegistrationInv, RegistrationTyped
      <3>2. NoOrigin \in QueueKeys /\ KeyOf(g) \in QueueKeys  BY DEF QueueKeys, KeyOf
      <3>3. PICK key \in QueueKeys :
              /\ Process(key) /\ connects < MaxConnects /\ connects' = connects + 1
              /\ UNCHANGED <<ask, registered, unrouted, generals>>
        BY <2>5, <3>2 DEF GatewayOpens, GatewayIdentifies
      <3>4. /\ gateway' \in [Gateways -> {"down", "open", "identified"}]
            /\ \A h \in Gateways : gateway[h] = "identified" => gateway'[h] = "identified"
        BY <2>5, <3>1 DEF GatewayOpens, GatewayIdentifies
      <3> QED  BY <3>3, <3>4, ProcessKeeps
    <2>6. CASE \E g \in Gateways : GatewayCloses(g)  BY <2>6, ClosesKeeps
    <2> QED  BY <1>1, <2>1, <2>2, <2>3, <2>4, <2>5, <2>6 DEF RegistrationNext
  <1>2. CASE UNCHANGED registrationVars
    <2>1. UNCHANGED <<gateway, queue, ask, proc, registered, unrouted, connects, generals>>
      BY <1>2 DEF registrationVars
    <2>2. RegistrationTyped' /\ SentHasRoute'
      BY <2>1 DEF RegistrationInv, RegistrationTyped, SentHasRoute
    <2>3. ASSUME NEW r \in Relays  PROVE Placed(queue', proc', ask', registered', unrouted', r)
      BY <2>1 DEF RegistrationInv
    <2> QED  BY <2>2, <2>3 DEF RegistrationInv
  <1> QED  BY <1>1, <1>2

LEMMA RegistrationKeeps ==
  ASSUME RegistrationConstants
  PROVE  RegistrationSpec => []RegistrationInv
  <1>1. RegistrationInit => RegistrationInv  BY RegistrationStarts
  <1>2. RegistrationInv /\ [RegistrationNext]_registrationVars => RegistrationInv'  BY RegistrationSteps
  <1> QED  BY <1>1, <1>2, PTL DEF RegistrationSpec

LEMMA AtMostOne ==
  ASSUME NEW S, \A y, z \in S : y = z
  PROVE  Cardinality(S) = IF S = {} THEN 0 ELSE 1
  <1>1. CASE S = {}  BY <1>1, FS_EmptySet
  <1>2. CASE S # {}
    <2>1. PICK y : S = {y}  BY <1>2
    <2> QED  BY <1>2, <2>1, FS_Singleton
  <1> QED  BY <1>1, <1>2

\* The sets of places, and how many they are.
LEMMA PlacesCounted ==
  ASSUME NEW r \in Relays, OnePlace(queue, proc, r)
  PROVE  /\ InQueue(r) # {} <=> Queued(queue, r)
         /\ InProcessor(r) # {} <=> Worked(proc, r)
         /\ InCall(r) # {} <=> Calling(ask, r)
         /\ Cardinality(InQueue(r)) = IF Queued(queue, r) THEN 1 ELSE 0
         /\ Cardinality(InProcessor(r)) = IF Worked(proc, r) THEN 1 ELSE 0
         /\ Cardinality(InCall(r)) = IF Calling(ask, r) THEN 1 ELSE 0
  <1>1. \A z : z \in InQueue(r) <=> \E k \in QueueKeys : \E i \in DOMAIN queue[k] : queue[k][i] = r /\ z = <<k, i>>
    BY DEF InQueue
  <1>2. InQueue(r) # {} <=> Queued(queue, r)  BY <1>1 DEF Queued, Occurs
  <1>3. \A y, z \in InQueue(r) : y = z
    <2>1. SUFFICES ASSUME NEW y \in InQueue(r), NEW z \in InQueue(r)  PROVE y = z  OBVIOUS
    <2>2. PICK k \in QueueKeys : \E i \in DOMAIN queue[k] : queue[k][i] = r /\ y = <<k, i>>  BY <1>1
    <2>3. PICK i \in DOMAIN queue[k] : queue[k][i] = r /\ y = <<k, i>>  BY <2>2
    <2>4. PICK l \in QueueKeys : \E j \in DOMAIN queue[l] : queue[l][j] = r /\ z = <<l, j>>  BY <1>1
    <2>5. PICK j \in DOMAIN queue[l] : queue[l][j] = r /\ z = <<l, j>>  BY <2>4
    <2>6. Occurs(queue[k], r) /\ Occurs(queue[l], r)  BY <2>3, <2>5 DEF Occurs
    <2>7. k = l  BY <2>6 DEF OnePlace, QueuedOnce
    <2>8. i = j  BY <2>3, <2>5, <2>7 DEF OnePlace, QueuedOnce, OccursOnce
    <2> QED  BY <2>3, <2>5, <2>7, <2>8
  <1>4. (InProcessor(r) # {} <=> Worked(proc, r)) /\ \A y, z \in InProcessor(r) : y = z
    BY DEF InProcessor, Worked, Works, OnePlace, WorkedOnce
  <1>5. (InCall(r) # {} <=> Calling(ask, r)) /\ \A y, z \in InCall(r) : y = z
    BY DEF InCall, Calling
  <1>6. Cardinality(InQueue(r)) = IF InQueue(r) = {} THEN 0 ELSE 1  BY <1>3, AtMostOne
  <1>7. Cardinality(InProcessor(r)) = IF InProcessor(r) = {} THEN 0 ELSE 1  BY <1>4, AtMostOne
  <1>8. Cardinality(InCall(r)) = IF InCall(r) = {} THEN 0 ELSE 1  BY <1>5, AtMostOne
  <1> QED  BY <1>2, <1>4, <1>5, <1>6, <1>7, <1>8

LEMMA RegistrationInvGives ==
  ASSUME RegistrationInv
  PROVE  RegistrationTypeOK /\ HeldOnce /\ OnlyUnroutedLost
  <1>1. RegistrationTypeOK
    <2>1. DOMAIN queue = QueueKeys /\ \A k \in QueueKeys : queue[k] \in Seq(Items)
      BY DEF RegistrationInv, RegistrationTyped
    <2>2. \A k \in QueueKeys : ToSet(queue[k]) \subseteq Items
      <3>1. SUFFICES ASSUME NEW k \in QueueKeys  PROVE ToSet(queue[k]) \subseteq Items  OBVIOUS
      <3>2. \A i \in DOMAIN queue[k] : queue[k][i] \in Items  BY <2>1
      <3> QED  BY <3>2 DEF ToSet
    <2>3. \A p \in Processors : proc[p] \in Processings  BY DEF RegistrationInv, RegistrationTyped
    <2> QED  BY <2>1, <2>2, <2>3 DEF RegistrationInv, RegistrationTyped, SentHasRoute, RegistrationTypeOK, Processings
  <1>2. ASSUME NEW r \in Relays
        PROVE  /\ Cardinality(InQueue(r)) + Cardinality(InProcessor(r)) + Cardinality(InCall(r))
                     <= IF r \in registered THEN 0 ELSE 1
               /\ ask[r] # "none" => r \in registered \cup unrouted \/ Held(r) # {}
    <2>1. Placed(queue, proc, ask, registered, unrouted, r)  BY DEF RegistrationInv
    <2>2. OnePlace(queue, proc, r)  BY <2>1 DEF Placed
    <2>3. /\ InQueue(r) # {} <=> Queued(queue, r)
          /\ InProcessor(r) # {} <=> Worked(proc, r)
          /\ InCall(r) # {} <=> Calling(ask, r)
          /\ Cardinality(InQueue(r)) = IF Queued(queue, r) THEN 1 ELSE 0
          /\ Cardinality(InProcessor(r)) = IF Worked(proc, r) THEN 1 ELSE 0
          /\ Cardinality(InCall(r)) = IF Calling(ask, r) THEN 1 ELSE 0
      BY <2>2, PlacesCounted
    <2>4. /\ ~(Queued(queue, r) /\ Worked(proc, r))
          /\ ~((Queued(queue, r) \/ Worked(proc, r)) /\ Calling(ask, r))
          /\ r \in registered => ~Queued(queue, r) /\ ~Worked(proc, r) /\ ~Calling(ask, r)
      BY <2>1 DEF Placed, OnePlace, Somewhere
    <2>5. Cardinality(InQueue(r)) + Cardinality(InProcessor(r)) + Cardinality(InCall(r))
            <= IF r \in registered THEN 0 ELSE 1
      BY <2>3, <2>4
    <2>6. ask[r] # "none" => r \in registered \cup unrouted \/ Held(r) # {}
      BY <2>1, <2>3 DEF Placed, Somewhere, Held
    <2> QED  BY <2>5, <2>6
  <1> QED  BY <1>1, <1>2 DEF HeldOnce, OnlyUnroutedLost

-----------------------------------------------------------------------------
(* Joins and creations                                                        *)

Ats(path) == {Steps[path][i] : i \in DOMAIN Steps[path]}
PastAts == {"sync", "wait", "writers", "publish", "register", "warm", "bootstrap", "tell", "route"}

(* A job is at a step of its path.                                            *)
OnPath ==
  job # Nil =>
    /\ job.strict => job.path = "direct"
    /\ job.at \in Ats(job.path) \/ (job.strict /\ job.at = "wait again")

(* The job at work is the last one, which has not told of a success.          *)
JobIsLast ==
  /\ job # Nil => job.id = begun /\ succeeded # begun
  /\ succeeded # Nil => succeeded <= begun

ProfileToken == ~profile => saved = Nil

(* A relay that is about to be made is nowhere yet.                           *)
Making == job # Nil /\ job.at = "make" => ~profile /\ ~active /\ leave = Nil /\ store = Nil

Raced == "raced" \in seen

(* A job is between the two steps that save its token and store it; of a      *)
(* creation, they come the other way round.                                   *)
Halfway ==
  job # Nil /\ (job.at \in {"store", "store again"} \/ (job.path = "create" /\ job.at = "token again"))

StoredSame == ~Raced /\ leave # "cleared" /\ ~Halfway => saved = store
ClearedStore == ~Raced /\ leave = "cleared" => store = Nil
MadeAndLeft ==
  job # Nil /\ job.path = "create" /\ job.at = "token again" /\ ~Raced /\ leave # "cleared" /\ ~profile =>
    store = Nil

(* A job past its second saving has its token in the profile.                 *)
SavedOwn ==
  job # Nil /\ job.at \in PastAts \cup {"store again", "wait again"} /\ ~Raced /\ profile => saved = job.id

SuccessOwn ==
  job = Nil /\ succeeded = begun /\ begun # 0 /\ ~Raced =>
    saved = begun /\ (token = begun \/ "retold" \in seen)

PathInv ==
  /\ PathTypeOK /\ OnPath /\ JobIsLast /\ ProfileToken /\ Making
  /\ StoredSame /\ ClearedStore /\ MadeAndLeft /\ SavedOwn /\ SuccessOwn
  /\ Followed

-----------------------------------------------------------------------------
(* The steps of the paths                                                     *)

Ends == {"tell", "route"}

\* What comes after step i of a path.
Ordered(steps, i) ==
  /\ steps[i] = "key" => steps[i + 1] = "profile"
  /\ steps[i] = "profile" => steps[i + 1] = "token"
  /\ steps[i] = "token" => steps[i + 1] = "store" /\ steps[i + 2] = "open"
  /\ steps[i] = "store" => steps[i + 1] = "open"
  /\ steps[i] \in {"open", "make"} => steps[i + 1] = "token again"
  /\ steps[i] = "token again" => steps[i + 1] = "store again" /\ steps[i + 2] \in PastAts
  /\ steps[i] \in PastAts \cup {"store again"} /\ steps[i] \notin Ends => steps[i + 1] \in PastAts
  /\ steps[i] \notin Ends => i + 1 \in DOMAIN steps
  /\ steps[i] \in {"token", "token again"} => i + 2 \in DOMAIN steps

\* The sums that number the steps.
LEMMA Sums ==
  /\ 1 + 1 = 2 /\ 2 + 1 = 3 /\ 3 + 1 = 4 /\ 4 + 1 = 5 /\ 5 + 1 = 6 /\ 6 + 1 = 7
  /\ 7 + 1 = 8 /\ 8 + 1 = 9 /\ 9 + 1 = 10 /\ 10 + 1 = 11 /\ 11 + 1 = 12
  /\ 2 + 2 = 4 /\ 3 + 2 = 5 /\ 6 + 2 = 8
  OBVIOUS

\* The steps of an invite differ, and follow each other as they should.
LEMMA InvitePath ==
  /\ Steps["invite"] = InviteSteps /\ 1 \in DOMAIN InviteSteps /\ InviteSteps[1] = "key"
  /\ \A i, j \in DOMAIN InviteSteps : InviteSteps[i] = InviteSteps[j] => i = j
  /\ \A i \in DOMAIN InviteSteps : Ordered(InviteSteps, i)
  /\ \A i \in DOMAIN InviteSteps : InviteSteps[i] \notin {"make", "wait again"}
  <1>1. Steps["invite"] = InviteSteps  BY DEF Steps
  <1>2. DOMAIN InviteSteps = 1..12  BY DEF InviteSteps
  <1>3. /\ InviteSteps[1] = "key" /\ InviteSteps[2] = "profile" /\ InviteSteps[3] = "token"
        /\ InviteSteps[4] = "store" /\ InviteSteps[5] = "open"
        /\ InviteSteps[6] = "token again" /\ InviteSteps[7] = "store again"
        /\ InviteSteps[8] = "sync" /\ InviteSteps[9] = "wait" /\ InviteSteps[10] = "writers"
        /\ InviteSteps[11] = "warm" /\ InviteSteps[12] = "tell"
    BY DEF InviteSteps
  <1>4. \A i \in 1..12 : \/ i = 1 \/ i = 2 \/ i = 3 \/ i = 4 \/ i = 5 \/ i = 6
                        \/ i = 7 \/ i = 8 \/ i = 9 \/ i = 10 \/ i = 11 \/ i = 12
    OBVIOUS
  <1>5. ASSUME NEW i \in 1..12, NEW j \in 1..12, InviteSteps[i] = InviteSteps[j]  PROVE i = j
    BY <1>3, <1>4, <1>5, ZenonT(60)
  <1>6. ASSUME NEW i \in 1..12  PROVE Ordered(InviteSteps, i)
    <2>1. \A j \in 1..12 : j # 12 => j + 1 \in 1..12  OBVIOUS
    <2>2. \A j \in 1..12 : j # 12 /\ j # 11 => j + 2 \in 1..12  OBVIOUS
    <2>3. InviteSteps[i] \notin Ends => i + 1 \in 1..12  BY <1>3, <2>1, Zenon DEF Ends
    <2>4. InviteSteps[i] \in {"token", "token again"} => i + 2 \in 1..12
      BY <1>3, <1>4, <2>2, Zenon
    <2>5. /\ InviteSteps[i] = "key" => InviteSteps[i + 1] = "profile"
          /\ InviteSteps[i] = "profile" => InviteSteps[i + 1] = "token"
          /\ InviteSteps[i] = "token" => InviteSteps[i + 1] = "store" /\ InviteSteps[i + 2] = "open"
          /\ InviteSteps[i] = "store" => InviteSteps[i + 1] = "open"
          /\ InviteSteps[i] \in {"open", "make"} => InviteSteps[i + 1] = "token again"
      BY <1>3, <1>4, Sums
    <2>6. InviteSteps[i] = "token again" => InviteSteps[i + 1] = "store again" /\ InviteSteps[i + 2] \in PastAts
      BY <1>3, <1>4, Sums DEF PastAts
    <2>7. InviteSteps[i] \in PastAts \cup {"store again"} /\ InviteSteps[i] \notin Ends =>
            InviteSteps[i + 1] \in PastAts
      BY <1>3, <1>4, Sums, ZenonT(60) DEF PastAts, Ends
    <2> QED  BY <1>2, <2>3, <2>4, <2>5, <2>6, <2>7 DEF Ordered
  <1>7. \A i \in 1..12 : InviteSteps[i] \notin {"make", "wait again"}  BY <1>3, <1>4
  <1>8. \A i, j \in DOMAIN InviteSteps : InviteSteps[i] = InviteSteps[j] => i = j  BY <1>2, <1>5
  <1>9. \A i \in DOMAIN InviteSteps : Ordered(InviteSteps, i) /\ InviteSteps[i] \notin {"make", "wait again"}  BY <1>2, <1>6, <1>7
  <1>10. 1 \in DOMAIN InviteSteps  BY <1>2
  <1> QED  BY <1>1, <1>3, <1>8, <1>9, <1>10

\* The steps of an open join differ, and follow each other as they should.
LEMMA OpenPath ==
  /\ Steps["open"] = OpenSteps /\ 1 \in DOMAIN OpenSteps /\ OpenSteps[1] = "key"
  /\ \A i, j \in DOMAIN OpenSteps : OpenSteps[i] = OpenSteps[j] => i = j
  /\ \A i \in DOMAIN OpenSteps : Ordered(OpenSteps, i)
  /\ \A i \in DOMAIN OpenSteps : OpenSteps[i] \notin {"make", "wait again"}
  <1>1. Steps["open"] = OpenSteps  BY DEF Steps
  <1>2. DOMAIN OpenSteps = 1..10  BY DEF OpenSteps
  <1>3. /\ OpenSteps[1] = "key" /\ OpenSteps[2] = "profile" /\ OpenSteps[3] = "token"
        /\ OpenSteps[4] = "store" /\ OpenSteps[5] = "open" /\ OpenSteps[6] = "token again"
        /\ OpenSteps[7] = "store again" /\ OpenSteps[8] = "wait" /\ OpenSteps[9] = "warm"
        /\ OpenSteps[10] = "tell"
    BY DEF OpenSteps
  <1>4. \A i \in 1..10 : \/ i = 1 \/ i = 2 \/ i = 3 \/ i = 4 \/ i = 5
                        \/ i = 6 \/ i = 7 \/ i = 8 \/ i = 9 \/ i = 10
    OBVIOUS
  <1>5. ASSUME NEW i \in 1..10, NEW j \in 1..10, OpenSteps[i] = OpenSteps[j]  PROVE i = j
    BY <1>3, <1>4, <1>5, ZenonT(60)
  <1>6. ASSUME NEW i \in 1..10  PROVE Ordered(OpenSteps, i)
    <2>1. \A j \in 1..10 : j # 10 => j + 1 \in 1..10  OBVIOUS
    <2>2. \A j \in 1..10 : j # 10 /\ j # 9 => j + 2 \in 1..10  OBVIOUS
    <2>3. OpenSteps[i] \notin Ends => i + 1 \in 1..10  BY <1>3, <2>1, Zenon DEF Ends
    <2>4. OpenSteps[i] \in {"token", "token again"} => i + 2 \in 1..10
      BY <1>3, <1>4, <2>2, Zenon
    <2>5. /\ OpenSteps[i] = "key" => OpenSteps[i + 1] = "profile"
          /\ OpenSteps[i] = "profile" => OpenSteps[i + 1] = "token"
          /\ OpenSteps[i] = "token" => OpenSteps[i + 1] = "store" /\ OpenSteps[i + 2] = "open"
          /\ OpenSteps[i] = "store" => OpenSteps[i + 1] = "open"
          /\ OpenSteps[i] \in {"open", "make"} => OpenSteps[i + 1] = "token again"
      BY <1>3, <1>4, Sums
    <2>6. OpenSteps[i] = "token again" => OpenSteps[i + 1] = "store again" /\ OpenSteps[i + 2] \in PastAts
      BY <1>3, <1>4, Sums DEF PastAts
    <2>7. OpenSteps[i] \in PastAts \cup {"store again"} /\ OpenSteps[i] \notin Ends =>
            OpenSteps[i + 1] \in PastAts
      BY <1>3, <1>4, Sums DEF PastAts, Ends
    <2> QED  BY <1>2, <2>3, <2>4, <2>5, <2>6, <2>7 DEF Ordered
  <1>7. \A i \in 1..10 : OpenSteps[i] \notin {"make", "wait again"}  BY <1>3, <1>4
  <1>8. \A i, j \in DOMAIN OpenSteps : OpenSteps[i] = OpenSteps[j] => i = j  BY <1>2, <1>5
  <1>9. \A i \in DOMAIN OpenSteps : Ordered(OpenSteps, i) /\ OpenSteps[i] \notin {"make", "wait again"}  BY <1>2, <1>6, <1>7
  <1>10. 1 \in DOMAIN OpenSteps  BY <1>2
  <1> QED  BY <1>1, <1>3, <1>8, <1>9, <1>10

\* The steps of a direct join differ, and follow each other as they should.
LEMMA DirectPath ==
  /\ Steps["direct"] = DirectSteps /\ 1 \in DOMAIN DirectSteps /\ DirectSteps[1] = "key"
  /\ \A i, j \in DOMAIN DirectSteps : DirectSteps[i] = DirectSteps[j] => i = j
  /\ \A i \in DOMAIN DirectSteps : Ordered(DirectSteps, i)
  /\ \A i \in DOMAIN DirectSteps : DirectSteps[i] \notin {"make", "wait again"}
  <1>1. Steps["direct"] = DirectSteps  BY DEF Steps
  <1>2. DOMAIN DirectSteps = 1..11  BY DEF DirectSteps
  <1>3. /\ DirectSteps[1] = "key" /\ DirectSteps[2] = "profile" /\ DirectSteps[3] = "token"
        /\ DirectSteps[4] = "store" /\ DirectSteps[5] = "open"
        /\ DirectSteps[6] = "token again" /\ DirectSteps[7] = "store again"
        /\ DirectSteps[8] = "wait" /\ DirectSteps[9] = "publish" /\ DirectSteps[10] = "warm"
        /\ DirectSteps[11] = "tell"
    BY DEF DirectSteps
  <1>4. \A i \in 1..11 : \/ i = 1 \/ i = 2 \/ i = 3 \/ i = 4 \/ i = 5 \/ i = 6
                        \/ i = 7 \/ i = 8 \/ i = 9 \/ i = 10 \/ i = 11
    OBVIOUS
  <1>5. ASSUME NEW i \in 1..11, NEW j \in 1..11, DirectSteps[i] = DirectSteps[j]  PROVE i = j
    BY <1>3, <1>4, <1>5, ZenonT(60)
  <1>6. ASSUME NEW i \in 1..11  PROVE Ordered(DirectSteps, i)
    <2>1. \A j \in 1..11 : j # 11 => j + 1 \in 1..11  OBVIOUS
    <2>2. \A j \in 1..11 : j # 11 /\ j # 10 => j + 2 \in 1..11  OBVIOUS
    <2>3. DirectSteps[i] \notin Ends => i + 1 \in 1..11  BY <1>3, <2>1, Zenon DEF Ends
    <2>4. DirectSteps[i] \in {"token", "token again"} => i + 2 \in 1..11
      BY <1>3, <1>4, <2>2, Zenon
    <2>5. /\ DirectSteps[i] = "key" => DirectSteps[i + 1] = "profile"
          /\ DirectSteps[i] = "profile" => DirectSteps[i + 1] = "token"
          /\ DirectSteps[i] = "token" => DirectSteps[i + 1] = "store" /\ DirectSteps[i + 2] = "open"
          /\ DirectSteps[i] = "store" => DirectSteps[i + 1] = "open"
          /\ DirectSteps[i] \in {"open", "make"} => DirectSteps[i + 1] = "token again"
      BY <1>3, <1>4, Sums
    <2>6. DirectSteps[i] = "token again" => DirectSteps[i + 1] = "store again" /\ DirectSteps[i + 2] \in PastAts
      BY <1>3, <1>4, Sums DEF PastAts
    <2>7. DirectSteps[i] \in PastAts \cup {"store again"} /\ DirectSteps[i] \notin Ends =>
            DirectSteps[i + 1] \in PastAts
      BY <1>3, <1>4, Sums, ZenonT(40) DEF PastAts, Ends
    <2> QED  BY <1>2, <2>3, <2>4, <2>5, <2>6, <2>7 DEF Ordered
  <1>7. \A i \in 1..11 : DirectSteps[i] \notin {"make", "wait again"}  BY <1>3, <1>4
  <1>8. \A i, j \in DOMAIN DirectSteps : DirectSteps[i] = DirectSteps[j] => i = j  BY <1>2, <1>5
  <1>9. \A i \in DOMAIN DirectSteps : Ordered(DirectSteps, i) /\ DirectSteps[i] \notin {"make", "wait again"}  BY <1>2, <1>6, <1>7
  <1>10. 1 \in DOMAIN DirectSteps  BY <1>2
  <1> QED  BY <1>1, <1>3, <1>8, <1>9, <1>10

\* The steps of a creation differ, and follow each other as they should.
LEMMA CreatePath ==
  /\ Steps["create"] = CreateSteps /\ 1 \in DOMAIN CreateSteps /\ CreateSteps[1] = "make"
  /\ \A i, j \in DOMAIN CreateSteps : CreateSteps[i] = CreateSteps[j] => i = j
  /\ \A i \in DOMAIN CreateSteps : Ordered(CreateSteps, i)
  /\ \A i \in DOMAIN CreateSteps : CreateSteps[i] \notin {"open", "wait again"}
  <1>1. Steps["create"] = CreateSteps  BY DEF Steps
  <1>2. DOMAIN CreateSteps = 1..7  BY DEF CreateSteps
  <1>3. /\ CreateSteps[1] = "make" /\ CreateSteps[2] = "token again"
        /\ CreateSteps[3] = "store again" /\ CreateSteps[4] = "register"
        /\ CreateSteps[5] = "wait" /\ CreateSteps[6] = "bootstrap" /\ CreateSteps[7] = "route"
    BY DEF CreateSteps
  <1>4. \A i \in 1..7 : \/ i = 1 \/ i = 2 \/ i = 3 \/ i = 4
                        \/ i = 5 \/ i = 6 \/ i = 7
    OBVIOUS
  <1>5. ASSUME NEW i \in 1..7, NEW j \in 1..7, CreateSteps[i] = CreateSteps[j]  PROVE i = j
    BY <1>3, <1>4, <1>5
  <1>6. ASSUME NEW i \in 1..7  PROVE Ordered(CreateSteps, i)
    <2>1. \A j \in 1..7 : j # 7 => j + 1 \in 1..7  OBVIOUS
    <2>2. \A j \in 1..7 : j # 7 /\ j # 6 => j + 2 \in 1..7  OBVIOUS
    <2>3. CreateSteps[i] \notin Ends => i + 1 \in 1..7  BY <1>3, <2>1, Zenon DEF Ends
    <2>4. CreateSteps[i] \in {"token", "token again"} => i + 2 \in 1..7
      BY <1>3, <1>4, <2>2, Zenon
    <2>5. /\ CreateSteps[i] = "key" => CreateSteps[i + 1] = "profile"
          /\ CreateSteps[i] = "profile" => CreateSteps[i + 1] = "token"
          /\ CreateSteps[i] = "token" => CreateSteps[i + 1] = "store" /\ CreateSteps[i + 2] = "open"
          /\ CreateSteps[i] = "store" => CreateSteps[i + 1] = "open"
          /\ CreateSteps[i] \in {"open", "make"} => CreateSteps[i + 1] = "token again"
      BY <1>3, <1>4, Sums
    <2>6. CreateSteps[i] = "token again" => CreateSteps[i + 1] = "store again" /\ CreateSteps[i + 2] \in PastAts
      BY <1>3, <1>4, Sums DEF PastAts
    <2>7. CreateSteps[i] \in PastAts \cup {"store again"} /\ CreateSteps[i] \notin Ends =>
            CreateSteps[i + 1] \in PastAts
      BY <1>3, <1>4, Sums DEF PastAts, Ends
    <2> QED  BY <1>2, <2>3, <2>4, <2>5, <2>6, <2>7 DEF Ordered
  <1>7. \A i \in 1..7 : CreateSteps[i] \notin {"open", "wait again"}  BY <1>3, <1>4
  <1>8. \A i, j \in DOMAIN CreateSteps : CreateSteps[i] = CreateSteps[j] => i = j  BY <1>2, <1>5
  <1>9. \A i \in DOMAIN CreateSteps : Ordered(CreateSteps, i) /\ CreateSteps[i] \notin {"open", "wait again"}  BY <1>2, <1>6, <1>7
  <1>10. 1 \in DOMAIN CreateSteps  BY <1>2
  <1> QED  BY <1>1, <1>3, <1>8, <1>9, <1>10

\* The paths.
LEMMA PathNames == Paths = {"invite", "open", "direct", "create"}
  BY DEF Steps, Paths

\* A job is at one step of its path, so the next ones are known.
LEMMA LaterStep ==
  ASSUME job \in JobRecords, NEW i \in DOMAIN Steps[job.path], Steps[job.path][i] = job.at, NEW n
  PROVE  Later(n) = Steps[job.path][i + n]
  <1> DEFINE k == CHOOSE k \in DOMAIN Steps[job.path] : Steps[job.path][k] = job.at
  <1>1. job.path \in Paths  BY DEF JobRecords
  <1>2. k \in DOMAIN Steps[job.path] /\ Steps[job.path][k] = job.at  OBVIOUS
  <1>3. \A j, m \in DOMAIN Steps[job.path] : Steps[job.path][j] = Steps[job.path][m] => j = m
    BY <1>1, PathNames, InvitePath, OpenPath, DirectPath, CreatePath, ZenonT(40)
  <1>4. k = i  BY <1>2, <1>3
  <1> QED  BY <1>4 DEF Later

\* What comes after the step that a job is at.
LEMMA Order ==
  ASSUME job \in JobRecords, job.at \in Ats(job.path)
  PROVE  /\ job.at = "key" => Later(1) = "profile"
         /\ job.at = "profile" => Later(1) = "token"
         /\ job.at = "token" => Later(1) = "store" /\ Later(2) = "open"
         /\ job.at = "store" => Later(1) = "open"
         /\ job.at \in {"open", "make"} => Later(1) = "token again"
         /\ job.at = "token again" => Later(1) = "store again" /\ Later(2) \in PastAts
         /\ job.at \in PastAts \cup {"store again"} /\ job.at \notin Ends => Later(1) \in PastAts
         /\ job.at \notin Ends => Later(1) \in Ats(job.path)
         /\ job.at \in {"token", "token again"} => Later(2) \in Ats(job.path)
         /\ job.at = "make" => job.path = "create"
         /\ job.at = "open" => job.path # "create"
  <1>1. job.path \in Paths  BY DEF JobRecords
  <1>2. PICK i \in DOMAIN Steps[job.path] : Steps[job.path][i] = job.at  BY DEF Ats
  <1>3. Later(1) = Steps[job.path][i + 1] /\ Later(2) = Steps[job.path][i + 2]  BY <1>2, LaterStep
  <1>4. Ordered(Steps[job.path], i)
    BY <1>1, <1>2, PathNames, InvitePath, OpenPath, DirectPath, CreatePath
  <1>5. /\ job.at = "make" => job.path = "create"
        /\ job.at = "open" => job.path # "create"
    BY <1>1, <1>2, PathNames, InvitePath, OpenPath, DirectPath, CreatePath
  <1>6. /\ job.at \notin Ends => Later(1) \in Ats(job.path)
        /\ job.at \in {"token", "token again"} => Later(2) \in Ats(job.path)
    BY <1>2, <1>3, <1>4 DEF Ordered, Ats
  <1> QED  BY <1>2, <1>3, <1>4, <1>5, <1>6 DEF Ordered

\* A path begins with the key, or with the making of the relay.
LEMMA FirstStep ==
  ASSUME NEW path \in Paths
  PROVE  /\ Head(Steps[path]) = IF path = "create" THEN "make" ELSE "key"
         /\ Head(Steps[path]) \in Ats(path)
  <1>1. /\ Head(InviteSteps) = "key" /\ Head(OpenSteps) = "key" /\ Head(DirectSteps) = "key"
        /\ Head(CreateSteps) = "make"
    BY DEF InviteSteps, OpenSteps, DirectSteps, CreateSteps
  <1>2. /\ Head(Steps[path]) = IF path = "create" THEN "make" ELSE "key"
        /\ Head(Steps[path]) = Steps[path][1] /\ 1 \in DOMAIN Steps[path]
    BY <1>1, PathNames, InvitePath, OpenPath, DirectPath, CreatePath
  <1> QED  BY <1>2 DEF Ats

\* The second wait of a strict join is not on the path.
LEMMA NeverAgain ==
  ASSUME NEW path \in Paths
  PROVE  "wait again" \notin Ats(path)
  <1>1. \A i \in DOMAIN Steps[path] : Steps[path][i] # "wait again"
    BY PathNames, InvitePath, OpenPath, DirectPath, CreatePath
  <1> QED  BY <1>1 DEF Ats

\* A strict join goes on with its publication.
LEMMA Publishes == "publish" \in Ats("direct")
  <1>1. DirectSteps[9] = "publish" /\ DOMAIN DirectSteps = 1..11
    <2>1. DirectSteps[9] = "publish"  BY DEF DirectSteps
    <2>2. DOMAIN DirectSteps = 1..11  BY DEF DirectSteps
    <2> QED  BY <2>1, <2>2
  <1>2. 9 \in 1..11  OBVIOUS
  <1> QED  BY <1>1, <1>2, DirectPath DEF Ats
-----------------------------------------------------------------------------
(* Steps of the joins and creations                                           *)

StepNames == Waiting \cup UNION {{Steps[p][i] : i \in DOMAIN Steps[p]} : p \in Paths}

LEMMA JobTyped ==
  ASSUME NEW j \in JobRecords
  PROVE  /\ j.id \in 1..MaxJobs /\ j.path \in Paths /\ j.expects \in BOOLEAN /\ j.strict \in BOOLEAN
         /\ j.stale \in BOOLEAN /\ j.at \in StepNames
  BY DEF JobRecords, StepNames

LEMMA StepsNamed ==
  ASSUME NEW path \in Paths
  PROVE  Ats(path) \subseteq StepNames
  BY DEF Ats, StepNames

LEMMA JobBuilt ==
  ASSUME NEW id \in 1..MaxJobs, NEW path \in Paths, NEW at \in StepNames,
         NEW expects \in BOOLEAN, NEW strict \in BOOLEAN, NEW stale \in BOOLEAN
  PROVE  [id |-> id, path |-> path, at |-> at, expects |-> expects, strict |-> strict, stale |-> stale]
           \in JobRecords
  BY DEF JobRecords, StepNames

\* Only the step, or that the wait is of a closed instance, changes.
LEMMA JobMoved ==
  ASSUME NEW j \in JobRecords, NEW at \in StepNames, NEW new,
         \/ new = [j EXCEPT !.at = at, !.stale = TRUE]
         \/ new = [j EXCEPT !.at = at, !.stale = FALSE]
  PROVE  /\ new \in JobRecords /\ new.at = at /\ new.id = j.id /\ new.path = j.path
         /\ new.strict = j.strict
  BY DEF JobRecords, StepNames

LEMMA JobStale ==
  ASSUME NEW j \in JobRecords, NEW new, new = [j EXCEPT !.stale = TRUE]
  PROVE  /\ new \in JobRecords /\ new.at = j.at /\ new.id = j.id /\ new.path = j.path
         /\ new.strict = j.strict
  BY DEF JobRecords

\* A job that goes on stays the same job, on its path.
LEMMA Moves ==
  ASSUME PathConstants, PathInv, job # Nil, NEW at, Goes(at),
         at \in Ats(job.path) \/ (job.strict /\ at = "wait again")
  PROVE  /\ job' \in JobRecords /\ job' # Nil /\ job \in JobRecords
         /\ job'.at = at /\ job'.id = job.id /\ job'.path = job.path
         /\ job'.strict = job.strict
         /\ OnPath'
  <1>1. job \in JobRecords  BY DEF PathInv, PathTypeOK
  <1>2. job.path \in Paths  BY <1>1, JobTyped
  <1>3. at \in StepNames  BY <1>2, StepsNamed DEF StepNames, Waiting
  <1>4. \/ job' = [job EXCEPT !.at = at, !.stale = TRUE]
        \/ job' = [job EXCEPT !.at = at, !.stale = FALSE]
    <2>1. CASE at \in Waiting /\ ~active  BY <2>1 DEF Goes
    <2>2. CASE ~(at \in Waiting /\ ~active)
      <3>1. (at \in Waiting /\ ~active) = FALSE  BY <2>2
      <3> QED  BY <3>1 DEF Goes
    <2> QED  BY <2>1, <2>2
  <1>5. /\ job' \in JobRecords /\ job'.at = at /\ job'.id = job.id /\ job'.path = job.path
        /\ job'.strict = job.strict
    BY <1>1, <1>3, <1>4, JobMoved
  <1>6. job' # Nil  BY <1>5 DEF PathConstants
  <1>7. job.strict => job.path = "direct"  BY DEF PathInv, OnPath
  <1> QED  BY <1>1, <1>5, <1>6, <1>7 DEF OnPath, Ats

\* What the invariant says of tokens.
TokensInv ==
  /\ OnPath /\ JobIsLast /\ ProfileToken /\ Making
  /\ StoredSame /\ ClearedStore /\ MadeAndLeft /\ SavedOwn /\ SuccessOwn

\* A job goes on, and of the rest only its recovery changes.
LEMMA JobMoves ==
  ASSUME PathConstants, PathInv, job # Nil, NEW at, Goes(at),
         at \in Ats(job.path) \/ (job.strict /\ at = "wait again"), at # "make",
         UNCHANGED <<begun, succeeded, active, profile, saved, store, leave>>,
         Raced' <=> Raced,
         at \in PastAts \cup {"store again", "wait again"} =>
           ~profile \/ job.at \in PastAts \cup {"store again", "wait again"},
         job.path = "create" => at # "token again",
         Halfway => Halfway' \/ Raced \/ leave = "cleared" \/ saved = store
  PROVE  job' \in JobRecords /\ TokensInv'
  <1>1. /\ job' \in JobRecords /\ job' # Nil /\ job'.at = at /\ job'.id = job.id
        /\ job'.path = job.path /\ OnPath'
    BY Moves
  <1>2. JobIsLast'  BY <1>1 DEF PathInv, JobIsLast
  <1>3. ProfileToken'  BY DEF PathInv, ProfileToken
  <1>4. Making'  BY <1>1 DEF Making
  <1>5. StoredSame'  BY DEF PathInv, StoredSame
  <1>6. ClearedStore'  BY DEF PathInv, ClearedStore
  <1>7. MadeAndLeft'  BY <1>1 DEF MadeAndLeft
  <1>8. SavedOwn'  BY <1>1 DEF PathInv, SavedOwn
  <1>9. SuccessOwn'  BY <1>1 DEF SuccessOwn
  <1> QED  BY <1>1, <1>2, <1>3, <1>4, <1>5, <1>6, <1>7, <1>8, <1>9 DEF TokensInv

\* A job ends without a success.
LEMMA JobEnds ==
  ASSUME PathConstants, PathInv, job # Nil, job' = Nil, ~Halfway,
         UNCHANGED <<begun, succeeded, active, profile, saved, store, leave>>,
         Raced' <=> Raced
  PROVE  TokensInv'
  <1>1. OnPath' /\ Making' /\ MadeAndLeft' /\ SavedOwn'
    BY DEF OnPath, Making, MadeAndLeft, SavedOwn
  <1>2. JobIsLast' /\ SuccessOwn'  BY DEF PathInv, JobIsLast, SuccessOwn
  <1>3. ProfileToken'  BY DEF PathInv, ProfileToken
  <1>4. StoredSame'  BY DEF PathInv, StoredSame
  <1>5. ClearedStore'  BY DEF PathInv, ClearedStore
  <1> QED  BY <1>1, <1>2, <1>3, <1>4, <1>5 DEF TokensInv

\* What the rest of the proof needs of a job at work.
LEMMA AtWork ==
  ASSUME PathConstants, PathInv, job # Nil
  PROVE  /\ job \in JobRecords /\ job.id \in 1..MaxJobs /\ job.id \in Tokens /\ job.id = begun
         /\ job.at # "wait again" => job.at \in Ats(job.path)
  <1>1. job \in JobRecords  BY DEF PathInv, PathTypeOK
  <1>2. job.id \in 1..MaxJobs /\ job.id = begun  BY <1>1, JobTyped DEF PathInv, JobIsLast
  <1>3. 1..MaxJobs \subseteq Tokens  BY DEF Tokens, PathConstants
  <1>4. job.at # "wait again" => job.at \in Ats(job.path)  BY DEF PathInv, OnPath
  <1> QED  BY <1>1, <1>2, <1>3, <1>4

\* Steps that only go on: the key, what this module leaves out, the gate, the
\* first events.
LEMMA GoesOnKeeps ==
  ASSUME PathConstants, PathInv, KeyFound \/ Pass \/ WarmGate \/ Bootstrap
  PROVE  PathInv'
  <1>1. /\ job # Nil /\ Goes(Later(1))
        /\ job.at \in {"key", "sync", "writers", "publish", "register", "warm", "bootstrap"}
        /\ UNCHANGED <<begun, succeeded, active, canWrite, profile, saved, store, late, leave, token, closes, seen>>
    BY DEF KeyFound, Pass, Passed, WarmGate, Bootstrap
  <1>2. job \in JobRecords /\ job.at \in Ats(job.path)  BY <1>1, AtWork
  <1>3. /\ job.at = "key" => Later(1) = "profile"
        /\ job.at \in PastAts /\ job.at \notin Ends => Later(1) \in PastAts
        /\ job.at \notin Ends => Later(1) \in Ats(job.path)
    BY <1>2, Order
  <1>4. /\ Later(1) \in Ats(job.path)
        /\ Later(1) = "profile" \/ (Later(1) \in PastAts /\ job.at \in PastAts)
    BY <1>1, <1>3 DEF PastAts, Ends
  <1>5. Later(1) # "make" /\ Later(1) # "token again"  BY <1>4 DEF PastAts
  <1>6. ~Halfway  BY <1>1 DEF Halfway
  <1>7. job' \in JobRecords /\ TokensInv'
    BY <1>1, <1>4, <1>5, <1>6, JobMoves DEF PastAts, Raced
  <1>8. PathTypeOK'  BY <1>1, <1>7 DEF PathInv, PathTypeOK
  <1>9. Followed'  BY <1>1 DEF PathInv, Followed
  <1> QED  BY <1>7, <1>8, <1>9 DEF PathInv, TokensInv

LEMMA FailsKeeps ==
  ASSUME PathConstants, PathInv, Fails \/ RouteFails
  PROVE  PathInv'
  <1>1. /\ job # Nil /\ job' = Nil /\ job.at \in {"key", "make", "route"}
        /\ UNCHANGED <<begun, succeeded, active, canWrite, profile, saved, store, late, leave, token, closes, seen>>
    BY DEF Fails, RouteFails
  <1>2. ~Halfway  BY <1>1 DEF Halfway
  <1>3. TokensInv'  BY <1>1, <1>2, JobEnds DEF Raced
  <1>4. PathTypeOK'  BY <1>1 DEF PathInv, PathTypeOK
  <1>5. Followed'  BY <1>1 DEF PathInv, Followed
  <1> QED  BY <1>3, <1>4, <1>5 DEF PathInv, TokensInv

LEMMA PreseedKeeps ==
  ASSUME PathConstants, PathInv, Preseed
  PROVE  PathInv'
  <1>1. /\ job # Nil /\ Goes(Later(1)) /\ job.at = "profile" /\ profile' = TRUE
        /\ UNCHANGED <<begun, succeeded, active, canWrite, saved, store, late, leave, token, closes, seen>>
    BY DEF Preseed
  <1>2. job \in JobRecords /\ job.at \in Ats(job.path)  BY <1>1, AtWork
  <1>3. Later(1) = "token" /\ Later(1) \in Ats(job.path)  BY <1>1, <1>2, Order DEF Ends
  <1>4. /\ job' \in JobRecords /\ job' # Nil /\ job'.at = "token" /\ job'.id = job.id /\ OnPath'
    BY <1>1, <1>3, Moves
  <1>5. JobIsLast'  BY <1>1, <1>4 DEF PathInv, JobIsLast
  <1>6. ProfileToken' /\ Making' /\ MadeAndLeft' /\ SavedOwn' /\ SuccessOwn'
    BY <1>1, <1>4 DEF ProfileToken, Making, MadeAndLeft, SavedOwn, SuccessOwn, PastAts
  <1>7. StoredSame' /\ ClearedStore'
    BY <1>1, <1>4 DEF PathInv, StoredSame, ClearedStore, Halfway, Raced
  <1>8. PathTypeOK'  BY <1>1, <1>4 DEF PathInv, PathTypeOK
  <1>9. Followed'  BY <1>1 DEF PathInv, Followed
  <1> QED  BY <1>4, <1>5, <1>6, <1>7, <1>8, <1>9 DEF PathInv

\* Without a profile a job passes both of its savings, and the relay has no
\* token in either store.
LEMMA SaveTokenKeeps ==
  ASSUME PathConstants, PathInv, SaveToken
  PROVE  PathInv'
  <1> DEFINE n == IF profile THEN 1 ELSE 2
  <1>1. /\ job # Nil /\ Goes(Later(n)) /\ job.at \in {"token", "token again"}
        /\ saved' = IF profile THEN job.id ELSE saved
        /\ UNCHANGED <<begun, succeeded, active, canWrite, profile, store, late, leave, token, closes, seen>>
    BY DEF SaveToken
  <1>2. /\ job \in JobRecords /\ job.at \in Ats(job.path) /\ job.id \in Tokens
    BY <1>1, AtWork
  <1>3. /\ job.at = "token" => Later(1) = "store" /\ Later(2) = "open"
        /\ job.at = "token again" => Later(1) = "store again" /\ Later(2) \in PastAts
        /\ Later(1) \in Ats(job.path) /\ Later(2) \in Ats(job.path)
    BY <1>1, <1>2, Order DEF Ends
  <1>4. PathTypeOK' /\ Followed'
    <2>1. Later(n) \in Ats(job.path)  BY <1>3
    <2>2. job' \in JobRecords  BY <1>1, <2>1, Moves
    <2>3. PathTypeOK'  BY <1>1, <1>2, <2>2 DEF PathInv, PathTypeOK
    <2> QED  BY <1>1, <2>3 DEF PathInv, Followed
  <1>5. CASE ~profile
    <2>1. Goes(Later(2)) /\ UNCHANGED saved /\ Later(2) \in Ats(job.path)  BY <1>1, <1>3, <1>5
    <2>2. Later(2) # "make" /\ Later(2) # "token again"  BY <1>1, <1>3 DEF PastAts
    <2>3. Halfway => Raced \/ leave = "cleared" \/ saved = store
      BY <1>1, <1>5 DEF PathInv, Halfway, MadeAndLeft, ProfileToken
    <2>4. TokensInv'  BY <1>1, <1>5, <2>1, <2>2, <2>3, JobMoves DEF Raced
    <2> QED  BY <1>4, <2>4 DEF PathInv, TokensInv
  <1>6. CASE profile
    <2>1. Goes(Later(1)) /\ saved' = job.id /\ Later(1) \in {"store", "store again"}
      BY <1>1, <1>3, <1>6
    <2>2. /\ job' # Nil /\ job'.at \in {"store", "store again"} /\ job'.id = job.id /\ OnPath'
      BY <1>1, <1>3, <2>1, Moves
    <2>3. JobIsLast'  BY <1>1, <2>2 DEF PathInv, JobIsLast
    <2>4. ProfileToken' /\ Making' /\ MadeAndLeft' /\ SavedOwn' /\ SuccessOwn'
      BY <1>1, <1>6, <2>1, <2>2 DEF ProfileToken, Making, MadeAndLeft, SavedOwn, SuccessOwn
    <2>5. StoredSame' /\ ClearedStore'
      BY <1>1, <2>2 DEF PathInv, StoredSame, ClearedStore, Halfway, Raced
    <2> QED  BY <1>4, <2>2, <2>3, <2>4, <2>5 DEF PathInv
  <1> QED  BY <1>5, <1>6

LEMMA StoreTokenKeeps ==
  ASSUME PathConstants, PathInv, StoreToken
  PROVE  PathInv'
  <1>1. /\ job # Nil /\ Goes(Later(1)) /\ job.at \in {"store", "store again"} /\ store' = job.id
        /\ seen' = IF saved = job.id /\ leave # "cleared" THEN seen \ {"raced"} ELSE seen \cup {"raced"}
        /\ UNCHANGED <<begun, succeeded, active, canWrite, profile, saved, late, leave, token, closes>>
    BY DEF StoreToken
  <1>2. job \in JobRecords /\ job.at \in Ats(job.path) /\ job.id \in Tokens  BY <1>1, AtWork
  <1>3. /\ job.at = "store" => Later(1) = "open"
        /\ job.at = "store again" => Later(1) \in PastAts
        /\ Later(1) \in Ats(job.path)
    BY <1>1, <1>2, Order DEF Ends
  <1>4. /\ job' \in JobRecords /\ job' # Nil /\ job'.at = Later(1) /\ job'.id = job.id /\ OnPath'
    BY <1>1, <1>3, Moves
  <1>5. ~Raced' => saved' = job'.id /\ store' = job'.id /\ leave' # "cleared"
    BY <1>1, <1>4 DEF Raced
  <1>6. job'.at # "make" /\ job'.at # "token again"  BY <1>1, <1>3, <1>4 DEF PastAts
  <1>7. JobIsLast'  BY <1>1, <1>4 DEF PathInv, JobIsLast
  <1>8. ProfileToken'  BY <1>1 DEF PathInv, ProfileToken
  <1>9. Making' /\ MadeAndLeft' /\ SavedOwn' /\ SuccessOwn' /\ StoredSame' /\ ClearedStore'
    BY <1>4, <1>5, <1>6 DEF Making, MadeAndLeft, SavedOwn, SuccessOwn, StoredSame, ClearedStore
  <1>10. PathTypeOK'  BY <1>1, <1>2, <1>4 DEF PathInv, PathTypeOK, Seen
  <1>11. Followed'  BY <1>1 DEF PathInv, Followed
  <1> QED  BY <1>4, <1>7, <1>8, <1>9, <1>10, <1>11 DEF PathInv

LEMMA OpenRelayKeeps ==
  ASSUME PathConstants, PathInv, OpenRelay
  PROVE  PathInv'
  <1>1. /\ job # Nil /\ Goes(Later(1)) /\ job.at = "open"
        /\ (~active /\ Opened(FALSE)) \/ UNCHANGED <<active, canWrite, profile, seen>>
        /\ UNCHANGED <<begun, succeeded, saved, store, late, leave, token, closes>>
    BY DEF OpenRelay
  <1>2. job \in JobRecords /\ job.at \in Ats(job.path)  BY <1>1, AtWork
  <1>3. Later(1) = "token again" /\ Later(1) \in Ats(job.path) /\ job.path # "create"
    BY <1>1, <1>2, Order DEF Ends
  <1>4. /\ job' \in JobRecords /\ job' # Nil /\ job'.at = "token again" /\ job'.id = job.id
        /\ job'.path # "create" /\ OnPath'
    BY <1>1, <1>3, Moves
  <1>5. /\ Raced' <=> Raced
        /\ profile => profile'
        /\ active' \in BOOLEAN /\ canWrite' \in BOOLEAN /\ profile' \in BOOLEAN /\ seen' \subseteq Seen
    <2>1. /\ active \in BOOLEAN /\ canWrite \in BOOLEAN /\ profile \in BOOLEAN /\ seen \subseteq Seen
      BY DEF PathInv, PathTypeOK
    <2>2. CASE Opened(FALSE)
      <3>1. /\ active' = TRUE /\ profile' = TRUE /\ canWrite' \in BOOLEAN
            /\ seen' = (seen \ OfInstance)
        BY <2>2 DEF Opened
      <3> QED  BY <2>1, <3>1 DEF Raced, OfInstance
    <2>3. CASE UNCHANGED <<active, canWrite, profile, seen>>  BY <2>1, <2>3 DEF Raced
    <2> QED  BY <1>1, <2>2, <2>3
  <1>6. JobIsLast'  BY <1>1, <1>4 DEF PathInv, JobIsLast
  <1>7. ProfileToken'  BY <1>1, <1>5 DEF PathInv, ProfileToken
  <1>8. Making' /\ MadeAndLeft' /\ SavedOwn' /\ SuccessOwn'
    BY <1>4 DEF Making, MadeAndLeft, SavedOwn, SuccessOwn, PastAts
  <1>9. StoredSame' /\ ClearedStore'
    BY <1>1, <1>4, <1>5 DEF PathInv, StoredSame, ClearedStore, Halfway
  <1>10. PathTypeOK'  BY <1>1, <1>4, <1>5 DEF PathInv, PathTypeOK
  <1>11. Followed'  BY <1>1 DEF PathInv, Followed, Opened, OfInstance
  <1> QED  BY <1>4, <1>6, <1>7, <1>8, <1>9, <1>10, <1>11 DEF PathInv

LEMMA CreateKeeps ==
  ASSUME PathConstants, PathInv, Create
  PROVE  PathInv'
  <1>1. /\ job # Nil /\ Goes(Later(1)) /\ job.at = "make" /\ Opened(FALSE) /\ store' = job.id
        /\ UNCHANGED <<begun, succeeded, saved, late, leave, token, closes>>
    BY DEF Create
  <1>2. job \in JobRecords /\ job.at \in Ats(job.path) /\ job.id \in Tokens  BY <1>1, AtWork
  <1>3. Later(1) = "token again" /\ Later(1) \in Ats(job.path) /\ job.path = "create"
    BY <1>1, <1>2, Order DEF Ends
  <1>4. /\ job' \in JobRecords /\ job' # Nil /\ job'.at = "token again" /\ job'.id = job.id
        /\ job'.path = "create" /\ OnPath'
    BY <1>1, <1>3, Moves
  <1>5. /\ leave' = Nil
        /\ active' = TRUE /\ canWrite' \in BOOLEAN /\ profile' = TRUE /\ seen' \subseteq Seen
    BY <1>1 DEF PathInv, PathTypeOK, Making, Opened
  <1>6. JobIsLast'  BY <1>1, <1>4 DEF PathInv, JobIsLast
  <1>7. ProfileToken' /\ Making' /\ MadeAndLeft' /\ SavedOwn' /\ SuccessOwn' /\ StoredSame'
    BY <1>4, <1>5 DEF ProfileToken, Making, MadeAndLeft, SavedOwn, SuccessOwn, PastAts, StoredSame, Halfway
  <1>8. ClearedStore'  BY <1>5 DEF ClearedStore, PathConstants
  <1>9. PathTypeOK'  BY <1>1, <1>2, <1>4, <1>5 DEF PathInv, PathTypeOK
  <1>10. Followed'  BY <1>1 DEF Followed, Opened, OfInstance
  <1> QED  BY <1>4, <1>6, <1>7, <1>8, <1>9, <1>10 DEF PathInv

\* A recovery that a job schedules.
LEMMA Scheduled ==
  ASSUME PathConstants, NEW j \in 1..MaxJobs, NEW stale \in BOOLEAN
  PROVE  LET new == [job |-> j, stale |-> stale] IN
         new \in LateRecords /\ new # Nil /\ new.stale = stale
  BY DEF LateRecords, PathConstants

\* What follows a wait: the app is told, or someone watches this instance.
LEMMA FollowKeeps ==
  ASSUME PathConstants, PathInv, job # Nil, NEW writable, NEW ok, Follow(writable, ok), active' = active
  PROVE  /\ late' \in {Nil} \cup LateRecords /\ token' \in {Nil} \cup Tokens /\ seen' \subseteq Seen
         /\ Raced' <=> Raced
         /\ Followed'
  <1> DEFINE passed == job.path = "direct" /\ ~job.expects
             new == [job |-> job.id, stale |-> job.stale]
  <1>1. /\ late \in {Nil} \cup LateRecords /\ token \in {Nil} \cup Tokens /\ seen \subseteq Seen /\ Followed
        /\ job.id \in 1..MaxJobs /\ job.id \in Tokens /\ job.stale \in BOOLEAN
    BY AtWork, JobTyped DEF PathInv, PathTypeOK
  <1>2. new \in LateRecords /\ new # Nil /\ new.stale = job.stale  BY <1>1, Scheduled
  <1>3. CASE writable
    <2>1. token' = job.id /\ seen' = seen \cup {"told"} /\ late' = late  BY <1>3 DEF Follow
    <2>2. seen' \subseteq Seen /\ (Raced' <=> Raced) /\ Followed'
      BY <1>1, <2>1 DEF Seen, Raced, Followed
    <2> QED  BY <1>1, <2>1, <2>2
  <1>4. CASE ~writable
    <2>1. /\ late' = IF passed \/ late # Nil THEN late ELSE new
          /\ seen' = IF job.stale \/ passed THEN seen ELSE Owed
          /\ token' = token
      BY <1>4 DEF Follow
    <2> HIDE DEF passed, new
    <2>2. late' \in {Nil} \cup LateRecords  BY <1>1, <1>2, <2>1
    <2>3. Owed \subseteq Seen /\ ("raced" \in Owed <=> Raced) /\ "owed" \in Owed
          /\ (late # Nil /\ late.stale => "swallowed" \in Owed)
      BY <1>1 DEF Owed, Seen, Raced, OfInstance
    <2>4. CASE job.stale \/ passed
      <3>1. seen' = seen /\ (late # Nil => late' = late)  BY <2>1, <2>4
      <3> QED  BY <1>1, <2>1, <2>2, <3>1 DEF Raced, Followed
    <2>5. CASE ~(job.stale \/ passed)
      <3>1. seen' = Owed /\ late' = (IF late # Nil THEN late ELSE new)  BY <2>1, <2>5
      <3>2. late' # Nil /\ (late = Nil => ~(late').stale)  BY <1>2, <2>5, <3>1
      <3>3. late # Nil => late' = late  BY <3>1
      <3>4. Followed'  BY <2>3, <3>1, <3>2, <3>3 DEF Followed
      <3> QED  BY <1>1, <2>1, <2>2, <2>3, <3>1, <3>4 DEF Raced
    <2> QED  BY <2>4, <2>5
  <1> QED  BY <1>3, <1>4

LEMMA WaitEndsKeeps ==
  ASSUME PathConstants, PathInv, WaitEnds
  PROVE  PathInv'
  <1> DEFINE writable == ~job.stale /\ canWrite
             next == IF job.at = "wait" THEN Later(1) ELSE "publish"
  <1>1. /\ job # Nil /\ job.at \in {"wait", "wait again"}
        /\ UNCHANGED <<begun, succeeded, active, canWrite, profile, saved, store, leave, closes>>
    BY DEF WaitEnds, Waiting
  <1>2. /\ job \in JobRecords
        /\ job.at # "wait again" => job.at \in Ats(job.path)
        /\ job.at = "wait again" => job.strict
        /\ job.strict => job.path = "direct"
    <2>1. job \in JobRecords /\ (job.at # "wait again" => job.at \in Ats(job.path))
      BY <1>1, AtWork
    <2>2. "wait again" \notin Ats(job.path)
      <3>1. job.path \in Paths  BY <2>1, JobTyped
      <3> QED  BY <3>1, NeverAgain
    <2> QED  BY <1>1, <2>1, <2>2 DEF PathInv, OnPath
  <1>3. \/ \E ok : Goes(next) /\ Follow(writable, ok)
        \/ /\ job.strict /\ UNCHANGED <<late, token, seen>>
           /\ (job.at = "wait" /\ Goes("wait again")) \/ job' = Nil
    BY <1>1 DEF WaitEnds
  <1>4. ~Halfway  BY <1>1 DEF Halfway
  <1>5. CASE \E ok : Goes(next) /\ Follow(writable, ok)
    <2>1. PICK ok : Goes(next) /\ Follow(writable, ok)  BY <1>5
    <2>2. next \in Ats(job.path) /\ next \in PastAts
      <3>1. CASE job.at = "wait"
        <4>1. job.at \in Ats(job.path) /\ job.at \in PastAts /\ job.at \notin Ends
          BY <1>2, <3>1 DEF PastAts, Ends
        <4> QED  BY <1>2, <3>1, <4>1, Order
      <3>2. CASE job.at = "wait again"
        BY <1>2, <3>2, Publishes DEF PastAts
      <3> QED  BY <1>1, <3>1, <3>2
    <2> HIDE DEF next, writable
    <2>3. next # "make" /\ next # "token again"  BY <2>2 DEF PastAts
    <2>4. job.at \in PastAts \cup {"store again", "wait again"}  BY <1>1 DEF PastAts
    <2>5. /\ late' \in {Nil} \cup LateRecords /\ token' \in {Nil} \cup Tokens /\ seen' \subseteq Seen
          /\ Raced' <=> Raced
          /\ Followed'
      BY <1>1, <2>1, FollowKeeps
    <2>6. job' \in JobRecords /\ TokensInv'
      BY <1>1, <1>4, <2>1, <2>2, <2>3, <2>4, <2>5, JobMoves
    <2>7. PathTypeOK'  BY <1>1, <2>5, <2>6 DEF PathInv, PathTypeOK
    <2> QED  BY <2>5, <2>6, <2>7 DEF PathInv, TokensInv
  <1>6. CASE job.strict /\ UNCHANGED <<late, token, seen>> /\ job.at = "wait" /\ Goes("wait again")
    <2>1. job.at \in PastAts  BY <1>6 DEF PastAts
    <2>2. job' \in JobRecords /\ TokensInv'
      BY <1>1, <1>4, <1>6, <2>1, JobMoves DEF Raced
    <2>3. PathTypeOK'  BY <1>1, <1>6, <2>2 DEF PathInv, PathTypeOK
    <2>4. Followed'  BY <1>1, <1>6 DEF PathInv, Followed
    <2> QED  BY <2>2, <2>3, <2>4 DEF PathInv, TokensInv
  <1>7. CASE UNCHANGED <<late, token, seen>> /\ job' = Nil
    <2>1. TokensInv'  BY <1>1, <1>4, <1>7, JobEnds DEF Raced
    <2>2. PathTypeOK'  BY <1>1, <1>7 DEF PathInv, PathTypeOK
    <2>3. Followed'  BY <1>1, <1>7 DEF PathInv, Followed
    <2> QED  BY <2>1, <2>2, <2>3 DEF PathInv, TokensInv
  <1> QED  BY <1>3, <1>5, <1>6, <1>7

\* Success is told: the profile, if there is one, has the job's token.
LEMMA SucceedsKeeps ==
  ASSUME PathConstants, PathInv, Succeeds
  PROVE  PathInv'
  <1>1. /\ job # Nil /\ job.at \in {"tell", "route"} /\ job' = Nil
        /\ succeeded' = (IF profile THEN job.id ELSE Nil)
        /\ token' = job.id /\ seen' = seen \ {"retold"}
        /\ UNCHANGED <<begun, active, canWrite, profile, saved, store, late, leave, closes>>
    BY DEF Succeeds
  <1>2. job.id \in 1..MaxJobs /\ job.id \in Tokens /\ job.id = begun  BY <1>1, AtWork
  <1>3. ~Halfway /\ (Raced' <=> Raced)  BY <1>1 DEF Halfway, Raced
  <1>4. OnPath' /\ Making' /\ MadeAndLeft' /\ SavedOwn'
    BY <1>1 DEF OnPath, Making, MadeAndLeft, SavedOwn
  <1>5. begun \in Nat /\ begun # Nil  BY <1>2 DEF PathConstants, Tokens
  <1>6. JobIsLast'
    <2>1. succeeded' # Nil => succeeded' = begun'  BY <1>1, <1>2
    <2>2. begun' <= begun'  BY <1>1, <1>5
    <2> QED  BY <1>1, <2>1, <2>2 DEF JobIsLast
  <1>7. ProfileToken'  BY <1>1 DEF PathInv, ProfileToken
  <1>8. StoredSame' /\ ClearedStore'  BY <1>1, <1>3 DEF PathInv, StoredSame, ClearedStore
  <1>9. SuccessOwn'
    <2>1. job.at \in PastAts  BY <1>1 DEF PastAts
    <2>2. ~Raced /\ profile => saved = job.id  BY <1>1, <2>1 DEF PathInv, SavedOwn
    <2>3. succeeded' = begun' => profile  BY <1>1, <1>5
    <2> QED  BY <1>1, <1>2, <1>3, <2>2, <2>3 DEF SuccessOwn
  <1>10. PathTypeOK'  BY <1>1, <1>2 DEF PathInv, PathTypeOK
  <1>11. Followed'  BY <1>1 DEF PathInv, Followed
  <1> QED  BY <1>4, <1>6, <1>7, <1>8, <1>9, <1>10, <1>11 DEF PathInv

LEMMA BeginKeeps ==
  ASSUME PathConstants, PathInv,
         NEW path \in Paths, NEW expects \in BOOLEAN, NEW strict \in BOOLEAN, Begin(path, expects, strict)
  PROVE  PathInv'
  <1> DEFINE at == Head(Steps[path])
             new == [id |-> begun', path |-> path, at |-> at, expects |-> expects, strict |-> strict,
                     stale |-> FALSE]
  <1>1. /\ job = Nil /\ begun < MaxJobs /\ begun' = begun + 1 /\ job' = new
        /\ path = "create" => ~profile /\ ~active /\ leave = Nil /\ store = Nil
        /\ strict => path = "direct"
        /\ UNCHANGED <<succeeded, active, canWrite, profile, saved, store, late, leave, token, closes, seen>>
    BY DEF Begin
  <1>2. at = (IF path = "create" THEN "make" ELSE "key") /\ at \in Ats(path)  BY FirstStep
  <1>3. begun \in 0..MaxJobs /\ MaxJobs \in Nat  BY DEF PathInv, PathTypeOK, PathConstants
  <1>4. begun' \in 1..MaxJobs /\ begun' \in 0..MaxJobs  BY <1>1, <1>3
  <1>5. at \in StepNames  BY <1>2, StepsNamed
  <1>6. /\ job' \in JobRecords /\ (job').id = begun' /\ (job').path = path /\ (job').at = at
        /\ (job').strict = strict
    <2>1. new \in JobRecords  BY <1>4, <1>5, JobBuilt
    <2> QED  BY <1>1, <2>1
  <1>7. job' # Nil  BY <1>6 DEF PathConstants
  <1> HIDE DEF at, new
  <1>8. OnPath'  BY <1>1, <1>2, <1>6, <1>7 DEF OnPath, Ats
  <1>9. JobIsLast'
    <2>1. succeeded # Nil => succeeded \in 1..MaxJobs /\ succeeded <= begun
      BY DEF PathInv, PathTypeOK, JobIsLast
    <2>2. succeeded # Nil => succeeded # begun' /\ succeeded <= begun'  BY <1>1, <1>3, <2>1
    <2>3. Nil # begun'  BY <1>4 DEF PathConstants, Tokens
    <2> QED  BY <1>1, <1>6, <2>2, <2>3 DEF JobIsLast
  <1>10. ProfileToken'  BY <1>1 DEF PathInv, ProfileToken
  <1>11. Making'  BY <1>1, <1>2, <1>6, <1>7 DEF Making
  <1>12. (job').at \in {"make", "key"}  BY <1>2, <1>6
  <1>13. MadeAndLeft' /\ SavedOwn' /\ SuccessOwn'
    BY <1>7, <1>12 DEF MadeAndLeft, SavedOwn, SuccessOwn, PastAts
  <1>14. StoredSame' /\ ClearedStore'
    BY <1>1, <1>12 DEF PathInv, StoredSame, ClearedStore, Halfway, Raced
  <1>15. PathTypeOK'  BY <1>1, <1>4, <1>6 DEF PathInv, PathTypeOK
  <1>16. Followed'  BY <1>1 DEF PathInv, Followed
  <1> QED  BY <1>8, <1>9, <1>10, <1>11, <1>13, <1>14, <1>15, <1>16 DEF PathInv

LEMMA LateKeeps ==
  ASSUME PathConstants, PathInv, LateTells \/ LateLapses
  PROVE  PathInv'
  <1>1. /\ late # Nil /\ late' = Nil
        /\ UNCHANGED <<job, begun, succeeded, active, canWrite, profile, saved, store, leave, closes>>
    BY DEF LateTells, LateLapses
  <1>2. late \in LateRecords  BY <1>1 DEF PathInv, PathTypeOK
  <1>3. late.job \in 1..MaxJobs /\ late.job \in Tokens
    BY <1>2 DEF LateRecords, Tokens, PathConstants
  <1>4. /\ (Raced' <=> Raced) /\ ("retold" \in seen => "retold" \in seen')
        /\ token' = token \/ token' = begun \/ "retold" \in seen'
        /\ token' \in {Nil} \cup Tokens /\ seen' \subseteq Seen
        /\ "told" \in seen' \/ "lapsed" \in seen' \/ (late.stale /\ seen' = seen)
    BY <1>3 DEF LateTells, LateLapses, Raced, Seen, PathInv, PathTypeOK
  <1>5. OnPath' /\ JobIsLast' /\ ProfileToken' /\ Making' /\ MadeAndLeft'
    BY <1>1, <1>4 DEF PathInv, OnPath, JobIsLast, ProfileToken, Making, MadeAndLeft
  <1>6. StoredSame' /\ ClearedStore' /\ SavedOwn'
    BY <1>1, <1>4 DEF PathInv, StoredSame, ClearedStore, SavedOwn, Halfway
  <1>7. SuccessOwn'  BY <1>1, <1>4 DEF PathInv, SuccessOwn
  <1>8. PathTypeOK'  BY <1>1, <1>4 DEF PathInv, PathTypeOK
  <1>9. Followed'
    <2>1. CASE "told" \in seen' \/ "lapsed" \in seen'  BY <2>1 DEF Followed
    <2>2. CASE late.stale /\ seen' = seen  BY <1>1, <2>2 DEF PathInv, Followed
    <2> QED  BY <1>4, <2>1, <2>2
  <1> QED  BY <1>5, <1>6, <1>7, <1>8, <1>9 DEF PathInv

\* What a disconnect does to a job and to a recovery.
LEMMA ClosedKeeps ==
  ASSUME PathConstants, PathInv, Closed, closes < MaxCloses
  PROVE  /\ job' \in {Nil} \cup JobRecords /\ late' \in {Nil} \cup LateRecords
         /\ active' = FALSE /\ canWrite' = FALSE /\ closes' \in 0..MaxCloses
         /\ job = Nil <=> job' = Nil
         /\ job # Nil => /\ (job').at = job.at /\ (job').id = job.id /\ (job').path = job.path
                         /\ (job').strict = job.strict
  <1>1. /\ job \in {Nil} \cup JobRecords /\ late \in {Nil} \cup LateRecords
        /\ closes \in 0..MaxCloses /\ MaxCloses \in Nat
    BY DEF PathInv, PathTypeOK, PathConstants
  <1>2. /\ active' = FALSE /\ canWrite' = FALSE /\ closes' = closes + 1
        /\ job' = (IF job # Nil /\ job.at \in Waiting THEN [job EXCEPT !.stale = TRUE] ELSE job)
        /\ late' = (IF late = Nil THEN late ELSE [late EXCEPT !.stale = TRUE])
    BY DEF Closed
  <1>3. closes' \in 0..MaxCloses  BY <1>1, <1>2
  <1>4. late' \in {Nil} \cup LateRecords
    <2>1. CASE late = Nil  BY <1>2, <2>1
    <2>2. CASE late \in LateRecords  BY <1>2, <2>2 DEF LateRecords
    <2> QED  BY <1>1, <2>1, <2>2
  <1>5. CASE job # Nil /\ job.at \in Waiting
    <2>1. job \in JobRecords /\ job' = [job EXCEPT !.stale = TRUE]  BY <1>1, <1>2, <1>5
    <2>2. /\ job' \in JobRecords /\ (job').at = job.at /\ (job').id = job.id /\ (job').path = job.path
          /\ (job').strict = job.strict
      BY <2>1, JobStale
    <2>3. job' # Nil  BY <2>2 DEF PathConstants
    <2> QED  BY <1>2, <1>3, <1>4, <1>5, <2>2, <2>3
  <1>6. CASE ~(job # Nil /\ job.at \in Waiting)
    <2>1. job' = job  BY <1>2, <1>6
    <2> QED  BY <1>1, <1>2, <1>3, <1>4, <2>1
  <1> QED  BY <1>5, <1>6

\* The job stays where it is: what is said of it and of the tokens stays too.
LEMMA SameJob ==
  ASSUME PathInv, UNCHANGED <<begun, succeeded, profile, saved, store, token>>,
         job = Nil <=> job' = Nil,
         job # Nil => /\ (job').at = job.at /\ (job').id = job.id /\ (job').path = job.path
                     /\ (job').strict = job.strict,
         seen' = seen, leave' = leave \/ (leave' # "cleared" /\ leave # "cleared")
  PROVE  /\ OnPath' /\ JobIsLast' /\ ProfileToken' /\ StoredSame' /\ ClearedStore' /\ MadeAndLeft'
         /\ SavedOwn' /\ SuccessOwn'
  <1>1. OnPath'  BY DEF PathInv, OnPath, Ats
  <1>2. JobIsLast'  BY DEF PathInv, JobIsLast
  <1>3. ProfileToken' /\ SuccessOwn'  BY DEF PathInv, ProfileToken, SuccessOwn, Raced
  <1>4. Halfway' <=> Halfway  BY DEF Halfway
  <1>5. StoredSame' /\ ClearedStore'  BY <1>4 DEF PathInv, StoredSame, ClearedStore, Raced
  <1>6. MadeAndLeft'  BY DEF PathInv, MadeAndLeft, Raced
  <1>7. SavedOwn'  BY DEF PathInv, SavedOwn, Raced
  <1> QED  BY <1>1, <1>2, <1>3, <1>5, <1>6, <1>7

LEMMA DisconnectsKeeps ==
  ASSUME PathConstants, PathInv, Disconnect \/ LeaveDisconnects
  PROVE  PathInv'
  <1>1. /\ UNCHANGED <<begun, succeeded, profile, saved, store, token, seen>>
        /\ profile \/ active
        /\ leave' = leave \/ (leave = Nil /\ leave' = "disconnected")
        /\ \/ closes < MaxCloses /\ Closed
           \/ UNCHANGED <<job, late, active, canWrite, closes>>
    BY DEF Disconnect, LeaveDisconnects
  <1>2. /\ job' \in {Nil} \cup JobRecords /\ late' \in {Nil} \cup LateRecords
        /\ active' \in BOOLEAN /\ canWrite' \in BOOLEAN /\ closes' \in 0..MaxCloses
        /\ job = Nil <=> job' = Nil
        /\ job # Nil => /\ (job').at = job.at /\ (job').id = job.id /\ (job').path = job.path
                        /\ (job').strict = job.strict
        /\ active' = FALSE \/ (active' = active /\ late' = late)
    BY <1>1, ClosedKeeps DEF PathInv, PathTypeOK
  <1>3. leave' = leave \/ (leave' # "cleared" /\ leave # "cleared")
    BY <1>1 DEF PathConstants
  <1>4. /\ OnPath' /\ JobIsLast' /\ ProfileToken' /\ StoredSame' /\ ClearedStore' /\ MadeAndLeft'
        /\ SavedOwn' /\ SuccessOwn'
    BY <1>1, <1>2, <1>3, SameJob
  <1>5. Making'  BY <1>1, <1>2 DEF PathInv, Making
  <1>6. PathTypeOK'  BY <1>1, <1>2 DEF PathInv, PathTypeOK
  <1>7. Followed'  BY <1>1, <1>2 DEF PathInv, Followed
  <1> QED  BY <1>4, <1>5, <1>6, <1>7 DEF PathInv

LEMMA WritersChangeKeeps ==
  ASSUME PathConstants, PathInv, WritersChange
  PROVE  PathInv'
  <1>1. /\ canWrite' \in BOOLEAN
        /\ UNCHANGED <<job, begun, succeeded, active, profile, saved, store, late, leave, token, closes, seen>>
    BY DEF WritersChange
  <1>2. /\ OnPath' /\ JobIsLast' /\ ProfileToken' /\ StoredSame' /\ ClearedStore' /\ MadeAndLeft'
        /\ SavedOwn' /\ SuccessOwn'
    BY <1>1, SameJob
  <1>3. Making' /\ PathTypeOK' /\ Followed'  BY <1>1 DEF PathInv, Making, PathTypeOK, Followed
  <1> QED  BY <1>2, <1>3 DEF PathInv

\* A profile made without a token, while a job is past saving its own, is the
\* race that `seen` tells of.
LEMMA JoinCommandKeeps ==
  ASSUME PathConstants, PathInv, JoinCommand
  PROVE  PathInv'
  <1>1. /\ job # Nil => job.at # "make"
        /\ active' = TRUE /\ profile' = TRUE /\ canWrite' \in BOOLEAN
        /\ seen' = (seen \ OfInstance) \cup IF ~profile /\ PastSaving THEN {"raced"} ELSE {}
        /\ succeeded' = IF profile THEN succeeded ELSE Nil
        /\ UNCHANGED <<job, begun, saved, store, late, leave, token, closes>>
    BY DEF JoinCommand, Opened
  <1>2. /\ (Raced => Raced') /\ (~profile /\ PastSaving => Raced') /\ (profile => (Raced' <=> Raced))
        /\ (~profile /\ ~PastSaving => (Raced' <=> Raced))
        /\ "owed" \notin seen' /\ seen' \subseteq Seen
        /\ "retold" \in seen' <=> "retold" \in seen
    BY <1>1 DEF Raced, OfInstance, Seen, PathInv, PathTypeOK
  <1>3. OnPath' /\ ProfileToken' /\ Making' /\ MadeAndLeft' /\ Followed'
    BY <1>1, <1>2 DEF PathInv, OnPath, ProfileToken, Making, MadeAndLeft, Followed
  <1>4. JobIsLast' /\ SuccessOwn'
    <2>1. CASE profile
      BY <1>1, <1>2, <2>1 DEF PathInv, JobIsLast, SuccessOwn
    <2>2. CASE ~profile
      <3>1. Nil # begun  BY DEF PathInv, PathTypeOK, PathConstants, Tokens
      <3> QED  BY <1>1, <2>2, <3>1 DEF PathInv, JobIsLast, SuccessOwn
    <2> QED  BY <2>1, <2>2
  <1>5. StoredSame' /\ ClearedStore'
    BY <1>1, <1>2 DEF PathInv, StoredSame, ClearedStore, Halfway
  <1>6. SavedOwn'
    <2>1. CASE profile  BY <1>1, <1>2, <2>1 DEF PathInv, SavedOwn
    <2>2. CASE ~profile
      <3>1. job # Nil /\ job.at \in PastAts \cup {"store again", "wait again"} => PastSaving
        BY DEF PastSaving, PastAts
      <3> QED  BY <1>1, <1>2, <2>2, <3>1 DEF SavedOwn
    <2> QED  BY <2>1, <2>2
  <1>7. PathTypeOK'  BY <1>1, <1>2 DEF PathInv, PathTypeOK
  <1> QED  BY <1>3, <1>4, <1>5, <1>6, <1>7 DEF PathInv

LEMMA LeaveKeeps ==
  ASSUME PathConstants, PathInv, LeaveStep
  PROVE  PathInv'
  <1>1. Nil # "cleared" /\ Nil # "disconnected"  BY DEF PathConstants
  <1>2. Nil # begun  BY DEF PathInv, PathTypeOK, PathConstants, Tokens
  <1>3. UNCHANGED <<job, begun, active, canWrite, late, token, closes, seen>>
    BY DEF LeaveStep, LeaveClears, LeaveRemoves
  <1>4. OnPath' /\ Followed'  BY <1>3 DEF PathInv, OnPath, Followed
  <1>5. CASE LeaveClears
    <2>1. leave = "disconnected" /\ leave' = "cleared" /\ store' = Nil /\ UNCHANGED <<succeeded, profile, saved>>
      BY <1>5 DEF LeaveClears
    <2>2. JobIsLast' /\ ProfileToken' /\ SavedOwn' /\ SuccessOwn'
      BY <1>3, <2>1 DEF PathInv, JobIsLast, ProfileToken, SavedOwn, SuccessOwn, Raced
    <2>3. Making' /\ StoredSame' /\ ClearedStore' /\ MadeAndLeft'
      BY <1>1, <1>3, <2>1 DEF PathInv, Making, StoredSame, ClearedStore, MadeAndLeft
    <2>4. PathTypeOK'  BY <1>3, <2>1 DEF PathInv, PathTypeOK
    <2> QED  BY <1>4, <2>2, <2>3, <2>4 DEF PathInv
  <1>6. CASE LeaveRemoves
    <2>1. /\ leave = "cleared" /\ leave' = Nil /\ profile' = FALSE /\ saved' = Nil /\ succeeded' = Nil
          /\ store' = store
      BY <1>6 DEF LeaveRemoves
    <2>2. ~Raced => store = Nil  BY <2>1 DEF PathInv, ClearedStore
    <2>3. JobIsLast' /\ ProfileToken' /\ SavedOwn' /\ SuccessOwn'
      BY <1>2, <1>3, <2>1 DEF PathInv, JobIsLast, ProfileToken, SavedOwn, SuccessOwn
    <2>4. Making' /\ StoredSame' /\ ClearedStore' /\ MadeAndLeft'
      BY <1>1, <1>3, <2>1, <2>2 DEF PathInv, Making, StoredSame, ClearedStore, MadeAndLeft, Raced
    <2>5. PathTypeOK'  BY <1>3, <2>1 DEF PathInv, PathTypeOK
    <2> QED  BY <1>4, <2>3, <2>4, <2>5 DEF PathInv
  <1> QED  BY <1>5, <1>6 DEF LeaveStep

LEMMA PathStarts ==
  ASSUME PathConstants, PathInit
  PROVE  PathInv
  <1>1. /\ job = Nil /\ begun = 0 /\ succeeded = Nil /\ active \in BOOLEAN /\ canWrite = FALSE
        /\ profile \in BOOLEAN /\ saved = (IF profile THEN 0 ELSE Nil) /\ store = saved /\ late = Nil
        /\ leave = Nil /\ token = saved /\ closes = 0 /\ seen = {}
    BY DEF PathInit
  <1>2. 0 \in 0..MaxJobs /\ 0 \in 0..MaxCloses  BY DEF PathConstants
  <1>3. PathTypeOK  BY <1>1, <1>2 DEF PathTypeOK, Tokens
  <1>4. Nil # "cleared"  BY DEF PathConstants
  <1>5. /\ OnPath /\ JobIsLast /\ ProfileToken /\ Making /\ StoredSame /\ ClearedStore /\ MadeAndLeft
        /\ SavedOwn /\ SuccessOwn /\ Followed
    BY <1>1, <1>4 DEF OnPath, JobIsLast, ProfileToken, Making, StoredSame, ClearedStore, MadeAndLeft,
                      SavedOwn, SuccessOwn, Followed
  <1> QED  BY <1>3, <1>5 DEF PathInv

LEMMA PathSteps ==
  ASSUME PathConstants, PathInv, [PathNext]_pathVars
  PROVE  PathInv'
  <1>1. CASE PathNext
    <2>1. CASE \E path \in Paths, expects, strict \in BOOLEAN : Begin(path, expects, strict)
      BY <2>1, BeginKeeps
    <2>2. CASE JobStep
      BY <2>2, GoesOnKeeps, FailsKeeps, PreseedKeeps, SaveTokenKeeps, StoreTokenKeeps, OpenRelayKeeps,
         CreateKeeps, WaitEndsKeeps, SucceedsKeeps DEF JobStep
    <2>3. CASE LateStep  BY <2>3, LateKeeps DEF LateStep
    <2>4. CASE LeaveStep  BY <2>4, LeaveKeeps
    <2>5. CASE LeaveDisconnects \/ Disconnect  BY <2>5, DisconnectsKeeps
    <2>6. CASE JoinCommand  BY <2>6, JoinCommandKeeps
    <2>7. CASE WritersChange  BY <2>7, WritersChangeKeeps
    <2> QED  BY <1>1, <2>1, <2>2, <2>3, <2>4, <2>5, <2>6, <2>7 DEF PathNext
  <1>2. CASE UNCHANGED pathVars
    <2>1. UNCHANGED <<job, begun, succeeded, active, canWrite, profile, saved, store, late, leave, token, closes, seen>>
      BY <1>2 DEF pathVars
    <2>2. /\ OnPath' /\ JobIsLast' /\ ProfileToken' /\ StoredSame' /\ ClearedStore' /\ MadeAndLeft'
          /\ SavedOwn' /\ SuccessOwn'
      BY <2>1, SameJob
    <2>3. Making' /\ PathTypeOK' /\ Followed'  BY <2>1 DEF PathInv, Making, PathTypeOK, Followed
    <2> QED  BY <2>2, <2>3 DEF PathInv
  <1> QED  BY <1>1, <1>2

LEMMA PathsKeep ==
  ASSUME PathConstants
  PROVE  PathSpec => []PathInv
  <1>1. PathInit => PathInv  BY PathStarts
  <1>2. PathInv /\ [PathNext]_pathVars => PathInv'  BY PathSteps
  <1> QED  BY <1>1, <1>2, PTL DEF PathSpec

LEMMA PathInvGives ==
  ASSUME PathConstants, PathInv
  PROVE  PathTypeOK /\ Followed /\ TokensAgree
  <1>1. CASE job = Nil /\ leave = Nil /\ ~Raced
    <2>1. ~Halfway  BY <1>1 DEF Halfway
    <2>2. saved = store  BY <1>1, <2>1 DEF PathInv, StoredSame, PathConstants
    <2> QED  BY <1>1, <2>1, <2>2 DEF PathInv, SuccessOwn, TokensAgree, Raced
  <1>2. CASE ~(job = Nil /\ leave = Nil /\ ~Raced)
    BY <1>2 DEF PathInv, TokensAgree, Raced
  <1> QED  BY <1>1, <1>2

-----------------------------------------------------------------------------
(* The connections                                                            *)

LEMMA ConnectionsInv ==
  ASSUME ConnectionsConstants
  PROVE  ConnectionsSpec => []IInv /\ []PeerInv /\ []RegistrationInv /\ []PathInv
  <1>1. Spec => []IInv  BY Invariance
  <1>2. PeersSpec => []PeerInv  BY PeersAlways DEF ConnectionsConstants
  <1>3. RegistrationSpec => []RegistrationInv  BY RegistrationKeeps DEF ConnectionsConstants
  <1>4. PathSpec => []PathInv  BY PathsKeep DEF ConnectionsConstants
  <1> QED  BY <1>1, <1>2, <1>3, <1>4 DEF ConnectionsSpec

(* Every variable of the connections has its type.                            *)
THEOREM ConnectionsTyped ==
  ASSUME ConnectionsConstants
  PROVE  ConnectionsSpec => []ConnectionsTypeOK
  <1>1. IInv => TypeOK  BY DEF IInv
  <1>2. PeerInv => PeersTypeOK  BY DEF PeerInv
  <1>3. RegistrationInv => RegistrationTypeOK  BY RegistrationInvGives
  <1>4. PathInv => PathTypeOK  BY DEF PathInv
  <1>5. IInv /\ PeerInv /\ RegistrationInv /\ PathInv => ConnectionsTypeOK
    BY <1>1, <1>2, <1>3, <1>4 DEF ConnectionsTypeOK
  <1> QED  BY <1>5, ConnectionsInv, PTL

(* The tables of the connections hold exactly what they should: the pending   *)
(* requests and the calls that wait for an answer, which is their own; the    *)
(* pending peers and the operations that wait for one; the gateway connection *)
(* and the connected peers, and the streams that are open.                    *)
THEOREM TablesExact ==
  ASSUME ConnectionsConstants
  PROVE  ConnectionsSpec => []TablesAreExact
  <1>1. IInv => OwnAnswer /\ MapIsExact  BY DEF IInv
  <1>2. PeerInv => PendingIsExact /\ GatewayIsLive /\ TracksPeer  BY DEF PeerInv
  <1>3. IInv /\ PeerInv => TablesAreExact  BY <1>1, <1>2 DEF TablesAreExact
  <1> QED  BY <1>3, ConnectionsInv, PTL

(* What was begun for a relay is not dropped: a registration is held once and *)
(* lost only when nothing could route it (registerWithGateway and             *)
(* processPendingRegistrations), a job that did not find the relay writable   *)
(* is followed up (scheduleLateWriterRecovery), and the profile and the auth  *)
(* store agree on the token that the last job told of.                        *)
THEOREM RelaysAreKept ==
  ASSUME ConnectionsConstants
  PROVE  ConnectionsSpec => []RelaysKept
  <1>1. RegistrationInv => HeldOnce /\ OnlyUnroutedLost  BY RegistrationInvGives
  <1>2. PathInv => Followed /\ TokensAgree  BY PathInvGives DEF ConnectionsConstants
  <1>3. RegistrationInv /\ PathInv => RelaysKept  BY <1>1, <1>2 DEF RelaysKept
  <1> QED  BY <1>3, ConnectionsInv, PTL
=============================================================================
