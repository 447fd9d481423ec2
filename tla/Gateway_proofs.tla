---------------------------- MODULE Gateway_proofs ----------------------------
(* Proofs about the pool of writers of closed relays (WriterPool) and about   *)
(* the gateway service (GatewayService), whatever the number of invitations,  *)
(* clients' subscriptions, calls and announcements, and whatever the bounds.  *)
(*                                                                            *)
(* The pool: no writer is dropped silently, in memory or on disk, none        *)
(* reaches two invitees but by an overlap that is named, the lock is exact,   *)
(* and none that has expired is handed out.  A call reads the pool, provisions *)
(* and writes back what it has read.  The invariant says what that is worth   *)
(* meanwhile: the call has all that the pool has (HeldBack), and of what it   *)
(* has besides, those that were handed out are known to be exposed (Copies);  *)
(* so are those of a file that was not read yet, which has no writer that     *)
(* memory has as well.                                                        *)
(*                                                                            *)
(* The service: the three parts share no state, and each has an invariant of  *)
(* its own, TokenInv, SocketInv, and SecretsVerified, which is inductive.     *)
EXTENDS GatewayService, FiniteSetTheorems, TLAPS

\* Which calls run for a command, and which has read the pool.
Began ==
  /\ \A c \in Claims : ensure[<<"claim", c>>].pc # "off" => claim[c] = "ensuring"
  /\ \A c \in Claims : ensure[<<"topup", c>>].pc # "off" => claim[c] = "done" /\ loaded # "no"
  /\ \A c \in Claims : claim[c] # "done" => got[c] = 0
  /\ \A e \in Calls : ensure[e].pc # "provision" => ensure[e].entries = {}
  /\ \A e \in Calls : ensure[e].pc = "provision" => loaded # "no"

\* What memory and disk hold: a change is flushed, and nothing is written
\* before the file was read.
Stored ==
  /\ timer = dirty
  /\ loaded # "yes" => writing = {}
  /\ loaded = "no" => ~timer
  /\ loaded # "yes" /\ ~timer => pool = {}
  /\ loaded = "yes" /\ ~timer => \A s \in writing : Prune(s) = Prune(pool)

\* A call that provisions has every writer of the pool it will replace.
HeldBack ==
  \A e \in Calls : ensure[e].pc = "provision" =>
    pool \subseteq ensure[e].entries \cup expired \cup lost

\* A writer that was handed out and is in a call, or in the file before it was
\* read, was exposed; the file has no writer that memory has as well.
Copies ==
  /\ \A e \in Calls : Handed \cap ensure[e].entries \subseteq exposed
  /\ loaded # "yes" =>
       /\ Handed \cap file \subseteq exposed
       /\ pool \cap file = {}
       /\ \A e \in Calls : ensure[e].entries \cap file = {}

IInv == TypeOK /\ PoolKept /\ Began /\ Stored /\ HeldBack /\ Copies

\* What a step has done that ended a call or resumed a command: p is the pool
\* it found or saved, en are the calls it left.
Settled(p, en) ==
  /\ ensure' \in [Calls -> Call']
  /\ \A e \in Calls : ensure'[e].entries = en[e].entries
  /\ \A e \in Calls : ensure'[e].pc # en[e].pc =>
       /\ en[e].pc = "off" /\ ensure'[e].pc = "profile"
       /\ e[1] = "topup" /\ claim'[e[2]] = "done"
  /\ claim' \in [Claims -> {"idle", "ensuring", "load", "direct", "done", "failed"}]
  /\ \A c \in Claims : claim'[c] # claim[c] =>
       claim[c] # "done" /\ en[<<"claim", c>>].pc = "off"
  /\ got' \in [Claims -> 0..made']
  /\ \A c \in Claims : got'[c] # got[c] =>
       /\ got[c] = 0 /\ claim'[c] = "done"
       /\ got'[c] \in Prune(p) /\ got'[c] \notin pool'
       /\ \A e \in Calls : got'[c] \in en[e].entries => got'[c] \in exposed'
  /\ \A c, d \in Claims : got'[c] # got[c] /\ got'[d] # got[d] => c = d
  /\ pool' \subseteq p /\ Prune(p) \subseteq pool' \cup Handed'
  /\ exposed \subseteq exposed' /\ exposed' \subseteq exposed \cup p
  /\ \/ pool' = pool /\ dirty' = dirty /\ timer' = timer
     \/ dirty' = TRUE /\ timer' = TRUE

\* What p and en have to be for the invariant to be kept.
Fits(p, en) ==
  /\ en \in [Calls -> Call']
  /\ \A e \in Calls : en[e] # ensure[e] => en[e].pc = "off" /\ en[e].entries = {}
  /\ lock' \in BOOLEAN
  /\ lock' <=> \E e \in Calls : en[e].pc \in {"load", "provision"}
  /\ made' \in 0..MaxWriters /\ made <= made'
  /\ p \subseteq 1..made' /\ 1..made' \subseteq Writers \cup Prune(p)
  /\ pool \subseteq p \cup expired \cup lost'
  /\ \A e \in Calls :
       ensure[e].entries \subseteq en[e].entries \cup p \cup pool \cup Handed \cup expired \cup lost'
  /\ \A e \in Calls : en[e].pc = "provision" => p \subseteq en[e].entries \cup expired \cup lost'
  /\ Handed \cap p \subseteq exposed
  /\ lost \subseteq lost' /\ lost' \subseteq 1..made'
  /\ loaded # "no" /\ (loaded # "yes" => p \cap file = {})
  /\ UNCHANGED <<loaded, disk, expired, restarts>>

-----------------------------------------------------------------------------
(* Calls *)

LEMMA CallsAre ==
  /\ \A c \in Claims : <<"claim", c>> \in Calls /\ <<"topup", c>> \in Calls
  /\ \A c \in Claims : <<"claim", c>>[1] = "claim" /\ <<"claim", c>>[2] = c
  /\ \A c \in Claims : <<"topup", c>>[1] = "topup" /\ <<"topup", c>>[2] = c
  /\ \A e \in Calls : e[2] \in Claims /\ (e = <<"claim", e[2]>> \/ e = <<"topup", e[2]>>)
  /\ \A e \in Calls : e[1] = "claim" => e = <<"claim", e[2]>>
  /\ \A e \in Calls : e[1] # "claim" => e = <<"topup", e[2]>> /\ e[1] = "topup"
  /\ \A c, d \in Claims : <<"claim", c>> # <<"topup", d>>
  BY DEF Calls

LEMMA CardinalityOfRest ==
  ASSUME NEW n \in Nat, NEW s \in SUBSET (1..n)  PROVE Cardinality(s) \in Nat
  <1>1. 1 \in Int /\ n \in Int  OBVIOUS
  <1>2. IsFiniteSet(1..n)  BY ONLY <1>1, FS_Interval
  <1>3. s \subseteq 1..n  OBVIOUS
  <1>4. IsFiniteSet(s)  BY ONLY <1>2, <1>3, FS_Subset
  <1> QED  BY ONLY <1>4, FS_CardinalityType

\* What the rest of a command does, whatever pool it finds.
LEMMA TakeSettles ==
  ASSUME TypeOK, Began, NEW c \in Claims, NEW p, NEW en, Take(c, p, en),
         made' \in Nat, made <= made', p \subseteq 1..made', en \in [Calls -> Call'],
         claim[c] # "done", en[<<"claim", c>>].pc = "off",
         en[<<"topup", c>>].pc = "off", en[<<"topup", c>>].entries = {}
  PROVE  Settled(p, en)
  <1> USE CallsAre
  <1>0. /\ got \in [Claims -> 0..made] /\ made \in Nat /\ got[c] = 0
        /\ claim \in [Claims -> {"idle", "ensuring", "load", "direct", "done", "failed"}]
        /\ Prune(p) \subseteq p
    BY PoolConstants DEF TypeOK, Began, Prune
  <1>1. CASE /\ Prune(p) = {}
             /\ claim' = [claim EXCEPT ![c] = "direct"]
             /\ SetIfChanged(Prune(p))
             /\ ensure' = en
             /\ UNCHANGED <<got, exposed>>
    <2>1. got' = got /\ exposed' = exposed /\ got' \in [Claims -> 0..made']  BY <1>0, <1>1
    <2>2. /\ pool' \subseteq p /\ Prune(p) \subseteq pool' \cup Handed'
          /\ \/ pool' = pool /\ dirty' = dirty /\ timer' = timer
             \/ dirty' = TRUE /\ timer' = TRUE
      BY <1>0, <1>1 DEF SetIfChanged, Set
    <2>3. /\ claim' \in [Claims -> {"idle", "ensuring", "load", "direct", "done", "failed"}]
          /\ \A d \in Claims : claim'[d] # claim[d] =>
               claim[d] # "done" /\ en[<<"claim", d>>].pc = "off"
      BY <1>0, <1>1
    <2>4. ensure' \in [Calls -> Call'] /\ ensure' = en  BY <1>1
    <2> QED  BY <2>1, <2>2, <2>3, <2>4 DEF Settled
  <1>2. CASE \E head \in First(Prune(p)) :
               /\ claim' = [claim EXCEPT ![c] = "done"]
               /\ got' = [got EXCEPT ![c] = head]
               /\ Set(Rest(Prune(p), head))
               /\ exposed' = exposed \cup ({head} \cap UNION {en[e].entries : e \in Calls})
               /\ ensure' = IF Cardinality(Rest(Prune(p), head)) < Target
                              THEN [en EXCEPT ![<<"topup", c>>] =
                                      [pc |-> "profile",
                                       needed |-> Target - Cardinality(Rest(Prune(p), head)),
                                       entries |-> {}]]
                              ELSE en
    <2>1. PICK head \in First(Prune(p)) :
               /\ claim' = [claim EXCEPT ![c] = "done"]
               /\ got' = [got EXCEPT ![c] = head]
               /\ Set(Rest(Prune(p), head))
               /\ exposed' = exposed \cup ({head} \cap UNION {en[e].entries : e \in Calls})
               /\ ensure' = IF Cardinality(Rest(Prune(p), head)) < Target
                              THEN [en EXCEPT ![<<"topup", c>>] =
                                      [pc |-> "profile",
                                       needed |-> Target - Cardinality(Rest(Prune(p), head)),
                                       entries |-> {}]]
                              ELSE en
      BY <1>2
    <2>2. /\ head \in Prune(p) /\ head \in p /\ head \in 1..made' /\ head # 0
          /\ Rest(Prune(p), head) = Prune(p) \ {head}
      <3>1. head \in Prune(p)  BY <2>1 DEF First
      <3>2. head \in 1..made'  BY <1>0, <3>1
      <3> QED  BY <1>0, <3>1, <3>2 DEF Rest
    <2>3. /\ got' \in [Claims -> 0..made'] /\ got'[c] = head
          /\ \A d \in Claims : d # c => got'[d] = got[d]
      BY <1>0, <2>1, <2>2
    <2>4. head \in Handed'  BY <2>2, <2>3 DEF Handed
    <2>5. /\ pool' = Prune(p) \ {head} /\ dirty' = TRUE /\ timer' = TRUE
      BY <2>1, <2>2 DEF Set
    <2>6. /\ pool' \subseteq p /\ Prune(p) \subseteq pool' \cup Handed' /\ head \notin pool'
      BY <1>0, <2>4, <2>5
    <2>7. /\ exposed \subseteq exposed' /\ exposed' \subseteq exposed \cup p
          /\ \A e \in Calls : head \in en[e].entries => head \in exposed'
      BY <2>1, <2>2
    <2>8. /\ claim' \in [Claims -> {"idle", "ensuring", "load", "direct", "done", "failed"}]
          /\ \A d \in Claims : claim'[d] # claim[d] =>
               claim[d] # "done" /\ en[<<"claim", d>>].pc = "off"
          /\ claim'[c] = "done"
      BY <1>0, <2>1
    <2> DEFINE n == Target - Cardinality(Rest(Prune(p), head))
               topup == [pc |-> "profile", needed |-> n, entries |-> {}]
    <2>9. Cardinality(Rest(Prune(p), head)) \in Nat
      <3>1. Rest(Prune(p), head) \in SUBSET (1..made')  BY <1>0, <2>2
      <3> QED  BY <3>1, CardinalityOfRest
    <2>10. Cardinality(Rest(Prune(p), head)) < Target => topup \in Call'
      <3>1. Cardinality(Rest(Prune(p), head)) < Target => n \in 0..Target
        BY <2>9, PoolConstants
      <3> QED  BY <3>1 DEF Call
    <2>11. ensure' = en \/ (topup \in Call' /\ ensure' = [en EXCEPT ![<<"topup", c>>] = topup])
      BY <2>1, <2>10
    <2> HIDE DEF n
    <2>12. /\ ensure' \in [Calls -> Call']
           /\ \A e \in Calls : ensure'[e].entries = en[e].entries
           /\ \A e \in Calls : ensure'[e].pc # en[e].pc =>
                /\ en[e].pc = "off" /\ ensure'[e].pc = "profile"
                /\ e[1] = "topup" /\ claim'[e[2]] = "done"
      <3>1. CASE ensure' = en  BY <3>1
      <3>2. CASE topup \in Call' /\ ensure' = [en EXCEPT ![<<"topup", c>>] = topup]
        <4>1. topup.pc = "profile" /\ topup.entries = {}  OBVIOUS
        <4> HIDE DEF topup
        <4>2. ensure' \in [Calls -> Call']  BY <3>2
        <4>3. \A e \in Calls : ensure'[e] = IF e = <<"topup", c>> THEN topup ELSE en[e]
          BY <3>2
        <4>4. <<"topup", c>>[1] = "topup" /\ claim'[<<"topup", c>>[2]] = "done"  BY <2>8
        <4>5. ASSUME NEW e \in Calls
              PROVE  /\ ensure'[e].entries = en[e].entries
                     /\ ensure'[e].pc # en[e].pc =>
                          /\ en[e].pc = "off" /\ ensure'[e].pc = "profile"
                          /\ e[1] = "topup" /\ claim'[e[2]] = "done"
          <5>1. CASE e = <<"topup", c>>
            <6>1. ensure'[e] = topup  BY <4>3, <5>1
            <6>2. en[e].pc = "off" /\ en[e].entries = {}  BY <5>1
            <6>3. e[1] = "topup" /\ claim'[e[2]] = "done"  BY <4>4, <5>1
            <6> QED  BY <4>1, <6>1, <6>2, <6>3
          <5>2. CASE e # <<"topup", c>>  BY <4>3, <5>2
          <5> QED  BY <5>1, <5>2
        <4> QED  BY <4>2, <4>5
      <3> QED  BY <2>11, <3>1, <3>2
    <2> QED  BY <1>0, <2>2, <2>3, <2>5, <2>6, <2>7, <2>8, <2>12 DEF Settled
  <1> QED  BY <1>1, <1>2 DEF Take

\* So does the end of a call.
LEMMA ReturnSettles ==
  ASSUME TypeOK, Began, NEW e \in Calls, NEW p, Return(e, p), ensure[e].pc # "off",
         made' \in Nat, made <= made', p \subseteq 1..made'
  PROVE  /\ [ensure EXCEPT ![e] = NoCall] \in [Calls -> Call']
         /\ Settled(p, [ensure EXCEPT ![e] = NoCall])
  <1> DEFINE en == [ensure EXCEPT ![e] = NoCall]
  <1> USE CallsAre
  <1>1. ensure \in [Calls -> Call] /\ Call \subseteq Call' /\ NoCall \in Call'
    <2>1. Writers \subseteq Writers'  BY PoolConstants DEF TypeOK, Writers
    <2>2. ensure \in [Calls -> Call] /\ Call \subseteq Call'  BY <2>1 DEF TypeOK, Call
    <2>3. NoCall \in Call'  BY PoolConstants DEF NoCall, Call
    <2> QED  BY <2>2, <2>3
  <1>2. en \in [Calls -> Call']  BY <1>1
  <1>3. en[e].pc = "off" /\ en[e].entries = {} /\ \A f \in Calls : f # e => en[f] = ensure[f]
    BY <1>1 DEF NoCall
  <1>4. CASE e[1] = "claim"
    <2>1. Take(e[2], p, en)  BY <1>4 DEF Return
    <2>2. claim[e[2]] = "ensuring"  BY <1>4 DEF Began
    <2>3. en[<<"topup", e[2]>>].pc = "off" /\ en[<<"topup", e[2]>>].entries = {}
      BY <1>3, <1>4, <2>2 DEF Began
    <2>4. en[<<"claim", e[2]>>].pc = "off" /\ e[2] \in Claims  BY <1>3, <1>4
    <2> HIDE DEF en
    <2>5. Settled(p, en)  BY <1>2, <2>1, <2>2, <2>3, <2>4, TakeSettles
    <2> QED  BY <1>2, <2>5 DEF en
  <1>5. CASE e[1] # "claim"
    <2>1. ensure' = en /\ SetIfChanged(p) /\ UNCHANGED <<claim, got, exposed>>
      BY <1>5 DEF Return
    <2>2. /\ pool' \subseteq p /\ Prune(p) \subseteq pool' \cup Handed'
          /\ \/ pool' = pool /\ dirty' = dirty /\ timer' = timer
             \/ dirty' = TRUE /\ timer' = TRUE
      BY <2>1 DEF SetIfChanged, Set, Prune
    <2>3. got' \in [Claims -> 0..made'] /\ got' = got /\ claim' = claim
          /\ claim' \in [Claims -> {"idle", "ensuring", "load", "direct", "done", "failed"}]
      BY <2>1, PoolConstants DEF TypeOK
    <2> HIDE DEF en
    <2>4. Settled(p, en)  BY <1>2, <2>1, <2>2, <2>3 DEF Settled
    <2> QED  BY <1>2, <2>4 DEF en
  <1> QED  BY <1>4, <1>5

-----------------------------------------------------------------------------
(* The invariant is kept by a step that ends a call or resumes a command      *)

LEMMA SettledHands ==
  ASSUME IInv, NEW p, NEW en, Fits(p, en), Settled(p, en)
  PROVE  /\ Handed \subseteq Handed'
         /\ \A x \in Handed' \ Handed : x \in Prune(p) /\ x \notin pool'
         /\ \A x \in Handed' \ Handed : \A e \in Calls : x \in en[e].entries => x \in exposed'
  <1>1. got \in [Claims -> 0..made] /\ got' \in [Claims -> 0..made']
    BY DEF IInv, TypeOK, Settled
  <1>2. ASSUME NEW c \in Claims, got[c] # 0  PROVE got'[c] = got[c]
    BY <1>2 DEF Settled
  <1>3. Handed \subseteq Handed'  BY <1>2 DEF Handed
  <1>4. ASSUME NEW x \in Handed' \ Handed
        PROVE  /\ x \in Prune(p) /\ x \notin pool'
               /\ \A e \in Calls : x \in en[e].entries => x \in exposed'
    <2>1. PICK c \in Claims : got'[c] = x /\ x # 0  BY DEF Handed
    <2>2. got'[c] # got[c]  BY <2>1 DEF Handed
    <2> QED  BY <2>1, <2>2 DEF Settled
  <1> QED  BY <1>3, <1>4

LEMMA SettledKeepsType ==
  ASSUME IInv, NEW p, NEW en, Fits(p, en), Settled(p, en)
  PROVE  TypeOK'
  <1> USE PoolConstants
  <1>1. made \in Nat /\ made' \in Nat /\ Writers \subseteq Writers' /\ Writers' = 1..made'
    BY DEF IInv, TypeOK, Fits, Writers
  <1>2. pool' \subseteq Writers' /\ exposed' \subseteq Writers'
    BY <1>1 DEF IInv, TypeOK, Fits, Settled
  <1>3. file' \subseteq Writers' /\ expired' \subseteq Writers' /\ lost' \subseteq Writers'
    BY <1>1 DEF IInv, TypeOK, Fits, disk
  <1>4. \A s, t \in writing' : s \subseteq Writers' /\ s = t
    BY <1>1 DEF IInv, TypeOK, Fits, disk
  <1>5. dirty' \in BOOLEAN /\ timer' \in BOOLEAN
    BY DEF IInv, TypeOK, Settled
  <1>6. /\ loaded' \in {"no", "reading", "yes"} /\ made' \in 0..MaxWriters
        /\ lock' \in BOOLEAN /\ unsaved' \in BOOLEAN /\ restarts' \in 0..MaxRestarts
    BY DEF IInv, TypeOK, Fits, disk
  <1>7. /\ ensure' \in [Calls -> Call'] /\ got' \in [Claims -> 0..made']
        /\ claim' \in [Claims -> {"idle", "ensuring", "load", "direct", "done", "failed"}]
    BY DEF Settled
  <1> QED  BY <1>2, <1>3, <1>4, <1>5, <1>6, <1>7 DEF TypeOK

LEMMA SettledKeepsCalls ==
  ASSUME IInv, NEW p, NEW en, Fits(p, en), Settled(p, en)
  PROVE  LockIsExact' /\ Began' /\ HeldBack'
  <1> USE CallsAre
  <1>1. ASSUME NEW e \in Calls, ensure'[e].pc \in {"load", "provision"}
        PROVE  en[e] = ensure[e] /\ ensure'[e].pc = ensure[e].pc
    BY <1>1 DEF Settled, Fits
  <1>2. ASSUME NEW e \in Calls, en[e].pc \in {"load", "provision"}
        PROVE  ensure'[e].pc = en[e].pc /\ ensure[e] = en[e]
    BY <1>2 DEF Settled, Fits
  <1>3. LockIsExact'
    <2>1. \A e, f \in Calls : Holds(e)' /\ Holds(f)' => e = f
      BY <1>1 DEF Holds, IInv, PoolKept, LockIsExact
    <2>2. lock' => \E e \in Calls : Holds(e)'
      BY <1>2 DEF Fits, Holds
    <2>3. \A e \in Calls : Holds(e)' => lock'
      BY <1>1 DEF Fits, Holds
    <2> QED  BY <2>1, <2>2, <2>3 DEF LockIsExact
  <1>4. ASSUME NEW c \in Claims, ensure'[<<"claim", c>>].pc # "off"
        PROVE  claim'[c] = "ensuring"
    <2>1. en[<<"claim", c>>].pc = ensure'[<<"claim", c>>].pc
      BY DEF Settled
    <2>2. en[<<"claim", c>>] = ensure[<<"claim", c>>]  BY <1>4, <2>1 DEF Fits
    <2> QED  BY <1>4, <2>1, <2>2 DEF Settled, IInv, Began
  <1>5. ASSUME NEW c \in Claims, ensure'[<<"topup", c>>].pc # "off"
        PROVE  claim'[c] = "done" /\ loaded' # "no"
    <2>1. loaded' # "no"  BY DEF Fits
    <2>2. CASE en[<<"topup", c>>].pc = ensure'[<<"topup", c>>].pc
      <3>1. en[<<"topup", c>>] = ensure[<<"topup", c>>]  BY <1>5, <2>2 DEF Fits
      <3>2. claim[c] = "done"  BY <1>5, <2>2, <3>1 DEF IInv, Began
      <3> QED  BY <2>1, <3>2 DEF Settled
    <2>3. CASE en[<<"topup", c>>].pc # ensure'[<<"topup", c>>].pc
      <3>1. claim'[<<"topup", c>>[2]] = "done"  BY <2>3 DEF Settled
      <3> QED  BY <2>1, <3>1
    <2> QED  BY <2>2, <2>3
  <1>6. ASSUME NEW c \in Claims, claim'[c] # "done"  PROVE got'[c] = 0
    <2>1. got'[c] = got[c]  BY <1>6 DEF Settled
    <2>2. claim[c] # "done"  BY <1>6 DEF Settled
    <2> QED  BY <2>1, <2>2 DEF IInv, Began
  <1>7. ASSUME NEW e \in Calls, ensure'[e].pc # "provision"  PROVE ensure'[e].entries = {}
    <2>1. ensure'[e].entries = en[e].entries  BY DEF Settled
    <2>2. CASE en[e] = ensure[e]
      <3>1. ensure[e].pc # "provision"
        BY <1>7, <2>2 DEF Settled
      <3> QED  BY <2>1, <2>2, <3>1 DEF IInv, Began
    <2>3. CASE en[e] # ensure[e]  BY <2>1, <2>3 DEF Fits
    <2> QED  BY <2>2, <2>3
  <1>8. Began'
    <2>1. loaded' # "no"  BY DEF Fits
    <2> QED  BY <1>4, <1>5, <1>6, <1>7, <2>1 DEF Began
  <1>9. ASSUME NEW e \in Calls, ensure'[e].pc = "provision"
        PROVE  pool' \subseteq ensure'[e].entries \cup expired' \cup lost'
    <2>1. en[e].pc = "provision" /\ ensure'[e].entries = en[e].entries
      BY <1>1, <1>9 DEF Settled
    <2> QED  BY <2>1 DEF Fits, Settled
  <1> QED  BY <1>3, <1>8, <1>9 DEF HeldBack

LEMMA SettledKeepsStore ==
  ASSUME IInv, NEW p, NEW en, Fits(p, en), Settled(p, en)
  PROVE  Stored' /\ Durable'
  <1> USE DEF IInv, PoolKept
  <1>1. UNCHANGED <<loaded, writing, file, unsaved, expired>>  BY DEF Fits, disk
  <1>2. CASE pool' = pool /\ dirty' = dirty /\ timer' = timer
    BY <1>1, <1>2 DEF Stored, Durable, Prune
  <1>3. CASE dirty' = TRUE /\ timer' = TRUE
    BY <1>1, <1>3 DEF Stored, Durable, Fits
  <1> QED  BY <1>2, <1>3 DEF Settled

LEMMA SettledKeepsWriters ==
  ASSUME IInv, NEW p, NEW en, Fits(p, en), Settled(p, en)
  PROVE  Accounted'
  <1>1. UNCHANGED <<loaded, file, expired>>  BY DEF Fits, disk
  <1>2. Prune(p) = p \ expired /\ p \subseteq pool' \cup Handed' \cup expired
    BY DEF Settled, Prune
  <1>3. pool \subseteq pool' \cup Handed' \cup expired \cup lost'
    BY <1>2 DEF Fits
  <1>4. Handed \subseteq Handed'  BY SettledHands
  <1>5. ASSUME NEW e \in Calls
        PROVE  ensure[e].entries \subseteq pool' \cup Handed' \cup InCalls' \cup expired \cup lost'
    <2>1. en[e].entries \subseteq InCalls'  BY DEF Settled, InCalls
    <2> QED  BY <1>2, <1>3, <1>4, <2>1 DEF Fits
  <1>6. InCalls \subseteq pool' \cup Handed' \cup InCalls' \cup expired \cup lost'
    BY <1>5 DEF InCalls
  <1>7. Writers' \subseteq Writers \cup pool' \cup Handed' \cup expired
    BY <1>2 DEF Fits, Writers
  <1>8. lost \subseteq lost'  BY DEF Fits
  <1> QED  BY <1>1, <1>3, <1>4, <1>6, <1>7, <1>8 DEF IInv, PoolKept, Accounted

LEMMA SettledKeepsCopies ==
  ASSUME IInv, NEW p, NEW en, Fits(p, en), Settled(p, en)
  PROVE  SharedOnlyIfExposed' /\ Copies'
  <1>1. UNCHANGED <<loaded, file>>  BY DEF Fits, disk
  <1>2. /\ exposed \subseteq exposed' /\ pool' \subseteq p /\ Prune(p) \subseteq p
        /\ Handed \cap p \subseteq exposed
    BY DEF Fits, Settled, Prune
  <1>3. Handed' \cap pool' \subseteq exposed'  BY <1>2, SettledHands
  <1>4. ASSUME NEW c \in Claims, NEW d \in Claims, c # d, got'[c] = got'[d], got'[c] # 0
        PROVE  got'[c] \in exposed'
    <2>1. CASE got'[c] # got[c] /\ got'[d] # got[d]  BY <1>4, <2>1 DEF Settled
    <2>2. CASE got'[c] # got[c] /\ got'[d] = got[d]
      <3>1. got'[c] \in p /\ got'[c] \in Handed  BY <1>2, <1>4, <2>2 DEF Settled, Handed
      <3> QED  BY <1>2, <3>1
    <2>3. CASE got'[c] = got[c] /\ got'[d] # got[d]
      <3>1. got'[d] \in p  BY <1>2, <2>3 DEF Settled
      <3>2. got[c] \in Handed /\ got'[d] = got[c]  BY <1>4, <2>3 DEF Handed
      <3> QED  BY <1>2, <1>4, <3>1, <3>2
    <2>4. CASE got'[c] = got[c] /\ got'[d] = got[d]
      BY <1>2, <1>4, <2>4 DEF IInv, PoolKept, SharedOnlyIfExposed
    <2> QED  BY <2>1, <2>2, <2>3, <2>4
  <1>5. ASSUME NEW e \in Calls
        PROVE  /\ ensure'[e].entries = en[e].entries
               /\ en[e].entries \subseteq ensure[e].entries
               /\ Handed' \cap ensure'[e].entries \subseteq exposed'
    <2>1. ensure'[e].entries = en[e].entries  BY DEF Settled
    <2>2. en[e].entries \subseteq ensure[e].entries  BY DEF Fits
    <2>3. Handed \cap ensure[e].entries \subseteq exposed  BY DEF IInv, Copies
    <2>4. \A x \in Handed' \ Handed : x \in en[e].entries => x \in exposed'  BY SettledHands
    <2> QED  BY <1>2, <2>1, <2>2, <2>3, <2>4
  <1>6. ASSUME loaded' # "yes"
        PROVE  /\ Handed' \cap file' \subseteq exposed'
               /\ pool' \cap file' = {}
               /\ \A e \in Calls : ensure'[e].entries \cap file' = {}
    <2>1. p \cap file = {}  BY <1>1, <1>6 DEF Fits
    <2>2. /\ Handed \cap file \subseteq exposed
          /\ \A e \in Calls : ensure[e].entries \cap file = {}
      BY <1>1, <1>6 DEF IInv, Copies
    <2>3. \A x \in Handed' \ Handed : x \in p  BY <1>2, SettledHands
    <2>4. Handed' \cap file \subseteq exposed'  BY <1>2, <2>1, <2>2, <2>3
    <2>5. pool' \cap file = {}  BY <1>2, <2>1
    <2>6. \A e \in Calls : ensure'[e].entries \cap file = {}  BY <1>5, <2>2
    <2> QED  BY <1>1, <2>4, <2>5, <2>6
  <1> QED  BY <1>3, <1>4, <1>5, <1>6 DEF SharedOnlyIfExposed, Copies

LEMMA SettledKeeps ==
  ASSUME IInv, NEW p, NEW en, Fits(p, en), Settled(p, en)
  PROVE  IInv'
  BY SettledKeepsType, SettledKeepsCalls, SettledKeepsStore, SettledKeepsWriters,
     SettledKeepsCopies DEF IInv, PoolKept

-----------------------------------------------------------------------------
(* The steps that end a call or resume a command                              *)

LEMMA TypeFacts ==
  ASSUME TypeOK
  PROVE  /\ made \in Nat /\ Writers = 1..made /\ made \in 0..MaxWriters
         /\ pool \subseteq 1..made /\ file \subseteq 1..made
         /\ expired \subseteq 1..made /\ exposed \subseteq 1..made /\ lost \subseteq 1..made
         /\ ensure \in [Calls -> Call]
         /\ \A e \in Calls : ensure[e].entries \subseteq 1..made
         /\ got \in [Claims -> 0..made] /\ Handed \subseteq 1..made
         /\ lock \in BOOLEAN /\ (made < MaxWriters => made + 1 \in 0..MaxWriters)
         /\ claim \in [Claims -> {"idle", "ensuring", "load", "direct", "done", "failed"}]
  <1>1. made \in Nat /\ Writers = 1..made /\ made \in 0..MaxWriters
        /\ (made < MaxWriters => made + 1 \in 0..MaxWriters)
    BY PoolConstants DEF TypeOK, Writers
  <1>2. got \in [Claims -> 0..made] /\ Handed \subseteq 1..made
    BY <1>1 DEF TypeOK, Handed
  <1> QED  BY <1>1, <1>2 DEF TypeOK, Call

LEMMA EndOfCall ==
  ASSUME IInv, NEW e \in Calls
  PROVE  /\ [ensure EXCEPT ![e] = NoCall][e].pc = "off"
         /\ [ensure EXCEPT ![e] = NoCall][e].entries = {}
         /\ \A f \in Calls : f # e => [ensure EXCEPT ![e] = NoCall][f] = ensure[f]
  BY DEF IInv, TypeOK, NoCall

LEMMA RefuseKeeps ==
  ASSUME IInv, NEW e \in Calls, Refuse(e), ~(e[1] = "claim" /\ loaded = "no")
  PROVE  IInv'
  <1> DEFINE en == [ensure EXCEPT ![e] = NoCall]
  <1>1. /\ ensure[e].pc = "profile" /\ Return(e, pool)
        /\ UNCHANGED <<loaded, disk, lock, made, expired, lost, restarts>>
    BY DEF Refuse
  <1>2. TypeOK /\ Began  BY DEF IInv
  <1>3. made' = made /\ made \in Nat /\ made <= made' /\ pool \subseteq 1..made'
    BY <1>1, <1>2, TypeFacts
  <1>4. en \in [Calls -> Call'] /\ Settled(pool, en)
    BY <1>1, <1>2, <1>3, ReturnSettles
  <1>5. /\ en[e].pc = "off" /\ en[e].entries = {}
        /\ \A f \in Calls : f # e => en[f] = ensure[f]
    BY EndOfCall
  <1> HIDE DEF en
  <1>6. ensure[e].entries = {}  BY <1>1, <1>2 DEF Began
  <1>7. loaded # "no"
    <2>1. CASE e[1] # "claim"  BY <1>1, <1>2, <2>1, CallsAre DEF Began
    <2>2. CASE e[1] = "claim"  BY <2>2
    <2> QED  BY <2>1, <2>2
  <1>8. lock' \in BOOLEAN /\ (lock' <=> \E f \in Calls : en[f].pc \in {"load", "provision"})
    BY <1>1, <1>2, <1>5, TypeFacts DEF IInv, PoolKept, LockIsExact, Holds
  <1>9. Fits(pool, en)
    <2>1. /\ \A f \in Calls : en[f] # ensure[f] => en[f].pc = "off" /\ en[f].entries = {}
          /\ \A f \in Calls :
               ensure[f].entries \subseteq en[f].entries \cup pool \cup pool \cup Handed
                                             \cup expired \cup lost'
      BY <1>5, <1>6
    <2>2. /\ made' \in 0..MaxWriters
          /\ 1..made' \subseteq Writers \cup Prune(pool)
          /\ lost \subseteq lost' /\ lost' \subseteq 1..made'
      BY <1>1, <1>2, TypeFacts
    <2>3. \A f \in Calls : en[f].pc = "provision" => pool \subseteq en[f].entries \cup expired \cup lost'
      BY <1>1, <1>5 DEF IInv, HeldBack
    <2>4. Handed \cap pool \subseteq exposed /\ (loaded # "yes" => pool \cap file = {})
      BY DEF IInv, PoolKept, SharedOnlyIfExposed, Copies
    <2> QED  BY <1>1, <1>3, <1>4, <1>7, <1>8, <2>1, <2>2, <2>3, <2>4 DEF Fits
  <1> QED  BY <1>4, <1>9, SettledKeeps

LEMMA LoadedClaimKeeps ==
  ASSUME IInv, NEW c \in Claims, LoadedClaim(c)
  PROVE  IInv'
  <1> USE CallsAre
  <1>1. /\ claim[c] = "load" /\ loaded = "yes" /\ Take(c, pool, ensure)
        /\ UNCHANGED <<loaded, disk, lock, made, expired, lost, restarts>>
    BY DEF LoadedClaim
  <1>2. TypeOK /\ Began  BY DEF IInv
  <1>3. /\ made' = made /\ made \in Nat /\ made <= made' /\ pool \subseteq 1..made'
        /\ Writers' = Writers
    BY <1>1, <1>2, TypeFacts DEF Writers
  <1>4. ensure \in [Calls -> Call']  BY <1>2, <1>3, TypeFacts DEF Call
  <1>5. /\ ensure[<<"claim", c>>].pc = "off"
        /\ ensure[<<"topup", c>>].pc = "off" /\ ensure[<<"topup", c>>].entries = {}
    BY <1>1, <1>2 DEF Began
  <1>6. Settled(pool, ensure)
    BY <1>1, <1>2, <1>3, <1>4, <1>5, TakeSettles
  <1>7. lock' \in BOOLEAN /\ (lock' <=> \E f \in Calls : ensure[f].pc \in {"load", "provision"})
    BY <1>1, <1>2, TypeFacts DEF IInv, PoolKept, LockIsExact, Holds
  <1>8. Fits(pool, ensure)
    <2>1. /\ made' \in 0..MaxWriters
          /\ 1..made' \subseteq Writers \cup Prune(pool)
          /\ lost \subseteq lost' /\ lost' \subseteq 1..made'
      BY <1>1, <1>2, TypeFacts
    <2>2. \A f \in Calls : ensure[f].pc = "provision" =>
            pool \subseteq ensure[f].entries \cup expired \cup lost'
      BY <1>1 DEF IInv, HeldBack
    <2>3. Handed \cap pool \subseteq exposed /\ (loaded # "yes" => pool \cap file = {})
      BY DEF IInv, PoolKept, SharedOnlyIfExposed, Copies
    <2> QED  BY <1>1, <1>3, <1>4, <1>7, <2>1, <2>2, <2>3 DEF Fits
  <1> QED  BY <1>6, <1>8, SettledKeeps

LEMMA SaveKeeps ==
  ASSUME IInv, NEW e \in Calls, Save(e)
  PROVE  IInv'
  <1> DEFINE en == [ensure EXCEPT ![e] = NoCall]
             p == Prune(ensure[e].entries \cup {made'})
  <1>1. /\ ensure[e].pc = "provision" /\ made < MaxWriters /\ made' = made + 1
        /\ lock' = FALSE /\ Return(e, p)
        /\ UNCHANGED <<loaded, disk, expired, lost, restarts>>
    BY DEF Save
  <1>2. TypeOK /\ Began  BY DEF IInv
  <1>3. /\ made \in Nat /\ made' \in Nat /\ made <= made' /\ made' \in 0..MaxWriters
        /\ 1..made' = 1..made \cup {made'} /\ made' \notin 1..made /\ Writers = 1..made
    <2>1. made \in Nat /\ made + 1 \in 0..MaxWriters /\ Writers = 1..made
      BY <1>1, <1>2, TypeFacts
    <2> HIDE DEF p
    <2> QED  BY <1>1, <2>1
  <1>4. p = (ensure[e].entries \cup {made'}) \ expired /\ ensure[e].entries \subseteq 1..made
        /\ made' \notin expired /\ made' \notin Handed /\ made' \notin file
    BY <1>2, <1>3, TypeFacts DEF Prune
  <1> HIDE DEF p
  <1>5. p \subseteq 1..made' /\ made' \in p /\ Prune(p) = p  BY <1>3, <1>4 DEF Prune
  <1>6. en \in [Calls -> Call'] /\ Settled(p, en)
    BY <1>1, <1>2, <1>3, <1>5, ReturnSettles
  <1>7. /\ en[e].pc = "off" /\ en[e].entries = {}
        /\ \A f \in Calls : f # e => en[f] = ensure[f]
    BY EndOfCall
  <1> HIDE DEF en
  <1>8. \A f \in Calls : en[f].pc \notin {"load", "provision"}
    BY <1>1, <1>7 DEF IInv, PoolKept, LockIsExact, Holds
  <1>9. Fits(p, en)
    <2>1. /\ \A f \in Calls : en[f] # ensure[f] => en[f].pc = "off" /\ en[f].entries = {}
          /\ \A f \in Calls :
               ensure[f].entries \subseteq en[f].entries \cup p \cup pool \cup Handed
                                             \cup expired \cup lost'
      BY <1>4, <1>7
    <2>2. /\ 1..made' \subseteq Writers \cup Prune(p)
          /\ lost \subseteq lost' /\ lost' \subseteq 1..made'
      BY <1>1, <1>2, <1>3, <1>5, TypeFacts
    <2>3. pool \subseteq p \cup expired \cup lost'
      BY <1>1, <1>4 DEF IInv, HeldBack
    <2>4. Handed \cap p \subseteq exposed /\ (loaded # "yes" => p \cap file = {})
      BY <1>4 DEF IInv, Copies
    <2>5. loaded # "no"  BY <1>1, <1>2 DEF Began
    <2>6. lock' \in BOOLEAN /\ (lock' <=> \E f \in Calls : en[f].pc \in {"load", "provision"})
      BY <1>1, <1>8
    <2>7. \A f \in Calls : en[f].pc = "provision" => p \subseteq en[f].entries \cup expired \cup lost'
      BY <1>8
    <2> QED
      BY <1>1, <1>3, <1>5, <1>6, <2>1, <2>2, <2>3, <2>4, <2>5, <2>6, <2>7 DEF Fits
  <1> QED  BY <1>6, <1>9, SettledKeeps

LEMMA FailKeeps ==
  ASSUME IInv, NEW e \in Calls, Fail(e)
  PROVE  IInv'
  <1> DEFINE en == [ensure EXCEPT ![e] = NoCall]
  <1>1. /\ ensure[e].pc = "provision" /\ lock' = FALSE /\ Return(e, pool)
        /\ lost' = lost \cup (ensure[e].entries \ (pool \cup Handed))
        /\ UNCHANGED <<loaded, disk, made, expired, restarts>>
    BY DEF Fail
  <1>2. TypeOK /\ Began  BY DEF IInv
  <1>3. made' = made /\ made \in Nat /\ made <= made' /\ pool \subseteq 1..made'
    BY <1>1, <1>2, TypeFacts
  <1>4. en \in [Calls -> Call'] /\ Settled(pool, en)
    BY <1>1, <1>2, <1>3, ReturnSettles
  <1>5. /\ en[e].pc = "off" /\ en[e].entries = {}
        /\ \A f \in Calls : f # e => en[f] = ensure[f]
    BY EndOfCall
  <1> HIDE DEF en
  <1>6. \A f \in Calls : en[f].pc \notin {"load", "provision"}
    BY <1>1, <1>5 DEF IInv, PoolKept, LockIsExact, Holds
  <1>7. Fits(pool, en)
    <2>1. /\ \A f \in Calls : en[f] # ensure[f] => en[f].pc = "off" /\ en[f].entries = {}
          /\ \A f \in Calls :
               ensure[f].entries \subseteq en[f].entries \cup pool \cup pool \cup Handed
                                             \cup expired \cup lost'
      BY <1>1, <1>5
    <2>2. /\ made' \in 0..MaxWriters
          /\ 1..made' \subseteq Writers \cup Prune(pool)
          /\ lost \subseteq lost' /\ lost' \subseteq 1..made'
      BY <1>1, <1>2, TypeFacts
    <2>3. Handed \cap pool \subseteq exposed /\ (loaded # "yes" => pool \cap file = {})
      BY DEF IInv, PoolKept, SharedOnlyIfExposed, Copies
    <2>4. loaded # "no"  BY <1>1, <1>2 DEF Began
    <2>5. lock' \in BOOLEAN /\ (lock' <=> \E f \in Calls : en[f].pc \in {"load", "provision"})
      BY <1>1, <1>6
    <2>6. \A f \in Calls : en[f].pc = "provision" => pool \subseteq en[f].entries \cup expired \cup lost'
      BY <1>6
    <2> QED  BY <1>1, <1>3, <1>4, <2>1, <2>2, <2>3, <2>4, <2>5, <2>6 DEF Fits
  <1> QED  BY <1>4, <1>7, SettledKeeps

-----------------------------------------------------------------------------
(* The other steps of calls and commands                                      *)

\* A call that holds the lock reads the pool.
LEMMA ReadKeeps ==
  ASSUME IInv, NEW e \in Calls, ReadPool(e), loaded # "no", lock' = TRUE,
         ensure[e].pc = "load" \/ (ensure[e].pc = "profile" /\ ~lock),
         UNCHANGED <<loaded, disk, claim, got, made, expired, ghosts, restarts>>
  PROVE  IInv'
  <1> USE CallsAre
  <1> USE DEF disk, ghosts
  <1>1. TypeOK /\ Began /\ LockIsExact /\ HeldBack /\ Copies /\ Stored
    BY DEF IInv, PoolKept
  <1>2. /\ pool' = Prune(pool) /\ pool' \subseteq pool /\ pool \subseteq pool' \cup expired
        /\ \/ pool' = pool /\ dirty' = dirty /\ timer' = timer
           \/ dirty' = TRUE /\ timer' = TRUE
    BY DEF ReadPool, SetIfChanged, Set, Prune
  <1>3. /\ ensure'[e].pc = "provision" /\ ensure'[e].entries = pool'
        /\ \A f \in Calls : f # e => ensure'[f] = ensure[f]
    BY <1>1, <1>2, TypeFacts DEF ReadPool, Call
  <1>4. ensure[e].entries = {}  BY <1>1 DEF Began
  <1>5. TypeOK'
    <2>1. ensure' \in [Calls -> Call']
      <3>1. Call' = Call /\ Prune(pool) \in SUBSET Writers /\ ensure \in [Calls -> Call]
        BY <1>1 DEF Call, Writers, TypeOK, Prune
      <3> DEFINE read == [pc |-> "provision", needed |-> ensure[e].needed, entries |-> Prune(pool)]
      <3>2. read \in Call  BY <3>1 DEF Call
      <3>3. ensure' = [ensure EXCEPT ![e] = read]  BY DEF ReadPool
      <3> HIDE DEF read
      <3> QED  BY <3>1, <3>2, <3>3
    <2>2. pool' \subseteq Writers' /\ dirty' \in BOOLEAN /\ timer' \in BOOLEAN
      BY <1>1, <1>2 DEF TypeOK, Writers
    <2> QED  BY <1>1, <2>1, <2>2 DEF TypeOK, Writers
  <1>6. LockIsExact'
    <2>1. \A f \in Calls : f # e => ~Holds(f)  BY <1>1 DEF LockIsExact, Holds
    <2>2. Holds(e)' /\ \A f \in Calls : f # e => ~Holds(f)'
      BY <1>3, <2>1 DEF Holds
    <2> QED  BY <2>2 DEF LockIsExact
  <1>7. Began'
    <2>1. \A f \in Calls : (ensure'[f].pc = "off") <=> (ensure[f].pc = "off")
      BY <1>3
    <2>2. \A f \in Calls : ensure'[f].pc # "provision" => ensure'[f].entries = {}
      BY <1>1, <1>3 DEF Began
    <2> QED  BY <1>1, <2>1, <2>2 DEF Began
  <1>8. Stored' /\ Durable'
    <2>1. CASE pool' = pool /\ dirty' = dirty /\ timer' = timer
      BY <1>1, <2>1 DEF IInv, PoolKept, Stored, Durable, Prune
    <2>2. CASE dirty' = TRUE /\ timer' = TRUE
      BY <1>1, <2>2 DEF Stored, Durable
    <2> QED  BY <1>2, <2>1, <2>2
  <1>9. HeldBack'
    BY <1>1, <1>2, <1>3 DEF HeldBack
  <1>10. Accounted'
    <2>1. InCalls \subseteq InCalls'
      BY <1>3, <1>4 DEF InCalls
    <2> QED  BY <1>2, <2>1 DEF IInv, PoolKept, Accounted, Writers, Handed
  <1>11. SharedOnlyIfExposed' /\ Copies'
    <2>1. Handed' = Handed  BY DEF Handed
    <2>2. SharedOnlyIfExposed'
      BY <1>2, <2>1 DEF IInv, PoolKept, SharedOnlyIfExposed
    <2>3. \A f \in Calls : Handed \cap ensure'[f].entries \subseteq exposed
      BY <1>1, <1>2, <1>3 DEF Copies, IInv, PoolKept, SharedOnlyIfExposed
    <2>4. loaded # "yes" => pool' \cap file = {} /\ \A f \in Calls : ensure'[f].entries \cap file = {}
      BY <1>1, <1>2, <1>3 DEF Copies
    <2> QED  BY <1>1, <2>1, <2>2, <2>3, <2>4 DEF Copies
  <1> QED  BY <1>5, <1>6, <1>7, <1>8, <1>9, <1>10, <1>11 DEF IInv, PoolKept

\* A step of the calls and commands that has no effect on the writers.
LEMMA QuietKeeps ==
  ASSUME IInv, UNCHANGED <<pool, dirty, timer, disk, got, made, expired, ghosts, restarts>>,
         (ensure \in [Calls -> Call])',
         claim' \in [Claims -> {"idle", "ensuring", "load", "direct", "done", "failed"}],
         \A e \in Calls : ensure'[e].entries = ensure[e].entries,
         \A e \in Calls : (ensure'[e].pc = "provision") <=> (ensure[e].pc = "provision"),
         loaded' \in {"no", "reading", "yes"}, (loaded' = "yes") <=> (loaded = "yes"),
         loaded # "no" => loaded' # "no", lock' \in BOOLEAN, LockIsExact',
         \A c \in Claims : ensure'[<<"claim", c>>].pc # "off" => claim'[c] = "ensuring",
         \A c \in Claims : ensure'[<<"topup", c>>].pc # "off" => claim'[c] = "done" /\ loaded' # "no",
         \A c \in Claims : claim'[c] # "done" => claim[c] # "done"
  PROVE  IInv'
  <1> USE DEF disk, ghosts
  <1>1. TypeOK /\ Began /\ HeldBack /\ Copies /\ Stored  BY DEF IInv
  <1>2. TypeOK'  BY <1>1 DEF TypeOK, Writers
  <1>3. Began'  BY <1>1 DEF Began
  <1>4. Stored'  BY <1>1 DEF Stored, Prune
  <1>5. HeldBack'  BY <1>1 DEF HeldBack
  <1>6. Copies'  BY <1>1 DEF Copies, Handed
  <1>7. Durable'  BY DEF IInv, PoolKept, Durable, Prune
  <1>8. Accounted'
    <2>1. InCalls' = InCalls  BY DEF InCalls
    <2> QED  BY <2>1 DEF IInv, PoolKept, Accounted, Writers, Handed
  <1>9. SharedOnlyIfExposed'
    BY DEF IInv, PoolKept, SharedOnlyIfExposed, Handed
  <1> QED  BY <1>2, <1>3, <1>4, <1>5, <1>6, <1>7, <1>8, <1>9 DEF IInv, PoolKept

LEMMA RequestKeeps ==
  ASSUME IInv, NEW c \in Claims, Request(c)
  PROVE  IInv'
  <1> USE CallsAre
  <1>1. TypeOK /\ Began /\ LockIsExact  BY DEF IInv, PoolKept
  <1> DEFINE call == [pc |-> "profile", needed |-> 1, entries |-> {}]
  <1>2. /\ claim[c] = "idle" /\ claim' = [claim EXCEPT ![c] = "ensuring"]
        /\ ensure' = [ensure EXCEPT ![<<"claim", c>>] = call]
        /\ UNCHANGED <<store, disk, lock, got, made, expired, ghosts, restarts>>
    BY DEF Request
  <1>3. call \in Call' /\ call.pc = "profile" /\ call.entries = {}
    BY PoolConstants DEF Call
  <1> HIDE DEF call
  <1>4. /\ ensure[<<"claim", c>>].pc = "off" /\ ensure[<<"claim", c>>].entries = {}
        /\ ensure[<<"topup", c>>].pc = "off"
    BY <1>1, <1>2 DEF Began
  <1>5. ensure \in [Calls -> Call'] /\ Call' = Call
    BY <1>1, <1>2 DEF Call, Writers, TypeOK
  <1>6. /\ ensure' \in [Calls -> Call'] /\ ensure'[<<"claim", c>>] = call
        /\ \A f \in Calls : f # <<"claim", c>> => ensure'[f] = ensure[f]
    BY <1>2, <1>3, <1>5
  <1>7. LockIsExact'
    <2>1. \A f \in Calls : Holds(f)' <=> Holds(f)  BY <1>3, <1>4, <1>6 DEF Holds
    <2> QED  BY <1>1, <1>2, <2>1 DEF LockIsExact
  <1>8. /\ claim' \in [Claims -> {"idle", "ensuring", "load", "direct", "done", "failed"}]
        /\ claim'[c] = "ensuring" /\ \A d \in Claims : d # c => claim'[d] = claim[d]
    BY <1>1, <1>2 DEF TypeOK
  <1>9. /\ \A e \in Calls : ensure'[e].entries = ensure[e].entries
        /\ \A e \in Calls : (ensure'[e].pc = "provision") <=> (ensure[e].pc = "provision")
    BY <1>3, <1>4, <1>6
  <1>10. /\ \A d \in Claims : ensure'[<<"claim", d>>].pc # "off" => claim'[d] = "ensuring"
         /\ \A d \in Claims : ensure'[<<"topup", d>>].pc # "off" => claim'[d] = "done" /\ loaded' # "no"
    <2>1. \A d \in Claims : d # c => ensure'[<<"claim", d>>] = ensure[<<"claim", d>>]  BY <1>6
    <2>2. \A d \in Claims : ensure'[<<"topup", d>>] = ensure[<<"topup", d>>]  BY <1>6
    <2> QED  BY <1>1, <1>2, <1>4, <1>8, <2>1, <2>2 DEF Began, store
  <1>11. \A d \in Claims : claim'[d] # "done" => claim[d] # "done"  BY <1>2, <1>8
  <1>12. loaded' = loaded /\ loaded' \in {"no", "reading", "yes"} /\ lock' \in BOOLEAN
    BY <1>1, <1>2 DEF store, TypeOK
  <1>13. UNCHANGED <<pool, dirty, timer, disk, got, made, expired, ghosts, restarts>>
    BY <1>2 DEF store
  <1> QED  BY <1>6, <1>7, <1>8, <1>9, <1>10, <1>11, <1>12, <1>13, QuietKeeps

LEMMA BeginKeeps ==
  ASSUME IInv, NEW e \in Calls, Begin(e)
  PROVE  IInv'
  <1>1. TypeOK /\ Began /\ LockIsExact  BY DEF IInv, PoolKept
  <1>2. /\ ensure[e].pc = "profile" /\ ~lock /\ lock' = TRUE
        /\ UNCHANGED <<disk, claim, got, made, expired, ghosts, restarts>>
    BY DEF Begin
  <1>3. CASE loaded = "no"
    <2>1. /\ loaded' = "reading" /\ ensure' = [ensure EXCEPT ![e].pc = "load"]
          /\ UNCHANGED <<pool, dirty, timer>>
      BY <1>3 DEF Begin
    <2>2. Call' = Call  BY <1>2 DEF Call, Writers
    <2>3. /\ ensure' \in [Calls -> Call'] /\ ensure'[e].pc = "load"
          /\ ensure'[e].entries = ensure[e].entries
          /\ \A f \in Calls : f # e => ensure'[f] = ensure[f]
      BY <1>1, <2>1, <2>2 DEF TypeOK, Call
    <2>4. LockIsExact'
      <3>1. \A f \in Calls : ~Holds(f)  BY <1>1, <1>2 DEF LockIsExact
      <3>2. Holds(e)' /\ \A f \in Calls : f # e => ~Holds(f)'  BY <2>3, <3>1 DEF Holds
      <3> QED  BY <1>2, <3>2 DEF LockIsExact
    <2>5. /\ \A f \in Calls : ensure'[f].entries = ensure[f].entries
          /\ \A f \in Calls : (ensure'[f].pc = "provision") <=> (ensure[f].pc = "provision")
          /\ \A f \in Calls : (ensure'[f].pc = "off") <=> (ensure[f].pc = "off")
      BY <1>2, <2>3
    <2>6. /\ \A d \in Claims : ensure'[<<"claim", d>>].pc # "off" => claim'[d] = "ensuring"
          /\ \A d \in Claims : ensure'[<<"topup", d>>].pc # "off" => claim'[d] = "done" /\ loaded' # "no"
          /\ \A d \in Claims : claim'[d] # "done" => claim[d] # "done"
      BY <1>1, <1>2, <2>1, <2>5, CallsAre DEF Began
    <2>7. /\ claim' \in [Claims -> {"idle", "ensuring", "load", "direct", "done", "failed"}]
          /\ loaded' \in {"no", "reading", "yes"} /\ lock' \in BOOLEAN
          /\ (loaded' = "yes") <=> (loaded = "yes")
          /\ loaded # "no" => loaded' # "no"
      BY <1>1, <1>2, <1>3, <2>1 DEF TypeOK
    <2> QED  BY <1>2, <2>1, <2>3, <2>4, <2>5, <2>6, <2>7, QuietKeeps
  <1>4. CASE loaded # "no"
    <2>1. ReadPool(e) /\ UNCHANGED loaded  BY <1>4 DEF Begin
    <2> QED  BY <1>2, <1>4, <2>1, ReadKeeps
  <1> QED  BY <1>3, <1>4

LEMMA LoadedCallKeeps ==
  ASSUME IInv, NEW e \in Calls, LoadedCall(e)
  PROVE  IInv'
  <1>1. lock' = TRUE
    BY DEF IInv, PoolKept, LockIsExact, Holds, LoadedCall, TypeOK
  <1> QED  BY <1>1, ReadKeeps DEF LoadedCall

\* A command whose call was refused begins to read the file.
LEMMA RefuseReadsKeeps ==
  ASSUME IInv, NEW e \in Calls, Refuse(e), e[1] = "claim", loaded = "no"
  PROVE  IInv'
  <1> USE CallsAre
  <1>1. TypeOK /\ Began /\ LockIsExact  BY DEF IInv, PoolKept
  <1>2. /\ ensure[e].pc = "profile" /\ loaded' = "reading"
        /\ ensure' = [ensure EXCEPT ![e] = NoCall]
        /\ claim' = [claim EXCEPT ![e[2]] = "load"]
        /\ UNCHANGED <<pool, dirty, timer, got, exposed>>
        /\ UNCHANGED <<disk, lock, made, expired, lost, restarts>>
    BY DEF Refuse
  <1>3. /\ ensure'[e].pc = "off" /\ ensure'[e].entries = {}
        /\ \A f \in Calls : f # e => ensure'[f] = ensure[f]
    BY <1>2, EndOfCall
  <1>4. ensure' \in [Calls -> Call']
    <2>1. Call' = Call /\ NoCall \in Call  BY <1>2, PoolConstants DEF Call, Writers, NoCall
    <2> QED  BY <1>1, <1>2, <2>1 DEF TypeOK
  <1>5. /\ \A f \in Calls : ensure'[f].entries = ensure[f].entries
        /\ \A f \in Calls : (ensure'[f].pc = "provision") <=> (ensure[f].pc = "provision")
        /\ \A f \in Calls : Holds(f)' <=> Holds(f)
    BY <1>1, <1>2, <1>3 DEF Began, Holds
  <1>6. LockIsExact'  BY <1>1, <1>2, <1>5 DEF LockIsExact
  <1>7. /\ claim' \in [Claims -> {"idle", "ensuring", "load", "direct", "done", "failed"}]
        /\ claim[e[2]] = "ensuring" /\ claim'[e[2]] = "load"
        /\ \A d \in Claims : d # e[2] => claim'[d] = claim[d]
    BY <1>1, <1>2 DEF TypeOK, Began
  <1>8. /\ \A d \in Claims : ensure'[<<"claim", d>>].pc # "off" => claim'[d] = "ensuring"
        /\ \A d \in Claims : ensure'[<<"topup", d>>].pc # "off" => claim'[d] = "done" /\ loaded' # "no"
        /\ \A d \in Claims : claim'[d] # "done" => claim[d] # "done"
    <2>1. e = <<"claim", e[2]>>  OBVIOUS
    <2>2. ASSUME NEW d \in Claims, d # e[2]  PROVE ensure'[<<"claim", d>>] = ensure[<<"claim", d>>]
      <3>1. <<"claim", d>> # e  BY <2>2
      <3> QED  BY <1>3, <3>1
    <2>3. ASSUME NEW d \in Claims  PROVE ensure'[<<"topup", d>>] = ensure[<<"topup", d>>]
      <3>1. <<"topup", d>> # e  OBVIOUS
      <3> QED  BY <1>3, <3>1
    <2> QED  BY <1>1, <1>2, <1>3, <1>7, <2>1, <2>2, <2>3 DEF Began
  <1>9. loaded' \in {"no", "reading", "yes"} /\ lock' \in BOOLEAN  BY <1>1, <1>2 DEF TypeOK
  <1>10. UNCHANGED <<pool, dirty, timer, disk, got, made, expired, ghosts, restarts>>
    BY <1>2 DEF ghosts
  <1> QED  BY <1>2, <1>4, <1>5, <1>6, <1>7, <1>8, <1>9, <1>10, QuietKeeps

LEMMA OthersLoadKeeps ==
  ASSUME IInv, OthersLoad
  PROVE  IInv'
  <1>1. TypeOK /\ Began /\ LockIsExact  BY DEF IInv, PoolKept
  <1>2. /\ loaded = "no" /\ loaded' = "reading"
        /\ UNCHANGED <<pool, dirty, timer, disk, work, made, expired, ghosts, restarts>>
    BY DEF OthersLoad
  <1>3. LockIsExact' /\ Call' = Call
    BY <1>1, <1>2 DEF LockIsExact, Holds, work, Call, Writers
  <1> QED  BY <1>1, <1>2, <1>3, QuietKeeps DEF TypeOK, Began, work

\* One more writer, in the call e that provisions.
LEMMA ProvisionKeeps ==
  ASSUME IInv, NEW e \in Calls, Provision(e)
  PROVE  IInv'
  <1> DEFINE call == [pc |-> "provision", needed |-> ensure[e].needed - 1,
                      entries |-> ensure[e].entries \cup {made'}]
  <1>1. TypeOK /\ Began /\ LockIsExact /\ HeldBack /\ Copies /\ Stored
    BY DEF IInv, PoolKept
  <1>2. /\ ensure[e].pc = "provision" /\ ensure[e].needed > 1
        /\ made < MaxWriters /\ made' = made + 1
        /\ ensure' = [ensure EXCEPT ![e] = call]
        /\ UNCHANGED <<store, disk, lock, claim, got, expired, ghosts, restarts>>
    BY DEF Provision
  <1>3. UNCHANGED <<loaded, pool, dirty, timer, writing, file, unsaved, lock, claim, got,
                    expired, exposed, lost, restarts>>
    BY <1>2 DEF store, disk, ghosts
  <1>4. /\ made \in Nat /\ made' \in 0..MaxWriters /\ Writers = 1..made /\ Writers' = 1..made'
        /\ Writers' = Writers \cup {made'} /\ made' \notin Writers
        /\ \A x \in 0..made : x \in 0..made'
    <2>1. made \in Nat /\ Writers = 1..made /\ made + 1 \in 0..MaxWriters
      BY <1>1, <1>2, TypeFacts
    <2>2. made' = made + 1 /\ Writers' = 1..made'  BY <1>2 DEF Writers
    <2>3. 1..(made + 1) = 1..made \cup {made + 1} /\ made + 1 \notin 1..made  BY <2>1
    <2>4. \A x \in 0..made : x \in 0..(made + 1)  BY <2>1
    <2> QED  BY <2>1, <2>2, <2>3, <2>4
  <1>5. /\ Handed \subseteq Writers /\ file \subseteq Writers /\ Handed' = Handed
    BY <1>1, <1>3, <1>4, TypeFacts DEF Handed
  <1>6. call \in Call' /\ ensure \in [Calls -> Call']
    <2>1. ensure \in [Calls -> Call] /\ ensure[e].needed \in 0..Target
          /\ ensure[e].entries \subseteq Writers
      BY <1>1 DEF TypeOK, Call
    <2>2. ensure[e].needed - 1 \in 0..Target  BY <1>2, <2>1, PoolConstants
    <2>3. ensure[e].entries \cup {made'} \in SUBSET Writers'  BY <1>4, <2>1
    <2>4. Call \subseteq Call'  BY <1>4 DEF Call
    <2> QED  BY <2>1, <2>2, <2>3, <2>4 DEF Call
  <1>7. call.pc = "provision" /\ call.entries = ensure[e].entries \cup {made'}  OBVIOUS
  <1> HIDE DEF call
  <1>8. /\ ensure' \in [Calls -> Call'] /\ ensure'[e] = call
        /\ \A f \in Calls : f # e => ensure'[f] = ensure[f]
    BY <1>2, <1>6
  <1>9. /\ \A f \in Calls : ensure'[f].pc = ensure[f].pc
        /\ \A f \in Calls : ensure[f].entries \subseteq ensure'[f].entries
        /\ \A f \in Calls : ensure'[f].entries \subseteq ensure[f].entries \cup {made'}
        /\ \A f \in Calls : ensure[f].pc # "provision" => ensure'[f] = ensure[f]
    BY <1>2, <1>7, <1>8
  <1>10. TypeOK'
    <2>1. got' \in [Claims -> 0..made']  BY <1>1, <1>3, <1>4 DEF TypeOK
    <2>2. /\ pool' \subseteq Writers' /\ file' \subseteq Writers'
          /\ \A s, t \in writing' : s \subseteq Writers' /\ s = t
          /\ expired' \subseteq Writers' /\ exposed' \subseteq Writers' /\ lost' \subseteq Writers'
      BY <1>1, <1>3, <1>4 DEF TypeOK
    <2> QED  BY <1>1, <1>3, <1>4, <1>8, <2>1, <2>2 DEF TypeOK
  <1>11. LockIsExact' /\ Began' /\ HeldBack'
    <2>1. LockIsExact'  BY <1>1, <1>3, <1>9 DEF LockIsExact, Holds
    <2>2. Began'
      <3>1. \A c \in Claims : /\ ensure'[<<"claim", c>>].pc = ensure[<<"claim", c>>].pc
                              /\ ensure'[<<"topup", c>>].pc = ensure[<<"topup", c>>].pc
        BY <1>9, CallsAre
      <3>2. \A f \in Calls : ensure'[f].pc # "provision" => ensure'[f].entries = {}
        <4>1. \A f \in Calls : ensure[f].pc # "provision" => ensure[f].entries = {}  BY <1>1 DEF Began
        <4> QED  BY <1>9, <4>1
      <3>3. \A f \in Calls : ensure'[f].pc = "provision" => loaded' # "no"
        <4>1. \A f \in Calls : ensure[f].pc = "provision" => loaded # "no"  BY <1>1 DEF Began
        <4> QED  BY <1>3, <1>9, <4>1
      <3>4. /\ \A c \in Claims : ensure[<<"claim", c>>].pc # "off" => claim[c] = "ensuring"
            /\ \A c \in Claims : ensure[<<"topup", c>>].pc # "off" => claim[c] = "done" /\ loaded # "no"
            /\ \A c \in Claims : claim[c] # "done" => got[c] = 0
        BY <1>1 DEF Began
      <3>5. loaded' = loaded /\ claim' = claim /\ got' = got  BY <1>3
      <3>6. \A c \in Claims : ensure'[<<"claim", c>>].pc # "off" => claim'[c] = "ensuring"
        BY <3>1, <3>4, <3>5
      <3>7. \A c \in Claims : ensure'[<<"topup", c>>].pc # "off" => claim'[c] = "done" /\ loaded' # "no"
        <4> SUFFICES ASSUME NEW c \in Claims, ensure'[<<"topup", c>>].pc # "off"
                     PROVE  claim'[c] = "done" /\ loaded' # "no"
          OBVIOUS
        <4>1. ensure[<<"topup", c>>].pc # "off"  BY <3>1
        <4>2. claim[c] = "done" /\ loaded # "no"  BY <3>4, <4>1
        <4> QED  BY <3>5, <4>2
      <3>8. \A c \in Claims : claim'[c] # "done" => got'[c] = 0  BY <3>4, <3>5
      <3> QED  BY ONLY <3>2, <3>3, <3>6, <3>7, <3>8 DEF Began
    <2>3. HeldBack'  BY <1>1, <1>3, <1>9 DEF HeldBack
    <2> QED  BY <2>1, <2>2, <2>3
  <1>12. Stored' /\ Durable'
    BY <1>1, <1>3 DEF Stored, Durable, Prune, IInv, PoolKept
  <1>13. Accounted'
    <2>1. made' \in InCalls'  BY <1>7, <1>8 DEF InCalls
    <2>2. InCalls \subseteq InCalls'  BY <1>9 DEF InCalls
    <2>3. Writers \subseteq Handed \cup pool \cup InCalls \cup expired \cup lost
                             \cup (IF loaded = "yes" THEN {} ELSE file)
      BY DEF IInv, PoolKept, Accounted
    <2> QED  BY <1>3, <1>4, <1>5, <2>1, <2>2, <2>3 DEF Accounted
  <1>14. SharedOnlyIfExposed' /\ Copies'
    <2>1. SharedOnlyIfExposed'
      BY <1>3, <1>5 DEF IInv, PoolKept, SharedOnlyIfExposed
    <2>2. ASSUME NEW f \in Calls
          PROVE  /\ Handed \cap ensure'[f].entries \subseteq exposed
                 /\ loaded # "yes" => ensure'[f].entries \cap file = {}
      <3>1. ensure'[f].entries \subseteq ensure[f].entries \cup {made'}  BY <1>9
      <3>2. made' \notin Handed /\ made' \notin file  BY <1>4, <1>5
      <3> QED  BY <1>1, <3>1, <3>2 DEF Copies
    <2> QED  BY <1>1, <1>3, <1>5, <2>1, <2>2 DEF Copies
  <1> QED  BY <1>10, <1>11, <1>12, <1>13, <1>14 DEF IInv, PoolKept

\* One more writer, which the command c answers with.
LEMMA DirectKeeps ==
  ASSUME IInv, NEW c \in Claims, Direct(c)
  PROVE  IInv'
  <1>1. TypeOK /\ Began /\ LockIsExact /\ HeldBack /\ Copies /\ Stored
    BY DEF IInv, PoolKept
  <1>2. /\ claim[c] = "direct" /\ made < MaxWriters /\ made' = made + 1
        /\ claim' = [claim EXCEPT ![c] = "done"] /\ got' = [got EXCEPT ![c] = made']
        /\ UNCHANGED <<store, disk, lock, ensure, expired, ghosts, restarts>>
    BY DEF Direct
  <1>3. UNCHANGED <<loaded, pool, dirty, timer, writing, file, unsaved, lock, ensure,
                    expired, exposed, lost, restarts>>
    BY <1>2 DEF store, disk, ghosts
  <1>4. /\ made \in Nat /\ made' \in 0..MaxWriters /\ Writers = 1..made /\ Writers' = 1..made'
        /\ Writers' = Writers \cup {made'} /\ made' \notin Writers
        /\ made' \in 0..made' /\ made' # 0
        /\ \A x \in 0..made : x \in 0..made'
    <2>1. made \in Nat /\ Writers = 1..made /\ made + 1 \in 0..MaxWriters
      BY <1>1, <1>2, TypeFacts
    <2>2. made' = made + 1 /\ Writers' = 1..made'  BY <1>2 DEF Writers
    <2>3. /\ 1..(made + 1) = 1..made \cup {made + 1} /\ made + 1 \notin 1..made
          /\ made + 1 \in 0..(made + 1) /\ made + 1 # 0
      BY <2>1
    <2>4. \A x \in 0..made : x \in 0..(made + 1)  BY <2>1
    <2> QED  BY <2>1, <2>2, <2>3, <2>4
  <1>5. got[c] = 0 /\ got \in [Claims -> 0..made] /\ Handed \subseteq Writers
        /\ pool \subseteq Writers /\ file \subseteq Writers
        /\ \A e \in Calls : ensure[e].entries \subseteq Writers
    BY <1>1, <1>2, <1>4, TypeFacts DEF Began
  <1>6. /\ got' \in [Claims -> 0..made'] /\ got'[c] = made'
        /\ \A d \in Claims : d # c => got'[d] = got[d]
    BY <1>2, <1>4, <1>5
  <1>7. Handed' = Handed \cup {made'}
    BY <1>4, <1>5, <1>6 DEF Handed
  <1>8. /\ claim' \in [Claims -> {"idle", "ensuring", "load", "direct", "done", "failed"}]
        /\ claim'[c] = "done" /\ \A d \in Claims : d # c => claim'[d] = claim[d]
    BY <1>1, <1>2 DEF TypeOK
  <1>9. TypeOK'
    <2>1. ensure' \in [Calls -> Call']
      <3>1. Call \subseteq Call'  BY <1>4 DEF Call
      <3> QED  BY <1>1, <1>3, <3>1 DEF TypeOK
    <2>2. /\ pool' \subseteq Writers' /\ file' \subseteq Writers'
          /\ \A s, t \in writing' : s \subseteq Writers' /\ s = t
          /\ expired' \subseteq Writers' /\ exposed' \subseteq Writers' /\ lost' \subseteq Writers'
      BY <1>1, <1>3, <1>4 DEF TypeOK
    <2> QED  BY <1>1, <1>3, <1>4, <1>6, <1>8, <2>1, <2>2 DEF TypeOK
  <1>10. LockIsExact' /\ Began' /\ HeldBack'
    <2>1. LockIsExact'  BY <1>1, <1>3 DEF LockIsExact, Holds
    <2>2. Began'
      <3>1. \A d \in Claims : ensure[<<"claim", d>>].pc # "off" => claim'[d] = "ensuring"
        <4>1. claim[c] # "ensuring"  BY <1>2
        <4> QED  BY <1>1, <1>8, <4>1 DEF Began
      <3>2. \A d \in Claims : ensure[<<"topup", d>>].pc # "off" => claim'[d] = "done" /\ loaded # "no"
        BY <1>1, <1>8 DEF Began
      <3>3. \A d \in Claims : claim'[d] # "done" => got'[d] = 0
        BY <1>1, <1>6, <1>8 DEF Began
      <3> QED  BY <1>1, <1>3, <3>1, <3>2, <3>3 DEF Began
    <2>3. HeldBack'  BY <1>1, <1>3 DEF HeldBack
    <2> QED  BY <2>1, <2>2, <2>3
  <1>11. Stored' /\ Durable'
    BY <1>1, <1>3 DEF Stored, Durable, Prune, IInv, PoolKept
  <1>12. Accounted'
    <2>1. InCalls' = InCalls  BY <1>3 DEF InCalls
    <2>2. Writers \subseteq Handed \cup pool \cup InCalls \cup expired \cup lost
                             \cup (IF loaded = "yes" THEN {} ELSE file)
      BY DEF IInv, PoolKept, Accounted
    <2> QED  BY <1>3, <1>4, <1>7, <2>1, <2>2 DEF Accounted
  <1>13. SharedOnlyIfExposed'
    <2>1. Handed' \cap pool' \subseteq exposed'
      BY <1>3, <1>4, <1>5, <1>7 DEF IInv, PoolKept, SharedOnlyIfExposed
    <2>2. ASSUME NEW d \in Claims, NEW f \in Claims, d # f, got'[d] = got'[f], got'[d] # 0
          PROVE  got'[d] \in exposed'
      <3>1. d # c /\ f # c
        <4>1. \A x \in Claims : got[x] # made'  BY <1>4, <1>5
        <4> QED  BY <1>6, <2>2, <4>1
      <3> QED  BY <1>3, <1>6, <2>2, <3>1 DEF IInv, PoolKept, SharedOnlyIfExposed
    <2> QED  BY <2>1, <2>2 DEF SharedOnlyIfExposed
  <1>14. Copies'
    <2>1. made' \notin file /\ \A e \in Calls : made' \notin ensure[e].entries  BY <1>4, <1>5
    <2> QED  BY <1>1, <1>3, <1>7, <2>1 DEF Copies
  <1> QED  BY <1>9, <1>10, <1>11, <1>12, <1>13, <1>14 DEF IInv, PoolKept

LEMMA DirectFailKeeps ==
  ASSUME IInv, NEW c \in Claims, DirectFail(c)
  PROVE  IInv'
  <1>1. TypeOK /\ Began /\ LockIsExact  BY DEF IInv, PoolKept
  <1>2. /\ claim[c] = "direct" /\ claim' = [claim EXCEPT ![c] = "failed"]
        /\ UNCHANGED <<store, disk, lock, ensure, got, made, expired, ghosts, restarts>>
    BY DEF DirectFail
  <1>3. UNCHANGED <<loaded, pool, dirty, timer>>  BY <1>2 DEF store
  <1>4. /\ claim' \in [Claims -> {"idle", "ensuring", "load", "direct", "done", "failed"}]
        /\ claim'[c] = "failed" /\ \A d \in Claims : d # c => claim'[d] = claim[d]
    BY <1>1, <1>2 DEF TypeOK
  <1>5. LockIsExact' /\ Call' = Call
    BY <1>1, <1>2 DEF LockIsExact, Holds, Call, Writers
  <1>6. /\ \A d \in Claims : ensure'[<<"claim", d>>].pc # "off" => claim'[d] = "ensuring"
        /\ \A d \in Claims : ensure'[<<"topup", d>>].pc # "off" => claim'[d] = "done" /\ loaded' # "no"
        /\ \A d \in Claims : claim'[d] # "done" => claim[d] # "done"
    BY <1>1, <1>2, <1>3, <1>4 DEF Began
  <1> QED  BY <1>1, <1>2, <1>3, <1>4, <1>5, <1>6, QuietKeeps DEF TypeOK

-----------------------------------------------------------------------------
(* The file, time and crashes                                                 *)

\* A step of the store or the clock leaves the calls and commands alone.
LEMMA WorkKeeps ==
  ASSUME IInv, UNCHANGED <<lock, ensure, claim, got, made, exposed, restarts>>,
         loaded' \in {"no", "reading", "yes"}, loaded # "no" => loaded' # "no",
         pool' \subseteq Writers, file' \subseteq Writers,
         \A s, t \in writing' : s \subseteq Writers /\ s = t,
         dirty' \in BOOLEAN, timer' \in BOOLEAN, unsaved' \in BOOLEAN,
         expired' \subseteq Writers, lost' \subseteq Writers
  PROVE  TypeOK' /\ LockIsExact' /\ Began'
  <1>1. TypeOK /\ Began /\ LockIsExact  BY DEF IInv, PoolKept
  <1>2. Writers' = Writers /\ Call' = Call  BY DEF Writers, Call
  <1>3. TypeOK'  BY <1>1, <1>2 DEF TypeOK
  <1>4. LockIsExact'  BY <1>1 DEF LockIsExact, Holds
  <1>5. Began'  BY <1>1 DEF Began
  <1> QED  BY <1>3, <1>4, <1>5

LEMMA LoadedKeeps ==
  ASSUME IInv, Loaded
  PROVE  IInv'
  <1>1. TypeOK /\ Began /\ HeldBack /\ Copies /\ Stored  BY DEF IInv
  <1>2. /\ loaded = "reading" /\ loaded' = "yes"
        /\ pool' = IF Prune(file) = {} THEN pool ELSE Prune(file)
        /\ lost' = lost \cup (pool \ pool')
                        \cup (IF \E e \in Calls : ensure[e].pc = "provision" THEN pool' ELSE {})
        /\ UNCHANGED <<dirty, timer, writing, file, unsaved, lock, ensure, claim, got,
                       made, expired, exposed, restarts>>
    BY DEF Loaded, disk, work
  <1>3. pool \subseteq Writers /\ file \subseteq Writers /\ lost \subseteq Writers
    BY <1>1 DEF TypeOK
  <1>4. pool' \subseteq Writers /\ lost' \subseteq Writers
    BY <1>2, <1>3 DEF Prune
  <1>5. TypeOK' /\ LockIsExact' /\ Began'
    BY <1>1, <1>2, <1>3, <1>4, WorkKeeps DEF TypeOK
  <1>6. Stored' /\ Durable'
    BY <1>1, <1>2 DEF Stored, Durable, Prune
  <1>7. HeldBack'
    BY <1>2 DEF HeldBack
  <1>8. Accounted'
    <2>1. InCalls' = InCalls /\ Handed' = Handed /\ Writers' = Writers
      BY <1>2 DEF InCalls, Handed, Writers
    <2>2. file \subseteq pool' \cup expired /\ pool \subseteq pool' \cup lost' /\ lost \subseteq lost'
      BY <1>2 DEF Prune
    <2> QED  BY <1>2, <2>1, <2>2 DEF IInv, PoolKept, Accounted
  <1>9. SharedOnlyIfExposed' /\ Copies'
    <2>1. Handed' = Handed  BY <1>2 DEF Handed
    <2>2. Handed \cap pool' \subseteq exposed
      BY <1>1, <1>2 DEF Copies, Prune, IInv, PoolKept, SharedOnlyIfExposed
    <2> QED  BY <1>1, <1>2, <2>1, <2>2 DEF Copies, IInv, PoolKept, SharedOnlyIfExposed
  <1> QED  BY <1>5, <1>6, <1>7, <1>8, <1>9 DEF IInv, PoolKept

\* The flush and the write touch neither the pool nor, before it was read, the
\* file.
LEMMA WriteKeeps ==
  ASSUME IInv, loaded = "yes", Stored', Durable', timer' \in BOOLEAN, dirty' \in BOOLEAN,
         file' \subseteq Writers, unsaved' \in BOOLEAN,
         \A s, t \in writing' : s \subseteq Writers /\ s = t,
         UNCHANGED <<loaded, pool, work, made, expired, ghosts, restarts>>
  PROVE  IInv'
  <1> USE DEF work, ghosts
  <1>1. TypeOK /\ HeldBack /\ Copies  BY DEF IInv
  <1>2. TypeOK' /\ LockIsExact' /\ Began'
    BY <1>1, WorkKeeps DEF TypeOK
  <1>3. HeldBack'  BY <1>1 DEF HeldBack
  <1>4. Accounted'  BY DEF IInv, PoolKept, Accounted, InCalls, Handed, Writers
  <1>5. SharedOnlyIfExposed'  BY DEF IInv, PoolKept, SharedOnlyIfExposed, Handed
  <1>6. Copies'  BY <1>1 DEF Copies, Handed
  <1> QED  BY <1>2, <1>3, <1>4, <1>5, <1>6 DEF IInv, PoolKept

LEMMA FlushKeeps ==
  ASSUME IInv, Flush
  PROVE  IInv'
  <1>1. TypeOK /\ Stored  BY DEF IInv
  <1>2. /\ timer /\ loaded # "reading" /\ timer' = FALSE /\ dirty' = FALSE
        /\ writing' = IF dirty THEN {pool} ELSE {}
        /\ UNCHANGED <<loaded, pool, file, unsaved, work, made, expired, ghosts, restarts>>
    BY DEF Flush
  <1>3. loaded = "yes" /\ dirty /\ writing' = {pool}
    BY <1>1, <1>2 DEF Stored, TypeOK
  <1>4. Stored' /\ Durable'
    BY <1>1, <1>2, <1>3 DEF Stored, Durable, Prune
  <1> QED  BY <1>1, <1>2, <1>3, <1>4, WriteKeeps DEF TypeOK

LEMMA WrittenKeeps ==
  ASSUME IInv, NEW s, Written(s)
  PROVE  IInv'
  <1>1. TypeOK /\ Stored  BY DEF IInv
  <1>2. /\ writing = {s} /\ writing' = {} /\ file' = s /\ unsaved' = FALSE
        /\ UNCHANGED <<loaded, pool, dirty, timer, work, made, expired, ghosts, restarts>>
    BY DEF Written, store
  <1>3. loaded = "yes" /\ s \subseteq Writers
    BY <1>1, <1>2 DEF Stored, TypeOK
  <1>4. Stored' /\ Durable'
    BY <1>1, <1>2, <1>3 DEF Stored, Durable, Prune
  <1> QED  BY <1>1, <1>2, <1>3, <1>4, WriteKeeps DEF TypeOK

LEMMA WriteFailsKeeps ==
  ASSUME IInv, WriteFails
  PROVE  IInv'
  <1>1. TypeOK /\ Stored  BY DEF IInv
  <1>2. /\ writing # {} /\ writing' = {} /\ unsaved' = TRUE /\ file' \in {file, {}}
        /\ UNCHANGED <<loaded, pool, dirty, timer, work, made, expired, ghosts, restarts>>
    BY DEF WriteFails, store
  <1>3. loaded = "yes" /\ file' \subseteq Writers
    BY <1>1, <1>2 DEF Stored, TypeOK
  <1>4. Stored' /\ Durable'
    BY <1>1, <1>2, <1>3 DEF Stored, Durable, Prune
  <1> QED  BY <1>1, <1>2, <1>3, <1>4, WriteKeeps DEF TypeOK

LEMMA ExpireKeeps ==
  ASSUME IInv, NEW w \in Writers, Expire(w)
  PROVE  IInv'
  <1>1. TypeOK /\ HeldBack /\ Copies /\ Stored  BY DEF IInv
  <1>2. /\ expired' = expired \cup {w}
        /\ UNCHANGED <<loaded, pool, dirty, timer, writing, file, unsaved, lock, ensure,
                       claim, got, made, exposed, lost, restarts>>
    BY DEF Expire, store, disk, work, ghosts
  <1>3. TypeOK' /\ LockIsExact' /\ Began'
    BY <1>1, <1>2, WorkKeeps DEF TypeOK
  <1>4. Stored' /\ Durable'
    BY <1>1, <1>2 DEF Stored, Durable, Prune, IInv, PoolKept
  <1>5. HeldBack'  BY <1>1, <1>2 DEF HeldBack
  <1>6. Accounted'
    BY <1>2 DEF IInv, PoolKept, Accounted, InCalls, Handed, Writers
  <1>7. SharedOnlyIfExposed'  BY <1>2 DEF IInv, PoolKept, SharedOnlyIfExposed, Handed
  <1>8. Copies'  BY <1>1, <1>2 DEF Copies, Handed
  <1> QED  BY <1>3, <1>4, <1>5, <1>6, <1>7, <1>8 DEF IInv, PoolKept

LEMMA CrashKeeps ==
  ASSUME IInv, Crash
  PROVE  IInv'
  <1> USE CallsAre
  <1>1. TypeOK /\ Began  BY DEF IInv
  <1>2. /\ restarts < MaxRestarts /\ restarts' = restarts + 1
        /\ loaded' = "no" /\ pool' = {} /\ dirty' = FALSE /\ timer' = FALSE
        /\ writing' = {} /\ unsaved' = (unsaved \/ writing # {}) /\ lock' = FALSE
        /\ file' \in {file} \cup (IF writing = {} THEN {} ELSE writing \cup {{}})
        /\ ensure' = [e \in Calls |-> NoCall]
        /\ claim' = [c \in Claims |-> IF claim[c] \in {"idle", "done"} THEN claim[c] ELSE "failed"]
        /\ exposed' = exposed \cup (Handed \cap file')
        /\ lost' = lost \cup (Writers \ (Handed \cup file'))
        /\ UNCHANGED <<got, made, expired>>
    BY DEF Crash
  <1>3. /\ Writers' = Writers /\ Handed' = Handed /\ Call' = Call
    BY <1>2 DEF Writers, Handed, Call
  <1>4. file' \subseteq Writers /\ Handed \subseteq Writers
    <2>1. \A s \in writing : s \subseteq Writers  BY <1>1 DEF TypeOK
    <2>2. file \subseteq Writers  BY <1>1 DEF TypeOK
    <2>3. Handed \subseteq Writers  BY <1>1, TypeFacts
    <2> QED  BY <1>2, <2>1, <2>2, <2>3
  <1>5. /\ NoCall.pc = "off" /\ NoCall.entries = {} /\ NoCall \in Call
    BY PoolConstants DEF NoCall, Call
  <1>6. \A e \in Calls : ensure'[e].pc = "off" /\ ensure'[e].entries = {}
    BY <1>2, <1>5
  <1>7. TypeOK'
    <2>1. restarts' \in 0..MaxRestarts  BY <1>1, <1>2, PoolConstants DEF TypeOK
    <2>2. claim' \in [Claims -> {"idle", "ensuring", "load", "direct", "done", "failed"}]
      BY <1>1, <1>2 DEF TypeOK
    <2>3. ensure' \in [Calls -> Call']  BY <1>2, <1>3, <1>5
    <2>4. exposed' \subseteq Writers' /\ lost' \subseteq Writers'
      BY <1>1, <1>2, <1>3, <1>4 DEF TypeOK
    <2>5. unsaved' \in BOOLEAN  BY <1>2
    <2> QED  BY <1>1, <1>2, <1>3, <1>4, <2>1, <2>2, <2>3, <2>4, <2>5 DEF TypeOK
  <1>8. LockIsExact'  BY <1>2, <1>6 DEF LockIsExact, Holds
  <1>9. Began'  BY <1>1, <1>2, <1>6 DEF Began, TypeOK
  <1>10. Stored' /\ Durable'  BY <1>2 DEF Stored, Durable
  <1>11. HeldBack'  BY <1>6 DEF HeldBack
  <1>12. Accounted'  BY <1>2, <1>3 DEF Accounted
  <1>13. SharedOnlyIfExposed'
    BY <1>2, <1>3 DEF IInv, PoolKept, SharedOnlyIfExposed
  <1>14. Copies'  BY <1>2, <1>3, <1>6 DEF Copies
  <1> QED  BY <1>7, <1>8, <1>9, <1>10, <1>11, <1>12, <1>13, <1>14 DEF IInv, PoolKept

LEMMA StutterKeeps ==
  ASSUME IInv, UNCHANGED vars
  PROVE  IInv'
  <1>1. TypeOK'  BY DEF vars, store, disk, work, ghosts, IInv, TypeOK, Call, Writers
  <1>2. LockIsExact' /\ Began'
    BY DEF vars, store, disk, work, ghosts, IInv, PoolKept, LockIsExact, Holds, Began
  <1>3. Stored' /\ Durable' /\ HeldBack'
    BY DEF vars, store, disk, work, ghosts, IInv, PoolKept, Stored, Durable, HeldBack, Prune
  <1>4. Accounted' /\ SharedOnlyIfExposed' /\ Copies'
    BY DEF vars, store, disk, work, ghosts, IInv, PoolKept, Accounted, SharedOnlyIfExposed,
           Copies, Handed, InCalls, Writers
  <1> QED  BY <1>1, <1>2, <1>3, <1>4 DEF IInv, PoolKept

-----------------------------------------------------------------------------
(* The theorems                                                               *)

LEMMA InitInvariant ==
  ASSUME Init
  PROVE  IInv
  <1> USE DEF Init
  <1>1. /\ NoCall.pc = "off" /\ NoCall.entries = {} /\ NoCall \in Call
    BY PoolConstants DEF NoCall, Call
  <1>2. \A e \in Calls : ensure[e] = NoCall  OBVIOUS
  <1>3. Handed = {} /\ Writers = {}  BY DEF Handed, Writers
  <1>4. TypeOK
    <2>1. /\ ensure \in [Calls -> Call] /\ got \in [Claims -> 0..made]
          /\ claim \in [Claims -> {"idle", "ensuring", "load", "direct", "done", "failed"}]
      BY <1>1
    <2>2. made \in 0..MaxWriters /\ restarts \in 0..MaxRestarts  BY PoolConstants
    <2> QED  BY <2>1, <2>2 DEF TypeOK
  <1>5. LockIsExact /\ Began /\ HeldBack
    BY <1>1, <1>2, CallsAre DEF LockIsExact, Holds, Began, HeldBack
  <1>6. Stored /\ Durable  BY DEF Stored, Durable
  <1>7. Accounted  BY <1>3 DEF Accounted
  <1>8. SharedOnlyIfExposed /\ Copies
    BY <1>1, <1>2, <1>3 DEF SharedOnlyIfExposed, Copies
  <1> QED  BY <1>4, <1>5, <1>6, <1>7, <1>8 DEF IInv, PoolKept

LEMMA StepInvariant ==
  ASSUME IInv, [Next]_vars
  PROVE  IInv'
  <1>1. CASE \E c \in Claims : Request(c) \/ ClaimStep(c)
    BY <1>1, RequestKeeps, LoadedClaimKeeps, DirectKeeps, DirectFailKeeps DEF ClaimStep
  <1>2. CASE \E e \in Calls : CallStep(e)
    <2> SUFFICES ASSUME NEW e \in Calls, CallStep(e)  PROVE IInv'
      BY <1>2
    <2>1. CASE Refuse(e)  BY <2>1, RefuseKeeps, RefuseReadsKeeps
    <2> QED
      BY <2>1, BeginKeeps, LoadedCallKeeps, ProvisionKeeps, SaveKeeps, FailKeeps DEF CallStep
  <1>3. CASE OthersLoad \/ Loaded \/ Flush \/ WriteFails \/ Crash
    BY <1>3, OthersLoadKeeps, LoadedKeeps, FlushKeeps, WriteFailsKeeps, CrashKeeps
  <1>4. CASE \E s \in writing : Written(s)  BY <1>4, WrittenKeeps
  <1>5. CASE \E w \in Writers : Expire(w)  BY <1>5, ExpireKeeps
  <1>6. CASE UNCHANGED vars  BY <1>6, StutterKeeps
  <1> QED  BY <1>1, <1>2, <1>3, <1>4, <1>5, <1>6 DEF Next

(* Whatever overlaps, fails, expires or crashes, for any number of            *)
(* invitations: no writer of the pool is dropped silently, in memory or on    *)
(* disk, or given out twice but by the overlaps PoolKept names, and the lock  *)
(* of ensureClosedJoinWriterPool is never left behind.                        *)
THEOREM WritersKept == Spec => []PoolKept
  <1>1. Init => IInv  BY InitInvariant
  <1>2. IInv /\ [Next]_vars => IInv'  BY StepInvariant
  <1>3. IInv => PoolKept  BY DEF IInv
  <1> QED  BY <1>1, <1>2, <1>3, PTL DEF Spec

\* A command that ends answers with a writer that had not expired.
LEMMA SettledFresh ==
  ASSUME NEW p, NEW en, Settled(p, en), NEW c \in Claims, got'[c] # got[c]
  PROVE  got'[c] \notin expired
  BY DEF Settled, Prune

LEMMA ReturnFresh ==
  ASSUME IInv, NEW e \in Calls, NEW p, Return(e, p), ensure[e].pc # "off",
         made' \in Nat, made <= made', p \subseteq 1..made'
  PROVE  \A c \in Claims : got'[c] # got[c] => got'[c] \notin expired
  <1>1. Settled(p, [ensure EXCEPT ![e] = NoCall])  BY ReturnSettles DEF IInv
  <1> DEFINE en == [ensure EXCEPT ![e] = NoCall]
  <1> HIDE DEF en
  <1>2. Settled(p, en)  BY <1>1 DEF en
  <1> QED  BY <1>2, SettledFresh

LEMMA StepFresh ==
  ASSUME IInv, [Next]_vars
  PROVE  \A c \in Claims : got'[c] # got[c] => got'[c] \notin expired
  <1>1. /\ TypeOK /\ Began /\ made \in Nat /\ expired \subseteq 1..made
        /\ pool \subseteq 1..made /\ \A e \in Calls : ensure[e].entries \subseteq 1..made
    BY TypeFacts DEF IInv
  <1>2. ASSUME NEW c \in Claims, LoadedClaim(c)
        PROVE  \A d \in Claims : got'[d] # got[d] => got'[d] \notin expired
    <2>1. /\ claim[c] = "load" /\ Take(c, pool, ensure) /\ made' = made
      BY <1>2 DEF LoadedClaim
    <2>2. /\ ensure \in [Calls -> Call'] /\ claim[c] # "done"
          /\ made' \in Nat /\ made <= made' /\ pool \subseteq 1..made'
      BY <1>1, <2>1 DEF TypeOK, Call, Writers
    <2>3. /\ ensure[<<"claim", c>>].pc = "off"
          /\ ensure[<<"topup", c>>].pc = "off" /\ ensure[<<"topup", c>>].entries = {}
      BY <1>1, <2>1, CallsAre DEF Began
    <2>4. Settled(pool, ensure)  BY <1>1, <2>1, <2>2, <2>3, TakeSettles
    <2> QED  BY <2>4, SettledFresh
  <1>3. ASSUME NEW c \in Claims, Direct(c)
        PROVE  \A d \in Claims : got'[d] # got[d] => got'[d] \notin expired
    <2>1. made' \notin expired
      <3>1. made' = made + 1  BY <1>3 DEF Direct
      <3> QED  BY <1>1, <3>1
    <2>2. got' = [got EXCEPT ![c] = made']  BY <1>3 DEF Direct
    <2> QED  BY <1>1, <2>1, <2>2 DEF TypeOK
  <1>4. ASSUME NEW e \in Calls, Refuse(e) \/ Fail(e)
        PROVE  \A d \in Claims : got'[d] # got[d] => got'[d] \notin expired
    <2>1. CASE UNCHANGED got  BY <2>1
    <2>2. CASE Return(e, pool)
      <3>1. made' = made /\ ensure[e].pc # "off"  BY <1>4 DEF Refuse, Fail
      <3>2. made' \in Nat /\ made <= made' /\ pool \subseteq 1..made'  BY <1>1, <3>1
      <3> QED  BY <2>2, <3>1, <3>2, ReturnFresh
    <2> QED  BY <1>4, <2>1, <2>2 DEF Refuse, Fail
  <1>5. ASSUME NEW e \in Calls, Save(e)
        PROVE  \A d \in Claims : got'[d] # got[d] => got'[d] \notin expired
    <2> DEFINE p == Prune(ensure[e].entries \cup {made'})
    <2>1. made' = made + 1 /\ ensure[e].pc # "off" /\ Return(e, p)  BY <1>5 DEF Save
    <2>2. p \subseteq ensure[e].entries \cup {made'}  BY DEF Prune
    <2> HIDE DEF p
    <2>3. made' \in Nat /\ made <= made' /\ p \subseteq 1..made'  BY <1>1, <2>1, <2>2
    <2> QED  BY <2>1, <2>3, ReturnFresh
  <1>6. CASE UNCHANGED got  BY <1>6
  <1>7. UNCHANGED got \/ (\E c \in Claims : LoadedClaim(c) \/ Direct(c))
          \/ (\E e \in Calls : Refuse(e) \/ Fail(e) \/ Save(e))
    BY DEF Next, ClaimStep, CallStep, Request, DirectFail, Begin, LoadedCall, Provision,
           OthersLoad, Loaded, Flush, WriteFails, Crash, Written, Expire, vars, work
  <1> QED  BY <1>2, <1>3, <1>4, <1>5, <1>6, <1>7

(* However long a writer was in the pool, in a call or on disk, no command    *)
(* answers with one that has expired (pruneWriterPoolEntries before the first *)
(* entry is taken).                                                           *)
THEOREM AnswersAreFresh == Spec => NeverExpired
  <1>1. Init => IInv  BY InitInvariant
  <1>2. IInv /\ [Next]_vars => IInv'  BY StepInvariant
  <1>3. IInv /\ [Next]_vars
          => [\A c \in Claims : got'[c] # got[c] => got'[c] \notin expired]_vars
    BY StepFresh
  <1> QED  BY <1>1, <1>2, <1>3, PTL DEF Spec, NeverExpired

-----------------------------------------------------------------------------
(* The tokens of the public gateway                                           *)

Why == {"none", "sync", "timer", "api", "warm"}

\* A call that looks after the token: its failure arms the timer.
Looks(s) == s.pc \in RefreshSteps /\ s.why # "api"
Looked == \E t \in Tasks : Looks(task[t])
Armed == token.id # 0 => tokenTimer \/ Looked
\* The invariant is the property, and that what is shown as nothing has no token.
Shown ==
  /\ shown.id # 0 => shown.id = token.id
  /\ shown.status = "registered" => shown.id = token.id
  /\ shown.status = "none" => shown.id = 0
InPool == {t \in Tasks : task[t].pc \in PoolSteps}
PoolHeld == IF poolLock THEN \E t \in InPool : InPool = {t} ELSE InPool = {}
TokenInv == TokenTypeOK /\ Armed /\ Shown /\ PoolHeld

\* A call goes on to a state that it can be in.
Moves(t, s) == s \in TaskStates /\ Does(t, s)

\* The states of a call.
LEMMA NewTaskTyped ==
  ASSUME TokenConstants, NEW pc \in Steps, NEW why \in Why, NEW kind \in Kinds \union {"none"},
         NEW flag \in BOOLEAN
  PROVE  /\ NewTask(pc, why, kind, flag) \in TaskStates
         /\ NewTask(pc, why, kind, flag).pc = pc /\ NewTask(pc, why, kind, flag).why = why
  BY DEF TokenConstants, Why, NewTask, TaskStates

LEMMA IdleTyped ==
  ASSUME TokenConstants
  PROVE  Idle \in TaskStates /\ Idle.pc = "idle"
  BY DEF TokenConstants, Idle, NewTask, TaskStates, Steps

LEMMA StepNames ==
  /\ \A pc \in {"idle", "route", "register", "config", "resync"} : pc \in Steps
  /\ PoolSteps \subseteq Steps /\ RefreshSteps \subseteq Steps
  /\ \A pc \in {"preflight", "provision", "update"} : pc \in PoolSteps
  /\ \A pc \in {"refresh", "renew", "issueroute", "issue"} : pc \in RefreshSteps
  BY DEF Steps, PoolSteps, RefreshSteps

LEMMA ShownTyped ==
  ASSUME TokenConstants, NEW status \in {"none", "error", "registered"}, NEW id \in 0..MaxTokens
  PROVE  [status |-> status, id |-> id] \in ShownStates
  BY DEF ShownStates

LEMMA NothingTyped ==
  ASSUME TokenConstants
  PROVE  /\ NoState \in ShownStates /\ NoToken \in TokenStates
         /\ [status |-> "error", id |-> 0] \in ShownStates
  BY DEF TokenConstants, NoState, NoToken, ShownStates, TokenStates

LEMMA RefreshTyped ==
  ASSUME TokenConstants, NEW why \in Why, NEW flag \in BOOLEAN
  PROVE  /\ NewTask("refresh", why, "none", flag) \in TaskStates
         /\ NewTask("refresh", why, "none", flag).pc = "refresh"
         /\ NewTask("refresh", why, "none", flag).why = why
  <1>1. "refresh" \in Steps /\ "none" \in Kinds \union {"none"}  BY StepNames
  <1> QED  BY <1>1, NewTaskTyped

LEMMA RouteTyped ==
  ASSUME TokenConstants, NEW kind \in Kinds \union {"none"}
  PROVE  /\ NewTask("route", "sync", kind, FALSE) \in TaskStates
         /\ NewTask("route", "sync", kind, FALSE).pc = "route"
  <1>1. "route" \in Steps /\ "sync" \in Why  BY StepNames DEF Why
  <1> QED  BY <1>1, NewTaskTyped

LEMMA GoesTyped ==
  ASSUME TokenTypeOK, NEW t \in Tasks, NEW pc \in Steps, Goes(t, pc)
  PROVE  \E s \in TaskStates : Moves(t, s) /\ s.pc = pc /\ s.why = task[t].why
  BY DEF TokenTypeOK, Goes, Moves, TaskStates

LEMMA Moved ==
  ASSUME TokenTypeOK, NEW t \in Tasks, NEW s \in TaskStates, Does(t, s)
  PROVE  /\ task' \in [Tasks -> TaskStates] /\ task'[t] = s
         /\ \A u \in Tasks \ {t} : task'[u] = task[u]
  BY DEF TokenTypeOK, Does

\* What the move of one call does to the others: a token that is looked after
\* still is, and the calls of the pool are the same.
LEMMA MovesArmed ==
  ASSUME TokenTypeOK, NEW t \in Tasks, NEW s \in TaskStates, Does(t, s),
         Looks(task[t]) => Looks(s)
  PROVE  Looked => Looked'
  BY Moved DEF Looked

LEMMA MovesPool ==
  ASSUME TokenTypeOK, NEW t \in Tasks, NEW s \in TaskStates, Does(t, s),
         task[t].pc \in PoolSteps <=> s.pc \in PoolSteps
  PROVE  InPool' = InPool
  BY Moved DEF InPool

LEMMA TokenStart ==
  ASSUME TokenConstants, TokenInit
  PROVE  TokenInv
  <1>1. Idle.pc \notin PoolSteps  BY IdleTyped DEF PoolSteps
  <1>2. TokenTypeOK
    <2>1. task \in [Tasks -> TaskStates]  BY IdleTyped DEF TokenInit
    <2>2. auth \in 0..MaxAuth /\ issued \in 0..MaxTokens /\ changes \in 0..MaxChanges
      BY DEF TokenConstants, TokenInit
    <2>3. shown \in ShownStates /\ token \in TokenStates  BY NothingTyped DEF TokenInit
    <2> QED  BY <2>1, <2>2, <2>3 DEF TokenInit, TokenTypeOK
  <1>3. PoolHeld  BY <1>1 DEF TokenInit, PoolHeld, InPool
  <1> QED  BY <1>2, <1>3 DEF TokenInit, TokenInv, Armed, Shown, NoState, NoToken

(* A sync starts or ends.                                                     *)
LEMMA SyncStartsKeeps ==
  ASSUME TokenConstants, TokenInv, NEW t \in Tasks, NEW kind \in Kinds \union {"none"}, SyncStarts(t, kind),
         task[t].pc \in {"idle", "resync"},
         entry' \in Kinds \union {"none"}, UNCHANGED <<enabled, poolLock, auth, issued, changes>>
  PROVE  TokenInv'
  <1> USE DEF TokenInv
  <1>1. PICK s \in TaskStates : Does(t, s) /\ s.pc \in {"idle", "route"}
    <2>1. /\ NewTask("route", "sync", kind, FALSE) \in TaskStates
          /\ NewTask("route", "sync", kind, FALSE).pc = "route"  BY RouteTyped
    <2> QED  BY <2>1, IdleTyped DEF SyncStarts, Ends
  <1>2. \/ UNCHANGED <<shown, token, tokenTimer>>
        \/ token' = NoToken /\ tokenTimer' = FALSE /\ shown' = NoState
    BY DEF SyncStarts, Forget
  <1>3. TokenTypeOK'
    <2>1. task' \in [Tasks -> TaskStates]  BY <1>1, Moved
    <2> QED  BY <1>2, <2>1, NothingTyped DEF TokenTypeOK
  <1>4. Armed'
    <2>1. ~Looks(task[t])  BY DEF Looks, RefreshSteps
    <2> QED  BY <1>1, <1>2, <2>1, MovesArmed DEF Armed, NoToken
  <1>5. Shown'  BY <1>2 DEF Shown, NoToken, NoState
  <1>6. PoolHeld'  BY <1>1, MovesPool DEF PoolHeld, PoolSteps
  <1> QED  BY <1>3, <1>4, <1>5, <1>6

\* A call that begins.
LEMMA CallStarts ==
  ASSUME TokenConstants, TokenInv, NEW t \in Callers,
         RegisterPeer(t) \/ Sync(t) \/ KeepWarm(t) \/ Issue(t) \/ Configure(t)
  PROVE  TokenInv'
  <1> USE DEF TokenInv
  <1>1. t \in Tasks /\ task[t].pc = "idle"
    BY IdleTyped DEF Tasks, RegisterPeer, Sync, KeepWarm, Issue, Configure
  <1>2. CASE RegisterPeer(t)  BY <1>1, <1>2, SyncStartsKeeps DEF RegisterPeer
  <1>3. CASE Sync(t)  BY <1>1, <1>3, SyncStartsKeeps DEF Sync, TokenTypeOK
  <1>4. CASE KeepWarm(t)
    <2>1. PICK s \in TaskStates : Does(t, s) /\ s.pc = "preflight"
      <3>1. entry \in Kinds \union {"none"}  BY DEF TokenTypeOK
      <3>2. "preflight" \in Steps /\ "warm" \in Why  BY StepNames DEF Why
      <3>3. /\ NewTask("preflight", "warm", entry, FALSE) \in TaskStates
            /\ NewTask("preflight", "warm", entry, FALSE).pc = "preflight"
        BY <3>1, <3>2, NewTaskTyped
      <3> QED  BY <1>4, <3>3 DEF KeepWarm
    <2>2. TokenTypeOK'  BY <1>1, <1>4, <2>1, Moved DEF KeepWarm, TokenTypeOK
    <2>3. ~Looks(task[t])  BY <1>1 DEF Looks, RefreshSteps
    <2>4. Armed'  BY <1>1, <1>4, <2>1, <2>3, MovesArmed DEF KeepWarm, Armed
    <2>5. Shown'  BY <1>4 DEF KeepWarm, Shown
    <2>6. InPool' = {t}
      <3>1. InPool = {}  BY <1>4 DEF KeepWarm, PoolHeld
      <3> QED  BY <1>1, <2>1, <3>1, Moved DEF InPool, PoolSteps
    <2>7. PoolHeld'  BY <1>4, <2>6 DEF KeepWarm, PoolHeld
    <2> QED  BY <2>2, <2>4, <2>5, <2>7
  <1>5. CASE Issue(t) \/ Configure(t)
    <2>1. PICK s \in TaskStates : Does(t, s) /\ s.pc \in {"issueroute", "config"}
      <3>1. /\ NewTask("issueroute", "api", "none", FALSE) \in TaskStates
            /\ NewTask("issueroute", "api", "none", FALSE).pc = "issueroute"
        <4>1. "issueroute" \in Steps /\ "api" \in Why /\ "none" \in Kinds \union {"none"}
          BY StepNames DEF Why
        <4> QED  BY <4>1, NewTaskTyped
      <3>2. ASSUME NEW on \in BOOLEAN
            PROVE  /\ NewTask("config", "none", "none", on) \in TaskStates
                   /\ NewTask("config", "none", "none", on).pc = "config"
        <4>1. "config" \in Steps /\ "none" \in Why /\ "none" \in Kinds \union {"none"}
          BY StepNames DEF Why
        <4> QED  BY <4>1, NewTaskTyped
      <3> QED  BY <1>5, <3>1, <3>2 DEF Issue, Configure
    <2>2. /\ changes' = changes \/ (changes < MaxChanges /\ changes' = changes + 1)
          /\ UNCHANGED <<enabled, entry, shown, token, tokenTimer, poolLock, auth, issued>>
      <3>1. CASE Issue(t)  BY <3>1 DEF Issue
      <3>2. CASE Configure(t)  BY <3>2 DEF Configure
      <3> QED  BY <1>5, <3>1, <3>2
    <2>3. TokenTypeOK'
      <3>1. task' \in [Tasks -> TaskStates]  BY <1>1, <2>1, Moved
      <3>2. changes' \in 0..MaxChanges  BY <2>2 DEF TokenTypeOK, TokenConstants
      <3> QED  BY <2>2, <3>1, <3>2 DEF TokenTypeOK
    <2>4. ~Looks(task[t])  BY <1>1 DEF Looks, RefreshSteps
    <2>5. Armed'  BY <1>1, <2>1, <2>2, <2>4, MovesArmed DEF Armed
    <2>6. Shown'  BY <2>2 DEF Shown
    <2>7. PoolHeld'  BY <1>1, <2>1, <2>2, MovesPool DEF PoolHeld, PoolSteps
    <2> QED  BY <2>3, <2>5, <2>6, <2>7
  <1> QED  BY <1>2, <1>3, <1>4, <1>5

\* The steps of a sync before it is registered, and a change of the settings.
LEMMA SyncKeeps ==
  ASSUME TokenConstants, TokenInv, NEW t \in Tasks, SyncRoute(t) \/ Resync(t) \/ Configured(t)
  PROVE  TokenInv'
  <1> USE DEF TokenInv
  <1>1. CASE Resync(t) /\ ~(entry = "none" /\ enabled)
    BY <1>1, SyncStartsKeeps DEF Resync, TokenTypeOK
  <1>2. CASE ~(Resync(t) /\ ~(entry = "none" /\ enabled))
    <2>1. PICK s \in TaskStates : Does(t, s) /\ s.pc \in {"idle", "register", "resync"}
      BY <1>2, IdleTyped, GoesTyped DEF SyncRoute, Resync, Configured, Ends, Steps, Moves
    <2>2. \/ UNCHANGED <<shown, token, tokenTimer>>
          \/ /\ token' = NoToken /\ tokenTimer' = FALSE
             /\ shown' = NoState \/ shown' = [status |-> "error", id |-> 0]
      BY <1>2 DEF SyncRoute, Resync, Configured, Forget, Shows
    <2>3. task[t].pc \in {"route", "resync", "config"} /\ UNCHANGED <<entry, poolLock, auth, issued, changes>>
      BY DEF SyncRoute, Resync, Configured
    <2>4. enabled' \in BOOLEAN
      BY DEF SyncRoute, Resync, Configured, TokenTypeOK, TaskStates
    <2>5. TokenTypeOK'
      <3>1. task' \in [Tasks -> TaskStates]  BY <2>1, Moved
      <3> QED  BY <2>2, <2>3, <2>4, <3>1, NothingTyped DEF TokenTypeOK
    <2>6. ~Looks(task[t])  BY <2>3 DEF Looks, RefreshSteps
    <2>7. Armed'  BY <2>1, <2>2, <2>6, MovesArmed DEF Armed, NoToken
    <2>8. Shown'  BY <2>2 DEF Shown, NoToken, NoState
    <2>9. PoolHeld'  BY <2>1, <2>3, MovesPool DEF PoolHeld, PoolSteps
    <2> QED  BY <2>5, <2>7, <2>8, <2>9
  <1> QED  BY <1>1, <1>2

(* The registration is answered, and the pool may end: a refresh starts.      *)
LEMMA RegisterAnswerKeeps ==
  ASSUME TokenConstants, TokenInv, NEW t \in Tasks, RegisterAnswer(t)
  PROVE  TokenInv'
  <1> USE DEF TokenInv
  <1>1. task[t].pc = "register" /\ UNCHANGED <<enabled, auth, issued, changes>>  BY DEF RegisterAnswer
  <1>2. ~Looks(task[t])  BY <1>1 DEF Looks, RefreshSteps
  <1>3. entry' \in Kinds \union {"none"}  BY DEF RegisterAnswer, TokenTypeOK, TaskStates
  <1>4. CASE Registered(t) /\ UNCHANGED <<token, tokenTimer, poolLock>>
    <2>1. PICK s \in TaskStates : Does(t, s) /\ s.pc = "refresh"
      BY <1>4, RefreshTyped DEF Registered, Why
    <2>2. shown' = [status |-> "registered", id |-> token.id]  BY <1>4 DEF Registered, Shows
    <2>3. TokenTypeOK'
      <3>1. task' \in [Tasks -> TaskStates]  BY <2>1, Moved
      <3>2. token.id \in 0..MaxTokens  BY DEF TokenTypeOK, TokenStates
      <3>3. shown' \in ShownStates  BY <2>2, <3>2, ShownTyped
      <3> QED  BY <1>1, <1>3, <1>4, <3>1, <3>3 DEF TokenTypeOK
    <2>4. Armed'  BY <1>2, <1>4, <2>1, MovesArmed DEF Armed
    <2>5. Shown'  BY <1>4, <2>2 DEF Shown
    <2>6. PoolHeld'  BY <1>1, <1>4, <2>1, MovesPool DEF PoolHeld, PoolSteps
    <2> QED  BY <2>3, <2>4, <2>5, <2>6
  <1>5. CASE Goes(t, "preflight") /\ ~poolLock /\ poolLock' = TRUE /\ UNCHANGED <<token, tokenTimer, shown>>
    <2>1. PICK s \in TaskStates : Does(t, s) /\ s.pc = "preflight"
      BY <1>5, GoesTyped DEF Steps, PoolSteps, Moves
    <2>2. TokenTypeOK'  BY <1>1, <1>3, <1>5, <2>1, Moved DEF TokenTypeOK
    <2>3. Armed'  BY <1>2, <1>5, <2>1, MovesArmed DEF Armed
    <2>4. Shown'  BY <1>5 DEF Shown
    <2>5. InPool' = {t}
      <3>1. InPool = {}  BY <1>5 DEF PoolHeld
      <3> QED  BY <2>1, <3>1, Moved DEF InPool, PoolSteps
    <2>6. PoolHeld'  BY <1>5, <2>5 DEF PoolHeld
    <2> QED  BY <2>2, <2>3, <2>4, <2>6
  <1>6. CASE Shows("error", 0) /\ tokenTimer' = TRUE /\ Ends(t) /\ UNCHANGED <<token, poolLock>>
    <2>1. PICK s \in TaskStates : Does(t, s) /\ s.pc = "idle"  BY <1>6, IdleTyped DEF Ends
    <2>2. shown' = [status |-> "error", id |-> 0]  BY <1>6 DEF Shows
    <2>3. TokenTypeOK'
      BY <1>1, <1>3, <1>6, <2>1, <2>2, Moved, NothingTyped DEF TokenTypeOK
    <2>4. Armed'  BY <1>6 DEF Armed
    <2>5. Shown'  BY <2>2 DEF Shown
    <2>6. PoolHeld'  BY <1>1, <1>6, <2>1, MovesPool DEF PoolHeld, PoolSteps
    <2> QED  BY <2>3, <2>4, <2>5, <2>6
  <1> QED  BY <1>4, <1>5, <1>6 DEF RegisterAnswer

\* The call that holds the lock is the only one in the pool, and leaves both.
LEMMA PoolStepKeeps ==
  ASSUME TokenConstants, TokenInv, NEW t \in Tasks, PoolStep(t)
  PROVE  TokenInv'
  <1> USE DEF TokenInv
  <1>1. task[t].pc \in PoolSteps /\ UNCHANGED <<enabled, entry, token, tokenTimer, auth, issued, changes>>
    BY DEF PoolStep, PoolSteps
  <1>2. ~Looks(task[t])  BY <1>1 DEF Looks, RefreshSteps, PoolSteps
  <1>3. CASE PoolEnds(t)
    <2>1. PICK s \in TaskStates : Does(t, s) /\ s.pc \in {"idle", "refresh"}
      BY <1>3, RefreshTyped, IdleTyped DEF PoolEnds, Ends, Registered, Why
    <2>2. poolLock' = FALSE /\ (UNCHANGED shown \/ shown' = [status |-> "registered", id |-> token.id])
      BY <1>3 DEF PoolEnds, Registered, Shows
    <2>3. TokenTypeOK'
      <3>1. task' \in [Tasks -> TaskStates]  BY <2>1, Moved
      <3>2. token.id \in 0..MaxTokens  BY DEF TokenTypeOK, TokenStates
      <3>3. shown' \in ShownStates /\ poolLock' \in BOOLEAN  BY <2>2, <3>2, ShownTyped DEF TokenTypeOK
      <3> QED  BY <1>1, <3>1, <3>3 DEF TokenTypeOK
    <2>4. Armed'  BY <1>1, <1>2, <2>1, MovesArmed DEF Armed
    <2>5. Shown'  BY <1>1, <2>2 DEF Shown
    <2>6. InPool = {t}  BY <1>1 DEF PoolHeld, InPool
    <2>7. InPool' = {}  BY <2>1, <2>6, Moved DEF InPool, PoolSteps
    <2> QED  BY <2>2, <2>3, <2>4, <2>5, <2>7 DEF PoolHeld
  <1>4. CASE ~PoolEnds(t)
    <2>1. PICK s \in TaskStates : Does(t, s) /\ s.pc \in PoolSteps
      <3>1. [task[t] EXCEPT !.pc = "provision", !.tries = 1] \in TaskStates
        <4>1. task[t] \in TaskStates /\ "provision" \in Steps /\ 1 \in 0..1
          BY StepNames DEF TokenTypeOK
        <4> QED  BY <4>1 DEF TaskStates
      <3>2. [task[t] EXCEPT !.pc = "provision", !.tries = 1].pc = "provision"
        BY DEF TokenTypeOK, TaskStates
      <3> QED  BY <1>4, <3>1, <3>2, GoesTyped, ZenonT(40) DEF PoolStep, Steps, PoolSteps, Moves
    <2>2. UNCHANGED <<poolLock, shown>>  BY <1>4 DEF PoolStep
    <2>3. TokenTypeOK'  BY <1>1, <2>1, <2>2, Moved DEF TokenTypeOK
    <2>4. Armed'  BY <1>1, <1>2, <2>1, MovesArmed DEF Armed
    <2>5. Shown'  BY <1>1, <2>2 DEF Shown
    <2>6. PoolHeld'  BY <1>1, <2>1, <2>2, MovesPool DEF PoolHeld
    <2> QED  BY <2>3, <2>4, <2>5, <2>6
  <1> QED  BY <1>3, <1>4

\* The refresh that the timer starts takes its place.
LEMMA TimerFiresKeeps ==
  ASSUME TokenConstants, TokenInv, TimerFires
  PROVE  TokenInv'
  <1> USE DEF TokenInv
  <1>1. TimerTask \in Tasks  BY DEF Tasks
  <1>2. PICK s \in TaskStates : Does(TimerTask, s) /\ s.pc = "refresh" /\ s.why = "timer"
    BY RefreshTyped DEF TimerFires, Why
  <1>3. task[TimerTask].pc = "idle"  BY IdleTyped DEF TimerFires
  <1>4. TokenTypeOK'  BY <1>1, <1>2, Moved DEF TimerFires, TokenTypeOK
  <1>5. Looked'
    <2>1. task'[TimerTask] = s  BY <1>1, <1>2, Moved
    <2> QED  BY <1>1, <1>2, <2>1 DEF Looked, Looks, RefreshSteps
  <1>6. Armed'  BY <1>5 DEF Armed
  <1>7. Shown'  BY DEF TimerFires, Shown
  <1>8. PoolHeld'  BY <1>1, <1>2, <1>3, MovesPool DEF TimerFires, PoolHeld, PoolSteps
  <1> QED  BY <1>4, <1>6, <1>7, <1>8

(* A refresh goes on looking after the token, or drops it, or arms its timer. *)
LEMMA RefreshKeeps ==
  ASSUME TokenConstants, TokenInv, NEW t \in Tasks, Refresh(t)
  PROVE  TokenInv'
  <1> USE DEF TokenInv
  <1>1. task[t].pc = "refresh" /\ UNCHANGED <<enabled, entry, poolLock, auth, issued, changes>>
    BY DEF Refresh
  <1>2. PICK s \in TaskStates : Does(t, s) /\ s.pc \notin PoolSteps
                                /\ ((s.pc \in RefreshSteps /\ s.why = task[t].why)
                                     \/ token'.id = 0)
    <2>1. [task[t] EXCEPT !.pc = "renew", !.auth = auth] \in TaskStates
      BY DEF TokenTypeOK, TaskStates, Steps, RefreshSteps
    <2>2. /\ [task[t] EXCEPT !.pc = "renew", !.auth = auth].pc = "renew"
          /\ [task[t] EXCEPT !.pc = "renew", !.auth = auth].why = task[t].why
      BY DEF TokenTypeOK, TaskStates
    <2>3. CASE Ends(t) /\ token' = NoToken  BY <2>3, IdleTyped DEF Ends, NoToken, PoolSteps
    <2>4. CASE Goes(t, "issueroute")
      BY <2>4, GoesTyped DEF Steps, RefreshSteps, PoolSteps, Moves
    <2>5. CASE Does(t, [task[t] EXCEPT !.pc = "renew", !.auth = auth])
      BY <2>1, <2>2, <2>5 DEF RefreshSteps, PoolSteps
    <2> QED  BY <2>3, <2>4, <2>5 DEF Refresh, Clear
  <1>3. \/ token' = NoToken /\ tokenTimer' \in BOOLEAN /\ shown' = [shown EXCEPT !.id = 0]
        \/ /\ token' = token \/ token' = [token EXCEPT !.auth = auth]
           /\ UNCHANGED <<tokenTimer, shown>>
    BY DEF Refresh, Clear
  <1>4. TokenTypeOK'
    <2>1. task' \in [Tasks -> TaskStates]  BY <1>2, Moved
    <2>2. shown' \in ShownStates /\ token' \in TokenStates
      BY <1>3, NothingTyped DEF TokenTypeOK, TokenConstants, ShownStates, TokenStates
    <2> QED  BY <1>1, <1>3, <2>1, <2>2 DEF TokenTypeOK
  <1>5. Armed'
    <2>1. token'.id # 0 => token.id # 0 /\ tokenTimer' = tokenTimer
      BY <1>3 DEF TokenTypeOK, TokenStates, NoToken
    <2>2. token'.id # 0 => (Looks(task[t]) => Looks(s))  BY <1>2 DEF Looks
    <2> QED  BY <1>2, <2>1, <2>2, MovesArmed DEF Armed
  <1>6. Shown'  BY <1>3 DEF Shown, TokenTypeOK, ShownStates, TokenStates, NoToken
  <1>7. PoolHeld'  BY <1>1, <1>2, MovesPool DEF PoolHeld, PoolSteps
  <1> QED  BY <1>4, <1>5, <1>6, <1>7

\* The last steps of a refresh or of a call: a failure arms the timer.
LEMMA IssueKeeps ==
  ASSUME TokenConstants, TokenInv, NEW t \in Tasks, IssueRoute(t) \/ Renewed(t) \/ Issued(t)
  PROVE  TokenInv'
  <1> USE DEF TokenInv
  <1>1. /\ task[t].pc \in {"issueroute", "renew", "issue"}
        /\ UNCHANGED <<enabled, entry, poolLock, auth, changes>>
    BY DEF IssueRoute, Renewed, Issued
  <1>2. task[t].pc \notin PoolSteps  BY <1>1 DEF PoolSteps
  <1>3. CASE Fails(t)
    <2>1. PICK s \in TaskStates : Does(t, s) /\ s.pc = "idle"  BY <1>3, IdleTyped DEF Fails, Ends
    <2>2. tokenTimer' = (tokenTimer \/ task[t].why # "api") /\ UNCHANGED <<shown, token, issued>>
      BY <1>3 DEF Fails
    <2>3. tokenTimer' \in BOOLEAN  BY <2>2 DEF TokenTypeOK
    <2>4. TokenTypeOK'  BY <1>1, <2>1, <2>2, <2>3, Moved DEF TokenTypeOK
    <2>5. Armed'  BY <2>1, <2>2, MovesArmed DEF Armed, Looks
    <2>6. Shown'  BY <2>2 DEF Shown
    <2>7. PoolHeld'  BY <1>1, <1>2, <2>1, MovesPool DEF PoolHeld, PoolSteps
    <2> QED  BY <2>4, <2>5, <2>6, <2>7
  <1>4. CASE /\ Does(t, [task[t] EXCEPT !.pc = "issue", !.auth = auth])
             /\ UNCHANGED <<shown, token, tokenTimer, issued>>
    <2>1. PICK s \in TaskStates : Does(t, s) /\ s.pc = "issue" /\ s.why = task[t].why
      <3>1. [task[t] EXCEPT !.pc = "issue", !.auth = auth] \in TaskStates
        BY DEF TokenTypeOK, TaskStates, Steps, RefreshSteps
      <3>2. /\ [task[t] EXCEPT !.pc = "issue", !.auth = auth].pc = "issue"
            /\ [task[t] EXCEPT !.pc = "issue", !.auth = auth].why = task[t].why
        BY DEF TokenTypeOK, TaskStates
      <3> QED  BY <1>4, <3>1, <3>2
    <2>2. TokenTypeOK'  BY <1>1, <1>4, <2>1, Moved DEF TokenTypeOK
    <2>3. Looks(task[t]) => Looks(s)  BY <2>1 DEF Looks, RefreshSteps
    <2>4. Armed'  BY <1>4, <2>1, <2>3, MovesArmed DEF Armed
    <2>5. Shown'  BY <1>4 DEF Shown
    <2>6. PoolHeld'  BY <1>1, <1>2, <2>1, MovesPool DEF PoolHeld, PoolSteps
    <2> QED  BY <2>2, <2>4, <2>5, <2>6
  <1>5. CASE issued < MaxTokens /\ Record(task[t].auth) /\ Ends(t)
    <2>1. PICK s \in TaskStates : Does(t, s) /\ s.pc = "idle"  BY <1>5, IdleTyped DEF Ends
    <2>2. task[t].auth \in 0..MaxAuth  BY DEF TokenTypeOK, TaskStates
    <2>3. TokenTypeOK'
      <3>1. task' \in [Tasks -> TaskStates]  BY <2>1, Moved
      <3>2. issued' \in 0..MaxTokens /\ issued' = issued + 1
        BY <1>5 DEF TokenTypeOK, TokenConstants, Record
      <3>3. shown' \in ShownStates
        BY <1>5, <3>2 DEF TokenTypeOK, Record, ShownStates
      <3>4. token' \in TokenStates /\ tokenTimer' = TRUE
        BY <1>5, <2>2, <3>2 DEF Record, TokenStates
      <3> QED  BY <1>1, <3>1, <3>2, <3>3, <3>4 DEF TokenTypeOK
    <2>4. Armed'  BY <1>5 DEF Armed, Record
    <2>5. Shown'  BY <1>5 DEF Shown, Record, TokenTypeOK, ShownStates
    <2>6. PoolHeld'  BY <1>1, <1>2, <2>1, MovesPool DEF PoolHeld, PoolSteps
    <2> QED  BY <2>3, <2>4, <2>5, <2>6
  <1> QED  BY <1>3, <1>4, <1>5 DEF IssueRoute, Renewed, Issued

LEMMA NewAuthKeeps ==
  ASSUME TokenConstants, TokenInv, NewAuth
  PROVE  TokenInv'
  BY DEF TokenConstants, TokenInv, NewAuth, TokenTypeOK, Armed, Looked, Shown, PoolHeld, InPool

LEMMA TokenIdles ==
  ASSUME TokenInv, UNCHANGED tokenVars
  PROVE  TokenInv'
  BY DEF tokenVars, TokenInv, TokenTypeOK, Armed, Looked, Shown, PoolHeld, InPool

LEMMA TokenSteps ==
  ASSUME TokenConstants, TokenInv, [TokenNext]_tokenVars
  PROVE  TokenInv'
  <1>1. ASSUME NEW t \in Tasks, TaskStep(t) PROVE TokenInv'
    BY <1>1, SyncKeeps, RegisterAnswerKeeps, PoolStepKeeps, RefreshKeeps, IssueKeeps DEF TaskStep
  <1> QED  BY <1>1, CallStarts, TimerFiresKeeps, NewAuthKeeps, TokenIdles DEF TokenNext

LEMMA TokenInvKept ==
  ASSUME TokenConstants
  PROVE  TokenSpec => []TokenInv
  <1>1. TokenInit => TokenInv  BY TokenStart
  <1>2. TokenInv /\ [TokenNext]_tokenVars => TokenInv'  BY TokenSteps
  <1> QED  BY <1>1, <1>2, PTL DEF TokenSpec

(* Whatever calls, logins, failures and changes of the settings overlap: a    *)
(* token that is kept is looked after, what is shown of it is the token, and  *)
(* exactly one call holds the lock of the pool (GatewayService's              *)
(* publicGatewayRelayTokens and openJoinPoolSyncLocks).                       *)
THEOREM TokensLookedAfter ==
  ASSUME TokenConstants
  PROVE  TokenSpec => []TokensKept
  <1>1. TokenInv => TokensKept
    BY DEF TokenInv, Armed, Looked, Looks, Shown, PoolHeld, InPool, TokensKept
  <1> QED  BY <1>1, TokenInvKept, PTL

-----------------------------------------------------------------------------
(* The sockets of the local gateway                                           *)

(* A frame that a client may send.                                            *)
SentFrames ==
  {f \in Frames : IF f.type = "EVENT" THEN f.key = AnEvent ELSE f.key \in Subs}

\* What waits and what is handled was sent by the client.
Queued ==
  /\ inbox \in Seq(SentFrames)
  /\ handler.pc # "idle" => handler.frame \in SentFrames
PollsNumbered ==
  [pc : {"idle", "find", "check", "resend", "events"}, had : BOOLEAN,
   todo : SUBSET (Subs \X (Nat \ {0}))]
Numbered ==
  /\ resend \in [Subs -> Nat] /\ wanted \in [Subs -> Nat]
  /\ poll \in PollsNumbered
\* The CLOSE that is handled is of a subscription that no later REQ wants.
ClosedIsUnwanted ==
  handler.pc # "idle" /\ handler.frame.type = "CLOSE" => wanted[handler.frame.key] = 0
LoopRuns == conn = "open" => loop # "ended"
SocketInv == Queued /\ Numbered /\ ClosedIsUnwanted /\ LoopRuns /\ RequestsKept

LEMMA SentFrame ==
  ASSUME NEW f \in SentFrames
  PROVE  /\ f.type \in FrameTypes /\ f.n \in 1..MaxFrames
         /\ f.type = "EVENT" => f.key = AnEvent
         /\ f.type # "EVENT" => f.key \in Subs
  BY DEF SentFrames, Frames

LEMMA PollsSome ==
  ASSUME NEW d, NEW r, NEW s \in Subs, s \in d \/ r[s] # 0
  PROVE  Polls(d, r)
  BY DEF Polls

LEMMA SocketStart ==
  ASSUME SocketInit
  PROVE  SocketInv
  <1>1. NoPoll \in PollsNumbered /\ <<>> \in Seq(SentFrames)  BY DEF NoPoll, PollsNumbered
  <1>2. [s \in Subs |-> 0] \in [Subs -> Nat]  OBVIOUS
  <1> QED
    BY <1>1, <1>2
    DEF SocketInit, SocketInv, Queued, Numbered, ClosedIsUnwanted, LoopRuns, RequestsKept, Free

(* No request is lost by a step that drops none of a client's subscriptions,  *)
(* and looks for what is left before it says that there is nothing to poll.   *)
LEMMA KeepsRequests ==
  ASSUME SocketInv, conn' = "open" => conn = "open", loop' = "ended" => loop = "ended" \/ conn' # "open",
         \A s \in Subs : wanted'[s] # 0 /\ conn' = "open" =>
           /\ wanted[s] # 0
           /\ s \in delegated \/ resend[s] # 0 => s \in delegated' \/ resend'[s] # 0,
         should /\ Polls(delegated', resend') /\ conn' = "open" => should'
  PROVE  RequestsKept'
  <1> SUFFICES ASSUME NEW s \in Subs, wanted'[s] # 0, conn' = "open"
               PROVE  (s \in delegated' \/ resend'[s] # 0) /\ loop' # "ended" /\ should'
    BY DEF RequestsKept
  <1>1. wanted[s] # 0 /\ conn = "open"  OBVIOUS
  <1>2. (s \in delegated \/ resend[s] # 0) /\ loop # "ended" /\ should
    BY <1>1 DEF SocketInv, RequestsKept
  <1>3. s \in delegated' \/ resend'[s] # 0  BY <1>2
  <1>4. Polls(delegated', resend')  BY <1>3, PollsSome
  <1> QED  BY <1>2, <1>3, <1>4

-----------------------------------------------------------------------------
(* The client.                                                                *)
LEMMA SendKeeps ==
  ASSUME SocketConstants, SocketInv, Send
  PROVE  SocketInv'
  <1> USE DEF SocketInv
  <1>1. PICK f \in Frames : inbox' = Append(inbox, f) /\ f \in SentFrames
    <2>1. PICK f \in Frames :
            /\ inbox' = Append(inbox, f)
            /\ \/ f.type = "REQ" /\ f.key \in Subs
               \/ f.type = "CLOSE" /\ f.key \in Closable
               \/ f.type = "EVENT" /\ f.key = AnEvent
      BY DEF Send
    <2> QED  BY <2>1 DEF SentFrames, SocketConstants
  <1>2. UNCHANGED <<conn, handler, delegated, resend, should, poll, loop, wanted>>  BY DEF Send
  <1> QED  BY <1>1, <1>2 DEF Queued, Numbered, ClosedIsUnwanted, LoopRuns, RequestsKept

LEMMA TakeFrameKeeps ==
  ASSUME SocketInv, TakeFrame
  PROVE  SocketInv'
  <1> USE DEF SocketInv
  <1> DEFINE f == Head(inbox)
  <1>1. f \in SentFrames /\ inbox' \in Seq(SentFrames)  BY DEF TakeFrame, Queued
  <1>2. UNCHANGED <<conn, delegated, poll, loop>>  BY DEF TakeFrame
  <1>3. CASE conn = "gone"
    <2>1. UNCHANGED <<handler, resend, should, wanted>>  BY <1>3 DEF TakeFrame
    <2> QED  BY <1>1, <1>2, <2>1 DEF Queued, Numbered, ClosedIsUnwanted, LoopRuns, RequestsKept
  <1>4. CASE conn # "gone"
    <2> HIDE DEF f
    <2>1. /\ handler'.pc = "find" /\ handler'.frame = f
          /\ IF f.type = "REQ" /\ conn = "open"
             THEN resend' = [resend EXCEPT ![f.key] = f.n] /\ should' = TRUE
             ELSE UNCHANGED <<resend, should>>
          /\ wanted' = IF f.type = "EVENT" THEN wanted
                       ELSE [wanted EXCEPT ![f.key] = IF f.type = "REQ" THEN f.n ELSE 0]
      BY <1>4 DEF TakeFrame, f
    <2>2. /\ f.type \in FrameTypes /\ f.n \in Nat \ {0}
          /\ f.type # "EVENT" => f.key \in Subs
      BY <1>1, SentFrame
    <2>3. Queued'  BY <1>1, <2>1 DEF Queued
    <2>4. Numbered'  BY <1>2, <2>1, <2>2 DEF Numbered
    <2>5. ClosedIsUnwanted'  BY <2>1, <2>2 DEF ClosedIsUnwanted, Numbered
    <2>6. RequestsKept'
      <3> SUFFICES ASSUME NEW s \in Subs, wanted'[s] # 0, conn' = "open"
                   PROVE  (s \in delegated' \/ resend'[s] # 0) /\ loop' # "ended" /\ should'
        BY DEF RequestsKept
      <3>1. CASE f.type = "REQ" /\ f.key = s
        <4>1. conn = "open" /\ resend' = [resend EXCEPT ![s] = f.n] /\ should' = TRUE
          BY <1>2, <2>1, <3>1
        <4>2. resend'[s] # 0  BY <2>2, <4>1 DEF Numbered
        <4> QED  BY <1>2, <4>1, <4>2 DEF LoopRuns
      <3>2. CASE ~(f.type = "REQ" /\ f.key = s)
        <4>1. wanted[s] # 0  BY <2>1, <2>2, <3>2 DEF Numbered
        <4>2. (s \in delegated \/ resend[s] # 0) /\ loop # "ended" /\ should
          BY <1>2, <4>1 DEF RequestsKept
        <4>3. resend[s] # 0 => resend'[s] # 0  BY <2>1, <2>2 DEF Numbered
        <4>4. should'  BY <2>1, <4>2
        <4> QED  BY <1>2, <4>2, <4>3, <4>4
      <3>3. QED  BY <3>1, <3>2
    <2> QED  BY <1>2, <2>3, <2>4, <2>5, <2>6 DEF LoopRuns
  <1> QED  BY <1>3, <1>4

LEMMA SocketEnds ==
  ASSUME SocketInv, Disconnect \/ CloseEvent \/ Flip
  PROVE  SocketInv'
  <1> USE DEF SocketInv
  <1>1. UNCHANGED <<inbox, handler, poll, wanted, delegated, should>>
    BY DEF Disconnect, CloseEvent, Flip
  <1>2. \/ UNCHANGED <<conn, resend, loop>>
        \/ conn' # "open" /\ (UNCHANGED resend \/ resend' = [s \in Subs |-> 0])
    BY DEF Disconnect, CloseEvent, Flip, CleanUp
  <1> QED  BY <1>1, <1>2 DEF Queued, Numbered, ClosedIsUnwanted, LoopRuns, RequestsKept

-----------------------------------------------------------------------------
(* The handler.                                                               *)
LEMMA ClosesKeep ==
  ASSUME SocketInv, handler.pc # "idle", handler.frame.type = "CLOSE", Closes
  PROVE  /\ resend' \in [Subs -> Nat] /\ handler'.pc = "idle" /\ should' = Polls(delegated', resend')
         /\ \A s \in Subs : wanted[s] # 0 => (s \in delegated \/ resend[s] # 0
                                             => s \in delegated' \/ resend'[s] # 0)
  <1>1. wanted[handler.frame.key] = 0 /\ resend \in [Subs -> Nat]
    BY DEF SocketInv, ClosedIsUnwanted, Numbered
  <1> QED  BY <1>1 DEF Closes, Without, Free

LEMMA DelegateKeeps ==
  ASSUME SocketInv, NEW k, Delegate(k)
  PROVE  /\ resend' \in [Subs -> Nat]
         /\ \A s \in Subs : s \in delegated \/ resend[s] # 0 => s \in delegated' \/ resend'[s] # 0
  BY DEF SocketInv, Numbered, Delegate

(* What a step of the handler leaves as it is, or loses nothing of.           *)
HandlerMoves ==
  /\ UNCHANGED <<inbox, loop, wanted>>
  /\ handler'.pc # "idle" => handler.pc # "idle" /\ handler'.frame = handler.frame
  /\ poll' \in PollsNumbered
  /\ resend' \in [Subs -> Nat]
  /\ conn' = "open" => conn = "open"
  /\ should /\ Polls(delegated', resend') => should'
  /\ \A s \in Subs : wanted[s] # 0 => (s \in delegated \/ resend[s] # 0
                                      => s \in delegated' \/ resend'[s] # 0)

LEMMA HandlerKeeps ==
  ASSUME SocketInv, HandlerMoves
  PROVE  SocketInv'
  <1>1. Queued' /\ Numbered' /\ ClosedIsUnwanted' /\ LoopRuns'
    BY DEF SocketInv, HandlerMoves, Queued, Numbered, ClosedIsUnwanted, LoopRuns
  <1>2. RequestsKept'
    <2>1. UNCHANGED <<wanted, loop>> /\ (conn' = "open" => conn = "open")  BY DEF HandlerMoves
    <2>2. should /\ Polls(delegated', resend') => should'  BY DEF HandlerMoves
    <2>3. \A s \in Subs : wanted[s] # 0 => (s \in delegated \/ resend[s] # 0
                                          => s \in delegated' \/ resend'[s] # 0)
      BY DEF HandlerMoves
    <2> QED  BY <2>1, <2>2, <2>3, KeepsRequests
  <1> QED  BY <1>1, <1>2 DEF SocketInv

LEMMA NoPeerMoves ==
  ASSUME SocketInv, handler.pc # "idle", NoPeer
  PROVE  /\ resend' \in [Subs -> Nat] /\ handler'.pc = "idle" /\ should' = Polls(delegated', resend')
         /\ \A s \in Subs : wanted[s] # 0 => (s \in delegated \/ resend[s] # 0
                                             => s \in delegated' \/ resend'[s] # 0)
  <1>1. CASE handler.frame.type = "CLOSE"  BY <1>1, ClosesKeep DEF NoPeer
  <1>2. CASE handler.frame.type # "CLOSE"  BY <1>2 DEF NoPeer, SocketInv, Numbered, Free
  <1> QED  BY <1>1, <1>2

LEMMA HandlerStepMoves ==
  ASSUME SocketInv, Find \/ Check \/ Forwarded \/ ForwardFails \/ Polled
  PROVE  HandlerMoves
  <1>1. resend \in [Subs -> Nat] /\ poll \in PollsNumbered  BY DEF SocketInv, Numbered
  <1>2. CASE Find \/ Check
    <2>1. UNCHANGED <<conn, inbox, poll, loop, wanted>> /\ handler.pc # "idle"  BY <1>2 DEF Find, Check
    <2>2. \/ NoPeer
          \/ /\ UNCHANGED <<delegated, resend, should>>
             /\ \E pc \in {"forward", "check"} : handler' = [handler EXCEPT !.pc = pc]
      BY <1>2 DEF Find, Check
    <2>3. CASE NoPeer  BY <1>1, <2>1, <2>3, NoPeerMoves DEF HandlerMoves
    <2>4. CASE /\ UNCHANGED <<delegated, resend, should>>
               /\ \E pc \in {"forward", "check"} : handler' = [handler EXCEPT !.pc = pc]
      <3>1. handler'.frame = handler.frame  BY <2>4
      <3> QED  BY <1>1, <2>1, <2>4, <3>1 DEF HandlerMoves
    <2> QED  BY <2>2, <2>3, <2>4
  <1>3. CASE Forwarded
    <2>1. UNCHANGED <<inbox, loop, wanted>> /\ handler.pc # "idle"  BY <1>3 DEF Forwarded
    <2>2. CASE handler.frame.type = "CLOSE" /\ Closes /\ UNCHANGED <<conn, poll>>
      BY <1>1, <2>1, <2>2, ClosesKeep DEF HandlerMoves
    <2>3. CASE /\ Delegate(handler.frame.key) /\ handler' = Free
               /\ conn' = IF conn = "open" THEN "closed" ELSE conn
               /\ UNCHANGED <<should, poll>>
      BY <1>1, <2>1, <2>3, DelegateKeeps DEF HandlerMoves, Free
    <2>4. CASE /\ Delegate(handler.frame.key) /\ should' = TRUE /\ UNCHANGED conn
               /\ handler' = IF handler.was THEN Free ELSE [handler EXCEPT !.pc = "polling"]
               /\ poll' = poll \/ poll' = [NoPoll EXCEPT !.pc = "find", !.had = HasPending']
      <3>1. handler'.pc # "idle" => handler'.frame = handler.frame  BY <2>4 DEF Free
      <3>2. poll' \in PollsNumbered
        <4>1. HasPending' \in BOOLEAN  BY DEF HasPending
        <4> QED  BY <1>1, <2>4, <4>1 DEF NoPoll, PollsNumbered
      <3> QED  BY <2>1, <2>4, <3>1, <3>2, DelegateKeeps DEF HandlerMoves
    <2> QED  BY <1>3, <2>2, <2>3, <2>4 DEF Forwarded
  <1>4. CASE ForwardFails
    <2>1. UNCHANGED <<conn, inbox, poll, loop, wanted>> /\ handler.pc # "idle"  BY <1>4 DEF ForwardFails
    <2>2. CASE handler.frame.type = "CLOSE"
      BY <1>1, <1>4, <2>1, <2>2, ClosesKeep DEF ForwardFails, HandlerMoves
    <2>3. CASE handler.frame.type # "CLOSE"
      BY <1>1, <1>4, <2>1, <2>3 DEF ForwardFails, HandlerMoves, Free
    <2> QED  BY <2>2, <2>3
  <1>5. CASE Polled  BY <1>1, <1>5 DEF Polled, HandlerMoves, Free
  <1> QED  BY <1>2, <1>3, <1>4, <1>5

-----------------------------------------------------------------------------
(* The poll and its loop.                                                     *)
PollMoves ==
  /\ UNCHANGED <<inbox, handler, wanted>>
  /\ poll' \in PollsNumbered
  /\ resend' \in [Subs -> Nat]
  /\ conn' = "open" => conn = "open"
  /\ loop' = "ended" => loop = "ended" \/ conn' # "open"
  /\ should /\ Polls(delegated', resend') /\ conn' = "open" => should'
  /\ conn' = "open" => \A s \in Subs :
       s \in delegated \/ resend[s] # 0 => s \in delegated' \/ resend'[s] # 0

LEMMA PollKeeps ==
  ASSUME SocketInv, PollMoves
  PROVE  SocketInv'
  <1>1. Queued' /\ Numbered' /\ ClosedIsUnwanted' /\ LoopRuns'
    BY DEF SocketInv, PollMoves, Queued, Numbered, ClosedIsUnwanted, LoopRuns
  <1>2. RequestsKept'
    <2>1. CASE conn' # "open"  BY <2>1 DEF RequestsKept
    <2>2. CASE conn' = "open"  BY <2>2, KeepsRequests DEF PollMoves
    <2> QED  BY <2>1, <2>2
  <1> QED  BY <1>1, <1>2 DEF SocketInv

(* A poll says that there is nothing to poll only if there is nothing.        *)
LEMMA PollStartsMoves ==
  ASSUME SocketInv, PollStarts, UNCHANGED <<conn, delegated, resend>>
  PROVE  /\ poll' \in PollsNumbered
         /\ should /\ Polls(delegated', resend') /\ conn' = "open" => should'
  <1>1. Polls(delegated', resend') = Polls(delegated, resend)  BY DEF Polls
  <1>2. HasPending \in BOOLEAN /\ poll \in PollsNumbered  BY DEF HasPending, SocketInv, Numbered
  <1>3. poll' \in PollsNumbered  BY <1>2 DEF PollStarts, PollsNumbered
  <1> QED  BY <1>1, <1>3 DEF PollStarts

LEMMA ResentMoves ==
  ASSUME NEW p \in PollsNumbered, Resent(p)
  PROVE  poll' \in PollsNumbered /\ (should /\ Polls(delegated', resend') => should')
  <1>1. NoPoll \in PollsNumbered /\ [p EXCEPT !.pc = "events"] \in PollsNumbered  BY DEF NoPoll, PollsNumbered
  <1>2. poll' \in PollsNumbered  BY <1>1 DEF Resent
  <1>3. should /\ Polls(delegated', resend') => should'  BY DEF Resent, Polls
  <1> QED  BY <1>2, <1>3

LEMMA SocketSteps ==
  ASSUME SocketConstants, SocketInv, [SocketNext]_socketVars
  PROVE  SocketInv'
  <1>1. resend \in [Subs -> Nat] /\ poll \in PollsNumbered  BY DEF SocketInv, Numbered
  <1>2. CASE LoopFires \/ Retry
    <2>1. UNCHANGED <<inbox, handler, wanted, delegated>>  BY <1>2 DEF LoopFires, Retry
    <2>2. CASE CleanUp /\ UNCHANGED <<poll, should>>
      <3>1. resend' \in [Subs -> Nat]  BY <1>1, <2>2 DEF CleanUp
      <3>2. PollMoves  BY <1>1, <2>1, <2>2, <3>1 DEF CleanUp, PollMoves
      <3> QED  BY <3>2, PollKeeps
    <2>3. CASE /\ UNCHANGED <<conn, resend>> /\ (loop' = loop \/ loop' = "polling")
               /\ PollStarts \/ UNCHANGED <<poll, should>>
      <3>1. PollMoves  BY <1>1, <2>1, <2>3, PollStartsMoves DEF PollMoves
      <3> QED  BY <3>1, PollKeeps
    <2> QED  BY <1>2, <2>2, <2>3 DEF LoopFires, Retry
  <1>3. CASE LoopAgain
    <2>1. PollMoves  BY <1>1, <1>3 DEF LoopAgain, PollMoves
    <2> QED  BY <2>1, PollKeeps
  <1>4. CASE PollFind \/ PollCheck
    <2>1. UNCHANGED <<conn, inbox, handler, loop, wanted, delegated, resend>>
      BY <1>4 DEF PollFind, PollCheck, PeerFound
    <2>2. CASE PeerFound
      <3> DEFINE p == [poll EXCEPT !.pc = "resend",
                         !.todo = IF poll.had THEN {<<s, resend[s]>> : s \in {q \in Subs : resend[q] # 0}}
                                  ELSE {}]
      <3>1. {<<s, resend[s]>> : s \in {q \in Subs : resend[q] # 0}} \subseteq Subs \X (Nat \ {0})
        BY <1>1
      <3>2. p \in PollsNumbered  BY <1>1, <3>1 DEF PollsNumbered
      <3>3. Resent(p)  BY <2>2 DEF PeerFound
      <3> HIDE DEF p
      <3>4. PollMoves  BY <1>1, <2>1, <3>2, <3>3, ResentMoves DEF PollMoves
      <3> QED  BY <3>4, PollKeeps
    <2>3. CASE UNCHANGED should /\ (poll' = [poll EXCEPT !.pc = "check"] \/ poll' = NoPoll)
      <3>1. NoPoll \in PollsNumbered /\ [poll EXCEPT !.pc = "check"] \in PollsNumbered
        BY <1>1 DEF NoPoll, PollsNumbered
      <3>2. poll' \in PollsNumbered  BY <2>3, <3>1
      <3>3. PollMoves  BY <1>1, <2>1, <2>3, <3>2 DEF PollMoves
      <3> QED  BY <3>3, PollKeeps
    <2> QED  BY <1>4, <2>2, <2>3 DEF PollFind, PollCheck
  <1>5. CASE PollResend
    <2>1. PICK e \in poll.todo :
            /\ IF up THEN Delegate(e[1])
               ELSE resend' = [resend EXCEPT ![e[1]] = e[2]] /\ UNCHANGED delegated
            /\ Resent([poll EXCEPT !.todo = @ \ {e}])
            /\ UNCHANGED <<conn, inbox, handler, loop, wanted>>
      BY <1>5 DEF PollResend
    <2>2. e[1] \in Subs /\ e[2] \in Nat \ {0}  BY <1>1, <2>1 DEF PollsNumbered
    <2>3. /\ resend' \in [Subs -> Nat]
          /\ \A s \in Subs : s \in delegated \/ resend[s] # 0 => s \in delegated' \/ resend'[s] # 0
      BY <1>1, <2>1, <2>2, DelegateKeeps
    <2>4. [poll EXCEPT !.todo = @ \ {e}] \in PollsNumbered  BY <1>1 DEF PollsNumbered
    <2>5. poll' \in PollsNumbered /\ (should /\ Polls(delegated', resend') => should')
      BY <2>1, <2>4, ResentMoves
    <2>6. PollMoves  BY <2>1, <2>3, <2>5 DEF PollMoves
    <2> QED  BY <2>6, PollKeeps
  <1>6. CASE PollEvents
    <2>1. poll' \in PollsNumbered  BY <1>6 DEF PollEvents, NoPoll, PollsNumbered
    <2>2. PollMoves  BY <1>1, <1>6, <2>1 DEF PollEvents, PollMoves
    <2> QED  BY <2>2, PollKeeps
  <1>7. CASE Find \/ Check \/ Forwarded \/ ForwardFails \/ Polled
    BY <1>7, HandlerStepMoves, HandlerKeeps
  <1>8. CASE UNCHANGED socketVars
    BY <1>8 DEF socketVars, SocketInv, Queued, Numbered, ClosedIsUnwanted, LoopRuns, RequestsKept
  <1> QED
    BY <1>2, <1>3, <1>4, <1>5, <1>6, <1>7, <1>8, SendKeeps, TakeFrameKeeps, SocketEnds
    DEF SocketNext, HandlerStep, PollStep

(* While the client is connected, no subscription that it wants is lost by a  *)
(* CLOSE, a poll, a failure or a check that overlaps: a peer has it or it is  *)
(* sent again, and the loop that polls for it runs (delegatedSubscriptions,   *)
(* pendingDelegations and shouldPollPeers of a connection).                   *)
THEOREM RequestsHold ==
  ASSUME SocketConstants
  PROVE  SocketSpec => []RequestsKept
  <1>1. SocketInit => SocketInv  BY SocketStart
  <1>2. SocketInv /\ [SocketNext]_socketVars => SocketInv'  BY SocketSteps
  <1>3. SocketInv => RequestsKept  BY DEF SocketInv
  <1> QED  BY <1>1, <1>2, <1>3, PTL DEF SocketSpec

-----------------------------------------------------------------------------
(* The types of the sockets.                                                  *)

LEMMA SocketTypeStart ==
  ASSUME SocketConstants, SocketInit
  PROVE  SocketTypeOK
  <1>1. Free \in HandlerStates  BY DEF Free, HandlerStates
  <1>2. NoPoll \in PollStates  BY DEF NoPoll, PollStates
  <1>3. <<>> \in Seq(Frames)  OBVIOUS
  <1>4. [s \in Subs |-> 0] \in [Subs -> 0..MaxFrames]  BY DEF SocketConstants
  <1>5. 0 \in 0..MaxFrames /\ 0 \in 0..MaxFlips /\ 0 \in 0..3  BY DEF SocketConstants
  <1> QED  BY <1>1, <1>2, <1>3, <1>4, <1>5 DEF SocketInit, SocketTypeOK

(* What the tables, the handler and the poll are after a step, if they are    *)
(* typed, is typed with the rest.                                             *)
LEMMA TablesTyped ==
  ASSUME SocketConstants, SocketTypeOK, NEW k \in Keys,
         Delegate(k) \/ Without(k) \/ UNCHANGED <<delegated, resend>>
  PROVE  delegated' \subseteq Keys /\ resend' \in [Subs -> 0..MaxFrames]
  <1>1. 0 \in 0..MaxFrames  BY DEF SocketConstants
  <1> QED  BY <1>1 DEF SocketTypeOK, Delegate, Without, Keys

LEMMA PollsIs ==
  ASSUME NEW d, NEW r
  PROVE  Polls(d, r) \in BOOLEAN
  BY DEF Polls

LEMMA ClosesTyped ==
  ASSUME SocketConstants, SocketTypeOK, handler.frame.key \in Keys, Closes \/ NoPeer
  PROVE  /\ delegated' \subseteq Keys /\ resend' \in [Subs -> 0..MaxFrames]
         /\ should' \in BOOLEAN /\ handler' \in HandlerStates
  <1>1. Free \in HandlerStates  BY DEF Free, HandlerStates
  <1>2. should' \in BOOLEAN  BY PollsIs DEF Closes, NoPeer
  <1> QED  BY <1>1, <1>2, TablesTyped DEF Closes, NoPeer

LEMMA ChecksTyped ==
  ASSUME SocketTypeOK
  PROVE  /\ CheckEnds => /\ health' \in {"none", "healthy", "unhealthy", "broken"}
                         /\ failures' \in 0..3 /\ checking' = "none"
         /\ SaysHealthy \/ SaysUnhealthy => health' \in {"none", "healthy", "unhealthy", "broken"}
  <1>1. ASSUME CheckEnds
        PROVE  /\ health' \in {"none", "healthy", "unhealthy", "broken"}
               /\ failures' \in 0..3 /\ checking' = "none"
    BY <1>1 DEF CheckEnds, SocketTypeOK
  <1>2. ASSUME SaysHealthy \/ SaysUnhealthy
        PROVE  health' \in {"none", "healthy", "unhealthy", "broken"}
    BY <1>2 DEF SaysHealthy, SaysUnhealthy, SocketTypeOK
  <1> QED  BY <1>1, <1>2

LEMMA HandlerTyped ==
  ASSUME SocketTypeOK
  PROVE  /\ handler.frame.key \in Keys /\ handler.wants \in BOOLEAN
         /\ \A pc \in {"forward", "check", "polling"} : [handler EXCEPT !.pc = pc] \in HandlerStates
  <1>1. handler \in HandlerStates  BY DEF SocketTypeOK
  <1>2. handler.frame \in Frames \union {NoFrame}  BY <1>1 DEF HandlerStates
  <1>3. handler.frame.key \in Keys  BY <1>2 DEF Frames, NoFrame, Keys
  <1> QED  BY <1>1, <1>3 DEF HandlerStates

LEMMA SendTyped ==
  ASSUME SocketConstants, SocketTypeOK, Send
  PROVE  SocketTypeOK'
  <1>1. PICK f \in Frames : inbox' = Append(inbox, f)  BY DEF Send
  <1>2. inbox' \in Seq(Frames)  BY <1>1 DEF SocketTypeOK
  <1>3. frames' \in 0..MaxFrames  BY DEF Send, SocketTypeOK, SocketConstants
  <1> QED  BY <1>2, <1>3 DEF Send, SocketTypeOK, peerVars

LEMMA TakeFrameTyped ==
  ASSUME SocketConstants, SocketTypeOK, TakeFrame
  PROVE  SocketTypeOK'
  <1> DEFINE f == Head(inbox)
             w == f.type = "REQ" /\ conn = "open"
  <1>1. f \in Frames /\ inbox' \in Seq(Frames)  BY DEF TakeFrame, SocketTypeOK
  <1>2. f.n \in 0..MaxFrames /\ 0 \in 0..MaxFrames  BY <1>1 DEF Frames, SocketConstants
  <1>3. /\ \/ handler' = handler
           \/ handler' = [pc |-> "find", frame |-> f, wants |-> w, was |-> should]
        /\ resend' = resend \/ resend' = [resend EXCEPT ![f.key] = f.n]
        /\ should' = should \/ should' = TRUE
        /\ \/ wanted' = wanted
           \/ \E n \in {0, f.n} : wanted' = [wanted EXCEPT ![f.key] = n]
    BY DEF TakeFrame
  <1>4. w \in BOOLEAN  OBVIOUS
  <1> HIDE DEF f, w
  <1>5. handler' \in HandlerStates  BY <1>1, <1>3, <1>4 DEF HandlerStates, SocketTypeOK
  <1>6. resend' \in [Subs -> 0..MaxFrames] /\ wanted' \in [Subs -> 0..MaxFrames]
    <2>1. resend \in [Subs -> 0..MaxFrames] /\ wanted \in [Subs -> 0..MaxFrames]  BY DEF SocketTypeOK
    <2>2. ASSUME NEW n \in 0..MaxFrames, NEW g \in [Subs -> 0..MaxFrames]
          PROVE  [g EXCEPT ![f.key] = n] \in [Subs -> 0..MaxFrames]
      OBVIOUS
    <2> QED  BY <1>2, <1>3, <2>1, <2>2
  <1>7. should' \in BOOLEAN  BY <1>3 DEF SocketTypeOK
  <1> QED  BY <1>1, <1>5, <1>6, <1>7 DEF TakeFrame, SocketTypeOK, peerVars, clientVars

LEMMA SocketEndsTyped ==
  ASSUME SocketConstants, SocketTypeOK, Disconnect \/ CloseEvent \/ Flip
  PROVE  SocketTypeOK'
  <1>1. 0 \in 0..MaxFrames  BY DEF SocketConstants
  <1>2. CASE Disconnect  BY <1>2 DEF Disconnect, SocketTypeOK, peerVars, clientVars
  <1>3. CASE CloseEvent  BY <1>1, <1>3 DEF CloseEvent, CleanUp, SocketTypeOK, peerVars, clientVars
  <1>4. CASE Flip
    <2>1. flips' \in 0..MaxFlips /\ up' \in BOOLEAN  BY <1>4 DEF Flip, SocketTypeOK, SocketConstants
    <2> QED  BY <1>4, <2>1 DEF Flip, SocketTypeOK, peerVars
  <1> QED  BY <1>2, <1>3, <1>4

LEMMA HandlerStepTyped ==
  ASSUME SocketConstants, SocketTypeOK, Find \/ Check \/ Forwarded \/ ForwardFails \/ Polled
  PROVE  SocketTypeOK'
  <1>1. Free \in HandlerStates  BY DEF Free, HandlerStates
  <1>2. CASE Find
    <2>1. /\ delegated' \subseteq Keys /\ resend' \in [Subs -> 0..MaxFrames]
          /\ should' \in BOOLEAN /\ handler' \in HandlerStates
      BY <1>2, ClosesTyped, HandlerTyped DEF Find, SocketTypeOK
    <2>2. checking' \in {"none", "handler", "poll"}  BY <1>2 DEF Find, SocketTypeOK
    <2>3. health' \in {"none", "healthy", "unhealthy", "broken"}  BY <1>2, ChecksTyped DEF Find
    <2> QED  BY <1>2, <2>1, <2>2, <2>3 DEF Find, SocketTypeOK, clientVars
  <1>3. CASE Check
    <2>1. /\ delegated' \subseteq Keys /\ resend' \in [Subs -> 0..MaxFrames]
          /\ should' \in BOOLEAN /\ handler' \in HandlerStates
      BY <1>3, ClosesTyped, HandlerTyped DEF Check, SocketTypeOK
    <2> QED  BY <1>3, <2>1, ChecksTyped DEF Check, SocketTypeOK, clientVars
  <1>4. CASE Forwarded
    <2>1. /\ delegated' \subseteq Keys /\ resend' \in [Subs -> 0..MaxFrames]
      BY <1>4, ClosesTyped, TablesTyped, HandlerTyped DEF Forwarded
    <2>2. should' \in BOOLEAN /\ handler' \in HandlerStates
      BY <1>1, <1>4, ClosesTyped, HandlerTyped DEF Forwarded, SocketTypeOK
    <2>3. poll' \in PollStates
      <3>1. HasPending' \in BOOLEAN  BY DEF HasPending
      <3> QED  BY <1>4, <3>1 DEF Forwarded, SocketTypeOK, NoPoll, PollStates
    <2>4. conn' \in {"open", "closed", "gone"}  BY <1>4 DEF Forwarded, SocketTypeOK
    <2> QED  BY <1>4, <2>1, <2>2, <2>3, <2>4 DEF Forwarded, SocketTypeOK, peerVars, clientVars
  <1>5. CASE ForwardFails
    <2>1. /\ delegated' \subseteq Keys /\ resend' \in [Subs -> 0..MaxFrames]
          /\ handler' \in HandlerStates
      BY <1>1, <1>5, ClosesTyped, HandlerTyped DEF ForwardFails, SocketTypeOK
    <2>2. should' \in BOOLEAN  BY <1>5, PollsIs DEF ForwardFails, Closes
    <2>3. retry' \in BOOLEAN  BY <1>5 DEF ForwardFails, SocketTypeOK
    <2> QED  BY <1>5, <2>1, <2>2, <2>3 DEF ForwardFails, SocketTypeOK, peerVars, clientVars
  <1>6. CASE Polled  BY <1>1, <1>6 DEF Polled, SocketTypeOK, peerVars, clientVars
  <1> QED  BY <1>2, <1>3, <1>4, <1>5, <1>6

LEMMA PollStartsTyped ==
  ASSUME SocketTypeOK, PollStarts \/ UNCHANGED <<poll, should>>
  PROVE  poll' \in PollStates /\ should' \in BOOLEAN
  <1>1. HasPending \in BOOLEAN  BY DEF HasPending
  <1>2. poll' \in PollStates  BY <1>1 DEF PollStarts, SocketTypeOK, PollStates
  <1>3. should' \in BOOLEAN  BY DEF PollStarts, SocketTypeOK
  <1> QED  BY <1>2, <1>3

LEMMA LoopTyped ==
  ASSUME SocketConstants, SocketTypeOK, LoopFires \/ LoopAgain \/ Retry
  PROVE  SocketTypeOK'
  <1>1. 0 \in 0..MaxFrames  BY DEF SocketConstants
  <1>2. /\ loop' \in {"armed", "polling", "ended"} /\ retry' \in BOOLEAN
        /\ conn' \in {"open", "closed", "gone"} /\ resend' \in [Subs -> 0..MaxFrames]
    BY <1>1 DEF LoopFires, LoopAgain, Retry, CleanUp, SocketTypeOK
  <1>3. poll' \in PollStates /\ should' \in BOOLEAN
    BY PollStartsTyped DEF LoopFires, LoopAgain, Retry
  <1>4. UNCHANGED <<inbox, handler, delegated, peerVars, clientVars, wanted>>
    BY DEF LoopFires, LoopAgain, Retry
  <1> QED  BY <1>2, <1>3, <1>4 DEF SocketTypeOK, peerVars, clientVars

LEMMA ResentTyped ==
  ASSUME SocketTypeOK, NEW p \in PollStates, Resent(p)
  PROVE  poll' \in PollStates /\ should' \in BOOLEAN
  <1>1. NoPoll \in PollStates /\ [p EXCEPT !.pc = "events"] \in PollStates  BY DEF NoPoll, PollStates
  <1>2. poll' \in PollStates  BY <1>1 DEF Resent
  <1>3. should' \in BOOLEAN  BY DEF Resent, SocketTypeOK
  <1> QED  BY <1>2, <1>3

LEMMA PeerFoundTyped ==
  ASSUME SocketTypeOK, PeerFound
  PROVE  poll' \in PollStates /\ should' \in BOOLEAN
  <1> DEFINE p == [poll EXCEPT !.pc = "resend",
                     !.todo = IF poll.had THEN {<<s, resend[s]>> : s \in {q \in Subs : resend[q] # 0}}
                              ELSE {}]
  <1>1. {<<s, resend[s]>> : s \in {q \in Subs : resend[q] # 0}} \subseteq Subs \X (1..MaxFrames)
    BY DEF SocketTypeOK
  <1>2. p \in PollStates  BY <1>1 DEF PollStates, SocketTypeOK
  <1>3. Resent(p)  BY DEF PeerFound
  <1> HIDE DEF p
  <1> QED  BY <1>2, <1>3, ResentTyped

LEMMA PollStepTyped ==
  ASSUME SocketConstants, SocketTypeOK, PollStep
  PROVE  SocketTypeOK'
  <1>1. NoPoll \in PollStates /\ [poll EXCEPT !.pc = "check"] \in PollStates
    BY DEF NoPoll, PollStates, SocketTypeOK
  <1>2. CASE PollFind
    <2>1. poll' \in PollStates /\ should' \in BOOLEAN
      BY <1>1, <1>2, PeerFoundTyped DEF PollFind, SocketTypeOK
    <2>2. checking' \in {"none", "handler", "poll"}  BY <1>2 DEF PollFind, SocketTypeOK
    <2>3. health' \in {"none", "healthy", "unhealthy", "broken"}  BY <1>2, ChecksTyped DEF PollFind
    <2>4. UNCHANGED <<conn, inbox, handler, loop, retry, failures, clientVars, wanted, delegated, resend>>
      BY <1>2 DEF PollFind, PeerFound
    <2> QED  BY <2>1, <2>2, <2>3, <2>4 DEF SocketTypeOK, clientVars
  <1>3. CASE PollCheck
    <2>1. poll' \in PollStates /\ should' \in BOOLEAN
      BY <1>1, <1>3, PeerFoundTyped DEF PollCheck, SocketTypeOK
    <2>2. UNCHANGED <<conn, inbox, handler, loop, retry, clientVars, wanted, delegated, resend>>
      BY <1>3 DEF PollCheck, PeerFound
    <2> QED  BY <1>3, <2>1, <2>2, ChecksTyped DEF PollCheck, SocketTypeOK, clientVars
  <1>4. CASE PollResend
    <2>1. PICK e \in poll.todo :
            /\ IF up THEN Delegate(e[1])
               ELSE resend' = [resend EXCEPT ![e[1]] = e[2]] /\ UNCHANGED delegated
            /\ Resent([poll EXCEPT !.todo = @ \ {e}])
            /\ UNCHANGED <<conn, inbox, handler, loop, retry, peerVars, clientVars, wanted>>
      BY <1>4 DEF PollResend
    <2>2. e[1] \in Subs /\ e[2] \in 0..MaxFrames  BY <2>1 DEF PollStates, SocketTypeOK
    <2>3. e[1] \in Keys  BY <2>2 DEF Keys
    <2>4. delegated' \subseteq Keys /\ resend' \in [Subs -> 0..MaxFrames]
      <3>1. CASE up  BY <2>1, <2>3, <3>1, TablesTyped
      <3>2. CASE ~up  BY <2>1, <2>2, <3>2 DEF SocketTypeOK
      <3> QED  BY <3>1, <3>2
    <2>5. [poll EXCEPT !.todo = @ \ {e}] \in PollStates  BY DEF PollStates, SocketTypeOK
    <2>6. poll' \in PollStates /\ should' \in BOOLEAN  BY <2>1, <2>5, ResentTyped
    <2> QED  BY <2>1, <2>4, <2>6 DEF SocketTypeOK, peerVars, clientVars
  <1>5. CASE PollEvents  BY <1>1, <1>5 DEF PollEvents, SocketTypeOK, peerVars, clientVars
  <1> QED  BY <1>2, <1>3, <1>4, <1>5 DEF PollStep

LEMMA SocketTyped ==
  ASSUME SocketConstants
  PROVE  SocketSpec => []SocketTypeOK
  <1>1. SocketInit => SocketTypeOK  BY SocketTypeStart
  <1>2. SocketTypeOK /\ [SocketNext]_socketVars => SocketTypeOK'
    <2>1. CASE UNCHANGED socketVars  BY <2>1 DEF socketVars, SocketTypeOK
    <2> QED
      BY <2>1, SendTyped, TakeFrameTyped, SocketEndsTyped, HandlerStepTyped, LoopTyped, PollStepTyped
      DEF SocketNext, HandlerStep
  <1> QED  BY <1>1, <1>2, PTL DEF SocketSpec

-----------------------------------------------------------------------------
(* What is known of a public gateway                                          *)

LEMMA SecretsStart ==
  ASSUME DiscoveryInit
  PROVE  verified \in BOOLEAN /\ SecretsVerified
  BY DEF DiscoveryInit, SecretsVerified

LEMMA RefreshedEntry ==
  ASSUME verified \in BOOLEAN, SecretsVerified, RefreshEntry
  PROVE  verified' \in BOOLEAN /\ SecretsVerified'
  BY DEF RefreshEntry, SecretsVerified

LEMMA SecretSteps ==
  ASSUME verified \in BOOLEAN, SecretsVerified, [DiscoveryNext]_discoveryVars
  PROVE  verified' \in BOOLEAN /\ SecretsVerified'
  <1>1. CASE Announce  BY <1>1, RefreshedEntry DEF Announce
  <1>2. CASE CleanUpExpired  BY <1>2, RefreshedEntry DEF CleanUpExpired, SecretsVerified
  <1>3. CASE FetchEnds  BY <1>3 DEF FetchEnds, SecretsVerified
  <1>4. CASE UNCHANGED <<secret, secretHash, verified>>  BY <1>4 DEF SecretsVerified
  <1> QED
    BY <1>1, <1>2, <1>3, <1>4
    DEF DiscoveryNext, SourceExpires, OrphanEnds, Look, Serve, discoveryVars

(* A secret that counts as verified is that of the hash announced, whatever   *)
(* was announced, expired or dropped while it was fetched (the entries of     *)
(* PublicGatewayDiscoveryClient).                                             *)
THEOREM SecretsHold == DiscoverySpec => []SecretsVerified
  <1>1. DiscoveryInit => verified \in BOOLEAN /\ SecretsVerified  BY SecretsStart
  <1>2. verified \in BOOLEAN /\ SecretsVerified /\ [DiscoveryNext]_discoveryVars
        => (verified \in BOOLEAN /\ SecretsVerified)'
    BY SecretSteps
  <1> QED  BY <1>1, <1>2, PTL DEF DiscoverySpec

LEMMA EntryTyped ==
  ASSUME DiscoveryTypeOK, RefreshEntry, sources' \in [SourceNames -> [age : Ages, hash : AnyHash]]
  PROVE  secretHash' \in AnyHash /\ secret' \in AnyHash /\ verified' \in BOOLEAN
  <1>1. PICK s \in SourceNames :
          LET hash == sources'[s].hash
              stale == secretHash # NoHash /\ secretHash # hash
          IN /\ secretHash' = hash
             /\ secret' = IF stale THEN NoHash ELSE secret
             /\ verified' = (verified /\ ~stale)
    BY DEF RefreshEntry, Active, SourceNames
  <1> QED  BY <1>1 DEF DiscoveryTypeOK, AnyHash

LEMMA DiscoveryTyped ==
  ASSUME DiscoveryConstants
  PROVE  DiscoverySpec => []DiscoveryTypeOK
  <1>1. DiscoveryInit => DiscoveryTypeOK
    <2> SUFFICES ASSUME DiscoveryInit PROVE DiscoveryTypeOK
      OBVIOUS
    <2>1. NoSource \in [age : Ages, hash : AnyHash]  BY DEF NoSource, Ages, AnyHash
    <2>2. sources \in [SourceNames -> [age : Ages, hash : AnyHash]]  BY <2>1 DEF DiscoveryInit
    <2>3. announces \in 0..MaxAnnounces /\ changesServed \in 0..MaxServed
      BY DEF DiscoveryInit, DiscoveryConstants
    <2>4. NoHash \in AnyHash /\ served \in AnyHash  BY DEF AnyHash, DiscoveryInit
    <2> QED  BY <2>2, <2>3, <2>4 DEF DiscoveryInit, DiscoveryTypeOK
  <1>2. DiscoveryTypeOK /\ [DiscoveryNext]_discoveryVars => DiscoveryTypeOK'
    <2> SUFFICES ASSUME DiscoveryTypeOK, [DiscoveryNext]_discoveryVars PROVE DiscoveryTypeOK'
      OBVIOUS
    <2>0. NoSource \in [age : Ages, hash : AnyHash]  BY DEF NoSource, Ages, AnyHash
    <2>1. CASE Announce
      <3>1. PICK s \in SourceNames, hash \in AnyHash :
              sources' = [sources EXCEPT ![s] = [age |-> "fresh", hash |-> hash]]
        BY <2>1 DEF Announce
      <3>2. sources' \in [SourceNames -> [age : Ages, hash : AnyHash]]
        BY <3>1 DEF DiscoveryTypeOK, Ages
      <3>3. secretHash' \in AnyHash /\ secret' \in AnyHash /\ verified' \in BOOLEAN
        BY <2>1, <3>2, EntryTyped DEF Announce
      <3>4. fetching' \in BOOLEAN  BY <2>1 DEF Announce, Ensure, DiscoveryTypeOK
      <3>5. announces' \in 0..MaxAnnounces  BY <2>1 DEF Announce, DiscoveryTypeOK, DiscoveryConstants
      <3> QED  BY <2>1, <3>2, <3>3, <3>4, <3>5 DEF Announce, DiscoveryTypeOK
    <2>2. CASE SourceExpires
      <3>1. sources' \in [SourceNames -> [age : Ages, hash : AnyHash]]
        BY <2>2 DEF SourceExpires, DiscoveryTypeOK, Ages
      <3> QED  BY <2>2, <3>1 DEF SourceExpires, DiscoveryTypeOK
    <2>3. CASE CleanUpExpired
      <3>1. sources' \in [SourceNames -> [age : Ages, hash : AnyHash]]
        BY <2>0, <2>3 DEF CleanUpExpired, DiscoveryTypeOK
      <3>2. /\ secretHash' \in AnyHash /\ secret' \in AnyHash /\ verified' \in BOOLEAN
            /\ fetching' \in BOOLEAN /\ orphans' \in BOOLEAN
        <4>1. CASE RefreshEntry /\ UNCHANGED <<fetching, orphans>>
          BY <3>1, <4>1, EntryTyped DEF DiscoveryTypeOK
        <4>2. CASE /\ secretHash' = NoHash /\ secret' = NoHash /\ verified' = FALSE
                   /\ fetching' = FALSE /\ orphans' = (orphans \/ fetching)
          BY <4>2 DEF AnyHash, DiscoveryTypeOK
        <4> QED  BY <2>3, <4>1, <4>2 DEF CleanUpExpired
      <3>3. look' \in BOOLEAN  BY <2>3 DEF CleanUpExpired, DiscoveryTypeOK
      <3> QED  BY <2>3, <3>1, <3>2, <3>3 DEF CleanUpExpired, DiscoveryTypeOK
    <2>4. CASE FetchEnds
      <3>1. secret' \in AnyHash /\ verified' \in BOOLEAN
        BY <2>4 DEF FetchEnds, DiscoveryTypeOK, AnyHash
      <3> QED  BY <2>4, <3>1 DEF FetchEnds, DiscoveryTypeOK
    <2>5. CASE OrphanEnds  BY <2>5 DEF OrphanEnds, DiscoveryTypeOK
    <2>6. CASE Look
      <3>1. fetching' \in BOOLEAN  BY <2>6 DEF Look, Ensure, DiscoveryTypeOK
      <3> QED  BY <2>6, <3>1 DEF Look, DiscoveryTypeOK
    <2>7. CASE Serve
      <3>1. changesServed' \in 0..MaxServed  BY <2>7 DEF Serve, DiscoveryTypeOK, DiscoveryConstants
      <3> QED  BY <2>7, <3>1 DEF Serve, DiscoveryTypeOK
    <2>8. CASE UNCHANGED discoveryVars  BY <2>8 DEF discoveryVars, DiscoveryTypeOK
    <2> QED  BY <2>1, <2>2, <2>3, <2>4, <2>5, <2>6, <2>7, <2>8 DEF DiscoveryNext
  <1> QED  BY <1>1, <1>2, PTL DEF DiscoverySpec

-----------------------------------------------------------------------------
(* The gateway service                                                        *)

(* The three parts of the service share no variable, so whatever interleaves  *)
(* the client, the calls, the timers and the announcements, a subscription is *)
(* not lost, a token is looked after and a verified secret is the announced.  *)
THEOREM GatewayKeeps ==
  ASSUME ServiceConstants
  PROVE  ServiceSpec => []GatewayKept
  <1>1. SocketSpec => []RequestsKept  BY RequestsHold DEF ServiceConstants
  <1>2. TokenSpec => []TokensKept  BY TokensLookedAfter DEF ServiceConstants
  <1>3. DiscoverySpec => []SecretsVerified  BY SecretsHold
  <1> QED  BY <1>1, <1>2, <1>3, PTL DEF ServiceSpec, GatewayKept

LEMMA PoolTyped == Spec => []TypeOK
  <1>1. Init => IInv  BY InitInvariant
  <1>2. IInv /\ [Next]_vars => IInv'  BY StepInvariant
  <1>3. IInv => TypeOK  BY DEF IInv
  <1> QED  BY <1>1, <1>2, <1>3, PTL DEF Spec

(* Every variable of the pool, the sockets, the tokens and the discovery has  *)
(* its type, whatever their constants: a health check fails at most three     *)
(* times, what is sent again has the number of a frame, a secret is one that  *)
(* was announced or none.                                                     *)
THEOREM GatewayTyped ==
  ASSUME ServiceConstants
  PROVE  ServiceSpec => []GatewayTypeOK
  <1>1. TokenInv => TokenTypeOK  BY DEF TokenInv
  <1>2. TokenSpec => []TokenTypeOK  BY <1>1, TokenInvKept, PTL DEF ServiceConstants
  <1>3. SocketSpec => []SocketTypeOK  BY SocketTyped DEF ServiceConstants
  <1>4. DiscoverySpec => []DiscoveryTypeOK  BY DiscoveryTyped DEF ServiceConstants
  <1> QED  BY <1>2, <1>3, <1>4, PoolTyped, PTL DEF ServiceSpec, GatewayTypeOK
=============================================================================
